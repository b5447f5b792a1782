----------------------------- MODULE MCDelivery -----------------------------
\* The instance of Delivery for TLC.
EXTENDS Delivery, TLC

CONSTANTS o1, o2, a1, a2, s1, s2, h1, h2

TwoOrders      == {o1, o2}
TwoAgents      == {a1, a2}
TwoSettlements == {s1, s2}
TwoHandlers    == {h1, h2}

\* Nothing tells two orders, agents, settlements or requests apart.
Symmetry == Permutations(TwoOrders) \cup Permutations(TwoAgents) \cup Permutations(TwoSettlements)
              \cup Permutations(TwoHandlers)
=============================================================================
