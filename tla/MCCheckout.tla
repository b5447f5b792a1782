----------------------------- MODULE MCCheckout -----------------------------
\* Instances of Checkout for TLC.
EXTENDS Checkout, TLC

CONSTANTS s1, s2, k1, k2, o1, o2, h1, h2

OneSku      == {s1}
TwoSkus     == {s1, s2}
TwoKeys     == {k1, k2}
TwoOrders   == {o1, o2}
TwoHandlers == {h1, h2}

\* One of the first variant, and as much of every one as a full shelf holds.
Small  == [s \in Skus |-> IF s = s1 THEN 1 ELSE 0]
Large  == [s \in Skus |-> MaxShelf]
TwoCarts == {Small, Large}

Shelf       == {0, 2}
Corrections == {-1, 1}

Symmetry == Permutations(Keys) \cup Permutations(Orders) \cup Permutations(Handlers)
=============================================================================
