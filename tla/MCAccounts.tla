----------------------------- MODULE MCAccounts -----------------------------
\* The instance of Accounts for TLC.
EXTENDS Accounts, TLC

CONSTANTS u1, u2, l1, l2, l3, o1, t1, t2, t3, h1, h2

TwoAccounts == {u1, u2}
ThreeLabels == {l1, l2, l3}
OneOrder    == {o1}
ThreeTokens == {t1, t2, t3}
TwoHandlers == {h1, h2}

\* Nothing tells two accounts, labels, tokens or requests apart.
Symmetry == Permutations(TwoAccounts) \cup Permutations(ThreeLabels)
              \cup Permutations(ThreeTokens) \cup Permutations(TwoHandlers)
=============================================================================
