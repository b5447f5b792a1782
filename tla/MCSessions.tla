----------------------------- MODULE MCSessions -----------------------------
\* Instances of Sessions for TLC.
EXTENDS Sessions, TLC, FiniteSets

CONSTANTS d1, d2, h1, h2, t1, t2, t3

OneDevice   == {d1}
TwoDevices  == {d1, d2}
OneHandler  == {h1}
TwoHandlers == {h1, h2}
ThreeTokens == {t1, t2, t3}

\* LogoutAnsweredIsFinal is about one answer at a time.
OneAnswer == Cardinality(answers) <= 1

Symmetry == Permutations(ThreeTokens) \cup Permutations(TwoHandlers)
              \cup Permutations(TwoDevices)
=============================================================================
