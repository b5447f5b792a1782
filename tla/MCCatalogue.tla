---------------------------- MODULE MCCatalogue -----------------------------
\* The instance of Catalogue for TLC.
EXTENDS Catalogue, TLC

CONSTANTS milk, ghee, o1, h1, h2, s1

TwoSkus     == {milk, ghee}
OneOrder    == {o1}
TwoHandlers == {h1, h2}
OneScript   == {s1}
ThreePrices == {1, 2, 3}

Put(fate, price, policy, qty) ==
  [fate |-> fate, stock |-> qty, terms |-> [price |-> price, policy |-> policy, active |-> TRUE]]

\* The list as it is, one that reprices a variant, makes it to order although it
\* has a quantity, and drops the other, and one that renames a product and leaves
\* the other out.
ThreeLists ==
  {(milk :> Put("listed", 1, "tracked", 2)       @@ ghee :> Put("listed", 2, "tracked", 2)),
   (milk :> Put("listed", 2, "made_to_order", 1) @@ ghee :> Put("dropped", 2, "tracked", 2)),
   (milk :> Put("renamed", 1, "tracked", 2)      @@ ghee :> Put("retired", 2, "tracked", 2))}

TwoCarts == {(milk :> 2 @@ ghee :> 1), (milk :> 0 @@ ghee :> 2)}

\* Nothing tells two requests apart.
Symmetry == Permutations(TwoHandlers)
=============================================================================
