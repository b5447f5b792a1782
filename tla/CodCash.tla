------------------------------ MODULE CodCash ------------------------------
(***************************************************************************)
(* What the COD book promises: the cash of an order is in one hand at any  *)
(* time.  It passes once from the customer to the agent who delivers, and  *)
(* once from that agent to the farm, with other cash of the same agent.    *)
(***************************************************************************)
CONSTANTS Orders, Agents, Customer, Farm

VARIABLE holder

Init == holder = [o \in Orders |-> Customer]

Collect(o, a) ==
  /\ holder[o] = Customer
  /\ holder' = [holder EXCEPT ![o] = a]

HandOver(a, os) ==
  /\ os # {}
  /\ \A o \in os : holder[o] = a
  /\ holder' = [o \in Orders |-> IF o \in os THEN Farm ELSE holder[o]]

Next ==
  \/ \E o \in Orders, a \in Agents : Collect(o, a)
  \/ \E a \in Agents, os \in SUBSET Orders : HandOver(a, os)

Spec == Init /\ [][Next]_holder
=============================================================================
