-------------------------------- MODULE Shop --------------------------------
(***************************************************************************)
(* What placing an order promises: in one step the order is there, its key *)
(* names it, and its counted goods, all of them on sale at this moment,    *)
(* have left the shelf.  They come back once, from an order that is live.  *)
(***************************************************************************)
EXTENDS Integers

CONSTANTS Skus, Keys, Orders, Requests, NoOrder, NoRequest

VARIABLES stock, policy, active, status, placed, claim

vars == <<stock, policy, active, status, placed, claim>>

Counted(s) == policy[s] = "tracked"

Init ==
  /\ \A s \in Skus : stock[s] >= 0 /\ active[s]
  /\ status = [o \in Orders |-> "unused"]
  /\ placed = [o \in Orders |-> NoRequest]
  /\ claim  = [k \in Keys |-> NoOrder]

\* What cart holds of s, as far as it is counted.
Goods(cart, s) == IF Counted(s) THEN cart[s] ELSE 0

Place(k, r, o) ==
  /\ claim[k] = NoOrder /\ status[o] = "unused"
  /\ \A s \in Skus : Goods(r.cart, s) > 0 => active[s] /\ stock[s] >= r.cart[s]
  /\ stock'  = [s \in Skus |-> stock[s] - Goods(r.cart, s)]
  /\ status' = [status EXCEPT ![o] = "live"]
  /\ placed' = [placed EXCEPT ![o] = r]
  /\ claim'  = [claim EXCEPT ![k] = o]
  /\ UNCHANGED <<policy, active>>

Cancel(o) ==
  /\ status[o] = "live"
  /\ stock'  = [s \in Skus |-> stock[s] + Goods(placed[o].cart, s)]
  /\ status' = [status EXCEPT ![o] = "over"]
  /\ UNCHANGED <<policy, active, placed, claim>>

Deliver(o) ==
  /\ status[o] = "live"
  /\ status' = [status EXCEPT ![o] = "delivered"]
  /\ UNCHANGED <<stock, policy, active, placed, claim>>

\* The owner counts, corrects or switches a variant; no order is touched.
Tend(s) ==
  /\ stock'[s] >= 0 /\ stock' = [stock EXCEPT ![s] = stock'[s]]
  /\ \E b \in BOOLEAN : active' = [active EXCEPT ![s] = b]
  /\ UNCHANGED <<policy, status, placed, claim>>

Next ==
  \/ \E k \in Keys, r \in Requests, o \in Orders : Place(k, r, o)
  \/ \E o \in Orders : Cancel(o) \/ Deliver(o)
  \/ \E s \in Skus : Tend(s)

Spec == Init /\ [][Next]_vars
=============================================================================
