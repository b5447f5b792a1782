--------------------------- MODULE OrderLifecycle ---------------------------
(***************************************************************************)
(* What the order subsystem promises about an order, with no database, no  *)
(* concurrent requests and no payment gateway: its status walks the        *)
(* lifecycle graph forwards, and the goods reserved for it are settled     *)
(* exactly once, at the moment the order is first cancelled or refunded:   *)
(* back on the shelf when they never left the shop, written off otherwise. *)
(* OrderPayments implements this module.                                   *)
(***************************************************************************)
EXTENDS OrderState

CONSTANT Orders

VARIABLES status,   \* orders.status
          goods     \* what became of the stock reserved for the order

Goods == {"reserved", "restocked", "written_off"}

LifecycleVars == <<status, goods>>

LifecycleInit ==
  /\ status = [o \in Orders |-> Pending]
  /\ goods  = [o \in Orders |-> "reserved"]

\* The goods of an order that moves between two statuses.
GoodsAfter(g, from, to) ==
  IF g = "reserved" /\ to \in CancelOrRefund
    THEN IF ReleasesStock(from, to) THEN "restocked" ELSE "written_off"
    ELSE g

Move(o, s) ==
  /\ CanTransition(status[o], s)
  /\ status' = [status EXCEPT ![o] = s]
  /\ goods'  = [goods EXCEPT ![o] = GoodsAfter(goods[o], status[o], s)]

LifecycleNext == \E o \in Orders, s \in Statuses : Move(o, s)

LifecycleSpec == LifecycleInit /\ [][LifecycleNext]_LifecycleVars
=============================================================================
