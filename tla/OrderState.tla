----------------------------- MODULE OrderState -----------------------------
(***************************************************************************)
(* The order lifecycle graph of app/domain/order_state.py, as constants.   *)
(* Status names are the values of the OrderStatus enum.                    *)
(***************************************************************************)

Pending        == "pending_payment"
Confirmed      == "confirmed"
Packed         == "packed"
OutForDelivery == "out_for_delivery"
Delivered      == "delivered"
Cancelled      == "cancelled"
Refunded       == "refunded"

Statuses == {Pending, Confirmed, Packed, OutForDelivery, Delivered,
             Cancelled, Refunded}

\* CANCEL_OR_REFUND_TARGETS: the targets that go through OrderService._cancel.
CancelOrRefund == {Cancelled, Refunded}

\* _NOT_YET_DISPATCHED: the goods are still in the shop.
NotYetDispatched == {Pending, Confirmed, Packed}

\* Mutant: the rule that CUSTOMER_CANCELLABLE replaced.
CustomerCancellableOld == {Pending, Confirmed, Packed}

\* CUSTOMER_CANCELLABLE
CustomerCancellable == {Pending}

\* _ALLOWED: the edges of the graph, by the status they leave.
Allowed ==
  UNION { {Pending}        \X {Confirmed, Cancelled},
          {Confirmed}      \X {Packed, Cancelled, Refunded},
          {Packed}         \X {OutForDelivery, Cancelled, Refunded},
          {OutForDelivery} \X {Delivered, Cancelled, Refunded},
          {Delivered}      \X {Refunded},
          {Cancelled}      \X {Refunded} }

CanTransition(from, to) == <<from, to>> \in Allowed

\* Whether this transition puts the reserved goods back on the shelf.
ReleasesStock(from, to) == to \in CancelOrRefund /\ from \in NotYetDispatched
=============================================================================
