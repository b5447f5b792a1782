------------------------- MODULE OrderPaymentsProofs -------------------------
(***************************************************************************)
(* Proofs about OrderPayments, for any set of orders, any number of links  *)
(* and of concurrent transactions.                                         *)
(***************************************************************************)
EXTENDS OrderPayments, TLAPS

USE DEF Pending, Confirmed, Packed, OutForDelivery, Delivered, Cancelled,
        Refunded

-----------------------------------------------------------------------------
(* The lifecycle graph.                                                     *)

\* An edge of the graph (order_state.py, _ALLOWED) leads between statuses,
\* never back to pending, and from a finished order only on to refunded.
LEMMA GraphFacts ==
  ASSUME NEW s \in Statuses, NEW t, CanTransition(s, t)
  PROVE  /\ t \in Statuses
         /\ t # Pending
         /\ s # Refunded
         /\ s \in CancelOrRefund => s = Cancelled /\ t = Refunded
BY DEF CanTransition, Allowed, Statuses, CancelOrRefund

\* The edges the handlers of this module take without asking the graph: to
\* cancelled from pending, to refunded from anything that was ever paid.
LEMMA GraphEdges ==
  /\ CanTransition(Pending, Confirmed)
  /\ CanTransition(Pending, Cancelled)
  /\ \A s \in Statuses \ {Pending, Refunded} : CanTransition(s, Refunded)
BY DEF CanTransition, Allowed, Statuses

-----------------------------------------------------------------------------
(* Transactions and snapshots.                                              *)

\* An open transaction is a Txn record, whatever handler runs it.
LEMMA OpenTxn ==
  ASSUME TypeOK, NEW h \in Handlers, Busy(h)
  PROVE  txn[h] \in Txn
BY DEF TypeOK, Busy

\* The row a transaction reads gives it a well-typed and sound snapshot.
LEMMA SnapshotFacts ==
  ASSUME TypeOK, PendingMeansUnpaid,
         NEW op \in Ops, NEW o \in Orders, NEW l \in Links,
         NEW arg \in EventKinds \cup Statuses \cup {"unpaid", "none"},
         op = "event" => arg \in EventKinds,
         op = "staff" => CanTransition(status[o], arg),
         op \in {"cancel", "sweep"} => status[o] = Pending
  PROVE  /\ Snapshot(op, o, l, arg) \in Txn
         /\ SnapshotSound(Snapshot(op, o, l, arg))
<1>1. Snapshot(op, o, l, arg) \in Txn
  BY DEF Snapshot, Txn, TypeOK
<1>2. SnapshotSound(Snapshot(op, o, l, arg))
  BY DEF Snapshot, SnapshotSound, PendingMeansUnpaid
<1> QED
  BY <1>1, <1>2

\* What holds of the rows of the orders, and of everything else.
RowsOK ==
  /\ status   \in [Orders -> Statuses]
  /\ hold     \in [Orders -> {"none", "running", "expired"}]
  /\ released \in [Orders -> BOOLEAN]
  /\ credits  \in [Orders -> Nat]
  /\ pay      \in [Orders -> PayStatuses]
  /\ payLink  \in [Orders -> Links]
  /\ payId    \in [Orders -> Links \cup {NoLink}]
  /\ ticket   \in [Orders -> BOOLEAN]
  /\ PendingMeansUnpaid
  /\ RefundOnlyWhenOver
  /\ StrandedOrderHasTicket
  /\ StockSettled

OtherOK ==
  /\ link     \in [Links -> LinkStates]
  /\ returned \subseteq Links
  /\ sent     \subseteq EventKinds \X Links
  /\ seen     \subseteq EventKinds \X Links
  /\ txn      \in [Handlers -> Txn \cup {Idle}]

\* IInv without the money: what the first half of this module is about.
CoreInv ==
  /\ TypeOK
  /\ PendingMeansUnpaid
  /\ RefundOnlyWhenOver
  /\ StrandedOrderHasTicket
  /\ StockSettled
  /\ SnapshotsSound

\* The named parts of CoreInv, in both directions and in both states.
LEMMA CoreParts ==
  /\ CoreInv <=> RowsOK /\ OtherOK /\ SnapshotsSound
  /\ (CoreInv <=> RowsOK /\ OtherOK /\ SnapshotsSound)'
BY DEF CoreInv, RowsOK, OtherOK, TypeOK

\* A step leaves status and stock alone, or moves one order along an edge of
\* the graph and settles its stock if that ends the order.
Advances ==
  \/ UNCHANGED <<status, released, credits>>
  \/ \E o \in Orders, s \in Statuses :
       /\ CanTransition(status[o], s)
       /\ status' = [status EXCEPT ![o] = s]
       /\ IF s \in CancelOrRefund THEN SettleStock(o, status[o], s)
                                  ELSE UNCHANGED <<released, credits>>

\* An order stays where it is or moves along an edge of the graph.
LEMMA AdvancesFacts ==
  ASSUME RowsOK, Advances, NEW o \in Orders
  PROVE  status'[o] = status[o] \/ CanTransition(status[o], status'[o])
BY DEF Advances, RowsOK

\* Snapshots stay sound while orders advance: this is why a handler may decide
\* on what it read before another one wrote.
LEMMA SoundnessKept ==
  ASSUME RowsOK, NEW t \in Txn, SnapshotSound(t), Advances
  PROVE  SnapshotSound(t)'
<1>1. t.o \in Orders /\ status[t.o] \in Statuses
  BY DEF Txn, RowsOK
<1>2. \/ status'[t.o] = status[t.o]
      \/ /\ status'[t.o] # Pending
         /\ status[t.o] # Refunded
         /\ status[t.o] \in CancelOrRefund => status'[t.o] = Refunded
  BY <1>1, GraphFacts, AdvancesFacts
<1> QED
  BY <1>2 DEF SnapshotSound, CancelOrRefund

\* The transactions after a step that changes at most the one of handler h.
LEMMA SnapshotsKept ==
  ASSUME CoreInv, Advances, NEW h \in Handlers, NEW x \in Txn \cup {Idle},
         x # Idle => SnapshotSound(x)',
         txn' = [txn EXCEPT ![h] = x]
  PROVE  /\ txn' \in [Handlers -> Txn \cup {Idle}]
         /\ SnapshotsSound'
<1>1. txn' \in [Handlers -> Txn \cup {Idle}]
  BY DEF CoreInv, TypeOK
<1>2. ASSUME NEW g \in Handlers, Busy(g)'
      PROVE  SnapshotSound(txn[g])'
  <2>1. CASE g = h
    BY <1>2, <2>1 DEF CoreInv, TypeOK, Busy
  <2>2. CASE g # h
    <3>1. txn'[g] = txn[g] /\ Busy(g) /\ txn[g] \in Txn
      BY <1>2, <2>2 DEF CoreInv, TypeOK, Busy
    <3>2. SnapshotSound(txn[g])
      BY <3>1 DEF CoreInv, SnapshotsSound
    <3>3. \A t \in Txn : SnapshotSound(t) => SnapshotSound(t)'
      BY SoundnessKept, CoreParts
    <3> QED
      BY <3>1, <3>2, <3>3 DEF SnapshotSound
  <2> QED
    BY <2>1, <2>2
<1> QED
  BY <1>1, <1>2 DEF SnapshotsSound

-----------------------------------------------------------------------------
(* The writes of a commit.                                                  *)

\* Rows that a step leaves alone stay in order.
LEMMA RowsUntouched ==
  ASSUME RowsOK, UNCHANGED <<orderVars, paymentVars, ticket>>
  PROVE  RowsOK' /\ Advances
BY DEF RowsOK, Advances, PendingMeansUnpaid, RefundOnlyWhenOver,
       StrandedOrderHasTicket, StockSettled, orderVars, paymentVars

\* set_payment_status is harmless on an order that is no longer pending.
LEMMA PaymentWritten ==
  ASSUME RowsOK, NEW h \in Handlers, NEW o \in Orders,
         NEW s \in PayStatuses \ {"refund_pending"},
         NEW pid \in Links \cup {NoLink},
         status[o] # Pending, SetPayment(h, o, s, pid),
         NoOrderWrite, UNCHANGED ticket
  PROVE  RowsOK' /\ Advances
BY DEF RowsOK, Advances, PendingMeansUnpaid, RefundOnlyWhenOver,
       StrandedOrderHasTicket, StockSettled, NoOrderWrite, SetPayment,
       orderVars, paymentVars

\* The commit of _cancel that won the order: whatever it does to the payment.
LEMMA OrderEnded ==
  ASSUME RowsOK, NEW h \in Handlers, NEW o \in Orders, NEW to \in CancelOrRefund,
         CanTransition(status[o], to) \/ status[o] = to,
         Transition(o, to, "none"), SettleStock(o, status[o], to),
         UNCHANGED ticket,
         \/ NoPaymentWrite
         \/ \E s \in PayStatuses, pid \in Links \cup {NoLink} :
              SetPayment(h, o, s, pid)
  PROVE  RowsOK' /\ Advances
<1> USE DEF Transition, SettleStock
<1>1. /\ status'   \in [Orders -> Statuses]
      /\ hold'     \in [Orders -> {"none", "running", "expired"}]
      /\ released' \in [Orders -> BOOLEAN]
      /\ credits'  \in [Orders -> Nat]
      /\ ticket'   \in [Orders -> BOOLEAN]
  BY DEF RowsOK, CancelOrRefund, Statuses
<1>2. /\ pay'     \in [Orders -> PayStatuses]
      /\ payLink' \in [Orders -> Links]
      /\ payId'   \in [Orders -> Links \cup {NoLink}]
      /\ \A p \in Orders : p # o => pay'[p] = pay[p]
  BY DEF RowsOK, SetPayment, NoPaymentWrite, paymentVars
<1>3. /\ status'[o] \in CancelOrRefund /\ status'[o] # Pending
      /\ \A p \in Orders : p # o => status'[p] = status[p] /\ hold'[p] = hold[p]
  BY DEF RowsOK, CancelOrRefund
<1>4. (PendingMeansUnpaid /\ RefundOnlyWhenOver /\ StrandedOrderHasTicket)'
  BY <1>2, <1>3 DEF RowsOK, PendingMeansUnpaid, RefundOnlyWhenOver,
                    StrandedOrderHasTicket
<1>5. StockSettled'
  BY DEF RowsOK, StockSettled
<1>6. Advances
  <2>1. CASE CanTransition(status[o], to)
    BY <2>1 DEF Advances, CancelOrRefund, Statuses
  <2>2. CASE status[o] = to
    <3>1. released[o] = TRUE
      BY <2>2 DEF RowsOK, StockSettled
    <3>2. UNCHANGED <<status, released, credits>>
      BY <2>2, <3>1 DEF RowsOK
    <3> QED
      BY <3>2 DEF Advances
  <2> QED
    BY <2>1, <2>2
<1> QED
  BY <1>1, <1>2, <1>4, <1>5, <1>6 DEF RowsOK

\* The two ways _cancel ends: it won the order, and writes any payment; or it
\* lost, and a payment that is written at all is not queued for refund.
CancelWon(h, o, from, to) ==
  /\ status[o] = from
  /\ Transition(o, to, "none")
  /\ SettleStock(o, from, to)
  /\ \/ NoPaymentWrite
     \/ \E s \in PayStatuses, p \in Links \cup {NoLink} : SetPayment(h, o, s, p)

CancelLost(h, o) ==
  /\ NoOrderWrite
  /\ \/ NoPaymentWrite
     \/ /\ status[o] # Pending
        /\ \E s \in PayStatuses \ {"refund_pending"}, p \in Links \cup {NoLink} :
             SetPayment(h, o, s, p)

\* _cancel keeps the rows in order, whether it wins its order or loses it.
LEMMA CancelKeepsRows ==
  ASSUME RowsOK, NEW h \in Handlers, NEW o \in Orders,
         NEW from \in Statuses, NEW to \in CancelOrRefund,
         CanTransition(from, to) \/ from = to,
         CancelWon(h, o, from, to) \/ CancelLost(h, o), UNCHANGED ticket
  PROVE  RowsOK' /\ Advances
<1>1. CASE CancelWon(h, o, from, to)
  BY <1>1, OrderEnded DEF CancelWon
<1>2. CASE CancelLost(h, o)
  <2>1. CASE NoPaymentWrite
    BY <1>2, <2>1, RowsUntouched DEF CancelLost, NoOrderWrite, NoPaymentWrite
  <2>2. CASE ~NoPaymentWrite
    BY <1>2, <2>2, PaymentWritten DEF CancelLost
  <2> QED
    BY <2>1, <2>2
<1> QED
  BY <1>1, <1>2

-----------------------------------------------------------------------------
(* One lemma per group of actions: each preserves the invariant and advances *)
(* the orders along the graph.                                              *)

\* A link belongs to an order.
LEMMA LinksOfOrders == \A l \in Links : l[1] \in Orders
BY DEF Links

\* Customers, the owner and expiry dates change nothing but the gateway.
LEMMA GatewayStep ==
  ASSUME CoreInv, NEW l \in Links, Pay(l) \/ ExpireLink(l) \/ DeclinePayment(l) \/ DashboardRefund(l)
  PROVE  CoreInv' /\ Advances
<1>1. UNCHANGED dbVars /\ UNCHANGED txn
  BY DEF Pay, ExpireLink, DeclinePayment, DashboardRefund
<1>2. RowsOK' /\ Advances
  BY <1>1, RowsUntouched, CoreParts DEF dbVars, orderVars, paymentVars
<1>3. /\ link' \in [Links -> LinkStates]
      /\ returned' \subseteq Links
      /\ sent' \subseteq EventKinds \X Links
  BY DEF Pay, ExpireLink, DeclinePayment, DashboardRefund, CoreInv, TypeOK, LinkStates, EventKinds
<1>4. SnapshotsSound'
  BY <1>1, <1>2, CoreParts, SoundnessKept DEF dbVars, CoreInv, SnapshotsSound, Busy, TypeOK
<1> QED
  BY <1>1, <1>2, <1>3, <1>4, CoreParts DEF dbVars, OtherOK

\* A hold running out disturbs neither the rows nor a snapshot.
LEMMA ClockStep ==
  ASSUME CoreInv, NEW o \in Orders, HoldExpires(o)
  PROVE  CoreInv' /\ Advances
<1>1. RowsOK' /\ Advances
  BY CoreParts DEF HoldExpires, RowsOK, Advances, PendingMeansUnpaid,
     RefundOnlyWhenOver, StrandedOrderHasTicket, StockSettled, paymentVars
<1>2. SnapshotsSound'
  BY <1>1, CoreParts, SoundnessKept DEF HoldExpires, CoreInv, SnapshotsSound, Busy, TypeOK
<1> QED
  BY <1>1, <1>2, CoreParts DEF HoldExpires, gatewayVars, OtherOK

\* A step that opens a transaction and leaves the rows alone.
LEMMA BeginStep ==
  ASSUME CoreInv, NEW h \in Handlers, NEW op \in Ops, NEW o \in Orders,
         NEW l \in Links,
         NEW arg \in EventKinds \cup Statuses \cup {"unpaid", "none"},
         op = "event" => arg \in EventKinds,
         op = "staff" => CanTransition(status[o], arg),
         op \in {"cancel", "sweep"} => status[o] = Pending,
         Begin(h, op, o, l, arg), UNCHANGED dbVars,
         link' \in [Links -> LinkStates], UNCHANGED <<returned, sent>>
  PROVE  CoreInv' /\ Advances
<1>1. RowsOK' /\ Advances
  BY RowsUntouched, CoreParts DEF dbVars, orderVars, paymentVars
<1>2. Snapshot(op, o, l, arg) \in Txn /\ SnapshotSound(Snapshot(op, o, l, arg))
  BY SnapshotFacts DEF CoreInv
<1>3. \A t \in Txn : SnapshotSound(t) => SnapshotSound(t)'
  BY <1>1, SoundnessKept, CoreParts
<1>4. PICK x \in Txn : x = Snapshot(op, o, l, arg)
  BY <1>2
<1>5. SnapshotSound(x)'
  BY <1>2, <1>3, <1>4
<1>6. txn' = [txn EXCEPT ![h] = x]
  BY <1>4 DEF Begin
<1>7. txn' \in [Handlers -> Txn \cup {Idle}] /\ SnapshotsSound'
  BY <1>1, <1>5, <1>6, SnapshotsKept
<1> QED
  BY <1>1, <1>7, CoreParts DEF dbVars, OtherOK

\* A step that closes a transaction after writes that keep the rows in order.
LEMMA CommitStep ==
  ASSUME CoreInv, NEW h \in Handlers, Close(h), RowsOK', Advances,
         link' \in [Links -> LinkStates], returned' \subseteq Links,
         sent' \subseteq EventKinds \X Links, seen' \subseteq EventKinds \X Links
  PROVE  CoreInv' /\ Advances
<1>1. txn' \in [Handlers -> Txn \cup {Idle}] /\ SnapshotsSound'
  BY SnapshotsKept DEF Close
<1> QED
  BY <1>1, CoreParts DEF OtherOK

\* apply_webhook's capture branch: the snapshot may be old, but a snapshot of
\* an order past pending proves that the order still is.
LEMMA CaptureKeepsRows ==
  ASSUME RowsOK, NEW h \in Handlers, NEW o \in Orders, NEW l \in Links,
         NEW st, NEW pm, st # Pending => status[o] # Pending,
         ApplyCapture(h, o, l, st, pm)
  PROVE  RowsOK' /\ Advances
<1>1. CASE CaptureMismatch(h, o, l, pm)
  <2>1. CASE UNCHANGED <<orderVars, paymentVars, ticket>>
    BY <2>1, RowsUntouched
  <2>2. CASE /\ SetPayment(h, o, "amount_mismatch", l)
             /\ hold'   = [hold EXCEPT ![o] = "none"]
             /\ ticket' = [ticket EXCEPT ![o] = TRUE]
             /\ UNCHANGED <<status, released, credits>>
    BY <2>2 DEF SetPayment, RowsOK, Advances, PendingMeansUnpaid, PayStatuses,
       RefundOnlyWhenOver, StrandedOrderHasTicket, StockSettled
  <2> QED
    BY <1>1, <2>1, <2>2 DEF CaptureMismatch
<1>2. CASE CaptureExact(h, o, l, st)
  <2>1. CASE UNCHANGED <<orderVars, paymentVars, ticket>>
    BY <2>1, RowsUntouched
  <2>2. CASE /\ SetPayment(h, o, "captured", l) /\ status[o] = Pending
             /\ Transition(o, Confirmed, "none")
             /\ UNCHANGED <<released, credits, ticket>>
    <3>1. Confirmed \in Statuses \ CancelOrRefund /\ CanTransition(status[o], Confirmed)
      BY <2>2, GraphEdges DEF Statuses, CancelOrRefund
    <3>2. Advances
      BY <2>2, <3>1 DEF Transition, Advances
    <3>3. RowsOK'
      BY <2>2, <3>1 DEF SetPayment, Transition, RowsOK, PayStatuses, CancelOrRefund,
         PendingMeansUnpaid, RefundOnlyWhenOver, StrandedOrderHasTicket, StockSettled
    <3> QED
      BY <3>2, <3>3
  <2>3. CASE /\ SetPayment(h, o, "captured", l) /\ status[o] # Pending
             /\ NoOrderWrite /\ UNCHANGED ticket
    BY <2>3, PaymentWritten DEF PayStatuses
  <2> QED
    BY <1>2, <2>1, <2>2, <2>3 DEF CaptureExact
<1> QED
  BY <1>1, <1>2 DEF ApplyCapture

\* A failure event keeps the rows in order: a pending order ends with it.
LEMMA FailureKeepsRows ==
  ASSUME RowsOK, NEW h \in Handlers, NEW o \in Orders,
         NEW st \in Statuses, NEW pm, NEW pid,
         st # Pending => status[o] # Pending,
         ApplyFailure(h, o, st, pm, pid)
  PROVE  RowsOK' /\ Advances
<1>1. "failed" \in PayStatuses \ {"refund_pending"} /\ Cancelled \in CancelOrRefund
      /\ payId[o] \in Links \cup {NoLink}
  BY DEF PayStatuses, CancelOrRefund, RowsOK
<1>2. CASE st = Pending
  <2>1. CancelWon(h, o, st, Cancelled) \/ CancelLost(h, o)
    BY <1>1, <1>2 DEF ApplyFailure, Cancel, CancelWon, CancelLost, PayStatuses
  <2>2. CanTransition(st, Cancelled) /\ UNCHANGED ticket
    BY <1>2, GraphEdges DEF ApplyFailure
  <2> QED
    BY <1>1, <2>1, <2>2, CancelKeepsRows
<1>3. CASE st # Pending
  BY <1>1, <1>3, PaymentWritten DEF ApplyFailure
<1> QED
  BY <1>2, <1>3

\* The commits of the requests: cancel, retry, change of status.
LEMMA RequestStep ==
  ASSUME CoreInv, NEW h \in Handlers,
         CancelCommit(h) \/ RetryCommit(h) \/ RetryConflict(h) \/ StaffCommit(h)
  PROVE  CoreInv' /\ Advances
<1> DEFINE t == txn[h]
<1>1. t \in Txn /\ SnapshotSound(t) /\ Close(h)
  BY OpenTxn DEF CoreInv, SnapshotsSound, CancelCommit, RetryCommit, RetryConflict,
     StaffCommit
<1>2. /\ t.o \in Orders /\ t.st \in Statuses /\ t.l \in Links
      /\ payId[t.o] \in Links \cup {NoLink}
      /\ RowsOK
  BY <1>1, CoreParts DEF Txn, RowsOK
<1>3. CASE CancelCommit(h)
  <2>1. CancelWon(h, t.o, t.st, Cancelled) \/ CancelLost(h, t.o)
    BY <1>2, <1>3 DEF CancelCommit, Cancel, CancelWon, CancelLost, PayStatuses
  <2>2. /\ CanTransition(t.st, Cancelled) /\ Cancelled \in CancelOrRefund
        /\ UNCHANGED <<ticket, seen, link, returned, sent>>
    BY <1>1, <1>3, GraphEdges DEF CancelCommit, SnapshotSound, CancelOrRefund, gatewayVars
  <2>3. RowsOK' /\ Advances
    BY <1>2, <2>1, <2>2, CancelKeepsRows
  <2> QED
    BY <1>1, <2>2, <2>3, CommitStep DEF CoreInv, TypeOK
<1>4. CASE RetryCommit(h)
  <2>1. RowsOK' /\ Advances
    BY <1>2, <1>4 DEF RetryCommit, NoPaymentWrite, paymentVars, RowsOK, Advances,
       PayStatuses, PendingMeansUnpaid, RefundOnlyWhenOver,
       StrandedOrderHasTicket, StockSettled
  <2>2. link' \in [Links -> LinkStates] /\ UNCHANGED <<seen, returned, sent>>
    BY <1>2, <1>4 DEF RetryCommit, CoreInv, TypeOK, LinkStates
  <2> QED
    BY <1>1, <2>1, <2>2, CommitStep DEF CoreInv, TypeOK
<1>5. CASE RetryConflict(h)
  <2>1. RowsOK' /\ Advances
    BY <1>2, <1>5, RowsUntouched DEF RetryConflict, dbVars
  <2>2. /\ link' \in [Links -> LinkStates] /\ sent' \subseteq EventKinds \X Links
        /\ UNCHANGED <<seen, returned>>
    BY <1>2, <1>5 DEF RetryConflict, dbVars, CoreInv, TypeOK, LinkStates, EventKinds
  <2> QED
    BY <1>1, <2>1, <2>2, CommitStep DEF CoreInv, TypeOK
<1>6. CASE StaffCommit(h)
  <2>1. CanTransition(t.st, t.arg) /\ UNCHANGED <<ticket, seen, gatewayVars>>
    BY <1>1, <1>6 DEF StaffCommit, SnapshotSound
  <2>2. CASE /\ t.arg \in CancelOrRefund
             /\ Cancel(h, t.o, t.st, t.pm, t.pid, t.arg, payId[t.o], NoPaymentWrite)
    <3>1. CancelWon(h, t.o, t.st, t.arg) \/ CancelLost(h, t.o)
      BY <1>2, <2>2 DEF Cancel, CancelWon, CancelLost, PayStatuses
    <3>2. RowsOK' /\ Advances
      BY <1>2, <2>1, <2>2, <3>1, CancelKeepsRows
    <3> QED
      BY <1>1, <2>1, <3>2, CommitStep DEF gatewayVars, CoreInv, TypeOK
  <2>3. CASE /\ t.arg \notin CancelOrRefund /\ status[t.o] = t.st
             /\ Transition(t.o, t.arg, hold[t.o])
             /\ UNCHANGED <<released, credits, paymentVars>>
    <3>1. /\ t.arg \in Statuses \ (CancelOrRefund \cup {Pending})
          /\ t.st \notin CancelOrRefund
      BY <1>2, <2>1, <2>3, GraphFacts DEF CancelOrRefund
    <3>2. RowsOK' /\ Advances
      BY <1>2, <2>1, <2>3, <3>1 DEF Transition, RowsOK, Advances, paymentVars,
         PendingMeansUnpaid, RefundOnlyWhenOver, StrandedOrderHasTicket, StockSettled
    <3> QED
      BY <1>1, <2>1, <3>2, CommitStep DEF gatewayVars, CoreInv, TypeOK
  <2> QED
    BY <1>6, <2>2, <2>3 DEF StaffCommit
<1> QED
  BY <1>3, <1>4, <1>5, <1>6

\* The commit of a payment event.
LEMMA EventStep ==
  ASSUME CoreInv, NEW h \in Handlers, EventCommit(h)
  PROVE  CoreInv' /\ Advances
<1> DEFINE t == txn[h]
<1>1. /\ t \in Txn /\ SnapshotSound(t) /\ t.op = "event"
      /\ EventEffect(h, t) /\ Close(h)
      /\ seen' = seen \cup {<<t.arg, t.l>>} /\ UNCHANGED gatewayVars
  BY OpenTxn DEF CoreInv, SnapshotsSound, EventCommit
<1>2. /\ t.o \in Orders /\ t.st \in Statuses /\ t.l \in Links
      /\ t.pid \in Links \cup {NoLink} /\ t.arg \in EventKinds
      /\ t.st # Pending => status[t.o] # Pending
      /\ RowsOK
  BY <1>1, CoreParts DEF Txn, SnapshotSound
<1>3. RowsOK' /\ Advances
  <2>1. CASE t.ph = "begun" /\ ApplyCapture(h, t.o, t.l, t.st, t.pm)
    BY <1>2, <2>1, CaptureKeepsRows
  <2>2. CASE t.ph = "begun" /\ ApplyFailure(h, t.o, t.st, t.pm, t.pid)
    BY <1>2, <2>2, FailureKeepsRows
  <2>3. CASE UNCHANGED <<orderVars, paymentVars, ticket>>
    BY <1>2, <2>3, RowsUntouched
  <2>4. CASE /\ t.ph = "reread" /\ UNCHANGED ticket
             /\ Cancel(h, t.o, t.st, t.pm, t.pid, Refunded, t.pid,
                       SetPayment(h, t.o, t.pm, t.pid))
    <3>1. /\ t.st # Pending /\ status[t.o] # Pending
          /\ t.pm \in PayStatuses \ {"refund_pending"}
      BY <1>1, <1>2, <2>4 DEF SnapshotSound, PayStatuses
    <3>2. CancelWon(h, t.o, t.st, Refunded) \/ CancelLost(h, t.o)
      BY <1>2, <2>4, <3>1 DEF Cancel, CancelWon, CancelLost, PayStatuses
    <3>3. CanTransition(t.st, Refunded) \/ t.st = Refunded
      BY <1>2, <3>1, GraphEdges
    <3> QED
      BY <1>2, <2>4, <3>2, <3>3, CancelKeepsRows DEF CancelOrRefund
  <2> QED
    BY <1>1, <2>1, <2>2, <2>3, <2>4 DEF EventEffect
<1> QED
  BY <1>1, <1>2, <1>3, CommitStep DEF gatewayVars, CoreInv, TypeOK

\* The steps in which a transaction only reads again or calls the gateway.
LEMMA MiddleStep ==
  ASSUME CoreInv, NEW h \in Handlers, EventReread(h) \/ SweepPoll(h) \/ RefundCall(h)
  PROVE  CoreInv' /\ Advances
<1> DEFINE t == txn[h]
<1>1. /\ t \in Txn /\ SnapshotSound(t) /\ UNCHANGED <<dbVars, link>>
      /\ t.o \in Orders /\ t.l \in Links /\ status[t.o] \in Statuses
      /\ payId[t.o] \in Links \cup {NoLink}
  BY OpenTxn DEF CoreInv, TypeOK, SnapshotsSound, EventReread, SweepPoll, RefundCall,
     gatewayVars, Txn
<1>2. RowsOK' /\ Advances
  BY <1>1, RowsUntouched, CoreParts DEF dbVars, orderVars, paymentVars
<1>3. \E x \in Txn : SnapshotSound(x) /\ txn' = [txn EXCEPT ![h] = x]
  <2>1. CASE EventReread(h)
    <3>1. t.st # Pending /\ status[t.o] # Pending
      BY <1>1, <2>1 DEF EventReread, NeedsReread, IgnoresRefund, SnapshotSound
    <3>2. PICK x \in Txn :
            /\ x = [t EXCEPT !.ph = "reread", !.st = status[t.o],
                      !.pm  = IF t.arg = "refund" THEN "refunded" ELSE "captured",
                      !.pid = IF t.arg = "refund" THEN payId[t.o] ELSE t.l]
            /\ txn' = [txn EXCEPT ![h] = x]
      BY <1>1, <2>1 DEF EventReread, Txn, PayStatuses
    <3>3. /\ x.o = t.o /\ x.op = "event" /\ x.arg = t.arg /\ x.ph = "reread"
          /\ x.st = status[t.o] /\ x.pm \in {"captured", "refunded"}
      BY <1>1, <2>1, <3>2 DEF EventReread, Txn
    <3>4. SnapshotSound(x)
      BY <1>1, <2>1, <3>1, <3>3 DEF SnapshotSound, EventReread
    <3> QED
      BY <3>2, <3>4
  <2>2. CASE SweepPoll(h)
    <3>1. PICK x \in Txn : /\ \E a \in {"paid", "unpaid"} :
                                x = [t EXCEPT !.ph = "polled", !.arg = a]
                           /\ txn' = [txn EXCEPT ![h] = x]
      <4>1. PICK a \in {"paid", "unpaid"} :
              txn' = [txn EXCEPT ![h] = [t EXCEPT !.ph = "polled", !.arg = a]]
        BY <1>1, <2>2 DEF SweepPoll
      <4>2. [t EXCEPT !.ph = "polled", !.arg = a] \in Txn
        BY <1>1 DEF Txn, EventKinds
      <4> QED
        BY <4>1, <4>2
    <3>2. SnapshotSound(x)
      BY <1>1, <2>2, <3>1 DEF SnapshotSound, SweepPoll, Txn
    <3> QED
      BY <3>1, <3>2
  <2>3. CASE RefundCall(h)
    <3>1. PICK x \in Txn : /\ x = [t EXCEPT !.ph = "called"]
                           /\ txn' = [txn EXCEPT ![h] = x]
      BY <1>1, <2>3 DEF RefundCall, Txn
    <3>2. SnapshotSound(x)
      BY <1>1, <2>3, <3>1 DEF SnapshotSound, RefundCall, Txn
    <3> QED
      BY <3>1, <3>2
  <2> QED
    BY <2>1, <2>2, <2>3
<1>4. PICK x \in Txn : SnapshotSound(x)' /\ txn' = [txn EXCEPT ![h] = x]
  BY <1>2, <1>3, SoundnessKept, CoreParts
<1>5. txn' \in [Handlers -> Txn \cup {Idle}] /\ SnapshotsSound'
  BY <1>2, <1>4, SnapshotsKept
<1>6. /\ returned' \subseteq Links
      /\ sent' \subseteq EventKinds \X Links
  BY <1>1 DEF EventReread, SweepPoll, RefundCall, gatewayVars, CoreInv, TypeOK, EventKinds
<1> QED
  BY <1>1, <1>2, <1>5, <1>6, CoreParts DEF dbVars, OtherOK

\* The commits of the two kinds of sweep.
LEMMA SweepStep ==
  ASSUME CoreInv, NEW h \in Handlers, SweepCommit(h) \/ RefundCommit(h)
  PROVE  CoreInv' /\ Advances
<1> DEFINE t == txn[h]
<1>1. /\ t \in Txn /\ SnapshotSound(t) /\ Close(h)
      /\ UNCHANGED <<seen, link, returned, sent>>
  BY OpenTxn DEF CoreInv, SnapshotsSound, SweepCommit, RefundCommit, gatewayVars
<1>2. /\ t.o \in Orders /\ t.st \in Statuses /\ t.l \in Links
      /\ payId[t.o] \in Links \cup {NoLink}
      /\ RowsOK
  BY <1>1, CoreParts DEF Txn, RowsOK
<1>3. RowsOK' /\ Advances
  <2>1. CASE SweepCommit(h)
    <3>1. CASE ApplyCapture(h, t.o, t.l, status[t.o], pay[t.o])
      BY <1>2, <3>1, CaptureKeepsRows
    <3>2. CASE /\ UNCHANGED ticket
               /\ Cancel(h, t.o, t.st, t.pm, t.pid, Cancelled, payId[t.o], NoPaymentWrite)
      <4>1. CancelWon(h, t.o, t.st, Cancelled) \/ CancelLost(h, t.o)
        BY <1>2, <3>2 DEF Cancel, CancelWon, CancelLost, PayStatuses
      <4>2. CanTransition(t.st, Cancelled) /\ Cancelled \in CancelOrRefund
        BY <1>1, <2>1, GraphEdges DEF SweepCommit, SnapshotSound, CancelOrRefund
      <4> QED
        BY <1>2, <3>2, <4>1, <4>2, CancelKeepsRows
    <3> QED
      BY <2>1, <3>1, <3>2 DEF SweepCommit
  <2>2. CASE RefundCommit(h)
    BY <1>2, <2>2 DEF RefundCommit, SetPayment, NoOrderWrite, orderVars, RowsOK,
       Advances, PayStatuses, PendingMeansUnpaid, RefundOnlyWhenOver,
       StrandedOrderHasTicket, StockSettled
  <2> QED
    BY <2>1, <2>2, <1>1
<1> QED
  BY <1>1, <1>3, CommitStep DEF CoreInv, TypeOK

\* The steps that open a transaction.
LEMMA OpeningStep ==
  ASSUME CoreInv, NEW h \in Handlers,
         \/ \E k \in EventKinds, l \in Links : EventBegin(h, k, l)
         \/ \E o \in Orders : \/ CancelBegin(h, o) \/ SweepClaim(h, o)
                               \/ RefundBegin(h, o)
         \/ \E l \in Links : RetryBegin(h, l)
         \/ \E o \in Orders, s \in Statuses : StaffBegin(h, o, s)
  PROVE  CoreInv' /\ Advances
<1> USE DEF Ops
<1>1. \A o \in Orders : payLink[o] \in Links /\ payId[o] \in Links \cup {NoLink}
  BY DEF CoreInv, TypeOK
<1>2. ASSUME NEW k \in EventKinds, NEW l \in Links, EventBegin(h, k, l)
      PROVE  CoreInv' /\ Advances
  BY <1>2, BeginStep, LinksOfOrders DEF EventBegin, gatewayVars, CoreInv, TypeOK
<1>3. ASSUME NEW o \in Orders, CancelBegin(h, o)
      PROVE  CoreInv' /\ Advances
  BY <1>1, <1>3, BeginStep DEF CancelBegin, CustomerCancellable, gatewayVars, CoreInv, TypeOK
<1>4. ASSUME NEW o \in Orders, SweepClaim(h, o)
      PROVE  CoreInv' /\ Advances
  BY <1>1, <1>4, BeginStep DEF SweepClaim, gatewayVars, CoreInv, TypeOK
<1>5. ASSUME NEW o \in Orders, RefundBegin(h, o)
      PROVE  CoreInv' /\ Advances
  BY <1>1, <1>5, BeginStep DEF RefundBegin, gatewayVars, CoreInv, TypeOK
<1>6. ASSUME NEW l \in Links, RetryBegin(h, l)
      PROVE  CoreInv' /\ Advances
  <2>1. /\ Begin(h, "retry", l[1], l, "none") /\ UNCHANGED <<dbVars, returned, sent>>
        /\ link' \in [Links -> LinkStates] /\ l[1] \in Orders
    BY <1>6, LinksOfOrders DEF RetryBegin, CoreInv, TypeOK, LinkStates
  <2> QED
    BY <2>1, BeginStep
<1>7. ASSUME NEW o \in Orders, NEW s \in Statuses, StaffBegin(h, o, s)
      PROVE  CoreInv' /\ Advances
  BY <1>1, <1>7, BeginStep DEF StaffBegin, gatewayVars, CoreInv, TypeOK
<1> QED
  BY <1>2, <1>3, <1>4, <1>5, <1>6, <1>7

\* The steps that end a transaction without a trace, and an unknown event.
LEMMA TracelessStep ==
  ASSUME CoreInv,
         \/ \E h \in Handlers : Abort(h)
         \/ \E k \in EventKinds, l \in Links : EventUnknown(k, l)
  PROVE  CoreInv' /\ Advances
<1>1. RowsOK' /\ Advances
  BY RowsUntouched, CoreParts DEF Abort, EventUnknown, dbVars
<1>2. ASSUME NEW h \in Handlers, Abort(h)
      PROVE  CoreInv' /\ Advances
  BY <1>1, <1>2, CommitStep DEF Abort, dbVars, gatewayVars, CoreInv, TypeOK
<1>3. ASSUME NEW k \in EventKinds, NEW l \in Links, EventUnknown(k, l)
      PROVE  CoreInv' /\ Advances
  <2>1. UNCHANGED txn /\ UNCHANGED gatewayVars /\ seen' \subseteq EventKinds \X Links
    BY <1>3 DEF EventUnknown, CoreInv, TypeOK
  <2>2. SnapshotsSound'
    BY <1>1, <2>1, CoreParts, SoundnessKept DEF CoreInv, SnapshotsSound, Busy, TypeOK
  <2> QED
    BY <1>1, <2>1, <2>2, CoreParts DEF gatewayVars, OtherOK
<1> QED
  BY <1>2, <1>3

\* Every step keeps the inductive invariant and moves orders forwards only.
LEMMA CoreNext == ASSUME CoreInv, Next PROVE CoreInv' /\ Advances
<1>1. CASE Gateway
  BY <1>1, GatewayStep DEF Gateway
<1>2. CASE \E o \in Orders : HoldExpires(o)
  BY <1>2, ClockStep
<1>3. CASE Events
  BY <1>3, TracelessStep, OpeningStep, MiddleStep, EventStep DEF Events
<1>4. CASE Requests
  BY <1>4, OpeningStep, RequestStep DEF Requests
<1>5. CASE Sweeps
  BY <1>5, OpeningStep, MiddleStep, SweepStep DEF Sweeps
<1>6. CASE \E h \in Handlers : Abort(h)
  BY <1>6, TracelessStep
<1> QED
  BY <1>1, <1>2, <1>3, <1>4, <1>5, <1>6 DEF Next

\* So does a step that changes nothing.
LEMMA CoreStutter == ASSUME CoreInv, UNCHANGED vars PROVE CoreInv'
<1>1. /\ UNCHANGED <<orderVars, paymentVars, ticket>>
      /\ UNCHANGED <<seen, link, returned, sent, txn>>
  BY DEF vars, dbVars, gatewayVars
<1>2. RowsOK' /\ Advances
  BY <1>1, RowsUntouched, CoreParts
<1>3. SnapshotsSound'
  BY <1>1, <1>2, CoreParts, SoundnessKept DEF CoreInv, SnapshotsSound, Busy, TypeOK
<1> QED
  BY <1>1, <1>2, <1>3, CoreParts DEF OtherOK

\* The rows a checkout has just committed satisfy the invariant.
LEMMA InitCore == Init => CoreInv
<1>1. Init => RowsOK
  BY MaxLinksAssumption DEF Init, RowsOK, Statuses, PayStatuses, Links, CancelOrRefund,
     PendingMeansUnpaid, RefundOnlyWhenOver, StrandedOrderHasTicket, StockSettled
<1>2. Init => OtherOK /\ SnapshotsSound
  BY DEF Init, OtherOK, SnapshotsSound, Busy, LinkStates
<1> QED
  BY <1>1, <1>2, CoreParts

-----------------------------------------------------------------------------
(* The money: what the gateway has done stays done, and the payments row    *)
(* and the transactions go on naming it.                                    *)

\* The two halves of IInv, in both states.
LEMMA IInvParts ==
  /\ IInv <=> CoreInv /\ MoneyInv
  /\ (IInv <=> CoreInv /\ MoneyInv)'
BY DEF IInv, CoreInv

\* At the gateway a link that was paid or died stays so, and returned money
\* stays returned.
GatewayGrows ==
  /\ returned \subseteq returned'
  /\ \A l \in Links :
       link[l] \in {"paid", "short", "expired", "cancelled"} => link'[l] = link[l]

\* No step forgets a payment of an order.
PaymentsKept == \A o \in Orders : payId[o] # NoLink => payId'[o] # NoLink

\* What was true of a link stays true.
LEMMA TruthKept ==
  ASSUME GatewayGrows, NEW l \in Links
  PROVE  /\ \A k : IsTrue(k, l) => IsTrue(k, l)'
         /\ \A o : PaymentOf(l, o) => PaymentOf(l, o)'
BY DEF GatewayGrows, IsTrue, PaymentOf

\* A sound reading stays sound: this is why a handler may act on a payment it
\* read of before another one wrote.
LEMMA ReadingKept ==
  ASSUME GatewayGrows, PaymentsKept, NEW t \in Txn, ReadingSound(t)
  PROVE  ReadingSound(t)'
<1>1. t.l \in Links /\ t.o \in Orders /\ t.pid \in Links \cup {NoLink}
  BY DEF Txn
<1>2. IsTrue(t.arg, t.l) => IsTrue(t.arg, t.l)'
  BY <1>1, TruthKept
<1>3. t.pid # NoLink => (PaymentOf(t.pid, t.o) => PaymentOf(t.pid, t.o)')
  BY <1>1, TruthKept
<1>4. payId[t.o] # NoLink => payId'[t.o] # NoLink
  BY <1>1 DEF PaymentsKept
<1>5. t.l \in returned => t.l \in returned'
  BY DEF GatewayGrows
<1> QED
  BY <1>2, <1>3, <1>4, <1>5 DEF ReadingSound

\* The transactions after a step that changes at most the one of handler h.
LEMMA ReadingsKept ==
  ASSUME TypeOK, ReadingsSound, GatewayGrows, PaymentsKept,
         NEW h \in Handlers, NEW x \in Txn \cup {Idle},
         x # Idle => ReadingSound(x)',
         txn' = [txn EXCEPT ![h] = x]
  PROVE  ReadingsSound'
<1>1. ASSUME NEW g \in Handlers, Busy(g)'
      PROVE  ReadingSound(txn[g])'
  <2>1. CASE g = h
    BY <1>1, <2>1 DEF TypeOK, Busy
  <2>2. CASE g # h
    <3>1. txn'[g] = txn[g] /\ Busy(g) /\ txn[g] \in Txn
      BY <1>1, <2>2 DEF TypeOK, Busy
    <3>2. ReadingSound(txn[g])
      BY <3>1 DEF ReadingsSound
    <3>3. \A t \in Txn : ReadingSound(t) => ReadingSound(t)'
      BY ReadingKept
    <3> QED
      BY <3>1, <3>2, <3>3 DEF ReadingSound
  <2> QED
    BY <2>1, <2>2
<1> QED
  BY <1>1 DEF ReadingsSound

\* The transactions after a step that opens and closes none.
LEMMA ReadingsUntouched ==
  ASSUME TypeOK, ReadingsSound, GatewayGrows, PaymentsKept, UNCHANGED txn
  PROVE  ReadingsSound'
<1>1. \A t \in Txn : ReadingSound(t) => ReadingSound(t)'
  BY ReadingKept
<1> QED
  BY <1>1, OpenTxn DEF ReadingsSound, Busy, ReadingSound

\* The reports after a step that sends or records true ones only.
LEMMA ReportsKept ==
  ASSUME TypeOK, ReportsTrue, GatewayGrows,
         \A r \in sent' \cup seen' : r \in sent \cup seen \/ IsTrue(r[1], r[2])'
  PROVE  ReportsTrue'
<1>1. ASSUME NEW r \in sent \cup seen
      PROVE  IsTrue(r[1], r[2])'
  <2>1. r[2] \in Links /\ IsTrue(r[1], r[2])
    BY DEF TypeOK, ReportsTrue
  <2> QED
    BY <2>1, TruthKept
<1> QED
  BY <1>1 DEF ReportsTrue

\* An order that is pending after a step was pending before it.
LEMMA NeverPendingAgain ==
  ASSUME RowsOK, Advances, NEW o \in Orders, status'[o] = Pending
  PROVE  status[o] = Pending
BY AdvancesFacts, GraphFacts DEF RowsOK

\* Rows whose payment a step leaves alone.
LEMMA NamesUntouched ==
  ASSUME RowsOK, PaymentsNamed, GatewayGrows, Advances, UNCHANGED paymentVars
  PROVE  PaymentsNamed' /\ PaymentsKept
<1>1. PaymentsKept
  BY DEF PaymentsKept, paymentVars
<1>2. ASSUME NEW o \in Orders
      PROVE  /\ payId'[o] # NoLink => PaymentOf(payId[o], o)'
             /\ status'[o] = Pending => status[o] = Pending
             /\ (\E l \in returned : l[1] = o) => (\E l \in returned' : l[1] = o)
  <2>1. payId'[o] = payId[o] /\ (payId[o] # NoLink => payId[o] \in Links /\ PaymentOf(payId[o], o))
    BY DEF RowsOK, PaymentsNamed, paymentVars
  <2>2. payId'[o] # NoLink => PaymentOf(payId[o], o)'
    BY <2>1 DEF GatewayGrows, PaymentOf
  <2>3. /\ status'[o] = Pending => status[o] = Pending
        /\ (\E l \in returned : l[1] = o) => (\E l \in returned' : l[1] = o)
    BY NeverPendingAgain DEF GatewayGrows
  <2> QED
    BY <2>2, <2>3
<1>3. PaymentsNamed'
  BY <1>2 DEF PaymentsNamed, paymentVars
<1> QED
  BY <1>1, <1>3

\* set_payment_status with a payment that was made, or with the one on record.
LEMMA NamesWritten ==
  ASSUME RowsOK, PaymentsNamed, GatewayGrows, Advances,
         NEW h \in Handlers, NEW o \in Orders, NEW s \in PayStatuses \ {"created"},
         NEW pid \in Links \cup {NoLink}, SetPayment(h, o, s, pid),
         pid # NoLink => PaymentOf(pid, o),
         payId[o] # NoLink \/ s \in Received => pid # NoLink,
         s = "refunded" => \E l \in returned : l[1] = o
  PROVE  PaymentsNamed' /\ PaymentsKept
<1>1. /\ payId' = [payId EXCEPT ![o] = pid] /\ pay' = [pay EXCEPT ![o] = s]
      /\ payLink' = payLink
      /\ payId \in [Orders -> Links \cup {NoLink}] /\ pay \in [Orders -> PayStatuses]
  BY DEF SetPayment, RowsOK
<1>2. PaymentsKept
  BY <1>1 DEF PaymentsKept
<1>3. ASSUME NEW p \in Orders
      PROVE  /\ payId'[p] # NoLink => PaymentOf(payId[p], p)'
             /\ status'[p] = Pending => status[p] = Pending
             /\ (\E l \in returned : l[1] = p) => (\E l \in returned' : l[1] = p)
  <2>1. payId'[p] # NoLink => payId'[p] \in Links /\ PaymentOf(payId'[p], p)
    BY <1>1 DEF PaymentsNamed
  <2>2. payId'[p] # NoLink => PaymentOf(payId[p], p)'
    BY <2>1 DEF GatewayGrows, PaymentOf
  <2>3. /\ status'[p] = Pending => status[p] = Pending
        /\ (\E l \in returned : l[1] = p) => (\E l \in returned' : l[1] = p)
    BY NeverPendingAgain DEF GatewayGrows
  <2> QED
    BY <2>2, <2>3
<1>4. PaymentsNamed'
  BY <1>1, <1>3 DEF PaymentsNamed
<1> QED
  BY <1>2, <1>4

\* What a handler may write to the payments row: nothing, or a payment of the
\* order where money is said to have come in, and the one on record elsewhere.
WritesPayment(h, o) ==
  \/ NoPaymentWrite
  \/ \E s \in PayStatuses \ {"created"}, p \in Links \cup {NoLink} :
       /\ SetPayment(h, o, s, p)
       /\ p # NoLink => PaymentOf(p, o)
       /\ payId[o] # NoLink \/ s \in Received => p # NoLink
       /\ s = "refunded" => \E l \in returned : l[1] = o

\* Such a write keeps the payments named.
LEMMA WriteKeepsNames ==
  ASSUME RowsOK, PaymentsNamed, GatewayGrows, Advances,
         NEW h \in Handlers, NEW o \in Orders, WritesPayment(h, o)
  PROVE  PaymentsNamed' /\ PaymentsKept
BY NamesUntouched, NamesWritten DEF WritesPayment, NoPaymentWrite

\* The payment on record may be written with any status that fits it.
LEMMA RecordedPayment ==
  ASSUME RowsOK, PaymentsNamed, NEW h \in Handlers, NEW o \in Orders,
         NEW s \in PayStatuses \ {"created", "refunded"},
         s \in Received => payId[o] # NoLink,
         SetPayment(h, o, s, payId[o])
  PROVE  WritesPayment(h, o)
<1>1. payId[o] \in Links \cup {NoLink} /\ (payId[o] # NoLink => PaymentOf(payId[o], o))
  BY DEF RowsOK, PaymentsNamed
<1> QED
  BY <1>1 DEF WritesPayment

\* The payment of a link that was paid may be written with any status but one.
LEMMA ReportedPayment ==
  ASSUME NEW h \in Handlers, NEW o \in Orders, NEW l \in Links, PaymentOf(l, o),
         NEW s \in PayStatuses \ {"created"},
         s = "refunded" => \E m \in returned : m[1] = o,
         SetPayment(h, o, s, l)
  PROVE  WritesPayment(h, o)
BY NoLinkAssumption DEF WritesPayment

\* The capture branch of apply_webhook writes the payment it was told of.
LEMMA CaptureWrites ==
  ASSUME NEW h \in Handlers, NEW o \in Orders, NEW l \in Links,
         NEW st, NEW pm, l[1] = o, ApplyCapture(h, o, l, st, pm)
  PROVE  WritesPayment(h, o)
<1>1. CASE UNCHANGED paymentVars
  BY <1>1 DEF WritesPayment, NoPaymentWrite
<1>2. CASE \E s \in {"captured", "amount_mismatch"} : SetPayment(h, o, s, l)
  <2>1. PaymentOf(l, o)
    BY DEF PaymentOf, ApplyCapture, CaptureMismatch, CaptureExact
  <2> QED
    BY <1>2, <2>1, ReportedPayment DEF PayStatuses
<1> QED
  BY <1>1, <1>2 DEF ApplyCapture, CaptureMismatch, CaptureExact

\* _cancel queues a refund of a payment that is on record, and writes nothing
\* else of its own.
LEMMA CancelWrites ==
  ASSUME RowsOK, PaymentsNamed, NEW h \in Handlers, NEW o \in Orders,
         NEW from, NEW pm, NEW pid, NEW to,
         OwesRefund(pm, pid) => payId[o] # NoLink,
         Cancel(h, o, from, pm, pid, to, payId[o], NoPaymentWrite)
  PROVE  WritesPayment(h, o)
<1>1. CASE NoPaymentWrite
  BY <1>1 DEF WritesPayment
<1>2. CASE OwesRefund(pm, pid) /\ SetPayment(h, o, "refund_pending", payId[o])
  BY <1>2, RecordedPayment DEF PayStatuses
<1> QED
  BY <1>1, <1>2 DEF Cancel

\* A failure event writes the payment that is on record, if there is one.
LEMMA FailureWrites ==
  ASSUME RowsOK, PaymentsNamed, NEW h \in Handlers, NEW o \in Orders,
         NEW st, NEW pm, NEW pid,
         OwesRefund(pm, pid) => payId[o] # NoLink,
         ApplyFailure(h, o, st, pm, pid)
  PROVE  WritesPayment(h, o)
<1>1. CASE SetPayment(h, o, "failed", payId[o])
  BY <1>1, RecordedPayment DEF PayStatuses, Received
<1>2. CASE OwesRefund(pm, pid) /\ SetPayment(h, o, "refund_pending", payId[o])
  BY <1>2, RecordedPayment DEF PayStatuses
<1> QED
  BY <1>1, <1>2 DEF ApplyFailure, Cancel

\* An open transaction has a well-typed and sound reading.
LEMMA OpenReading ==
  ASSUME IInv, NEW h \in Handlers, Busy(h)
  PROVE  /\ txn[h] \in Txn /\ ReadingSound(txn[h]) /\ SnapshotSound(txn[h])
         /\ txn[h].o \in Orders /\ txn[h].l \in Links
         /\ txn[h].l[1] = txn[h].o /\ txn[h].arg \in EventKinds \cup Statuses \cup {"unpaid", "none"}
         /\ txn[h].pid \in Links \cup {NoLink}
         /\ payId[txn[h].o] \in Links \cup {NoLink}
<1>1. txn[h] \in Txn /\ ReadingSound(txn[h]) /\ SnapshotSound(txn[h])
  BY OpenTxn DEF IInv, MoneyInv, ReadingsSound, SnapshotsSound
<1> QED
  BY <1>1 DEF Txn, ReadingSound, IInv, TypeOK

\* A transaction that read of a payment finds one on record when it commits,
\* unless it is about to write that payment itself.
LEMMA RefundIsOwed ==
  ASSUME NEW t \in Txn, ReadingSound(t), t.ph # "reread", OwesRefund(t.pm, t.pid)
  PROVE  payId[t.o] # NoLink
BY DEF ReadingSound, OwesRefund

-----------------------------------------------------------------------------
(* One lemma per group of actions: each keeps the money in order.           *)

\* The four parts that make up the money after a step.
LEMMA MoneyParts ==
  ASSUME PaymentsNamed', ReportsTrue', ReadingsSound'
  PROVE  MoneyInv'
BY DEF MoneyInv

\* Customers, the owner and expiry dates send true reports.
LEMMA GatewayMoney ==
  ASSUME IInv, Advances, NEW l \in Links,
         Pay(l) \/ ExpireLink(l) \/ DeclinePayment(l) \/ DashboardRefund(l)
  PROVE  MoneyInv'
<1>1. /\ RowsOK /\ TypeOK /\ PaymentsNamed /\ ReportsTrue /\ ReadingsSound
      /\ link \in [Links -> LinkStates]
  BY IInvParts, CoreParts DEF MoneyInv, CoreInv, TypeOK
<1>2. UNCHANGED dbVars /\ UNCHANGED txn
  BY DEF Pay, ExpireLink, DeclinePayment, DashboardRefund
<1>3. GatewayGrows
  BY <1>1 DEF Pay, ExpireLink, DeclinePayment, DashboardRefund, GatewayGrows, Live
<1>4. PaymentsNamed' /\ PaymentsKept
  BY <1>1, <1>2, <1>3, NamesUntouched DEF dbVars
<1>5. PICK k \in EventKinds : sent' = sent \cup {<<k, l>>} /\ IsTrue(k, l)'
  BY <1>1 DEF Pay, ExpireLink, DeclinePayment, DashboardRefund, IsTrue, EventKinds
<1>6. ReportsTrue'
  BY <1>1, <1>2, <1>3, <1>5, ReportsKept DEF dbVars
<1>7. ReadingsSound'
  BY <1>1, <1>2, <1>3, <1>4, ReadingsUntouched
<1> QED
  BY <1>4, <1>6, <1>7, MoneyParts

\* A step that opens a transaction on what the rows and the reports say.
LEMMA BeginMoney ==
  ASSUME IInv, Advances, NEW h \in Handlers, NEW op \in Ops, NEW o \in Orders,
         NEW l \in Links, l[1] = o,
         NEW arg \in EventKinds \cup Statuses \cup {"unpaid", "none"},
         op = "event" => IsTrue(arg, l), op = "refund" => payId[o] # NoLink,
         Begin(h, op, o, l, arg), UNCHANGED <<dbVars, returned, sent>>, GatewayGrows
  PROVE  MoneyInv'
<1>1. /\ RowsOK /\ TypeOK /\ PaymentsNamed /\ ReportsTrue /\ ReadingsSound
  BY IInvParts, CoreParts DEF MoneyInv, CoreInv
<1>2. PaymentsNamed' /\ PaymentsKept
  BY <1>1, NamesUntouched DEF dbVars
<1>3. ReportsTrue'
  BY <1>1, ReportsKept DEF dbVars
<1>4. PICK x \in Txn : x = Snapshot(op, o, l, arg)
  BY <1>1 DEF Snapshot, Txn, TypeOK
<1>5. ReadingSound(x)
  BY <1>1, <1>4 DEF Snapshot, ReadingSound, PaymentsNamed
<1>6. ReadingSound(x)'
  BY <1>2, <1>4, <1>5, ReadingKept
<1>7. txn' = [txn EXCEPT ![h] = x]
  BY <1>4 DEF Begin
<1>8. ReadingsSound'
  BY <1>1, <1>2, <1>6, <1>7, ReadingsKept
<1> QED
  BY <1>2, <1>3, <1>8, MoneyParts

\* A delivery is true: it was sent, or the callback has just seen the link.
LEMMA DeliveriesAreTrue ==
  ASSUME ReportsTrue, NEW k \in EventKinds, NEW l \in Links, Deliverable(k, l)
  PROVE  IsTrue(k, l)
<1>1. CASE <<k, l>> \in sent
  BY <1>1 DEF ReportsTrue
<1>2. CASE k = "poll" /\ link[l] \in {"paid", "short"}
  BY <1>2 DEF IsTrue
<1> QED
  BY <1>1, <1>2 DEF Deliverable

\* The steps that open a transaction.
LEMMA OpeningMoney ==
  ASSUME IInv, Advances, NEW h \in Handlers,
         \/ \E k \in EventKinds, l \in Links : EventBegin(h, k, l)
         \/ \E o \in Orders : \/ CancelBegin(h, o) \/ SweepClaim(h, o)
                               \/ RefundBegin(h, o)
         \/ \E l \in Links : RetryBegin(h, l)
         \/ \E o \in Orders, s \in Statuses : StaffBegin(h, o, s)
  PROVE  MoneyInv'
<1> USE DEF Ops
<1>1. /\ PaymentsNamed /\ ReportsTrue
      /\ \A o \in Orders : /\ payLink[o] \in Links /\ payId[o] \in Links \cup {NoLink}
                           /\ payLink[o][1] = o
                           /\ payId[o] # NoLink => payId[o][1] = o
  BY DEF IInv, TypeOK, MoneyInv, PaymentsNamed, PaymentOf
<1>2. UNCHANGED <<link, returned>> => GatewayGrows
  BY DEF GatewayGrows
<1>3. ASSUME NEW k \in EventKinds, NEW l \in Links, EventBegin(h, k, l)
      PROVE  MoneyInv'
  <2>1. /\ Begin(h, "event", l[1], l, k) /\ UNCHANGED <<dbVars, returned, sent>>
        /\ UNCHANGED link /\ l[1] \in Orders /\ IsTrue(k, l)
    BY <1>1, <1>3, LinksOfOrders, DeliveriesAreTrue DEF EventBegin, gatewayVars
  <2> QED
    BY <1>2, <2>1, BeginMoney
<1>4. ASSUME NEW o \in Orders, CancelBegin(h, o)
      PROVE  MoneyInv'
  <2>1. /\ Begin(h, "cancel", o, payLink[o], "none")
        /\ UNCHANGED <<dbVars, returned, sent>> /\ UNCHANGED link
    BY <1>4 DEF CancelBegin, gatewayVars
  <2> QED
    BY <1>1, <1>2, <2>1, BeginMoney
<1>5. ASSUME NEW o \in Orders, SweepClaim(h, o)
      PROVE  MoneyInv'
  <2>1. /\ Begin(h, "sweep", o, payLink[o], "none")
        /\ UNCHANGED <<dbVars, returned, sent>> /\ UNCHANGED link
    BY <1>5 DEF SweepClaim, gatewayVars
  <2> QED
    BY <1>1, <1>2, <2>1, BeginMoney
<1>6. ASSUME NEW o \in Orders, RefundBegin(h, o)
      PROVE  MoneyInv'
  <2>1. /\ Begin(h, "refund", o, payId[o], "none") /\ payId[o] # NoLink
        /\ UNCHANGED <<dbVars, returned, sent>> /\ UNCHANGED link
    BY <1>6 DEF RefundBegin, gatewayVars
  <2> QED
    BY <1>1, <1>2, <2>1, BeginMoney
<1>7. ASSUME NEW l \in Links, RetryBegin(h, l)
      PROVE  MoneyInv'
  <2>1. /\ Begin(h, "retry", l[1], l, "none") /\ UNCHANGED <<dbVars, returned, sent>>
        /\ l[1] \in Orders
    BY <1>7, LinksOfOrders DEF RetryBegin
  <2>2. GatewayGrows
    BY <1>7 DEF RetryBegin, GatewayGrows, IInv, TypeOK
  <2> QED
    BY <2>1, <2>2, BeginMoney
<1>8. ASSUME NEW o \in Orders, NEW s \in Statuses, StaffBegin(h, o, s)
      PROVE  MoneyInv'
  <2>1. /\ Begin(h, "staff", o, payLink[o], s)
        /\ UNCHANGED <<dbVars, returned, sent>> /\ UNCHANGED link
    BY <1>8 DEF StaffBegin, gatewayVars
  <2> QED
    BY <1>1, <1>2, <2>1, BeginMoney
<1> QED
  BY <1>3, <1>4, <1>5, <1>6, <1>7, <1>8

\* The steps in which a transaction only reads again or calls the gateway.
LEMMA MiddleMoney ==
  ASSUME IInv, Advances, NEW h \in Handlers,
         EventReread(h) \/ SweepPoll(h) \/ RefundCall(h)
  PROVE  MoneyInv'
<1> DEFINE t == txn[h]
<1>1. /\ RowsOK /\ TypeOK /\ PaymentsNamed /\ ReportsTrue /\ ReadingsSound
  BY IInvParts, CoreParts DEF MoneyInv, CoreInv
<1>2. /\ t \in Txn /\ ReadingSound(t) /\ t.o \in Orders /\ t.l \in Links
      /\ t.l[1] = t.o /\ payId[t.o] \in Links \cup {NoLink}
      /\ UNCHANGED <<dbVars, link>>
  BY OpenReading DEF EventReread, SweepPoll, RefundCall, gatewayVars
<1>3. GatewayGrows
  BY <1>2 DEF EventReread, SweepPoll, RefundCall, gatewayVars, GatewayGrows
<1>4. PaymentsNamed' /\ PaymentsKept
  BY <1>1, <1>2, <1>3, NamesUntouched DEF dbVars
<1>5. ReportsTrue'
  <2>1. CASE RefundCall(h)
    <3>1. sent' = sent \cup {<<"refund", t.l>>}
      BY <2>1 DEF RefundCall
    <3>2. PICK l \in Links : l = t.l /\ l \in returned'
      BY <1>2, <2>1 DEF RefundCall
    <3>3. IsTrue("refund", l)'
      BY <3>2 DEF IsTrue
    <3> QED
      BY <1>1, <1>2, <1>3, <3>1, <3>2, <3>3, ReportsKept DEF dbVars
  <2>2. CASE UNCHANGED gatewayVars
    BY <1>1, <1>2, <1>3, <2>2, ReportsKept DEF dbVars, gatewayVars
  <2> QED
    BY <2>1, <2>2 DEF EventReread, SweepPoll
<1>6. ReadingsSound'
  <2>1. CASE EventReread(h)
    <3>1. PICK x \in Txn :
            /\ x = [t EXCEPT !.ph = "reread", !.st = status[t.o],
                      !.pm  = IF t.arg = "refund" THEN "refunded" ELSE "captured",
                      !.pid = IF t.arg = "refund" THEN payId[t.o] ELSE t.l]
            /\ txn' = [txn EXCEPT ![h] = x]
      BY <1>1, <1>2, <2>1 DEF EventReread, Txn, PayStatuses, RowsOK
    <3>2. /\ x.o = t.o /\ x.l = t.l /\ x.op = "event" /\ x.arg = t.arg /\ x.ph = "reread"
          /\ x.pm  = IF t.arg = "refund" THEN "refunded" ELSE "captured"
          /\ x.pid = IF t.arg = "refund" THEN payId[t.o] ELSE t.l
      BY <1>2, <2>1, <3>1 DEF EventReread, Txn
    <3>3. IsTrue(t.arg, t.l)
      BY <1>2, <2>1 DEF EventReread, ReadingSound
    <3>4. CASE t.arg = "refund"
      <4>1. t.ph # "reread" /\ t.pm = "captured"
        BY <2>1, <3>4 DEF EventReread, NeedsReread, IgnoresRefund
      <4>2. payId[t.o] # NoLink
        BY <1>2, <4>1 DEF ReadingSound, Received
      <4>3. PaymentOf(payId[t.o], t.o) /\ t.l \in returned
        BY <1>1, <1>2, <3>3, <3>4, <4>2 DEF PaymentsNamed, IsTrue
      <4>4. ReadingSound(x)
        BY <1>2, <3>2, <3>3, <3>4, <4>2, <4>3 DEF ReadingSound
      <4>5. ReadingSound(x)'
        BY <1>3, <1>4, <4>4, ReadingKept
      <4> QED
        BY <1>1, <1>3, <1>4, <3>1, <4>5, ReadingsKept
    <3>5. CASE t.arg # "refund"
      <4>1. PaymentOf(t.l, t.o)
        BY <1>2, <2>1, <3>5 DEF EventReread, NeedsReread, PaymentOf
      <4>2. ReadingSound(x)
        BY <1>2, <3>2, <3>3, <3>5, <4>1, NoLinkAssumption DEF ReadingSound
      <4>3. ReadingSound(x)'
        BY <1>3, <1>4, <4>2, ReadingKept
      <4> QED
        BY <1>1, <1>3, <1>4, <3>1, <4>3, ReadingsKept
    <3> QED
      BY <3>4, <3>5
  <2>2. CASE SweepPoll(h)
    <3>1. PICK a \in {"paid", "unpaid"} :
            txn' = [txn EXCEPT ![h] = [t EXCEPT !.ph = "polled", !.arg = a]]
      BY <1>2, <2>2 DEF SweepPoll
    <3>2. PICK x \in Txn : x = [t EXCEPT !.ph = "polled", !.arg = a]
      BY <1>2 DEF Txn, EventKinds
    <3>3. /\ x.o = t.o /\ x.l = t.l /\ x.op = "sweep" /\ x.ph = "polled"
          /\ x.pm = t.pm /\ x.pid = t.pid /\ t.ph = "begun"
      BY <1>2, <2>2, <3>2 DEF SweepPoll, Txn
    <3>4. ReadingSound(x)
      BY <1>2, <3>3 DEF ReadingSound
    <3>5. ReadingSound(x)'
      BY <1>3, <1>4, <3>4, ReadingKept
    <3> QED
      BY <1>1, <1>3, <1>4, <3>1, <3>2, <3>5, ReadingsKept
  <2>3. CASE RefundCall(h)
    <3>1. PICK x \in Txn : x = [t EXCEPT !.ph = "called"]
      BY <1>2 DEF Txn
    <3>2. /\ x.o = t.o /\ x.l = t.l /\ x.op = "refund" /\ x.ph = "called"
          /\ x.pm = t.pm /\ x.pid = t.pid /\ t.ph = "begun" /\ t.op = "refund"
      BY <1>2, <2>3, <3>1 DEF RefundCall, Txn
    <3>3. PICK y \in Txn : y = t /\ ReadingSound(y)'
      <4>1. PICK y \in Txn : y = t
        BY <1>2
      <4>2. ReadingSound(y)'
        BY <1>2, <1>3, <1>4, <4>1, ReadingKept
      <4> QED
        BY <4>1, <4>2
    <3>4. ReadingSound(x)'
      <4>1. x.l \in returned'
        BY <2>3, <3>2 DEF RefundCall
      <4>2. /\ x.o = y.o /\ x.l = y.l /\ x.pm = y.pm /\ x.pid = y.pid
            /\ x.op = y.op /\ y.ph = "begun"
        BY <3>2, <3>3
      <4> QED
        BY <3>2, <3>3, <4>1, <4>2 DEF ReadingSound
    <3>5. txn' = [txn EXCEPT ![h] = x]
      BY <2>3, <3>1, <1>2 DEF RefundCall
    <3> QED
      BY <1>1, <1>3, <1>4, <3>4, <3>5, ReadingsKept
  <2> QED
    BY <2>1, <2>2, <2>3
<1> QED
  BY <1>4, <1>5, <1>6, MoneyParts

\* A step that closes a transaction after writes that keep the payments named.
LEMMA CloseMoney ==
  ASSUME IInv, GatewayGrows, PaymentsNamed', PaymentsKept,
         NEW h \in Handlers, Close(h),
         \A r \in sent' \cup seen' : r \in sent \cup seen \/ IsTrue(r[1], r[2])'
  PROVE  MoneyInv'
<1>1. TypeOK /\ ReportsTrue /\ ReadingsSound
  BY IInvParts DEF MoneyInv, CoreInv
<1>2. ReportsTrue'
  BY <1>1, ReportsKept
<1>3. ReadingsSound'
  BY <1>1, ReadingsKept DEF Close
<1> QED
  BY <1>2, <1>3, MoneyParts

\* The commits of the requests: cancel, retry, change of status.
LEMMA RequestMoney ==
  ASSUME IInv, Advances, NEW h \in Handlers,
         CancelCommit(h) \/ RetryCommit(h) \/ RetryConflict(h) \/ StaffCommit(h)
  PROVE  MoneyInv'
<1> DEFINE t == txn[h]
<1>1. /\ RowsOK /\ TypeOK /\ PaymentsNamed /\ Close(h)
  BY IInvParts, CoreParts DEF MoneyInv, CoreInv, CancelCommit, RetryCommit,
     RetryConflict, StaffCommit
<1>2. /\ t \in Txn /\ ReadingSound(t) /\ SnapshotSound(t)
      /\ t.o \in Orders /\ t.l \in Links
      /\ t.l[1] = t.o /\ payId[t.o] \in Links \cup {NoLink}
  BY OpenReading DEF CancelCommit, RetryCommit, RetryConflict, StaffCommit
<1>3. CASE CancelCommit(h) \/ StaffCommit(h)
  <2>1. /\ UNCHANGED <<link, returned, sent, seen>> /\ GatewayGrows
    BY <1>3 DEF CancelCommit, StaffCommit, gatewayVars, GatewayGrows
  <2>2. WritesPayment(h, t.o)
    <3>0. t.ph # "reread"
      BY <1>2, <1>3 DEF ReadingSound, CancelCommit, StaffCommit
    <3>1. CASE NoPaymentWrite
      BY <3>1 DEF WritesPayment
    <3>2. CASE \E to \in Statuses :
                 Cancel(h, t.o, t.st, t.pm, t.pid, to, payId[t.o], NoPaymentWrite)
      <4>1. OwesRefund(t.pm, t.pid) => payId[t.o] # NoLink
        BY <1>2, <3>0 DEF ReadingSound, OwesRefund
      <4> QED
        BY <1>1, <1>2, <3>2, <4>1, CancelWrites
    <3>3. Cancelled \in Statuses /\ CancelOrRefund \subseteq Statuses
      BY DEF Statuses, CancelOrRefund
    <3> QED
      BY <1>3, <3>1, <3>2, <3>3 DEF CancelCommit, StaffCommit, NoPaymentWrite
  <2>3. PaymentsNamed' /\ PaymentsKept
    BY <1>1, <1>2, <2>1, <2>2, WriteKeepsNames
  <2> QED
    BY <1>1, <2>1, <2>3, CloseMoney
<1>4. CASE RetryCommit(h)
  <2>1. GatewayGrows /\ UNCHANGED <<returned, sent, seen>>
    BY <1>1, <1>2, <1>4 DEF RetryCommit, GatewayGrows, TypeOK
  <2>2. CASE NoPaymentWrite
    <3>1. PaymentsNamed' /\ PaymentsKept
      BY <1>1, <2>1, <2>2, NamesUntouched DEF NoPaymentWrite
    <3> QED
      BY <1>1, <2>1, <3>1, CloseMoney
  <2>3. CASE ~NoPaymentWrite
    <3>1. /\ pay' = [pay EXCEPT ![t.o] = "created"]
          /\ payLink' = [payLink EXCEPT ![t.o] = t.l]
          /\ payId' = [payId EXCEPT ![t.o] = NoLink]
          /\ status[t.o] = Pending /\ pay[t.o] \in {"created", "failed"}
          /\ UNCHANGED <<status, returned>>
      BY <1>4, <2>3 DEF RetryCommit
    <3>2. payId[t.o] = NoLink
      BY <1>1, <1>2, <3>1 DEF PaymentsNamed, RowsOK, PendingMeansUnpaid
    <3>3. payId' = payId
      BY <1>1, <3>1, <3>2 DEF RowsOK
    <3>4. ASSUME NEW o \in Orders, payId[o] # NoLink
          PROVE  PaymentOf(payId[o], o)'
      BY <1>1, <2>1, <3>3, <3>4, TruthKept DEF PaymentsNamed, RowsOK, PaymentOf, GatewayGrows
    <3>5. PaymentsNamed'
      BY <1>1, <1>2, <3>1, <3>2, <3>3, <3>4 DEF PaymentsNamed, RowsOK, Received
    <3>6. PaymentsKept
      BY <3>3 DEF PaymentsKept
    <3> QED
      BY <1>1, <2>1, <3>5, <3>6, CloseMoney
  <2> QED
    BY <2>2, <2>3
<1>5. CASE RetryConflict(h)
  <2>1. /\ UNCHANGED dbVars /\ UNCHANGED returned /\ GatewayGrows
    BY <1>1, <1>2, <1>5 DEF RetryConflict, GatewayGrows, TypeOK
  <2>2. PaymentsNamed' /\ PaymentsKept
    BY <1>1, <2>1, NamesUntouched DEF dbVars
  <2>3. \A r \in sent' \cup seen' : r \in sent \cup seen \/ IsTrue(r[1], r[2])'
    <3>1. CASE UNCHANGED sent
      BY <2>1, <3>1 DEF dbVars
    <3>2. CASE sent' = sent \cup {<<"dead", t.l>>} /\ link'[t.l] = "cancelled"
      BY <2>1, <3>2 DEF dbVars, IsTrue
    <3> QED
      BY <1>1, <1>2, <1>5, <3>1, <3>2 DEF RetryConflict, TypeOK
  <2> QED
    BY <1>1, <2>1, <2>2, <2>3, CloseMoney
<1> QED
  BY <1>3, <1>4, <1>5

\* The commit of a payment event: it writes what it was truly told.
LEMMA EventMoney ==
  ASSUME IInv, Advances, NEW h \in Handlers, EventCommit(h)
  PROVE  MoneyInv'
<1> DEFINE t == txn[h]
<1>1. /\ RowsOK /\ TypeOK /\ PaymentsNamed /\ Close(h) /\ Busy(h) /\ t.op = "event"
      /\ EventEffect(h, t) /\ seen' = seen \cup {<<t.arg, t.l>>}
      /\ UNCHANGED <<link, returned, sent>>
  BY IInvParts, CoreParts DEF MoneyInv, CoreInv, EventCommit, gatewayVars
<1>2. /\ t \in Txn /\ ReadingSound(t) /\ SnapshotSound(t)
      /\ t.o \in Orders /\ t.l \in Links /\ t.pid \in Links \cup {NoLink}
      /\ t.l[1] = t.o /\ payId[t.o] \in Links \cup {NoLink}
  BY <1>1, OpenReading
<1>3. GatewayGrows
  BY <1>1 DEF GatewayGrows
<1>4. WritesPayment(h, t.o)
  <2>1. CASE t.ph = "begun" /\ ApplyCapture(h, t.o, t.l, t.st, t.pm)
    BY <1>2, <2>1, CaptureWrites
  <2>2. CASE t.ph = "begun" /\ ApplyFailure(h, t.o, t.st, t.pm, t.pid)
    <3>1. OwesRefund(t.pm, t.pid) => payId[t.o] # NoLink
      BY <1>2, <2>2 DEF ReadingSound, OwesRefund
    <3> QED
      BY <1>1, <1>2, <2>2, <3>1, FailureWrites
  <2>3. CASE UNCHANGED paymentVars
    BY <2>3 DEF WritesPayment, NoPaymentWrite
  <2>4. CASE /\ t.ph = "reread"
             /\ Cancel(h, t.o, t.st, t.pm, t.pid, Refunded, t.pid,
                       SetPayment(h, t.o, t.pm, t.pid))
    <3>1. t.pm \in {"captured", "refunded"}
      BY <1>2, <2>4 DEF SnapshotSound
    <3>2. /\ t.pid \in Links /\ PaymentOf(t.pid, t.o)
          /\ t.pm = "refunded" => \E m \in returned : m[1] = t.o
      BY <1>2, <2>4, <3>1 DEF ReadingSound, Received
    <3>3. \E s \in {"refund_pending", t.pm} : SetPayment(h, t.o, s, t.pid)
      BY <2>4 DEF Cancel
    <3> QED
      BY <1>2, <3>1, <3>2, <3>3, ReportedPayment DEF PayStatuses
  <2> QED
    BY <1>1, <2>1, <2>2, <2>3, <2>4 DEF EventEffect
<1>5. PaymentsNamed' /\ PaymentsKept
  BY <1>1, <1>2, <1>3, <1>4, WriteKeepsNames
<1>6. ASSUME NEW r \in sent' \cup seen', r \notin sent \cup seen
      PROVE  IsTrue(r[1], r[2])'
  <2>1. r = <<t.arg, t.l>> /\ IsTrue(t.arg, t.l)
    BY <1>1, <1>2, <1>6 DEF ReadingSound
  <2> QED
    BY <1>1, <2>1 DEF IsTrue
<1> QED
  BY <1>1, <1>3, <1>5, <1>6, CloseMoney

\* The commits of the two kinds of sweep.
LEMMA SweepMoney ==
  ASSUME IInv, Advances, NEW h \in Handlers, SweepCommit(h) \/ RefundCommit(h)
  PROVE  MoneyInv'
<1> DEFINE t == txn[h]
<1>1. /\ RowsOK /\ TypeOK /\ PaymentsNamed /\ Close(h) /\ Busy(h)
      /\ UNCHANGED <<seen, link, returned, sent>>
  BY IInvParts, CoreParts DEF MoneyInv, CoreInv, SweepCommit, RefundCommit, gatewayVars
<1>2. /\ t \in Txn /\ ReadingSound(t)
      /\ t.o \in Orders /\ t.l \in Links
      /\ t.l[1] = t.o /\ payId[t.o] \in Links \cup {NoLink}
  BY <1>1, OpenReading
<1>3. GatewayGrows
  BY <1>1 DEF GatewayGrows
<1>4. WritesPayment(h, t.o)
  <2>1. CASE ApplyCapture(h, t.o, t.l, status[t.o], pay[t.o])
    BY <1>2, <2>1, CaptureWrites
  <2>2. CASE /\ t.ph = "polled"
             /\ Cancel(h, t.o, t.st, t.pm, t.pid, Cancelled, payId[t.o], NoPaymentWrite)
    <3>1. OwesRefund(t.pm, t.pid) => payId[t.o] # NoLink
      BY <1>2, <2>2 DEF ReadingSound, OwesRefund
    <3> QED
      BY <1>1, <1>2, <2>2, <3>1, CancelWrites
  <2>3. CASE RefundCommit(h)
    <3>1. payId[t.o] # NoLink /\ t.l \in returned /\ SetPayment(h, t.o, "refunded", payId[t.o])
      BY <1>2, <2>3 DEF RefundCommit, ReadingSound
    <3>2. PaymentOf(payId[t.o], t.o)
      BY <1>1, <1>2, <3>1 DEF PaymentsNamed
    <3> QED
      BY <1>2, <3>1, <3>2, ReportedPayment DEF PayStatuses
  <2> QED
    BY <2>1, <2>2, <2>3 DEF SweepCommit
<1>5. PaymentsNamed' /\ PaymentsKept
  BY <1>1, <1>2, <1>3, <1>4, WriteKeepsNames
<1> QED
  BY <1>1, <1>3, <1>5, CloseMoney

\* The steps that end a transaction without a trace, an unknown event, and the
\* clock.
LEMMA TracelessMoney ==
  ASSUME IInv, Advances,
         \/ \E h \in Handlers : Abort(h)
         \/ \E k \in EventKinds, l \in Links : EventUnknown(k, l)
         \/ \E o \in Orders : HoldExpires(o)
         \/ UNCHANGED vars
  PROVE  MoneyInv'
<1>1. /\ RowsOK /\ TypeOK /\ PaymentsNamed /\ ReportsTrue /\ ReadingsSound
  BY IInvParts, CoreParts DEF MoneyInv, CoreInv
<1>2. UNCHANGED paymentVars /\ UNCHANGED gatewayVars
  BY DEF Abort, EventUnknown, HoldExpires, vars, dbVars
<1>3. GatewayGrows
  BY <1>2 DEF gatewayVars, GatewayGrows
<1>4. PaymentsNamed' /\ PaymentsKept
  BY <1>1, <1>2, <1>3, NamesUntouched
<1>5. CASE \E h \in Handlers : Abort(h)
  <2>1. UNCHANGED <<sent, seen>> /\ \E h \in Handlers : Close(h)
    BY <1>5 DEF Abort, dbVars, gatewayVars
  <2> QED
    BY <1>3, <1>4, <2>1, CloseMoney
<1>6. CASE ~\E h \in Handlers : Abort(h)
  <2>1. UNCHANGED txn
    BY <1>6 DEF EventUnknown, HoldExpires, vars
  <2>2. ReadingsSound'
    BY <1>1, <1>3, <1>4, <2>1, ReadingsUntouched
  <2>3. \A r \in sent' \cup seen' : r \in sent \cup seen \/ IsTrue(r[1], r[2])'
    <3>1. CASE UNCHANGED seen
      BY <1>2, <3>1 DEF gatewayVars
    <3>2. ASSUME NEW k \in EventKinds, NEW l \in Links, EventUnknown(k, l)
          PROVE  seen' = seen \cup {<<k, l>>} /\ IsTrue(k, l)'
      BY <1>1, <1>2, <3>2, DeliveriesAreTrue DEF EventUnknown, gatewayVars, IsTrue
    <3> QED
      BY <1>2, <1>6, <3>1, <3>2 DEF gatewayVars, HoldExpires, vars, dbVars
  <2>4. ReportsTrue'
    BY <1>1, <1>3, <2>3, ReportsKept
  <2> QED
    BY <1>4, <2>2, <2>4, MoneyParts
<1> QED
  BY <1>5, <1>6

\* Every step keeps the money in order.
LEMMA MoneyStep == ASSUME IInv, Next, Advances PROVE MoneyInv'
<1>1. CASE Gateway
  BY <1>1, GatewayMoney DEF Gateway
<1>2. CASE \E o \in Orders : HoldExpires(o)
  BY <1>2, TracelessMoney
<1>3. CASE Events
  BY <1>3, TracelessMoney, OpeningMoney, MiddleMoney, EventMoney DEF Events
<1>4. CASE Requests
  BY <1>4, OpeningMoney, RequestMoney DEF Requests
<1>5. CASE Sweeps
  BY <1>5, OpeningMoney, MiddleMoney, SweepMoney DEF Sweeps
<1>6. CASE \E h \in Handlers : Abort(h)
  BY <1>6, TracelessMoney
<1> QED
  BY <1>1, <1>2, <1>3, <1>4, <1>5, <1>6 DEF Next

\* Every step keeps the inductive invariant.
LEMMA NextStep == ASSUME IInv, Next PROVE IInv'
BY CoreNext, MoneyStep, IInvParts

\* So does a step that changes nothing.
LEMMA StutterStep == ASSUME IInv, UNCHANGED vars PROVE IInv'
<1>1. Advances
  BY DEF vars, dbVars, orderVars, Advances
<1> QED
  BY <1>1, CoreStutter, TracelessMoney, IInvParts

\* The rows a checkout has just committed satisfy the invariant.
LEMMA InitIInv == Init => IInv
<1>1. Init => PaymentsNamed
  BY MaxLinksAssumption DEF Init, PaymentsNamed, Received
<1>2. Init => ReportsTrue /\ ReadingsSound
  BY DEF Init, ReportsTrue, ReadingsSound, Busy
<1> QED
  BY <1>1, <1>2, InitCore, IInvParts DEF MoneyInv

-----------------------------------------------------------------------------
(* The theorems.                                                            *)

\* IInv holds in every reachable state.
THEOREM Invariance == Spec => []IInv
<1>1. Init => IInv
  BY InitIInv
<1>2. IInv /\ [Next]_vars => IInv'
  BY NextStep, StutterStep
<1> QED
  BY <1>1, <1>2, PTL DEF Spec

\* Every column, gateway state and transaction keeps to its values.
THEOREM TypeCorrect == Spec => []TypeOK
<1>1. IInv => TypeOK
  BY DEF IInv
<1> QED
  BY <1>1, Invariance, PTL

\* No handler, on any stale read, charges, refunds or fails the payment of an
\* order that still waits for it (apply_webhook, _cancel, the sweeps).
THEOREM PendingStaysUnpaid == Spec => []PendingMeansUnpaid
<1>1. IInv => PendingMeansUnpaid
  BY DEF IInv
<1> QED
  BY <1>1, Invariance, PTL

\* No handler queues a refund for an order that will still be delivered.
THEOREM RefundsOnlyWhenOver == Spec => []RefundOnlyWhenOver
<1>1. IInv => RefundOnlyWhenOver
  BY DEF IInv
<1> QED
  BY <1>1, Invariance, PTL

\* An order whose hold was cleared by a mismatch has a ticket.
THEOREM StrandedOrdersAreTicketed == Spec => []StrandedOrderHasTicket
<1>1. IInv => StrandedOrderHasTicket
  BY DEF IInv
<1> QED
  BY <1>1, Invariance, PTL

\* The payments row names a payment of its own order that was made, from the
\* first capture on, and reads refunded only when a payment of the order was
\* returned (set_payment_status, flag_amount_mismatch, the sweeps).
THEOREM PaymentsAreNamed == Spec => []PaymentsNamed
<1>1. IInv => PaymentsNamed
  BY DEF IInv, MoneyInv
<1> QED
  BY <1>1, Invariance, PTL

\* An order with one link says refunded only when that link's payment was
\* returned: the sweep marks it after the call, apply_webhook after the
\* gateway's word.
THEOREM RefundedWasReturned ==
  ASSUME MaxLinks = 1
  PROVE  Spec => []RefundedMeansReturned
<1>1. IInv => RefundedMeansReturned
  <2>1. SUFFICES ASSUME IInv, NEW o \in Orders, pay[o] = "refunded"
                 PROVE  payId[o] \in returned
    BY DEF RefundedMeansReturned
  <2>2. PICK l \in returned : l[1] = o
    BY <2>1 DEF IInv, MoneyInv, PaymentsNamed
  <2>3. payId[o] \in Links /\ payId[o][1] = o /\ l \in Links
    BY <2>1, <2>2 DEF IInv, TypeOK, MoneyInv, PaymentsNamed, PaymentOf, Received
  <2> QED
    BY <2>2, <2>3 DEF Links
<1> QED
  BY <1>1, Invariance, PTL

-----------------------------------------------------------------------------
(* One transaction at a time on an order with one link: the accounting the  *)
(* handlers are written for.                                                *)

\* The only link of an order is checkout's.
LEMMA OnlyLink ==
  ASSUME MaxLinks = 1, NEW l \in Links
  PROVE  l = <<l[1], 1>> /\ l[1] \in Orders
BY DEF Links

\* A step on behalf of order o leaves the rows of every other order alone.
OnlyOrder(o) ==
  \A p \in Orders \ {o} :
    status'[p] = status[p] /\ pay'[p] = pay[p] /\ payId'[p] = payId[p]

\* Checkout's link is never replaced, so no retry opens another.
LEMMA FirstLinkStays ==
  ASSUME MaxLinks = 1, IInv, FirstLinkUsed, Next
  PROVE  FirstLinkUsed'
<1>1. CASE UNCHANGED link
  BY <1>1 DEF FirstLinkUsed
<1>2. ASSUME NEW l \in Links, NEW v \in LinkStates \ {"unused", "created"},
             link' = [link EXCEPT ![l] = v]
      PROVE  FirstLinkUsed'
  <2>1. \A o \in Orders : <<o, 1>> \in Links
    BY DEF Links
  <2> QED
    BY <1>2, <2>1 DEF FirstLinkUsed, IInv, TypeOK
<1>3. CASE Gateway
  BY <1>1, <1>2, <1>3 DEF Gateway, Pay, ExpireLink, DeclinePayment, DashboardRefund, LinkStates
<1>4. CASE \E h \in Handlers : RetryCommit(h) \/ RetryConflict(h)
  <2>1. PICK h \in Handlers : RetryCommit(h) \/ RetryConflict(h)
    BY <1>4
  <2>2. txn[h].l \in Links
    BY <2>1, OpenReading DEF RetryCommit, RetryConflict
  <2>3. link[txn[h].l] \in LinkStates \ {"unused", "created"}
    BY <2>2, OnlyLink DEF FirstLinkUsed, IInv, TypeOK
  <2> QED
    BY <1>1, <1>2, <2>1, <2>2, <2>3 DEF RetryCommit, RetryConflict, LinkStates
<1>5. ASSUME NEW h \in Handlers, NEW l \in Links, RetryBegin(h, l)
      PROVE  FALSE
  BY <1>5, OnlyLink DEF RetryBegin, FirstLinkUsed
<1>6. CASE Events \/ Sweeps \/ (\E o \in Orders : HoldExpires(o))
           \/ \E h \in Handlers : Abort(h)
  BY <1>1, <1>6 DEF Events, Sweeps, HoldExpires, Abort, gatewayVars, EventUnknown,
     EventBegin, EventReread, EventCommit, SweepClaim, SweepPoll, SweepCommit,
     RefundBegin, RefundCall, RefundCommit
<1>7. CASE Requests
  BY <1>1, <1>4, <1>5, <1>7 DEF Requests, gatewayVars, CancelBegin, CancelCommit,
     StaffBegin, StaffCommit
<1> QED
  BY <1>3, <1>6, <1>7 DEF Next

\* A step that leaves the rows alone leaves every reading exact.
LEMMA ExactUntouched ==
  ASSUME TypeOK, ReadingsExact, UNCHANGED <<status, pay, payId>>,
         NEW h \in Handlers, NEW x \in Txn \cup {Idle},
         x # Idle => ReadingExact(x)', txn' = [txn EXCEPT ![h] = x]
  PROVE  ReadingsExact'
<1>1. ASSUME NEW g \in Handlers, Busy(g)'
      PROVE  ReadingExact(txn[g])'
  <2>1. CASE g = h
    BY <1>1, <2>1 DEF TypeOK, Busy
  <2>2. CASE g # h
    BY <1>1, <2>2 DEF TypeOK, Busy, ReadingsExact, ReadingExact
  <2> QED
    BY <2>1, <2>2
<1> QED
  BY <1>1 DEF ReadingsExact

\* The commit of a transaction that had its order to itself leaves the
\* readings of the others exact.
LEMMA ExactAfterClose ==
  ASSUME TypeOK, ReadingsExact, OneAtATime, NEW h \in Handlers, Busy(h),
         OnlyOrder(txn[h].o), Close(h)
  PROVE  ReadingsExact'
<1>1. ASSUME NEW g \in Handlers, Busy(g)'
      PROVE  ReadingExact(txn[g])'
  <2>1. g # h /\ txn'[g] = txn[g] /\ Busy(g)
    BY <1>1 DEF TypeOK, Busy, Close
  <2>2. txn[g].o # txn[h].o /\ txn[g].o \in Orders /\ ReadingExact(txn[g])
    BY <2>1, OpenTxn DEF OneAtATime, ReadingsExact, Txn
  <2> QED
    BY <2>1, <2>2 DEF OnlyOrder, ReadingExact
<1> QED
  BY <1>1 DEF ReadingsExact

\* Payments stay placed when only order o is written and reported on.
LEMMA PlacedElsewhere ==
  ASSUME PaymentsPlaced, NEW o \in Orders, OnlyOrder(o), seen \subseteq seen',
         \A r \in seen' : r \in seen \/ r[2] = <<o, 1>>,
         PaymentPlaced(o)'
  PROVE  PaymentsPlaced'
<1>1. ASSUME NEW p \in Orders, p # o
      PROVE  PaymentPlaced(p)'
  <2>1. PaidFor(p)' => PaidFor(p)
    BY <1>1 DEF PaidFor
  <2> QED
    BY <1>1, <2>1 DEF PaymentsPlaced, PaymentPlaced, OnlyOrder, Accounted,
       FailureReported
<1> QED
  BY <1>1 DEF PaymentsPlaced

\* Payments stay placed when no row changes and no payment is newly reported.
LEMMA PlacedUntouched ==
  ASSUME PaymentsPlaced, UNCHANGED <<status, pay, payId>>, seen \subseteq seen',
         \A r \in seen' : r \in seen \/ r[1] \in {"failed", "refund"}
  PROVE  PaymentsPlaced'
<1>1. \A o \in Orders : PaidFor(o)' => PaidFor(o)
  BY DEF PaidFor
<1> QED
  BY <1>1 DEF PaymentsPlaced, PaymentPlaced, Accounted, FailureReported

\* A refunded order stays refunded.
LEMMA RefundedStays ==
  ASSUME RowsOK, Advances, NEW o \in Orders, status[o] = Refunded
  PROVE  status'[o] = Refunded
BY AdvancesFacts, GraphFacts DEF RowsOK

\* _cancel on rows that are as it read them: the payment of an order that ends
\* is queued to go back.
LEMMA CancelPlaces ==
  ASSUME RowsOK, Advances, NEW h, NEW o \in Orders, NEW to \in CancelOrRefund,
         PaymentPlaced(o), PaidFor(o)' => PaidFor(o), seen \subseteq seen',
         Cancel(h, o, status[o], pay[o], payId[o], to, payId[o], NoPaymentWrite)
  PROVE  PaymentPlaced(o)' /\ OnlyOrder(o)
<1>1. /\ status' = [status EXCEPT ![o] = to]
      /\ IF OwesRefund(pay[o], payId[o])
           THEN SetPayment(h, o, "refund_pending", payId[o]) ELSE NoPaymentWrite
  BY DEF Cancel, Transition
<1>2. /\ status'[o] = to /\ payId' = payId
      /\ pay'[o] = IF OwesRefund(pay[o], payId[o]) THEN "refund_pending" ELSE pay[o]
      /\ \A p \in Orders \ {o} : status'[p] = status[p] /\ pay'[p] = pay[p]
  BY <1>1 DEF RowsOK, SetPayment, NoPaymentWrite, paymentVars
<1>3. OnlyOrder(o)
  BY <1>2 DEF OnlyOrder
<1>4. PaidFor(o)' => payId'[o] # NoLink \/ status'[o] = Refunded
  BY <1>2, RefundedStays DEF PaymentPlaced
<1>5. payId[o] # NoLink => pay'[o] \in Accounted(o)'
  BY <1>2 DEF PaymentPlaced, Accounted, FailureReported, OwesRefund
<1> QED
  BY <1>2, <1>3, <1>4, <1>5 DEF PaymentPlaced

\* apply_webhook's capture branch on rows that are as it read them.
LEMMA CapturePlaces ==
  ASSUME RowsOK, PaymentsNamed, NEW h, NEW o \in Orders, NEW l \in Links,
         PaymentPlaced(o), seen \subseteq seen', ApplyCapture(h, o, l, status[o], pay[o])
  PROVE  PaymentPlaced(o)' /\ OnlyOrder(o)
<1>1. CASE CaptureMismatch(h, o, l, pay[o])
  <2>1. CASE pay[o] \in {"amount_mismatch", "refunded"}
    <3>1. UNCHANGED <<status, pay, payId>> /\ payId[o] # NoLink
      BY <1>1, <2>1 DEF CaptureMismatch, orderVars, paymentVars, PaymentsNamed, Received
    <3> QED
      BY <3>1 DEF PaymentPlaced, OnlyOrder, Accounted, FailureReported
  <2>2. CASE pay[o] \notin {"amount_mismatch", "refunded"}
    <3>1. SetPayment(h, o, "amount_mismatch", l) /\ UNCHANGED status
      BY <1>1, <2>2 DEF CaptureMismatch
    <3>2. /\ pay'[o] = "amount_mismatch" /\ payId'[o] = l
          /\ \A p \in Orders \ {o} : pay'[p] = pay[p] /\ payId'[p] = payId[p]
      BY <3>1 DEF SetPayment, RowsOK
    <3> QED
      BY <3>1, <3>2, NoLinkAssumption DEF PaymentPlaced, OnlyOrder, Accounted
  <2> QED
    BY <2>1, <2>2
<1>2. CASE CaptureExact(h, o, l, status[o])
  <2>1. CASE status[o] = Refunded
    BY <1>2, <2>1 DEF CaptureExact, orderVars, paymentVars, PaymentPlaced, OnlyOrder,
       Accounted, FailureReported
  <2>2. CASE status[o] # Refunded
    <3>1. /\ SetPayment(h, o, "captured", l) /\ status[o] \notin CancelOrRefund
          /\ status' = [status EXCEPT ![o] = IF status[o] = Pending THEN Confirmed
                                                                    ELSE status[o]]
      BY <1>2, <2>2 DEF CaptureExact, RowsOK, Transition, NoOrderWrite, orderVars, CancelOrRefund
    <3>2. /\ pay'[o] = "captured" /\ payId'[o] = l /\ status'[o] \notin CancelOrRefund
          /\ \A p \in Orders \ {o} :
               status'[p] = status[p] /\ pay'[p] = pay[p] /\ payId'[p] = payId[p]
      BY <3>1 DEF SetPayment, RowsOK, CancelOrRefund
    <3> QED
      BY <3>2, NoLinkAssumption DEF PaymentPlaced, OnlyOrder, Accounted
  <2> QED
    BY <2>1, <2>2
<1> QED
  BY <1>1, <1>2 DEF ApplyCapture

\* A report that the only link of an order is dead finds no payment on record.
LEMMA DeathPlaces ==
  ASSUME MaxLinks = 1, RowsOK, Advances, PaymentsNamed, NEW h, NEW o \in Orders,
         NEW l \in Links, l[1] = o, IsTrue("dead", l), PaymentPlaced(o),
         PaidFor(o)' => PaidFor(o),
         ApplyFailure(h, o, status[o], pay[o], payId[o])
  PROVE  PaymentPlaced(o)' /\ OnlyOrder(o)
<1>1. payId[o] = NoLink
  <2>1. payId[o] # NoLink => payId[o] = l /\ PaymentOf(l, o)
    BY OnlyLink DEF PaymentsNamed, PaymentOf, RowsOK
  <2> QED
    BY <2>1 DEF PaymentOf, IsTrue
<1>2. /\ SetPayment(h, o, "failed", payId[o])
      /\ \A p \in Orders \ {o} : status'[p] = status[p]
  BY <1>1 DEF ApplyFailure, Cancel, OwesRefund, Transition, NoOrderWrite, orderVars, RowsOK
<1>3. payId' = payId /\ OnlyOrder(o)
  BY <1>2 DEF SetPayment, RowsOK, OnlyOrder
<1> QED
  BY <1>1, <1>3, RefundedStays DEF PaymentPlaced

\* A report of a failed attempt may find one, and overwrites its row or, when
\* the order it cancels owes it, queues its refund.
LEMMA FailurePlaces ==
  ASSUME RowsOK, Advances, NEW h, NEW o \in Orders, PaymentPlaced(o),
         PaidFor(o)' => PaidFor(o), FailureReported(o)',
         ApplyFailure(h, o, status[o], pay[o], payId[o])
  PROVE  PaymentPlaced(o)' /\ OnlyOrder(o)
<1>1. PICK s \in {"failed", "refund_pending"} :
        /\ SetPayment(h, o, s, payId[o])
        /\ s = "refund_pending" => status'[o] \in CancelOrRefund
        /\ \A p \in Orders \ {o} : status'[p] = status[p]
  BY DEF ApplyFailure, Cancel, Transition, NoOrderWrite, orderVars, RowsOK, CancelOrRefund
<1>2. payId' = payId /\ pay'[o] = s /\ OnlyOrder(o)
  BY <1>1 DEF SetPayment, RowsOK, OnlyOrder
<1>3. pay'[o] \in Accounted(o)'
  BY <1>1, <1>2 DEF Accounted
<1> QED
  BY <1>2, <1>3, RefundedStays DEF PaymentPlaced

\* What a commit does to the rows, on a reading that is exact.
Commits(h) ==
  \/ CancelCommit(h) \/ RetryCommit(h) \/ RetryConflict(h) \/ StaffCommit(h)
  \/ EventCommit(h) \/ SweepCommit(h) \/ RefundCommit(h)

\* The commit of a payment event leaves the payment where it belongs.
LEMMA EventPlaces ==
  ASSUME MaxLinks = 1, IInv, Advances, ReadingsExact, PaymentsPlaced,
         NEW h \in Handlers, NEW o \in Orders, txn[h].o = o, EventCommit(h)
  PROVE  PaymentPlaced(o)' /\ OnlyOrder(o)
<1> DEFINE t == txn[h]
<1>1. /\ RowsOK /\ TypeOK /\ PaymentsNamed /\ Busy(h) /\ t.op = "event"
      /\ EventEffect(h, t) /\ seen' = seen \cup {<<t.arg, t.l>>}
  BY IInvParts, CoreParts DEF MoneyInv, CoreInv, EventCommit
<1>2. /\ t \in Txn /\ ReadingSound(t) /\ SnapshotSound(t) /\ ReadingExact(t)
      /\ t.o = o /\ t.l \in Links /\ t.pid \in Links \cup {NoLink}
      /\ t.l[1] = t.o /\ IsTrue(t.arg, t.l) /\ PaymentPlaced(o)
  BY <1>1, OpenReading DEF ReadingsExact, ReadingSound, PaymentsPlaced
<1>3. t.st = status[o] /\ (t.ph # "reread" => t.pm = pay[o] /\ t.pid = payId[o])
  BY <1>2 DEF ReadingExact
<1>4. t.arg \notin {"paid", "poll"} => (PaidFor(o)' => PaidFor(o))
  BY <1>1 DEF PaidFor
<1>5. CASE t.ph = "begun" /\ ApplyCapture(h, o, t.l, t.st, t.pm)
  BY <1>1, <1>2, <1>3, <1>5, CapturePlaces
<1>6. CASE t.ph = "begun" /\ t.arg \in {"dead", "failed"}
             /\ ApplyFailure(h, o, t.st, t.pm, t.pid)
  <2>1. CASE t.arg = "dead"
    BY <1>1, <1>2, <1>3, <1>4, <1>6, <2>1, DeathPlaces
  <2>2. CASE t.arg = "failed"
    <3>1. FailureReported(o)'
      BY <1>1, <1>2, <2>2, OnlyLink DEF FailureReported
    <3> QED
      BY <1>1, <1>2, <1>3, <1>4, <1>6, <2>2, <3>1, FailurePlaces
  <2> QED
    BY <1>6, <2>1, <2>2
<1>7. CASE t.arg = "refund" /\ UNCHANGED <<orderVars, paymentVars, ticket>>
  BY <1>1, <1>2, <1>4, <1>7 DEF PaymentPlaced, OnlyOrder, orderVars, paymentVars, Accounted,
     FailureReported
<1>8. CASE /\ t.ph = "reread"
           /\ Cancel(h, o, t.st, t.pm, t.pid, Refunded, t.pid,
                     SetPayment(h, o, t.pm, t.pid))
  <2>1. /\ t.pm \in {"captured", "refunded"} /\ t.pid # NoLink
    BY <1>2, <1>8 DEF SnapshotSound, ReadingSound, Received
  <2>2. /\ status' = [status EXCEPT ![o] = Refunded]
        /\ \E s \in {"refund_pending", "refunded"} : SetPayment(h, o, s, t.pid)
    BY <1>3, <1>8, <2>1 DEF Cancel, Transition, OwesRefund
  <2>3. /\ status'[o] = Refunded /\ pay'[o] \in {"refund_pending", "refunded"}
        /\ payId'[o] = t.pid /\ OnlyOrder(o)
    BY <1>1, <1>2, <2>2 DEF SetPayment, RowsOK, OnlyOrder
  <2> QED
    BY <2>1, <2>3 DEF PaymentPlaced, CancelOrRefund, Accounted
<1> QED
  BY <1>1, <1>5, <1>6, <1>7, <1>8 DEF EventEffect

\* The other commits do too.
LEMMA CommitPlaces ==
  ASSUME MaxLinks = 1, IInv, Advances, ReadingsExact, PaymentsPlaced,
         NEW h \in Handlers, NEW o \in Orders, txn[h].o = o,
         Commits(h), ~EventCommit(h)
  PROVE  PaymentPlaced(o)' /\ OnlyOrder(o)
<1> DEFINE t == txn[h]
<1>1. /\ RowsOK /\ TypeOK /\ PaymentsNamed /\ Busy(h) /\ UNCHANGED seen
  BY IInvParts, CoreParts DEF MoneyInv, CoreInv, Commits, CancelCommit, RetryCommit,
     RetryConflict, StaffCommit, SweepCommit, RefundCommit, dbVars
<1>2. /\ t \in Txn /\ ReadingSound(t) /\ SnapshotSound(t) /\ ReadingExact(t)
      /\ t.o = o /\ t.l \in Links /\ PaymentPlaced(o)
  BY <1>1, OpenReading DEF ReadingsExact, PaymentsPlaced
<1>3. t.st = status[o] /\ (t.ph # "reread" => t.pm = pay[o] /\ t.pid = payId[o])
  BY <1>2 DEF ReadingExact
<1>4. PaidFor(o)' => PaidFor(o)
  BY <1>1 DEF PaidFor
<1>5. t.op # "event" => t.ph # "reread"
  BY <1>2 DEF ReadingSound
<1>6. CASE /\ t.op # "event"
           /\ \E to \in CancelOrRefund :
                Cancel(h, o, t.st, t.pm, t.pid, to, payId[o], NoPaymentWrite)
  BY <1>1, <1>2, <1>3, <1>4, <1>5, <1>6, CancelPlaces
<1>7. Cancelled \in CancelOrRefund
  BY DEF CancelOrRefund
<1>8. CASE CancelCommit(h)
  BY <1>6, <1>7, <1>8 DEF CancelCommit
<1>9. CASE RetryCommit(h)
  <2>1. CASE pay[o] \in {"created", "failed"}
    <3>1. payId[o] = NoLink /\ status[o] = Pending
      BY <1>1, <1>2, <1>9, <2>1 DEF RetryCommit, PaymentsNamed, RowsOK, PendingMeansUnpaid
    <3>2. UNCHANGED status /\ payId' = payId /\ OnlyOrder(o)
      BY <1>1, <1>2, <1>9, <2>1, <3>1 DEF RetryCommit, RowsOK, OnlyOrder
    <3> QED
      BY <1>2, <1>4, <3>1, <3>2 DEF PaymentPlaced
  <2>2. CASE pay[o] \notin {"created", "failed"}
    BY <1>1, <1>2, <1>4, <1>9, <2>2 DEF RetryCommit, NoPaymentWrite, paymentVars,
       PaymentPlaced, OnlyOrder, Accounted, FailureReported
  <2> QED
    BY <2>1, <2>2
<1>10. CASE RetryConflict(h)
  BY <1>2, <1>4, <1>10 DEF RetryConflict, dbVars, orderVars, paymentVars,
     PaymentPlaced, OnlyOrder, Accounted, FailureReported
<1>11. CASE StaffCommit(h)
  <2>1. CASE t.arg \in CancelOrRefund
    BY <1>6, <1>11, <2>1 DEF StaffCommit
  <2>2. CASE t.arg \notin CancelOrRefund
    <3>1. /\ status' = [status EXCEPT ![o] = t.arg] /\ UNCHANGED <<pay, payId>>
          /\ CanTransition(status[o], t.arg)
      BY <1>2, <1>3, <1>11, <2>2 DEF StaffCommit, Transition, SnapshotSound, paymentVars
    <3>2. status[o] \notin CancelOrRefund /\ status'[o] \notin CancelOrRefund
      BY <1>1, <1>2, <2>2, <3>1, GraphFacts DEF RowsOK, CancelOrRefund
    <3> QED
      BY <1>1, <1>2, <1>4, <3>1, <3>2, RefundedStays DEF PaymentPlaced, OnlyOrder,
         RowsOK, Accounted, FailureReported
  <2> QED
    BY <2>1, <2>2
<1>12. CASE SweepCommit(h)
  <2>1. CASE ApplyCapture(h, o, t.l, status[o], pay[o])
    BY <1>1, <1>2, <2>1, CapturePlaces
  <2> QED
    BY <1>6, <1>7, <1>12, <2>1 DEF SweepCommit
<1>13. CASE RefundCommit(h)
  <2>1. UNCHANGED status /\ SetPayment(h, o, "refunded", payId[o])
    BY <1>13 DEF RefundCommit, NoOrderWrite, orderVars
  <2>2. pay'[o] = "refunded" /\ payId' = payId /\ OnlyOrder(o)
    BY <1>1, <1>2, <2>1 DEF SetPayment, RowsOK, OnlyOrder
  <2> QED
    BY <1>2, <1>4, <2>1, <2>2 DEF PaymentPlaced, Accounted
<1> QED
  BY <1>8, <1>9, <1>10, <1>11, <1>12, <1>13 DEF Commits

\* A commit keeps every reading exact and every payment placed.
LEMMA SerialCommit ==
  ASSUME MaxLinks = 1, IInv, SerialInv, OneAtATime, Advances,
         NEW h \in Handlers, Commits(h)
  PROVE  ReadingsExact' /\ PaymentsPlaced'
<1>1. /\ Close(h) /\ Busy(h) /\ TypeOK /\ ReadingsExact /\ PaymentsPlaced
  BY DEF Commits, CancelCommit, RetryCommit, RetryConflict, StaffCommit, EventCommit,
     SweepCommit, RefundCommit, IInv, SerialInv
<1>2. PICK o \in Orders : txn[h].o = o /\ txn[h].l = <<o, 1>>
  BY <1>1, OpenReading, OnlyLink
<1>3. PaymentPlaced(o)' /\ OnlyOrder(o)
  BY <1>1, <1>2, EventPlaces, CommitPlaces
<1>4. seen \subseteq seen' /\ \A r \in seen' : r \in seen \/ r[2] = <<o, 1>>
  BY <1>2 DEF Commits, CancelCommit, RetryCommit, RetryConflict, StaffCommit, EventCommit,
     SweepCommit, RefundCommit, dbVars
<1>5. PaymentsPlaced'
  BY <1>1, <1>2, <1>3, <1>4, PlacedElsewhere
<1>6. ReadingsExact'
  BY <1>1, <1>2, <1>3, ExactAfterClose
<1> QED
  BY <1>5, <1>6

\* The steps that leave the rows alone.
RowsAlone(h) ==
  \/ \E k \in EventKinds, l \in Links : EventBegin(h, k, l)
  \/ EventReread(h) \/ SweepPoll(h) \/ RefundCall(h) \/ Abort(h)
  \/ \E o \in Orders : CancelBegin(h, o) \/ SweepClaim(h, o) \/ RefundBegin(h, o)
  \/ \E o \in Orders, s \in Statuses : StaffBegin(h, o, s)

\* A handler that reads while no other is at work reads the rows as they are.
LEMMA SerialRead ==
  ASSUME IInv, SerialInv, NEW h \in Handlers, RowsAlone(h)
  PROVE  ReadingsExact' /\ PaymentsPlaced'
<1>1. /\ TypeOK /\ ReadingsExact /\ PaymentsPlaced
      /\ \A o \in Orders : /\ payLink[o] \in Links /\ payId[o] \in Links \cup {NoLink}
                           /\ status[o] \in Statuses /\ pay[o] \in PayStatuses
  BY DEF IInv, SerialInv, TypeOK
<1>2. UNCHANGED <<status, pay, payId, seen>>
  BY DEF RowsAlone, EventBegin, EventReread, SweepPoll, RefundCall, Abort,
     CancelBegin, SweepClaim, RefundBegin, StaffBegin, dbVars, orderVars, paymentVars
<1>3. PaymentsPlaced'
  BY <1>1, <1>2, PlacedUntouched
<1>4. ASSUME NEW x \in Txn \cup {Idle}, x # Idle => ReadingExact(x),
             txn' = [txn EXCEPT ![h] = x]
      PROVE  ReadingsExact'
  BY <1>1, <1>2, <1>4, ExactUntouched DEF ReadingExact
<1>5. ASSUME NEW op \in Ops, NEW o \in Orders, NEW l \in Links,
             NEW arg \in EventKinds \cup Statuses \cup {"unpaid", "none"},
             Begin(h, op, o, l, arg)
      PROVE  ReadingsExact'
  <2>1. PICK x \in Txn : x = Snapshot(op, o, l, arg)
    BY <1>1 DEF Snapshot, Txn
  <2>2. ReadingExact(x)
    BY <2>1 DEF Snapshot, ReadingExact
  <2> QED
    BY <1>4, <1>5, <2>1, <2>2 DEF Begin
<1>6. CASE \/ \E k \in EventKinds, l \in Links : EventBegin(h, k, l)
           \/ \E o \in Orders : CancelBegin(h, o) \/ SweepClaim(h, o) \/ RefundBegin(h, o)
           \/ \E o \in Orders, s \in Statuses : StaffBegin(h, o, s)
  BY <1>1, <1>3, <1>5, <1>6, LinksOfOrders DEF Ops, EventBegin, CancelBegin, SweepClaim,
     RefundBegin, StaffBegin
<1>7. CASE Abort(h)
  BY <1>3, <1>4, <1>7 DEF Abort, Close
<1>8. CASE EventReread(h) \/ SweepPoll(h) \/ RefundCall(h)
  <2> DEFINE t == txn[h]
  <2>1. t \in Txn /\ ReadingExact(t) /\ t.o \in Orders /\ t.l \in Links
    BY <1>1, <1>8, OpenReading DEF ReadingsExact, EventReread, SweepPoll, RefundCall
  <2>2. CASE EventReread(h)
    <3>1. PICK x \in Txn :
            /\ x = [t EXCEPT !.ph = "reread", !.st = status[t.o],
                      !.pm  = IF t.arg = "refund" THEN "refunded" ELSE "captured",
                      !.pid = IF t.arg = "refund" THEN payId[t.o] ELSE t.l]
            /\ txn' = [txn EXCEPT ![h] = x]
      BY <1>1, <2>1, <2>2 DEF EventReread, Txn, PayStatuses
    <3>2. /\ x.o = t.o /\ x.ph = "reread" /\ x.st = status[t.o]
          /\ x.pm = IF t.arg = "refund" THEN "refunded" ELSE "captured"
      BY <2>1, <3>1 DEF Txn
    <3>3. t.arg # "refund" => status[t.o] \in CancelOrRefund
      BY <2>1, <2>2 DEF EventReread, NeedsReread, ReadingExact, CancelOrRefund
    <3>4. ReadingExact(x)
      BY <3>2, <3>3 DEF ReadingExact
    <3> QED
      BY <1>3, <1>4, <3>1, <3>4
  <2>3. CASE SweepPoll(h)
    <3>1. PICK a \in {"paid", "unpaid"} :
            txn' = [txn EXCEPT ![h] = [t EXCEPT !.ph = "polled", !.arg = a]]
      BY <2>1, <2>3 DEF SweepPoll
    <3>2. PICK x \in Txn : x = [t EXCEPT !.ph = "polled", !.arg = a]
      BY <2>1 DEF Txn, EventKinds
    <3>3. ReadingExact(x)
      BY <2>1, <2>3, <3>2 DEF SweepPoll, ReadingExact, Txn
    <3> QED
      BY <1>3, <1>4, <3>1, <3>2, <3>3
  <2>4. CASE RefundCall(h)
    <3>1. PICK x \in Txn : x = [t EXCEPT !.ph = "called"]
      BY <2>1 DEF Txn
    <3>2. ReadingExact(x)
      BY <2>1, <2>4, <3>1 DEF RefundCall, ReadingExact, Txn
    <3> QED
      BY <1>3, <1>4, <2>1, <2>4, <3>1, <3>2 DEF RefundCall
  <2> QED
    BY <1>8, <2>2, <2>3, <2>4
<1> QED
  BY <1>3, <1>6, <1>7, <1>8 DEF RowsAlone

\* The steps of nobody's transaction.
LEMMA SerialElsewhere ==
  ASSUME MaxLinks = 1, IInv, SerialInv,
         \/ Gateway
         \/ \E o \in Orders : HoldExpires(o)
         \/ \E k \in EventKinds, l \in Links : EventUnknown(k, l)
  PROVE  ReadingsExact' /\ PaymentsPlaced'
<1>1. UNCHANGED <<status, pay, payId, txn>>
  BY DEF Gateway, Pay, ExpireLink, DeclinePayment, DashboardRefund, HoldExpires, EventUnknown,
     dbVars, orderVars, paymentVars
<1>2. /\ seen \subseteq seen'
      /\ \A r \in seen' : r \in seen \/ r[1] \in {"failed", "refund"}
  BY OnlyLink DEF Gateway, Pay, ExpireLink, DeclinePayment, DashboardRefund, HoldExpires, EventUnknown,
     dbVars, Finds
<1>3. PaymentsPlaced'
  BY <1>1, <1>2, PlacedUntouched DEF SerialInv
<1>4. ReadingsExact'
  BY <1>1 DEF SerialInv, ReadingsExact, ReadingExact, Busy
<1> QED
  BY <1>3, <1>4

\* Where transactions have their orders to themselves, every step keeps the
\* accounting.
LEMMA SerialStep ==
  ASSUME MaxLinks = 1, IInv, SerialInv, OneAtATime, Next
  PROVE  SerialInv'
<1>1. FirstLinkUsed' /\ Advances
  BY FirstLinkStays, CoreNext, IInvParts DEF SerialInv
<1>2. \A h \in Handlers, l \in Links : ~RetryBegin(h, l)
  BY OnlyLink DEF RetryBegin, SerialInv, FirstLinkUsed
<1>3. \/ Gateway
      \/ \E o \in Orders : HoldExpires(o)
      \/ \E k \in EventKinds, l \in Links : EventUnknown(k, l)
      \/ \E h \in Handlers : Commits(h) \/ RowsAlone(h)
  <2>1. CASE Events
    BY <2>1 DEF Events, Commits, RowsAlone
  <2>2. CASE Requests
    BY <1>2, <2>2 DEF Requests, Commits, RowsAlone
  <2>3. CASE Sweeps
    BY <2>3 DEF Sweeps, Commits, RowsAlone
  <2>4. CASE \E h \in Handlers : Abort(h)
    BY <2>4 DEF RowsAlone
  <2> QED
    BY <2>1, <2>2, <2>3, <2>4 DEF Next
<1>4. ReadingsExact' /\ PaymentsPlaced'
  BY <1>1, <1>3, SerialElsewhere, SerialCommit, SerialRead
<1> QED
  BY <1>1, <1>4 DEF SerialInv

\* Before any transaction every payment is where it belongs: there is none.
LEMMA InitSerial == Init => SerialInv /\ OneAtATime
BY MaxLinksAssumption DEF Init, SerialInv, OneAtATime, ReadingsExact, Busy,
   PaymentsPlaced, PaymentPlaced, PaidFor, FirstLinkUsed, Links

\* Nobody loses money: on an order with one link whose transactions do not
\* overlap, a payment the gateway has reported is kept while the order goes on
\* and on its way back or returned when it does not (apply_webhook, _cancel,
\* _maybe_refund, the sweeps).
THEOREM MoneyFollows ==
  ASSUME MaxLinks = 1
  PROVE  SerialSpec => []MoneyFollowsOrder
<1>1. Init => IInv /\ SerialInv /\ OneAtATime
  BY InitIInv, InitSerial
<1>2. IInv /\ SerialInv /\ OneAtATime /\ [Next /\ OneAtATime']_vars
        => IInv' /\ SerialInv' /\ OneAtATime'
  <2>1. ASSUME IInv, SerialInv, OneAtATime, Next, OneAtATime'
        PROVE  IInv' /\ SerialInv' /\ OneAtATime'
    BY <2>1, NextStep, SerialStep
  <2>2. ASSUME IInv, SerialInv, OneAtATime, UNCHANGED vars
        PROVE  IInv' /\ SerialInv' /\ OneAtATime'
    <3>1. IInv'
      BY <2>2, StutterStep
    <3>2. UNCHANGED <<status, pay, payId, seen, link, txn>>
      BY <2>2 DEF vars, dbVars, orderVars, paymentVars, gatewayVars
    <3>3. SerialInv' /\ OneAtATime'
      BY <2>2, <3>2 DEF SerialInv, OneAtATime, ReadingsExact, ReadingExact, Busy,
         PaymentsPlaced, PaymentPlaced, PaidFor, FirstLinkUsed, Accounted,
         FailureReported
    <3> QED
      BY <3>1, <3>3
  <2> QED
    BY <2>1, <2>2
<1>3. SerialInv => MoneyFollowsOrder
  BY DEF SerialInv, PaymentsPlaced, PaymentPlaced, MoneyFollowsOrder
<1> QED
  BY <1>1, <1>2, <1>3, PTL DEF SerialSpec

-----------------------------------------------------------------------------
(* The rows implement the abstract lifecycle.                               *)

\* Both modules have the same graph.
LEMMA SameGraph ==
  /\ Lifecycle!Statuses = Statuses
  /\ Lifecycle!CancelOrRefund = CancelOrRefund
  /\ Lifecycle!Allowed = Allowed
  /\ Lifecycle!NotYetDispatched = NotYetDispatched
<1> USE DEF Lifecycle!Pending, Lifecycle!Confirmed, Lifecycle!Packed,
            Lifecycle!OutForDelivery, Lifecycle!Delivered, Lifecycle!Cancelled,
            Lifecycle!Refunded
<1>1. Lifecycle!Statuses = Statuses
  BY DEF Lifecycle!Statuses, Statuses
<1>2. Lifecycle!CancelOrRefund = CancelOrRefund
  BY DEF Lifecycle!CancelOrRefund, CancelOrRefund
<1>3. Lifecycle!Allowed = Allowed
  BY DEF Lifecycle!Allowed, Allowed
<1>4. Lifecycle!NotYetDispatched = NotYetDispatched
  BY DEF Lifecycle!NotYetDispatched, NotYetDispatched
<1> QED
  BY <1>1, <1>2, <1>3, <1>4

\* Every step is a step of the abstract lifecycle or leaves its state alone.
LEMMA LifecycleStep ==
  ASSUME RowsOK, Advances
  PROVE  [Lifecycle!LifecycleNext]_(Lifecycle!LifecycleVars)
<1>1. CASE UNCHANGED <<status, released, credits>>
  BY <1>1 DEF Lifecycle!LifecycleVars, GoodsOf
<1>2. ASSUME NEW o \in Orders, NEW s \in Statuses, CanTransition(status[o], s),
             status' = [status EXCEPT ![o] = s],
             IF s \in CancelOrRefund THEN SettleStock(o, status[o], s)
                                    ELSE UNCHANGED <<released, credits>>
      PROVE  Lifecycle!Move(o, s)
  <2>1. GoodsOf'[o] = Lifecycle!GoodsAfter(GoodsOf[o], status[o], s)
    <3>1. CASE s \in CancelOrRefund /\ ~released[o]
      <4>1. GoodsOf[o] = "reserved" /\ credits[o] = 0
        BY <3>1 DEF GoodsOf, RowsOK, StockSettled
      <4>2. released'[o] /\ credits'[o] = IF ReleasesStock(status[o], s) THEN 1 ELSE 0
        BY <1>2, <3>1, <4>1 DEF SettleStock, RowsOK
      <4> QED
        BY <3>1, <4>1, <4>2, SameGraph DEF GoodsOf, Lifecycle!GoodsAfter,
           ReleasesStock, Lifecycle!ReleasesStock
    <3>2. CASE s \in CancelOrRefund /\ released[o]
      BY <1>2, <3>2, SameGraph DEF GoodsOf, Lifecycle!GoodsAfter, SettleStock,
         RowsOK, StockSettled
    <3>3. CASE s \notin CancelOrRefund
      BY <1>2, <3>3, SameGraph DEF GoodsOf, Lifecycle!GoodsAfter
    <3> QED
      BY <3>1, <3>2, <3>3, <1>2 DEF RowsOK
  <2>2. \A p \in Orders : p # o => GoodsOf'[p] = GoodsOf[p]
    BY <1>2 DEF GoodsOf, SettleStock, RowsOK
  <2>3. GoodsOf' = [GoodsOf EXCEPT ![o] = Lifecycle!GoodsAfter(GoodsOf[o], status[o], s)]
    BY <2>1, <2>2 DEF GoodsOf
  <2>4. Lifecycle!CanTransition(status[o], s)
    BY <1>2, SameGraph DEF CanTransition, Lifecycle!CanTransition
  <2> QED
    BY <1>2, <2>3, <2>4 DEF Lifecycle!Move
<1> QED
  BY <1>1, <1>2, SameGraph DEF Advances, Lifecycle!LifecycleNext

\* The order and stock columns implement OrderLifecycle: legal moves only, and
\* the reserved goods settled exactly once, whatever the interleaving.
THEOREM LifecycleImplemented == Spec => ImplementsLifecycle
<1>1. Init => Lifecycle!LifecycleInit
  BY DEF Init, Lifecycle!LifecycleInit, GoodsOf, Lifecycle!Pending
<1>2. IInv /\ [Next]_vars => [Lifecycle!LifecycleNext]_(Lifecycle!LifecycleVars)
  <2>1. ASSUME IInv, Next
        PROVE  [Lifecycle!LifecycleNext]_(Lifecycle!LifecycleVars)
    BY <2>1, CoreNext, LifecycleStep, CoreParts, IInvParts
  <2>2. ASSUME UNCHANGED vars
        PROVE  UNCHANGED Lifecycle!LifecycleVars
    BY <2>2 DEF vars, dbVars, orderVars, Lifecycle!LifecycleVars, GoodsOf
  <2> QED
    BY <2>1, <2>2
<1> QED
  BY <1>1, <1>2, Invariance, PTL DEF Spec, ImplementsLifecycle, Lifecycle!LifecycleSpec
=============================================================================
