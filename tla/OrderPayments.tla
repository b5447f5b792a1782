---------------------------- MODULE OrderPayments ----------------------------
(***************************************************************************)
(* Online orders and their payments: the rows OrderService writes, the     *)
(* payment links at the gateway, the webhook deliveries in flight, and the *)
(* requests and sweeps that race on them.                                  *)
(*                                                                         *)
(* Every request is one READ COMMITTED transaction.  It reads the order    *)
(* (unlocked), may call the gateway, and writes; row locks taken by its    *)
(* writes are held to the commit.  A transaction is therefore modelled as  *)
(* a step that takes a snapshot, further steps where it reads or calls     *)
(* again, and one step that applies its writes to the rows as they are     *)
(* then and commits.  Abort is a rollback or a crash in between: nothing   *)
(* it did to the database stays, everything it did at the gateway does.    *)
(***************************************************************************)
EXTENDS OrderState, Naturals

CONSTANTS
  Orders,            \* online orders that checkout has just written
  MaxLinks,          \* payment links an order can have: checkout's + retries
  Handlers,          \* transactions that can be in flight at once
  Shortfalls,        \* links the gateway may report paid with another amount
  Crashes,           \* whether a sweep can be lost right after a refund call
  DashboardRefunds,  \* links the owner may refund from the gateway dashboard
  Declines,          \* links on which an attempt to pay may fail
  NoLink,            \* a null gateway id
  Idle               \* a handler with no transaction open

Links == Orders \X (1..MaxLinks)

PayStatuses == {"created", "captured", "failed", "refund_pending",
                "refunded", "amount_mismatch"}

\* "created": open at the gateway, its URL not handed to the customer yet.
LinkStates == {"unused", "created", "open", "paid", "short", "expired", "cancelled"}
Live       == {"created", "open"}

\* What apply_webhook distinguishes, plus the synthetic id of poll_status.
EventKinds == {"paid", "poll", "dead", "failed", "refund"}

Ops == {"event", "cancel", "retry", "staff", "sweep", "refund"}

Txn == [op   : Ops,
        o    : Orders,
        l    : Links,           \* the link the event or the call is about
        arg  : EventKinds \cup Statuses \cup {"unpaid", "none"},
        st   : Statuses,        \* snapshot of orders.status
        pm   : PayStatuses,     \* snapshot of payments.status
        pid  : Links \cup {NoLink},   \* and of provider_payment_id
        ph   : {"begun", "reread", "polled", "called"}]

ASSUME MaxLinksAssumption   == MaxLinks \in Nat \ {0}
ASSUME SwitchAssumption     == Crashes \in BOOLEAN
ASSUME ShortfallsAssumption == Shortfalls \cup Declines \cup DashboardRefunds \subseteq Links
ASSUME NoLinkAssumption     == NoLink \notin Links
ASSUME IdleAssumption       == Idle \notin Txn

VARIABLES
  status,    \* orders.status
  hold,      \* orders.hold_expires_at: "none", "running" or "expired"
  released,  \* orders.stock_released
  credits,   \* how many times release_stock ran for the order
  pay,       \* payments.status
  payLink,   \* payments.provider_order_id
  payId,     \* payments.provider_payment_id; a link is paid once at most, so
             \* the link stands for its payment
  ticket,    \* an automated support ticket was opened for the order
  link,      \* gateway: state of each payment link
  returned,  \* gateway: links whose payment was refunded
  sent,      \* gateway: webhook deliveries, repeated until one is accepted
  seen,      \* webhook_events: event ids already recorded
  txn        \* the transaction each handler has open

orderVars   == <<status, hold, released, credits>>
paymentVars == <<pay, payLink, payId>>
dbVars      == <<orderVars, paymentVars, ticket, seen>>
gatewayVars == <<link, returned, sent>>
vars        == <<dbVars, gatewayVars, txn>>

TypeOK ==
  /\ status   \in [Orders -> Statuses]
  /\ hold     \in [Orders -> {"none", "running", "expired"}]
  /\ released \in [Orders -> BOOLEAN]
  /\ credits  \in [Orders -> Nat]
  /\ pay      \in [Orders -> PayStatuses]
  /\ payLink  \in [Orders -> Links]
  /\ payId    \in [Orders -> Links \cup {NoLink}]
  /\ ticket   \in [Orders -> BOOLEAN]
  /\ link     \in [Links -> LinkStates]
  /\ returned \subseteq Links
  /\ sent     \subseteq EventKinds \X Links
  /\ seen     \subseteq EventKinds \X Links
  /\ txn      \in [Handlers -> Txn \cup {Idle}]

\* The rows _create_order_inner has just committed for an online cart, with
\* the link whose reference_id is the order's own id.
Init ==
  /\ status   = [o \in Orders |-> Pending]
  /\ hold     = [o \in Orders |-> "running"]
  /\ released = [o \in Orders |-> FALSE]
  /\ credits  = [o \in Orders |-> 0]
  /\ pay      = [o \in Orders |-> "created"]
  /\ payLink  = [o \in Orders |-> <<o, 1>>]
  /\ payId    = [o \in Orders |-> NoLink]
  /\ ticket   = [o \in Orders |-> FALSE]
  /\ link     = [l \in Links |-> IF l[2] = 1 THEN "open" ELSE "unused"]
  /\ returned = {}
  /\ sent     = {}
  /\ seen     = {}
  /\ txn      = [h \in Handlers |-> Idle]

-----------------------------------------------------------------------------
(* The payment gateway and the clock.                                       *)

\* The customer pays an open link, once: accept_partial is off.
Pay(l) ==
  /\ link[l] = "open"
  /\ \E s \in {"paid"} \cup (IF l \in Shortfalls THEN {"short"} ELSE {}) :
       link' = [link EXCEPT ![l] = s]
  /\ sent' = sent \cup {<<"paid", l>>}
  /\ UNCHANGED <<dbVars, returned, txn>>

\* A link reaches its expire_by unpaid.
ExpireLink(l) ==
  /\ link[l] \in Live
  /\ link' = [link EXCEPT ![l] = "expired"]
  /\ sent' = sent \cup {<<"dead", l>>}
  /\ UNCHANGED <<dbVars, returned, txn>>

\* An attempt to pay an open link fails (payment.failed).  The link stays open:
\* the report may come before or after it is paid or expires.
DeclinePayment(l) ==
  /\ l \in Declines /\ link[l] = "open"
  /\ sent' = sent \cup {<<"failed", l>>}
  /\ UNCHANGED <<dbVars, link, returned, txn>>

\* The owner refunds a payment in full from the gateway's dashboard.
DashboardRefund(l) ==
  /\ l \in DashboardRefunds
  /\ link[l] \in {"paid", "short"} /\ l \notin returned
  /\ returned' = returned \cup {l}
  /\ sent' = sent \cup {<<"refund", l>>}
  /\ UNCHANGED <<dbVars, link, txn>>

\* hold_expires_at passes.
HoldExpires(o) ==
  /\ hold[o] = "running"
  /\ hold' = [hold EXCEPT ![o] = "expired"]
  /\ UNCHANGED <<status, released, credits, paymentVars, ticket, seen,
                 gatewayVars, txn>>

-----------------------------------------------------------------------------
(* Transactions, snapshots and row locks.                                   *)

Busy(h) == txn[h] # Idle

\* Another transaction has written the payments row of o and not committed.
PaymentLocked(o, h) ==
  \E g \in Handlers \ {h} : Busy(g) /\ txn[g].o = o /\ txn[g].ph = "reread"

\* A hold sweep has claimed the orders row of o with FOR UPDATE.
OrderLocked(o, h) ==
  \E g \in Handlers \ {h} : Busy(g) /\ txn[g].o = o /\ txn[g].op = "sweep"

\* OrderRepository.get / get_for_user: the row as this transaction finds it.
Snapshot(op, o, l, arg) ==
  [op |-> op, o |-> o, l |-> l, arg |-> arg, ph |-> "begun",
   st |-> status[o], pm |-> pay[o], pid |-> payId[o]]

Begin(h, op, o, l, arg) ==
  /\ ~Busy(h)
  /\ txn' = [txn EXCEPT ![h] = Snapshot(op, o, l, arg)]

Close(h) == txn' = [txn EXCEPT ![h] = Idle]

\* The rows a commit may leave as they are.
NoOrderWrite   == UNCHANGED orderVars
NoPaymentWrite == UNCHANGED paymentVars

\* set_payment_status: unconditional, waits only for the row lock.
SetPayment(h, o, s, pid) ==
  /\ ~PaymentLocked(o, h)
  /\ pay'   = [pay EXCEPT ![o] = s]
  /\ payId' = [payId EXCEPT ![o] = pid]
  /\ UNCHANGED payLink

\* OrderRepository.transition that wins: the row still has the status read.
Transition(o, to, newHold) ==
  /\ status' = [status EXCEPT ![o] = to]
  /\ hold'   = [hold EXCEPT ![o] = newHold]

\* mark_stock_released, then release_stock or the write-off entry.
SettleStock(o, from, to) ==
  /\ released' = [released EXCEPT ![o] = TRUE]
  /\ credits'  = [credits EXCEPT ![o] =
                    IF ~released[o] /\ ReleasesStock(from, to) THEN @ + 1 ELSE @]

\* Mutant: the null check of the payment id, inverted.
OwesRefundInverted(pm, pid) == pm = "captured" /\ pid = NoLink

\* _maybe_refund, on the order as _cancel was given it.
OwesRefund(pm, pid) == pm = "captured" /\ pid # NoLink

\* Mutant: no compare-and-swap, the row is overwritten whatever it became.
CancelBlind(h, o, from, pm, pid, to, newPid, wrote) ==
  /\ ~OrderLocked(o, h)
  /\ Transition(o, to, "none")
  /\ SettleStock(o, from, to)
  /\ IF OwesRefund(pm, pid) THEN SetPayment(h, o, "refund_pending", newPid)
                            ELSE wrote

\* Mutant: the refund is queued before the compare-and-swap is looked at.
CancelRefundsAnyway(h, o, from, pm, pid, to, newPid, wrote) ==
  /\ ~OrderLocked(o, h)
  /\ IF status[o] = from THEN Transition(o, to, "none") /\ SettleStock(o, from, to)
                         ELSE NoOrderWrite
  /\ IF OwesRefund(pm, pid) THEN SetPayment(h, o, "refund_pending", newPid)
                            ELSE wrote

\* OrderService._cancel, given the order as read (status from, payment pm and
\* pid).  wrote is what the transaction does to the payments row anyway, and
\* newPid the payment id it leaves there.
Cancel(h, o, from, pm, pid, to, newPid, wrote) ==
  /\ ~OrderLocked(o, h)
  /\ \/ /\ status[o] = from
        /\ Transition(o, to, "none")
        /\ SettleStock(o, from, to)
        /\ IF OwesRefund(pm, pid) THEN SetPayment(h, o, "refund_pending", newPid)
                                  ELSE wrote
     \/ /\ status[o] # from
        /\ NoOrderWrite
        /\ wrote

\* A request that raises, loses its connection or fails to commit, and a
\* process that dies.  Once a refund call was made only the latter remain.
Abort(h) ==
  /\ Busy(h)
  /\ txn[h].ph = "called" => Crashes
  /\ Close(h)
  /\ UNCHANGED <<dbVars, gatewayVars>>

-----------------------------------------------------------------------------
(* Payment events: the webhook route, the link callback and apply_webhook.  *)

\* apply_webhook finds the order by the link's reference_id, which is the
\* order id on checkout's link only, and else by provider_order_id.  Reports
\* about a payment (payment.failed, refund.*) carry no reference_id.
Finds(k, l) == (k \notin {"failed", "refund"} /\ l[2] = 1) \/ payLink[l[1]] = l

\* A delivery the gateway made, or the link callback polling a paid link.
Deliverable(k, l) ==
  \/ <<k, l>> \in sent
  \/ k = "poll" /\ link[l] \in {"paid", "short"}

\* record_webhook_once: a recorded id is ignored, and the unique index makes
\* a second delivery wait while the first is still uncommitted.
FirstTime(k, l) ==
  /\ <<k, l>> \notin seen
  /\ \A g \in Handlers :
       ~(Busy(g) /\ txn[g].op = "event" /\ txn[g].arg = k /\ txn[g].l = l)

EventBegin(h, k, l) ==
  /\ Deliverable(k, l) /\ FirstTime(k, l) /\ Finds(k, l)
  /\ Begin(h, "event", l[1], l, k)
  /\ UNCHANGED <<dbVars, gatewayVars>>

\* An event for no order of ours is recorded and answered 204.
EventUnknown(k, l) ==
  /\ Deliverable(k, l) /\ FirstTime(k, l) /\ ~Finds(k, l)
  /\ seen' = seen \cup {<<k, l>>}
  /\ UNCHANGED <<orderVars, paymentVars, ticket, gatewayVars, txn>>

\* Mutant: the hold is left running out.
CaptureMismatchKeepsHold(h, o, l, pm) ==
  /\ link[l] = "short"
  /\ SetPayment(h, o, "amount_mismatch", l)
  /\ ticket' = [ticket EXCEPT ![o] = TRUE]
  /\ NoOrderWrite

\* Mutant: no ticket.
CaptureMismatchSilent(h, o, l, pm) ==
  /\ link[l] = "short"
  /\ SetPayment(h, o, "amount_mismatch", l)
  /\ hold' = [hold EXCEPT ![o] = "none"]
  /\ UNCHANGED <<status, released, credits, ticket>>

\* A capture whose amount is not the order total: flag_amount_mismatch and a
\* ticket, unless the snapshot shows it was flagged or refunded already.
CaptureMismatch(h, o, l, pm) ==
  /\ link[l] = "short"
  /\ \/ /\ pm \in {"amount_mismatch", "refunded"}
        /\ UNCHANGED <<orderVars, paymentVars, ticket>>
     \/ /\ pm \notin {"amount_mismatch", "refunded"}
        /\ ~OrderLocked(o, h)
        /\ SetPayment(h, o, "amount_mismatch", l)
        /\ hold'   = [hold EXCEPT ![o] = "none"]
        /\ ticket' = [ticket EXCEPT ![o] = TRUE]
        /\ UNCHANGED <<status, released, credits>>

\* A capture of the right amount, when no second read is needed.
CaptureExact(h, o, l, st) ==
  /\ link[l] = "paid"
  /\ UNCHANGED ticket
  /\ \/ /\ st = Refunded
        /\ UNCHANGED <<orderVars, paymentVars>>
     \/ /\ st = Pending
        /\ ~OrderLocked(o, h)
        /\ SetPayment(h, o, "captured", l)
        /\ IF status[o] = Pending
             THEN Transition(o, Confirmed, "none") /\ UNCHANGED <<released, credits>>
             ELSE NoOrderWrite
     \/ /\ st \notin {Pending, Cancelled, Refunded}
        /\ SetPayment(h, o, "captured", l)
        /\ NoOrderWrite

ApplyCapture(h, o, l, st, pm) ==
  CaptureMismatch(h, o, l, pm) \/ CaptureExact(h, o, l, st)

\* Mutant: the payment fails, the order goes on waiting for it.
ApplyFailureKeepsOrder(h, o, st, pm, pid) ==
  SetPayment(h, o, "failed", payId[o]) /\ NoOrderWrite /\ UNCHANGED ticket

\* payment.failed, payment_link.expired or .cancelled: the payment is marked
\* failed whatever it was, captured ones too, and an order read as pending is
\* cancelled.
ApplyFailure(h, o, st, pm, pid) ==
  /\ UNCHANGED ticket
  /\ \/ st = Pending  /\ Cancel(h, o, st, pm, pid, Cancelled, payId[o],
                               SetPayment(h, o, "failed", payId[o]))
     \/ st # Pending  /\ SetPayment(h, o, "failed", payId[o]) /\ NoOrderWrite

\* A refund reported by the gateway that changes nothing here.
IgnoresRefund(l, st, pm) ==
  st \in CancelOrRefund \/ pm # "captured" \/ link[l] # "paid"

\* Events that write the payment and then read the order again before they
\* cancel it: a capture on a cancelled order, a full refund on a paid one.
NeedsReread(t) ==
  \/ t.arg \in {"paid", "poll"} /\ link[t.l] = "paid" /\ t.st = Cancelled
  \/ t.arg = "refund" /\ ~IgnoresRefund(t.l, t.st, t.pm)

EventReread(h) ==
  /\ Busy(h) /\ txn[h].op = "event" /\ txn[h].ph = "begun"
  /\ NeedsReread(txn[h])
  /\ ~PaymentLocked(txn[h].o, h)
  /\ LET t == txn[h] IN
       txn' = [txn EXCEPT ![h] =
                 [t EXCEPT !.ph = "reread", !.st = status[t.o],
                    !.pm  = IF t.arg = "refund" THEN "refunded" ELSE "captured",
                    !.pid = IF t.arg = "refund" THEN payId[t.o] ELSE t.l]]
  /\ UNCHANGED <<dbVars, gatewayVars>>

EventEffect(h, t) ==
  \/ /\ t.ph = "begun" /\ ~NeedsReread(t)
     /\ \/ t.arg \in {"paid", "poll"} /\ ApplyCapture(h, t.o, t.l, t.st, t.pm)
        \/ t.arg \in {"dead", "failed"} /\ ApplyFailure(h, t.o, t.st, t.pm, t.pid)
        \/ t.arg = "refund" /\ UNCHANGED <<orderVars, paymentVars, ticket>>
  \/ /\ t.ph = "reread"
     /\ Cancel(h, t.o, t.st, t.pm, t.pid, Refunded, t.pid,
               SetPayment(h, t.o, t.pm, t.pid))
     /\ UNCHANGED ticket

EventCommit(h) ==
  /\ Busy(h) /\ txn[h].op = "event"
  /\ EventEffect(h, txn[h])
  /\ seen' = seen \cup {<<txn[h].arg, txn[h].l>>}
  /\ Close(h)
  /\ UNCHANGED gatewayVars

-----------------------------------------------------------------------------
(* Requests: customer cancel, payment retry, status changes by the owner    *)
(* and by delivery agents.                                                  *)

CancelBegin(h, o) ==
  /\ status[o] \in CustomerCancellable
  /\ Begin(h, "cancel", o, payLink[o], "none")
  /\ UNCHANGED <<dbVars, gatewayVars>>

CancelCommit(h) ==
  /\ Busy(h) /\ txn[h].op = "cancel"
  /\ LET t == txn[h]
     IN  Cancel(h, t.o, t.st, t.pm, t.pid, Cancelled, payId[t.o], NoPaymentWrite)
  /\ Close(h)
  /\ UNCHANGED <<ticket, seen, gatewayVars>>

\* retry_payment reads the order and has the gateway open a fresh link.
RetryBegin(h, l) ==
  LET o == l[1] IN
  /\ status[o] = Pending
  /\ pay[o] \in {"created", "failed"}
  /\ link[l] = "unused"
  /\ Begin(h, "retry", o, l, "none")
  /\ link' = [link EXCEPT ![l] = "created"]
  /\ UNCHANGED <<dbVars, returned, sent>>

\* The repository's two guarded updates: the hold is renewed if the order is
\* still pending, the payment row taken over if it is still retryable.
RetryCommit(h) ==
  /\ Busy(h) /\ txn[h].op = "retry"
  /\ LET o == txn[h].o
         l == txn[h].l IN
     /\ status[o] = Pending
     /\ ~OrderLocked(o, h) /\ ~PaymentLocked(o, h)
     /\ hold' = [hold EXCEPT ![o] = "running"]
     /\ \/ /\ pay[o] \in {"created", "failed"}
           /\ pay'     = [pay EXCEPT ![o] = "created"]
           /\ payLink' = [payLink EXCEPT ![o] = l]
           /\ payId'   = [payId EXCEPT ![o] = NoLink]
        \/ /\ pay[o] \notin {"created", "failed"}
           /\ NoPaymentWrite
     /\ link' = [link EXCEPT ![l] = IF @ = "created" THEN "open" ELSE @]
  /\ Close(h)
  /\ UNCHANGED <<status, released, credits, ticket, seen, returned, sent>>

\* The order is no longer pending: Conflict, and a best-effort cancel_order
\* on the new link, which a dead link or an unreachable gateway refuses.
RetryConflict(h) ==
  /\ Busy(h) /\ txn[h].op = "retry"
  /\ status[txn[h].o] # Pending
  /\ LET l == txn[h].l IN
     \/ /\ link[l] = "created"
        /\ link' = [link EXCEPT ![l] = "cancelled"]
        /\ sent' = sent \cup {<<"dead", l>>}
     \/ UNCHANGED <<link, sent>>
  /\ Close(h)
  /\ UNCHANGED <<dbVars, returned>>

\* Mutant: update_status without assert_transition.
StaffBeginUnchecked(h, o, s) ==
  /\ Begin(h, "staff", o, payLink[o], s)
  /\ UNCHANGED <<dbVars, gatewayVars>>

\* update_status: assert_transition on the order as read.
StaffBegin(h, o, s) ==
  /\ CanTransition(status[o], s)
  /\ Begin(h, "staff", o, payLink[o], s)
  /\ UNCHANGED <<dbVars, gatewayVars>>

\* A lost compare-and-swap is a Conflict, which is Abort.
StaffCommit(h) ==
  /\ Busy(h) /\ txn[h].op = "staff"
  /\ LET t == txn[h] IN
     \/ /\ t.arg \in CancelOrRefund
        /\ Cancel(h, t.o, t.st, t.pm, t.pid, t.arg, payId[t.o], NoPaymentWrite)
     \/ /\ t.arg \notin CancelOrRefund
        /\ ~OrderLocked(t.o, h)
        /\ status[t.o] = t.st
        /\ Transition(t.o, t.arg, hold[t.o])
        /\ UNCHANGED <<released, credits, paymentVars>>
  /\ Close(h)
  /\ UNCHANGED <<ticket, seen, gatewayVars>>

-----------------------------------------------------------------------------
(* Sweeps: release_expired_holds, process_pending_refunds and               *)
(* process_amount_mismatches.                                               *)

\* claim_expired_hold: FOR UPDATE SKIP LOCKED, eligibility checked again.
SweepClaim(h, o) ==
  /\ status[o] = Pending /\ hold[o] = "expired"
  /\ ~OrderLocked(o, h)
  /\ Begin(h, "sweep", o, payLink[o], "none")
  /\ UNCHANGED <<dbVars, gatewayVars>>

\* poll_status on the link the claimed row names.  An unreachable gateway
\* leaves the hold for the next sweep, which is Abort.
SweepPoll(h) ==
  /\ Busy(h) /\ txn[h].op = "sweep" /\ txn[h].ph = "begun"
  /\ txn' = [txn EXCEPT ![h].ph = "polled",
        ![h].arg = IF link[txn[h].l] \in {"paid", "short"} THEN "paid" ELSE "unpaid"]
  /\ UNCHANGED <<dbVars, gatewayVars>>

SweepCommit(h) ==
  /\ Busy(h) /\ txn[h].op = "sweep" /\ txn[h].ph = "polled"
  /\ LET t == txn[h] IN
     \/ /\ t.arg = "paid"
        /\ ApplyCapture(h, t.o, t.l, status[t.o], pay[t.o])
     \/ /\ t.arg = "unpaid"
        /\ Cancel(h, t.o, t.st, t.pm, t.pid, Cancelled, payId[t.o], NoPaymentWrite)
        /\ UNCHANGED ticket
  /\ Close(h)
  /\ UNCHANGED <<seen, gatewayVars>>

\* Mutant: mismatched captures are never swept.
RefundBeginPendingOnly(h, o) ==
  /\ pay[o] = "refund_pending" /\ payId[o] # NoLink
  /\ \A g \in Handlers : ~(Busy(g) /\ txn[g].op = "refund")
  /\ Begin(h, "refund", o, payId[o], "none")
  /\ UNCHANGED <<dbVars, gatewayVars>>

\* find_pending_refunds / find_amount_mismatches, under the advisory lock.
RefundBegin(h, o) ==
  /\ pay[o] \in {"refund_pending", "amount_mismatch"}
  /\ payId[o] # NoLink
  /\ \A g \in Handlers : ~(Busy(g) /\ txn[g].op = "refund")
  /\ Begin(h, "refund", o, payId[o], "none")
  /\ UNCHANGED <<dbVars, gatewayVars>>

\* PaymentProvider.refund.  The gateway refuses a payment it has returned
\* already; that, like any failure of the call, is Abort.
RefundCall(h) ==
  /\ Busy(h) /\ txn[h].op = "refund" /\ txn[h].ph = "begun"
  /\ txn[h].l \notin returned
  /\ returned' = returned \cup {txn[h].l}
  /\ sent' = sent \cup {<<"refund", txn[h].l>>}
  /\ txn' = [txn EXCEPT ![h].ph = "called"]
  /\ UNCHANGED <<dbVars, link>>

\* Mutant: the row is marked although the call was not made.
RefundCommitUnchecked(h) ==
  /\ Busy(h) /\ txn[h].op = "refund"
  /\ SetPayment(h, txn[h].o, "refunded", payId[txn[h].o])
  /\ NoOrderWrite
  /\ Close(h)
  /\ UNCHANGED <<ticket, seen, gatewayVars>>

RefundCommit(h) ==
  /\ Busy(h) /\ txn[h].op = "refund" /\ txn[h].ph = "called"
  /\ SetPayment(h, txn[h].o, "refunded", payId[txn[h].o])
  /\ NoOrderWrite
  /\ Close(h)
  /\ UNCHANGED <<ticket, seen, gatewayVars>>
-----------------------------------------------------------------------------

Gateway ==
  \E l \in Links : Pay(l) \/ ExpireLink(l) \/ DeclinePayment(l) \/ DashboardRefund(l)

Events ==
  \/ \E k \in EventKinds, l \in Links : EventUnknown(k, l)
  \/ \E h \in Handlers :
       \/ \E k \in EventKinds, l \in Links : EventBegin(h, k, l)
       \/ EventReread(h)
       \/ EventCommit(h)

Requests ==
  \E h \in Handlers :
    \/ \E o \in Orders : CancelBegin(h, o)
    \/ CancelCommit(h)
    \/ \E l \in Links : RetryBegin(h, l)
    \/ RetryCommit(h)
    \/ RetryConflict(h)
    \/ \E o \in Orders, s \in Statuses : StaffBegin(h, o, s)
    \/ StaffCommit(h)

Sweeps ==
  \E h \in Handlers :
    \/ \E o \in Orders : SweepClaim(h, o)
    \/ SweepPoll(h)
    \/ SweepCommit(h)
    \/ \E o \in Orders : RefundBegin(h, o)
    \/ RefundCall(h)
    \/ RefundCommit(h)

Next ==
  \/ Gateway
  \/ \E o \in Orders : HoldExpires(o)
  \/ Events
  \/ Requests
  \/ Sweeps
  \/ \E h \in Handlers : Abort(h)

Spec == Init /\ [][Next]_vars

\* The housekeeping loop runs for the life of the process (main.py), so an
\* order that stays or keeps coming back on its work list is processed in the
\* end, provided a gateway call and a commit succeed now and then; and no
\* transaction stays open forever (statement and request timeouts).
Ends(h) == \/ Abort(h) \/ EventCommit(h) \/ CancelCommit(h)
           \/ RetryCommit(h) \/ RetryConflict(h) \/ StaffCommit(h)

On(h, o) == Busy(h) /\ txn[h].o = o

SweepFairness ==
  /\ \A o \in Orders :
       /\ SF_vars(\E h \in Handlers : SweepClaim(h, o))
       /\ SF_vars(\E h \in Handlers : On(h, o) /\ SweepPoll(h))
       /\ SF_vars(\E h \in Handlers : On(h, o) /\ SweepCommit(h))
       /\ SF_vars(\E h \in Handlers : RefundBegin(h, o))
       /\ SF_vars(\E h \in Handlers : On(h, o) /\ RefundCall(h))
       /\ SF_vars(\E h \in Handlers : On(h, o) /\ RefundCommit(h))
  /\ \A h \in Handlers : WF_vars(Ends(h))

FairSpec == Spec /\ SweepFairness

\* The system if a transaction kept the order to itself from its first read on.
OneAtATime ==
  \A g, h \in Handlers : g # h /\ Busy(g) /\ Busy(h) => txn[g].o # txn[h].o

SerialSpec == Init /\ [][Next /\ OneAtATime']_vars
-----------------------------------------------------------------------------
(* What the order and payment rows, the gateway and the transactions keep   *)
(* between them.                                                            *)

\* Nobody is charged, refunded or marked failed on an order that still waits
\* for payment: the payment row of a pending order is fresh, or a mismatch on
\* its way back.  tests/test_payment_retry.py relies on it ("no reachable path
\* that leaves an order PENDING_PAYMENT with a FAILED payment"), and so does
\* the lifecycle graph, which has no edge from pending to refunded.
PendingMeansUnpaid ==
  \A o \in Orders :
    status[o] = Pending => pay[o] \in {"created", "amount_mismatch", "refunded"}

\* Money is queued to go back only for an order that will not be fulfilled,
\* whichever handler queued it and whatever it had read (_maybe_refund).
RefundOnlyWhenOver ==
  \A o \in Orders : pay[o] = "refund_pending" => status[o] \in CancelOrRefund

\* An order that no sweep will ever release, because flag_amount_mismatch took
\* its hold away, is never left without a ticket asking a human to decide.
StrandedOrderHasTicket ==
  \A o \in Orders : status[o] = Pending /\ hold[o] = "none" => ticket[o]

\* Stock is handed back at most once, exactly for the orders that ended before
\* they left the shop, although every handler decides on a stale read
\* (mark_stock_released and releases_stock in _cancel): what the rows say is
\* one of the histories OrderLifecycle allows.
GoodsOf ==
  [ o \in Orders |-> IF ~released[o] THEN "reserved"
                     ELSE IF credits[o] = 0 THEN "written_off"
                     ELSE IF credits[o] = 1 THEN "restocked" ELSE "restocked_twice" ]

Lifecycle == INSTANCE OrderLifecycle WITH goods <- GoodsOf

\* The order and stock columns implement the abstract lifecycle: no handler
\* moves an order along an edge the graph does not have.
ImplementsLifecycle == Lifecycle!LifecycleSpec

\* The money of an order with one link, once the gateway's report of it has
\* been processed: kept while the order goes on, on its way back or returned
\* when it does not (apply_webhook, _cancel, _maybe_refund).  Two cases are
\* left out: a payment reported after staff moved an unpaid order from
\* cancelled to refunded, which apply_webhook ignores, and one whose row a
\* report of an earlier failed attempt has overwritten since.
PaidFor(o) == \E k \in {"paid", "poll"} : <<k, <<o, 1>>>> \in seen

\* What payments.status may say of money that was received: that it is where it
\* belongs, or failed if a failed attempt was reported.
FailureReported(o) == <<"failed", <<o, 1>>>> \in seen

Accounted(o) ==
  {"amount_mismatch", "refunded"}
    \cup (IF status[o] \in CancelOrRefund THEN {"refund_pending"} ELSE {"captured"})
    \cup (IF FailureReported(o) THEN {"failed"} ELSE {})

MoneyFollowsOrder ==
  \A o \in Orders :
    (PaidFor(o) /\ ~(status[o] = Refunded /\ payId[o] = NoLink)) =>
      pay[o] \in Accounted(o)

\* A customer is told "refunded" only for a payment the gateway has returned
\* (the sweeps mark it after the call, apply_webhook after the gateway's word).
RefundedMeansReturned ==
  \A o \in Orders : pay[o] = "refunded" => payId[o] \in returned

\* An expired hold is resolved: paid for, released, renewed, or handed to a
\* human, if the gateway answers now and then (release_expired_holds).
HoldsGetResolved ==
  \A o \in Orders :
    (status[o] = Pending /\ hold[o] = "expired")
      ~> ~(status[o] = Pending /\ hold[o] = "expired")

\* A refund this application queued reaches the gateway, however often the
\* call or the commit after it fails, unless another handler overwrites the
\* queue entry (process_pending_refunds, process_amount_mismatches).
Queued(o) == pay[o] \in {"refund_pending", "amount_mismatch"}

RefundsGetMade ==
  \A o \in Orders :
    (Queued(o) /\ payId[o] \notin returned)
      ~> (payId[o] \in returned \/ ~Queued(o))

-----------------------------------------------------------------------------
(* The inductive invariant behind the safety theorems of                    *)
(* OrderPaymentsProofs.                                                     *)

\* The stock columns move with the status: settled when, and only when, the
\* order is over, and handed back at most once (SettleStock).
StockSettled ==
  \A o \in Orders :
    /\ released[o] <=> status[o] \in CancelOrRefund
    /\ credits[o] \in {0, 1}
    /\ credits[o] = 1 => released[o]

\* What a transaction may conclude from what it read: its snapshot is no later
\* than the row, was legal when it was taken, and still supports the write its
\* handler was opened for.
SnapshotSound(t) ==
  /\ t.st # Pending => status[t.o] # Pending
  /\ t.st \in CancelOrRefund => status[t.o] \in CancelOrRefund
  /\ t.st = Refunded => status[t.o] = Refunded
  /\ t.st = Pending => t.pm \in {"created", "amount_mismatch", "refunded"}
  /\ t.op = "event" => t.arg \in EventKinds
  /\ t.op = "staff" => CanTransition(t.st, t.arg)
  /\ t.op \in {"cancel", "sweep"} => t.st = Pending
  /\ t.ph = "reread" => /\ t.st # Pending
                        /\ t.pm \in {"captured", "refunded"}

SnapshotsSound == \A h \in Handlers : Busy(h) => SnapshotSound(txn[h])

\* A report of kind k about link l is true at the gateway, and stays true.
IsTrue(k, l) ==
  /\ k \in {"paid", "poll"} => link[l] \in {"paid", "short"}
  /\ k = "dead"             => link[l] \in {"expired", "cancelled"}
  /\ k = "failed"           => l \in Declines
  /\ k = "refund"           => l \in returned

\* Link l carries a payment for order o.
PaymentOf(l, o) == l[1] = o /\ link[l] \in {"paid", "short"}

\* The payment statuses that say money was received.
Received == {"captured", "refund_pending", "refunded", "amount_mismatch"}

\* The payments row names a payment of its own order that was made, has one
\* from the first capture on, and says refunded only when some payment of the
\* order was returned.  A retry finds no payment id to forget.
PaymentsNamed ==
  \A o \in Orders :
    /\ payLink[o][1] = o
    /\ payId[o] # NoLink => PaymentOf(payId[o], o)
    /\ pay[o] \in Received => payId[o] # NoLink
    /\ status[o] = Pending /\ pay[o] = "created" => payId[o] = NoLink
    /\ pay[o] = "refunded" => \E l \in returned : l[1] = o

ReportsTrue == \A r \in sent \cup seen : IsTrue(r[1], r[2])

\* What a transaction may conclude about the money: what it was told is true,
\* and the payment it read of is still the order's.
ReadingSound(t) ==
  /\ t.l[1] = t.o
  /\ t.pid # NoLink => PaymentOf(t.pid, t.o)
  /\ t.pid # NoLink /\ t.ph # "reread" => payId[t.o] # NoLink
  /\ t.pm \in Received => t.pid # NoLink
  /\ t.op = "event" => IsTrue(t.arg, t.l)
  /\ t.op = "refund" => payId[t.o] # NoLink
  /\ t.ph = "called" => t.l \in returned
  /\ t.ph = "reread" => t.op = "event" /\ (t.pm = "refunded" => t.l \in returned)

ReadingsSound == \A h \in Handlers : Busy(h) => ReadingSound(txn[h])

MoneyInv == PaymentsNamed /\ ReportsTrue /\ ReadingsSound

IInv ==
  /\ TypeOK
  /\ PendingMeansUnpaid
  /\ RefundOnlyWhenOver
  /\ StrandedOrderHasTicket
  /\ StockSettled
  /\ SnapshotsSound
  /\ MoneyInv

\* Where no two transactions work on one order at once, a transaction commits
\* on the rows it has read.
ReadingExact(t) ==
  /\ t.st = status[t.o]
  /\ t.ph # "reread" => t.pm = pay[t.o] /\ t.pid = payId[t.o]
  /\ t.ph = "reread" /\ t.pm = "captured" => t.st \in CancelOrRefund

ReadingsExact == \A h \in Handlers : Busy(h) => ReadingExact(txn[h])

\* A reported payment is on record, and a recorded one where it belongs.
PaymentPlaced(o) ==
  /\ PaidFor(o) => payId[o] # NoLink \/ status[o] = Refunded
  /\ payId[o] # NoLink =>
       pay[o] \in Accounted(o)

PaymentsPlaced == \A o \in Orders : PaymentPlaced(o)

\* Checkout's link was never replaced.
FirstLinkUsed == \A o \in Orders : link[<<o, 1>>] \notin {"unused", "created"}

SerialInv == ReadingsExact /\ PaymentsPlaced /\ FirstLinkUsed

-----------------------------------------------------------------------------
(* What comments, docstrings and tests of the repository say, that the code *)
(* does not keep.                                                           *)

AtRest == \A h \in Handlers : ~Busy(h)

\* order_service.py, apply_webhook: a capture on a cancelled order is refunded,
\* "not a payment silently left CAPTURED against a CANCELLED order forever".
\* Here: with every report of that payment consumed and nothing in flight.
NeverLeftCaptured ==
  \A o \in Orders :
    ~(/\ status[o] = Cancelled /\ pay[o] = "captured"
      /\ {<<"paid", payId[o]>>, <<"poll", payId[o]>>} \subseteq seen
      /\ AtRest)

\* order_service.py, retry_payment: "money already moved, so this must refuse
\* rather than risk a second charge".
NoSecondCharge ==
  \A l, m \in Links :
    (l # m /\ l[1] = m[1]) => ~(link[l] = "paid" /\ link[m] = "paid")
=============================================================================
