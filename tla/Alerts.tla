------------------------------- MODULE Alerts -------------------------------
(***************************************************************************)
(* What the shop tells its owner: the housekeeping sweep's low-stock and   *)
(* stuck-refund alerts, the push for a support ticket, and the push tokens *)
(* they are sent to.                                                       *)
(*                                                                         *)
(* A sweep is one READ COMMITTED transaction under an advisory lock, each  *)
(* statement with its own snapshot; every replica runs the loop.  Pushes   *)
(* wait in the outbox of their transaction and are sent after its commit,  *)
(* one by one, by the process that committed.                              *)
(***************************************************************************)
EXTENDS Naturals, FiniteSets

CONSTANTS
  Skus, Refunds, Tickets,
  Devices,      \* push tokens
  Users, Owners,
  Sweepers,     \* the housekeeping loops, one per replica
  Handlers,     \* requests the server can have in progress at once
  Low,          \* product_variants.low_stock_threshold
  Full,         \* bound: as much as a shelf holds
  NoUser, Idle

Procs    == Sweepers \cup Handlers
Subjects == Skus \cup Refunds \cup Tickets

\* Open transactions, and a process that sends what it has committed.
Sweep  == [op : {"sweep"}, paid : SUBSET Refunds, low : SUBSET Skus]
Submit == [op : {"submit"}, ticket : Tickets]
Send   == [op : {"send"}, queue : SUBSET Subjects, dropped : SUBSET Devices]

ASSUME ShelfAssumption    == Low \in Nat /\ Full \in Nat
ASSUME OwnerAssumption    == Owners \subseteq Users /\ NoUser \notin Users
ASSUME SubjectsAssumption == /\ Skus \cap Refunds = {} /\ Skus \cap Tickets = {}
                             /\ Refunds \cap Tickets = {}
ASSUME ProcsAssumption    == /\ Sweepers \cap Handlers = {}
                             /\ Idle \notin Sweep \cup Submit \cup Send

VARIABLES
  stock,      \* product_variants.stock_qty (tracked variants)
  active,     \* product_variants.is_active
  notified,   \* product_variants.low_stock_notified
  refund,     \* payments.status refund_pending, and for how long
  alerted,    \* payments.refund_alerted_at is set
  ticket,     \* support_tickets
  owner,      \* push_tokens.user_id, NoUser without a row
  stale,      \* push_tokens.updated_at is past _STALE_AFTER
  gone,       \* Expo answers DeviceNotRegistered
  txn,        \* what each process is doing
  raised      \* history: alerts committed since the flag was last lowered

shop   == <<stock, active, notified, refund, alerted, ticket, raised>>
tokens == <<owner, stale, gone>>
vars   == <<shop, tokens, txn>>

TypeOK ==
  /\ stock    \in [Skus -> 0..Full]
  /\ active   \in [Skus -> BOOLEAN]
  /\ notified \in [Skus -> BOOLEAN]
  /\ refund   \in [Refunds -> {"none", "pending", "stuck", "made"}]
  /\ alerted  \in [Refunds -> BOOLEAN]
  /\ ticket   \in [Tickets -> {"none", "open", "closed"}]
  /\ owner    \in [Devices -> Users \cup {NoUser}]
  /\ stale    \in [Devices -> BOOLEAN]
  /\ gone     \in [Devices -> BOOLEAN]
  /\ txn      \in [Procs -> Sweep \cup Submit \cup Send \cup {Idle}]
  /\ raised   \in [Skus \cup Refunds -> Nat]

Init ==
  /\ stock    = [s \in Skus |-> Full]
  /\ active   = [s \in Skus |-> TRUE]
  /\ notified = [s \in Skus |-> FALSE]
  /\ refund   = [r \in Refunds |-> "none"]
  /\ alerted  = [r \in Refunds |-> FALSE]
  /\ ticket   = [k \in Tickets |-> "none"]
  /\ owner    = [d \in Devices |-> NoUser]
  /\ stale    = [d \in Devices |-> FALSE]
  /\ gone     = [d \in Devices |-> FALSE]
  /\ txn      = [p \in Procs |-> Idle]
  /\ raised   = [x \in Skus \cup Refunds |-> 0]

-----------------------------------------------------------------------------
(* Transactions and their outbox.                                           *)

Sweeping(p)   == txn[p] # Idle /\ txn[p].op = "sweep"
Submitting(p) == txn[p] # Idle /\ txn[p].op = "submit"
Sending(p)    == txn[p] # Idle /\ txn[p].op = "send"

Put(p, t) == txn' = [txn EXCEPT ![p] = t]

InBand(s) == stock[s] > 0 /\ stock[s] <= Low

\* find_newly_low_stock
NewlyLow == {s \in Skus : active[s] /\ ~notified[s] /\ InBand(s)}

\* Mutant: the debounce of stuck refunds is forgotten.
StuckAgain(p) == {r \in Refunds : refund[r] = "stuck" /\ r \notin txn[p].paid}

\* Mutant: the comparison with older_than is reversed.
StuckFresh(p) == {r \in Refunds : refund[r] = "pending" /\ ~alerted[r] /\ r \notin txn[p].paid}

\* find_stuck_refunds_to_alert, after this sweep's own refunds.
Stuck(p) == {r \in Refunds : refund[r] = "stuck" /\ ~alerted[r] /\ r \notin txn[p].paid}

\* Tokens a sender has deleted and not closed on yet: whoever would write
\* their rows waits.
TokensOf(p) == IF Sending(p) THEN txn[p].dropped ELSE {}

\* drain runs once the commit has succeeded.
Drain(p, queue) ==
  Put(p, IF queue = {} THEN Idle
         ELSE [op |-> "send", queue |-> queue, dropped |-> {}])

\* Mutant: the outbox is drained in the finally block, whatever happened.
AbortDrains(p) ==
  /\ Sweeping(p) \/ Submitting(p)
  /\ Drain(p, IF Submitting(p) THEN {txn[p].ticket} ELSE txn[p].low \cup Stuck(p))
  /\ UNCHANGED <<shop, tokens>>

\* An exception, a lost connection or a restart before the commit: the
\* transaction and its outbox are gone.
Abort(p) ==
  /\ Sweeping(p) \/ Submitting(p)
  /\ Put(p, Idle)
  /\ UNCHANGED <<shop, tokens>>

\* notify_users: the tokens are read when the push goes out.  Those Expo
\* reports dead are deleted in the transaction this read has opened.
SendOne(p, x) ==
  /\ Sending(p)
  /\ x \in txn[p].queue
  /\ LET dead == {d \in Devices : owner[d] \in Owners /\ gone[d]}
     IN  /\ \A q \in Procs \ {p} : dead \cap TokensOf(q) = {}
         /\ Put(p, [txn[p] EXCEPT !.queue   = @ \ {x},
                                  !.dropped = @ \cup dead])
  /\ UNCHANGED <<shop, tokens>>

\* session.close after the drain commits nothing: the deleted tokens are back.
Finish(p) ==
  /\ Sending(p)
  /\ txn[p].queue = {}
  /\ Put(p, Idle)
  /\ UNCHANGED <<shop, tokens>>

\* The process stops between the commit and the last push.
Crash(p) ==
  /\ Sending(p)
  /\ txn[p].queue # {}
  /\ Put(p, Idle)
  /\ UNCHANGED <<shop, tokens>>

-----------------------------------------------------------------------------
(* The housekeeping sweep.                                                  *)

\* The gateway makes some of the queued refunds, and find_newly_low_stock
\* reads what has run low.
SweepRead(p) ==
  /\ txn[p] = Idle
  /\ \E paid \in SUBSET {r \in Refunds : refund[r] \in {"pending", "stuck"}} :
       Put(p, [op |-> "sweep", paid |-> paid, low |-> NewlyLow])
  /\ UNCHANGED <<shop, tokens>>

\* pg_try_advisory_xact_lock: a replica that does not get it skips this pass.
SweepBegin(p) ==
  /\ \A q \in Sweepers : ~Sweeping(q)
  /\ SweepRead(p)

\* Mutant: only a restock lowers the flag, not selling out.
FlagAfterRestock(p, s) == (notified[s] \/ s \in txn[p].low) /\ stock[s] <= Low

\* mark_low_stock_notified, on what was found before, and then
\* clear_stale_low_stock_flags, which sees the flags just set.
FlagAfter(p, s) == (notified[s] \/ s \in txn[p].low) /\ InBand(s)

\* Mutant: the comparison with the cutoff is reversed.
PrunableFresh == {d \in Devices : owner[d] # NoUser /\ ~stale[d]}

\* prune_stale
Prunable == {d \in Devices : owner[d] # NoUser /\ stale[d]}

\* The statements that write, on what is committed by then: stock may have
\* moved since the variants were found.  Their rows stay locked, so that they
\* and the commit are one step; then the pushes, to the owners there are.
SweepCommit(p) ==
  /\ Sweeping(p)
  /\ \A q \in Procs : Prunable \cap TokensOf(q) = {}
  /\ notified' = [s \in Skus |-> FlagAfter(p, s)]
  /\ alerted'  = [r \in Refunds |-> alerted[r] \/ r \in Stuck(p)]
  /\ refund'   = [r \in Refunds |-> IF r \in txn[p].paid THEN "made" ELSE refund[r]]
  /\ owner'    = [d \in Devices |-> IF d \in Prunable THEN NoUser ELSE owner[d]]
  /\ stale'    = [d \in Devices |-> stale[d] /\ d \notin Prunable]
  /\ raised'   = [x \in Skus \cup Refunds |->
                    IF x \in Skus /\ ~FlagAfter(p, x) THEN 0
                    ELSE IF x \in txn[p].low \cup Stuck(p) THEN raised[x] + 1
                    ELSE raised[x]]
  /\ Drain(p, IF Owners = {} THEN {} ELSE txn[p].low \cup Stuck(p))
  /\ UNCHANGED <<stock, active, ticket, gone>>

-----------------------------------------------------------------------------
(* Support tickets and push tokens.                                         *)

\* SupportService.submit; its transaction ends in SubmitCommit or Abort.
SubmitBegin(h, k) ==
  /\ txn[h] = Idle
  /\ ticket[k] = "none"
  /\ \A g \in Handlers : ~(Submitting(g) /\ txn[g].ticket = k)
  /\ Put(h, [op |-> "submit", ticket |-> k])
  /\ UNCHANGED <<shop, tokens>>

SubmitCommit(h) ==
  /\ Submitting(h)
  /\ ticket' = [ticket EXCEPT ![txn[h].ticket] = "open"]
  /\ Drain(h, IF Owners = {} THEN {} ELSE {txn[h].ticket})
  /\ UNCHANGED <<stock, active, notified, refund, alerted, raised, tokens>>

\* SupportRepository.close, a compare-and-swap.
CloseTicket(k) ==
  /\ ticket[k] = "open"
  /\ ticket' = [ticket EXCEPT ![k] = "closed"]
  /\ UNCHANGED <<stock, active, notified, refund, alerted, raised, tokens, txn>>

\* PushTokenRepository.register: a new row, or the row of whoever had the
\* handset before.
Register(u, d) ==
  /\ \A p \in Procs : d \notin TokensOf(p)
  /\ owner' = [owner EXCEPT ![d] = u]
  /\ stale' = [stale EXCEPT ![d] = FALSE]
  /\ UNCHANGED <<shop, gone, txn>>

\* delete_for_user, at sign-out: only a row that is still the caller's.
Deregister(u, d) ==
  /\ owner[d] = u
  /\ \A p \in Procs : d \notin TokensOf(p)
  /\ owner' = [owner EXCEPT ![d] = NoUser]
  /\ stale' = [stale EXCEPT ![d] = FALSE]
  /\ UNCHANGED <<shop, gone, txn>>

\* Ninety days in which the handset did not register.
Lapse(d) ==
  /\ owner[d] # NoUser
  /\ ~stale[d]
  /\ stale' = [stale EXCEPT ![d] = TRUE]
  /\ UNCHANGED <<shop, owner, gone, txn>>

\* The app is uninstalled: Expo knows the token no more.
Uninstall(d) ==
  /\ ~gone[d]
  /\ gone' = [gone EXCEPT ![d] = TRUE]
  /\ UNCHANGED <<shop, owner, stale, txn>>

-----------------------------------------------------------------------------
(* The rest of the shop.                                                    *)

\* Checkouts, cancellations and corrections (module Checkout).
MoveStock(s, q) ==
  /\ q # stock[s]
  /\ stock' = [stock EXCEPT ![s] = q]
  /\ UNCHANGED <<active, notified, refund, alerted, ticket, raised, tokens, txn>>

\* set_variant_active
SetActive(s) ==
  /\ active' = [active EXCEPT ![s] = ~@]
  /\ UNCHANGED <<stock, notified, refund, alerted, ticket, raised, tokens, txn>>

\* _maybe_refund queues a refund (module OrderPayments).
QueueRefund(r) ==
  /\ refund[r] = "none"
  /\ refund' = [refund EXCEPT ![r] = "pending"]
  /\ UNCHANGED <<stock, active, notified, alerted, ticket, raised, tokens, txn>>

\* STUCK_REFUND_ALERT_AFTER has passed since.
RefundLingers(r) ==
  /\ refund[r] = "pending"
  /\ refund' = [refund EXCEPT ![r] = "stuck"]
  /\ UNCHANGED <<stock, active, notified, alerted, ticket, raised, tokens, txn>>

-----------------------------------------------------------------------------

Housekeeping(p) ==
  SweepBegin(p) \/ SweepCommit(p)

Support ==
  \/ \E h \in Handlers : SubmitCommit(h) \/ \E k \in Tickets : SubmitBegin(h, k)
  \/ \E k \in Tickets : CloseTicket(k)

Outbox(p) ==
  \/ Abort(p) \/ Finish(p) \/ Crash(p)
  \/ \E x \in Subjects : SendOne(p, x)

Handset(d) ==
  \/ Lapse(d) \/ Uninstall(d)
  \/ \E u \in Users : Register(u, d) \/ Deregister(u, d)

Shop ==
  \/ \E s \in Skus : SetActive(s) \/ \E q \in 0..Full : MoveStock(s, q)
  \/ \E r \in Refunds : QueueRefund(r) \/ RefundLingers(r)

Next ==
  \/ \E p \in Sweepers : Housekeeping(p)
  \/ \E p \in Procs : Outbox(p)
  \/ \E d \in Devices : Handset(d)
  \/ Support
  \/ Shop

Spec == Init /\ [][Next]_vars

\* Every replica runs the loop for the life of the process and a failed pass
\* is followed by another (_housekeeping): a pass gets through now and then.
\* A push times out after ten seconds, so an outbox is drained in the end.
Fairness ==
  /\ WF_vars(\E p \in Sweepers : SweepBegin(p))
  /\ SF_vars(\E p \in Sweepers : SweepCommit(p))
  /\ \A p \in Procs : WF_vars(Outbox(p))

FairSpec == Spec /\ Fairness
-----------------------------------------------------------------------------

\* However many replicas sweep, one dip of a variant, or one stuck refund, is
\* alerted once: the flag is up exactly while one alert stands for it
\* (low_stock_notified "fires once per dip rather than every 2 minutes").
AlertedOnce ==
  /\ \A s \in Skus    : raised[s] = IF notified[s] THEN 1 ELSE 0
  /\ \A r \in Refunds : raised[r] = IF alerted[r] THEN 1 ELSE 0

\* No push leaves for a row that was rolled back (outbox.drain, "never on a
\* rollback path"): a ticket pushed to the owner exists, and a refund pushed
\* as stuck is on record as alerted.
SentIsCommitted ==
  \A p \in Procs : Sending(p) =>
    /\ \A k \in txn[p].queue \cap Tickets : ticket[k] # "none"
    /\ \A r \in txn[p].queue \cap Refunds : alerted[r]

OutOfStep(s) == \/ active[s] /\ InBand(s) /\ ~notified[s]
                \/ notified[s] /\ ~InBand(s)

\* A variant that stays low on sale is flagged in the end, whatever happens to
\* single passes, and one that leaves its band, by a restock or by selling
\* out, is armed again (clear_stale_low_stock_flags).
FlagFollowsBand ==
  \A s \in Skus : OutOfStep(s) ~> ~OutOfStep(s)

\* A refund the gateway keeps refusing reaches the owner (_alert_stuck_refunds).
StuckRefundsAlerted ==
  \A r \in Refunds : refund[r] = "stuck" ~> (alerted[r] \/ refund[r] = "made")

\* A handset that went away without signing out stops getting its last user's
\* pushes: its token is pruned, unless it registers again (prune_stale).
StaleTokensGo ==
  \A d \in Devices : stale[d] ~> ~stale[d]

-----------------------------------------------------------------------------
(* The inductive invariant.                                                 *)

\* One sweep at a time, and what it has found is not flagged yet.
SweepsSound ==
  /\ \A p, q \in Procs : Sweeping(p) /\ Sweeping(q) => p = q
  /\ \A p \in Procs : Sweeping(p) =>
       p \in Sweepers /\ \A s \in txn[p].low : ~notified[s]

IInv ==
  /\ TypeOK
  /\ AlertedOnce
  /\ SentIsCommitted
  /\ SweepsSound
=============================================================================
