---------------------------- MODULE AlertsProofs ----------------------------
(***************************************************************************)
(* Alerts keeps its invariant for any number of replicas, variants,        *)
(* refunds, tickets, handsets and requests.                                *)
(***************************************************************************)
EXTENDS Alerts, TLAPS

Txns == Sweep \cup Submit \cup Send \cup {Idle}

\* An open transaction is a record of the kind its operation says.
LEMMA TxnKinds ==
  ASSUME TypeOK, NEW p \in Procs
  PROVE  /\ Sweeping(p) => txn[p] \in Sweep
         /\ Submitting(p) => txn[p] \in Submit
         /\ Sending(p) => txn[p] \in Send
         /\ Sweeping(p) => ~Submitting(p) /\ ~Sending(p)
         /\ Submitting(p) => ~Sending(p)
BY DEF TypeOK, Sweeping, Submitting, Sending, Sweep, Submit, Send

\* What an idle process is not doing.
LEMMA IdleDoesNothing ==
  ASSUME NEW p, txn[p] = Idle
  PROVE  ~Sweeping(p) /\ ~Submitting(p) /\ ~Sending(p)
BY DEF Sweeping, Submitting, Sending

-----------------------------------------------------------------------------
(* Steps that change one process's transaction and no flag.                 *)

\* What SentIsCommitted asks of one process.
SendsCommitted(p) ==
  /\ \A k \in txn[p].queue \cap Tickets : ticket[k] # "none"
  /\ \A r \in txn[p].queue \cap Refunds : alerted[r]

\* A process that becomes idle, or sends less, leaves the invariant alone.
LEMMA QuietStep ==
  ASSUME IInv, UNCHANGED shop, NEW p \in Procs, NEW t \in Txns, Put(p, t),
         owner' \in [Devices -> Users \cup {NoUser}],
         stale' \in [Devices -> BOOLEAN], gone' \in [Devices -> BOOLEAN],
         t = Idle \/ t \in Submit \/ (Sending(p) /\ t \in Send /\ t.queue \subseteq txn[p].queue)
  PROVE  IInv'
<1>1. TypeOK'
  BY DEF IInv, TypeOK, Put, Txns, shop
<1>2. AlertedOnce'
  BY DEF IInv, AlertedOnce, shop
<1>3. \A q \in Procs : q # p => txn'[q] = txn[q]
  BY DEF IInv, TypeOK, Put
<1>4. txn'[p] = t
  BY DEF IInv, TypeOK, Put
<1>5. ~Sweeping(p)'
  BY <1>4, ProcsAssumption DEF Sweeping, Submit, Send
<1>6. SweepsSound'
  BY <1>3, <1>5 DEF IInv, SweepsSound, Sweeping, shop
<1>7. ASSUME NEW q \in Procs, Sending(q)' PROVE SendsCommitted(q)'
  <2>1. CASE q = p
    <3>1. Sending(p) /\ t.queue \subseteq txn[p].queue
      BY <1>4, <1>7, <2>1 DEF Sending, Submit
    <3> QED
      BY <1>4, <2>1, <3>1 DEF IInv, SentIsCommitted, SendsCommitted, shop
  <2>2. CASE q # p
    BY <1>3, <1>7, <2>2 DEF IInv, SentIsCommitted, SendsCommitted, Sending, shop
  <2> QED
    BY <2>1, <2>2
<1> QED
  BY <1>1, <1>2, <1>6, <1>7 DEF IInv, SentIsCommitted, SendsCommitted

\* The outbox: rolled back, sent one by one, or lost.
LEMMA OutboxStep ==
  ASSUME IInv, NEW p \in Procs, Outbox(p)
  PROVE  IInv'
<1>1. CASE Abort(p) \/ Finish(p) \/ Crash(p)
  <2>1. Put(p, Idle) /\ UNCHANGED <<shop, tokens>>
    BY <1>1 DEF Abort, Finish, Crash
  <2> QED
    BY <2>1, QuietStep DEF Txns, IInv, TypeOK, tokens
<1>2. ASSUME NEW x \in Subjects, SendOne(p, x) PROVE IInv'
  <2> DEFINE dead == {d \in Devices : owner[d] \in Owners /\ gone[d]}
  <2> DEFINE t == [txn[p] EXCEPT !.queue = @ \ {x}, !.dropped = @ \cup dead]
  <2>1. Sending(p) /\ Put(p, t) /\ UNCHANGED <<shop, tokens>>
    BY <1>2 DEF SendOne
  <2>2. txn[p] \in Send
    BY <2>1, TxnKinds DEF IInv
  <2>3. t \in Send /\ t.queue \subseteq txn[p].queue
    BY <2>2 DEF Send
  <2> QED
    BY <2>1, <2>3, QuietStep DEF Txns, IInv, TypeOK, tokens
<1> QED
  BY <1>1, <1>2 DEF Outbox

-----------------------------------------------------------------------------
(* The sweep.                                                               *)

\* A sweep that gets the lock is alone, and finds only what is not flagged.
LEMMA SweepBeginStep ==
  ASSUME IInv, NEW p \in Sweepers, SweepBegin(p)
  PROVE  IInv'
<1>1. PICK paid \in SUBSET Refunds :
        Put(p, [op |-> "sweep", paid |-> paid, low |-> NewlyLow])
  BY DEF SweepBegin, SweepRead
<1> DEFINE t == [op |-> "sweep", paid |-> paid, low |-> NewlyLow]
<1>2. p \in Procs /\ UNCHANGED <<shop, tokens>>
  BY DEF SweepBegin, SweepRead, Procs
<1>3. t \in Sweep
  BY DEF Sweep, NewlyLow
<1>4. txn'[p] = t /\ \A q \in Procs : q # p => txn'[q] = txn[q]
  BY <1>1, <1>2 DEF IInv, TypeOK, Put
<1>5. TypeOK'
  BY <1>1, <1>2, <1>3 DEF IInv, TypeOK, Put, shop, tokens
<1>6. AlertedOnce'
  BY <1>2 DEF IInv, AlertedOnce, shop
<1>7. SentIsCommitted'
  BY <1>2, <1>4 DEF IInv, SentIsCommitted, Sending, shop
<1>8. \A q \in Procs : Sweeping(q)' => q = p
  <2>1. \A q \in Procs : ~Sweeping(q)
    BY DEF SweepBegin, IInv, SweepsSound
  <2> QED
    BY <1>4, <2>1 DEF Sweeping
<1>9. \A s \in t.low : ~notified'[s]
  BY <1>2 DEF NewlyLow, shop
<1> QED
  BY <1>4, <1>5, <1>6, <1>7, <1>8, <1>9 DEF IInv, SweepsSound

\* A sweep that commits flags what it found, and the flag was down.
LEMMA SweepCommitStep ==
  ASSUME IInv, NEW p \in Sweepers, SweepCommit(p)
  PROVE  IInv'
<1>1. p \in Procs /\ txn[p] \in Sweep
  BY TxnKinds DEF SweepCommit, IInv, Procs
<1>2. txn[p].low \subseteq Skus /\ txn[p].paid \subseteq Refunds
  BY <1>1 DEF Sweep
<1>3. Stuck(p) \subseteq Refunds /\ \A r \in Stuck(p) : ~alerted[r]
  BY DEF Stuck
<1>4. PICK queue \in SUBSET Subjects :
        Drain(p, queue) /\ queue \subseteq txn[p].low \cup Stuck(p)
  BY <1>2, <1>3 DEF SweepCommit, Subjects
<1>5. txn' = [txn EXCEPT ![p] = txn'[p]] /\ ~Sweeping(p)'
      /\ txn'[p] \in Send \cup {Idle} /\ (Sending(p)' => txn'[p].queue = queue)
  BY <1>1, <1>4, ProcsAssumption DEF Drain, Put, IInv, TypeOK, Send, Sending, Sweeping
<1>6. \A q \in Procs : q # p => txn'[q] = txn[q]
  BY <1>5 DEF IInv, TypeOK
<1>7. raised' \in [Skus \cup Refunds -> Nat]
  BY DEF SweepCommit, IInv, TypeOK
<1>8. TypeOK'
  <2>1. notified' \in [Skus -> BOOLEAN]
    BY DEF SweepCommit, FlagAfter, InBand, IInv, TypeOK
  <2>2. alerted' \in [Refunds -> BOOLEAN]
    BY DEF SweepCommit, IInv, TypeOK
  <2>3. refund' \in [Refunds -> {"none", "pending", "stuck", "made"}]
    BY DEF SweepCommit, IInv, TypeOK
  <2>4. owner' \in [Devices -> Users \cup {NoUser}] /\ stale' \in [Devices -> BOOLEAN]
    BY DEF SweepCommit, IInv, TypeOK
  <2>5. txn' \in [Procs -> Sweep \cup Submit \cup Send \cup {Idle}]
    BY <1>1, <1>5 DEF IInv, TypeOK
  <2> QED
    BY <1>7, <2>1, <2>2, <2>3, <2>4, <2>5 DEF SweepCommit, IInv, TypeOK
<1>9. ASSUME NEW s \in Skus PROVE raised'[s] = IF notified'[s] THEN 1 ELSE 0
  <2>1. s \notin Stuck(p)
    BY <1>3, SubjectsAssumption
  <2>2. s \in txn[p].low => ~notified[s]
    BY <1>1 DEF SweepCommit, IInv, SweepsSound
  <2>3. raised[s] = IF notified[s] THEN 1 ELSE 0
    BY DEF IInv, AlertedOnce
  <2>4. notified'[s] <=> FlagAfter(p, s)
    BY DEF SweepCommit
  <2>5. FlagAfter(p, s) => notified[s] \/ s \in txn[p].low
    BY DEF FlagAfter
  <2>6. raised'[s] = IF ~FlagAfter(p, s) THEN 0
                     ELSE IF s \in txn[p].low THEN raised[s] + 1 ELSE raised[s]
    BY <2>1 DEF SweepCommit
  <2> QED
    BY <2>2, <2>3, <2>4, <2>5, <2>6
<1>10. ASSUME NEW r \in Refunds PROVE raised'[r] = IF alerted'[r] THEN 1 ELSE 0
  <2>1. r \notin Skus /\ r \notin txn[p].low
    BY <1>2, SubjectsAssumption
  <2>2. raised[r] = IF alerted[r] THEN 1 ELSE 0
    BY DEF IInv, AlertedOnce
  <2>3. raised'[r] = IF r \in Stuck(p) THEN raised[r] + 1 ELSE raised[r]
    BY <2>1 DEF SweepCommit
  <2>4. alerted'[r] <=> (alerted[r] \/ r \in Stuck(p))
    BY DEF SweepCommit
  <2> QED
    BY <1>3, <2>2, <2>3, <2>4
<1>11. SweepsSound'
  <2>1. \A q \in Procs : ~Sweeping(q)'
    <3>1. \A q \in Procs : Sweeping(q) => q = p
      BY <1>1 DEF SweepCommit, IInv, SweepsSound
    <3> QED
      BY <1>5, <1>6, <3>1 DEF Sweeping
  <2> QED
    BY <2>1 DEF SweepsSound
<1>12. ASSUME NEW q \in Procs, Sending(q)' PROVE SendsCommitted(q)'
  <2>1. CASE q = p
    <3>1. txn'[p].queue \subseteq txn[p].low \cup Stuck(p)
      BY <1>4, <1>5, <1>12, <2>1
    <3>2. txn'[p].queue \cap Tickets = {}
      BY <1>2, <1>3, <3>1, SubjectsAssumption
    <3>3. txn'[p].queue \cap Refunds \subseteq Stuck(p)
      BY <1>2, <3>1, SubjectsAssumption
    <3>4. \A r \in Stuck(p) : alerted'[r]
      BY <1>3 DEF SweepCommit
    <3> QED
      BY <2>1, <3>2, <3>3, <3>4 DEF SendsCommitted
  <2>2. CASE q # p
    BY <1>6, <1>12, <2>2 DEF SweepCommit, IInv, SentIsCommitted, SendsCommitted, Sending
  <2> QED
    BY <2>1, <2>2
<1> QED
  BY <1>8, <1>9, <1>10, <1>11, <1>12 DEF IInv, AlertedOnce, SentIsCommitted, SendsCommitted

-----------------------------------------------------------------------------
(* Tickets, tokens and the shop.                                            *)

\* Steps that leave every transaction and every flag alone.
LEMMA OutsideStep ==
  ASSUME IInv, TypeOK', UNCHANGED <<txn, notified, alerted, raised>>,
         \A k \in Tickets : ticket[k] # "none" => ticket'[k] # "none"
  PROVE  IInv'
<1>1. AlertedOnce'
  BY DEF IInv, AlertedOnce
<1>2. SentIsCommitted'
  BY DEF IInv, SentIsCommitted, Sending
<1>3. SweepsSound'
  BY DEF IInv, SweepsSound, Sweeping
<1> QED
  BY <1>1, <1>2, <1>3 DEF IInv

\* The ticket commits before its push is on the way.
LEMMA SubmitCommitStep ==
  ASSUME IInv, NEW h \in Handlers, SubmitCommit(h)
  PROVE  IInv'
<1>1. h \in Procs /\ txn[h] \in Submit
  BY TxnKinds DEF SubmitCommit, IInv, Procs
<1>2. txn[h].ticket \in Tickets
  BY <1>1 DEF Submit
<1>3. PICK queue \in SUBSET Subjects : Drain(h, queue) /\ queue \subseteq {txn[h].ticket}
  BY <1>2 DEF SubmitCommit, Subjects
<1>4. ~Sweeping(h)' /\ txn'[h] \in Send \cup {Idle} /\ (Sending(h)' => txn'[h].queue = queue)
  BY <1>1, <1>3, ProcsAssumption DEF Drain, Put, IInv, TypeOK, Send, Sending, Sweeping
<1>5. \A q \in Procs : q # h => txn'[q] = txn[q]
  BY <1>3 DEF Drain, Put, IInv, TypeOK
<1>6. ticket' \in [Tickets -> {"none", "open", "closed"}]
  BY <1>2 DEF SubmitCommit, IInv, TypeOK
<1>7. \A k \in Tickets : ticket'[k] = IF k = txn[h].ticket THEN "open" ELSE ticket[k]
  BY <1>2 DEF SubmitCommit, IInv, TypeOK
<1>8. TypeOK'
  <2>1. txn' \in [Procs -> Sweep \cup Submit \cup Send \cup {Idle}]
    BY <1>1, <1>3, <1>4 DEF Drain, Put, IInv, TypeOK
  <2> QED
    BY <1>6, <2>1 DEF SubmitCommit, IInv, TypeOK, tokens
<1>9. AlertedOnce'
  BY DEF SubmitCommit, IInv, AlertedOnce
<1>10. SweepsSound'
  BY <1>4, <1>5 DEF SubmitCommit, IInv, SweepsSound, Sweeping
<1>11. ASSUME NEW q \in Procs, Sending(q)' PROVE SendsCommitted(q)'
  <2>1. CASE q = h
    <3>1. txn'[h].queue \subseteq {txn[h].ticket}
      BY <1>3, <1>4, <1>11, <2>1
    <3> QED
      BY <1>2, <1>7, <2>1, <3>1, SubjectsAssumption DEF SendsCommitted
  <2>2. CASE q # h
    BY <1>5, <1>7, <1>11, <2>2
       DEF SubmitCommit, IInv, SentIsCommitted, SendsCommitted, Sending
  <2> QED
    BY <2>1, <2>2
<1> QED
  BY <1>8, <1>9, <1>10, <1>11 DEF IInv, SentIsCommitted, SendsCommitted

\* The steps of support tickets keep the invariant.
LEMMA SupportStep ==
  ASSUME IInv, Support
  PROVE  IInv'
<1>1. ASSUME NEW h \in Handlers, NEW k \in Tickets, SubmitBegin(h, k) PROVE IInv'
  <2>1. h \in Procs /\ [op |-> "submit", ticket |-> k] \in Submit
    BY DEF Procs, Submit
  <2> QED
    BY <1>1, <2>1, QuietStep DEF SubmitBegin, Txns, IInv, TypeOK, tokens
<1>2. ASSUME NEW k \in Tickets, CloseTicket(k) PROVE IInv'
  <2>1. TypeOK'
    BY <1>2 DEF CloseTicket, IInv, TypeOK, tokens
  <2>2. \A j \in Tickets : ticket[j] # "none" => ticket'[j] # "none"
    BY <1>2 DEF CloseTicket, IInv, TypeOK
  <2> QED
    BY <1>2, <2>1, <2>2, OutsideStep DEF CloseTicket
<1> QED
  BY <1>1, <1>2, SubmitCommitStep DEF Support

\* So do the registrations of a handset, and the lapse of its token.
LEMMA HandsetStep ==
  ASSUME IInv, NEW d \in Devices, Handset(d)
  PROVE  IInv'
<1>1. TypeOK'
  BY DEF Handset, Lapse, Uninstall, Register, Deregister, IInv, TypeOK, shop
<1> QED
  BY <1>1, OutsideStep DEF Handset, Lapse, Uninstall, Register, Deregister, shop

\* So do the stock and refunds that the sweeps watch.
LEMMA ShopStep ==
  ASSUME IInv, Shop
  PROVE  IInv'
<1>1. TypeOK'
  BY DEF Shop, MoveStock, SetActive, QueueRefund, RefundLingers, IInv, TypeOK, tokens
<1> QED
  BY <1>1, OutsideStep DEF Shop, MoveStock, SetActive, QueueRefund, RefundLingers

-----------------------------------------------------------------------------

\* The invariant holds before anything has been sent.
LEMMA Initially == Init => IInv
<1> SUFFICES ASSUME Init PROVE IInv
  OBVIOUS
<1>1. TypeOK
  BY ShelfAssumption DEF Init, TypeOK
<1>2. \A p \in Procs : txn[p] = Idle
  BY DEF Init
<1> QED
  BY <1>1, <1>2, IdleDoesNothing DEF Init, IInv, AlertedOnce, SentIsCommitted, SweepsSound

\* Every step keeps it.
LEMMA Inductive == IInv /\ [Next]_vars => IInv'
<1> SUFFICES ASSUME IInv, [Next]_vars PROVE IInv'
  OBVIOUS
<1>1. ASSUME NEW p \in Sweepers, Housekeeping(p) PROVE IInv'
  BY <1>1, SweepBeginStep, SweepCommitStep DEF Housekeeping
<1>2. ASSUME NEW p \in Procs, Outbox(p) PROVE IInv'
  BY <1>2, OutboxStep
<1>3. ASSUME NEW d \in Devices, Handset(d) PROVE IInv'
  BY <1>3, HandsetStep
<1>4. CASE UNCHANGED vars
  <2>1. TypeOK'
    BY <1>4 DEF IInv, TypeOK, vars, shop, tokens
  <2> QED
    BY <1>4, <2>1, OutsideStep DEF vars, shop
<1> QED
  BY <1>1, <1>2, <1>3, <1>4, SupportStep, ShopStep DEF Next

\* The invariant of Alerts: types, flags and history agree, sweeps exclude each
\* other, and what is on its way out has been committed.
THEOREM Invariance == Spec => []IInv
<1> QED
  BY Initially, Inductive, PTL DEF Spec

\* One dip of a variant, or one stuck refund, is alerted once, however many
\* replicas run the housekeeping loop (_run_sweep_once).
THEOREM OneAlertPerDip == Spec => []AlertedOnce
<1>1. IInv => AlertedOnce
  BY DEF IInv
<1> QED
  BY <1>1, Invariance, PTL

\* No push leaves for what was rolled back (outbox.drain).
THEOREM PushesAreCommitted == Spec => []SentIsCommitted
<1>1. IInv => SentIsCommitted
  BY DEF IInv
<1> QED
  BY <1>1, Invariance, PTL
=============================================================================
