--------------------------- MODULE DeliveryProofs ---------------------------
(***************************************************************************)
(* Orders, codes, cash and settlements of Delivery keep their invariant    *)
(* for any number of orders, agents, settlements and requests, and         *)
(* implement the COD book.                                                 *)
(***************************************************************************)
EXTENDS Delivery, TLAPS

\* What the rows keep, and what open requests may rely on.
RowsSound ==
  /\ CashFollowsDelivery
  /\ DeliveredStaysDelivered
  /\ SettlementsAddUp
  /\ CodeWhileOut
  /\ UnusedCoverNothing

RowTypes ==
  /\ method      \in [Orders -> {"cod", "online"}]
  /\ status      \in [Orders -> Placed]
  /\ agent       \in [Orders -> Agents \cup {NoAgent}]
  /\ code        \in [Orders -> {"none", "live", "expired"}]
  /\ deliveredBy \in [Orders -> Actors \cup {NoAgent}]
  /\ captured    \in [Orders -> BOOLEAN]
  /\ collectedBy \in [Orders -> Agents \cup {NoAgent}]
  /\ settledIn   \in [Orders -> Settlements \cup {NoSettlement}]
  /\ covers      \in [Settlements -> SUBSET Orders]
  /\ recipient   \in [Settlements -> Agents \cup {NoAgent}]

Txn == Accepts \cup Moves \cup Settles \cup {Idle}

TxnsSound == txn \in [Handlers -> Txn] /\ MovesSound /\ SettlesSound

\* IInv is what the rows keep and what the requests rely on.
LEMMA IInvParts ==
  /\ IInv <=> RowTypes /\ RowsSound /\ TxnsSound
  /\ (IInv <=> RowTypes /\ RowsSound /\ TxnsSound)'
BY DEF IInv, TypeOK, RowTypes, RowsSound, TxnsSound, Txn

\* The edges of the graph a placed order can take (_ALLOWED).
LEMMA Edges ==
  ASSUME NEW f \in Placed, NEW t, CanTransition(f, t)
  PROVE  /\ t \in Placed
         /\ t = Packed => f = Confirmed
         /\ t = Delivered => f = OutForDelivery
         /\ f \in {Delivered, Refunded} => t = Refunded
BY DEF CanTransition, Allowed, Placed, Statuses, Pending, Confirmed, Packed,
       OutForDelivery, Delivered, Cancelled, Refunded

\* Statuses that the invariants tell apart.
LEMMA Distinct ==
  /\ Confirmed # OutForDelivery /\ Packed # OutForDelivery
  /\ Delivered \notin {OutForDelivery, Refunded}
  /\ OutForDelivery # Refunded
  /\ {Confirmed, Packed, OutForDelivery, Delivered, Refunded} \subseteq Placed
BY DEF Placed, Statuses, Pending, Confirmed, Packed, OutForDelivery, Delivered,
       Cancelled, Refunded

\* An open request is a record of the kind its operation says.
LEMMA OpenTxn ==
  ASSUME TxnsSound, NEW h \in Handlers
  PROVE  /\ Accepting(h) => txn[h] \in Accepts
         /\ Moving(h) => txn[h] \in Moves
         /\ Settling(h) => txn[h] \in Settles
BY DEF TxnsSound, Txn, Accepting, Moving, Settling, Accepts, Moves, Settles

-----------------------------------------------------------------------------
(* Requests.                                                                *)

\* A request starts or moves on without a lock: the others keep theirs.
LEMMA OpenStep ==
  ASSUME TxnsSound, UNCHANGED cash, NEW h \in Handlers, NEW x \in Txn,
         txn' = [txn EXCEPT ![h] = x],
         x = Idle \/ x.op = "accept" \/ (x.op = "settle" /\ ~x.locked)
           \/ (x.op = "move" /\ (x.seen # NotRead => CanTransition(x.seen, x.to)))
  PROVE  TxnsSound'
<1>1. txn' \in [Handlers -> Txn]
  BY DEF TxnsSound
<1>2. \A g \in Handlers : txn'[g] = IF g = h THEN x ELSE txn[g]
  BY DEF TxnsSound
<1>3. MovesSound'
  BY <1>2 DEF TxnsSound, MovesSound, Moving
<1>4. \A g \in Handlers : (Settling(g) /\ txn[g].locked)' =>
                            g # h /\ Settling(g) /\ txn[g].locked
  BY <1>2 DEF Settling
<1>5. \A g \in Handlers : \A o : RowLocked(g, o)' => RowLocked(g, o)
  BY <1>2, <1>4 DEF RowLocked
<1>6. SettlesSound'
  BY <1>2, <1>4, <1>5 DEF TxnsSound, SettlesSound, PendingCash, cash
<1> QED
  BY <1>1, <1>3, <1>6 DEF TxnsSound

\* A settlement has its rows: nobody else holds them.
LEMMA LockStep ==
  ASSUME TxnsSound, NEW h \in Handlers, SettleLock(h)
  PROVE  TxnsSound'
<1> DEFINE found == txn[h].rows \cap PendingCash(txn[h].agent)
<1>1. txn[h] \in Settles /\ ~txn[h].locked
  BY OpenTxn DEF SettleLock
<1>2. /\ UNCHANGED cash /\ found # {}
      /\ \A o \in found : ~RowLocked(h, o)
      /\ txn' = [txn EXCEPT ![h].rows = found, ![h].locked = TRUE]
  BY DEF SettleLock
<1>3. PICK x \in Settles :
        /\ x.op = "settle" /\ x.locked /\ x.agent = txn[h].agent
        /\ x.rows = found
        /\ txn' = [txn EXCEPT ![h] = x]
  <2> DEFINE x == [[txn[h] EXCEPT !.rows = found] EXCEPT !.locked = TRUE]
  <2>1. found \in SUBSET Orders
    BY <1>1 DEF Settles
  <2> HIDE DEF found
  <2>2. x \in Settles /\ x.op = "settle" /\ x.locked /\ x.agent = txn[h].agent
        /\ x.rows = found
    BY <1>1, <2>1 DEF Settles
  <2>3. txn' = [txn EXCEPT ![h] = x]
    BY <1>2 DEF TxnsSound
  <2> QED
    BY <2>2, <2>3
<1>4. \A g \in Handlers : txn'[g] = IF g = h THEN x ELSE txn[g]
  BY <1>3 DEF TxnsSound
<1>5. txn' \in [Handlers -> Txn]
  BY <1>3 DEF TxnsSound, Txn
<1>6. MovesSound'
  BY <1>3, <1>4 DEF TxnsSound, MovesSound, Moving
<1>7. SettlesSound'
  <2> SUFFICES ASSUME NEW g \in Handlers, (Settling(g) /\ txn[g].locked)'
               PROVE  /\ txn'[g].rows # {}
                      /\ txn'[g].rows \subseteq PendingCash(txn[g].agent)'
                      /\ \A o \in txn'[g].rows : ~RowLocked(g, o)'
    BY DEF SettlesSound
  <2>1. PendingCash(txn[g].agent)' = PendingCash(txn'[g].agent)
    BY <1>2 DEF PendingCash, cash
  <2>2. CASE g = h
    <3>1. txn'[g].rows = found /\ txn'[g].agent = txn[h].agent
      BY <1>3, <1>4, <2>2
    <3>2. \A o \in found : ~RowLocked(g, o)'
      BY <1>2, <1>4, <2>2 DEF RowLocked, Settling
    <3> QED
      BY <1>2, <2>1, <3>1, <3>2
  <2>3. CASE g # h
    <3>1. txn'[g] = txn[g] /\ Settling(g) /\ txn[g].locked
      BY <1>4, <2>3 DEF Settling
    <3>2. \A o \in txn[g].rows : ~RowLocked(g, o) /\ o \notin found
      BY <1>2, <2>3, <3>1 DEF TxnsSound, SettlesSound, RowLocked
    <3>3. \A o \in txn[g].rows : ~RowLocked(g, o)'
      BY <1>3, <1>4, <3>2 DEF RowLocked, Settling
    <3> QED
      BY <2>1, <3>1, <3>3 DEF TxnsSound, SettlesSound
  <2> QED
    BY <2>2, <2>3
<1> QED
  BY <1>5, <1>6, <1>7 DEF TxnsSound

\* Closing a request takes nothing from the others, whatever it has written,
\* as long as what they have locked stays pending.
LEMMA CloseStep ==
  ASSUME TxnsSound, NEW h \in Handlers, Close(h),
         \A g \in Handlers \ {h} : Settling(g) /\ txn[g].locked =>
            txn[g].rows \subseteq PendingCash(txn[g].agent)'
  PROVE  TxnsSound'
<1>1. txn' \in [Handlers -> Txn]
  BY DEF TxnsSound, Close, Txn
<1>2. \A g \in Handlers : txn'[g] = IF g = h THEN Idle ELSE txn[g]
  BY DEF TxnsSound, Close
<1>3. MovesSound'
  BY <1>2 DEF TxnsSound, MovesSound, Moving
<1>4. SettlesSound'
  <2> SUFFICES ASSUME NEW g \in Handlers, (Settling(g) /\ txn[g].locked)'
               PROVE  /\ txn'[g].rows # {}
                      /\ txn'[g].rows \subseteq PendingCash(txn[g].agent)'
                      /\ \A o \in txn'[g].rows : ~RowLocked(g, o)'
    BY DEF SettlesSound
  <2>1. g # h /\ txn'[g] = txn[g] /\ Settling(g) /\ txn[g].locked
    BY <1>2 DEF Settling
  <2>2. PendingCash(txn[g].agent)' =
          {o \in Orders : collectedBy'[o] = txn[g].agent
                          /\ settledIn'[o] = NoSettlement}
    BY <2>1 DEF PendingCash
  <2>3. \A o : RowLocked(g, o)' => RowLocked(g, o)
    BY <1>2 DEF RowLocked, Settling
  <2> QED
    BY <2>1, <2>2, <2>3 DEF TxnsSound, SettlesSound
<1> QED
  BY <1>1, <1>3, <1>4 DEF TxnsSound

-----------------------------------------------------------------------------
(* Rows.                                                                    *)

\* Only the order's agent changes: accept, release and reassign.
LEMMA AgentStep ==
  ASSUME RowTypes, RowsSound, NEW o \in Orders, NEW a \in Agents \cup {NoAgent},
         agent' = [agent EXCEPT ![o] = a],
         UNCHANGED <<method, status, code, deliveredBy, cash>>
  PROVE  RowTypes' /\ RowsSound'
<1>1. RowTypes'
  BY DEF RowTypes, cash
<1>2. RowsSound'
  BY DEF RowsSound, CashFollowsDelivery, DeliveredStaysDelivered, cash,
         SettlementsAddUp, CodeWhileOut, UnusedCoverNothing
<1> QED
  BY <1>1, <1>2

\* The code runs out while the order is out for delivery.
LEMMA ExpireStep ==
  ASSUME RowTypes, RowsSound, NEW o \in Orders, CodeExpires(o)
  PROVE  RowTypes' /\ RowsSound'
<1>1. RowTypes'
  BY DEF RowTypes, CodeExpires, cash
<1>2. CodeWhileOut'
  BY DEF RowTypes, RowsSound, CodeExpires, CodeWhileOut
<1>3. RowsSound'
  BY <1>2 DEF CodeExpires, RowsSound, CashFollowsDelivery,
         DeliveredStaysDelivered, cash, SettlementsAddUp, UnusedCoverNothing
<1> QED
  BY <1>1, <1>3

\* What the compare-and-swap of a move knows.
LEMMA MoveKnows ==
  ASSUME RowTypes, TxnsSound, NEW h \in Handlers, MoveCommit(h)
  PROVE  /\ txn[h] \in Moves
         /\ txn[h].order \in Orders /\ txn[h].by \in Actors
         /\ txn[h].to \in Placed
         /\ status[txn[h].order] \in Placed
         /\ CanTransition(status[txn[h].order], txn[h].to)
<1>1. txn[h] \in Moves
  BY OpenTxn DEF MoveCommit
<1>2. CanTransition(status[txn[h].order], txn[h].to)
  BY DEF MoveCommit, TxnsSound, MovesSound
<1> QED
  BY <1>1, <1>2 DEF Moves, RowTypes

\* A move won by its compare-and-swap.
LEMMA MoveStep ==
  ASSUME RowTypes, RowsSound, TxnsSound, NEW h \in Handlers, MoveCommit(h)
  PROVE  RowTypes' /\ RowsSound' /\ TxnsSound'
<1> DEFINE o  == txn[h].order
           to == txn[h].to
           by == txn[h].by
<1>1. /\ o \in Orders /\ by \in Actors /\ to \in Placed /\ status[o] \in Placed
      /\ CanTransition(status[o], to)
  BY MoveKnows
<1>2. /\ to = Packed => status[o] = Confirmed
      /\ to = Delivered => status[o] = OutForDelivery
      /\ status[o] \in {Delivered, Refunded} => to = Refunded
  BY <1>1, Edges
<1>3. /\ status' = [status EXCEPT ![o] = to]
      /\ deliveredBy' = [deliveredBy EXCEPT ![o] = IF to = Delivered THEN by ELSE @]
      /\ SetCode(o, to) /\ Collection(h) /\ Close(h)
      /\ UNCHANGED <<method, agent, settledIn, covers, recipient>>
  BY DEF MoveCommit, Moved
<1>4. \/ /\ to = Delivered /\ by \in Agents /\ method[o] = "cod"
         /\ collectedBy[o] = NoAgent
         /\ collectedBy' = [collectedBy EXCEPT ![o] = by]
         /\ captured' = [captured EXCEPT ![o] = TRUE]
      \/ /\ ~(to = Delivered /\ by \in Agents /\ method[o] = "cod")
         /\ UNCHANGED <<collectedBy, captured>>
  <2>1. to = Delivered => deliveredBy[o] = NoAgent
    BY <1>1, <1>2, Distinct DEF RowsSound, DeliveredStaysDelivered
  <2>2. to = Delivered => collectedBy[o] = NoAgent
    BY <1>1, <2>1, ActorAssumption DEF RowsSound, CashFollowsDelivery, Actors
  <2> QED
    BY <1>3, <2>2 DEF Collection, Verifying
<1> HIDE DEF o, to, by
<1>5. RowTypes'
  <2>1. code' \in [Orders -> {"none", "live", "expired"}]
    BY <1>3 DEF SetCode, RowTypes
  <2>2. captured' \in [Orders -> BOOLEAN]
    BY <1>4 DEF RowTypes
  <2>3. collectedBy' \in [Orders -> Agents \cup {NoAgent}]
    BY <1>4 DEF RowTypes
  <2> QED
    BY <1>1, <1>3, <2>1, <2>2, <2>3 DEF RowTypes
<1>6. DeliveredStaysDelivered'
  BY <1>1, <1>2, <1>3, Distinct, ActorAssumption
     DEF RowTypes, RowsSound, DeliveredStaysDelivered
<1>7. CashFollowsDelivery'
  <2> SUFFICES ASSUME NEW p \in Orders
               PROVE  (/\ collectedBy[p] = IF method[p] = "cod" /\ deliveredBy[p] \in Agents
                                           THEN deliveredBy[p] ELSE NoAgent
                       /\ captured[p] <=> collectedBy[p] # NoAgent)'
    BY DEF CashFollowsDelivery
  <2>1. /\ collectedBy[p] = IF method[p] = "cod" /\ deliveredBy[p] \in Agents
                            THEN deliveredBy[p] ELSE NoAgent
        /\ captured[p] <=> collectedBy[p] # NoAgent
    BY DEF RowsSound, CashFollowsDelivery
  <2>2. p = o /\ to = Delivered => deliveredBy[p] = NoAgent
    BY <1>2, Distinct DEF RowsSound, DeliveredStaysDelivered
  <2>3. /\ method'[p] = method[p]
        /\ deliveredBy'[p] = IF p = o /\ to = Delivered THEN by ELSE deliveredBy[p]
    BY <1>3 DEF RowTypes
  <2>4. CASE collectedBy' = collectedBy /\ captured' = captured
             /\ ~(to = Delivered /\ by \in Agents /\ method[o] = "cod")
    BY <2>1, <2>2, <2>3, <2>4, ActorAssumption DEF Actors
  <2>5. CASE /\ to = Delivered /\ by \in Agents /\ method[o] = "cod"
             /\ collectedBy' = [collectedBy EXCEPT ![o] = by]
             /\ captured' = [captured EXCEPT ![o] = TRUE]
    BY <2>1, <2>3, <2>5, ActorAssumption DEF Actors, RowTypes
  <2> QED
    BY <1>4, <2>4, <2>5
<1>8. \A p \in Orders : collectedBy[p] # NoAgent => collectedBy'[p] = collectedBy[p]
  BY <1>4 DEF RowTypes
<1>9. SettlementsAddUp' /\ UnusedCoverNothing'
  <2>1. UnusedCoverNothing'
    BY <1>3 DEF RowsSound, UnusedCoverNothing
  <2>2. \A s \in Settlements : \A p \in covers[s] :
           p \in Orders /\ collectedBy[p] = recipient[s] /\ recipient[s] # NoAgent
    BY DEF RowTypes, RowsSound, SettlementsAddUp, UnusedCoverNothing
  <2> QED
    BY <1>3, <1>8, <2>1, <2>2 DEF RowsSound, SettlementsAddUp
<1>10. CodeWhileOut'
  BY <1>1, <1>2, <1>3, Distinct DEF SetCode, RowTypes, RowsSound, CodeWhileOut
<1>11. TxnsSound'
  <2> SUFFICES ASSUME NEW g \in Handlers \ {h}, Settling(g), txn[g].locked
               PROVE  txn[g].rows \subseteq PendingCash(txn[g].agent)'
    BY <1>3, CloseStep
  <2>1. txn[g].rows \subseteq PendingCash(txn[g].agent) /\ txn[g].agent \in Agents
    BY OpenTxn DEF TxnsSound, SettlesSound, Settles
  <2>2. txn[g].agent # NoAgent /\ txn'[g] = txn[g]
    BY <1>3, <2>1, ActorAssumption DEF Actors, Close, TxnsSound
  <2> QED
    BY <1>3, <1>8, <2>1, <2>2 DEF PendingCash
<1> QED
  BY <1>5, <1>6, <1>7, <1>9, <1>10, <1>11 DEF RowsSound

\* A settlement claims the collections it has locked.
LEMMA SettleStep ==
  ASSUME RowTypes, RowsSound, TxnsSound, NEW h \in Handlers,
         NEW s \in Settlements, SettleCommit(h, s)
  PROVE  RowTypes' /\ RowsSound' /\ TxnsSound'
<1> DEFINE mine == txn[h].rows
           a    == txn[h].agent
<1>1. txn[h] \in Settles /\ mine \subseteq Orders /\ a \in Agents
  BY OpenTxn DEF SettleCommit, Settles
<1>2. /\ \A o \in mine : o \in Orders /\ collectedBy[o] = a /\ settledIn[o] = NoSettlement
      /\ \A o \in mine : ~RowLocked(h, o)
  BY DEF SettleCommit, TxnsSound, SettlesSound, PendingCash
<1>3. /\ recipient[s] = NoAgent
      /\ recipient' = [recipient EXCEPT ![s] = a]
      /\ covers' = [covers EXCEPT ![s] = mine]
      /\ settledIn' = [o \in Orders |-> IF o \in mine THEN s ELSE settledIn[o]]
      /\ Close(h)
      /\ UNCHANGED <<method, status, agent, code, deliveredBy, captured, collectedBy>>
  BY DEF SettleCommit, job
<1> HIDE DEF mine, a
<1>4. RowTypes'
  BY <1>1, <1>3 DEF RowTypes
<1>5. CashFollowsDelivery' /\ DeliveredStaysDelivered' /\ CodeWhileOut'
  BY <1>3 DEF RowsSound, CashFollowsDelivery, DeliveredStaysDelivered, CodeWhileOut
<1>6. UnusedCoverNothing'
  BY <1>1, <1>3, ActorAssumption
     DEF Actors, RowTypes, RowsSound, UnusedCoverNothing
<1>7. SettlementsAddUp'
  <2> SUFFICES ASSUME NEW u \in Settlements
               PROVE  /\ covers'[u] = {o \in Orders : settledIn'[o] = u}
                      /\ \A o \in covers'[u] : collectedBy'[o] = recipient'[u]
    BY DEF SettlementsAddUp
  <2>1. covers[u] = {o \in Orders : settledIn[o] = u}
    BY DEF RowsSound, SettlementsAddUp
  <2>2. CASE u = s
    <3>1. \A o \in Orders : settledIn[o] # s
      BY <1>3, <2>1, <2>2 DEF RowsSound, UnusedCoverNothing
    <3>2. covers'[u] = mine /\ recipient'[u] = a
      BY <1>3, <2>2 DEF RowTypes
    <3>3. mine = {o \in Orders : settledIn'[o] = u}
      BY <1>1, <1>3, <2>2, <3>1
    <3> QED
      BY <1>2, <1>3, <3>2, <3>3
  <2>3. CASE u # s
    <3>1. covers'[u] = covers[u] /\ recipient'[u] = recipient[u]
      BY <1>3, <2>3 DEF RowTypes
    <3>2. {o \in Orders : settledIn'[o] = u} = {o \in Orders : settledIn[o] = u}
      BY <1>2, <1>3, <2>3, MarkersAssumption
    <3> QED
      BY <1>3, <2>1, <3>1, <3>2 DEF RowsSound, SettlementsAddUp
  <2> QED
    BY <2>2, <2>3
<1>8. TxnsSound'
  <2> SUFFICES ASSUME NEW g \in Handlers \ {h}, Settling(g), txn[g].locked
               PROVE  txn[g].rows \subseteq PendingCash(txn[g].agent)'
    BY <1>3, CloseStep
  <2>1. txn[g].rows \subseteq PendingCash(txn[g].agent)
    BY DEF TxnsSound, SettlesSound
  <2>2. \A o \in txn[g].rows : o \notin mine
    BY <1>2 DEF RowLocked
  <2>3. txn'[g] = txn[g]
    BY <1>3 DEF Close, TxnsSound
  <2> QED
    BY <1>3, <2>1, <2>2, <2>3 DEF PendingCash
<1> QED
  BY <1>4, <1>5, <1>6, <1>7, <1>8 DEF RowsSound

-----------------------------------------------------------------------------
(* Steps of the specification.                                              *)

\* Nothing of a request is in the rows before its commit.
LEMMA RowsUnchanged ==
  ASSUME RowTypes, RowsSound, UNCHANGED <<job, cash>>
  PROVE  RowTypes' /\ RowsSound'
BY DEF job, cash, RowTypes, RowsSound, CashFollowsDelivery,
       DeliveredStaysDelivered, SettlementsAddUp, CodeWhileOut, UnusedCoverNothing

\* Requests that start, read or give up.
LEMMA QuietStep ==
  ASSUME RowTypes, TxnsSound, NEW h \in Handlers,
         \/ \E a \in Agents, o \in Orders :
              \/ AcceptBegin(h, a, o)
              \/ \E to \in AgentTargets : AgentMoveBegin(h, a, o, to)
         \/ \E o \in Orders, to \in Placed : StaffMoveRead(h, o, to)
         \/ \E a \in Agents : SettleBegin(h, a)
         \/ AgentMoveRead(h)
         \/ Abort(h)
  PROVE  TxnsSound' /\ UNCHANGED <<job, cash>>
<1>1. ASSUME NEW a \in Agents, NEW o \in Orders, AcceptBegin(h, a, o)
      PROVE  TxnsSound' /\ UNCHANGED <<job, cash>>
  <2> DEFINE x == [op |-> "accept", by |-> a, order |-> o]
  <2>1. x \in Txn /\ x.op = "accept"
    BY DEF Txn, Accepts
  <2>2. UNCHANGED <<job, cash>> /\ txn' = [txn EXCEPT ![h] = x]
    BY <1>1 DEF AcceptBegin, Open
  <2> HIDE DEF x
  <2> QED
    BY <2>1, <2>2, OpenStep
<1>2. ASSUME NEW a \in Agents, NEW o \in Orders, NEW to \in AgentTargets,
             AgentMoveBegin(h, a, o, to)
      PROVE  TxnsSound' /\ UNCHANGED <<job, cash>>
  <2> DEFINE x == [op |-> "move", by |-> a, order |-> o, to |-> to,
                   seen |-> NotRead]
  <2>1. to \in Placed
    BY Distinct DEF AgentTargets
  <2>2. x \in Txn /\ x.op = "move" /\ x.seen = NotRead
    BY <2>1 DEF Txn, Moves, Actors
  <2>3. UNCHANGED <<job, cash>> /\ txn' = [txn EXCEPT ![h] = x]
    BY <1>2 DEF AgentMoveBegin, Open
  <2> HIDE DEF x
  <2> QED
    BY <2>2, <2>3, OpenStep
<1>3. ASSUME NEW o \in Orders, NEW to \in Placed, StaffMoveRead(h, o, to)
      PROVE  TxnsSound' /\ UNCHANGED <<job, cash>>
  <2> DEFINE x == [op |-> "move", by |-> Staff, order |-> o, to |-> to,
                   seen |-> status[o]]
  <2>1. x \in Txn /\ x.op = "move" /\ CanTransition(x.seen, x.to)
    BY <1>3 DEF Txn, Moves, Actors, RowTypes, StaffMoveRead
  <2>2. UNCHANGED <<job, cash>> /\ txn' = [txn EXCEPT ![h] = x]
    BY <1>3 DEF StaffMoveRead, Open
  <2> HIDE DEF x
  <2> QED
    BY <2>1, <2>2, OpenStep
<1>4. ASSUME NEW a \in Agents, SettleBegin(h, a)
      PROVE  TxnsSound' /\ UNCHANGED <<job, cash>>
  <2> DEFINE x == [op |-> "settle", agent |-> a, rows |-> PendingCash(a),
                   locked |-> FALSE]
  <2>1. x \in Txn /\ x.op = "settle" /\ ~x.locked
    BY DEF Txn, Settles, PendingCash
  <2>2. UNCHANGED <<job, cash>> /\ txn' = [txn EXCEPT ![h] = x]
    BY <1>4 DEF SettleBegin, Open
  <2> HIDE DEF x
  <2> QED
    BY <2>1, <2>2, OpenStep
<1>5. ASSUME AgentMoveRead(h)
      PROVE  TxnsSound' /\ UNCHANGED <<job, cash>>
  <2> DEFINE x == [txn[h] EXCEPT !.seen = status[txn[h].order]]
  <2>1. txn[h] \in Moves
    BY <1>5, OpenTxn DEF AgentMoveRead
  <2>2. status[txn[h].order] \in Placed
    BY <2>1 DEF Moves, RowTypes
  <2>3. x \in Txn /\ x.op = "move" /\ CanTransition(x.seen, x.to)
    BY <1>5, <2>1, <2>2 DEF AgentMoveRead, Txn, Moves
  <2>4. UNCHANGED <<job, cash>> /\ txn' = [txn EXCEPT ![h] = x]
    BY <1>5 DEF AgentMoveRead, TxnsSound
  <2> HIDE DEF x
  <2> QED
    BY <2>3, <2>4, OpenStep
<1>6. ASSUME Abort(h)
      PROVE  TxnsSound' /\ UNCHANGED <<job, cash>>
  <2>1. Idle \in Txn
    BY DEF Txn
  <2> QED
    BY <1>6, <2>1, OpenStep DEF Abort, Close
<1> QED
  BY <1>1, <1>2, <1>3, <1>4, <1>5, <1>6

\* Whoever takes, leaves or is given the order.
LEMMA AssignStep ==
  ASSUME RowTypes, RowsSound, TxnsSound,
         \/ \E h \in Handlers : AcceptCommit(h)
         \/ \E o \in Orders, a \in Agents : Release(a, o)
         \/ \E o \in Orders, a \in Agents \cup {NoAgent} : Reassign(o, a)
  PROVE  RowTypes' /\ RowsSound' /\ TxnsSound' /\ UNCHANGED cash
<1>1. ASSUME NEW h \in Handlers, AcceptCommit(h)
      PROVE  RowTypes' /\ RowsSound' /\ TxnsSound' /\ UNCHANGED cash
  <2>1. txn[h].order \in Orders /\ txn[h].by \in Agents
    BY <1>1, OpenTxn DEF AcceptCommit, Accepts
  <2>2. RowTypes' /\ RowsSound' /\ UNCHANGED cash
    BY <1>1, <2>1, AgentStep DEF AcceptCommit
  <2>3. \A g \in Handlers \ {h} : Settling(g) /\ txn[g].locked =>
          txn[g].rows \subseteq PendingCash(txn[g].agent)'
    BY <1>1, <2>2 DEF AcceptCommit, Close, TxnsSound, SettlesSound, PendingCash, cash
  <2> QED
    BY <1>1, <2>2, <2>3, CloseStep DEF AcceptCommit
<1>2. ASSUME NEW o \in Orders, NEW a \in Agents \cup {NoAgent},
             Reassign(o, a) \/ \E b \in Agents : a = NoAgent /\ Release(b, o)
      PROVE  RowTypes' /\ RowsSound' /\ TxnsSound' /\ UNCHANGED cash
  <2>1. /\ agent' = [agent EXCEPT ![o] = a]
        /\ UNCHANGED <<method, status, code, deliveredBy, cash, txn>>
    BY <1>2 DEF Reassign, Release
  <2>2. RowTypes' /\ RowsSound'
    BY <2>1, AgentStep
  <2>3. TxnsSound'
    BY <2>1 DEF TxnsSound, MovesSound, SettlesSound, Moving, Settling,
                RowLocked, PendingCash, cash
  <2> QED
    BY <2>1, <2>2, <2>3
<1> QED
  BY <1>1, <1>2

\* Steps that leave the rows of the COD book alone keep the invariant.
LEMMA OtherStep ==
  ASSUME IInv, Next,
         ~ \E h \in Handlers : MoveCommit(h),
         ~ \E h \in Handlers, s \in Settlements : SettleCommit(h, s)
  PROVE  IInv' /\ UNCHANGED cash
<1> USE IInvParts
<1>1. CASE \/ \E h \in Handlers : AcceptCommit(h)
           \/ \E o \in Orders, a \in Agents : Release(a, o)
           \/ \E o \in Orders, a \in Agents \cup {NoAgent} : Reassign(o, a)
  BY <1>1, AssignStep
<1>2. ASSUME NEW o \in Orders, CodeExpires(o)
      PROVE  IInv' /\ UNCHANGED cash
  <2>1. UNCHANGED <<cash, txn>>
    BY <1>2 DEF CodeExpires
  <2>2. TxnsSound'
    BY <2>1 DEF TxnsSound, MovesSound, SettlesSound, Moving, Settling,
                RowLocked, PendingCash, cash
  <2> QED
    BY <1>2, <2>1, <2>2, ExpireStep
<1>3. ASSUME NEW h \in Handlers, SettleLock(h)
      PROVE  IInv' /\ UNCHANGED cash
  BY <1>3, LockStep, RowsUnchanged DEF SettleLock
<1>4. ASSUME NEW h \in Handlers,
         \/ \E a \in Agents, o \in Orders :
              \/ AcceptBegin(h, a, o)
              \/ \E to \in AgentTargets : AgentMoveBegin(h, a, o, to)
         \/ \E o \in Orders, to \in Placed : StaffMoveRead(h, o, to)
         \/ \E a \in Agents : SettleBegin(h, a)
         \/ AgentMoveRead(h)
         \/ Abort(h)
      PROVE  IInv' /\ UNCHANGED cash
  BY <1>4, QuietStep, RowsUnchanged
<1> QED
  BY <1>1, <1>2, <1>3, <1>4 DEF Next, Agent, StaffMember, Owner, Server

\* Every step keeps the invariant.
LEMMA NextStep == ASSUME IInv, [Next]_vars PROVE IInv'
<1>1. CASE UNCHANGED vars
  BY <1>1 DEF vars, job, cash, IInv, TypeOK, CashFollowsDelivery,
     DeliveredStaysDelivered, SettlementsAddUp, CodeWhileOut, UnusedCoverNothing,
     MovesSound, SettlesSound, Moving, Settling, RowLocked, PendingCash
<1>2. ASSUME NEW h \in Handlers, MoveCommit(h) PROVE IInv'
  BY <1>2, IInvParts, MoveStep
<1>3. ASSUME NEW h \in Handlers, NEW s \in Settlements, SettleCommit(h, s)
      PROVE  IInv'
  BY <1>3, IInvParts, SettleStep
<1> QED
  BY <1>1, <1>2, <1>3, OtherStep

\* Orders as the checkout leaves them.
LEMMA InitIInv == Init => IInv
<1> SUFFICES ASSUME Init PROVE IInv
  OBVIOUS
<1>1. TypeOK
  BY Distinct DEF Init, TypeOK
<1>2. CashFollowsDelivery /\ DeliveredStaysDelivered /\ CodeWhileOut
  BY Distinct, ActorAssumption DEF Init, CashFollowsDelivery,
     DeliveredStaysDelivered, CodeWhileOut, Actors, Confirmed, Delivered
<1>3. SettlementsAddUp /\ UnusedCoverNothing
  BY MarkersAssumption DEF Init, SettlementsAddUp, UnusedCoverNothing
<1>4. MovesSound /\ SettlesSound
  BY DEF Init, MovesSound, SettlesSound, Moving, Settling
<1> QED
  BY <1>1, <1>2, <1>3, <1>4 DEF IInv

\* IInv holds in every reachable state.
THEOREM Invariance == Spec => []IInv
BY InitIInv, NextStep, PTL DEF Spec

\* The cash on record is that of the agent who entered the customer's code,
\* however reassignments and overrides interleave (verify_delivery_code).
THEOREM CashIsTheDeliverers == Spec => []CashFollowsDelivery
<1>1. IInv => CashFollowsDelivery
  BY DEF IInv
<1> QED
  BY <1>1, Invariance, PTL

\* Settlements of one agent that overlap claim each collection once, and each
\* claims what it summed up (CashService.settle_agent).
THEOREM SettlementsAreExact == Spec => []SettlementsAddUp
<1>1. IInv => SettlementsAddUp
  BY DEF IInv
<1> QED
  BY <1>1, Invariance, PTL

\* A delivery on record is not undone by a staff move that read the order
\* before it (update_status against verify_delivery_code).
THEOREM DeliveriesStand == Spec => []DeliveredStaysDelivered
<1>1. IInv => DeliveredStaysDelivered
  BY DEF IInv
<1> QED
  BY <1>1, Invariance, PTL

\* An order out for delivery, and no other, has a code the customer can read
\* out, whoever moved it there or away (update_status, verify_delivery_code).
THEOREM CodesGoOutWithOrders == Spec => []CodeWhileOut
<1>1. IInv => CodeWhileOut
  BY DEF IInv
<1> QED
  BY <1>1, Invariance, PTL

\* Only staff take an accepted order from its agent, and only before packing
\* does the agent give it back (DeliveryRepository.accept, release).
THEOREM AcceptedJobsAreKept == Spec => AcceptedJobKept
<1> DEFINE Kept == \A o \in Orders :
                     (agent[o] # NoAgent /\ agent'[o] # agent[o]) =>
                       \/ \E a \in Agents \cup {NoAgent} : Reassign(o, a)
                       \/ Release(agent[o], o)
<1>1. ASSUME IInv, Next PROVE Kept
  <2>1. agent \in [Orders -> Agents \cup {NoAgent}]
    BY <1>1, IInvParts DEF RowTypes
  <2>2. ASSUME NEW h \in Handlers, AcceptCommit(h) PROVE Kept
    BY <2>1, <2>2 DEF AcceptCommit
  <2>3. ASSUME NEW o \in Orders, NEW a \in Agents, Release(a, o) PROVE Kept
    BY <2>1, <2>3 DEF Release
  <2>4. ASSUME NEW o \in Orders, NEW a \in Agents \cup {NoAgent}, Reassign(o, a)
        PROVE  Kept
    <3>1. agent' = [agent EXCEPT ![o] = a]
      BY <2>4 DEF Reassign
    <3> QED
      BY <2>1, <2>4, <3>1
  <2>5. CASE UNCHANGED agent
    BY <2>5
  <2>6. \/ UNCHANGED agent
        \/ \E h \in Handlers : AcceptCommit(h)
        \/ \E o \in Orders, a \in Agents : Release(a, o)
        \/ \E o \in Orders, a \in Agents \cup {NoAgent} : Reassign(o, a)
    BY <1>1 DEF Next, Agent, StaffMember, Owner, Server, AcceptBegin, AgentMoveBegin,
       StaffMoveRead, SettleBegin, AgentMoveRead, MoveCommit, Moved, SettleLock,
       SettleCommit, Abort, CodeExpires, job
  <2> QED
    BY <2>2, <2>3, <2>4, <2>5, <2>6
<1>2. IInv /\ [Next]_vars => [Kept]_vars
  BY <1>1
<1> QED
  BY <1>2, Invariance, PTL DEF Spec, AcceptedJobKept

-----------------------------------------------------------------------------
(* The COD book.                                                            *)

\* An order without a collection is in no settlement.
LEMMA UncollectedUnsettled ==
  ASSUME RowTypes, RowsSound, NEW o \in Orders, collectedBy[o] = NoAgent
  PROVE  settledIn[o] = NoSettlement
<1> SUFFICES ASSUME settledIn[o] \in Settlements PROVE FALSE
  BY DEF RowTypes
<1>1. o \in covers[settledIn[o]]
  BY DEF RowsSound, SettlementsAddUp
<1>2. recipient[settledIn[o]] = NoAgent
  BY <1>1 DEF RowsSound, SettlementsAddUp
<1> QED
  BY <1>1, <1>2 DEF RowsSound, UnusedCoverNothing

\* A delivery against the code passes the cash to the agent, or moves none.
LEMMA MoveInBook ==
  ASSUME IInv, NEW h \in Handlers, MoveCommit(h)
  PROVE  [Book!Next]_holder
<1> DEFINE o == txn[h].order
           a == txn[h].by
<1>1. o \in Orders /\ UNCHANGED settledIn
  BY IInvParts, MoveKnows DEF MoveCommit, Moved
<1>2. \/ UNCHANGED collectedBy
      \/ /\ a \in Agents /\ collectedBy[o] = NoAgent
         /\ collectedBy' = [collectedBy EXCEPT ![o] = a]
  BY DEF MoveCommit, Moved, Collection, Verifying
<1> HIDE DEF o, a
<1>3. CASE UNCHANGED collectedBy
  BY <1>1, <1>3 DEF holder
<1>4. CASE /\ a \in Agents /\ collectedBy[o] = NoAgent
           /\ collectedBy' = [collectedBy EXCEPT ![o] = a]
  <2>1. settledIn[o] = NoSettlement
    BY <1>1, <1>4, IInvParts, UncollectedUnsettled
  <2>2. holder[o] = Customer
    BY <1>1, <1>4, <2>1 DEF holder
  <2>3. holder' = [holder EXCEPT ![o] = a]
    BY <1>1, <1>4, <2>1, IInvParts, ActorAssumption DEF holder, RowTypes, Actors
  <2> QED
    BY <1>1, <1>4, <2>2, <2>3 DEF Book!Next, Book!Collect
<1> QED
  BY <1>2, <1>3, <1>4

\* A settlement passes what it claims from its agent to the farm.
LEMMA SettleInBook ==
  ASSUME IInv, NEW h \in Handlers, NEW s \in Settlements, SettleCommit(h, s)
  PROVE  [Book!Next]_holder
<1> DEFINE mine == txn[h].rows
           a    == txn[h].agent
<1>1. mine \subseteq Orders /\ a \in Agents
  BY IInvParts, OpenTxn DEF SettleCommit, Settles
<1>2. /\ mine # {}
      /\ \A o \in mine : collectedBy[o] = a /\ settledIn[o] = NoSettlement
  BY IInvParts DEF SettleCommit, TxnsSound, SettlesSound, PendingCash
<1>3. /\ UNCHANGED collectedBy
      /\ settledIn' = [o \in Orders |-> IF o \in mine THEN s ELSE settledIn[o]]
  BY DEF SettleCommit
<1> HIDE DEF mine, a
<1>4. \A o \in mine : holder[o] = a
  BY <1>1, <1>2, ActorAssumption DEF holder, Actors
<1>5. holder' = [o \in Orders |-> IF o \in mine THEN Farm ELSE holder[o]]
  BY <1>1, <1>3, MarkersAssumption DEF holder
<1> QED
  BY <1>1, <1>2, <1>4, <1>5 DEF Book!Next, Book!HandOver

\* Every behaviour of Spec is one of the COD book: the cash of an order passes
\* from the customer to the agent who delivers and from that agent to the farm.
THEOREM CodCashImplemented == Spec => ImplementsCodCash
<1>1. Init => Book!Init
  BY DEF Init, Book!Init, holder
<1>2. IInv /\ [Next]_vars => [Book!Next]_holder
  <2>1. ASSUME IInv, Next,
               ~ \E h \in Handlers : MoveCommit(h),
               ~ \E h \in Handlers, s \in Settlements : SettleCommit(h, s)
        PROVE  UNCHANGED holder
    BY <2>1, OtherStep DEF cash, holder
  <2>2. ASSUME UNCHANGED vars
        PROVE  UNCHANGED holder
    BY <2>2 DEF vars, cash, holder
  <2> QED
    BY <2>1, <2>2, MoveInBook, SettleInBook
<1> QED
  BY <1>1, <1>2, Invariance, PTL DEF Spec, ImplementsCodCash, Book!Spec
=============================================================================
