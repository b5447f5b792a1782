------------------------------ MODULE Delivery ------------------------------
(***************************************************************************)
(* Placed orders on their way to the customer: who delivers an order, the  *)
(* code that proves the delivery, the cash an agent takes for a COD order  *)
(* and the settlement that hands it to the farm.                           *)
(*                                                                         *)
(* A request is one READ COMMITTED transaction.  It reads without locks    *)
(* and then writes with one compare-and-swap on the order's row, so its    *)
(* reads are steps of their own and its writes are one step, its commit.   *)
(* A settlement keeps its cod_collections rows locked (FOR UPDATE).        *)
(***************************************************************************)
EXTENDS OrderState, Naturals, FiniteSets

CONSTANTS
  Orders, Agents,
  Settlements,   \* ids of cash_settlements rows
  Handlers,      \* requests the server can have in progress at once
  Cap,           \* _MAX_CONCURRENT_ORDERS
  Staff,         \* the actor of the admin routes
  Customer, Farm, NoAgent, NoSettlement, NotRead, Idle

Actors == Agents \cup {Staff}

\* The statuses an order of this module goes through.
Ongoing == {Confirmed, Packed, OutForDelivery}
Placed  == Statuses \ {Pending}

\* Open requests, with what they have read.  A move is update_status, or
\* verify_delivery when an agent moves an order to Delivered.
Accepts == [op : {"accept"}, by : Agents, order : Orders]
Moves   == [op : {"move"}, by : Actors, order : Orders, to : Placed,
            seen : Placed \cup {NotRead}]
Settles == [op : {"settle"}, agent : Agents, rows : SUBSET Orders,
            locked : BOOLEAN]

ASSUME CapAssumption     == Cap \in Nat
ASSUME ActorAssumption   == Staff \notin Agents /\ NoAgent \notin Actors
ASSUME HolderAssumption  == Customer # Farm /\ {Customer, Farm} \cap Agents = {}
ASSUME MarkersAssumption == /\ NoSettlement \notin Settlements
                            /\ NotRead \notin Statuses
                            /\ Idle \notin Accepts \cup Moves \cup Settles

VARIABLES
  method,       \* payments.method
  status,       \* orders.status
  agent,        \* orders.delivery_agent_id
  code,         \* orders.delivery_otp_*
  deliveredBy,  \* order_events.by of the event "delivered"
  captured,     \* payments.status is captured (COD orders)
  collectedBy,  \* cod_collections.agent_id, NoAgent without a row
  settledIn,    \* cod_collections.settlement_id
  covers,       \* the orders summed up in a cash_settlements row
  recipient,    \* cash_settlements.agent_id, NoAgent without a row
  txn           \* the request each handler is working on

job  == <<method, status, agent, code, deliveredBy>>
cash == <<captured, collectedBy, settledIn, covers, recipient>>
vars == <<job, cash, txn>>

TypeOK ==
  /\ method      \in [Orders -> {"cod", "online"}]
  /\ status      \in [Orders -> Placed]
  /\ agent       \in [Orders -> Agents \cup {NoAgent}]
  /\ code        \in [Orders -> {"none", "live", "expired"}]
  /\ deliveredBy \in [Orders -> Actors \cup {NoAgent}]
  /\ captured    \in [Orders -> BOOLEAN]
  /\ collectedBy \in [Orders -> Agents \cup {NoAgent}]
  /\ settledIn   \in [Orders -> Settlements \cup {NoSettlement}]
  /\ covers      \in [Settlements -> SUBSET Orders]
  /\ recipient   \in [Settlements -> Agents \cup {NoAgent}]
  /\ txn         \in [Handlers -> Accepts \cup Moves \cup Settles \cup {Idle}]

\* Orders as they come from the checkout or from a captured payment.
Init ==
  /\ method      \in [Orders -> {"cod", "online"}]
  /\ status      = [o \in Orders |-> Confirmed]
  /\ agent       = [o \in Orders |-> NoAgent]
  /\ code        = [o \in Orders |-> "none"]
  /\ deliveredBy = [o \in Orders |-> NoAgent]
  /\ captured    = [o \in Orders |-> FALSE]
  /\ collectedBy = [o \in Orders |-> NoAgent]
  /\ settledIn   = [o \in Orders |-> NoSettlement]
  /\ covers      = [s \in Settlements |-> {}]
  /\ recipient   = [s \in Settlements |-> NoAgent]
  /\ txn         = [h \in Handlers |-> Idle]

-----------------------------------------------------------------------------
(* Transactions.                                                            *)

Accepting(h) == txn[h] # Idle /\ txn[h].op = "accept"
Moving(h)    == txn[h] # Idle /\ txn[h].op = "move"
Settling(h)  == txn[h] # Idle /\ txn[h].op = "settle"

Open(h, t) == txn[h] = Idle /\ txn' = [txn EXCEPT ![h] = t]
Close(h)   == txn' = [txn EXCEPT ![h] = Idle]

\* A request that is refused, fails or dies: nothing it wrote remains.  A
\* wrong delivery code ends here too: the attempt it counted is rolled back
\* with the Conflict that reports it.
Abort(h) ==
  /\ txn[h] # Idle
  /\ Close(h)
  /\ UNCHANGED <<job, cash>>

-----------------------------------------------------------------------------
(* Who delivers an order.                                                   *)

\* count_ongoing
Load(a) == Cardinality({o \in Orders : agent[o] = a /\ status[o] \in Ongoing})

\* DeliveryService.accept counts what the agent has in progress.
AcceptBegin(h, a, o) ==
  /\ Load(a) < Cap
  /\ Open(h, [op |-> "accept", by |-> a, order |-> o])
  /\ UNCHANGED <<job, cash>>

\* Mutant: the compare-and-swap without "delivery_agent_id IS NULL".
AcceptCommitBlind(h) ==
  /\ Accepting(h)
  /\ status[txn[h].order] = Confirmed
  /\ agent' = [agent EXCEPT ![txn[h].order] = txn[h].by]
  /\ Close(h)
  /\ UNCHANGED <<method, status, code, deliveredBy, cash>>

\* DeliveryRepository.accept
AcceptCommit(h) ==
  /\ Accepting(h)
  /\ agent[txn[h].order] = NoAgent
  /\ status[txn[h].order] = Confirmed
  /\ agent' = [agent EXCEPT ![txn[h].order] = txn[h].by]
  /\ Close(h)
  /\ UNCHANGED <<method, status, code, deliveredBy, cash>>

\* The agent who has the order gives it back before it is packed.
Release(a, o) ==
  /\ agent[o] = a
  /\ status[o] = Confirmed
  /\ agent' = [agent EXCEPT ![o] = NoAgent]
  /\ UNCHANGED <<method, status, code, deliveredBy, cash, txn>>

\* Staff give the order to an agent, or to none, whatever the agent's load.
Reassign(o, a) ==
  /\ status[o] \in Ongoing
  /\ agent' = [agent EXCEPT ![o] = a]
  /\ UNCHANGED <<method, status, code, deliveredBy, cash, txn>>

-----------------------------------------------------------------------------
(* The status of an order, its code and its cash.                           *)

\* _AGENT_ALLOWED_STATUSES, and Delivered by way of verify_delivery.
AgentTargets == {Packed, OutForDelivery, Delivered}

\* get_one: the order is the agent's.
AgentMoveBegin(h, a, o, to) ==
  /\ to \in AgentTargets
  /\ agent[o] = a
  /\ Open(h, [op |-> "move", by |-> a, order |-> o, to |-> to,
              seen |-> NotRead])
  /\ UNCHANGED <<job, cash>>

\* An agent has entered the customer's code.
Verifying(h) == txn[h].by \in Agents /\ txn[h].to = Delivered

\* update_status reads the order and asserts the transition, and before it
\* verify_delivery_code looks for a code that has not expired.
AgentMoveRead(h) ==
  /\ Moving(h) /\ txn[h].seen = NotRead
  /\ CanTransition(status[txn[h].order], txn[h].to)
  /\ Verifying(h) => code[txn[h].order] = "live"
  /\ txn' = [txn EXCEPT ![h].seen = status[txn[h].order]]
  /\ UNCHANGED <<job, cash>>

\* The same for the admin route, which looks at nothing before.
StaffMoveRead(h, o, to) ==
  /\ CanTransition(status[o], to)
  /\ Open(h, [op |-> "move", by |-> Staff, order |-> o, to |-> to,
              seen |-> status[o]])
  /\ UNCHANGED <<job, cash>>

\* Mutant: _cancel without _CLEARED_DELIVERY_OTP.
SetCodeKept(o, to) ==
  code' = [code EXCEPT ![o] = IF to = OutForDelivery THEN "live"
                              ELSE IF to = Delivered THEN "none" ELSE @]

\* extra_set: a code comes with OutForDelivery and goes with what follows.
SetCode(o, to) ==
  code' = [code EXCEPT ![o] = IF to = OutForDelivery THEN "live"
                              ELSE IF to = Packed THEN @ ELSE "none"]

\* Mutant: the collection is booked on the order's agent, not on the actor.
CollectFromOwner(h) ==
  LET o == txn[h].order IN
  IF Verifying(h) /\ method[o] = "cod" /\ collectedBy[o] = NoAgent
  THEN /\ collectedBy' = [collectedBy EXCEPT ![o] = agent[o]]
       /\ captured'    = [captured EXCEPT ![o] = TRUE]
  ELSE UNCHANGED <<collectedBy, captured>>

\* Mutant: a refund takes the collection back.
CollectionUndone(h) ==
  LET o == txn[h].order IN
  /\ collectedBy' = [collectedBy EXCEPT ![o] =
       IF Verifying(h) /\ method[o] = "cod" THEN txn[h].by
       ELSE IF txn[h].to = Refunded THEN NoAgent ELSE @]
  /\ captured' = [captured EXCEPT ![o] = collectedBy'[o] # NoAgent]

\* record_collection, ON CONFLICT DO NOTHING, and set_payment_status.
Collection(h) ==
  LET o == txn[h].order IN
  IF Verifying(h) /\ method[o] = "cod" /\ collectedBy[o] = NoAgent
  THEN /\ collectedBy' = [collectedBy EXCEPT ![o] = txn[h].by]
       /\ captured'    = [captured EXCEPT ![o] = TRUE]
  ELSE UNCHANGED <<collectedBy, captured>>

\* The compare-and-swap has won: the order, its event, its code, its cash.
Moved(h) ==
  LET o == txn[h].order IN
  /\ status' = [status EXCEPT ![o] = txn[h].to]
  /\ deliveredBy' = [deliveredBy EXCEPT ![o] =
                       IF txn[h].to = Delivered THEN txn[h].by ELSE @]
  /\ SetCode(o, txn[h].to)
  /\ Collection(h)
  /\ Close(h)
  /\ UNCHANGED <<method, agent, settledIn, covers, recipient>>

\* Mutant: the update without the expected status.
MoveCommitBlind(h) ==
  /\ Moving(h) /\ txn[h].seen # NotRead
  /\ Moved(h)

\* OrderRepository.transition and what follows it; _cancel the same.
MoveCommit(h) ==
  /\ Moving(h) /\ txn[h].seen # NotRead
  /\ status[txn[h].order] = txn[h].seen
  /\ Moved(h)

\* DELIVERY_OTP_TTL has passed.
CodeExpires(o) ==
  /\ code[o] = "live"
  /\ code' = [code EXCEPT ![o] = "expired"]
  /\ UNCHANGED <<method, status, agent, deliveredBy, cash, txn>>

-----------------------------------------------------------------------------
(* Settlement.                                                              *)

\* The rows pending_for_agent looks for.
PendingCash(a) ==
  {o \in Orders : collectedBy[o] = a /\ settledIn[o] = NoSettlement}

\* Another settlement holds the row of o.
RowLocked(h, o) ==
  \E g \in Handlers \ {h} : Settling(g) /\ txn[g].locked /\ o \in txn[g].rows

\* pending_for_agent starts: the rows in the snapshot of its statement.
\* Without any the request is refused.
SettleBegin(h, a) ==
  /\ PendingCash(a) # {}
  /\ Open(h, [op |-> "settle", agent |-> a, rows |-> PendingCash(a),
              locked |-> FALSE])
  /\ UNCHANGED <<job, cash>>

\* Mutant: the query without FOR UPDATE.
SettleLockNone(h) ==
  /\ Settling(h) /\ ~txn[h].locked
  /\ txn[h].rows # {}
  /\ txn' = [txn EXCEPT ![h].locked = TRUE]
  /\ UNCHANGED <<job, cash>>

\* FOR UPDATE has waited for other settlements and drops the rows they have
\* claimed; with none left the request is refused.
SettleLock(h) ==
  /\ Settling(h) /\ ~txn[h].locked
  /\ \A o \in txn[h].rows : ~RowLocked(h, o)
  /\ LET found == txn[h].rows \cap PendingCash(txn[h].agent) IN
     /\ found # {}
     /\ txn' = [txn EXCEPT ![h].rows = found, ![h].locked = TRUE]
  /\ UNCHANGED <<job, cash>>

\* insert_settlement and claim_for_settlement.
SettleCommit(h, s) ==
  /\ Settling(h) /\ txn[h].locked
  /\ recipient[s] = NoAgent
  /\ recipient' = [recipient EXCEPT ![s] = txn[h].agent]
  /\ covers'    = [covers EXCEPT ![s] = txn[h].rows]
  /\ settledIn' = [o \in Orders |-> IF o \in txn[h].rows THEN s
                                    ELSE settledIn[o]]
  /\ Close(h)
  /\ UNCHANGED <<job, captured, collectedBy>>

-----------------------------------------------------------------------------

Agent(a, o) ==
  \/ Release(a, o)
  \/ \E h \in Handlers :
       \/ AcceptBegin(h, a, o)
       \/ \E to \in AgentTargets : AgentMoveBegin(h, a, o, to)

StaffMember(o) ==
  \/ \E a \in Agents \cup {NoAgent} : Reassign(o, a)
  \/ \E h \in Handlers, to \in Placed : StaffMoveRead(h, o, to)

Owner(h) == \E a \in Agents : SettleBegin(h, a)

Server(h) ==
  \/ AcceptCommit(h)
  \/ AgentMoveRead(h)
  \/ MoveCommit(h)
  \/ SettleLock(h)
  \/ \E s \in Settlements : SettleCommit(h, s)
  \/ Abort(h)

Next ==
  \/ \E a \in Agents, o \in Orders : Agent(a, o)
  \/ \E o \in Orders : StaffMember(o) \/ CodeExpires(o)
  \/ \E h \in Handlers : Owner(h) \/ Server(h)

Spec == Init /\ [][Next]_vars
-----------------------------------------------------------------------------

\* An agent has cash on record exactly for the COD orders that agent delivered
\* against the customer's code, whoever held the order by then, and those
\* payments count as captured (verify_delivery_code; a staff override to
\* Delivered records nothing).
CashFollowsDelivery ==
  \A o \in Orders :
    /\ collectedBy[o] = IF method[o] = "cod" /\ deliveredBy[o] \in Agents
                        THEN deliveredBy[o] ELSE NoAgent
    /\ captured[o] <=> collectedBy[o] # NoAgent

\* What was delivered stays delivered, or is refunded as such: a staff cancel
\* that races the customer's code does not leave an order cancelled whose cash
\* is on record.
DeliveredStaysDelivered ==
  \A o \in Orders :
    /\ deliveredBy[o] # NoAgent => status[o] \in {Delivered, Refunded}
    /\ status[o] = Delivered => deliveredBy[o] # NoAgent

\* Every settlement claims just the collections it summed up, all of its
\* agent, though settlements of one agent overlap (pending_for_agent).
SettlementsAddUp ==
  \A s \in Settlements :
    /\ covers[s] = {o \in Orders : settledIn[o] = s}
    /\ \A o \in covers[s] : collectedBy[o] = recipient[s]

\* An order has a delivery code exactly while it is out for delivery.
CodeWhileOut ==
  \A o \in Orders : code[o] # "none" <=> status[o] = OutForDelivery

\* An accepted order is the agent's until staff reassign it or the agent gives
\* it back before packing: no other agent's accept takes it.
AcceptedJobKept ==
  [][\A o \in Orders :
       (agent[o] # NoAgent /\ agent'[o] # agent[o]) =>
         \/ \E a \in Agents \cup {NoAgent} : Reassign(o, a)
         \/ Release(agent[o], o)]_vars

\* The hand the cash of an order is in.
holder == [o \in Orders |-> IF settledIn[o] # NoSettlement THEN Farm
                            ELSE IF collectedBy[o] # NoAgent THEN collectedBy[o]
                            ELSE Customer]

Book == INSTANCE CodCash

\* The COD book: cash passes from customer to agent to farm, once each.
ImplementsCodCash == Book!Spec

-----------------------------------------------------------------------------
(* The inductive invariant.                                                 *)

\* A move is along an edge of the graph, from the status it has read.
MovesSound ==
  \A h \in Handlers :
    Moving(h) /\ txn[h].seen # NotRead => CanTransition(txn[h].seen, txn[h].to)

\* What a settlement has locked is its agent's, unclaimed and its own.
SettlesSound ==
  \A h \in Handlers :
    Settling(h) /\ txn[h].locked =>
      /\ txn[h].rows # {}
      /\ txn[h].rows \subseteq PendingCash(txn[h].agent)
      /\ \A o \in txn[h].rows : ~RowLocked(h, o)

\* A settlement without a row claims nothing.
UnusedCoverNothing ==
  \A s \in Settlements : recipient[s] = NoAgent => covers[s] = {}

IInv ==
  /\ TypeOK
  /\ CashFollowsDelivery
  /\ DeliveredStaysDelivered
  /\ SettlementsAddUp
  /\ CodeWhileOut
  /\ MovesSound
  /\ SettlesSound
  /\ UnusedCoverNothing
=============================================================================
