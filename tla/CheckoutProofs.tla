--------------------------- MODULE CheckoutProofs ---------------------------
(***************************************************************************)
(* Checkout keeps its invariant for any number of variants, keys, orders   *)
(* and checkouts in progress, whatever the carts and the cap.              *)
(***************************************************************************)
EXTENDS Checkout, FiniteSums, TLAPS

\* What the transaction x of handler h must satisfy next to the others.
ApartFromOthers(h, x) ==
  /\ claim[x.key] = NoOrder
  /\ status[x.order] = "unused"
  /\ \A g \in Handlers \ {h} : Busy(g) => txn[g].key # x.key /\ txn[g].order # x.order

\* What it has read and taken.
TakesAsRead(h, x) ==
  /\ x.step # "claimed" => x.tracked = {s \in Skus : policy[s] = "tracked"}
  /\ x.step \in {"reserved", "written"} =>
       /\ x.took = Lines(x.req.cart) \cap x.tracked
       /\ \A s \in x.took : stock[s] >= x.req.cart[s]
       /\ \A g \in Handlers \ {h} : Holding(g) => txn[g].took \cap x.took = {}

\* An open transaction is a record of the right kind.
LEMMA OpenTxn ==
  ASSUME TypeOK, NEW h \in Handlers, Busy(h)
  PROVE  /\ txn[h] \in Txn
         /\ txn[h].key \in Keys /\ txn[h].order \in Orders /\ txn[h].req \in Request
         /\ txn[h].req.cart \in [Skus -> Nat]
         /\ txn[h].tracked \subseteq Skus /\ txn[h].took \subseteq Skus
BY CartsAssumption DEF TypeOK, Busy, Txn, Request

-----------------------------------------------------------------------------
(* Steps of a transaction that commit nothing.                              *)

\* A transaction may move to x if x is apart from the others and has taken
\* what it says.
LEMMA TxnStep ==
  ASSUME IInv, NEW h \in Handlers, NEW x \in Txn,
         UNCHANGED <<shelf, book>>,
         link' \in [Orders -> {"none", "open", "cancelled"}],
         txn' = [txn EXCEPT ![h] = x],
         ApartFromOthers(h, x), TakesAsRead(h, x)
  PROVE  IInv'
<1> USE DEF IInv, shelf, book
<1>1. TypeOK'
  BY DEF TypeOK
<1>2. KeyNamesOneOrder'
  BY DEF KeyNamesOneOrder
<1>3. txn'[h] = x /\ \A g \in Handlers \ {h} : txn'[g] = txn[g]
  BY DEF TypeOK
<1>4. \A g \in Handlers \ {h} : (Busy(g)' <=> Busy(g)) /\ (Holding(g)' <=> Holding(g))
  BY <1>3 DEF Busy, Holding
<1>5. Holding(h)' => x.step \in {"reserved", "written"}
  BY <1>3 DEF Holding, Busy
<1>6. ReservationsHold'
  <2> SUFFICES ASSUME NEW e \in Handlers, NEW f \in Handlers, Holding(f)'
               PROVE  /\ \A s \in txn'[f].took : stock[s] >= txn'[f].req.cart[s]
                      /\ Holding(e)' /\ e # f => txn'[e].took \cap txn'[f].took = {}
    BY DEF ReservationsHold
  <2>1. CASE f = h
    BY <2>1, <1>3, <1>4, <1>5 DEF TakesAsRead
  <2>2. CASE f # h /\ e = h
    BY <2>2, <1>3, <1>4, <1>5 DEF TakesAsRead, ReservationsHold
  <2>3. CASE f # h /\ e # h
    BY <2>3, <1>3, <1>4 DEF ReservationsHold
  <2> QED
    BY <2>1, <2>2, <2>3
<1>7. ClaimsApart'
  BY <1>3, <1>4 DEF ClaimsApart, ApartFromOthers
<1>8. EntriesAsTaken'
  BY <1>3, <1>4, <1>5 DEF EntriesAsTaken, TakesAsRead
<1>9. LedgerMatchesStock' /\ OrdersHaveRequests'
  BY DEF LedgerMatchesStock, OrdersHaveRequests
<1> QED
  BY <1>1, <1>2, <1>6, <1>7, <1>8, <1>9

\* The step of a transaction that is already open.
LEMMA AdvanceStep ==
  ASSUME IInv, NEW h \in Handlers, Busy(h), NEW x \in Txn,
         UNCHANGED <<shelf, book>>,
         link' \in [Orders -> {"none", "open", "cancelled"}],
         txn' = [txn EXCEPT ![h] = x],
         x.key = txn[h].key, x.order = txn[h].order, TakesAsRead(h, x)
  PROVE  IInv'
<1>1. ApartFromOthers(h, x)
  BY DEF IInv, ClaimsApart, ApartFromOthers
<1> QED
  BY <1>1, TxnStep

\* A transaction that ends without a commit leaves the others as they were.
LEMMA CloseStep ==
  ASSUME IInv, NEW h \in Handlers, Close(h),
         UNCHANGED <<shelf, book>>,
         link' \in [Orders -> {"none", "open", "cancelled"}]
  PROVE  IInv'
<1> USE DEF IInv, shelf, book
<1>1. TypeOK'
  BY DEF TypeOK, Close
<1>2. KeyNamesOneOrder' /\ LedgerMatchesStock' /\ OrdersHaveRequests'
  BY DEF KeyNamesOneOrder, LedgerMatchesStock, OrdersHaveRequests
<1>3. ~Busy(h)' /\ \A g \in Handlers \ {h} : txn'[g] = txn[g]
  BY DEF TypeOK, Close, Busy
<1>4. ReservationsHold'
  BY <1>3 DEF ReservationsHold, Holding, Busy
<1>5. ClaimsApart'
  BY <1>3 DEF ClaimsApart, Busy
<1>6. EntriesAsTaken'
  BY <1>3 DEF EntriesAsTaken, Holding, Busy
<1> QED
  BY <1>1, <1>2, <1>4, <1>5, <1>6

\* The steps of a checkout before its commit.
LEMMA OpenCheckoutStep ==
  ASSUME IInv, NEW h \in Handlers,
         \/ \E k \in Keys, r \in Request, o \in Orders : Claim(h, k, r, o)
         \/ Price(h) \/ OpenLink(h) \/ Reserve(h) \/ WriteOrder(h)
         \/ Abandon(h) \/ CommitFails(h)
  PROVE  IInv'
<1> USE DEF At
<1>0. TypeOK
  BY DEF IInv
<1>1. ASSUME NEW k \in Keys, NEW r \in Request, NEW o \in Orders, Claim(h, k, r, o)
      PROVE  IInv'
  <2> DEFINE x == [key |-> k, req |-> r, order |-> o, step |-> "claimed",
                   tracked |-> {}, took |-> {}]
  <2>1. x \in Txn
    BY DEF Txn
  <2>2. ApartFromOthers(h, x)
    BY <1>1 DEF Claim, ApartFromOthers, Claimed, Fresh
  <2>3. TakesAsRead(h, x)
    BY DEF TakesAsRead
  <2>4. txn' = [txn EXCEPT ![h] = x] /\ UNCHANGED <<shelf, book, link>>
    BY <1>1 DEF Claim
  <2> QED
    BY <1>0, <2>1, <2>2, <2>3, <2>4, TxnStep DEF TypeOK
<1>2. CASE Price(h)
  <2> DEFINE x == [txn[h] EXCEPT !.step = "priced",
                                 !.tracked = {s \in Skus : policy[s] = "tracked"}]
  <2>1. Busy(h) /\ txn' = [txn EXCEPT ![h] = x] /\ UNCHANGED <<shelf, book, link>>
    BY <1>2 DEF Price
  <2>2. x \in Txn /\ x.key = txn[h].key /\ x.order = txn[h].order /\ x.step = "priced"
        /\ x.tracked = {s \in Skus : policy[s] = "tracked"}
    BY <1>0, <2>1, OpenTxn DEF Txn
  <2>3. TakesAsRead(h, x)
    BY <2>2 DEF TakesAsRead
  <2> HIDE DEF x
  <2> QED
    BY <1>0, <2>1, <2>2, <2>3, AdvanceStep DEF TypeOK
<1>3. CASE OpenLink(h)
  <2> DEFINE x == [txn[h] EXCEPT !.step = "linked"]
  <2>1. Busy(h) /\ txn' = [txn EXCEPT ![h] = x] /\ UNCHANGED <<shelf, book>>
    BY <1>3 DEF OpenLink
  <2>2. x \in Txn /\ x.key = txn[h].key /\ x.order = txn[h].order /\ x.step = "linked"
        /\ x.tracked = txn[h].tracked
    BY <1>0, <2>1, OpenTxn DEF Txn
  <2>3. TakesAsRead(h, x)
    BY <1>3, <2>1, <2>2 DEF TakesAsRead, OpenLink, IInv, EntriesAsTaken
  <2>4. link' \in [Orders -> {"none", "open", "cancelled"}]
    BY <1>0, <1>3 DEF OpenLink, TypeOK
  <2> HIDE DEF x
  <2> QED
    BY <2>1, <2>2, <2>3, <2>4, AdvanceStep
<1>4. CASE Reserve(h)
  <2> DEFINE lines == Lines(txn[h].req.cart)
             x == [txn[h] EXCEPT !.step = "reserved",
                                 !.took = {s \in lines : policy[s] = "tracked"}]
  <2>1. Busy(h) /\ txn' = [txn EXCEPT ![h] = x] /\ UNCHANGED <<shelf, book, link>>
    BY <1>4 DEF Reserve
  <2>2. x \in Txn /\ x.key = txn[h].key /\ x.order = txn[h].order /\ x.step = "reserved"
        /\ x.req = txn[h].req /\ x.tracked = txn[h].tracked
        /\ x.took = {s \in lines : policy[s] = "tracked"}
    BY <1>0, <2>1, OpenTxn DEF Txn, Lines
  <2>3. txn[h].step # "claimed"
    BY <1>4 DEF Reserve, ReadyToReserve
  <2>4. x.tracked = {s \in Skus : policy[s] = "tracked"}
    BY <2>1, <2>2, <2>3 DEF IInv, EntriesAsTaken
  <2>5. \A s \in x.took : stock[s] >= x.req.cart[s]
    BY <1>4, <2>2 DEF Reserve, Sellable
  <2>6. \A g \in Handlers : Holding(g) => txn[g].took \cap x.took = {}
    BY <1>4, <2>2 DEF Reserve, RowLocked
  <2>7. TakesAsRead(h, x)
    <3>1. x.took = lines \cap x.tracked
      BY <2>2, <2>4 DEF Lines
    <3> HIDE DEF x
    <3> QED
      BY <2>2, <2>4, <2>5, <2>6, <3>1 DEF TakesAsRead
  <2> HIDE DEF x
  <2> QED
    BY <1>0, <2>1, <2>2, <2>7, AdvanceStep DEF TypeOK
<1>5. CASE WriteOrder(h)
  <2> DEFINE x == [txn[h] EXCEPT !.step = "written"]
  <2>1. Busy(h) /\ txn' = [txn EXCEPT ![h] = x] /\ UNCHANGED <<shelf, book, link>>
    BY <1>5 DEF WriteOrder
  <2>2. x \in Txn /\ x.key = txn[h].key /\ x.order = txn[h].order
        /\ x.req = txn[h].req /\ x.tracked = txn[h].tracked /\ x.took = txn[h].took
    BY <1>0, <2>1, OpenTxn DEF Txn
  <2>3. Holding(h)
    BY <1>5 DEF WriteOrder, Holding
  <2>4. TakesAsRead(h, x)
    <3>1. x.tracked = {s \in Skus : policy[s] = "tracked"}
          /\ x.took = Lines(x.req.cart) \cap x.tracked
      BY <2>1, <2>2, <2>3 DEF IInv, EntriesAsTaken, Holding
    <3>2. \A s \in x.took : stock[s] >= x.req.cart[s]
      BY <2>2, <2>3 DEF IInv, ReservationsHold
    <3>3. \A g \in Handlers \ {h} : Holding(g) => txn[g].took \cap x.took = {}
      BY <2>2, <2>3 DEF IInv, ReservationsHold
    <3> HIDE DEF x
    <3> QED
      BY <3>1, <3>2, <3>3 DEF TakesAsRead
  <2> HIDE DEF x
  <2> QED
    BY <1>0, <2>1, <2>2, <2>4, AdvanceStep DEF TypeOK
<1>6. CASE Abandon(h)
  <2>1. link' \in [Orders -> {"none", "open", "cancelled"}]
    BY <1>0, <1>6 DEF Abandon, TypeOK
  <2> QED
    BY <1>6, <2>1, CloseStep DEF Abandon
<1>7. CASE CommitFails(h)
  BY <1>0, <1>7, CloseStep DEF CommitFails, TypeOK
<1> QED
  BY <1>1, <1>2, <1>3, <1>4, <1>5, <1>6, <1>7

-----------------------------------------------------------------------------
(* The commit.                                                              *)

\* The commit names one order for its key, leaves the other reservations what
\* they have taken, and enters in the ledger what it takes from the shelf.
LEMMA PlaceStep ==
  ASSUME IInv, NEW h \in Handlers, PlaceOrder(h)
  PROVE  IInv'
<1> DEFINE t == txn[h]
<1>0. TypeOK /\ Busy(h) /\ Holding(h) /\ t.step = "written"
  BY DEF IInv, PlaceOrder, At, Holding
<1>1. t \in Txn /\ t.key \in Keys /\ t.order \in Orders /\ t.req \in Request
      /\ t.req.cart \in [Skus -> Nat] /\ t.took \subseteq Skus
  BY <1>0, OpenTxn
<1>2. claim[t.key] = NoOrder /\ status[t.order] = "unused"
  BY <1>0 DEF IInv, ClaimsApart
<1>3. \A s \in t.took : stock[s] >= t.req.cart[s]
  BY <1>0 DEF IInv, ReservationsHold
<1>4. ~Busy(h)' /\ \A g \in Handlers \ {h} : txn'[g] = txn[g]
  BY <1>0 DEF PlaceOrder, Close, TypeOK, Busy
<1>5. stock'  = [s \in Skus |-> IF s \in t.took THEN stock[s] - t.req.cart[s] ELSE stock[s]]
      /\ ledger' = [s \in Skus |-> IF s \in t.tracked THEN ledger[s] - t.req.cart[s]
                                   ELSE ledger[s]]
      /\ policy' = policy
  BY DEF PlaceOrder
<1>6. status' = [status EXCEPT ![t.order] = "live"]
      /\ placed' = [placed EXCEPT ![t.order] = t.req]
      /\ claim'  = [claim EXCEPT ![t.key] = t.order]
      /\ told'   = told \cup {<<t.key, t.req, t.order>>}
  BY DEF PlaceOrder
<1>7. UNCHANGED <<active, screen, counted, link>> /\ txn' = [txn EXCEPT ![h] = Idle]
  BY DEF PlaceOrder, Close
<1> HIDE DEF t
<1>8. TypeOK'
  <2>1. stock' \in [Skus -> Nat]
    BY <1>0, <1>1, <1>3, <1>5 DEF TypeOK
  <2>2. ledger' \in [Skus -> Int]
    BY <1>0, <1>1, <1>5 DEF TypeOK
  <2>3. told' \subseteq Keys \X Request \X Orders
    BY <1>0, <1>1, <1>6 DEF TypeOK
  <2>4. status' \in [Orders -> {"unused", "live", "delivered", "over"}]
        /\ placed' \in [Orders -> Request \cup {NoRequest}]
        /\ claim' \in [Keys -> Orders \cup {NoOrder}]
    BY <1>0, <1>1, <1>6 DEF TypeOK
  <2>5. txn' \in [Handlers -> Txn \cup {Idle}]
    BY <1>0, <1>7 DEF TypeOK
  <2> QED
    BY <1>0, <1>5, <1>7, <2>1, <2>2, <2>3, <2>4, <2>5 DEF TypeOK
<1>9. KeyNamesOneOrder'
  <2>0. KeyNamesOneOrder
    BY DEF IInv
  <2>1. \A k \in Keys : claim[k] # t.order
    BY <1>1, <1>2, <2>0, SentinelAssumption DEF KeyNamesOneOrder
  <2>2. \A k \in Keys : claim'[k] = IF k = t.key THEN t.order ELSE claim[k]
    BY <1>0, <1>1, <1>6 DEF TypeOK
  <2>3. \A o \in Orders : /\ status'[o] = IF o = t.order THEN "live" ELSE status[o]
                          /\ placed'[o] = IF o = t.order THEN t.req ELSE placed[o]
    BY <1>0, <1>1, <1>6 DEF TypeOK
  <2>4. \A k \in Keys : claim'[k] # NoOrder => status'[claim'[k]] # "unused"
    BY <1>0, <1>1, <2>0, <2>2, <2>3 DEF KeyNamesOneOrder, TypeOK
  <2>5. ASSUME NEW a \in told' PROVE a[3] = claim'[a[1]] /\ a[2] = placed'[a[3]]
    <3>1. CASE a = <<t.key, t.req, t.order>>
      BY <1>1, <2>2, <2>3, <3>1
    <3>2. CASE a \in told
      <4>1. a[1] \in Keys /\ a[3] \in Orders /\ a[3] = claim[a[1]] /\ a[2] = placed[a[3]]
        BY <1>0, <2>0, <3>2 DEF TypeOK, KeyNamesOneOrder
      <4> QED
        BY <1>2, <2>1, <2>2, <2>3, <4>1, SentinelAssumption
    <3> QED
      BY <1>6, <2>5, <3>1, <3>2
  <2>6. \A o \in Orders : status'[o] # "unused" => \E k \in Keys : claim'[k] = o
    <3> SUFFICES ASSUME NEW o \in Orders, status'[o] # "unused"
                 PROVE  \E k \in Keys : claim'[k] = o
      OBVIOUS
    <3>1. CASE o = t.order
      BY <1>1, <2>2, <3>1
    <3>2. CASE o # t.order
      <4>1. PICK k \in Keys : claim[k] = o
        BY <2>0, <2>3, <3>2 DEF KeyNamesOneOrder
      <4> QED
        BY <1>2, <2>2, <4>1, SentinelAssumption
    <3> QED
      BY <3>1, <3>2
  <2>7. \A k, l \in Keys : (claim'[k] = claim'[l] /\ claim'[k] # NoOrder) => k = l
    BY <2>0, <2>1, <2>2 DEF KeyNamesOneOrder
  <2> QED
    BY <2>4, <2>5, <2>6, <2>7 DEF KeyNamesOneOrder
<1>10. ReservationsHold'
  <2> SUFFICES ASSUME NEW e \in Handlers, NEW f \in Handlers, Holding(f)'
               PROVE  /\ \A s \in txn'[f].took : stock'[s] >= txn'[f].req.cart[s]
                      /\ Holding(e)' /\ e # f => txn'[e].took \cap txn'[f].took = {}
    BY DEF ReservationsHold
  <2>1. f # h /\ txn'[f] = txn[f] /\ Holding(f)
    BY <1>4 DEF Holding, Busy
  <2>2. txn[f].took \cap t.took = {}
    BY <1>0, <2>1 DEF t, IInv, ReservationsHold
  <2>3. \A s \in txn[f].took : s \in Skus /\ stock'[s] = stock[s]
    BY <1>0, <1>5, <2>1, <2>2, OpenTxn DEF Holding
  <2>4. Holding(e)' => e # h /\ txn'[e] = txn[e] /\ Holding(e)
    BY <1>4 DEF Holding, Busy
  <2> QED
    BY <2>1, <2>3, <2>4 DEF IInv, ReservationsHold
<1>11. ClaimsApart'
  <2> SUFFICES ASSUME NEW e \in Handlers, NEW f \in Handlers, Busy(f)'
               PROVE  /\ claim'[txn'[f].key] = NoOrder
                      /\ status'[txn'[f].order] = "unused"
                      /\ Busy(e)' /\ e # f => /\ txn'[e].key # txn'[f].key
                                              /\ txn'[e].order # txn'[f].order
    BY DEF ClaimsApart
  <2>1. f # h /\ txn'[f] = txn[f] /\ Busy(f)
    BY <1>4 DEF Busy
  <2>2. txn[f].key # t.key /\ txn[f].order # t.order
    BY <1>0, <2>1 DEF t, IInv, ClaimsApart
  <2>3. Busy(e)' => e # h /\ txn'[e] = txn[e] /\ Busy(e)
    BY <1>4 DEF Busy
  <2>4. txn[f].key \in Keys /\ txn[f].order \in Orders
    BY <1>0, <2>1, OpenTxn
  <2> QED
    BY <1>0, <1>6, <2>1, <2>2, <2>3, <2>4 DEF IInv, ClaimsApart, TypeOK
<1>12. EntriesAsTaken'
  BY <1>4, <1>5 DEF IInv, EntriesAsTaken, Holding, Busy
<1>13. LedgerMatchesStock'
  <2>1. t.tracked = {s \in Skus : policy[s] = "tracked"}
        /\ t.took = Lines(t.req.cart) \cap t.tracked
    BY <1>0 DEF t, IInv, EntriesAsTaken
  <2> SUFFICES ASSUME NEW s \in Skus, policy[s] = "tracked" PROVE ledger'[s] = stock'[s]
    BY <1>5 DEF LedgerMatchesStock
  <2>2. s \in t.tracked /\ ledger[s] = stock[s]
    BY <2>1 DEF IInv, LedgerMatchesStock
  <2>3. s \notin t.took => t.req.cart[s] = 0
    BY <1>1, <2>1, <2>2 DEF Lines
  <2> QED
    BY <1>0, <1>1, <1>5, <2>2, <2>3 DEF TypeOK
<1>14. OrdersHaveRequests'
  BY <1>0, <1>1, <1>6 DEF IInv, OrdersHaveRequests, TypeOK
<1> QED
  BY <1>8, <1>9, <1>10, <1>11, <1>12, <1>13, <1>14 DEF IInv

-----------------------------------------------------------------------------
(* What the owner, a cancellation and a delivery do to the shelf.           *)

\* A change of the shelf that leaves locked rows alone and enters what it does
\* in the ledger disturbs no checkout.
LEMMA ShelfStep ==
  ASSUME IInv, UNCHANGED <<policy, status, placed, claim, told, link, txn>>,
         stock' \in [Skus -> Nat], ledger' \in [Skus -> Int],
         active' \in [Skus -> BOOLEAN], screen' \in [Skus -> Nat],
         counted' \in [Skus -> Int],
         \A s \in Skus : /\ RowLocked(s) => stock'[s] = stock[s]
                         /\ policy[s] = "tracked" => ledger'[s] = stock'[s]
  PROVE  IInv'
<1>1. TypeOK'
  BY DEF IInv, TypeOK
<1>2. KeyNamesOneOrder' /\ OrdersHaveRequests'
  BY DEF IInv, KeyNamesOneOrder, OrdersHaveRequests
<1>3. ReservationsHold'
  <2>1. \A f \in Handlers : Holding(f) => \A s \in txn[f].took : s \in Skus /\ RowLocked(s)
    BY OpenTxn DEF IInv, RowLocked, Holding
  <2> QED
    BY <2>1 DEF IInv, ReservationsHold, Holding, Busy
<1>4. ClaimsApart' /\ EntriesAsTaken'
  BY DEF IInv, ClaimsApart, EntriesAsTaken, Holding, Busy
<1>5. LedgerMatchesStock'
  BY DEF LedgerMatchesStock
<1> QED
  BY <1>1, <1>2, <1>3, <1>4, <1>5 DEF IInv

\* The owner's screen, recounts, corrections and the sold-out switch.
LEMMA OwnerStep ==
  ASSUME IInv, NEW s \in Skus, Owner(s)
  PROVE  IInv'
<1>0. TypeOK /\ LedgerMatchesStock
  BY DEF IInv
<1>1. CASE Look(s)
  BY <1>0, <1>1, ShelfStep DEF Look, TypeOK, LedgerMatchesStock, book
<1>2. ASSUME NEW q \in Counts, SetStock(s, q) PROVE IInv'
  <2>1. stock' \in [Skus -> Nat] /\ ledger' \in [Skus -> Int] /\ counted' \in [Skus -> Int]
    BY <1>0, <1>2, CountsAssumption DEF SetStock, TypeOK
  <2>2. \A z \in Skus : /\ RowLocked(z) => stock'[z] = stock[z]
                        /\ policy[z] = "tracked" => ledger'[z] = stock'[z]
    BY <1>0, <1>2, CountsAssumption DEF SetStock, TypeOK, LedgerMatchesStock
  <2> QED
    BY <1>0, <1>2, <2>1, <2>2, ShelfStep DEF SetStock, TypeOK, book
<1>3. ASSUME NEW d \in Deltas, AdjustStock(s, d) PROVE IInv'
  <2>1. d \in Int /\ stock[s] + d >= 0
    BY <1>3, CountsAssumption DEF AdjustStock
  <2>2. stock' \in [Skus -> Nat] /\ ledger' \in [Skus -> Int] /\ counted' \in [Skus -> Int]
    BY <1>0, <1>3, <2>1 DEF AdjustStock, TypeOK
  <2>3. \A z \in Skus : /\ RowLocked(z) => stock'[z] = stock[z]
                        /\ policy[z] = "tracked" => ledger'[z] = stock'[z]
    BY <1>0, <1>3, <2>1 DEF AdjustStock, TypeOK, LedgerMatchesStock
  <2> QED
    BY <1>0, <1>3, <2>2, <2>3, ShelfStep DEF AdjustStock, TypeOK, book
<1>4. CASE SetActive(s)
  BY <1>0, <1>4, ShelfStep DEF SetActive, TypeOK, LedgerMatchesStock, book
<1> QED
  BY <1>1, <1>2, <1>3, <1>4 DEF Owner

\* An order that ends or is delivered keeps its key and its request.
LEMMA OrderEndStep ==
  ASSUME IInv, NEW o \in Orders, CancelOrder(o) \/ Deliver(o)
  PROVE  IInv'
<1> DEFINE qty == [s \in Skus |-> IF policy[s] = "tracked" THEN placed[o].cart[s] ELSE 0]
<1>0. TypeOK /\ status[o] = "live" /\ placed[o] \in Request
      /\ UNCHANGED <<policy, active, screen, counted, placed, claim, told, link, txn>>
  BY DEF IInv, OrdersHaveRequests, CancelOrder, Deliver, shelf
<1>1. PICK w \in {"over", "delivered"} : status' = [status EXCEPT ![o] = w]
  BY DEF CancelOrder, Deliver
<1>2. \A p \in Orders : status'[p] # "unused" <=> status[p] # "unused"
  BY <1>0, <1>1 DEF TypeOK
<1>3. /\ stock' \in [Skus -> Nat] /\ ledger' \in [Skus -> Int]
      /\ \A s \in Skus : /\ RowLocked(s) => stock'[s] = stock[s]
                         /\ policy[s] = "tracked" => ledger'[s] = stock'[s]
  <2>1. CASE CancelOrder(o)
    <3>1. qty \in [Skus -> Nat]
      BY <1>0, CartsAssumption DEF Request
    <3>2. /\ \A s \in Lines(qty) : ~RowLocked(s)
          /\ stock' = [s \in Skus |-> stock[s] + qty[s]]
          /\ ledger' = [s \in Skus |-> ledger[s] + qty[s]]
      BY <2>1 DEF CancelOrder
    <3> HIDE DEF qty
    <3> QED
      BY <1>0, <3>1, <3>2 DEF TypeOK, IInv, LedgerMatchesStock, Lines
  <2>2. CASE Deliver(o)
    BY <1>0, <2>2 DEF Deliver, shelf, TypeOK, IInv, LedgerMatchesStock
  <2> QED
    BY <2>1, <2>2
<1>4. TypeOK'
  <2>1. status' \in [Orders -> {"unused", "live", "delivered", "over"}]
    BY <1>0, <1>1 DEF TypeOK
  <2> QED
    BY <1>0, <1>3, <2>1 DEF TypeOK
<1>5. KeyNamesOneOrder'
  <2>1. \A k \in Keys : claim[k] # NoOrder => claim[k] \in Orders
    BY <1>0 DEF TypeOK
  <2> QED
    BY <1>0, <1>2, <2>1 DEF IInv, KeyNamesOneOrder
<1>6. OrdersHaveRequests'
  BY <1>0, <1>2 DEF IInv, OrdersHaveRequests
<1>7. ReservationsHold'
  <2>1. \A f \in Handlers : Holding(f) => \A s \in txn[f].took : s \in Skus /\ RowLocked(s)
    BY <1>0, OpenTxn DEF RowLocked, Holding
  <2> QED
    BY <1>0, <1>3, <2>1 DEF IInv, ReservationsHold, Holding, Busy
<1>8. ClaimsApart'
  <2>1. \A f \in Handlers : Busy(f) => txn[f].order \in Orders
    BY <1>0, OpenTxn
  <2> QED
    BY <1>0, <1>2, <2>1 DEF IInv, ClaimsApart, Busy
<1>9. EntriesAsTaken' /\ LedgerMatchesStock'
  BY <1>0, <1>3 DEF IInv, EntriesAsTaken, LedgerMatchesStock, Holding, Busy
<1> QED
  BY <1>4, <1>5, <1>6, <1>7, <1>8, <1>9 DEF IInv

\* A replay gives an answer that was given before, to the same request.
LEMMA ReplayStep ==
  ASSUME IInv, NEW k \in Keys, NEW r \in Request, Replay(k, r)
  PROVE  IInv'
<1> DEFINE a == <<k, r, claim[k]>>
<1>0. TypeOK /\ claim[k] \in Orders /\ placed[claim[k]] = r
      /\ told' = told \cup {a}
      /\ UNCHANGED <<shelf, status, placed, claim, link, txn>>
  BY DEF IInv, TypeOK, Replay
<1>1. a \in Keys \X Request \X Orders /\ a[3] = claim[a[1]] /\ a[2] = placed[a[3]]
  BY <1>0
<1> HIDE DEF a
<1>2. TypeOK'
  BY <1>0, <1>1 DEF TypeOK, shelf
<1>3. KeyNamesOneOrder'
  BY <1>0, <1>1 DEF IInv, KeyNamesOneOrder
<1>4. ReservationsHold' /\ ClaimsApart' /\ EntriesAsTaken' /\ LedgerMatchesStock'
      /\ OrdersHaveRequests'
  BY <1>0 DEF IInv, ReservationsHold, ClaimsApart, EntriesAsTaken, LedgerMatchesStock,
              OrdersHaveRequests, Holding, Busy, shelf
<1> QED
  BY <1>2, <1>3, <1>4 DEF IInv

-----------------------------------------------------------------------------
(* The theorems.                                                            *)

\* IInv is an invariant: reservations can be committed, checkouts have keys and
\* ids of their own, keys name one order and the ledger accounts for the shelf.
THEOREM Invariance == Spec => []IInv
<1>1. Init => IInv
  <2> SUFFICES ASSUME Init PROVE IInv
    OBVIOUS
  <2>1. \A h \in Handlers : ~Busy(h)
    BY DEF Init, Busy
  <2>2. TypeOK
    <3>1. stock \in [Skus -> Nat] /\ stock \in [Skus -> Int]
      <4>1. stock \in [Skus -> Counts]
        BY DEF Init
      <4>2. Counts \subseteq Nat /\ Counts \subseteq Int
        BY CountsAssumption
      <4>3. \A s \in Skus : stock[s] \in Nat /\ stock[s] \in Int
        BY <4>1, <4>2
      <4> QED
        BY <4>1, <4>3
    <3>2. /\ ledger \in [Skus -> Int] /\ screen \in [Skus -> Nat] /\ counted \in [Skus -> Int]
          /\ policy \in [Skus -> {"tracked", "made_to_order"}] /\ active \in [Skus -> BOOLEAN]
      BY <3>1 DEF Init
    <3>3. /\ status \in [Orders -> {"unused", "live", "delivered", "over"}]
          /\ placed \in [Orders -> Request \cup {NoRequest}]
          /\ claim \in [Keys -> Orders \cup {NoOrder}]
          /\ link \in [Orders -> {"none", "open", "cancelled"}]
          /\ txn \in [Handlers -> Txn \cup {Idle}]
      BY DEF Init
    <3>4. told \subseteq Keys \X Request \X Orders
      BY DEF Init
    <3> QED
      BY <3>1, <3>2, <3>3, <3>4 DEF TypeOK
  <2>3. ReservationsHold /\ ClaimsApart /\ EntriesAsTaken
    BY <2>1 DEF ReservationsHold, ClaimsApart, EntriesAsTaken, Holding
  <2>4. KeyNamesOneOrder /\ LedgerMatchesStock /\ OrdersHaveRequests
    BY DEF Init, KeyNamesOneOrder, LedgerMatchesStock, OrdersHaveRequests
  <2> QED
    BY <2>2, <2>3, <2>4 DEF IInv
<1>2. IInv /\ [Next]_vars => IInv'
  <2> SUFFICES ASSUME IInv, [Next]_vars PROVE IInv'
    OBVIOUS
  <2>1. ASSUME NEW h \in Handlers, Checkout(h) PROVE IInv'
    BY <2>1, OpenCheckoutStep, PlaceStep DEF Checkout
  <2>2. ASSUME NEW k \in Keys, NEW r \in Request, Replay(k, r) PROVE IInv'
    BY <2>2, ReplayStep
  <2>3. ASSUME NEW o \in Orders, CancelOrder(o) \/ Deliver(o) PROVE IInv'
    BY <2>3, OrderEndStep
  <2>4. ASSUME NEW s \in Skus, Owner(s) PROVE IInv'
    BY <2>4, OwnerStep
  <2>5. CASE UNCHANGED vars
    BY <2>5 DEF IInv, TypeOK, KeyNamesOneOrder, ReservationsHold, ClaimsApart, EntriesAsTaken,
                LedgerMatchesStock, OrdersHaveRequests, Holding, Busy, vars, shelf, book
  <2> QED
    BY <2>1, <2>2, <2>3, <2>4, <2>5 DEF Next
<1> QED
  BY <1>1, <1>2, PTL DEF Spec

\* create_order: retries of one checkout, under one Idempotency-Key, place one
\* order, however they overlap, fail or are repeated.
THEOREM RetriesPlaceOneOrder == Spec => []KeyNamesOneOrder
<1>1. IInv => KeyNamesOneOrder
  BY DEF IInv
<1> QED
  BY <1>1, Invariance, PTL

\* find_stock_discrepancies stays empty: checkouts, cancellations, recounts and
\* corrections enter in the ledger exactly what they do to a tracked row.
THEOREM LedgerAccountsForStock == Spec => []LedgerMatchesStock
<1>1. IInv => LedgerMatchesStock
  BY DEF IInv
<1> QED
  BY <1>1, Invariance, PTL

\* reserve_stock_bulk never oversells: a checkout past its reservation finds on
\* the shelf all it has taken, however the owner recounts, and no other
\* checkout in progress has taken from the same rows.
THEOREM ReservationsAreGood == Spec => [](TypeOK /\ ReservationsHold)
<1>1. IInv => TypeOK /\ ReservationsHold
  BY DEF IInv
<1> QED
  BY <1>1, Invariance, PTL

-----------------------------------------------------------------------------
(* No unit is sold twice.                                                   *)

\* The shelf and the orders add up, and only finitely many orders have taken
\* anything: with no bound on Orders, the sum is over a finite set because every
\* order is placed by a step.
UnitsAddUp == IsFiniteSet(Out) /\ NoUnitSoldTwice

\* What a cart takes of a variant is a number.
LEMMA CartType ==
  ASSUME NEW r \in Request, NEW s \in Skus
  PROVE  r.cart[s] \in Nat
BY CartsAssumption DEF Request

\* An order that has taken goods says how many.
LEMMA GoodsType ==
  ASSUME IInv, NEW o \in Out, NEW s \in Skus
  PROVE  placed[o].cart[s] \in Int
BY CartType DEF IInv, OrdersHaveRequests, Out

\* What the orders have taken of a variant is a number.
LEMMA PromisedType ==
  ASSUME IInv, IsFiniteSet(Out), NEW s \in Skus
  PROVE  Promised(s) \in Int
<1> DEFINE f == [o \in Out |-> placed[o].cart[s]]
<1>1. \A o \in Out : f[o] \in Int
  BY GoodsType
<1> HIDE DEF f
<1>2. SumFunctionOnSet(f, Out) \in Int
  BY <1>1, SumIsInt
<1> QED
  BY <1>2 DEF f, Promised

\* A step that moves no order and changes the shelf by what the owner counts
\* keeps the sum.
LEMMA UnitsKept ==
  ASSUME IInv, IInv', UnitsAddUp, UNCHANGED policy,
         Out' = Out, \A o \in Out : placed'[o] = placed[o],
         \A s \in Skus : stock'[s] - counted'[s] = stock[s] - counted[s]
  PROVE  UnitsAddUp'
<1> SUFFICES ASSUME NEW s \in Skus
             PROVE  stock'[s] + (IF policy'[s] = "tracked" THEN Promised(s)' ELSE 0) = counted'[s]
  BY DEF UnitsAddUp, NoUnitSoldTwice
<1>1. Promised(s)' = Promised(s)
  <2> DEFINE f == [o \in Out |-> placed[o].cart[s]]
             e == [o \in Out |-> placed'[o].cart[s]]
  <2>1. \A o \in Out : f[o] = e[o]
    OBVIOUS
  <2>2. Promised(s) = SumFunctionOnSet(f, Out) /\ Promised(s)' = SumFunctionOnSet(e, Out)
    BY DEF Promised
  <2> HIDE DEF f, e
  <2>3. SumFunctionOnSet(f, Out) = SumFunctionOnSet(e, Out)
    BY <2>1, SumOfEqual DEF UnitsAddUp
  <2> QED
    BY <2>2, <2>3
<1>2. /\ stock[s] \in Int /\ stock'[s] \in Int /\ counted[s] \in Int /\ counted'[s] \in Int
      /\ Promised(s) \in Int
  BY PromisedType DEF IInv, TypeOK, UnitsAddUp
<1>3. stock[s] + (IF policy[s] = "tracked" THEN Promised(s) ELSE 0) = counted[s]
  BY DEF UnitsAddUp, NoUnitSoldTwice
<1>4. stock'[s] - counted'[s] = stock[s] - counted[s] /\ policy'[s] = policy[s]
  OBVIOUS
<1> QED
  BY <1>1, <1>2, <1>3, <1>4

\* An order more adds its goods to what is promised.
LEMMA PromisedWith ==
  ASSUME IInv, IInv', IsFiniteSet(Out), NEW p, p \notin Out, Out' = Out \cup {p},
         \A o \in Out : placed'[o] = placed[o], NEW s \in Skus
  PROVE  Promised(s)' = placed'[p].cart[s] + Promised(s)
<1> DEFINE S == Out
           f == [o \in S \cup {p} |-> placed'[o].cart[s]]
           e == [o \in S |-> placed[o].cart[s]]
<1>1. Promised(s)' = SumFunctionOnSet(f, S \cup {p}) /\ Promised(s) = SumFunctionOnSet(e, S)
  BY DEF Promised
<1>2. \A o \in S : f[o] = e[o]
  OBVIOUS
<1>3. \A o \in S \cup {p} : f[o] \in Int
  <2> SUFFICES ASSUME NEW o \in S \cup {p} PROVE f[o] \in Int
    OBVIOUS
  <2>1. placed'[o] \in Request
    BY DEF IInv, OrdersHaveRequests, Out
  <2> QED
    BY <2>1, CartType
<1>4. f[p] = placed'[p].cart[s]
  OBVIOUS
<1>5. IsFiniteSet(S) /\ p \notin S
  OBVIOUS
<1> HIDE DEF f, e, S
<1>6. SumFunctionOnSet(f, S \cup {p}) = f[p] + SumFunctionOnSet(e, S)
  BY <1>2, <1>3, <1>5, SumWith
<1> QED
  BY <1>1, <1>4, <1>6

\* An order less takes its goods from what is promised.
LEMMA PromisedWithout ==
  ASSUME IInv, IsFiniteSet(Out), NEW p \in Out, Out' = Out \ {p},
         UNCHANGED placed, NEW s \in Skus
  PROVE  Promised(s)' \in Int /\ Promised(s) = placed[p].cart[s] + Promised(s)'
<1> DEFINE S == Out \ {p}
           f == [o \in Out |-> placed[o].cart[s]]
           e == [o \in S |-> placed[o].cart[s]]
<1>1. Promised(s)' = SumFunctionOnSet(e, S) /\ Promised(s) = SumFunctionOnSet(f, S \cup {p})
  <2>1. S \cup {p} = Out
    OBVIOUS
  <2> QED
    BY <2>1 DEF Promised
<1>2. \A o \in S : f[o] = e[o]
  OBVIOUS
<1>3. \A o \in S \cup {p} : f[o] \in Int
  BY GoodsType
<1>4. f[p] = placed[p].cart[s]
  OBVIOUS
<1>5. IsFiniteSet(S) /\ p \notin S
  BY FS_Subset
<1> HIDE DEF f, e, S
<1>6. SumFunctionOnSet(f, S \cup {p}) = f[p] + SumFunctionOnSet(e, S)
  BY <1>2, <1>3, <1>5, SumWith
<1>7. SumFunctionOnSet(e, S) \in Int
  BY <1>2, <1>3, <1>5, SumIsInt
<1> QED
  BY <1>1, <1>4, <1>6, <1>7

\* A commit takes from the shelf what its order will have taken.
LEMMA UnitsPlaced ==
  ASSUME IInv, IInv', UnitsAddUp, NEW h \in Handlers, PlaceOrder(h)
  PROVE  UnitsAddUp'
<1> DEFINE t == txn[h]
           p == txn[h].order
<1>1. Busy(h) /\ Holding(h) /\ t.step = "written"
  BY DEF PlaceOrder, At, Holding
<1>2. t.req \in Request /\ p \in Orders /\ status[p] = "unused" /\ IsFiniteSet(Out)
  BY <1>1, OpenTxn DEF IInv, ClaimsApart, UnitsAddUp
<1>3. status' = [status EXCEPT ![p] = "live"] /\ placed' = [placed EXCEPT ![p] = t.req]
  BY DEF PlaceOrder
<1>4. p \notin Out /\ Out' = Out \cup {p}
  BY <1>2, <1>3 DEF Out, IInv, TypeOK
<1>5. placed'[p] = t.req /\ \A o \in Out : placed'[o] = placed[o]
  BY <1>2, <1>3, <1>4 DEF Out, IInv, TypeOK
<1>6. t.tracked = {s \in Skus : policy[s] = "tracked"} /\ t.took = Lines(t.req.cart) \cap t.tracked
  BY <1>1 DEF IInv, EntriesAsTaken
<1>7. ASSUME NEW s \in Skus
      PROVE  stock'[s] + (IF policy'[s] = "tracked" THEN Promised(s)' ELSE 0) = counted'[s]
  <2>1. Promised(s)' = t.req.cart[s] + Promised(s)
    BY <1>2, <1>4, <1>5, PromisedWith
  <2>2. t.req.cart[s] \in Nat /\ Promised(s) \in Int /\ stock[s] \in Int
    BY <1>2, CartType, PromisedType DEF IInv, TypeOK
  <2>3. stock'[s] = (IF s \in t.took THEN stock[s] - t.req.cart[s] ELSE stock[s])
        /\ counted'[s] = counted[s] /\ policy'[s] = policy[s]
    BY DEF PlaceOrder
  <2>4. s \in t.took <=> t.req.cart[s] > 0 /\ policy[s] = "tracked"
    BY <1>6 DEF Lines
  <2>5. stock[s] + (IF policy[s] = "tracked" THEN Promised(s) ELSE 0) = counted[s]
    BY DEF UnitsAddUp, NoUnitSoldTwice
  <2> HIDE DEF t
  <2>6. CASE policy[s] # "tracked"
    BY <2>3, <2>4, <2>5, <2>6
  <2>7. CASE policy[s] = "tracked"
    <3>1. stock'[s] = stock[s] - t.req.cart[s]
      BY <2>2, <2>3, <2>4, <2>7
    <3> QED
      BY <2>1, <2>2, <2>3, <2>5, <2>7, <3>1
  <2> QED
    BY <2>6, <2>7
<1>8. IsFiniteSet(Out')
  BY <1>2, <1>4, FS_AddElement
<1> QED
  BY <1>7, <1>8 DEF UnitsAddUp, NoUnitSoldTwice

\* A cancellation puts back what its order had taken.
LEMMA UnitsReturned ==
  ASSUME IInv, IInv', UnitsAddUp, NEW p \in Orders, CancelOrder(p)
  PROVE  UnitsAddUp'
<1>1. status[p] = "live" /\ status' = [status EXCEPT ![p] = "over"] /\ IsFiniteSet(Out)
      /\ UNCHANGED <<policy, counted, placed>>
  BY DEF CancelOrder, UnitsAddUp
<1>2. p \in Out /\ Out' = Out \ {p}
  BY <1>1 DEF Out, IInv, TypeOK
<1>3. placed[p] \in Request
  BY <1>1 DEF IInv, OrdersHaveRequests
<1>4. ASSUME NEW s \in Skus
      PROVE  stock'[s] + (IF policy'[s] = "tracked" THEN Promised(s)' ELSE 0) = counted'[s]
  <2>1. Promised(s)' \in Int /\ Promised(s) = placed[p].cart[s] + Promised(s)'
    BY <1>1, <1>2, PromisedWithout
  <2>2. placed[p].cart[s] \in Nat /\ stock[s] \in Int
    BY <1>3, CartType DEF IInv, TypeOK
  <2>3. stock'[s] = stock[s] + (IF policy[s] = "tracked" THEN placed[p].cart[s] ELSE 0)
    BY DEF CancelOrder
  <2>4. stock[s] + (IF policy[s] = "tracked" THEN Promised(s) ELSE 0) = counted[s]
    BY DEF UnitsAddUp, NoUnitSoldTwice
  <2>5. counted'[s] = counted[s] /\ policy'[s] = policy[s]
    BY <1>1
  <2> QED
    BY <2>1, <2>2, <2>3, <2>4, <2>5
<1>5. IsFiniteSet(Out')
  BY <1>1, <1>2, FS_Subset
<1> QED
  BY <1>4, <1>5 DEF UnitsAddUp, NoUnitSoldTwice

\* What the owner does to a shelf is counted.
LEMMA UnitsTended ==
  ASSUME IInv, IInv', UnitsAddUp, NEW s \in Skus, Owner(s)
  PROVE  UnitsAddUp'
<1>1. UNCHANGED <<policy, placed>> /\ Out' = Out
  BY DEF Owner, Look, SetStock, AdjustStock, SetActive, book, Out
<1>2. /\ stock \in [Skus -> Nat] /\ screen \in [Skus -> Nat] /\ counted \in [Skus -> Int]
      /\ Counts \subseteq Nat /\ Deltas \subseteq Int
  BY CountsAssumption DEF IInv, TypeOK
<1>3. ASSUME NEW d \in Int, stock' = [stock EXCEPT ![s] = @ + d],
             counted' = [counted EXCEPT ![s] = @ + d]
      PROVE  \A r \in Skus : stock'[r] - counted'[r] = stock[r] - counted[r]
  BY <1>2, <1>3
<1>4. \A r \in Skus : stock'[r] - counted'[r] = stock[r] - counted[r]
  <2>1. CASE UNCHANGED <<stock, counted>>
    BY <2>1
  <2>2. ASSUME NEW q \in Counts, SetStock(s, q)
        PROVE  \A r \in Skus : stock'[r] - counted'[r] = stock[r] - counted[r]
    <3>1. stock' = [stock EXCEPT ![s] = stock[s] + (q - stock[s])]
          /\ counted' = [counted EXCEPT ![s] = counted[s] + (q - stock[s])]
      <4>1. stock[s] = screen[s] /\ q \in Nat /\ stock[s] \in Nat /\ counted[s] \in Int
        BY <1>2, <2>2 DEF SetStock
      <4>2. q = stock[s] + (q - stock[s])
            /\ counted[s] + q - screen[s] = counted[s] + (q - stock[s])
        BY <4>1
      <4>3. stock' = [stock EXCEPT ![s] = q]
            /\ counted' = [counted EXCEPT ![s] = counted[s] + q - screen[s]]
        BY <2>2 DEF SetStock
      <4> QED
        BY <4>2, <4>3, Zenon
    <3>2. q - stock[s] \in Int
      BY <1>2
    <3> QED
      BY <1>3, <3>1, <3>2
  <2>3. ASSUME NEW d \in Deltas, AdjustStock(s, d)
        PROVE  \A r \in Skus : stock'[r] - counted'[r] = stock[r] - counted[r]
    BY <1>2, <1>3, <2>3 DEF AdjustStock
  <2> QED
    BY <2>1, <2>2, <2>3 DEF Owner, Look, SetActive
<1> QED
  BY <1>1, <1>4, UnitsKept

\* Every step keeps the sum.
LEMMA UnitsHold ==
  ASSUME IInv, IInv', UnitsAddUp, [Next]_vars
  PROVE  UnitsAddUp'
<1>1. CASE UNCHANGED <<shelf, status, placed>>
  BY <1>1, UnitsKept DEF shelf, Out
<1>2. ASSUME NEW h \in Handlers, Checkout(h) PROVE UnitsAddUp'
  BY <1>1, <1>2, UnitsPlaced DEF Checkout, Claim, Price, OpenLink, Reserve, WriteOrder, Abandon,
                                 CommitFails, book
<1>3. ASSUME NEW k \in Keys, NEW r \in Request, Replay(k, r) PROVE UnitsAddUp'
  BY <1>1, <1>3 DEF Replay
<1>4. ASSUME NEW o \in Orders, Deliver(o) PROVE UnitsAddUp'
  <2>1. Out' = Out
    BY <1>4 DEF Deliver, Out, IInv, TypeOK
  <2> QED
    BY <1>4, <2>1, UnitsKept DEF Deliver, shelf
<1>5. CASE UNCHANGED vars
  BY <1>1, <1>5 DEF vars, book
<1> QED
  BY <1>2, <1>3, <1>4, <1>5, UnitsReturned, UnitsTended DEF Next

\* The shelf and the orders always add up, and the orders are finitely many.
LEMMA UnitsInvariant == Spec => []UnitsAddUp
<1>1. Init => UnitsAddUp
  <2> SUFFICES ASSUME Init PROVE UnitsAddUp
    OBVIOUS
  <2>1. Out = {}
    BY DEF Init, Out
  <2>2. ASSUME NEW s \in Skus PROVE Promised(s) = 0
    BY <2>1, SumOfNone DEF Promised
  <2>3. ASSUME NEW s \in Skus PROVE stock[s] \in Int /\ counted[s] = stock[s]
    <3>1. stock[s] \in Nat
      BY CountsAssumption DEF Init
    <3>2. counted[s] = stock[s]
      BY DEF Init
    <3> QED
      BY <3>1, <3>2
  <2> QED
    BY <2>1, <2>2, <2>3, FS_EmptySet DEF UnitsAddUp, NoUnitSoldTwice
<1>2. IInv /\ IInv' /\ UnitsAddUp /\ [Next]_vars => UnitsAddUp'
  BY UnitsHold
<1> QED
  BY <1>1, <1>2, Invariance, PTL DEF Spec

\* Checkouts, cancellations, recounts and corrections never promise a unit twice,
\* lose one or hand one back twice: what is on the shelf and what the orders that
\* stand have taken is what the owner has put there, whatever the number of
\* orders.
THEOREM NothingSoldTwice == Spec => []NoUnitSoldTwice
<1>1. UnitsAddUp => NoUnitSoldTwice
  BY DEF UnitsAddUp
<1> QED
  BY <1>1, UnitsInvariant, PTL

-----------------------------------------------------------------------------
(* The cap on active COD orders.                                            *)

\* Both sets of the count are finite, and stay so.
LEMMA CodSetsFinite ==
  ASSUME UnitsAddUp, IsFiniteSet(Handlers)
  PROVE  /\ IsFiniteSet(ActiveCod) /\ Cardinality(ActiveCod) \in Nat
         /\ IsFiniteSet(CodPriced) /\ Cardinality(CodPriced) \in Nat
         /\ Cardinality(CodPriced) <= Cardinality(Handlers)
         /\ Cardinality(Handlers) \in Nat
<1>1. ActiveCod \subseteq Out /\ CodPriced \subseteq Handlers
  BY DEF ActiveCod, Out, CodPriced
<1>2. IsFiniteSet(ActiveCod) /\ IsFiniteSet(CodPriced)
  BY <1>1, FS_Subset DEF UnitsAddUp
<1> QED
  BY <1>1, <1>2, FS_Subset, FS_CardinalityType

\* A step that adds to neither set keeps the room.
LEMMA RoomShrinks ==
  ASSUME UnitsAddUp, IsFiniteSet(Handlers), MaxActiveCod \in Nat, CodRoom,
         ActiveCod' \subseteq ActiveCod, CodPriced' \subseteq CodPriced
  PROVE  CodRoom'
<1>1. /\ Cardinality(ActiveCod') <= Cardinality(ActiveCod) /\ Cardinality(ActiveCod') \in Nat
      /\ Cardinality(CodPriced') <= Cardinality(CodPriced) /\ Cardinality(CodPriced') \in Nat
  BY CodSetsFinite, FS_Subset, FS_CardinalityType
<1> QED
  BY <1>1, CodSetsFinite DEF CodRoom

\* Pricing a COD order finds less than the cap.
LEMMA RoomPriced ==
  ASSUME IInv, UnitsAddUp, IsFiniteSet(Handlers), MaxActiveCod \in Nat, CodRoom,
         NEW h \in Handlers, Price(h)
  PROVE  CodRoom'
<1>1. TypeOK /\ Busy(h) /\ txn[h] \in Txn /\ UNCHANGED <<status, placed>>
  BY OpenTxn DEF IInv, Price, At, book
<1>2. ActiveCod' = ActiveCod
  BY <1>1 DEF ActiveCod
<1>3. CodPriced' \subseteq Handlers
  BY DEF CodPriced
<1>4. CASE txn[h].req.method = "cod"
  <2>1. Cardinality(ActiveCod) < MaxActiveCod
    BY <1>4 DEF Price
  <2>2. Cardinality(CodPriced') <= Cardinality(Handlers) /\ Cardinality(CodPriced') \in Nat
    BY <1>3, FS_Subset, FS_CardinalityType
  <2> QED
    BY <1>2, <2>1, <2>2, CodSetsFinite DEF CodRoom
<1>5. CASE txn[h].req.method # "cod"
  <2>1. txn'[h].req = txn[h].req /\ \A g \in Handlers \ {h} : txn'[g] = txn[g]
    BY <1>1 DEF Price, TypeOK, Txn
  <2>2. CodPriced' \subseteq CodPriced
    BY <1>5, <2>1 DEF CodPriced, Busy
  <2> QED
    BY <1>2, <2>2, RoomShrinks
<1> QED
  BY <1>4, <1>5

\* A commit turns a checkout that has counted into an order.
LEMMA RoomPlaced ==
  ASSUME IInv, UnitsAddUp, IsFiniteSet(Handlers), MaxActiveCod \in Nat, CodRoom,
         NEW h \in Handlers, PlaceOrder(h)
  PROVE  CodRoom'
<1> DEFINE p == txn[h].order
<1>1. TypeOK /\ Busy(h) /\ txn[h].step = "written"
  BY DEF IInv, PlaceOrder, At
<1>2. p \in Orders /\ status' = [status EXCEPT ![p] = "live"]
      /\ placed' = [placed EXCEPT ![p] = txn[h].req]
  BY <1>1, OpenTxn DEF PlaceOrder
<1>3. ~Busy(h)' /\ \A g \in Handlers \ {h} : txn'[g] = txn[g]
  BY <1>1 DEF PlaceOrder, Close, TypeOK, Busy
<1>4. CodPriced' \subseteq CodPriced \ {h}
  BY <1>3 DEF CodPriced, Busy
<1>5. \A o \in ActiveCod' : o \in ActiveCod \/ (o = p /\ txn[h].req.method = "cod")
  BY <1>1, <1>2 DEF ActiveCod, TypeOK
<1>6. CASE txn[h].req.method = "cod"
  <2>1. h \in CodPriced
    BY <1>1, <1>6 DEF CodPriced
  <2>2. /\ Cardinality(CodPriced') <= Cardinality(CodPriced) - 1
        /\ Cardinality(CodPriced') \in Nat
    <3>1. IsFiniteSet(CodPriced \ {h})
          /\ Cardinality(CodPriced \ {h}) = Cardinality(CodPriced) - 1
      BY <2>1, CodSetsFinite, FS_RemoveElement
    <3> QED
      BY <1>4, <3>1, FS_Subset, FS_CardinalityType
  <2>3. /\ Cardinality(ActiveCod') <= Cardinality(ActiveCod) + 1
        /\ Cardinality(ActiveCod') \in Nat
    <3>1. /\ IsFiniteSet(ActiveCod \cup {p})
          /\ Cardinality(ActiveCod \cup {p}) \in Nat
          /\ Cardinality(ActiveCod \cup {p}) <= Cardinality(ActiveCod) + 1
      <4>1. IsFiniteSet(ActiveCod) /\ Cardinality(ActiveCod) \in Nat
        BY CodSetsFinite
      <4>2. /\ IsFiniteSet(ActiveCod \cup {p})
            /\ Cardinality(ActiveCod \cup {p}) =
                 IF p \in ActiveCod THEN Cardinality(ActiveCod) ELSE Cardinality(ActiveCod) + 1
        BY <4>1, FS_AddElement, Zenon
      <4> QED
        BY <4>1, <4>2
    <3>2. ActiveCod' \subseteq ActiveCod \cup {p}
      BY <1>5
    <3>3. /\ Cardinality(ActiveCod') <= Cardinality(ActiveCod \cup {p})
          /\ Cardinality(ActiveCod') \in Nat
      BY <3>1, <3>2, FS_Subset, FS_CardinalityType
    <3> QED
      BY <3>1, <3>3, CodSetsFinite
  <2> QED
    BY <2>2, <2>3, CodSetsFinite DEF CodRoom
<1>7. CASE txn[h].req.method # "cod"
  BY <1>4, <1>5, <1>7, RoomShrinks
<1> QED
  BY <1>6, <1>7

\* The other steps of a checkout count nothing and write no order.
LEMMA RoomQuiet ==
  ASSUME IInv, NEW h \in Handlers,
         \/ \E k \in Keys, r \in Request, o \in Orders : Claim(h, k, r, o)
         \/ OpenLink(h) \/ Reserve(h) \/ WriteOrder(h) \/ Abandon(h) \/ CommitFails(h)
  PROVE  ActiveCod' = ActiveCod /\ CodPriced' \subseteq CodPriced
<1>1. UNCHANGED <<status, placed>>
  BY DEF Claim, OpenLink, Reserve, WriteOrder, Abandon, CommitFails, book
<1>2. TypeOK
  BY DEF IInv
<1>3. ActiveCod' = ActiveCod
  BY <1>1 DEF ActiveCod
<1>4. ASSUME ~Busy(h)' \/ txn'[h].step = "claimed",
             \A g \in Handlers \ {h} : txn'[g] = txn[g]
      PROVE  CodPriced' \subseteq CodPriced
  BY <1>4 DEF CodPriced, Busy
<1>5. ASSUME Busy(h), txn[h].step # "claimed", txn'[h].req = txn[h].req,
             \A g \in Handlers \ {h} : txn'[g] = txn[g]
      PROVE  CodPriced' \subseteq CodPriced
  BY <1>5 DEF CodPriced, Busy
<1>6. ASSUME NEW k \in Keys, NEW r \in Request, NEW o \in Orders, Claim(h, k, r, o)
      PROVE  CodPriced' \subseteq CodPriced
  <2>1. txn'[h].step = "claimed" /\ \A g \in Handlers \ {h} : txn'[g] = txn[g]
    BY <1>2, <1>6 DEF Claim, TypeOK
  <2> QED
    BY <1>4, <2>1
<1>7. CASE Abandon(h) \/ CommitFails(h)
  <2>1. ~Busy(h)' /\ \A g \in Handlers \ {h} : txn'[g] = txn[g]
    BY <1>2, <1>7 DEF Abandon, CommitFails, Close, TypeOK, Busy
  <2> QED
    BY <1>3, <1>4, <2>1
<1>8. CASE OpenLink(h) \/ Reserve(h) \/ WriteOrder(h)
  <2>1. Busy(h) /\ txn[h].step # "claimed"
    BY <1>8 DEF OpenLink, Reserve, ReadyToReserve, WriteOrder, At
  <2>2. txn[h] \in Txn
    BY <1>2, <2>1, OpenTxn
  <2>3. txn'[h].req = txn[h].req /\ \A g \in Handlers \ {h} : txn'[g] = txn[g]
    BY <1>2, <1>8, <2>2 DEF OpenLink, Reserve, WriteOrder, TypeOK, Txn
  <2> QED
    BY <1>3, <1>5, <2>1, <2>3
<1> QED
  BY <1>3, <1>6, <1>7, <1>8

\* Every step leaves the room.
LEMMA RoomHolds ==
  ASSUME IInv, UnitsAddUp, IsFiniteSet(Handlers), MaxActiveCod \in Nat, CodRoom, [Next]_vars
  PROVE  CodRoom'
<1>1. CASE UNCHANGED <<status, placed, txn>>
  BY <1>1, RoomShrinks DEF ActiveCod, CodPriced, Busy
<1>2. ASSUME NEW h \in Handlers, Checkout(h) PROVE CodRoom'
  BY <1>2, RoomPriced, RoomPlaced, RoomQuiet, RoomShrinks DEF Checkout
<1>3. ASSUME NEW k \in Keys, NEW r \in Request, Replay(k, r) PROVE CodRoom'
  BY <1>1, <1>3 DEF Replay
<1>4. ASSUME NEW o \in Orders, CancelOrder(o) \/ Deliver(o) PROVE CodRoom'
  <2>1. UNCHANGED <<placed, txn>>
    BY <1>4 DEF CancelOrder, Deliver
  <2>2. \A q \in Orders : status'[q] = "live" => status[q] = "live"
    BY <1>4 DEF CancelOrder, Deliver, IInv, TypeOK
  <2> QED
    BY <2>1, <2>2, RoomShrinks DEF ActiveCod, CodPriced, Busy
<1>5. ASSUME NEW s \in Skus, Owner(s) PROVE CodRoom'
  BY <1>1, <1>5 DEF Owner, Look, SetStock, AdjustStock, SetActive, book
<1>6. CASE UNCHANGED vars
  BY <1>1, <1>6 DEF vars, book
<1> QED
  BY <1>2, <1>3, <1>4, <1>5, <1>6 DEF Next

\* A customer's checkouts that overlap pass the cap on active COD orders by fewer
\* than there are at once, however many orders have been placed and finished
\* (_check_cod_eligibility).  One checkout at a time never passes it.
THEOREM CodCapHolds ==
  ASSUME IsFiniteSet(Handlers), Handlers # {}, MaxActiveCod \in Nat
  PROVE  Spec => []CodCapNearlyKept
<1>1. Init => CodRoom
  <2> SUFFICES ASSUME Init PROVE CodRoom
    OBVIOUS
  <2>1. ActiveCod = {} /\ CodPriced = {}
    BY DEF Init, ActiveCod, CodPriced, Busy
  <2>2. Cardinality(Handlers) \in Nat /\ Cardinality(Handlers) # 0
    BY FS_CardinalityType, FS_EmptySet
  <2>3. Cardinality(ActiveCod) = 0 /\ Cardinality(CodPriced) = 0
    BY <2>1, FS_EmptySet
  <2> QED
    BY <2>2, <2>3 DEF CodRoom
<1>2. IInv /\ UnitsAddUp /\ CodRoom /\ [Next]_vars => CodRoom'
  BY RoomHolds
<1>3. UnitsAddUp /\ CodRoom => CodCapNearlyKept
  BY CodSetsFinite DEF CodRoom, CodCapNearlyKept
<1> QED
  BY <1>1, <1>2, <1>3, Invariance, UnitsInvariant, PTL DEF Spec

-----------------------------------------------------------------------------
(* Checkout implements Shop.                                                *)

\* What a checkout has taken is on sale until it commits.
TakenOnSale ==
  \A h \in Handlers : Holding(h) => \A s \in txn[h].took : active[s]

\* The owner's switch waits for the rows a reservation has taken.
LEMMA SaleHolds ==
  ASSUME IInv, TakenOnSale, [Next]_vars
  PROVE  TakenOnSale'
<1> USE DEF IInv
<1>1. CASE UNCHANGED <<active, txn>>
  BY <1>1 DEF TakenOnSale, Holding, Busy
<1>2. ASSUME NEW h \in Handlers, UNCHANGED active, NEW x, txn' = [txn EXCEPT ![h] = x],
             x # Idle /\ x.step \in {"reserved", "written"} => \A s \in x.took : active[s]
      PROVE  TakenOnSale'
  BY <1>2 DEF TakenOnSale, Holding, Busy, TypeOK
<1>3. ASSUME NEW h \in Handlers, Checkout(h) PROVE TakenOnSale'
  <2>1. UNCHANGED active
    BY <1>3 DEF Checkout, Claim, Price, OpenLink, Reserve, WriteOrder, PlaceOrder, Abandon,
                CommitFails, shelf
  <2>2. ASSUME NEW k \in Keys, NEW r \in Request, NEW o \in Orders, Claim(h, k, r, o)
        PROVE  TakenOnSale'
    BY <1>2, <2>1, <2>2 DEF Claim
  <2>3. CASE Price(h)
    <3>1. Busy(h) /\ txn[h] \in Txn
      BY <2>3, OpenTxn DEF Price, At
    <3> DEFINE x == [txn[h] EXCEPT !.step = "priced",
                                   !.tracked = {s \in Skus : policy[s] = "tracked"}]
    <3>2. txn' = [txn EXCEPT ![h] = x]
      BY <2>3, <3>1 DEF Price, TypeOK
    <3>3. x.step = "priced"
      BY <3>1 DEF Txn
    <3> HIDE DEF x
    <3> QED
      BY <1>2, <2>1, <3>2, <3>3
  <2>4. CASE OpenLink(h)
    <3>1. Busy(h) /\ txn[h] \in Txn
      BY <2>4, OpenTxn DEF OpenLink, At
    <3> DEFINE x == [txn[h] EXCEPT !.step = "linked"]
    <3>2. txn' = [txn EXCEPT ![h] = x]
      BY <2>4, <3>1 DEF OpenLink, TypeOK
    <3>3. x.step = "linked"
      BY <3>1 DEF Txn
    <3> HIDE DEF x
    <3> QED
      BY <1>2, <2>1, <3>2, <3>3
  <2>5. CASE Reserve(h)
    <3>1. Busy(h) /\ txn[h] \in Txn
      BY <2>5, OpenTxn DEF Reserve
    <3> DEFINE took == {s \in Lines(txn[h].req.cart) : policy[s] = "tracked"}
               x == [txn[h] EXCEPT !.step = "reserved", !.took = took]
    <3>2. txn' = [txn EXCEPT ![h] = x]
      BY <2>5, <3>1 DEF Reserve, TypeOK
    <3>3. \A s \in took : active[s]
      BY <2>5 DEF Reserve, Sellable
    <3> HIDE DEF took
    <3>4. x.took = took
      BY <3>1 DEF Txn
    <3> HIDE DEF x
    <3> QED
      BY <1>2, <2>1, <3>2, <3>3, <3>4
  <2>6. CASE WriteOrder(h)
    <3>1. Busy(h) /\ txn[h] \in Txn /\ Holding(h)
      BY <2>6, OpenTxn DEF WriteOrder, At, Holding
    <3> DEFINE x == [txn[h] EXCEPT !.step = "written"]
    <3>2. txn' = [txn EXCEPT ![h] = x]
      BY <2>6, <3>1 DEF WriteOrder, TypeOK
    <3>3. x.took = txn[h].took
      BY <3>1 DEF Txn
    <3>4. \A s \in x.took : active[s]
      BY <3>1, <3>3 DEF TakenOnSale
    <3> HIDE DEF x
    <3> QED
      BY <1>2, <2>1, <3>2, <3>4
  <2>7. CASE PlaceOrder(h) \/ Abandon(h) \/ CommitFails(h)
    BY <1>2, <2>1, <2>7 DEF PlaceOrder, Abandon, CommitFails, Close
  <2> QED
    BY <1>3, <2>2, <2>3, <2>4, <2>5, <2>6, <2>7 DEF Checkout
<1>4. ASSUME NEW s \in Skus, SetActive(s) PROVE TakenOnSale'
  BY <1>4 DEF SetActive, TakenOnSale, RowLocked, Holding, Busy, TypeOK
<1>5. ASSUME NEW s \in Skus, Owner(s) PROVE TakenOnSale'
  BY <1>1, <1>4, <1>5 DEF Owner, Look, SetStock, AdjustStock
<1>6. ASSUME NEW o \in Orders, CancelOrder(o) \/ Deliver(o) PROVE TakenOnSale'
  BY <1>1, <1>6 DEF CancelOrder, Deliver, shelf
<1>7. ASSUME NEW k \in Keys, NEW r \in Request, Replay(k, r) PROVE TakenOnSale'
  BY <1>1, <1>7 DEF Replay, shelf
<1>8. CASE UNCHANGED vars
  BY <1>1, <1>8 DEF vars, shelf
<1> QED
  BY <1>3, <1>5, <1>6, <1>7, <1>8 DEF Next

\* What Shop sees of a state.
seen == <<stock, policy, active, status, placed, claim>>

\* A commit is a Place of Shop, whose guards hold of the shelf at that moment.
LEMMA PlaceInShop ==
  ASSUME IInv, TakenOnSale, NEW h \in Handlers, PlaceOrder(h)
  PROVE  Promise!Next
<1> DEFINE t == txn[h]
<1>1. Busy(h) /\ Holding(h) /\ t.step = "written"
  BY DEF PlaceOrder, At, Holding
<1>2. /\ t.key \in Keys /\ t.order \in Orders /\ t.req \in Request
      /\ t.req.cart \in [Skus -> Nat] /\ stock \in [Skus -> Nat]
  BY <1>1, OpenTxn DEF IInv, TypeOK
<1>3. claim[t.key] = NoOrder /\ status[t.order] = "unused"
  BY <1>1 DEF IInv, ClaimsApart
<1>4. \A s \in Skus : s \in t.took <=> t.req.cart[s] > 0 /\ policy[s] = "tracked"
  BY <1>1 DEF IInv, EntriesAsTaken, Lines
<1>5. \A s \in t.took : active[s] /\ stock[s] >= t.req.cart[s]
  BY <1>1 DEF IInv, ReservationsHold, TakenOnSale
<1>6. stock' = [s \in Skus |-> IF s \in t.took THEN stock[s] - t.req.cart[s] ELSE stock[s]]
  BY DEF PlaceOrder
<1>7. /\ status' = [status EXCEPT ![t.order] = "live"]
      /\ placed' = [placed EXCEPT ![t.order] = t.req]
      /\ claim'  = [claim EXCEPT ![t.key] = t.order]
      /\ UNCHANGED <<policy, active>>
  BY DEF PlaceOrder
<1>8. stock' = [s \in Skus |-> stock[s] - Promise!Goods(t.req.cart, s)]
  <2>1. \A s \in Skus : (IF s \in t.took THEN stock[s] - t.req.cart[s] ELSE stock[s])
                          = stock[s] - Promise!Goods(t.req.cart, s)
    BY <1>2, <1>4 DEF Promise!Goods, Promise!Counted
  <2> QED
    BY <1>6, <2>1
<1>9. \A s \in Skus : Promise!Goods(t.req.cart, s) > 0 => active[s] /\ stock[s] >= t.req.cart[s]
  BY <1>2, <1>4, <1>5 DEF Promise!Goods, Promise!Counted
<1> HIDE DEF t
<1>10. Promise!Place(t.key, t.req, t.order)
  BY <1>3, <1>7, <1>8, <1>9 DEF Promise!Place
<1> QED
  BY <1>2, <1>10 DEF Promise!Next

\* A cancellation is a Cancel of Shop.
LEMMA CancelInShop ==
  ASSUME IInv, NEW o \in Orders, CancelOrder(o)
  PROVE  Promise!Next
<1> DEFINE qty == [s \in Skus |-> IF policy[s] = "tracked" THEN placed[o].cart[s] ELSE 0]
<1>1. stock' = [s \in Skus |-> stock[s] + qty[s]]
  BY DEF CancelOrder
<1>2. \A s \in Skus : qty[s] = Promise!Goods(placed[o].cart, s)
  BY DEF Promise!Goods, Promise!Counted
<1> HIDE DEF qty
<1>3. stock' = [s \in Skus |-> stock[s] + Promise!Goods(placed[o].cart, s)]
  BY <1>1, <1>2
<1>4. Promise!Cancel(o)
  BY <1>3 DEF CancelOrder, Promise!Cancel
<1> QED
  BY <1>4 DEF Promise!Next

\* What the owner does to a shelf is a Tend of Shop.
LEMMA OwnerInShop ==
  ASSUME IInv, IInv', NEW s \in Skus, Owner(s)
  PROVE  [Promise!Next]_seen
<1>1. stock \in [Skus -> Nat] /\ stock' \in [Skus -> Nat] /\ active \in [Skus -> BOOLEAN]
  BY DEF IInv, TypeOK
<1>2. CASE Look(s)
  BY <1>2 DEF Look, book, seen
<1>3. ASSUME NEW q, stock' = [stock EXCEPT ![s] = q],
             UNCHANGED <<policy, active, status, placed, claim>>
      PROVE  Promise!Next
  <2>1. stock' = [stock EXCEPT ![s] = stock'[s]] /\ stock'[s] >= 0
    BY <1>1, <1>3
  <2>2. active' = [active EXCEPT ![s] = active[s]] /\ active[s] \in BOOLEAN
    BY <1>1, <1>3
  <2> QED
    BY <1>3, <2>1, <2>2 DEF Promise!Next, Promise!Tend
<1>4. CASE SetActive(s)
  <2>1. stock' = [stock EXCEPT ![s] = stock'[s]] /\ stock'[s] >= 0
    BY <1>1, <1>4 DEF SetActive
  <2>2. active' = [active EXCEPT ![s] = ~active[s]]
    BY <1>4 DEF SetActive
  <2>3. (~active[s]) \in BOOLEAN
    BY Zenon
  <2> QED
    BY <1>4, <2>1, <2>2, <2>3 DEF Promise!Next, Promise!Tend, SetActive, book
<1> QED
  BY <1>2, <1>3, <1>4 DEF Owner, SetStock, AdjustStock, book

\* Every step is one of Shop, or changes nothing Shop sees.
LEMMA StepInShop ==
  ASSUME IInv, IInv', TakenOnSale, [Next]_vars
  PROVE  [Promise!Next]_seen
<1>1. ASSUME NEW h \in Handlers, Checkout(h) PROVE [Promise!Next]_seen
  BY <1>1, PlaceInShop DEF Checkout, Claim, Price, OpenLink, Reserve, WriteOrder, Abandon,
                           CommitFails, shelf, book, seen
<1>2. ASSUME NEW k \in Keys, NEW r \in Request, Replay(k, r) PROVE [Promise!Next]_seen
  BY <1>2 DEF Replay, shelf, seen
<1>3. ASSUME NEW o \in Orders, CancelOrder(o) \/ Deliver(o) PROVE [Promise!Next]_seen
  <2>1. CASE Deliver(o)
    BY <2>1 DEF Deliver, Promise!Next, Promise!Deliver, shelf
  <2> QED
    BY <1>3, <2>1, CancelInShop
<1>4. ASSUME NEW s \in Skus, Owner(s) PROVE [Promise!Next]_seen
  BY <1>4, OwnerInShop
<1>5. CASE UNCHANGED vars
  BY <1>5 DEF vars, shelf, book, seen
<1> QED
  BY <1>1, <1>2, <1>3, <1>4, <1>5 DEF Next

\* Every behaviour of Spec is one of Shop: whatever happens between pricing and
\* commit, an order appears with its goods taken from a shelf that held them,
\* counted variants on sale at that moment, and gives them back at most once.
THEOREM ShopImplemented == Spec => ImplementsShop
<1>1. Init => Promise!Init
  <2> SUFFICES ASSUME Init PROVE Promise!Init
    OBVIOUS
  <2>1. ASSUME NEW s \in Skus PROVE stock[s] >= 0 /\ active[s]
    <3>1. stock[s] \in Nat
      BY CountsAssumption DEF Init
    <3>2. active[s]
      BY DEF Init
    <3> QED
      BY <3>1, <3>2
  <2> QED
    BY <2>1 DEF Init, Promise!Init
<1>2. Init => TakenOnSale
  BY DEF Init, TakenOnSale, Holding, Busy
<1>3. IInv /\ TakenOnSale /\ [Next]_vars => TakenOnSale'
  BY SaleHolds
<1>4. IInv /\ IInv' /\ TakenOnSale /\ [Next]_vars => [Promise!Next]_seen
  BY StepInShop
<1>5. [Promise!Next]_seen <=> [Promise!Next]_Promise!vars
  BY DEF seen, Promise!vars
<1> QED
  BY <1>1, <1>2, <1>3, <1>4, <1>5, Invariance, PTL DEF Spec, ImplementsShop, Promise!Spec

=============================================================================
