-------------------------- MODULE CatalogueProofs ---------------------------
(***************************************************************************)
(* Catalogue keeps its invariant for any number of variants, lists, carts, *)
(* orders, requests and runs of the seed script.                           *)
(***************************************************************************)
EXTENDS Catalogue, TLAPS

Txns == Txn \cup {Idle}

\* An open transaction is a record of the kind its operation says.
LEMMA TxnKinds ==
  ASSUME TypeOK, NEW h \in Sessions
  PROVE  /\ Doing(h, "opened")   => txn[h] \in Opened
         /\ Doing(h, "staff")    => txn[h] \in Staff
         /\ Doing(h, "seed")     => txn[h] \in Seed
         /\ Doing(h, "checkout") => txn[h] \in Checkout
BY DEF TypeOK, Doing, Txn, Opened, Staff, Seed, Checkout

\* The minimum of two integers is one of them and bounds both.
LEMMA LesserOfTwo ==
  ASSUME NEW a \in Int, NEW b \in Int
  PROVE  Min({a, b}) \in {a, b} /\ Min({a, b}) <= a /\ Min({a, b}) <= b
<1>1. \E x \in {a, b} : \A y \in {a, b} : x <= y
  OBVIOUS
<1>2. Min({a, b}) \in {a, b} /\ \A y \in {a, b} : Min({a, b}) <= y
  BY <1>1 DEF Min
<1> QED
  BY <1>2

-----------------------------------------------------------------------------
(* The invariant, said of what each handler is doing.                       *)

\* Transaction t has the row of s.
Keeps(t, s) ==
  /\ t # Idle
  /\ \/ t.op = "staff" /\ t.sku = s
     \/ t.op = "seed" /\ s \in t.gone
     \/ t.op = "checkout" /\ s \in t.took

Buys(t) == t # Idle /\ t.op = "checkout"
Writes(t) == t # Idle /\ t.op \in {"opened", "staff", "seed"}

StaffSound(t) == t # Idle /\ t.op = "staff" => t.sku \in listed /\ t.old = row[t.sku]

CheckoutSound(t) == Buys(t) =>
  /\ offer[t.order] # NoOffer /\ charged[t.order] = NoTotal
  /\ offer[t.order].total \in {t.total, NoTotal}
  /\ t.tracked \cup t.took \subseteq Lines(offer[t.order].cart)
  /\ t.took \subseteq listed
  /\ \A s \in t.took : stock[s] >= offer[t.order].cart[s]

EntriesSound(t) == Buys(t) =>
  \A s \in Lines(offer[t.order].cart) \ strayed :
    /\ s \in t.tracked <=> row[s].policy = "tracked"
    /\ t.reserved => (s \in t.took <=> s \in t.tracked)

DateSound(t) == Writes(t) => t.began \in 1..clock /\ \A e \in audit : e.at # t.began

\* What it has read is as it was read.
Reads(t) == StaffSound(t) /\ CheckoutSound(t) /\ EntriesSound(t)

Sound(t) == Reads(t) /\ DateSound(t)

\* Two transactions that do not get into each other's way.
Apart(t, u) ==
  /\ \A s \in Skus : ~(Keeps(t, s) /\ Keeps(u, s))
  /\ ~(Buys(t) /\ Buys(u) /\ t.order = u.order)
  /\ ~(Writes(t) /\ Writes(u) /\ t.began = u.began)

Sessional ==
  /\ \A h \in Sessions : Sound(txn[h])
  /\ \A g, h \in Sessions : g # h => Apart(txn[g], txn[h])

\* A session holds the row of a variant when its transaction keeps it.
LEMMA HoldsByKeeps ==
  \A h, s : Holds(h, s) <=> Keeps(txn[h], s)
BY DEF Holds, Keeps, Doing

\* The invariants about open transactions, one transaction or pair at a time.
LEMMA SessionalParts ==
  DatesApart /\ StaffReadCurrent /\ LocksApart /\ CheckoutsSound /\ EntriesAsTaken
    <=> Sessional
<1>1. StaffReadCurrent <=> \A h \in Sessions : StaffSound(txn[h])
  BY DEF StaffReadCurrent, StaffSound, Doing
<1>2. LocksApart <=> \A g, h \in Sessions : g # h =>
                       \A s \in Skus : ~(Keeps(txn[g], s) /\ Keeps(txn[h], s))
  BY HoldsByKeeps DEF LocksApart
<1>3. CheckoutsSound <=> /\ \A h \in Sessions : CheckoutSound(txn[h])
                         /\ \A g, h \in Sessions : g # h =>
                              ~(Buys(txn[g]) /\ Buys(txn[h]) /\ txn[g].order = txn[h].order)
  BY DEF CheckoutsSound, CheckoutSound, Buys, Doing
<1>4. EntriesAsTaken <=> \A h \in Sessions : EntriesSound(txn[h])
  BY DEF EntriesAsTaken, EntriesSound, Buys, Doing
<1>5. DatesApart <=> /\ \A h \in Sessions : DateSound(txn[h])
                     /\ \A g, h \in Sessions : g # h =>
                          ~(Writes(txn[g]) /\ Writes(txn[h]) /\ txn[g].began = txn[h].began)
  <2>1. \A h : Writing(h) <=> Writes(txn[h])
    BY DEF Writing, Writes, Doing
  <2> QED
    BY <2>1 DEF DatesApart, DateSound
<1> QED
  BY <1>1, <1>2, <1>3, <1>4, <1>5 DEF Sessional, Sound, Reads, Apart

\* IInv with those invariants gathered.
LEMMA SessionalInv ==
  IInv <=> TypeOK /\ AuditExplains /\ SeedKeepsShelf /\ ChargedAsShown /\ LogDated /\ Sessional
BY SessionalParts DEF IInv

\* The same in the next state.
LEMMA SessionalInvNext ==
  IInv' <=> /\ TypeOK' /\ AuditExplains' /\ SeedKeepsShelf' /\ ChargedAsShown' /\ LogDated'
            /\ Sessional'
BY SessionalParts, PTL DEF IInv

-----------------------------------------------------------------------------
(* Steps that only touch the transaction of h.                              *)

\* What t may take over from the transaction of h without meeting another one.
Admits(h, t) ==
  /\ \A s \in Skus : Keeps(t, s) => Keeps(txn[h], s) \/ ~Locked(h, s)
  /\ Buys(t) => \A g \in Sessions \ {h} : ~(Buys(txn[g]) /\ txn[g].order = t.order)

\* Its date is its own.
Dated(h, t) == Writes(t) =>
  /\ \A e \in audit : e.at # t.began
  /\ \A g \in Sessions \ {h} : ~(Writes(txn[g]) /\ txn[g].began = t.began)

\* A session may go on to a transaction that is sound and that the others admit,
\* while the clock may tick.
LEMMA DatedStep ==
  ASSUME IInv, NEW h \in Sessions, NEW t \in Txns, Goes(h, t),
         UNCHANGED <<rows, audit, wrote, sales>>, clock' \in Nat, clock' >= clock,
         Reads(t), Admits(h, t), Dated(h, t), Writes(t) => t.began \in 1..clock'
  PROVE  IInv'
<1> USE DEF rows, sales
<1>1. TypeOK /\ Sessional
  BY SessionalInv
<1>2. TypeOK'
  BY <1>1 DEF TypeOK, Goes, Txns
<1>3. AuditExplains' /\ SeedKeepsShelf' /\ ChargedAsShown'
  BY DEF IInv, AuditExplains, SeedKeepsShelf, ChargedAsShown
<1>4. LogDated'
  BY <1>1 DEF IInv, LogDated, TypeOK
<1>5. txn'[h] = t /\ \A g \in Sessions \ {h} : txn'[g] = txn[g]
  BY <1>1 DEF TypeOK, Goes
<1>6. ASSUME NEW g \in Sessions PROVE Sound(txn[g])'
  <2>1. Reads(txn'[g])
    BY <1>1, <1>5 DEF Sessional, Sound
  <2>2. Reads(txn[g])'
    BY <2>1 DEF Reads, StaffSound, CheckoutSound, EntriesSound, Buys, Lines
  <2>3. DateSound(txn[g])'
    <3>1. CASE g = h
      BY <1>5, <3>1 DEF DateSound, Dated, Writes
    <3>2. CASE g # h
      <4>1. DateSound(txn[g]) /\ txn'[g] = txn[g]
        BY <1>1, <1>5, <3>2 DEF Sessional, Sound
      <4> QED
        BY <1>1, <4>1 DEF DateSound, Writes, TypeOK
    <3> QED
      BY <3>1, <3>2
  <2> QED
    BY <2>2, <2>3 DEF Sound
<1>7. ASSUME NEW g \in Sessions, NEW k \in Sessions, g # k PROVE Apart(txn[g], txn[k])'
  <2>1. ASSUME NEW j \in Sessions \ {h} PROVE Apart(t, txn[j]) /\ Apart(txn[j], t)
    <3>1. Apart(txn[h], txn[j])
      BY <1>1 DEF Sessional
    <3>2. ASSUME NEW s \in Skus PROVE ~(Keeps(t, s) /\ Keeps(txn[j], s))
      BY <3>1, HoldsByKeeps DEF Admits, Locked, Apart
    <3> QED
      BY <3>2 DEF Apart, Admits, Dated
  <2>2. Apart(txn'[g], txn'[k])
    <3>1. CASE g = h
      BY <2>1, <1>5, <1>7, <3>1
    <3>2. CASE k = h
      BY <2>1, <1>5, <1>7, <3>2
    <3>3. CASE g # h /\ k # h
      BY <1>1, <1>5, <1>7, <3>3 DEF Sessional
    <3> QED
      BY <3>1, <3>2, <3>3
  <2> QED
    BY <2>2 DEF Apart, Keeps, Buys, Writes
<1> QED
  BY <1>2, <1>3, <1>4, <1>6, <1>7, SessionalInvNext DEF Sessional

\* A transaction that goes on keeps its date.
LEMMA TxnStep ==
  ASSUME IInv, NEW h \in Sessions, NEW t \in Txns, Goes(h, t), UNCHANGED <<rows, log, sales>>,
         Reads(t), Admits(h, t), Writes(t) => Writes(txn[h]) /\ t.began = txn[h].began
  PROVE  IInv'
<1>1. TypeOK /\ Sessional
  BY SessionalInv
<1>2. clock' = clock /\ clock \in Nat /\ UNCHANGED <<rows, audit, wrote, sales>>
  BY <1>1 DEF log, TypeOK
<1>3. Dated(h, t) /\ (Writes(t) => t.began \in 1..clock')
  BY <1>1, <1>2 DEF Sessional, Sound, DateSound, Apart, Dated
<1> QED
  BY <1>2, <1>3, DatedStep

\* A session may always end its transaction.
LEMMA Idling ==
  ASSUME NEW h \in Sessions
  PROVE  Reads(Idle) /\ Admits(h, Idle) /\ Idle \in Txns /\ ~Writes(Idle)
BY DEF Reads, StaffSound, CheckoutSound, EntriesSound, Buys, Admits, Keeps, Txns, Writes

\* A rollback keeps the invariant.
LEMMA AbortKeeps ==
  ASSUME IInv, NEW h \in Sessions, Abort(h)
  PROVE  IInv'
BY TxnStep, Idling DEF Abort, Close

\* now() is later than every date given out before.
LEMMA OpenKeeps ==
  ASSUME IInv, NEW h \in Sessions, Open(h)
  PROVE  IInv'
<1> DEFINE t == [op |-> "opened", began |-> clock + 1]
<1>1. TypeOK /\ Sessional /\ LogDated
  BY SessionalInv
<1>2. t \in Opened /\ t.began = clock + 1 /\ t.op = "opened" /\ clock \in Nat
  BY <1>1 DEF Opened, TypeOK
<1>3. Goes(h, t) /\ clock' = clock + 1 /\ UNCHANGED <<rows, audit, wrote, sales>>
  BY DEF Open
<1> HIDE DEF t
<1>4. t \in Txns /\ t # Idle
  BY <1>2, MarkersAssumption DEF Txns, Txn
<1>5. Reads(t) /\ Admits(h, t)
  BY <1>2 DEF Reads, StaffSound, CheckoutSound, EntriesSound, Buys, Admits, Keeps
<1>6. Dated(h, t)
  <2>1. \A e \in audit : e.at # t.began
    BY <1>1, <1>2 DEF LogDated
  <2>2. ASSUME NEW g \in Sessions, Writes(txn[g]) PROVE txn[g].began # t.began
    BY <1>1, <1>2, <2>2 DEF Sessional, Sound, DateSound
  <2> QED
    BY <2>1, <2>2 DEF Dated
<1> QED
  BY <1>2, <1>3, <1>4, <1>5, <1>6, DatedStep

\* A staff route reads the row it locks.
LEMMA StaffBeginKeeps ==
  ASSUME IInv, NEW h \in Sessions, NEW s \in Skus, NEW sure \in BOOLEAN, StaffBegin(h, s, sure)
  PROVE  IInv'
<1> DEFINE t == [op |-> "staff", began |-> txn[h].began, sku |-> s, old |-> row[s],
                 sure |-> sure]
<1>1. txn[h] \in Opened /\ Writes(txn[h])
  BY TxnKinds DEF IInv, StaffBegin, Doing, Writes
<1>2. t \in Txns /\ s \in listed
  BY <1>1 DEF IInv, TypeOK, StaffBegin, Txns, Txn, Staff, Opened
<1>3. Reads(t)
  BY <1>2 DEF Reads, StaffSound, CheckoutSound, EntriesSound, Buys
<1>4. Admits(h, t)
  BY DEF Admits, Keeps, Buys, StaffBegin
<1> QED
  BY <1>1, <1>2, <1>3, <1>4, TxnStep DEF StaffBegin

\* A seeding run starts with nothing read.
LEMMA SeedBeginKeeps ==
  ASSUME IInv, NEW h \in Sessions, NEW l \in Lists, SeedBegin(h, l)
  PROVE  IInv'
<1> DEFINE gone == {s \in listed : l[s].fate \in {"retired", "renamed"}}
           t == [op |-> "seed", began |-> txn[h].began, list |-> l, gone |-> gone,
                 seen |-> {}, had |-> {}, read |-> [s \in Skus |-> l[s].terms]]
<1>1. l \in [Skus -> Entry] /\ \A s \in Skus : l[s].terms \in Terms
  BY InputsAssumption DEF Entry
<1>2. t \in Seed /\ Writes(txn[h])
  <2>1. gone \in SUBSET Skus
    BY DEF IInv, TypeOK
  <2>2. txn[h] \in Opened /\ Writes(txn[h])
    BY TxnKinds DEF IInv, SeedBegin, Doing, Writes
  <2> HIDE DEF gone
  <2> QED
    BY <1>1, <2>1, <2>2 DEF Seed, Opened
<1>3. t \in Txns /\ t # Idle
  BY <1>2, MarkersAssumption DEF Txns, Txn
<1>4. Reads(t) /\ t.began = txn[h].began
  BY DEF Reads, StaffSound, CheckoutSound, EntriesSound, Buys
<1>5. Admits(h, t)
  BY DEF Admits, Keeps, Buys, SeedBegin
<1>6. Goes(h, t)
  BY DEF SeedBegin
<1>7. UNCHANGED <<rows, log, sales>>
  BY DEF SeedBegin
<1> HIDE DEF t
<1> QED
  BY <1>2, <1>3, <1>4, <1>5, <1>6, <1>7, TxnStep

\* It reads one variant, or finds that there is none yet.
LEMMA SeedReadKeeps ==
  ASSUME IInv, NEW h \in Sessions, NEW s \in Skus, SeedRead(h, s)
  PROVE  IInv'
<1>1. TypeOK /\ txn[h] \in Seed /\ txn[h] # Idle
  BY TxnKinds DEF IInv, SeedRead, Doing
<1>2. PICK had \in SUBSET Skus, seen \in SUBSET Skus, read \in [Skus -> Terms] :
        Goes(h, [txn[h] EXCEPT !.seen = seen, !.had = had, !.read = read])
  <2>1. CASE s \in listed \ txn[h].gone
    <3>1. txn[h].had \cup {s} \in SUBSET Skus /\ txn[h].seen \cup {s} \in SUBSET Skus
      BY <1>1 DEF Seed
    <3>2. [txn[h].read EXCEPT ![s] = row[s]] \in [Skus -> Terms]
      BY <1>1 DEF Seed, TypeOK
    <3>3. Goes(h, [txn[h] EXCEPT !.seen = txn[h].seen \cup {s}, !.had = txn[h].had \cup {s},
                                 !.read = [txn[h].read EXCEPT ![s] = row[s]]])
      BY <1>1, <2>1 DEF SeedRead, Seed
    <3> QED
      BY <3>1, <3>2, <3>3
  <2>2. CASE s \notin listed \ txn[h].gone
    <3>1. txn[h].had \in SUBSET Skus /\ txn[h].seen \cup {s} \in SUBSET Skus
                                     /\ txn[h].read \in [Skus -> Terms]
      BY <1>1 DEF Seed
    <3>2. [txn[h] EXCEPT !.seen = txn[h].seen \cup {s}]
            = [txn[h] EXCEPT !.seen = txn[h].seen \cup {s}, !.had = txn[h].had,
                             !.read = txn[h].read]
      BY <1>1 DEF Seed
    <3>3. Goes(h, [txn[h] EXCEPT !.seen = txn[h].seen \cup {s}])
      BY <2>2 DEF SeedRead
    <3> QED
      BY <3>1, <3>2, <3>3
  <2> QED
    BY <2>1, <2>2
<1> DEFINE t == [txn[h] EXCEPT !.seen = seen, !.had = had, !.read = read]
<1>3. t \in Seed /\ t.op = "seed" /\ t.gone = txn[h].gone /\ t.began = txn[h].began
      /\ Writes(txn[h])
  BY <1>1 DEF Seed, Writes
<1>4. t \in Txns /\ t # Idle
  BY <1>3, MarkersAssumption DEF Txns, Txn
<1> HIDE DEF t
<1>5. Reads(t)
  BY <1>3 DEF Reads, StaffSound, CheckoutSound, EntriesSound, Buys
<1>6. Admits(h, t)
  BY <1>1, <1>3 DEF Admits, Keeps, Buys, Seed
<1> QED
  BY <1>2, <1>3, <1>4, <1>5, <1>6, TxnStep DEF SeedRead, t


-----------------------------------------------------------------------------
(* What a cart costs.                                                       *)

\* sellable_qty never exceeds the cap per order, nor a counted shelf.
LEMMA SellableBounds ==
  ASSUME TypeOK, NEW s \in Skus
  PROVE  SellableQty(s) \in 0..MaxPerOrder /\ (row[s].policy = "tracked" => SellableQty(s) <= stock[s])
<1>1. MaxPerOrder \in Nat /\ stock[s] \in Nat
  BY NumbersAssumption DEF TypeOK
<1>2. /\ Min({stock[s], MaxPerOrder}) \in {stock[s], MaxPerOrder}
      /\ Min({stock[s], MaxPerOrder}) <= stock[s] /\ Min({stock[s], MaxPerOrder}) <= MaxPerOrder
  <2>1. stock[s] \in Int /\ MaxPerOrder \in Int
    BY <1>1
  <2> QED
    BY <2>1, LesserOfTwo
<1> QED
  BY <1>1, <1>2 DEF SellableQty

\* A priced line is for no more than may be sold.
LEMMA LineBounds ==
  ASSUME TypeOK, NEW cart \in Carts, NEW s \in Skus
  PROVE  LineQty(cart)[s] \in 0..MaxPerOrder /\ LineQty(cart)[s] <= SellableQty(s)
<1>1. cart[s] \in Nat /\ SellableQty(s) \in 0..MaxPerOrder
  BY SellableBounds, InputsAssumption
<1>2. LET m == Min({cart[s], SellableQty(s)})
      IN  m \in {cart[s], SellableQty(s)} /\ m <= cart[s] /\ m <= SellableQty(s)
  BY <1>1, LesserOfTwo
<1>3. LineQty(cart)[s] = Min({cart[s], SellableQty(s)})
  BY DEF LineQty
<1> QED
  BY <1>1, <1>2, <1>3, NumbersAssumption

\* A priced cart adds up to an amount.
LEMMA BillIsTotal ==
  ASSUME TypeOK, NEW cart \in Carts
  PROVE  Bill(LineQty(cart), PriceOf) \in Totals
<1>1. LineQty(cart) \in Quantities
  <2>1. \A s \in Skus : LineQty(cart)[s] \in 0..MaxPerOrder
    BY LineBounds
  <2> QED
    BY <2>1 DEF LineQty, Quantities
<1>2. PriceOf \in [Skus -> Prices]
  BY DEF TypeOK, Terms, PriceOf
<1> QED
  BY <1>1, <1>2 DEF Totals

\* A quote shows the customer the prices of that moment.
LEMMA QuoteKeeps ==
  ASSUME IInv, NEW o \in Orders, NEW cart \in Carts, Quote(o, cart)
  PROVE  IInv'
<1> USE DEF rows
<1>1. TypeOK /\ Sessional
  BY SessionalInv
<1>2. PICK total \in Totals \cup {NoTotal} :
        offer' = [offer EXCEPT ![o] = [cart |-> cart, total |-> total]]
  BY <1>1, BillIsTotal DEF Quote
<1>3. [cart |-> cart, total |-> total] \in Offer
  BY DEF Offer
<1>4. TypeOK'
  BY <1>1, <1>2, <1>3 DEF TypeOK, Quote, log
<1>5. AuditExplains' /\ SeedKeepsShelf' /\ LogDated'
  BY DEF IInv, AuditExplains, SeedKeepsShelf, LogDated, Quote, log
<1>6. \A p \in Orders \ {o} : offer'[p] = offer[p]
  BY <1>1, <1>2 DEF TypeOK
<1>7. ChargedAsShown'
  BY <1>6 DEF IInv, ChargedAsShown, Quote
<1>8. \A h \in Sessions : Buys(txn[h]) => txn[h].order \in Orders \ {o}
  BY <1>1, TxnKinds DEF Quote, Doing, Buys, Checkout
<1>9. ASSUME NEW h \in Sessions PROVE Sound(txn[h])'
  <2>1. Sound(txn[h])
    BY <1>1 DEF Sessional
  <2> QED
    BY <2>1, <1>6, <1>8 DEF Sound, Reads, StaffSound, CheckoutSound, EntriesSound, DateSound,
       Buys, Writes, Lines, Quote, log
<1>10. ASSUME NEW g \in Sessions, NEW k \in Sessions, g # k PROVE Apart(txn[g], txn[k])'
  BY <1>1, <1>10 DEF Sessional, Quote, Apart, Keeps, Buys, Writes
<1> QED
  BY <1>4, <1>5, <1>7, <1>9, <1>10, SessionalInvNext DEF Sessional

\* create_order prices the cart again from the rows it reads.
LEMMA PriceKeeps ==
  ASSUME IInv, NEW h \in Sessions, NEW o \in Orders, Price(h, o)
  PROVE  IInv'
<1>1. TypeOK
  BY DEF IInv
<1>2. offer[o] \in Offer /\ offer[o].cart \in Carts
  BY <1>1 DEF Price, Accepts, TypeOK, Offer
<1> DEFINE total   == Bill(LineQty(offer[o].cart), PriceOf)
           tracked == {s \in Lines(offer[o].cart) : row[s].policy = "tracked"}
           t == [op |-> "checkout", order |-> o, total |-> total, reserved |-> FALSE,
                 tracked |-> tracked, took |-> {}]
<1>3. total \in Totals /\ offer[o].total \in {total, NoTotal}
  BY <1>1, <1>2, BillIsTotal DEF Price, Accepts
<1>4. tracked \subseteq Skus /\ tracked \subseteq Lines(offer[o].cart)
  BY DEF Lines
<1>5. Goes(h, t)
  BY DEF Price
<1>6. \A s \in Lines(offer[o].cart) : s \in tracked <=> row[s].policy = "tracked"
  OBVIOUS
<1> HIDE DEF total, tracked
<1>7. t \in Checkout
  BY <1>3, <1>4 DEF Checkout
<1>8. t \in Txns /\ t # Idle /\ ~Writes(t)
  BY <1>7, MarkersAssumption DEF Txns, Txn, Writes
<1>9. Reads(t)
  <2>1. CheckoutSound(t)
    BY <1>3, <1>4 DEF CheckoutSound, Price, Accepts
  <2>2. EntriesSound(t)
    BY <1>6 DEF EntriesSound
  <2> QED
    BY <2>1, <2>2 DEF Reads, StaffSound
<1>10. Admits(h, t)
  BY DEF Admits, Keeps, Buys, Price, Doing
<1> QED
  BY <1>5, <1>8, <1>9, <1>10, TxnStep DEF Price

\* It takes the rows it reserves when nobody else holds them.
LEMMA ReserveKeeps ==
  ASSUME IInv, NEW h \in Sessions, Reserve(h)
  PROVE  IInv'
<1>1. TypeOK /\ Sound(txn[h]) /\ txn[h] \in Checkout /\ txn[h] # Idle /\ Buys(txn[h])
  BY TxnKinds, SessionalInv DEF Sessional, Reserve, Doing, Buys
<1> DEFINE cart == offer[txn[h].order].cart
           took == {s \in Lines(cart) : row[s].policy = "tracked"}
           t    == [txn[h] EXCEPT !.reserved = TRUE, !.took = took]
<1>2. took \subseteq Skus /\ took \subseteq Lines(cart)
  BY DEF Lines
<1>3. ASSUME NEW s \in took PROVE ~Locked(h, s) /\ s \in listed /\ stock[s] >= cart[s]
  <2>1. s \in Lines(cart) /\ row[s].policy = "tracked"
    BY <1>3
  <2>2. \A z \in Lines(cart) : Reservable(z, cart[z]) /\ (row[z].policy = "tracked" => ~Locked(h, z))
    BY DEF Reserve
  <2>3. Reservable(s, cart[s]) /\ ~Locked(h, s)
    BY <2>1, <2>2
  <2> QED
    BY <2>1, <2>3 DEF Reservable
<1>4. Goes(h, t)
  BY DEF Reserve
<1>5. \A s \in Lines(cart) : s \in took <=> row[s].policy = "tracked"
  OBVIOUS
<1> HIDE DEF took
<1>6. /\ t \in Checkout
      /\ t.op = "checkout" /\ t.order = txn[h].order /\ t.total = txn[h].total
      /\ t.tracked = txn[h].tracked /\ t.took = took
  BY <1>1, <1>2 DEF Checkout
<1> HIDE DEF t
<1>7. t \in Txns /\ t # Idle /\ ~Writes(t)
  BY <1>6, MarkersAssumption DEF Txns, Txn, Writes
<1>8. Reads(t)
  <2>1. CheckoutSound(t)
    BY <1>1, <1>2, <1>3, <1>6 DEF Sound, Reads, CheckoutSound, Buys
  <2>2. EntriesSound(t)
    BY <1>1, <1>5, <1>6 DEF Sound, Reads, EntriesSound, Buys
  <2> QED
    BY <1>6, <2>1, <2>2 DEF Reads, StaffSound
<1>9. Admits(h, t)
  <2>1. \A s \in Skus : Keeps(t, s) => ~Locked(h, s)
    BY <1>3, <1>6 DEF Keeps
  <2>2. \A g \in Sessions \ {h} : ~(Buys(txn[g]) /\ txn[g].order = t.order)
    BY <1>1, <1>6, SessionalInv DEF Sessional, Apart
  <2> QED
    BY <2>1, <2>2 DEF Admits
<1> QED
  BY <1>4, <1>7, <1>8, <1>9, TxnStep DEF Reserve


-----------------------------------------------------------------------------
(* Commits.                                                                 *)

\* A transaction that ends leaves the others what they rely on.
LEMMA CloseStep ==
  ASSUME TypeOK, Sessional, NEW h \in Sessions, Close(h),
         \A g \in Sessions \ {h} : Sound(txn[g])'
  PROVE  txn' \in [Sessions -> Txns] /\ Sessional'
<1>1. txn' = [txn EXCEPT ![h] = Idle] /\ txn \in [Sessions -> Txns]
  BY DEF TypeOK, Txns, Close, Goes
<1>2. txn'[h] = Idle /\ \A g \in Sessions \ {h} : txn'[g] = txn[g]
  BY <1>1
<1>3. \A g \in Sessions : Sound(txn[g])'
  <2>1. Sound(txn[h])'
    BY <1>2 DEF Sound, Reads, StaffSound, CheckoutSound, EntriesSound, DateSound, Buys, Writes
  <2> QED
    BY <2>1
<1>4. ASSUME NEW g \in Sessions, NEW k \in Sessions, g # k PROVE Apart(txn[g], txn[k])'
  <2>1. CASE g # h /\ k # h
    BY <1>2, <1>4, <2>1 DEF Sessional, Apart, Keeps, Buys, Writes
  <2>2. CASE g = h \/ k = h
    BY <1>2, <1>4, <2>2 DEF Apart, Keeps, Buys, Writes
  <2> QED
    BY <2>1, <2>2
<1> QED
  BY <1>1, <1>3, <1>4 DEF Sessional, Txns

\* The entries made say what has become of the rows that were there before.
Explained(made, inserted) ==
  /\ listed' \subseteq Skus /\ listed' \ inserted \subseteq listed
  /\ \A s \in listed' \ inserted, f \in Fields :
       /\ row'[s][f] # row[s][f] => \E e \in made : e.sku = s /\ e.was[f] # e.now[f]
       /\ \A e \in made : e.sku = s /\ e.was[f] # e.now[f] => e.now[f] = row'[s][f]

\* A transaction that writes enters its changes under its own date.
LEMMA LogStep ==
  ASSUME IInv, NEW h \in Sessions, Writes(txn[h]), NEW made \in SUBSET CatalogAudit,
         NEW inserted \in SUBSET Skus,
         audit' = audit \cup made, wrote' = Written(txn[h].began, inserted), clock' = clock,
         \A e \in made : e.at = txn[h].began, Explained(made, inserted)
  PROVE  /\ AuditExplains' /\ LogDated'
         /\ audit' \subseteq CatalogAudit /\ wrote' \in [Skus -> [Fields -> Nat]]
         /\ \A g \in Sessions \ {h} : Writes(txn[g]) => \A e \in audit' : e.at # txn[g].began
<1> DEFINE b == txn[h].began
<1>1. TypeOK /\ Sessional /\ LogDated /\ AuditExplains
  BY SessionalInv
<1>2. b \in 1..clock /\ clock \in Nat /\ \A e \in audit : e.at # b
  BY <1>1 DEF Sessional, Sound, DateSound, TypeOK
<1>3. ASSUME NEW s \in Skus, NEW f \in Fields
      PROVE  wrote'[s][f] = IF s \in inserted THEN 0
                            ELSE IF row'[s][f] # row[s][f] THEN b ELSE wrote[s][f]
  BY <1>3 DEF Written
<1>4. wrote' \in [Skus -> [Fields -> Nat]]
  <2>1. \A s \in Skus, f \in Fields : wrote[s][f] \in Nat /\ b \in Nat
    BY <1>1, <1>2 DEF TypeOK
  <2> HIDE DEF b
  <2>2. \A s \in Skus : [f \in Fields |->
          IF s \in inserted THEN 0 ELSE IF row'[s][f] # row[s][f] THEN b ELSE wrote[s][f]]
            \in [Fields -> Nat]
    BY <2>1
  <2> QED
    BY <2>2 DEF Written, b
<1>5. audit' \subseteq CatalogAudit /\ LogDated'
  BY <1>1, <1>2 DEF TypeOK, LogDated
<1>6. AuditExplains'
  <2>1. SUFFICES ASSUME NEW s \in listed', NEW f \in Fields, wrote'[s][f] # 0
                 PROVE  /\ \E e \in audit' : e.sku = s /\ e.at = wrote'[s][f] /\ e.was[f] # e.now[f]
                        /\ \A e \in audit' : e.sku = s /\ e.at = wrote'[s][f] /\ e.was[f] # e.now[f]
                             => e.now[f] = row'[s][f]
    BY DEF AuditExplains
  <2>2. s \in Skus /\ s \notin inserted /\ s \in listed
    BY <1>3, <2>1 DEF Explained
  <2>3. CASE row'[s][f] # row[s][f]
    <3>1. wrote'[s][f] = b
      BY <1>3, <2>2, <2>3
    <3>2. \E e \in made : e.sku = s /\ e.was[f] # e.now[f]
      BY <2>1, <2>2, <2>3 DEF Explained
    <3>3. \A e \in audit' : e.at = b => e \in made
      BY <1>2
    <3> QED
      BY <2>1, <2>2, <3>1, <3>2, <3>3 DEF Explained
  <2>4. CASE row'[s][f] = row[s][f]
    <3>1. wrote'[s][f] = wrote[s][f]
      BY <1>3, <2>2, <2>4
    <3>2. PICK e \in audit : e.sku = s /\ e.at = wrote[s][f] /\ e.was[f] # e.now[f]
      BY <1>1, <2>1, <2>2, <3>1 DEF AuditExplains
    <3>3. wrote[s][f] # b
      BY <1>2, <3>2
    <3>4. \A d \in audit' : d.at = wrote[s][f] => d \in audit
      BY <3>3
    <3>5. \A d \in audit : d.sku = s /\ d.at = wrote[s][f] /\ d.was[f] # d.now[f]
                            => d.now[f] = row[s][f]
      BY <1>1, <2>1, <2>2, <3>1 DEF AuditExplains
    <3> QED
      BY <2>4, <3>1, <3>2, <3>4, <3>5
  <2> QED
    BY <2>3, <2>4
<1>7. ASSUME NEW g \in Sessions \ {h}, Writes(txn[g])
      PROVE  \A e \in audit' : e.at # txn[g].began
  BY <1>1, <1>7 DEF Sessional, Sound, DateSound, Apart
<1> QED
  BY <1>4, <1>5, <1>6, <1>7

\* What the staff write is what the audit row says.
LEMMA UpdateKeeps ==
  ASSUME IInv, NEW h \in Sessions, Doing(h, "staff"), NEW r \in Terms,
         r.policy = row[txn[h].sku].policy, Update(h, r)
  PROVE  IInv'
<1> DEFINE s == txn[h].sku
           t == txn[h]
           made == {Record(t, s, t.old, now) : now \in {r} \ {t.old}}
<1>1. /\ TypeOK /\ Sessional /\ s \in Skus /\ s \in listed /\ Keeps(txn[h], s) /\ Writes(txn[h])
      /\ t \in Staff /\ t.old = row[s]
  BY TxnKinds, SessionalInv DEF Doing, Keeps, Staff, Writes, Sessional, Sound, Reads, StaffSound
<1>2. row'[s] = r /\ \A z \in Skus \ {s} : row'[z] = row[z]
  BY <1>1 DEF TypeOK, Update
<1>3. /\ AuditExplains' /\ LogDated'
      /\ audit' \subseteq CatalogAudit /\ wrote' \in [Skus -> [Fields -> Nat]]
      /\ \A g \in Sessions \ {h} : Writes(txn[g]) => \A e \in audit' : e.at # txn[g].began
  <2>1. made \in SUBSET CatalogAudit
    BY <1>1 DEF CatalogAudit, Record, Staff
  <2>2. \A e \in made : e.at = t.began /\ e.sku = s /\ e.was = row[s] /\ e.now = r
    BY <1>1 DEF Record
  <2>3. r # row[s] => \E e \in made : e.sku = s /\ e.was = row[s] /\ e.now = r
    <3>1. SUFFICES ASSUME r # row[s] PROVE Record(t, s, t.old, r) \in made
      BY <1>1 DEF Record
    <3> QED
      BY <1>1, <3>1
  <2>4. audit' = audit \cup made /\ wrote' = Written(t.began, {}) /\ clock' = clock
        /\ listed' = listed /\ listed \subseteq Skus
    BY <1>1 DEF Update, TypeOK
  <2> HIDE DEF made
  <2>5. ASSUME NEW z \in listed', NEW f \in Fields
        PROVE  /\ row'[z][f] # row[z][f] => \E e \in made : e.sku = z /\ e.was[f] # e.now[f]
               /\ \A e \in made : e.sku = z /\ e.was[f] # e.now[f] => e.now[f] = row'[z][f]
    <3>1. z # s => row'[z] = row[z]
      BY <1>2, <2>4, <2>5
    <3> QED
      BY <1>2, <2>2, <2>3, <3>1
  <2>6. Explained(made, {})
    BY <2>4, <2>5 DEF Explained
  <2> QED
    BY <1>1, <2>1, <2>2, <2>4, <2>6, LogStep
<1>4. SeedKeepsShelf' /\ ChargedAsShown'
  BY DEF IInv, SeedKeepsShelf, ChargedAsShown, sales, Update
<1>5. ASSUME NEW g \in Sessions \ {h} PROVE Sound(txn[g])'
  <2>1. Sound(txn[g]) /\ ~Keeps(txn[g], s) /\ txn'[g] = txn[g]
    BY <1>1 DEF Sessional, Apart, TypeOK, Update, Close, Goes
  <2>2. StaffSound(txn[g])'
    <3>1. Doing(g, "staff") => txn[g].sku \in Skus \ {s}
      BY <1>1, <2>1, TxnKinds DEF Staff, Keeps, Doing
    <3> QED
      BY <2>1, <3>1, <1>2 DEF Sound, Reads, StaffSound, Doing, Update
  <2>3. CheckoutSound(txn[g])'
    BY <2>1 DEF Sound, Reads, CheckoutSound, Buys, Lines, sales, Update
  <2>4. EntriesSound(txn[g])'
    BY <1>1, <1>2, <2>1 DEF Sound, Reads, EntriesSound, Buys, Lines, sales, Update
  <2>5. DateSound(txn[g])'
    BY <1>3, <2>1 DEF Sound, DateSound, Writes, Update
  <2> QED
    BY <2>2, <2>3, <2>4, <2>5 DEF Sound, Reads
<1>6. txn' \in [Sessions -> Txns] /\ Sessional'
  BY <1>1, <1>5, CloseStep DEF Update
<1>7. TypeOK'
  BY <1>1, <1>3, <1>6 DEF TypeOK, Txns, sales, Update
<1> QED
  BY <1>3, <1>4, <1>6, <1>7, SessionalInvNext

\* A change of price enters the audit log.
LEMMA SetPriceKeeps ==
  ASSUME IInv, NEW h \in Sessions, NEW p \in Prices, SetPrice(h, p)
  PROVE  IInv'
<1> DEFINE r == [row[txn[h].sku] EXCEPT !.price = p]
<1>1. Doing(h, "staff") /\ row[txn[h].sku] \in Terms
  BY TxnKinds DEF SetPrice, IInv, TypeOK, Staff
<1>2. r \in Terms /\ r.policy = row[txn[h].sku].policy
  BY <1>1 DEF Terms
<1>3. Update(h, r)
  BY DEF SetPrice
<1> HIDE DEF r
<1> QED
  BY <1>1, <1>2, <1>3, UpdateKeeps

\* So does a change of the on-sale switch.
LEMMA SetActiveKeeps ==
  ASSUME IInv, NEW h \in Sessions, NEW b \in BOOLEAN, SetActive(h, b)
  PROVE  IInv'
<1> DEFINE r == [row[txn[h].sku] EXCEPT !.active = b]
<1>1. Doing(h, "staff") /\ row[txn[h].sku] \in Terms
  BY TxnKinds DEF SetActive, IInv, TypeOK, Staff
<1>2. r \in Terms /\ r.policy = row[txn[h].sku].policy
  BY <1>1 DEF Terms
<1>3. Update(h, r)
  BY DEF SetActive
<1> HIDE DEF r
<1> QED
  BY <1>1, <1>2, <1>3, UpdateKeeps


\* The commit charges what the customer was shown, from a shelf that holds it.
LEMMA PlaceOrderKeeps ==
  ASSUME IInv, NEW h \in Sessions, PlaceOrder(h)
  PROVE  IInv'
<1> DEFINE t == txn[h]
           cart == offer[t.order].cart
<1>1. TypeOK /\ Sessional /\ Sound(t) /\ t \in Checkout /\ Buys(t) /\ t.reserved
  BY TxnKinds, SessionalInv DEF Sessional, PlaceOrder, Doing, Buys
<1>2. t.order \in Orders /\ t.total \in Totals /\ t.took \subseteq Lines(cart)
      /\ t.tracked \subseteq Lines(cart) /\ cart \in [Skus -> Nat]
  <2>1. offer[t.order] \in Offer
    BY <1>1 DEF TypeOK, Checkout, Sound, Reads, CheckoutSound
  <2> QED
    BY <1>1, <2>1, InputsAssumption DEF Checkout, Offer, Sound, Reads, CheckoutSound
<1>3. \A s \in Skus : /\ stock'[s]  = IF s \in t.took THEN stock[s] - cart[s] ELSE stock[s]
                      /\ ledger'[s] = IF s \in t.tracked THEN ledger[s] - cart[s] ELSE ledger[s]
  BY DEF PlaceOrder
<1>4. charged' = [charged EXCEPT ![t.order] = t.total]
  BY DEF PlaceOrder
<1>5. stock' \in [Skus -> Nat] /\ ledger' \in [Skus -> Int]
  <2>1. \A s \in Skus : stock'[s] \in Nat /\ ledger'[s] \in Int
    <3>1. \A s \in t.took : stock[s] >= cart[s]
      BY <1>1 DEF Sound, Reads, CheckoutSound
    <3> QED
      BY <1>1, <1>2, <1>3, <3>1 DEF TypeOK
  <2> QED
    BY <2>1 DEF PlaceOrder
<1>6. AuditExplains' /\ LogDated'
  BY DEF IInv, AuditExplains, LogDated, PlaceOrder, log
<1>7. SeedKeepsShelf'
  <2>1. \A s \in Skus \ strayed : s \in t.took <=> s \in t.tracked
    BY <1>1, <1>2 DEF Sound, Reads, EntriesSound
  <2> QED
    BY <1>1, <1>2, <1>3, <2>1 DEF IInv, SeedKeepsShelf, PlaceOrder, TypeOK
<1>8. ChargedAsShown'
  BY <1>1, <1>2, <1>4 DEF IInv, ChargedAsShown, PlaceOrder, TypeOK, Sound, Reads, CheckoutSound
<1>9. ASSUME NEW g \in Sessions \ {h} PROVE Sound(txn[g])'
  <2>1. Sound(txn[g]) /\ Apart(t, txn[g]) /\ txn'[g] = txn[g]
    BY <1>1 DEF Sessional, TypeOK, PlaceOrder, Close, Goes
  <2>2. StaffSound(txn[g])' /\ EntriesSound(txn[g])' /\ DateSound(txn[g])'
    BY <2>1 DEF Sound, Reads, StaffSound, EntriesSound, DateSound, Buys, Writes, Lines, PlaceOrder,
       log
  <2>3. CheckoutSound(txn[g])'
    <3>1. SUFFICES ASSUME Buys(txn[g]) PROVE CheckoutSound(txn[g])'
      BY <2>1 DEF CheckoutSound, Buys
    <3>2. txn[g] \in Checkout /\ CheckoutSound(txn[g])
      BY <1>1, <2>1, <3>1, TxnKinds DEF Doing, Buys, Sound, Reads
    <3>3. charged'[txn[g].order] = charged[txn[g].order]
      BY <1>1, <1>4, <2>1, <3>1, <3>2 DEF Apart, TypeOK, Checkout
    <3>4. \A s \in txn[g].took : s \in Skus /\ stock'[s] = stock[s]
      BY <1>1, <1>3, <2>1, <3>1, <3>2 DEF Apart, Keeps, Buys, Checkout
    <3> QED
      BY <2>1, <3>1, <3>2, <3>3, <3>4 DEF CheckoutSound, PlaceOrder, Lines
  <2> QED
    BY <2>2, <2>3 DEF Sound, Reads
<1>10. txn' \in [Sessions -> Txns] /\ Sessional'
  BY <1>1, <1>9, CloseStep DEF PlaceOrder
<1>11. TypeOK'
  BY <1>1, <1>2, <1>4, <1>5, <1>10 DEF TypeOK, Txns, PlaceOrder, log
<1> QED
  BY <1>6, <1>7, <1>8, <1>10, <1>11, SessionalInvNext

\* What the seed writes is of the right type, and where it changes a column it
\* changes it to what it wants.
LEMMA SeedWrites ==
  ASSUME TypeOK, NEW t \in Seed, NEW s \in Skus
  PROVE  /\ RowAfter(t, s) \in Terms /\ Wanted(t, s) \in Terms /\ t.read[s] \in Terms
         /\ StockAfter(t, s) \in Nat /\ LedgerAfter(t, s) \in Int
         /\ s \in Changes(t) => \A f \in Fields :
              RowAfter(t, s)[f] = IF Wanted(t, s)[f] # t.read[s][f] THEN Wanted(t, s)[f]
                                                                     ELSE row[s][f]
         /\ s \notin Inserted(t) \cup Changes(t) => RowAfter(t, s) = row[s]
<1>1. /\ t.list[s].terms \in Terms /\ t.read[s] \in Terms /\ row[s] \in Terms
      /\ t.list[s].stock \in Nat
  BY InputsAssumption DEF TypeOK, Seed, Entry
<1>2. StockAfter(t, s) \in Nat /\ LedgerAfter(t, s) \in Int
  BY <1>1 DEF StockAfter, LedgerAfter, Opening, TypeOK
<1>3. Wanted(t, s) \in Terms
  BY <1>1 DEF Wanted, Terms
<1> DEFINE merged == Merge(row[s], t.read[s], Wanted(t, s))
<1>4. merged \in Terms
  BY <1>1, <1>3 DEF Merge, Terms
<1>5. \A f \in Fields : merged[f] = IF Wanted(t, s)[f] # t.read[s][f] THEN Wanted(t, s)[f]
                                                                       ELSE row[s][f]
  BY DEF Merge, Fields
<1>6. CASE s \in Inserted(t)
  <2>1. RowAfter(t, s) = t.list[s].terms /\ s \notin Changes(t)
    BY <1>6 DEF RowAfter, Inserted, Changes
  <2> QED
    BY <1>1, <1>2, <1>3, <1>6, <2>1
<1>7. CASE s \in Changes(t)
  <2>1. RowAfter(t, s) = merged
    BY <1>7 DEF RowAfter, Inserted, Changes
  <2> HIDE DEF merged
  <2> QED
    BY <1>1, <1>2, <1>3, <1>4, <1>5, <1>7, <2>1
<1>8. CASE s \notin Inserted(t) \cup Changes(t)
  <2>1. RowAfter(t, s) = row[s]
    BY <1>8 DEF RowAfter
  <2> QED
    BY <1>1, <1>2, <1>3, <1>8, <2>1
<1> QED
  BY <1>6, <1>7, <1>8

\* A seeding run writes the list's prices and leaves every known shelf alone.
LEMMA SeedCommitKeeps ==
  ASSUME IInv, NEW h \in Sessions, SeedCommit(h)
  PROVE  IInv'
<1> DEFINE t == txn[h]
<1>1. TypeOK /\ Sessional /\ t \in Seed /\ Doing(h, "seed")
  BY TxnKinds, SessionalInv DEF SeedCommit
<1>2. /\ Changes(t) \subseteq listed /\ Inserted(t) \cap (listed \ t.gone) = {}
      /\ \A s \in Changes(t) : ~Locked(h, s)
      /\ listed' = (listed \ t.gone) \cup Inserted(t)
      /\ Inserted(t) \subseteq Skus
  BY DEF SeedCommit, Inserted
<1>3. /\ row'    = [s \in Skus |-> RowAfter(t, s)]
      /\ stock'  = [s \in Skus |-> StockAfter(t, s)]
      /\ ledger' = [s \in Skus |-> LedgerAfter(t, s)]
  BY DEF SeedCommit
<1>4. strayed' = strayed \cup {s \in Inserted(t) : ledger[s] # 0 \/ Uncounted(t.list[s])}
                         \cup {s \in Skus : RowAfter(t, s).policy # row[s].policy /\ Priced(s)}
  BY DEF SeedCommit
<1>5. UNCHANGED <<clock, offer, charged>> /\ Close(h)
  BY DEF SeedCommit, sales
<1>6. \A s \in Skus :
        /\ row'[s] \in Terms /\ stock'[s] \in Nat /\ ledger'[s] \in Int
        /\ row'[s] = RowAfter(t, s)
        /\ s \notin Inserted(t) \cup Changes(t) => row'[s] = row[s]
  BY <1>1, <1>3, SeedWrites
<1>7. /\ AuditExplains' /\ LogDated'
      /\ audit' \subseteq CatalogAudit /\ wrote' \in [Skus -> [Fields -> Nat]]
      /\ \A g \in Sessions \ {h} : Writes(txn[g]) => \A e \in audit' : e.at # txn[g].began
  <2> DEFINE made == {Record(t, s, t.read[s], Wanted(t, s)) : s \in Changes(t)}
  <2>1. Writes(t) /\ t.began \in Nat /\ Changes(t) \subseteq Skus
    BY <1>1, <1>2 DEF Writes, Doing, Seed, TypeOK
  <2>2. made \in SUBSET CatalogAudit
    BY <1>1, <2>1, SeedWrites DEF CatalogAudit, Record
  <2>3. \A e \in made : e.at = t.began /\ e.sku \in Changes(t)
                        /\ e.was = t.read[e.sku] /\ e.now = Wanted(t, e.sku)
    BY DEF Record
  <2>4. \A s \in Changes(t) : \E e \in made :
          e.sku = s /\ e.was = t.read[s] /\ e.now = Wanted(t, s)
    <3>1. SUFFICES ASSUME NEW s \in Changes(t)
                   PROVE  Record(t, s, t.read[s], Wanted(t, s)) \in made
      BY DEF Record
    <3> QED
      OBVIOUS
  <2>5. audit' = audit \cup made /\ wrote' = Written(t.began, Inserted(t)) /\ clock' = clock
    BY <1>5 DEF SeedCommit
  <2> HIDE DEF made
  <2>6. \A s \in Changes(t), f \in Fields :
          row'[s][f] = IF Wanted(t, s)[f] # t.read[s][f] THEN Wanted(t, s)[f] ELSE row[s][f]
    BY <1>1, <1>6, <2>1, SeedWrites
  <2>7. listed' \subseteq Skus /\ \A s \in listed' \ Inserted(t) : s \in listed
    BY <1>1, <1>2 DEF TypeOK
  <2>8. ASSUME NEW s \in listed' \ Inserted(t), NEW f \in Fields
        PROVE  /\ row'[s][f] # row[s][f] => \E e \in made : e.sku = s /\ e.was[f] # e.now[f]
               /\ \A e \in made : e.sku = s /\ e.was[f] # e.now[f] => e.now[f] = row'[s][f]
    <3>1. s \notin Changes(t) => row'[s] = row[s]
      BY <1>6, <2>7, <2>8
    <3> QED
      BY <2>3, <2>4, <2>6, <3>1
  <2>9. Explained(made, Inserted(t))
    BY <2>7, <2>8 DEF Explained
  <2>10. \A e \in made : e.at = txn[h].began
    BY <2>3
  <2> QED
    BY <1>2, <2>1, <2>2, <2>5, <2>9, <2>10, LogStep
<1>8. SeedKeepsShelf'
  <2>1. ASSUME NEW s \in listed' \ strayed' PROVE ledger'[s] = stock'[s]
    <3>1. CASE s \in Inserted(t)
      <4>1. ledger[s] = 0 /\ ~Uncounted(t.list[s]) /\ s \in Skus
        BY <1>2, <1>4, <3>1, <2>1
      <4>2. t.list[s] \in Entry
        BY <1>1, <4>1, InputsAssumption DEF Seed
      <4>3. Opening(t.list[s]) = t.list[s].stock /\ t.list[s].stock \in Nat
        BY <4>1, <4>2 DEF Opening, Uncounted, Entry, Terms
      <4> QED
        BY <1>2, <1>3, <3>1, <4>1, <4>3 DEF StockAfter, LedgerAfter
    <3>2. CASE s \notin Inserted(t)
      BY <1>1, <1>2, <1>3, <1>4, <3>2 DEF IInv, SeedKeepsShelf, StockAfter, LedgerAfter, TypeOK
    <3> QED
      BY <3>1, <3>2
  <2> QED
    BY <2>1 DEF SeedKeepsShelf
<1>9. ChargedAsShown'
  BY <1>5 DEF IInv, ChargedAsShown
<1>10. ASSUME NEW g \in Sessions \ {h} PROVE Sound(txn[g])'
  <2>1. Sound(txn[g]) /\ Apart(t, txn[g]) /\ txn'[g] = txn[g]
    BY <1>1, <1>5 DEF Sessional, TypeOK, Close, Goes
  <2>2. ASSUME NEW s \in Skus, Keeps(txn[g], s), s \in listed
        PROVE  s \in listed' /\ row'[s] = row[s] /\ stock'[s] = stock[s]
    <3>1. s \notin t.gone
      BY <1>1, <2>1, <2>2 DEF Apart, Keeps, Doing
    <3>2. s \notin Changes(t)
      BY <1>2, <2>2, HoldsByKeeps DEF Locked
    <3>3. s \notin Inserted(t) /\ s \in listed'
      BY <1>2, <2>2, <3>1
    <3> QED
      BY <1>3, <1>6, <3>2, <3>3 DEF StockAfter
  <2>3. StaffSound(txn[g])'
    <3>1. SUFFICES ASSUME txn[g] # Idle, txn[g].op = "staff" PROVE StaffSound(txn[g])'
      BY <2>1 DEF StaffSound
    <3>2. txn[g].sku \in Skus /\ Keeps(txn[g], txn[g].sku)
      BY <1>1, <3>1, TxnKinds DEF Doing, Staff, Keeps
    <3> QED
      BY <2>1, <2>2, <3>1, <3>2 DEF Sound, Reads, StaffSound
  <2>4. CheckoutSound(txn[g])' /\ EntriesSound(txn[g])'
    <3>1. SUFFICES ASSUME Buys(txn[g]) PROVE CheckoutSound(txn[g])' /\ EntriesSound(txn[g])'
      BY <2>1 DEF CheckoutSound, EntriesSound, Buys
    <3>2. CheckoutSound(txn[g]) /\ EntriesSound(txn[g])
      BY <2>1 DEF Sound, Reads
    <3>3. \A s \in txn[g].took : s \in Skus /\ s \in listed /\ Keeps(txn[g], s)
      BY <3>1, <3>2 DEF CheckoutSound, Keeps, Buys, Lines
    <3>4. CheckoutSound(txn[g])'
      BY <1>5, <2>1, <2>2, <3>1, <3>2, <3>3 DEF CheckoutSound, Lines
    <3>5. \A s \in Lines(offer[txn[g].order].cart) : Priced(s) /\ s \in Skus
      BY <3>1 DEF Priced, Lines, Buys, Doing
    <3>6. \A s \in Lines(offer[txn[g].order].cart) \ strayed' :
            row'[s].policy = row[s].policy /\ s \notin strayed
      BY <1>4, <1>6, <3>5
    <3>7. EntriesSound(txn[g])'
      BY <1>5, <2>1, <3>1, <3>2, <3>6 DEF EntriesSound, Lines
    <3> QED
      BY <3>4, <3>7
  <2>5. DateSound(txn[g])'
    BY <1>5, <1>7, <2>1 DEF Sound, DateSound, Writes
  <2> QED
    BY <2>3, <2>4, <2>5 DEF Sound, Reads
<1>11. txn' \in [Sessions -> Txns] /\ Sessional'
  BY <1>1, <1>5, <1>10, CloseStep
<1>12. TypeOK'
  BY <1>1, <1>2, <1>3, <1>4, <1>5, <1>6, <1>7, <1>11 DEF TypeOK, Txns
<1> QED
  BY <1>7, <1>8, <1>9, <1>11, <1>12, SessionalInvNext


-----------------------------------------------------------------------------
(* The theorems.                                                            *)

\* The invariant holds of every catalogue the program starts with.
LEMMA Initially == Init => IInv
<1> SUFFICES ASSUME Init PROVE IInv
  OBVIOUS
<1>1. PICK l \in Lists : /\ listed = {s \in Skus : l[s].fate = "listed"}
                         /\ row    = [s \in Skus |-> l[s].terms]
                         /\ stock  = [s \in Skus |-> IF s \in listed THEN l[s].stock ELSE 0]
                         /\ ledger = [s \in Skus |-> IF s \in listed THEN Opening(l[s]) ELSE 0]
                         /\ strayed = {s \in listed : Uncounted(l[s])}
  BY DEF Init
<1>2. \A s \in Skus : l[s] \in Entry /\ l[s].terms \in Terms /\ l[s].stock \in Nat
  BY InputsAssumption DEF Entry
<1>3. \A s \in Skus : Opening(l[s]) \in Int
  BY <1>2 DEF Opening
<1>4. /\ listed \subseteq Skus /\ row \in [Skus -> Terms]
      /\ stock \in [Skus -> Nat] /\ ledger \in [Skus -> Int] /\ strayed \subseteq Skus
  BY <1>1, <1>2, <1>3
<1>5. wrote \in [Skus -> [Fields -> Nat]] /\ \A s \in Skus, f \in Fields : wrote[s][f] = 0
  BY DEF Init
<1>6. TypeOK
  BY <1>4, <1>5 DEF Init, TypeOK
<1>7. Sessional
  BY DEF Init, Sessional, Sound, Reads, StaffSound, CheckoutSound, EntriesSound, DateSound, Apart,
     Keeps, Buys, Writes
<1>8. SeedKeepsShelf
  <2>1. ASSUME NEW s \in listed, ~Uncounted(l[s]) PROVE Opening(l[s]) = l[s].stock
    BY <1>2, <1>4, <2>1 DEF Opening, Uncounted, Terms
  <2> QED
    BY <1>1, <1>4, <2>1 DEF SeedKeepsShelf
<1>9. AuditExplains /\ LogDated /\ ChargedAsShown
  BY <1>4, <1>5 DEF Init, AuditExplains, LogDated, ChargedAsShown
<1> QED
  BY <1>6, <1>7, <1>8, <1>9, SessionalInv

\* Every step keeps it.
LEMMA Inductive == IInv /\ [Next]_vars => IInv'
<1> SUFFICES ASSUME IInv, [Next]_vars PROVE IInv'
  OBVIOUS
<1>1. ASSUME NEW h \in Handlers, StaffWork(h) \/ Buying(h) PROVE IInv'
  <2>1. h \in Sessions
    BY DEF Sessions
  <2> QED
    BY <1>1, <2>1, OpenKeeps, StaffBeginKeeps, SetPriceKeeps, SetActiveKeeps, PriceKeeps, ReserveKeeps,
       PlaceOrderKeeps DEF StaffWork, Buying
<1>2. ASSUME NEW h \in Scripts, SeedRun(h) PROVE IInv'
  <2>1. h \in Sessions
    BY DEF Sessions
  <2> QED
    BY <1>2, <2>1, OpenKeeps, SeedBeginKeeps, SeedReadKeeps, SeedCommitKeeps DEF SeedRun
<1>3. ASSUME NEW h \in Sessions, Abort(h) PROVE IInv'
  BY <1>3, AbortKeeps
<1>4. ASSUME NEW o \in Orders, NEW cart \in Carts, Quote(o, cart) PROVE IInv'
  BY <1>4, QuoteKeeps
<1>5. CASE UNCHANGED vars
  <2>1. TypeOK' /\ AuditExplains' /\ SeedKeepsShelf' /\ ChargedAsShown' /\ LogDated'
    BY <1>5 DEF IInv, TypeOK, AuditExplains, SeedKeepsShelf, ChargedAsShown, LogDated, vars, rows,
       log, sales
  <2>2. Sessional'
    BY <1>5, SessionalInv DEF Sessional, Sound, Reads, StaffSound, CheckoutSound, EntriesSound,
       DateSound, Apart, Keeps, Buys, Writes, Lines, vars, rows, log, sales
  <2> QED
    BY <2>1, <2>2, SessionalInvNext
<1> QED
  BY <1>1, <1>2, <1>3, <1>4, <1>5 DEF Next

\* Whatever the staff, the seed script and the customers do at once, no
\* transaction loses the rows it relies on: the inductive invariant holds.
THEOREM Invariance == Spec => []IInv
BY Initially, Inductive, PTL DEF Spec

\* Of every column set_price, set_variant_active or upsert_product changed, an entry
\* of record_catalog_change says what it holds: the one dated by the beginning of
\* the transaction that wrote it last, which need not be the latest date.
THEOREM AuditIsTrue == Spec => []AuditExplains
<1>1. IInv => AuditExplains
  BY DEF IInv
<1> QED
  BY <1>1, Invariance, PTL

\* A seed run never makes the shelf and the ledger of a variant disagree, but for
\* the variants named by strayed.
THEOREM ShelfSurvivesSeeding == Spec => []SeedKeepsShelf
<1>1. IInv => SeedKeepsShelf
  BY DEF IInv
<1> QED
  BY <1>1, Invariance, PTL

\* The total an order is written with is the one its customer was shown.
THEOREM PaysWhatWasShown == Spec => []ChargedAsShown
<1>1. IInv => ChargedAsShown
  BY DEF IInv
<1> QED
  BY <1>1, Invariance, PTL

\* A cart build_cart leaves as it is can be reserved line by line.
THEOREM QuotesHold == Spec => []QuotedCanBeReserved
<1>1. ASSUME TypeOK PROVE QuotedCanBeReserved
  <2>1. SUFFICES ASSUME NEW cart \in Carts, ~Adjusted(cart), NEW s \in Lines(cart)
                 PROVE  Reservable(s, cart[s])
    BY DEF QuotedCanBeReserved
  <2>2. s \in Skus /\ cart[s] > 0 /\ cart[s] \in Nat /\ cart[s] = LineQty(cart)[s]
    BY <2>1, InputsAssumption DEF Adjusted, Lines
  <2>3. SellableQty(s) > 0 /\ cart[s] <= SellableQty(s)
    BY <1>1, <2>2, LineBounds, SellableBounds
  <2>4. s \in listed /\ row[s].active
    BY <2>3 DEF SellableQty
  <2>5. row[s].policy = "tracked" => stock[s] >= cart[s]
    BY <1>1, <2>2, <2>3, SellableBounds DEF TypeOK
  <2> QED
    BY <2>4, <2>5 DEF Reservable
<1>2. IInv => TypeOK
  BY DEF IInv
<1> QED
  BY <1>1, <1>2, Invariance, PTL

\* Every change set_price makes without confirmation is small against the price it
\* replaces, also while other changes or a seed overlap with it.
THEOREM NoUnconfirmedLeap == Spec => UnconfirmedChangesSmall
<1> DEFINE Small == \A h \in Sessions :
             Doing(h, "staff") /\ ~txn[h].sure /\ txn'[h] = Idle =>
               LET old == row[txn[h].sku].price
                   new == row'[txn[h].sku].price
               IN  2 * new \in old..(3 * old) \/ new = old
<1>1. ASSUME IInv, Next PROVE Small
  <2> SUFFICES ASSUME NEW h \in Sessions, Doing(h, "staff"), ~txn[h].sure, txn'[h] = Idle
               PROVE  LET old == row[txn[h].sku].price
                          new == row'[txn[h].sku].price
                      IN  2 * new \in old..(3 * old) \/ new = old
    OBVIOUS
  <2> DEFINE s == txn[h].sku
  <2>1. /\ txn \in [Sessions -> Txns] /\ txn[h] # Idle
        /\ s \in Skus /\ txn[h].old = row[s] /\ row \in [Skus -> Terms]
    BY <1>1, TxnKinds DEF IInv, TypeOK, Txns, Doing, StaffReadCurrent, Staff
  <2>2. ASSUME NEW g \in Sessions \ {h}, NEW t, Goes(g, t) PROVE FALSE
    BY <2>1, <2>2 DEF Goes
  <2>3. CASE row' = row
    BY <2>3
  <2>4. ASSUME NEW p \in Prices, SetPrice(h, p)
        PROVE  2 * row'[s].price \in row[s].price..(3 * row[s].price)
               \/ row'[s].price = row[s].price
    <3>1. row'[s].price = p
      BY <2>1, <2>4 DEF SetPrice, Update, Terms
    <3>2. ~LargeChange(row[s].price, p)
      BY <2>1, <2>4 DEF SetPrice
    <3>3. row[s].price \in Nat /\ p \in Nat
      BY <2>1, NumbersAssumption DEF Terms
    <3> QED
      BY <3>1, <3>2, <3>3 DEF LargeChange
  <2>5. ASSUME NEW b \in BOOLEAN, SetActive(h, b) PROVE row'[s].price = row[s].price
    BY <2>1, <2>5 DEF SetActive, Update, Terms
  <2>6. ASSUME NEW g \in Sessions, StaffWork(g) \/ Buying(g) \/ SeedRun(g)
        PROVE  row' = row \/ (\E p \in Prices : SetPrice(h, p))
                          \/ (\E b \in BOOLEAN : SetActive(h, b))
    <3>1. CASE g # h
      <4>1. \E t : Goes(g, t)
        BY <2>6 DEF StaffWork, Buying, SeedRun, Open, StaffBegin, SetPrice, SetActive, Update,
                    SeedBegin, SeedRead, SeedCommit, Price, Reserve, PlaceOrder, Close
      <4> QED
        BY <2>2, <3>1, <4>1
    <3>2. CASE g = h
      BY <2>1, <2>6, <3>2 DEF StaffWork, Buying, SeedRun, Open, StaffBegin, SeedBegin, SeedRead,
                              SeedCommit, Price, Reserve, PlaceOrder, Doing
    <3> QED
      BY <3>1, <3>2
  <2>7. row' = row \/ (\E p \in Prices : SetPrice(h, p)) \/ (\E b \in BOOLEAN : SetActive(h, b))
    BY <1>1, <2>6 DEF Next, Sessions, Abort, Quote, rows
  <2> QED
    BY <2>3, <2>4, <2>5, <2>7
<1>2. ASSUME UNCHANGED vars PROVE Small
  BY <1>2 DEF vars, rows, Doing
<1>3. IInv /\ [Next]_vars => [Small]_vars
  BY <1>1
<1> QED
  BY <1>3, Invariance, PTL DEF Spec, UnconfirmedChangesSmall

=============================================================================
