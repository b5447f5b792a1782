----------------------------- MODULE Catalogue ------------------------------
(***************************************************************************)
(* The catalogue while it is being changed: the staff switch variants off  *)
(* and reprice them, the seed script rewrites every product from its list, *)
(* and customers are quoted, charged and promised what the rows say.       *)
(*                                                                         *)
(* Each of these is one READ COMMITTED transaction.  What it writes shows  *)
(* at the commit; the row locks it has until then are read off its state.  *)
(* Recounts and cancellations are in Checkout.  A product is as coarse as  *)
(* its variants here, and the MRP only a reason to refuse (Abort).         *)
(***************************************************************************)
EXTENDS Integers, FiniteSetsExt

CONSTANTS
  Skus,         \* variants
  Prices,       \* price_paise
  Lists,        \* lists of products the seed script is run with
  Carts,        \* carts, as quantities of every variant
  Orders,       \* orders a customer may come to place
  Handlers,     \* requests the server can have in progress at once
  Scripts,      \* runs of the seed script that can be in progress at once
  MaxPerOrder,  \* variants.max_per_order
  FreeFrom,     \* free_delivery_threshold_paise
  Fee,          \* delivery_fee_paise
  MaxBooked,    \* bound: the ledger of a variant grows no further
  MaxDated,     \* bound: transactions of the staff and the seed script
  NoTotal, NoOffer, Idle

Fields == {"price", "policy", "active"}
Terms == [price : Prices, policy : {"tracked", "made_to_order"}, active : BOOLEAN]

\* What a list does to a variant: it is listed; its product is listed without
\* it; its product is gone; its product has another slug than before.  The
\* quantity is for a variant that is new.
Entry == [fate : {"listed", "dropped", "retired", "renamed"}, terms : Terms, stock : Nat]

Quantities == [Skus -> 0..MaxPerOrder]

DeliveryFee(subtotal) == IF subtotal <= 0 \/ subtotal >= FreeFrom THEN 0 ELSE Fee

\* build_cart's total for these quantities at these prices.
Bill(qty, price) ==
  LET subtotal == MapThenSumSet(LAMBDA s : qty[s] * price[s], Skus)
  IN  subtotal + DeliveryFee(subtotal)

Totals == {Bill(q, p) : q \in Quantities, p \in [Skus -> Prices]}

\* What a customer has on the screen, and the total it came with if there was one.
Offer == [cart : Carts, total : Totals \cup {NoTotal}]

\* Open transactions.  One that has begun, with its now(), and locked nothing
\* yet; the owner's or a staff member's, on the row it locked; a seed, with the
\* rows it has read so far; a checkout, with the variants it read as tracked
\* and, once it has reserved, those whose rows it holds.
Opened   == [op : {"opened"}, began : Nat]
Staff    == [op : {"staff"}, began : Nat, sku : Skus, old : Terms, sure : BOOLEAN]
Seed     == [op : {"seed"}, began : Nat, list : Lists, gone : SUBSET Skus,
             seen : SUBSET Skus, had : SUBSET Skus, read : [Skus -> Terms]]
Checkout == [op : {"checkout"}, order : Orders, total : Totals, reserved : BOOLEAN,
             tracked : SUBSET Skus, took : SUBSET Skus]
Sessions == Handlers \cup Scripts
Txn == Opened \cup Staff \cup Seed \cup Checkout

\* What one transaction has entered in catalog_audit about one variant, under
\* the created_at all its rows share: a row for each field that differs.
CatalogAudit == [sku : Skus, at : Nat, was : Terms, now : Terms]

ASSUME NumbersAssumption == /\ Prices \subseteq Nat
                            /\ {MaxPerOrder, FreeFrom, Fee, MaxBooked, MaxDated} \subseteq Nat
ASSUME InputsAssumption  == Carts \subseteq [Skus -> Nat] /\ Lists \subseteq [Skus -> Entry]
ASSUME MarkersAssumption == NoTotal \notin Totals /\ NoOffer \notin Offer /\ Idle \notin Txn

VARIABLES
  listed,   \* variants there is a row for
  row,      \* variants.price_paise, stock_policy, is_active
  stock,    \* variants.stock_qty
  ledger,   \* SUM(stock_ledger.delta)
  strayed,  \* history: variants whose policy a seed changed under a checkout that
            \* had priced them, that came back with old entries in the ledger, or
            \* that were made to order and listed with a quantity
  clock,    \* the dates now() has given to transactions of the staff and the seed
  audit,    \* catalog_audit
  wrote,    \* history: when the transaction began that changed a column of a row
            \* to what it holds, 0 as inserted
  offer,    \* what the customer of each order was last shown
  charged,  \* orders.total_paise
  txn       \* the transaction of each request and script

rows  == <<listed, row, stock, ledger, strayed>>
log   == <<clock, audit, wrote>>
sales == <<offer, charged>>
vars  == <<rows, log, sales, txn>>

TypeOK ==
  /\ listed  \subseteq Skus
  /\ row     \in [Skus -> Terms]
  /\ stock   \in [Skus -> Nat]
  /\ ledger  \in [Skus -> Int]
  /\ strayed \subseteq Skus
  /\ clock   \in Nat
  /\ audit   \subseteq CatalogAudit
  /\ wrote   \in [Skus -> [Fields -> Nat]]
  /\ offer   \in [Orders -> Offer \cup {NoOffer}]
  /\ charged \in [Orders -> Totals \cup {NoTotal}]
  /\ txn     \in [Sessions -> Txn \cup {Idle}]

\* The opening_balance of a new variant in the ledger.
Opening(entry) == IF entry.terms.policy = "tracked" THEN entry.stock ELSE 0

\* It gets the quantity of the list all the same.
Uncounted(entry) == entry.terms.policy = "made_to_order" /\ entry.stock # 0

\* A catalogue seeded once.
Init ==
  /\ \E l \in Lists :
       /\ listed = {s \in Skus : l[s].fate = "listed"}
       /\ row    = [s \in Skus |-> l[s].terms]
       /\ stock  = [s \in Skus |-> IF s \in listed THEN l[s].stock ELSE 0]
       /\ ledger = [s \in Skus |-> IF s \in listed THEN Opening(l[s]) ELSE 0]
       /\ strayed = {s \in listed : Uncounted(l[s])}
  /\ clock   = 0
  /\ audit   = {}
  /\ wrote   = [s \in Skus |-> [f \in Fields |-> 0]]
  /\ offer   = [o \in Orders |-> NoOffer]
  /\ charged = [o \in Orders |-> NoTotal]
  /\ txn     = [h \in Sessions |-> Idle]

-----------------------------------------------------------------------------
(* Transactions and row locks.                                              *)

Doing(h, op) == txn[h] # Idle /\ txn[h].op = op

Writing(h) == Doing(h, "opened") \/ Doing(h, "staff") \/ Doing(h, "seed")

Holds(h, s) ==
  \/ Doing(h, "staff") /\ txn[h].sku = s
  \/ Doing(h, "seed") /\ s \in txn[h].gone
  \/ Doing(h, "checkout") /\ s \in txn[h].took

\* A transaction other than h's holds the row of s.
Locked(h, s) == \E g \in Sessions \ {h} : Holds(g, s)

Goes(h, t) == txn' = [txn EXCEPT ![h] = t]
Close(h)   == Goes(h, Idle)

\* Refused, failed or died: nothing it wrote remains.
Abort(h) ==
  /\ txn[h] # Idle
  /\ Close(h)
  /\ UNCHANGED <<rows, log, sales>>

\* A request of the staff has its role checked, a seed upserts its categories:
\* that begins the transaction, and now() stands still in it from then on.
Open(h) ==
  /\ txn[h] = Idle /\ clock < MaxDated
  /\ clock' = clock + 1
  /\ Goes(h, [op |-> "opened", began |-> clock + 1])
  /\ UNCHANGED <<rows, audit, wrote, sales>>

\* record_catalog_change, for the fields of s that the transaction changes.
Record(t, s, was, now) == [sku |-> s, at |-> t.began, was |-> was, now |-> now]

\* "wrote" after a transaction that began then and inserted these variants.
Written(began, inserted) ==
  [s \in Skus |-> [f \in Fields |->
     IF s \in inserted THEN 0
     ELSE IF row'[s][f] # row[s][f] THEN began ELSE wrote[s][f]]]

-----------------------------------------------------------------------------
(* The owner and the staff.                                                 *)

\* Mutant: the row is read without FOR UPDATE.
StaffBeginUnlocked(h, s, sure) ==
  /\ Doing(h, "opened") /\ s \in listed
  /\ Goes(h, [op |-> "staff", began |-> txn[h].began, sku |-> s, old |-> row[s], sure |-> sure])
  /\ UNCHANGED <<rows, log, sales>>

\* set_price and set_variant_active first select the row FOR UPDATE.  "sure" is
\* the request's confirm_large_change.
StaffBegin(h, s, sure) ==
  /\ Doing(h, "opened") /\ s \in listed /\ ~Locked(h, s)
  /\ Goes(h, [op |-> "staff", began |-> txn[h].began, sku |-> s, old |-> row[s], sure |-> sure])
  /\ UNCHANGED <<rows, log, sales>>

\* Mutant: the fraction is taken of the new price.
LargeOfNew(old, new) ==
  new # old /\ (old = 0 \/ 2 * (new - old) > new \/ 2 * (old - new) > new)

\* More than _LARGE_CHANGE_FRACTION of the old price, or away from free.
LargeChange(old, new) ==
  new # old /\ (old = 0 \/ 2 * (new - old) > old \/ 2 * (old - new) > old)

\* What a staff route leaves in the row it locked: the new terms, and a record of
\* them if they differ from the ones it read.
Update(h, new) ==
  LET t == txn[h] IN
  /\ row'   = [row EXCEPT ![t.sku] = new]
  /\ audit' = audit \cup {Record(t, t.sku, t.old, now) : now \in {new} \ {t.old}}
  /\ wrote' = Written(t.began, {})
  /\ Close(h)
  /\ UNCHANGED <<listed, stock, ledger, strayed, clock, sales>>

\* set_price refuses a large change that is not confirmed.
SetPrice(h, p) ==
  /\ Doing(h, "staff")
  /\ txn[h].sure \/ ~LargeChange(txn[h].old.price, p)
  /\ Update(h, [row[txn[h].sku] EXCEPT !.price = p])

\* set_variant_active, the "sold out for today" switch.
SetActive(h, b) ==
  /\ Doing(h, "staff")
  /\ Update(h, [row[txn[h].sku] EXCEPT !.active = b])

-----------------------------------------------------------------------------
(* The seed script.                                                         *)

\* Retired products, and those whose slug is not in the list any more, are
\* deleted with their variants, if authorize_retirement lets the run go on.
SeedBegin(h, l) ==
  /\ Doing(h, "opened")
  /\ LET gone == {s \in listed : l[s].fate \in {"retired", "renamed"}} IN
     /\ \A s \in gone : ~Locked(h, s)
     /\ Goes(h, [op |-> "seed", began |-> txn[h].began, list |-> l, gone |-> gone,
                 seen |-> {}, had |-> {}, read |-> [s \in Skus |-> l[s].terms]])
  /\ UNCHANGED <<rows, log, sales>>

\* upsert_product selects the product with its variants, without a lock, and
\* compares the list with what it has read.
SeedRead(h, s) ==
  /\ Doing(h, "seed") /\ s \notin txn[h].seen
  /\ LET t == txn[h] IN
     IF s \in listed \ t.gone
     THEN Goes(h, [t EXCEPT !.seen = @ \cup {s}, !.had = @ \cup {s},
                            !.read = [@ EXCEPT ![s] = row[s]]])
     ELSE Goes(h, [t EXCEPT !.seen = @ \cup {s}])
  /\ UNCHANGED <<rows, log, sales>>

\* What the seed wants of a variant it has found.
Wanted(t, s) ==
  IF t.list[s].fate = "dropped"
  THEN [price |-> t.read[s].price, policy |-> t.read[s].policy, active |-> FALSE]
  ELSE t.list[s].terms

\* The session's flush writes the columns that differ from what was read, and
\* upsert_product has audited the same ones.
Merge(now, read, want) ==
  [price  |-> IF want.price  # read.price  THEN want.price  ELSE now.price,
   policy |-> IF want.policy # read.policy THEN want.policy ELSE now.policy,
   active |-> IF want.active # read.active THEN want.active ELSE now.active]

Changes(t)  == {s \in t.had : Wanted(t, s) # t.read[s]}
Inserted(t) == {s \in Skus : t.list[s].fate \in {"listed", "renamed"} /\ s \notin t.had}

\* Mutant: the flush writes every column.
RowAfterAll(t, s) ==
  IF s \in Inserted(t) \/ s \in Changes(t) THEN Wanted(t, s) ELSE row[s]

RowAfter(t, s) ==
  CASE s \in Inserted(t) -> t.list[s].terms
    [] s \in Changes(t)  -> Merge(row[s], t.read[s], Wanted(t, s))
    [] OTHER             -> row[s]

\* Mutant: a product that is there already gets the quantity of the list.
StockAfterReset(t, s) == IF s \in Inserted(t) \cup Changes(t) THEN t.list[s].stock ELSE stock[s]

\* A new variant starts with the quantity of the list, an old one keeps its own.
StockAfter(t, s) == IF s \in Inserted(t) THEN t.list[s].stock ELSE stock[s]

\* Only a variant that is tracked enters the ledger.
LedgerAfter(t, s) == IF s \in Inserted(t) THEN ledger[s] + Opening(t.list[s]) ELSE ledger[s]

\* A checkout under way has priced s.
Priced(s) == \E g \in Sessions : Doing(g, "checkout") /\ offer[txn[g].order].cart[s] > 0

\* Everything is flushed at the end, when the script commits.  The UPDATEs wait
\* for locked rows; one that finds its row gone, or an INSERT that finds it
\* there, fails the script (Abort).
SeedCommit(h) ==
  /\ Doing(h, "seed") /\ txn[h].seen = Skus
  /\ LET t == txn[h] IN
     /\ Changes(t) \subseteq listed /\ Inserted(t) \cap (listed \ t.gone) = {}
     /\ \A s \in Changes(t) : ~Locked(h, s)
     /\ \A s \in Inserted(t) : ledger[s] + Opening(t.list[s]) <= MaxBooked
     /\ listed'  = (listed \ t.gone) \cup Inserted(t)
     /\ row'     = [s \in Skus |-> RowAfter(t, s)]
     /\ stock'   = [s \in Skus |-> StockAfter(t, s)]
     /\ ledger'  = [s \in Skus |-> LedgerAfter(t, s)]
     /\ strayed' = strayed \cup {s \in Inserted(t) : ledger[s] # 0 \/ Uncounted(t.list[s])}
                           \cup {s \in Skus : RowAfter(t, s).policy # row[s].policy /\ Priced(s)}
     /\ audit'   = audit \cup {Record(t, s, t.read[s], Wanted(t, s)) : s \in Changes(t)}
     /\ wrote'   = Written(t.began, Inserted(t))
  /\ Close(h)
  /\ UNCHANGED <<clock, sales>>

-----------------------------------------------------------------------------
(* The customers.                                                           *)

\* Mutant: only the limit per order counts.
SellableUncounted(s) == IF s \notin listed \/ ~row[s].active THEN 0 ELSE MaxPerOrder

\* price_line and Variant.sellable_qty: how many of s can be sold right now.
SellableQty(s) ==
  IF s \notin listed \/ ~row[s].active THEN 0
  ELSE IF row[s].policy = "made_to_order" THEN MaxPerOrder
  ELSE Min({stock[s], MaxPerOrder})

LineQty(cart) == [s \in Skus |-> Min({cart[s], SellableQty(s)})]
PriceOf == [s \in Skus |-> row[s].price]

Lines(cart) == {s \in Skus : cart[s] > 0}
Adjusted(cart) == \E s \in Lines(cart) : LineQty(cart)[s] # cart[s]

\* The quote of a cart, or a cart that was never quoted: the customer's device
\* shows it until the order is placed.
Quote(o, cart) ==
  /\ charged[o] = NoTotal
  /\ \A h \in Sessions : Doing(h, "checkout") => txn[h].order # o
  /\ \E total \in {Bill(LineQty(cart), PriceOf), NoTotal} :
       offer' = [offer EXCEPT ![o] = [cart |-> cart, total |-> total]]
  /\ UNCHANGED <<rows, log, charged, txn>>

\* Mutant: the total the customer has seen is not compared.
AcceptsAny(o) == offer[o] # NoOffer /\ ~Adjusted(offer[o].cart)

\* _create_order_inner refuses a cart that needs adjusting, and a total other
\* than the one sent along.
Accepts(o) ==
  /\ offer[o] # NoOffer
  /\ ~Adjusted(offer[o].cart)
  /\ offer[o].total \in {Bill(LineQty(offer[o].cart), PriceOf), NoTotal}

\* create_order prices the cart again, from one query.
Price(h, o) ==
  /\ txn[h] = Idle /\ charged[o] = NoTotal
  /\ \A g \in Sessions : Doing(g, "checkout") => txn[g].order # o
  /\ Accepts(o)
  /\ Goes(h, [op |-> "checkout", order |-> o,
              total |-> Bill(LineQty(offer[o].cart), PriceOf), reserved |-> FALSE,
              tracked |-> {s \in Lines(offer[o].cart) : row[s].policy = "tracked"},
              took |-> {}])
  /\ UNCHANGED <<rows, log, sales>>

\* reserve_stock_bulk's WHERE clauses.
Reservable(s, qty) ==
  /\ s \in listed /\ row[s].active
  /\ row[s].policy = "tracked" => stock[s] >= qty

\* The UPDATE waits for the rows it decrements; what is made to order is read.
Reserve(h) ==
  /\ Doing(h, "checkout") /\ ~txn[h].reserved
  /\ LET cart == offer[txn[h].order].cart IN
     /\ \A s \in Lines(cart) : /\ Reservable(s, cart[s])
                               /\ row[s].policy = "tracked" => ~Locked(h, s)
     /\ Goes(h, [txn[h] EXCEPT !.reserved = TRUE,
                               !.took = {s \in Lines(cart) : row[s].policy = "tracked"}])
  /\ UNCHANGED <<rows, log, sales>>

\* The order is written and committed with its ledger entries: nothing moved for
\* a line that was made to order when it was priced.
PlaceOrder(h) ==
  /\ Doing(h, "checkout") /\ txn[h].reserved
  /\ LET t == txn[h]
         cart == offer[t.order].cart IN
     /\ stock'   = [s \in Skus |-> IF s \in t.took THEN stock[s] - cart[s] ELSE stock[s]]
     /\ ledger'  = [s \in Skus |-> IF s \in t.tracked THEN ledger[s] - cart[s] ELSE ledger[s]]
     /\ charged' = [charged EXCEPT ![t.order] = t.total]
  /\ Close(h)
  /\ UNCHANGED <<listed, row, strayed, log, offer>>

-----------------------------------------------------------------------------

StaffWork(h) ==
  \/ Open(h)
  \/ \E s \in Skus, sure \in BOOLEAN : StaffBegin(h, s, sure)
  \/ \E p \in Prices : SetPrice(h, p)
  \/ \E b \in BOOLEAN : SetActive(h, b)

SeedRun(h) ==
  \/ Open(h)
  \/ \E l \in Lists : SeedBegin(h, l)
  \/ \E s \in Skus : SeedRead(h, s)
  \/ SeedCommit(h)

Buying(h) ==
  \/ \E o \in Orders : Price(h, o)
  \/ Reserve(h)
  \/ PlaceOrder(h)

Next ==
  \/ \E h \in Handlers : StaffWork(h) \/ Buying(h)
  \/ \E h \in Scripts : SeedRun(h)
  \/ \E h \in Sessions : Abort(h)
  \/ \E o \in Orders, cart \in Carts : Quote(o, cart)

Spec == Init /\ [][Next]_vars
-----------------------------------------------------------------------------

\* catalog_audit accounts for every row, though it is dated by when transactions
\* began and not by when they wrote: a column that has changed since its row was
\* inserted holds what one entry of the log says, the entry of the transaction
\* that wrote last, whichever of the seed and the staff read the row first.  Read
\* by created_at, the log need not end with that entry: a transaction that began
\* before another may write after it.
AuditExplains ==
  \A s \in listed, f \in Fields : wrote[s][f] # 0 =>
    LET told == {e \in audit : e.sku = s /\ e.at = wrote[s][f] /\ e.was[f] # e.now[f]}
    IN  told # {} /\ \A e \in told : e.now[f] = row[s][f]

\* Re-seeding a running shop does not touch what is on its shelf: the ledger
\* accounts for every unit, but for variants whose stock policy was changed while
\* they were being ordered, that were deleted and listed again, or that were
\* listed with a quantity and made to order.
SeedKeepsShelf == \A s \in listed \ strayed : ledger[s] = stock[s]

\* Nobody pays another total than the one the order screen showed, whatever
\* happens to the prices meanwhile.
ChargedAsShown ==
  \A o \in Orders : charged[o] # NoTotal => charged[o] = offer[o].total \/ offer[o].total = NoTotal

\* A cart that is priced without an adjustment can be reserved if nothing has
\* changed since: price_line and reserve_stock_bulk agree on what is for sale.
QuotedCanBeReserved ==
  \A cart \in Carts : ~Adjusted(cart) => \A s \in Lines(cart) : Reservable(s, cart[s])

\* An owner who has not confirmed it never moves a price by more than a half of
\* what it is when the change is made.
UnconfirmedChangesSmall ==
  [][\A h \in Sessions :
       Doing(h, "staff") /\ ~txn[h].sure /\ txn'[h] = Idle =>
         LET old == row[txn[h].sku].price
             new == row'[txn[h].sku].price
         IN  2 * new \in old..(3 * old) \/ new = old]_vars

-----------------------------------------------------------------------------
(* The inductive invariant.                                                 *)

\* Transactions have dates of their own, and none has logged anything yet.
DatesApart ==
  \A h \in Sessions : Writing(h) =>
    /\ txn[h].began \in 1..clock
    /\ \A e \in audit : e.at # txn[h].began
    /\ \A g \in Sessions : Writing(g) /\ txn[g].began = txn[h].began => g = h

\* The log holds dates of the past.
LogDated == \A e \in audit : e.at \in 1..clock

\* The lock keeps the row as the staff have read it.
StaffReadCurrent ==
  \A h \in Sessions : Doing(h, "staff") => txn[h].sku \in listed /\ txn[h].old = row[txn[h].sku]

\* A row is held by one transaction.
LocksApart ==
  \A g, h \in Sessions, s \in Skus : Holds(g, s) /\ Holds(h, s) => g = h

\* A checkout is for the cart and the total the customer saw, and its rows hold
\* enough.
CheckoutsSound ==
  \A h \in Sessions : Doing(h, "checkout") =>
    LET t == txn[h] IN
    /\ offer[t.order] # NoOffer /\ charged[t.order] = NoTotal
    /\ offer[t.order].total \in {t.total, NoTotal}
    /\ \A g \in Sessions : Doing(g, "checkout") /\ txn[g].order = t.order => g = h
    /\ t.tracked \cup t.took \subseteq Lines(offer[t.order].cart)
    /\ t.took \subseteq listed
    /\ \A s \in t.took : stock[s] >= offer[t.order].cart[s]

\* What it enters in the ledger is what it takes, unless the policy changed.
EntriesAsTaken ==
  \A h \in Sessions : Doing(h, "checkout") =>
    \A s \in Lines(offer[txn[h].order].cart) \ strayed :
      /\ s \in txn[h].tracked <=> row[s].policy = "tracked"
      /\ txn[h].reserved => (s \in txn[h].took <=> s \in txn[h].tracked)

IInv ==
  /\ TypeOK
  /\ AuditExplains
  /\ SeedKeepsShelf
  /\ ChargedAsShown
  /\ LogDated
  /\ DatesApart
  /\ StaffReadCurrent
  /\ LocksApart
  /\ CheckoutsSound
  /\ EntriesAsTaken
=============================================================================
