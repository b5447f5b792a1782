------------------------------ MODULE Checkout ------------------------------
(***************************************************************************)
(* Placing an order (OrderService.create_order): the idempotency key that  *)
(* makes a retry safe, the shelf it reserves from next to the owner's      *)
(* recounts, and the payment link made before the one transaction commits. *)
(*                                                                         *)
(* A checkout is one READ COMMITTED transaction.  Its claim of the key and *)
(* its reservation lock rows until the commit, so what it writes is shown  *)
(* here at the commit and the locks are part of its state until then.      *)
(***************************************************************************)
EXTENDS Integers, FiniteSets, Functions

CONSTANTS
  Skus,          \* variants
  Keys,          \* Idempotency-Key values
  Orders,        \* order ids
  Handlers,      \* checkouts in progress at once
  Carts,         \* carts, as quantities of every variant
  MaxActiveCod,  \* cod_max_active_orders_per_user
  Counts,        \* quantities the owner counts, and opening balances
  Deltas,        \* corrections the owner makes
  MaxShelf,      \* bound: the owner fills a shelf no further
  NoOrder, NoRequest, Idle

Request == [cart : Carts, method : {"online", "cod"}]
Lines(cart) == {s \in Skus : cart[s] > 0}

\* What a checkout knows: the key it claimed, the request, the id its order
\* will have, the variants it read as tracked while pricing, and those whose
\* rows its reservation has decremented.
Txn == [key : Keys, req : Request, order : Orders,
        step : {"claimed", "priced", "linked", "reserved", "written"},
        tracked : SUBSET Skus, took : SUBSET Skus]

ASSUME CartsAssumption     == Carts \subseteq [Skus -> Nat]
ASSUME CountsAssumption    == Counts \subseteq Nat /\ Deltas \subseteq Int
ASSUME SentinelAssumption  ==
  NoOrder \notin Orders /\ Idle \notin Txn /\ NoRequest \notin Request

VARIABLES
  stock,    \* variants.stock_qty
  policy,   \* variants.stock_policy
  active,   \* variants.is_active
  ledger,   \* SUM(stock_ledger.delta)
  screen,   \* the quantity on the owner's stock screen
  counted,  \* history: what the owner has put on the shelf altogether
  status,   \* of each order
  placed,   \* the request an order was placed for
  claim,    \* idempotency_keys: the order a key's response names
  told,     \* history: answers given, as <<key, request, order>>
  link,     \* the gateway's payment links
  txn       \* the checkout each handler has open

shelf == <<stock, policy, active, ledger, screen, counted>>
book  == <<status, placed, claim, told>>
vars  == <<shelf, book, link, txn>>

TypeOK ==
  /\ stock   \in [Skus -> Nat]
  /\ policy  \in [Skus -> {"tracked", "made_to_order"}]
  /\ active  \in [Skus -> BOOLEAN]
  /\ ledger  \in [Skus -> Int]
  /\ screen  \in [Skus -> Nat]
  /\ counted \in [Skus -> Int]
  /\ status  \in [Orders -> {"unused", "live", "delivered", "over"}]
  /\ placed  \in [Orders -> Request \cup {NoRequest}]
  /\ claim   \in [Keys -> Orders \cup {NoOrder}]
  /\ told    \subseteq Keys \X Request \X Orders
  /\ link    \in [Orders -> {"none", "open", "cancelled"}]
  /\ txn     \in [Handlers -> Txn \cup {Idle}]

\* A seeded catalogue: upsert_product records an opening balance.
Init ==
  /\ policy \in [Skus -> {"tracked", "made_to_order"}]
  /\ stock  \in [Skus -> Counts]
  /\ \A s \in Skus : policy[s] = "made_to_order" => stock[s] = 0
  /\ active  = [s \in Skus |-> TRUE]
  /\ ledger  = stock
  /\ screen  = stock
  /\ counted = stock
  /\ status  = [o \in Orders |-> "unused"]
  /\ placed  = [o \in Orders |-> NoRequest]
  /\ claim   = [k \in Keys |-> NoOrder]
  /\ told    = {}
  /\ link    = [o \in Orders |-> "none"]
  /\ txn     = [h \in Handlers |-> Idle]

-----------------------------------------------------------------------------
(* Locks.                                                                   *)

Busy(h) == txn[h] # Idle
At(h, step) == Busy(h) /\ txn[h].step = step

\* An open transaction has inserted the row of key k.
Claimed(k) == \E h \in Handlers : Busy(h) /\ txn[h].key = k

\* Past its reservation: the rows it took are locked.
Holding(h) == Busy(h) /\ txn[h].step \in {"reserved", "written"}

\* An open transaction has decremented the row of s.
RowLocked(s) == \E h \in Handlers : Holding(h) /\ s \in txn[h].took

\* new_order_id: an id no order, no link and no open transaction has.
Fresh(o) == /\ status[o] = "unused" /\ link[o] = "none"
            /\ \A h \in Handlers : Busy(h) => txn[h].order # o

Close(h) == txn' = [txn EXCEPT ![h] = Idle]

-----------------------------------------------------------------------------
(* Checkout.                                                                *)

\* Mutant: the claim does not wait for another one that is not committed.
ClaimBlind(h, k, r, o) ==
  /\ ~Busy(h) /\ claim[k] = NoOrder /\ Fresh(o)
  /\ txn' = [txn EXCEPT ![h] = [key |-> k, req |-> r, order |-> o, step |-> "claimed",
                                tracked |-> {}, took |-> {}]]
  /\ UNCHANGED <<shelf, book, link>>

\* IdempotencyRepository.claim inserts the key's row; the unique constraint
\* makes it wait for another transaction that has.
Claim(h, k, r, o) ==
  /\ ~Busy(h) /\ claim[k] = NoOrder /\ ~Claimed(k) /\ Fresh(o)
  /\ txn' = [txn EXCEPT ![h] = [key |-> k, req |-> r, order |-> o, step |-> "claimed",
                                tracked |-> {}, took |-> {}]]
  /\ UNCHANGED <<shelf, book, link>>

\* The key has a response: it is given again if the fingerprint is the same.
Replay(k, r) ==
  /\ claim[k] # NoOrder /\ placed[claim[k]] = r
  /\ told' = told \cup {<<k, r, claim[k]>>}
  /\ UNCHANGED <<shelf, status, placed, claim, link, txn>>

\* The orders count_active_cod_orders counts.
ActiveCod == {o \in Orders : status[o] = "live" /\ placed[o].method = "cod"}

\* Every line is on sale, with enough of it where it is counted.
Sellable(cart) ==
  \A s \in Lines(cart) : active[s] /\ (policy[s] = "tracked" => stock[s] >= cart[s])

\* _price, build_cart and _check_cod_eligibility find nothing to object to.
Price(h) ==
  /\ At(h, "claimed")
  /\ Sellable(txn[h].req.cart)
  /\ txn[h].req.method = "cod" => Cardinality(ActiveCod) < MaxActiveCod
  /\ txn' = [txn EXCEPT ![h].step = "priced",
                        ![h].tracked = {s \in Skus : policy[s] = "tracked"}]
  /\ UNCHANGED <<shelf, book, link>>

\* The gateway makes a link for an online order.
OpenLink(h) ==
  /\ At(h, "priced") /\ txn[h].req.method = "online"
  /\ txn'  = [txn EXCEPT ![h].step = "linked"]
  /\ link' = [link EXCEPT ![txn[h].order] = "open"]
  /\ UNCHANGED <<shelf, book>>

ReadyToReserve(h) == At(h, IF txn[h].req.method = "cod" THEN "priced" ELSE "linked")

\* Mutant: the reservation relies on what pricing has seen.
ReserveUnchecked(h) ==
  /\ Busy(h) /\ ReadyToReserve(h)
  /\ \A s \in Lines(txn[h].req.cart) : ~RowLocked(s)
  /\ txn' = [txn EXCEPT ![h].step = "reserved",
                        ![h].took = Lines(txn[h].req.cart) \cap txn[h].tracked]
  /\ UNCHANGED <<shelf, book, link>>

\* reserve_stock_bulk succeeds for every line.  It waits for rows another
\* checkout has decremented, and looks at them again when it gets them.
Reserve(h) ==
  /\ Busy(h) /\ ReadyToReserve(h)
  /\ \A s \in Lines(txn[h].req.cart) : ~RowLocked(s)
  /\ Sellable(txn[h].req.cart)
  /\ txn' = [txn EXCEPT ![h].step = "reserved",
                        ![h].took = {s \in Lines(txn[h].req.cart) : policy[s] = "tracked"}]
  /\ UNCHANGED <<shelf, book, link>>

\* next_order_number takes the row of today's counter, the order and its
\* ledger entries are inserted, and create_order returns.
WriteOrder(h) ==
  /\ At(h, "reserved")
  /\ \A g \in Handlers : ~At(g, "written")
  /\ txn' = [txn EXCEPT ![h].step = "written"]
  /\ UNCHANGED <<shelf, book, link>>

\* The order, its ledger entries, the reservation and the completed key are
\* committed together.
PlaceOrder(h) ==
  /\ At(h, "written")
  /\ LET t == txn[h] IN
     /\ stock'  = [s \in Skus |-> IF s \in t.took THEN stock[s] - t.req.cart[s]
                                  ELSE stock[s]]
     /\ ledger' = [s \in Skus |-> IF s \in t.tracked THEN ledger[s] - t.req.cart[s]
                                  ELSE ledger[s]]
     /\ status' = [status EXCEPT ![t.order] = "live"]
     /\ placed' = [placed EXCEPT ![t.order] = t.req]
     /\ claim'  = [claim EXCEPT ![t.key] = t.order]
     /\ told'   = told \cup {<<t.key, t.req, t.order>>}
  /\ Close(h)
  /\ UNCHANGED <<policy, active, screen, counted, link>>

\* A refusal, an error or a crash before create_order returns: everything is
\* rolled back, and the link is cancelled if the gateway can be reached.
Abandon(h) ==
  /\ Busy(h) /\ ~At(h, "written")
  /\ LET o == txn[h].order IN
     \/ link' = [link EXCEPT ![o] = IF @ = "open" THEN "cancelled" ELSE @]
     \/ UNCHANGED link
  /\ Close(h)
  /\ UNCHANGED <<shelf, book>>

\* create_order has returned and the commit fails.
CommitFails(h) ==
  /\ At(h, "written")
  /\ Close(h)
  /\ UNCHANGED <<shelf, book, link>>

-----------------------------------------------------------------------------
(* What else moves stock.                                                   *)

\* _cancel of an order that has not left the farm: release_stock credits the
\* lines whose rows are tracked now.
CancelOrder(o) ==
  /\ status[o] = "live"
  /\ LET qty == [s \in Skus |-> IF policy[s] = "tracked" THEN placed[o].cart[s] ELSE 0]
     IN
     /\ \A s \in Lines(qty) : ~RowLocked(s)
     /\ stock'  = [s \in Skus |-> stock[s] + qty[s]]
     /\ ledger' = [s \in Skus |-> ledger[s] + qty[s]]
  /\ status' = [status EXCEPT ![o] = "over"]
  /\ UNCHANGED <<policy, active, screen, counted, placed, claim, told, link, txn>>

Deliver(o) ==
  /\ status[o] = "live"
  /\ status' = [status EXCEPT ![o] = "delivered"]
  /\ UNCHANGED <<shelf, placed, claim, told, link, txn>>

\* The owner's stock screen loads.
Look(s) ==
  /\ screen' = [screen EXCEPT ![s] = stock[s]]
  /\ UNCHANGED <<stock, policy, active, ledger, counted, book, link, txn>>

\* Mutant: a recount overwrites the row whatever it holds by now.
SetStockBlind(s, q) ==
  /\ ~RowLocked(s)
  /\ stock'   = [stock EXCEPT ![s] = q]
  /\ ledger'  = [ledger EXCEPT ![s] = @ + q - screen[s]]
  /\ counted' = [counted EXCEPT ![s] = @ + q - screen[s]]
  /\ UNCHANGED <<policy, active, screen, book, link, txn>>

\* Mutant: a recount enters the ledger with its absolute value.
SetStockAbsolute(s, q) ==
  /\ ~RowLocked(s) /\ stock[s] = screen[s]
  /\ stock'   = [stock EXCEPT ![s] = q]
  /\ ledger'  = [ledger EXCEPT ![s] = @ + q]
  /\ counted' = [counted EXCEPT ![s] = @ + q - screen[s]]
  /\ UNCHANGED <<policy, active, screen, book, link, txn>>

\* set_stock: a recount, if the row still holds what the screen showed.
SetStock(s, q) ==
  /\ ~RowLocked(s) /\ stock[s] = screen[s]
  /\ stock'   = [stock EXCEPT ![s] = q]
  /\ ledger'  = [ledger EXCEPT ![s] = @ + q - screen[s]]
  /\ counted' = [counted EXCEPT ![s] = @ + q - screen[s]]
  /\ UNCHANGED <<policy, active, screen, book, link, txn>>

\* adjust_stock: a correction that does not take the shelf below zero.
AdjustStock(s, d) ==
  /\ ~RowLocked(s) /\ policy[s] = "tracked" /\ stock[s] + d \in 0..MaxShelf
  /\ stock'   = [stock EXCEPT ![s] = @ + d]
  /\ ledger'  = [ledger EXCEPT ![s] = @ + d]
  /\ counted' = [counted EXCEPT ![s] = @ + d]
  /\ UNCHANGED <<policy, active, screen, book, link, txn>>

\* set_variant_active: the "sold out for today" switch.
SetActive(s) ==
  /\ ~RowLocked(s)
  /\ active' = [active EXCEPT ![s] = ~@]
  /\ UNCHANGED <<stock, policy, ledger, screen, counted, book, link, txn>>

-----------------------------------------------------------------------------

Checkout(h) ==
  \/ \E k \in Keys, r \in Request, o \in Orders : Claim(h, k, r, o)
  \/ Price(h)
  \/ OpenLink(h)
  \/ Reserve(h)
  \/ WriteOrder(h)
  \/ PlaceOrder(h)
  \/ Abandon(h)
  \/ CommitFails(h)

Owner(s) ==
  \/ Look(s)
  \/ \E q \in Counts : SetStock(s, q)
  \/ \E d \in Deltas : AdjustStock(s, d)
  \/ SetActive(s)

Next ==
  \/ \E h \in Handlers : Checkout(h)
  \/ \E k \in Keys, r \in Request : Replay(k, r)
  \/ \E o \in Orders : CancelOrder(o) \/ Deliver(o)
  \/ \E s \in Skus : Owner(s)

Spec == Init /\ [][Next]_vars
-----------------------------------------------------------------------------

\* Retries of one checkout, however they overlap, fail or are repeated, place
\* one order, and every answer names it and is for the request that was sent.
KeyNamesOneOrder ==
  /\ \A k \in Keys : claim[k] # NoOrder => status[claim[k]] # "unused"
  /\ \A a \in told : a[3] = claim[a[1]] /\ a[2] = placed[a[3]]
  /\ \A o \in Orders : status[o] # "unused" => \E k \in Keys : claim[k] = o
  /\ \A k, l \in Keys : (claim[k] = claim[l] /\ claim[k] # NoOrder) => k = l

\* The orders that have taken goods and not handed them back.
Out == {o \in Orders : status[o] \in {"live", "delivered"}}

\* What they have taken of s.
Promised(s) == SumFunctionOnSet([o \in Out |-> placed[o].cart[s]], Out)

\* The shelf and the orders add up to what the owner has put there: no unit is
\* promised twice, none is lost to a recount or handed back twice.
NoUnitSoldTwice ==
  \A s \in Skus : stock[s] + (IF policy[s] = "tracked" THEN Promised(s) ELSE 0) = counted[s]

\* find_stock_discrepancies finds nothing: the ledger accounts for every unit
\* on the shelf.
LedgerMatchesStock ==
  \A s \in Skus : policy[s] = "tracked" => ledger[s] = stock[s]

\* The cap on a customer's active COD orders is counted while pricing and relied on
\* by an insert much later: checkouts that overlap pass it, but only by as many as
\* overlap (count_active_cod_orders).
CodCapNearlyKept ==
  Cardinality(ActiveCod) <= MaxActiveCod + Cardinality(Handlers) - 1

Promise == INSTANCE Shop WITH Requests <- Request

\* Placing an order is one step for everybody who looks at the rows: it takes its
\* goods while they are there and on sale, although they were priced long before.
ImplementsShop == Promise!Spec

-----------------------------------------------------------------------------
(* The inductive invariant.                                                 *)

\* A reservation under way can be committed: its rows still hold enough, and no
\* other reservation has them.
ReservationsHold ==
  \A g, h \in Handlers :
    Holding(h) =>
      /\ \A s \in txn[h].took : stock[s] >= txn[h].req.cart[s]
      /\ Holding(g) /\ g # h => txn[g].took \cap txn[h].took = {}

\* Open checkouts have keys and order ids of their own, unused so far.
ClaimsApart ==
  \A g, h \in Handlers :
    Busy(h) =>
      /\ claim[txn[h].key] = NoOrder
      /\ status[txn[h].order] = "unused"
      /\ Busy(g) /\ g # h => txn[g].key # txn[h].key /\ txn[g].order # txn[h].order

\* What a checkout enters in the ledger is what its reservation takes.
EntriesAsTaken ==
  \A h \in Handlers :
    /\ Busy(h) /\ txn[h].step # "claimed" => txn[h].tracked = {s \in Skus : policy[s] = "tracked"}
    /\ Holding(h) => txn[h].took = Lines(txn[h].req.cart) \cap txn[h].tracked

\* An order carries the request it was placed for.
OrdersHaveRequests ==
  \A o \in Orders : status[o] # "unused" => placed[o] \in Request

\* Checkouts that have counted the active COD orders and will add one.
CodPriced == {h \in Handlers : Busy(h) /\ txn[h].req.method = "cod" /\ txn[h].step # "claimed"}

\* They leave room for each other: the last to count saw less than the cap.
CodRoom ==
  Cardinality(ActiveCod) + Cardinality(CodPriced) <= MaxActiveCod + Cardinality(Handlers) - 1

IInv ==
  /\ TypeOK
  /\ KeyNamesOneOrder
  /\ ReservationsHold
  /\ ClaimsApart
  /\ EntriesAsTaken
  /\ LedgerMatchesStock
  /\ OrdersHaveRequests
=============================================================================
