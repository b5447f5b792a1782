------------------------------ MODULE Accounts ------------------------------
(***************************************************************************)
(* The accounts of one person who signs in with Google: sign-in, session   *)
(* renewal, the profile and the saved addresses, orders carrying a copy of *)
(* an address, and the erasure of it all (DELETE /me).                     *)
(*                                                                         *)
(* A request is one READ COMMITTED transaction.  A row it inserts for an   *)
(* account keeps a KEY SHARE lock on the account's row (foreign key) until *)
(* the commit.  The erasure clears google_sub, which has a unique index,   *)
(* so its UPDATE waits for those locks and makes later inserts wait.       *)
(***************************************************************************)
EXTENDS Naturals, FiniteSets

CONSTANTS
  Accounts,      \* users.id
  Labels,        \* addresses.label
  Orders, Tokens,
  Handlers,      \* requests the server can have in progress at once
  MaxAddresses,  \* MAX_ADDRESSES_PER_USER
  NoAccount, NoToken, Idle

\* Open requests.  An erasure goes through its statements one by one.
SignIn  == [op : {"signin"}, user : Accounts, new : BOOLEAN, stamped : BOOLEAN]
Refresh == [op : {"refresh"}, user : Accounts, old : Tokens,
            heir : Tokens \cup {NoToken}]
Save    == [op : {"save"}, user : Accounts, label : Labels]
Order   == [op : {"order"}, user : Accounts, order : Orders,
            kind : {"home", "late"}]
Erase   == [op : {"erase"}, user : Accounts, step : {"revoking", "deleted", "locked"},
            over : SUBSET Tokens, gone : SUBSET Labels]
Requests == SignIn \cup Refresh \cup Save \cup Order \cup Erase

ASSUME CapAssumption     == MaxAddresses \in Nat /\ IsFiniteSet(Labels)
ASSUME ServerAssumption  == IsFiniteSet(Handlers) /\ Handlers # {}
ASSUME MarkersAssumption == /\ NoAccount \notin Accounts
                            /\ NoToken \notin Tokens
                            /\ Idle \notin Requests

VARIABLES
  linked,   \* users.google_sub is the person's
  status,   \* users.status, "none" without a row
  named,    \* users.name and phone are filled in
  book,     \* addresses.label
  address,  \* orders.address: of the person's home, written before ("home")
            \* or after ("late") the account was erased, or the placeholder
  buyer,    \* orders.user_id
  holder,   \* refresh_tokens.user_id
  live,     \* refresh_tokens.revoked_at is null
  access,   \* the person has an access token of the account that still works
  txn       \* the request each handler is working on

person   == <<linked, status, named, book>>
orders   == <<address, buyer>>
sessions == <<holder, live, access>>
vars     == <<person, orders, sessions, txn>>

TypeOK ==
  /\ linked  \in [Accounts -> BOOLEAN]
  /\ status  \in [Accounts -> {"none", "active", "deleted"}]
  /\ named   \in [Accounts -> BOOLEAN]
  /\ book    \in [Accounts -> SUBSET Labels]
  /\ address \in [Orders -> {"none", "home", "late", "erased"}]
  /\ buyer   \in [Orders -> Accounts \cup {NoAccount}]
  /\ holder  \in [Tokens -> Accounts \cup {NoAccount}]
  /\ live    \in [Tokens -> BOOLEAN]
  /\ access  \in [Accounts -> BOOLEAN]
  /\ txn     \in [Handlers -> Requests \cup {Idle}]

Init ==
  /\ linked  = [u \in Accounts |-> FALSE]
  /\ status  = [u \in Accounts |-> "none"]
  /\ named   = [u \in Accounts |-> FALSE]
  /\ book    = [u \in Accounts |-> {}]
  /\ address = [o \in Orders |-> "none"]
  /\ buyer   = [o \in Orders |-> NoAccount]
  /\ holder  = [t \in Tokens |-> NoAccount]
  /\ live    = [t \in Tokens |-> FALSE]
  /\ access  = [u \in Accounts |-> FALSE]
  /\ txn     = [h \in Handlers |-> Idle]

-----------------------------------------------------------------------------
(* Transactions and their locks.                                            *)

Doing(h, op) == txn[h] # Idle /\ txn[h].op = op
For(h, u)    == txn[h] # Idle /\ txn[h].user = u

SigningIn(h)  == Doing(h, "signin")
Refreshing(h) == Doing(h, "refresh")
Saving(h)     == Doing(h, "save")
Ordering(h)   == Doing(h, "order")
Erasing(h)    == Doing(h, "erase")

Open(h, t) == txn[h] = Idle /\ txn' = [txn EXCEPT ![h] = t]
Close(h)   == txn' = [txn EXCEPT ![h] = Idle]
Goes(h, t) == txn' = [txn EXCEPT ![h] = t]

\* The erasure has updated the account's row and not committed yet.
RowErased(u) == \E h \in Handlers : Erasing(h) /\ For(h, u) /\ txn[h].step = "locked"

\* Other open requests hold the account's row, by an update or a foreign key.
RowHeld(h, u) ==
  \E g \in Handlers \ {h} :
    /\ For(g, u)
    /\ \/ Saving(g) \/ Ordering(g)
       \/ SigningIn(g) /\ txn[g].stamped
       \/ Refreshing(g) /\ txn[g].heir # NoToken

\* A refresh has marked the token and not committed yet.
Rotating(t) == \E h \in Handlers : Refreshing(h) /\ txn[h].old = t /\ txn[h].heir # NoToken

\* An erasure has revoked the token, or deleted the address, and not committed.
RevokedBy(t)    == \E h \in Handlers : Erasing(h) /\ txn[h].step # "revoking" /\ t \in txn[h].over
DeletedBy(u, l) == \E h \in Handlers : Erasing(h) /\ For(h, u) /\ l \in txn[h].gone

\* A token id that was never used.
Unused(t) == holder[t] = NoAccount /\ \A h \in Handlers : ~(Refreshing(h) /\ txn[h].heir = t)

\* A request that is refused, fails or dies: nothing it wrote remains.
Abort(h) ==
  /\ txn[h] # Idle
  /\ Close(h)
  /\ UNCHANGED <<person, orders, sessions>>

-----------------------------------------------------------------------------
(* Signing in and renewing a session.                                       *)

\* get_or_create_by_google inserts unless google_sub is taken; the unique
\* index makes it wait for an insert or an erasure that is under way.
SignInBegin(h) ==
  /\ \A u \in Accounts : ~RowErased(u)
  /\ \A g \in Handlers : ~(SigningIn(g) /\ txn[g].new)
  /\ \E u \in Accounts :
       /\ \/ linked[u]
          \/ status[u] = "none" /\ \A v \in Accounts : ~linked[v]
       /\ Open(h, [op |-> "signin", user |-> u, new |-> ~linked[u], stamped |-> ~linked[u]])
  /\ UNCHANGED <<person, orders, sessions>>

\* Mutant: last_login_at is only set by the insert, so nothing locks the row.
SignInStampNone(h) ==
  /\ SigningIn(h)
  /\ ~txn[h].stamped
  /\ Goes(h, [txn[h] EXCEPT !.stamped = TRUE])
  /\ UNCHANGED <<person, orders, sessions>>

\* The update of last_login_at finds the row by google_sub and locks it; it
\* may be another row than the insert met, if that was erased since.
SignInStamp(h) ==
  /\ SigningIn(h)
  /\ ~txn[h].stamped
  /\ \A u \in Accounts : ~RowErased(u)
  /\ \E u \in Accounts :
       /\ linked[u]
       /\ Goes(h, [op |-> "signin", user |-> u, new |-> txn[h].new, stamped |-> TRUE])
  /\ UNCHANGED <<person, orders, sessions>>

\* The account was erased in between and the person has no other: get returns
\* nothing, and the RuntimeError ("should be impossible") is a 500.
SignInVanished(h) ==
  /\ SigningIn(h)
  /\ ~txn[h].stamped
  /\ \A u \in Accounts : ~linked[u]
  /\ Close(h)
  /\ UNCHANGED <<person, orders, sessions>>

\* _issue_tokens, and the commit.
SignInCommit(h, t) ==
  LET u == txn[h].user IN
  /\ SigningIn(h)
  /\ txn[h].stamped
  /\ Unused(t)
  /\ linked' = IF txn[h].new THEN [linked EXCEPT ![u] = TRUE] ELSE linked
  /\ status' = IF txn[h].new THEN [status EXCEPT ![u] = "active"] ELSE status
  /\ named'  = IF txn[h].new THEN [named EXCEPT ![u] = TRUE] ELSE named
  /\ holder' = [holder EXCEPT ![t] = u]
  /\ live'   = [live EXCEPT ![t] = TRUE]
  /\ access' = [access EXCEPT ![u] = TRUE]
  /\ Close(h)
  /\ UNCHANGED <<book, orders>>

\* Mutant: only the token is looked at, not the account.
RefreshBeginAny(h, t) ==
  /\ live[t]
  /\ Open(h, [op |-> "refresh", user |-> holder[t], old |-> t, heir |-> NoToken])
  /\ UNCHANGED <<person, orders, sessions>>

\* AuthService.refresh reads the token's row and then the account's.
RefreshBegin(h, t) ==
  /\ live[t]
  /\ status[holder[t]] = "active"
  /\ Open(h, [op |-> "refresh", user |-> holder[t], old |-> t, heir |-> NoToken])
  /\ UNCHANGED <<person, orders, sessions>>

\* mark_rotated succeeds, and the successor is inserted for the account.
Rotate(h, t) ==
  /\ Refreshing(h)
  /\ txn[h].heir = NoToken
  /\ live[txn[h].old]
  /\ ~Rotating(txn[h].old)
  /\ ~RevokedBy(txn[h].old)
  /\ ~RowErased(txn[h].user)
  /\ Unused(t)
  /\ Goes(h, [txn[h] EXCEPT !.heir = t])
  /\ UNCHANGED <<person, orders, sessions>>

RefreshCommit(h) ==
  /\ Refreshing(h)
  /\ txn[h].heir # NoToken
  /\ holder' = [holder EXCEPT ![txn[h].heir] = txn[h].user]
  /\ live'   = [live EXCEPT ![txn[h].old] = FALSE, ![txn[h].heir] = TRUE]
  /\ access' = [access EXCEPT ![txn[h].user] = TRUE]
  /\ Close(h)
  /\ UNCHANGED <<person, orders>>

\* access_token_ttl_min
AccessExpires(u) ==
  /\ access[u]
  /\ access' = [access EXCEPT ![u] = FALSE]
  /\ UNCHANGED <<person, orders, holder, live, txn>>

-----------------------------------------------------------------------------
(* The profile, the address book and orders: current_user decodes the        *)
(* access token and asks the database nothing.                              *)

\* PATCH /me; the update waits for the row.
UpdateProfile(u) ==
  /\ access[u]
  /\ ~named[u]
  /\ ~RowErased(u)
  /\ \A h \in Handlers : ~(SigningIn(h) /\ For(h, u) /\ txn[h].stamped)
  /\ named' = [named EXCEPT ![u] = TRUE]
  /\ UNCHANGED <<linked, status, book, orders, sessions, txn>>

\* Nobody else is inserting this label, or deleting it with the account.
LabelFree(u, l) ==
  /\ ~DeletedBy(u, l)
  /\ \A h \in Handlers : ~(Saving(h) /\ For(h, u) /\ txn[h].label = l)

\* Mutant: the limit is compared with >, not >=.
SaveInsertOneMore(h, u, l) ==
  /\ access[u]
  /\ l \notin book[u]
  /\ Cardinality(book[u]) <= MaxAddresses
  /\ LabelFree(u, l)
  /\ ~RowErased(u)
  /\ Open(h, [op |-> "save", user |-> u, label |-> l])
  /\ UNCHANGED <<person, orders, sessions>>

\* upsert_address under a new label, after the count; an address saved under
\* its own label again changes nothing that is modelled.
SaveInsert(h, u, l) ==
  /\ access[u]
  /\ l \notin book[u]
  /\ Cardinality(book[u]) < MaxAddresses
  /\ LabelFree(u, l)
  /\ ~RowErased(u)
  /\ Open(h, [op |-> "save", user |-> u, label |-> l])
  /\ UNCHANGED <<person, orders, sessions>>

SaveCommit(h) ==
  /\ Saving(h)
  /\ book' = [book EXCEPT ![txn[h].user] = @ \cup {txn[h].label}]
  /\ Close(h)
  /\ UNCHANGED <<linked, status, named, orders, sessions>>

\* upsert_address with previous_label: an update of the row itself.
Rename(u, l, m) ==
  /\ access[u]
  /\ l \in book[u] /\ m \notin book[u]
  /\ LabelFree(u, l) /\ LabelFree(u, m)
  /\ book' = [book EXCEPT ![u] = (@ \ {l}) \cup {m}]
  /\ UNCHANGED <<linked, status, named, orders, sessions, txn>>

\* delete_address
Delete(u, l) ==
  /\ access[u]
  /\ l \in book[u]
  /\ LabelFree(u, l)
  /\ book' = [book EXCEPT ![u] = @ \ {l}]
  /\ UNCHANGED <<linked, status, named, orders, sessions, txn>>

\* create_order inserts the order with the address it was sent (module
\* Checkout has the rest).
OrderInsert(h, u, o) ==
  /\ access[u]
  /\ address[o] = "none"
  /\ \A g \in Handlers : ~(Ordering(g) /\ txn[g].order = o)
  /\ ~RowErased(u)
  /\ Open(h, [op |-> "order", user |-> u, order |-> o,
              kind |-> IF status[u] = "deleted" THEN "late" ELSE "home"])
  /\ UNCHANGED <<person, orders, sessions>>

OrderCommit(h) ==
  /\ Ordering(h)
  /\ address' = [address EXCEPT ![txn[h].order] = txn[h].kind]
  /\ buyer'   = [buyer EXCEPT ![txn[h].order] = txn[h].user]
  /\ Close(h)
  /\ UNCHANGED <<person, sessions>>

-----------------------------------------------------------------------------
(* DELETE /me.                                                              *)

\* revoke_all_for_user sees the tokens committed when it starts.  One erasure
\* of an account at a time: a second one waits for the rows of the first.
EraseBegin(h, u) ==
  /\ access[u]
  /\ \A g \in Handlers : ~(Erasing(g) /\ For(g, u))
  /\ Open(h, [op |-> "erase", user |-> u, step |-> "revoking",
              over |-> {t \in Tokens : live[t] /\ holder[t] = u}, gone |-> {}])
  /\ UNCHANGED <<person, orders, sessions>>

\* It waits for the rows refreshes hold; then erase deletes the addresses
\* committed by now.
EraseAddresses(h) ==
  /\ Erasing(h)
  /\ txn[h].step = "revoking"
  /\ \A t \in txn[h].over : ~Rotating(t)
  /\ Goes(h, [txn[h] EXCEPT !.step = "deleted", !.gone = book[txn[h].user]])
  /\ UNCHANGED <<person, orders, sessions>>

\* Mutant: google_sub is kept, so that the update does not wait for the
\* foreign keys.
EraseRowShared(h) ==
  /\ Erasing(h)
  /\ txn[h].step = "deleted"
  /\ \A g \in Handlers : ~(SigningIn(g) /\ For(g, txn[h].user) /\ txn[g].stamped)
  /\ Goes(h, [txn[h] EXCEPT !.step = "locked"])
  /\ UNCHANGED <<person, orders, sessions>>

\* erase blanks the account's row, once nobody else holds it.
EraseRow(h) ==
  /\ Erasing(h)
  /\ txn[h].step = "deleted"
  /\ ~RowHeld(h, txn[h].user)
  /\ Goes(h, [txn[h] EXCEPT !.step = "locked"])
  /\ UNCHANGED <<person, orders, sessions>>

\* anonymize_addresses_for_user sees every order committed by now; and the
\* commit.
EraseCommit(h) ==
  LET u == txn[h].user IN
  /\ Erasing(h)
  /\ txn[h].step = "locked"
  /\ linked'  = [linked EXCEPT ![u] = FALSE]
  /\ status'  = [status EXCEPT ![u] = "deleted"]
  /\ named'   = [named EXCEPT ![u] = FALSE]
  /\ book'    = [book EXCEPT ![u] = @ \ txn[h].gone]
  /\ address' = [o \in Orders |-> IF buyer[o] = u THEN "erased" ELSE address[o]]
  /\ live'    = [t \in Tokens |-> live[t] /\ t \notin txn[h].over]
  /\ Close(h)
  /\ UNCHANGED <<buyer, holder, access>>

-----------------------------------------------------------------------------

Auth(h) ==
  \/ SignInBegin(h) \/ SignInStamp(h) \/ SignInVanished(h)
  \/ \E t \in Tokens : SignInCommit(h, t) \/ RefreshBegin(h, t) \/ Rotate(h, t)
  \/ RefreshCommit(h)

Profile(u) ==
  \/ UpdateProfile(u)
  \/ \E l \in Labels : Delete(u, l) \/ \E m \in Labels : Rename(u, l, m)

Write(h) ==
  \/ \E u \in Accounts : \/ \E l \in Labels : SaveInsert(h, u, l)
                         \/ \E o \in Orders : OrderInsert(h, u, o)
  \/ SaveCommit(h)
  \/ OrderCommit(h)

Erasure(h) ==
  \/ \E u \in Accounts : EraseBegin(h, u)
  \/ EraseAddresses(h) \/ EraseRow(h) \/ EraseCommit(h)

Next ==
  \/ \E h \in Handlers : Auth(h) \/ Write(h) \/ Erasure(h) \/ Abort(h)
  \/ \E u \in Accounts : Profile(u) \/ AccessExpires(u)

Spec == Init /\ [][Next]_vars
-----------------------------------------------------------------------------

\* No order slips past an erasure: one that was inserted before the account's
\* row was blanked is committed by then, and loses its address with the rest
\* (delete_me, "every piece of personal data reachable from this account").
ErasedOrdersAnonymous ==
  \A o \in Orders :
    buyer[o] # NoAccount /\ status[buyer[o]] = "deleted" => address[o] # "home"

\* A sign-in that has found its account issues its session for an account that
\* is still the person's when it commits, however an erasure interleaves.
SignInsFindLiveAccounts ==
  \A h \in Handlers :
    SigningIn(h) /\ txn[h].stamped /\ ~txn[h].new =>
      linked[txn[h].user] /\ status[txn[h].user] = "active"

\* The requests that are adding an address to account u.
Adding(u) == {h \in Handlers : Saving(h) /\ For(h, u)}

\* The limit on addresses is counted and then relied on, so requests that save
\* at once pass it together, but never by more than all the others that the
\* server can have in progress (MAX_ADDRESSES_PER_USER).
AddressesBounded ==
  \A u \in Accounts :
    Cardinality(book[u]) + Cardinality(Adding(u)) < MaxAddresses + Cardinality(Handlers)

\* Only active accounts are linked: what sign-in finds is never a dead row.
LinkedIsActive == \A u \in Accounts : linked[u] => status[u] = "active"

\* An order still open as written before the erasure is of a live account.
OpenOrdersLive ==
  \A h \in Handlers :
    Ordering(h) /\ txn[h].kind = "home" => status[txn[h].user] # "deleted"

\* Once an erasure has the account's row, nobody else holds it.
ErasureIsAlone ==
  \A h \in Handlers :
    Erasing(h) /\ txn[h].step = "locked" => ~RowHeld(h, txn[h].user)

\* A live refresh token is somebody's.
TokensHeld == \A t \in Tokens : live[t] => holder[t] # NoAccount

\* The inductive invariant: the first two properties hold because whatever they
\* speak of keeps the account's row locked, and the erasure waits for it
\* (UserRepository.erase clears google_sub).
IInv ==
  /\ TypeOK
  /\ ErasedOrdersAnonymous
  /\ SignInsFindLiveAccounts
  /\ LinkedIsActive
  /\ OpenOrdersLive
  /\ ErasureIsAlone
  /\ TokensHeld

\* An erased account with no access token left and no request in progress.
Dead(u) == /\ status[u] = "deleted"
           /\ ~access[u]
           /\ \A h \in Handlers : ~For(h, u)

\* Once an erased account is dead nothing revives it or writes to it, although
\* an overlapping refresh or sign-in may have left a usable refresh token
\* (erase flips the status "_reauthorize_from_db and AuthService.refresh
\* already both check").
DeadAccountsStayDead ==
  [][\A u \in Accounts : Dead(u) =>
       /\ Dead(u)'
       /\ named'[u] = named[u] /\ book'[u] = book[u]
       /\ \A o \in Orders : buyer'[o] = u => buyer[o] = u]_vars
=============================================================================
