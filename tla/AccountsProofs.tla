--------------------------- MODULE AccountsProofs ---------------------------
(***************************************************************************)
(* Accounts keeps its invariant for any number of accounts, addresses,     *)
(* orders, tokens and requests, and a dead account stays dead.             *)
(***************************************************************************)
EXTENDS Accounts, FiniteSetTheorems, TLAPS

\* Open requests, and none.
Txns == Requests \cup {Idle}

\* A request with a lock on the row of account u.
Holds(t, u) ==
  /\ t # Idle
  /\ t.user = u
  /\ \/ t.op \in {"save", "order"}
     \/ t.op = "signin" /\ t.stamped
     \/ t.op = "refresh" /\ t.heir # NoToken

\* A row of an account is locked for h when another open transaction holds it.
LEMMA RowHeldByHolder ==
  ASSUME NEW h, NEW u
  PROVE  RowHeld(h, u) <=> \E g \in Handlers \ {h} : Holds(txn[g], u)
BY DEF RowHeld, Holds, For, Saving, Ordering, SigningIn, Refreshing, Doing

\* An open request is a record of the kind its operation says.
LEMMA RequestKinds ==
  ASSUME TypeOK, NEW h \in Handlers
  PROVE  /\ SigningIn(h)  => txn[h] \in SignIn
         /\ Refreshing(h) => txn[h] \in Refresh
         /\ Saving(h)     => txn[h] \in Save
         /\ Ordering(h)   => txn[h] \in Order
         /\ Erasing(h)    => txn[h] \in Erase
         /\ txn[h] # Idle => txn[h] \in Requests /\ txn[h].user \in Accounts
BY DEF TypeOK, Doing, SigningIn, Refreshing, Saving, Ordering, Erasing,
       Requests, SignIn, Refresh, Save, Order, Erase

\* What a request t may be for the invariant, given the accounts' rows.
Sound(t) ==
  /\ t # Idle /\ t.op = "signin" /\ t.stamped /\ ~t.new =>
       linked[t.user] /\ status[t.user] = "active"
  /\ t # Idle /\ t.op = "order" /\ t.kind = "home" => status[t.user] # "deleted"

\* The two invariants about open requests, transaction by transaction, now and next.
LEMMA RequestsSound ==
  /\ SignInsFindLiveAccounts /\ OpenOrdersLive <=> \A h \in Handlers : Sound(txn[h])
  /\ (SignInsFindLiveAccounts /\ OpenOrdersLive <=> \A h \in Handlers : Sound(txn[h]))'
BY DEF SignInsFindLiveAccounts, OpenOrdersLive, Sound, SigningIn, Ordering, Doing

\* An erasure that has the row.
Locks(t) == t # Idle /\ t.op = "erase" /\ t.step = "locked"

\* That an erasure is alone, said of whoever holds the locks, now and next.
LEMMA AloneByLocks ==
  /\ ErasureIsAlone <=> \A h \in Handlers : Locks(txn[h]) =>
       \A g \in Handlers \ {h} : ~Holds(txn[g], txn[h].user)
  /\ (ErasureIsAlone <=> \A h \in Handlers : Locks(txn[h]) =>
       \A g \in Handlers \ {h} : ~Holds(txn[g], txn[h].user))'
BY DEF ErasureIsAlone, RowHeld, Locks, Erasing, Doing, Holds, For, Saving, Ordering,
       SigningIn, Refreshing

\* Nobody has the row if no erasure locks it.
LEMMA NotErased ==
  ASSUME NEW u, ~RowErased(u), NEW h \in Handlers, Locks(txn[h])
  PROVE  txn[h].user # u
BY DEF RowErased, Locks, Erasing, Doing, For

\* The parts about requests survive a step of one handler that takes no row
\* away from an erasure, if the rows of the others stay as they need them.
LEMMA RequestStep ==
  ASSUME IInv, NEW h \in Handlers, NEW t \in Txns, txn' = [txn EXCEPT ![h] = t],
         Sound(t)',
         \A g \in Handlers \ {h} : Sound(txn[g]) => (Sound(txn[g]))',
         \A g \in Handlers \ {h} : txn'[g] = txn[g],
         Locks(t) => ~RowHeld(h, t.user),
         \A u \in Accounts : Holds(t, u) => Holds(txn[h], u) \/ ~RowErased(u)
  PROVE  /\ txn' \in [Handlers -> Txns]
         /\ SignInsFindLiveAccounts' /\ OpenOrdersLive' /\ ErasureIsAlone'
<1>1. txn' \in [Handlers -> Txns] /\ txn'[h] = t
  BY DEF IInv, TypeOK, Txns
<1>2. \A g \in Handlers : Sound(txn[g])
  BY RequestsSound DEF IInv
<1>3. ASSUME NEW g \in Handlers PROVE Sound(txn[g])'
  <2>1. CASE g = h
    BY <1>1, <2>1 DEF Sound
  <2>2. CASE g # h
    BY <1>2, <2>2 DEF Sound
  <2> QED
    BY <2>1, <2>2
<1>4. ASSUME NEW f \in Handlers, Locks(txn'[f]), NEW g \in Handlers \ {f}
      PROVE  ~Holds(txn'[g], txn'[f].user)
  <2>1. CASE f = h
    BY <1>1, <1>4, <2>1, RowHeldByHolder
  <2>2. CASE f # h
    <3>1. Locks(txn[f]) /\ txn'[f] = txn[f] /\ txn[f].user \in Accounts
      BY <1>4, <2>2, RequestKinds DEF IInv, Locks
    <3>2. ~Holds(txn[g], txn[f].user)
      BY <3>1, AloneByLocks DEF IInv
    <3>3. CASE g # h
      BY <3>1, <3>2, <3>3
    <3>4. CASE g = h
      <4>1. ~RowErased(txn[f].user) => FALSE
        BY <3>1, NotErased
      <4> QED
        BY <1>1, <3>1, <3>2, <3>4, <4>1
    <3> QED
      BY <3>3, <3>4
  <2> QED
    BY <2>1, <2>2
<1>5. ErasureIsAlone'
  BY <1>4, AloneByLocks DEF Locks, Holds
<1> QED
  BY <1>1, <1>3, <1>5, RequestsSound

\* A step of one handler that leaves orders, links and statuses alone.
LEMMA TxnStep ==
  ASSUME IInv, UNCHANGED <<linked, status, orders>>,
         named' \in [Accounts -> BOOLEAN], book' \in [Accounts -> SUBSET Labels],
         NEW h \in Handlers, NEW t \in Txns,
         txn' = [txn EXCEPT ![h] = t],
         holder' \in [Tokens -> Accounts \cup {NoAccount}],
         live' \in [Tokens -> BOOLEAN], access' \in [Accounts -> BOOLEAN], TokensHeld',
         Sound(t), Locks(t) => ~RowHeld(h, t.user),
         \A u \in Accounts : Holds(t, u) => Holds(txn[h], u) \/ ~RowErased(u)
  PROVE  IInv'
<1>1. txn' \in [Handlers -> Txns]
      /\ SignInsFindLiveAccounts' /\ OpenOrdersLive' /\ ErasureIsAlone'
  <2>1. Sound(t)'
    BY DEF Sound
  <2>2. \A g \in Handlers \ {h} : Sound(txn[g]) => (Sound(txn[g]))'
    BY DEF Sound, IInv, TypeOK
  <2>3. \A g \in Handlers \ {h} : txn'[g] = txn[g]
    BY DEF IInv, TypeOK
  <2> QED
    BY <2>1, <2>2, <2>3, RequestStep
<1>2. TypeOK'
  BY <1>1 DEF IInv, TypeOK, Txns, orders
<1>3. ErasedOrdersAnonymous' /\ LinkedIsActive'
  BY DEF IInv, ErasedOrdersAnonymous, LinkedIsActive, orders
<1> QED
  BY <1>1, <1>2, <1>3 DEF IInv

\* A request that ends and leaves the accounts' rows to others alone.
LEMMA CloseStep ==
  ASSUME IInv, UNCHANGED <<person, orders, sessions>>, NEW h \in Handlers, Close(h)
  PROVE  IInv'
<1>1. Idle \in Txns /\ Sound(Idle) /\ ~Locks(Idle) /\ \A u : ~Holds(Idle, u)
  BY DEF Txns, Sound, Locks, Holds
<1> QED
  BY <1>1, TxnStep DEF Close, IInv, TypeOK, TokensHeld, person, sessions

-----------------------------------------------------------------------------
(* Signing in and renewing a session.                                       *)

\* A sign-in starts for an account that is linked, or that it makes.
LEMMA SignInBeginStep ==
  ASSUME IInv, NEW h \in Handlers, SignInBegin(h)
  PROVE  IInv'
<1>1. PICK u \in Accounts :
        Open(h, [op |-> "signin", user |-> u, new |-> ~linked[u], stamped |-> ~linked[u]])
  BY DEF SignInBegin
<1> DEFINE t == [op |-> "signin", user |-> u, new |-> ~linked[u], stamped |-> ~linked[u]]
<1>2. linked[u] \in BOOLEAN
  BY DEF IInv, TypeOK
<1>3. (~linked[u]) \in BOOLEAN
  BY <1>2, Zenon
<1>4. t \in Txns /\ Sound(t) /\ ~Locks(t)
  BY <1>3 DEF Txns, Requests, SignIn, Sound, Locks
<1>5. \A v \in Accounts : ~RowErased(v)
  BY DEF SignInBegin
<1> QED
  BY <1>1, <1>4, <1>5, TxnStep DEF SignInBegin, Open, IInv, TypeOK, TokensHeld, person, sessions

\* The stamp of a sign-in locks the row of an account that is linked then.
LEMMA SignInStampStep ==
  ASSUME IInv, NEW h \in Handlers, SignInStamp(h)
  PROVE  IInv'
<1>1. PICK u \in Accounts :
        linked[u] /\ Goes(h, [op |-> "signin", user |-> u, new |-> txn[h].new, stamped |-> TRUE])
  BY DEF SignInStamp
<1> DEFINE t == [op |-> "signin", user |-> u, new |-> txn[h].new, stamped |-> TRUE]
<1>2. txn[h] \in SignIn
  BY RequestKinds DEF SignInStamp, IInv
<1>3. t \in SignIn
  BY <1>2 DEF SignIn
<1>4. t \in Txns /\ Sound(t) /\ ~Locks(t)
  BY <1>1, <1>3 DEF Txns, Requests, Sound, Locks, IInv, LinkedIsActive
<1>5. \A v \in Accounts : ~RowErased(v)
  BY DEF SignInStamp
<1> QED
  BY <1>1, <1>4, <1>5, TxnStep DEF SignInStamp, Goes, IInv, TypeOK, TokensHeld, person, sessions

\* A new account is alive, so that whatever was sound stays so.
LEMMA SignInCommitStep ==
  ASSUME IInv, NEW h \in Handlers, NEW k \in Tokens, SignInCommit(h, k)
  PROVE  IInv'
<1> DEFINE u == txn[h].user
<1>1. txn[h] \in SignIn /\ u \in Accounts /\ Idle \in Txns
  BY RequestKinds DEF SignInCommit, IInv, SignIn, Txns
<1>2. \A v \in Accounts : linked'[v] = (linked[v] \/ (v = u /\ txn[h].new))
  BY <1>1 DEF SignInCommit, IInv, TypeOK, SignIn
<1>3. \A v \in Accounts :
        status'[v] = IF v = u /\ txn[h].new THEN "active" ELSE status[v]
  BY <1>1 DEF SignInCommit, IInv, TypeOK, SignIn
<1>4. \A g \in Handlers \ {h} : Sound(txn[g]) => (Sound(txn[g]))'
  <2> SUFFICES ASSUME NEW g \in Handlers \ {h}, Sound(txn[g]) PROVE (Sound(txn[g]))'
    OBVIOUS
  <2>1. txn'[g] = txn[g]
    BY DEF SignInCommit, Close, IInv, TypeOK
  <2>2. txn[g] # Idle => txn[g].user \in Accounts
    BY RequestKinds DEF IInv
  <2> QED
    BY <1>2, <1>3, <2>1, <2>2 DEF Sound
<1>5. /\ txn' \in [Handlers -> Txns]
      /\ SignInsFindLiveAccounts' /\ OpenOrdersLive' /\ ErasureIsAlone'
  <2>1. Sound(Idle)' /\ ~Locks(Idle) /\ \A v : ~Holds(Idle, v)
    BY DEF Sound, Locks, Holds
  <2>2. \A g \in Handlers \ {h} : txn'[g] = txn[g]
    BY DEF SignInCommit, Close, IInv, TypeOK
  <2> QED
    BY <1>1, <1>4, <2>1, <2>2, RequestStep DEF SignInCommit, Close
<1>6. TypeOK'
  <2>1. linked' \in [Accounts -> BOOLEAN]
    BY DEF SignInCommit, IInv, TypeOK
  <2>2. status' \in [Accounts -> {"none", "active", "deleted"}]
    BY DEF SignInCommit, IInv, TypeOK
  <2>3. named' \in [Accounts -> BOOLEAN]
    BY DEF SignInCommit, IInv, TypeOK
  <2>4. holder' \in [Tokens -> Accounts \cup {NoAccount}]
    BY <1>1 DEF SignInCommit, IInv, TypeOK
  <2>5. live' \in [Tokens -> BOOLEAN] /\ access' \in [Accounts -> BOOLEAN]
    BY DEF SignInCommit, IInv, TypeOK
  <2> QED
    BY <1>5, <2>1, <2>2, <2>3, <2>4, <2>5
       DEF SignInCommit, IInv, TypeOK, Txns, orders
<1>7. LinkedIsActive'
  BY <1>2, <1>3 DEF IInv, LinkedIsActive
<1>8. ErasedOrdersAnonymous'
  BY <1>3 DEF SignInCommit, IInv, TypeOK, ErasedOrdersAnonymous, orders
<1>9. TokensHeld'
  BY <1>1, MarkersAssumption DEF SignInCommit, IInv, TypeOK, TokensHeld
<1> QED
  BY <1>5, <1>6, <1>7, <1>8, <1>9 DEF IInv

\* refresh reads the account of a token before it locks anything.
LEMMA RefreshBeginStep ==
  ASSUME IInv, NEW h \in Handlers, NEW k \in Tokens, RefreshBegin(h, k)
  PROVE  IInv'
<1> DEFINE t == [op |-> "refresh", user |-> holder[k], old |-> k, heir |-> NoToken]
<1>1. holder[k] \in Accounts
  BY MarkersAssumption DEF RefreshBegin, IInv, TypeOK, TokensHeld
<1>2. t \in Txns /\ Sound(t) /\ ~Locks(t) /\ \A u : ~Holds(t, u)
  BY <1>1 DEF Txns, Requests, Refresh, Sound, Locks, Holds
<1> QED
  BY <1>2, TxnStep DEF RefreshBegin, Open, IInv, TypeOK, TokensHeld, person, sessions

\* A rotation locks the account's row and makes the successor.
LEMMA RotateStep ==
  ASSUME IInv, NEW h \in Handlers, NEW k \in Tokens, Rotate(h, k)
  PROVE  IInv'
<1> DEFINE t == [txn[h] EXCEPT !.heir = k]
<1>1. txn[h] \in Refresh
  BY RequestKinds DEF Rotate, IInv
<1>2. t \in Refresh /\ t.user = txn[h].user /\ t.op = "refresh"
  BY <1>1 DEF Refresh
<1>3. t \in Txns /\ Sound(t) /\ ~Locks(t)
  BY <1>2 DEF Txns, Requests, Sound, Locks
<1>4. \A u \in Accounts : Holds(t, u) => ~RowErased(u)
  BY <1>2 DEF Holds, Rotate
<1> QED
  BY <1>3, <1>4, TxnStep DEF Rotate, Goes, IInv, TypeOK, TokensHeld, person, sessions

\* The commit of a refresh puts the successor in the token's place.
LEMMA RefreshCommitStep ==
  ASSUME IInv, NEW h \in Handlers, RefreshCommit(h)
  PROVE  IInv'
<1>1. txn[h] \in Refresh
  BY RequestKinds DEF RefreshCommit, IInv
<1>2. /\ holder' \in [Tokens -> Accounts \cup {NoAccount}]
      /\ live' \in [Tokens -> BOOLEAN] /\ access' \in [Accounts -> BOOLEAN]
  BY <1>1 DEF RefreshCommit, IInv, TypeOK, Refresh
<1>3. Idle \in Txns /\ Sound(Idle) /\ ~Locks(Idle) /\ \A u : ~Holds(Idle, u)
  BY DEF Txns, Sound, Locks, Holds
<1>4. TokensHeld'
  BY <1>1, MarkersAssumption DEF RefreshCommit, IInv, TypeOK, TokensHeld, Refresh
<1> QED
  BY <1>2, <1>3, <1>4, TxnStep DEF RefreshCommit, Close, IInv, TypeOK, person

\* Every step of a sign-in or a refresh keeps the invariant.
LEMMA AuthStep ==
  ASSUME IInv, NEW h \in Handlers, Auth(h)
  PROVE  IInv'
<1>1. CASE SignInVanished(h)
  BY <1>1, CloseStep DEF SignInVanished
<1> QED
  BY <1>1, SignInBeginStep, SignInStampStep, SignInCommitStep, RefreshBeginStep,
     RotateStep, RefreshCommitStep DEF Auth

-----------------------------------------------------------------------------
(* The profile, the address book and orders.                                *)

\* A step that writes only names, addresses or access tokens.
LEMMA DataStep ==
  ASSUME IInv, UNCHANGED <<linked, status, orders, holder, live, txn>>,
         named' \in [Accounts -> BOOLEAN], book' \in [Accounts -> SUBSET Labels],
         access' \in [Accounts -> BOOLEAN]
  PROVE  IInv'
<1>1. TypeOK'
  BY DEF IInv, TypeOK, orders
<1>2. ErasedOrdersAnonymous' /\ LinkedIsActive' /\ TokensHeld'
  BY DEF IInv, ErasedOrdersAnonymous, LinkedIsActive, TokensHeld, orders
<1>3. SignInsFindLiveAccounts' /\ OpenOrdersLive'
  BY DEF IInv, SignInsFindLiveAccounts, OpenOrdersLive, SigningIn, Ordering, Doing
<1>4. ErasureIsAlone'
  BY AloneByLocks DEF IInv, Locks, Holds
<1> QED
  BY <1>1, <1>2, <1>3, <1>4 DEF IInv

\* So do the profile routes of one step and the expiry of an access token.
LEMMA ProfileStep ==
  ASSUME IInv, NEW u \in Accounts, Profile(u) \/ AccessExpires(u)
  PROVE  IInv'
<1>1. ASSUME NEW l \in Labels, NEW m \in Labels, Rename(u, l, m) PROVE IInv'
  BY <1>1, DataStep DEF Rename, IInv, TypeOK, sessions
<1>2. ASSUME NEW l \in Labels, Delete(u, l) PROVE IInv'
  BY <1>2, DataStep DEF Delete, IInv, TypeOK, sessions
<1>3. CASE UpdateProfile(u)
  BY <1>3, DataStep DEF UpdateProfile, IInv, TypeOK, sessions
<1>4. CASE AccessExpires(u)
  BY <1>4, DataStep DEF AccessExpires, IInv, TypeOK, person
<1> QED
  BY <1>1, <1>2, <1>3, <1>4 DEF Profile

\* An address is inserted while no other request inserts or deletes its label.
LEMMA SaveInsertStep ==
  ASSUME IInv, NEW h \in Handlers, NEW u \in Accounts, NEW l \in Labels,
         SaveInsert(h, u, l)
  PROVE  IInv'
<1> DEFINE t == [op |-> "save", user |-> u, label |-> l]
<1>1. t \in Txns /\ Sound(t) /\ ~Locks(t)
  BY DEF Txns, Requests, Save, Sound, Locks
<1>2. \A v \in Accounts : Holds(t, v) => ~RowErased(v)
  BY DEF Holds, SaveInsert
<1> QED
  BY <1>1, <1>2, TxnStep DEF SaveInsert, Open, IInv, TypeOK, TokensHeld, person, sessions

\* The commit of an address shows it in the book.
LEMMA SaveCommitStep ==
  ASSUME IInv, NEW h \in Handlers, SaveCommit(h)
  PROVE  IInv'
<1>1. txn[h] \in Save
  BY RequestKinds DEF SaveCommit, IInv
<1>2. book' \in [Accounts -> SUBSET Labels]
  BY <1>1 DEF SaveCommit, IInv, TypeOK, Save
<1>3. Idle \in Txns /\ Sound(Idle) /\ ~Locks(Idle) /\ \A u : ~Holds(Idle, u)
  BY DEF Txns, Sound, Locks, Holds
<1> QED
  BY <1>2, <1>3, TxnStep DEF SaveCommit, Close, IInv, TypeOK, TokensHeld, sessions

\* An order is "home" only if it is inserted while the account is alive.
LEMMA OrderInsertStep ==
  ASSUME IInv, NEW h \in Handlers, NEW u \in Accounts, NEW o \in Orders,
         OrderInsert(h, u, o)
  PROVE  IInv'
<1> DEFINE t == [op |-> "order", user |-> u, order |-> o,
                 kind |-> IF status[u] = "deleted" THEN "late" ELSE "home"]
<1>1. t \in Txns /\ Sound(t) /\ ~Locks(t)
  BY DEF Txns, Requests, Order, Sound, Locks
<1>2. \A v \in Accounts : Holds(t, v) => ~RowErased(v)
  BY DEF Holds, OrderInsert
<1> QED
  BY <1>1, <1>2, TxnStep DEF OrderInsert, Open, IInv, TypeOK, TokensHeld, person, sessions

\* The commit of an order stores the address of the kind its insert found.
LEMMA OrderCommitStep ==
  ASSUME IInv, NEW h \in Handlers, OrderCommit(h)
  PROVE  IInv'
<1>1. txn[h] \in Order
  BY RequestKinds DEF OrderCommit, IInv
<1>2. /\ txn' \in [Handlers -> Txns]
      /\ SignInsFindLiveAccounts' /\ OpenOrdersLive' /\ ErasureIsAlone'
  <2>1. Idle \in Txns /\ Sound(Idle)' /\ ~Locks(Idle) /\ \A v : ~Holds(Idle, v)
    BY DEF Txns, Sound, Locks, Holds
  <2>2. \A g \in Handlers \ {h} : txn'[g] = txn[g]
    BY DEF OrderCommit, Close, IInv, TypeOK
  <2>3. \A g \in Handlers \ {h} : Sound(txn[g]) => (Sound(txn[g]))'
    BY <2>2 DEF Sound, OrderCommit, person
  <2> QED
    BY <2>1, <2>2, <2>3, RequestStep DEF OrderCommit, Close
<1>3. TypeOK'
  BY <1>1, <1>2 DEF OrderCommit, IInv, TypeOK, Txns, Order, person, sessions
<1>4. ErasedOrdersAnonymous'
  <2>1. txn[h].kind = "home" => status[txn[h].user] # "deleted"
    BY DEF OrderCommit, Ordering, IInv, OpenOrdersLive
  <2> QED
    BY <1>1, <2>1 DEF OrderCommit, IInv, TypeOK, ErasedOrdersAnonymous, Order, person
<1>5. LinkedIsActive' /\ TokensHeld'
  BY DEF OrderCommit, IInv, LinkedIsActive, TokensHeld, person, sessions
<1> QED
  BY <1>2, <1>3, <1>4, <1>5 DEF IInv

\* Every step of an address or an order keeps the invariant.
LEMMA WriteStep ==
  ASSUME IInv, NEW h \in Handlers, Write(h)
  PROVE  IInv'
BY SaveInsertStep, SaveCommitStep, OrderInsertStep, OrderCommitStep DEF Write

-----------------------------------------------------------------------------
(* Erasure.                                                                 *)

\* An erasure starts by revoking the tokens it sees.
LEMMA EraseBeginStep ==
  ASSUME IInv, NEW h \in Handlers, NEW u \in Accounts, EraseBegin(h, u)
  PROVE  IInv'
<1> DEFINE t == [op |-> "erase", user |-> u, step |-> "revoking",
                 over |-> {k \in Tokens : live[k] /\ holder[k] = u}, gone |-> {}]
<1>1. t \in Txns /\ Sound(t) /\ ~Locks(t) /\ \A v : ~Holds(t, v)
  BY DEF Txns, Requests, Erase, Sound, Locks, Holds
<1> QED
  BY <1>1, TxnStep DEF EraseBegin, Open, IInv, TypeOK, TokensHeld, person, sessions

\* It deletes the addresses committed by then.
LEMMA EraseAddressesStep ==
  ASSUME IInv, NEW h \in Handlers, EraseAddresses(h)
  PROVE  IInv'
<1>1. txn[h] \in Erase
  BY RequestKinds DEF EraseAddresses, IInv
<1> DEFINE t == [txn[h] EXCEPT !.step = "deleted", !.gone = book[txn[h].user]]
<1>2. t \in Txns /\ Sound(t) /\ ~Locks(t) /\ \A v : ~Holds(t, v)
  BY <1>1 DEF Txns, Requests, Erase, Sound, Locks, Holds, IInv, TypeOK
<1> QED
  BY <1>2, TxnStep DEF EraseAddresses, Goes, IInv, TypeOK, TokensHeld, person, sessions

\* It gets the row when nobody else holds it.
LEMMA EraseRowStep ==
  ASSUME IInv, NEW h \in Handlers, EraseRow(h)
  PROVE  IInv'
<1>1. txn[h] \in Erase
  BY RequestKinds DEF EraseRow, IInv
<1> DEFINE t == [txn[h] EXCEPT !.step = "locked"]
<1>2. t \in Txns /\ Sound(t) /\ t.user = txn[h].user /\ \A v : ~Holds(t, v)
  BY <1>1 DEF Txns, Requests, Erase, Sound, Holds
<1>3. ~RowHeld(h, t.user)
  BY <1>2 DEF EraseRow
<1> QED
  BY <1>2, <1>3, TxnStep DEF EraseRow, Goes, IInv, TypeOK, TokensHeld, person, sessions

\* What it takes away nobody relies on, for nobody else holds the row.
LEMMA EraseCommitStep ==
  ASSUME IInv, NEW h \in Handlers, EraseCommit(h)
  PROVE  IInv'
<1> DEFINE u == txn[h].user
<1>1. txn[h] \in Erase /\ u \in Accounts /\ Locks(txn[h]) /\ Idle \in Txns
  BY RequestKinds DEF EraseCommit, Erasing, Doing, IInv, Erase, Locks, Txns
<1>2. \A g \in Handlers \ {h} : ~Holds(txn[g], u)
  BY <1>1, AloneByLocks DEF IInv
<1>3. \A v \in Accounts : v # u => linked'[v] = linked[v] /\ status'[v] = status[v]
  BY DEF EraseCommit, IInv, TypeOK
<1>4. /\ txn' \in [Handlers -> Txns]
      /\ SignInsFindLiveAccounts' /\ OpenOrdersLive' /\ ErasureIsAlone'
  <2>1. Sound(Idle)' /\ ~Locks(Idle) /\ \A v : ~Holds(Idle, v)
    BY DEF Sound, Locks, Holds
  <2>2. \A g \in Handlers \ {h} : txn'[g] = txn[g]
    BY DEF EraseCommit, Close, IInv, TypeOK
  <2>3. \A g \in Handlers \ {h} : Sound(txn[g]) => (Sound(txn[g]))'
    <3> SUFFICES ASSUME NEW g \in Handlers \ {h}, Sound(txn[g]) PROVE (Sound(txn[g]))'
      OBVIOUS
    <3>1. txn[g] # Idle => txn[g].user \in Accounts
      BY RequestKinds DEF IInv
    <3>2. CASE txn[g] # Idle /\ txn[g].user = u
      BY <1>2, <2>2, <3>2 DEF Sound, Holds
    <3>3. CASE ~(txn[g] # Idle /\ txn[g].user = u)
      BY <1>3, <2>2, <3>1, <3>3 DEF Sound
    <3> QED
      BY <3>2, <3>3
  <2> QED
    BY <1>1, <2>1, <2>2, <2>3, RequestStep DEF EraseCommit, Close
<1>5. TypeOK'
  <2>1. linked' \in [Accounts -> BOOLEAN] /\ named' \in [Accounts -> BOOLEAN]
    BY DEF EraseCommit, IInv, TypeOK
  <2>2. status' \in [Accounts -> {"none", "active", "deleted"}]
    BY DEF EraseCommit, IInv, TypeOK
  <2>3. book' \in [Accounts -> SUBSET Labels]
    BY <1>1 DEF EraseCommit, IInv, TypeOK
  <2>4. address' \in [Orders -> {"none", "home", "late", "erased"}]
    BY DEF EraseCommit, IInv, TypeOK
  <2>5. live' \in [Tokens -> BOOLEAN]
    BY DEF EraseCommit, IInv, TypeOK
  <2> QED
    BY <1>4, <2>1, <2>2, <2>3, <2>4, <2>5 DEF EraseCommit, IInv, TypeOK, Txns
<1>6. ErasedOrdersAnonymous'
  <2> SUFFICES ASSUME NEW o \in Orders, buyer[o] # NoAccount, status'[buyer[o]] = "deleted"
               PROVE  address'[o] # "home"
    BY DEF EraseCommit, ErasedOrdersAnonymous
  <2>1. address'[o] = IF buyer[o] = u THEN "erased" ELSE address[o]
    BY DEF EraseCommit
  <2>2. buyer[o] # u => status[buyer[o]] = "deleted"
    BY <1>3 DEF IInv, TypeOK
  <2> QED
    BY <2>1, <2>2 DEF IInv, ErasedOrdersAnonymous
<1>7. LinkedIsActive'
  BY <1>1, <1>3 DEF EraseCommit, IInv, TypeOK, LinkedIsActive
<1>8. TokensHeld'
  BY DEF EraseCommit, IInv, TokensHeld
<1> QED
  BY <1>4, <1>5, <1>6, <1>7, <1>8 DEF IInv

\* Every step of an erasure keeps the invariant.
LEMMA ErasureStep ==
  ASSUME IInv, NEW h \in Handlers, Erasure(h)
  PROVE  IInv'
BY EraseBeginStep, EraseAddressesStep, EraseRowStep, EraseCommitStep DEF Erasure

-----------------------------------------------------------------------------

\* The invariant holds of the empty system.
LEMMA Initially == Init => IInv
<1> SUFFICES ASSUME Init PROVE IInv
  OBVIOUS
<1>1. TypeOK
  BY DEF Init, TypeOK
<1>2. \A h \in Handlers : Sound(txn[h]) /\ ~Locks(txn[h])
  BY DEF Init, Sound, Locks
<1> QED
  BY <1>1, <1>2, RequestsSound, AloneByLocks
     DEF Init, IInv, ErasedOrdersAnonymous, LinkedIsActive, TokensHeld

\* Every step keeps it.
LEMMA Inductive == IInv /\ [Next]_vars => IInv'
<1> SUFFICES ASSUME IInv, [Next]_vars PROVE IInv'
  OBVIOUS
<1>1. ASSUME NEW h \in Handlers, Abort(h) PROVE IInv'
  BY <1>1, CloseStep DEF Abort
<1>2. CASE UNCHANGED vars
  BY <1>2, DataStep DEF vars, person, sessions, IInv, TypeOK
<1> QED
  BY <1>1, <1>2, AuthStep, WriteStep, ErasureStep, ProfileStep DEF Next

\* The invariant of Accounts: what reads an account's row and relies on it
\* keeps the row locked, and an erasure waits for it.
THEOREM Invariance == Spec => []IInv
<1> QED
  BY Initially, Inductive, PTL DEF Spec

\* No order slips past an erasure with its address (delete_me).
THEOREM ErasureReachesOrders == Spec => []ErasedOrdersAnonymous
<1>1. IInv => ErasedOrdersAnonymous
  BY DEF IInv
<1> QED
  BY <1>1, Invariance, PTL

\* A sign-in never issues a session for an account erased under it
\* (get_or_create_by_google).
THEOREM SignInsAreLive == Spec => []SignInsFindLiveAccounts
<1>1. IInv => SignInsFindLiveAccounts
  BY DEF IInv
<1> QED
  BY <1>1, Invariance, PTL

-----------------------------------------------------------------------------
(* What a step may never do.                                                *)

\* What a dead account keeps.
Unrevived(u) ==
  /\ Dead(u)'
  /\ named'[u] = named[u] /\ book'[u] = book[u]
  /\ \A o \in Orders : buyer'[o] = u => buyer[o] = u

\* A step of a handler that works for another account, before and after, and
\* leaves this one's data alone.
LEMMA ElsewhereStep ==
  ASSUME IInv, NEW u \in Accounts, Dead(u), NEW h \in Handlers, NEW t \in Txns,
         txn' = [txn EXCEPT ![h] = t], t = Idle \/ t.user # u,
         status'[u] = status[u], access'[u] = access[u],
         named'[u] = named[u], book'[u] = book[u],
         \A o \in Orders : buyer'[o] = u => buyer[o] = u
  PROVE  Unrevived(u)
<1>1. \A g \in Handlers : ~For(g, u)'
  BY DEF Dead, For, IInv, TypeOK
<1> QED
  BY <1>1 DEF Unrevived, Dead

\* No sign-in or refresh revives an erased account.
LEMMA DeadAuth ==
  ASSUME IInv, NEW u \in Accounts, Dead(u), NEW h \in Handlers, Auth(h)
  PROVE  Unrevived(u)
<1>1. ~linked[u] /\ status[u] = "deleted"
  BY DEF Dead, IInv, LinkedIsActive
<1>2. CASE SignInBegin(h)
  <2>1. PICK v \in Accounts :
          /\ linked[v] \/ status[v] = "none"
          /\ Open(h, [op |-> "signin", user |-> v, new |-> ~linked[v], stamped |-> ~linked[v]])
    BY <1>2 DEF SignInBegin
  <2> DEFINE t == [op |-> "signin", user |-> v, new |-> ~linked[v], stamped |-> ~linked[v]]
  <2>2. linked[v] \in BOOLEAN
    BY DEF IInv, TypeOK
  <2>3. (~linked[v]) \in BOOLEAN
    BY <2>2, Zenon
  <2>4. t \in Txns /\ t.user # u
    BY <1>1, <2>1, <2>3 DEF Txns, Requests, SignIn
  <2> QED
    BY <1>2, <2>1, <2>4, ElsewhereStep DEF SignInBegin, Open, person, orders, sessions
<1>3. CASE SignInStamp(h)
  <2>1. PICK v \in Accounts :
          /\ linked[v]
          /\ Goes(h, [op |-> "signin", user |-> v, new |-> txn[h].new, stamped |-> TRUE])
    BY <1>3 DEF SignInStamp
  <2> DEFINE t == [op |-> "signin", user |-> v, new |-> txn[h].new, stamped |-> TRUE]
  <2>2. t \in Txns /\ t.user # u
    BY <1>1, <1>3, <2>1, RequestKinds DEF SignInStamp, IInv, Txns, Requests, SignIn
  <2> QED
    BY <1>3, <2>1, <2>2, ElsewhereStep DEF SignInStamp, Goes, person, orders, sessions
<1>4. CASE SignInVanished(h)
  BY <1>4, ElsewhereStep DEF SignInVanished, Close, Txns, person, orders, sessions
<1>5. ASSUME NEW k \in Tokens, SignInCommit(h, k) PROVE Unrevived(u)
  <2>1. txn[h] \in SignIn /\ txn[h].user # u
    BY <1>5, RequestKinds DEF SignInCommit, SigningIn, Doing, Dead, For, IInv
  <2> QED
    BY <1>5, <2>1, ElsewhereStep DEF SignInCommit, Close, Txns, SignIn, IInv, TypeOK, orders
<1>6. ASSUME NEW k \in Tokens, RefreshBegin(h, k) PROVE Unrevived(u)
  <2> DEFINE t == [op |-> "refresh", user |-> holder[k], old |-> k, heir |-> NoToken]
  <2>1. holder[k] \in Accounts /\ holder[k] # u
    BY <1>1, <1>6 DEF RefreshBegin, IInv, TypeOK, TokensHeld
  <2>2. t \in Txns /\ t.user # u
    BY <2>1 DEF Txns, Requests, Refresh
  <2> QED
    BY <1>6, <2>2, ElsewhereStep DEF RefreshBegin, Open, person, orders, sessions
<1>7. ASSUME NEW k \in Tokens, Rotate(h, k) PROVE Unrevived(u)
  <2> DEFINE t == [txn[h] EXCEPT !.heir = k]
  <2>1. txn[h] \in Refresh /\ txn[h].user # u
    BY <1>7, RequestKinds DEF Rotate, Refreshing, Doing, Dead, For, IInv
  <2>2. t \in Txns /\ t.user # u
    BY <2>1 DEF Txns, Requests, Refresh
  <2> QED
    BY <1>7, <2>2, ElsewhereStep DEF Rotate, Goes, person, orders, sessions
<1>8. CASE RefreshCommit(h)
  <2>1. txn[h] \in Refresh /\ txn[h].user # u
    BY <1>8, RequestKinds DEF RefreshCommit, Refreshing, Doing, Dead, For, IInv
  <2> QED
    BY <1>8, <2>1, ElsewhereStep
       DEF RefreshCommit, Close, Txns, Refresh, IInv, TypeOK, person, orders
<1> QED
  BY <1>2, <1>3, <1>4, <1>5, <1>6, <1>7, <1>8 DEF Auth

\* Nor does an address or an order that was under way.
LEMMA DeadWrite ==
  ASSUME IInv, NEW u \in Accounts, Dead(u), NEW h \in Handlers, Write(h)
  PROVE  Unrevived(u)
<1>1. ~access[u]
  BY DEF Dead
<1>2. ASSUME NEW v \in Accounts, NEW l \in Labels, SaveInsert(h, v, l) PROVE Unrevived(u)
  <2>1. [op |-> "save", user |-> v, label |-> l] \in Txns /\ v # u
    BY <1>1, <1>2 DEF SaveInsert, Txns, Requests, Save
  <2> QED
    BY <1>2, <2>1, ElsewhereStep DEF SaveInsert, Open, person, orders, sessions
<1>3. ASSUME NEW v \in Accounts, NEW o \in Orders, OrderInsert(h, v, o) PROVE Unrevived(u)
  <2> DEFINE t == [op |-> "order", user |-> v, order |-> o,
                   kind |-> IF status[v] = "deleted" THEN "late" ELSE "home"]
  <2>1. t \in Txns /\ t.user # u
    BY <1>1, <1>3 DEF OrderInsert, Txns, Requests, Order
  <2> QED
    BY <1>3, <2>1, ElsewhereStep DEF OrderInsert, Open, person, orders, sessions
<1>4. CASE SaveCommit(h)
  <2>1. txn[h] \in Save /\ txn[h].user # u
    BY <1>4, RequestKinds DEF SaveCommit, Saving, Doing, Dead, For, IInv
  <2> QED
    BY <1>4, <2>1, ElsewhereStep
       DEF SaveCommit, Close, Txns, Save, IInv, TypeOK, orders, sessions
<1>5. CASE OrderCommit(h)
  <2>1. txn[h] \in Order /\ txn[h].user # u
    BY <1>5, RequestKinds DEF OrderCommit, Ordering, Doing, Dead, For, IInv
  <2> QED
    BY <1>5, <2>1, ElsewhereStep
       DEF OrderCommit, Close, Txns, Order, IInv, TypeOK, person, sessions
<1> QED
  BY <1>2, <1>3, <1>4, <1>5 DEF Write

\* Nor does another erasure.
LEMMA DeadErasure ==
  ASSUME IInv, NEW u \in Accounts, Dead(u), NEW h \in Handlers, Erasure(h)
  PROVE  Unrevived(u)
<1>1. Erasing(h) => txn[h] \in Erase /\ txn[h].user # u
  BY RequestKinds DEF Erasing, Doing, Dead, For, IInv
<1>2. ASSUME NEW v \in Accounts, EraseBegin(h, v) PROVE Unrevived(u)
  <2> DEFINE t == [op |-> "erase", user |-> v, step |-> "revoking",
                   over |-> {k \in Tokens : live[k] /\ holder[k] = v}, gone |-> {}]
  <2>1. t \in Txns /\ t.user # u
    BY <1>2 DEF EraseBegin, Dead, Txns, Requests, Erase
  <2> QED
    BY <1>2, <2>1, ElsewhereStep DEF EraseBegin, Open, person, orders, sessions
<1>3. CASE EraseAddresses(h)
  <2> DEFINE t == [txn[h] EXCEPT !.step = "deleted", !.gone = book[txn[h].user]]
  <2>1. t \in Txns /\ t.user # u
    BY <1>1, <1>3 DEF EraseAddresses, Txns, Requests, Erase, IInv, TypeOK
  <2> QED
    BY <1>3, <2>1, ElsewhereStep DEF EraseAddresses, Goes, person, orders, sessions
<1>4. CASE EraseRow(h)
  <2> DEFINE t == [txn[h] EXCEPT !.step = "locked"]
  <2>1. t \in Txns /\ t.user # u
    BY <1>1, <1>4 DEF EraseRow, Txns, Requests, Erase
  <2> QED
    BY <1>4, <2>1, ElsewhereStep DEF EraseRow, Goes, person, orders, sessions
<1>5. CASE EraseCommit(h)
  BY <1>1, <1>5, ElsewhereStep DEF EraseCommit, Close, Txns, Erase, IInv, TypeOK
<1> QED
  BY <1>2, <1>3, <1>4, <1>5 DEF Erasure

\* Nor does any step.
LEMMA DeadStep ==
  ASSUME IInv, NEW u \in Accounts, Dead(u), [Next]_vars
  PROVE  Unrevived(u)
<1>1. ASSUME NEW h \in Handlers, Abort(h) PROVE Unrevived(u)
  BY <1>1, ElsewhereStep DEF Abort, Close, Txns, person, orders, sessions
<1>2. ASSUME NEW v \in Accounts, Profile(v) PROVE Unrevived(u)
  <2>1. v # u
    BY <1>2 DEF Profile, UpdateProfile, Delete, Rename, Dead
  <2> QED
    BY <1>2, <2>1 DEF Profile, UpdateProfile, Delete, Rename, Unrevived, Dead, For,
                      IInv, TypeOK, orders, sessions
<1>3. ASSUME NEW v \in Accounts, AccessExpires(v) PROVE Unrevived(u)
  BY <1>3 DEF AccessExpires, Unrevived, Dead, For, IInv, TypeOK, person, orders
<1>4. CASE UNCHANGED vars
  BY <1>4 DEF Unrevived, Dead, For, vars, person, orders, sessions
<1> QED
  BY <1>1, <1>2, <1>3, <1>4, DeadAuth, DeadWrite, DeadErasure DEF Next

\* Nothing revives a dead account, or writes to it (UserRepository.erase).
THEOREM DeadForGood == Spec => DeadAccountsStayDead
<1>1. IInv /\ [Next]_vars => \A u \in Accounts : Dead(u) => Unrevived(u)
  BY DeadStep
<1>2. IInv /\ [Next]_vars =>
        [\A u \in Accounts : Dead(u) =>
           /\ Dead(u)'
           /\ named'[u] = named[u] /\ book'[u] = book[u]
           /\ \A o \in Orders : buyer'[o] = u => buyer[o] = u]_vars
  BY <1>1 DEF Unrevived
<1> QED
  BY <1>2, Invariance, PTL DEF Spec, DeadAccountsStayDead

-----------------------------------------------------------------------------
(* The address book.                                                        *)

\* Address books, and the addresses being added to one, can be counted.
LEMMA BooksFinite ==
  ASSUME TypeOK, NEW u \in Accounts
  PROVE  /\ IsFiniteSet(book[u]) /\ Cardinality(book[u]) \in Nat
         /\ IsFiniteSet(Adding(u)) /\ Cardinality(Adding(u)) \in Nat
         /\ Cardinality(Adding(u)) <= Cardinality(Handlers)
         /\ Cardinality(Handlers) \in Nat \ {0} /\ MaxAddresses \in Nat
<1>1. book[u] \subseteq Labels /\ Adding(u) \subseteq Handlers
  BY DEF TypeOK, Adding
<1>2. Cardinality(Handlers) \in Nat /\ Cardinality(Handlers) # 0
  BY ServerAssumption, FS_CardinalityType, FS_EmptySet
<1> QED
  BY <1>1, <1>2, CapAssumption, ServerAssumption, FS_Subset, FS_CardinalityType

\* What the limit allows for account u.
Room(u) ==
  Cardinality(book[u]) + Cardinality(Adding(u)) < MaxAddresses + Cardinality(Handlers)

\* A step that adds no address and starts no request that will.
LEMMA FewerStep ==
  ASSUME TypeOK, TypeOK', NEW u \in Accounts, Room(u),
         Cardinality(book'[u]) <= Cardinality(book[u]), Adding(u)' \subseteq Adding(u)
  PROVE  Room(u)'
<1>1. Cardinality(Adding(u)') <= Cardinality(Adding(u)) /\ Cardinality(Adding(u)') \in Nat
  BY BooksFinite, FS_Subset, FS_CardinalityType
<1>2. IsFiniteSet(book'[u]) /\ Cardinality(book'[u]) \in Nat
  BY CapAssumption, FS_Subset, FS_CardinalityType DEF TypeOK
<1> QED
  BY <1>1, <1>2, BooksFinite DEF Room

\* A handler that comes to do something else than save.
LEMMA OtherWork ==
  ASSUME TypeOK, NEW u \in Accounts, NEW h \in Handlers, NEW t,
         t = Idle \/ t.op # "save", txn' = [txn EXCEPT ![h] = t]
  PROVE  Adding(u)' \subseteq Adding(u) \ {h}
BY DEF Adding, Saving, Doing, For, TypeOK

\* A sign-in or a refresh adds no address.
LEMMA AddingAfterAuth ==
  ASSUME IInv, NEW u \in Accounts, NEW h \in Handlers, Auth(h)
  PROVE  Adding(u)' \subseteq Adding(u) /\ book' = book
<1>1. CASE SignInBegin(h)
  BY <1>1, OtherWork DEF SignInBegin, Open, IInv, person
<1>2. CASE SignInStamp(h)
  BY <1>2, OtherWork DEF SignInStamp, Goes, IInv, person
<1>3. CASE SignInVanished(h)
  BY <1>3, OtherWork DEF SignInVanished, Close, IInv, person
<1>4. ASSUME NEW k \in Tokens, SignInCommit(h, k)
      PROVE  Adding(u)' \subseteq Adding(u) /\ book' = book
  BY <1>4, OtherWork DEF SignInCommit, Close, IInv
<1>5. ASSUME NEW k \in Tokens, RefreshBegin(h, k)
      PROVE  Adding(u)' \subseteq Adding(u) /\ book' = book
  BY <1>5, OtherWork DEF RefreshBegin, Open, IInv, person
<1>6. ASSUME NEW k \in Tokens, Rotate(h, k)
      PROVE  Adding(u)' \subseteq Adding(u) /\ book' = book
  <2>1. [txn[h] EXCEPT !.heir = k].op = "refresh"
    BY <1>6, RequestKinds DEF Rotate, IInv, Refresh
  <2> QED
    BY <1>6, <2>1, OtherWork DEF Rotate, Goes, IInv, person
<1>7. CASE RefreshCommit(h)
  BY <1>7, OtherWork DEF RefreshCommit, Close, IInv, person
<1> QED
  BY <1>1, <1>2, <1>3, <1>4, <1>5, <1>6, <1>7 DEF Auth

\* An erasure adds no address and takes some away.
LEMMA AddingAfterErasure ==
  ASSUME IInv, NEW u \in Accounts, NEW h \in Handlers, Erasure(h)
  PROVE  Adding(u)' \subseteq Adding(u) /\ book'[u] \subseteq book[u]
<1>1. ASSUME NEW v \in Accounts, EraseBegin(h, v)
      PROVE  Adding(u)' \subseteq Adding(u) /\ book'[u] \subseteq book[u]
  BY <1>1, OtherWork DEF EraseBegin, Open, IInv, person
<1>2. CASE EraseAddresses(h)
  <2>1. [txn[h] EXCEPT !.step = "deleted", !.gone = book[txn[h].user]].op = "erase"
    BY <1>2, RequestKinds DEF EraseAddresses, IInv, Erase
  <2> QED
    BY <1>2, <2>1, OtherWork DEF EraseAddresses, Goes, IInv, person
<1>3. CASE EraseRow(h)
  <2>1. [txn[h] EXCEPT !.step = "locked"].op = "erase"
    BY <1>3, RequestKinds DEF EraseRow, IInv, Erase
  <2> QED
    BY <1>3, <2>1, OtherWork DEF EraseRow, Goes, IInv, person
<1>4. CASE EraseCommit(h)
  BY <1>4, OtherWork DEF EraseCommit, Close, IInv, TypeOK
<1> QED
  BY <1>1, <1>2, <1>3, <1>4 DEF Erasure

\* An address is added only while there is room for it.
LEMMA RoomAfterWrite ==
  ASSUME IInv, TypeOK', NEW u \in Accounts, Room(u), NEW h \in Handlers, Write(h)
  PROVE  Room(u)'
<1>1. ASSUME NEW v \in Accounts, NEW l \in Labels, SaveInsert(h, v, l) PROVE Room(u)'
  <2>1. book' = book
    BY <1>1 DEF SaveInsert, person
  <2>2. CASE v = u
    <3>1. Cardinality(book[u]) < MaxAddresses
      BY <1>1, <2>2 DEF SaveInsert
    <3>2. Adding(u)' \subseteq Handlers
      BY DEF Adding
    <3>3. /\ Cardinality(Adding(u)') <= Cardinality(Handlers)
          /\ Cardinality(Adding(u)') \in Nat
      BY <3>2, ServerAssumption, FS_Subset, FS_CardinalityType
    <3> QED
      BY <2>1, <3>1, <3>3, BooksFinite DEF Room, IInv
  <2>3. CASE v # u
    <3>1. Adding(u)' \subseteq Adding(u)
      BY <1>1, <2>3 DEF SaveInsert, Open, Adding, Saving, Doing, For, IInv, TypeOK
    <3> QED
      BY <2>1, <3>1, BooksFinite, FewerStep DEF IInv
  <2> QED
    BY <2>2, <2>3
<1>2. CASE SaveCommit(h)
  <2>1. txn[h] \in Save
    BY <1>2, RequestKinds DEF SaveCommit, IInv
  <2>2. Adding(u)' \subseteq Adding(u) \ {h}
    BY <1>2, OtherWork DEF SaveCommit, Close, IInv
  <2>3. CASE txn[h].user # u
    <3>1. book'[u] = book[u]
      BY <1>2, <2>1, <2>3 DEF SaveCommit, IInv, TypeOK
    <3> QED
      BY <2>2, <3>1, BooksFinite, FewerStep DEF IInv
  <2>4. CASE txn[h].user = u
    <3>1. h \in Adding(u) /\ book'[u] = book[u] \cup {txn[h].label}
      BY <1>2, <2>4 DEF SaveCommit, Adding, For, Saving, Doing, IInv, TypeOK
    <3>2. Cardinality(book'[u]) \in {Cardinality(book[u]), Cardinality(book[u]) + 1}
      BY <3>1, BooksFinite, FS_AddElement DEF IInv
    <3>3. /\ IsFiniteSet(Adding(u) \ {h})
          /\ Cardinality(Adding(u) \ {h}) = Cardinality(Adding(u)) - 1
      BY <3>1, BooksFinite, FS_RemoveElement DEF IInv
    <3>4. /\ Cardinality(Adding(u)') <= Cardinality(Adding(u) \ {h})
          /\ Cardinality(Adding(u)') \in Nat
      BY <2>2, <3>3, FS_Subset, FS_CardinalityType
    <3> QED
      BY <3>2, <3>3, <3>4, BooksFinite DEF Room, IInv
  <2> QED
    BY <2>3, <2>4
<1>3. ASSUME NEW v \in Accounts, NEW o \in Orders, OrderInsert(h, v, o) PROVE Room(u)'
  <2>1. Adding(u)' \subseteq Adding(u) /\ book' = book
    BY <1>3, OtherWork DEF OrderInsert, Open, IInv, person
  <2> QED
    BY <2>1, BooksFinite, FewerStep DEF IInv
<1>4. CASE OrderCommit(h)
  <2>1. Adding(u)' \subseteq Adding(u) /\ book' = book
    BY <1>4, OtherWork DEF OrderCommit, Close, IInv, person
  <2> QED
    BY <2>1, BooksFinite, FewerStep DEF IInv
<1> QED
  BY <1>1, <1>2, <1>3, <1>4 DEF Write

\* A profile route never adds to a book.
LEMMA BookAfterProfile ==
  ASSUME IInv, NEW u \in Accounts, NEW v \in Accounts, Profile(v) \/ AccessExpires(v)
  PROVE  Adding(u)' = Adding(u) /\ Cardinality(book'[u]) <= Cardinality(book[u])
<1>1. Adding(u)' = Adding(u)
  BY DEF Profile, AccessExpires, UpdateProfile, Delete, Rename, Adding, Saving, Doing, For
<1>2. ASSUME NEW l \in Labels, NEW m \in Labels, Rename(v, l, m), v = u
      PROVE  Cardinality(book'[u]) <= Cardinality(book[u])
  <2>1. l \in book[u] /\ m \notin book[u] /\ book'[u] = (book[u] \ {l}) \cup {m}
    BY <1>2 DEF Rename, IInv, TypeOK
  <2>2. /\ IsFiniteSet(book[u] \ {l})
        /\ Cardinality(book[u] \ {l}) = Cardinality(book[u]) - 1
    BY <2>1, BooksFinite, FS_RemoveElement DEF IInv
  <2>3. Cardinality(book'[u]) = Cardinality(book[u] \ {l}) + 1
    BY <2>1, <2>2, FS_AddElement
  <2> QED
    BY <2>2, <2>3, BooksFinite DEF IInv
<1>3. ASSUME NEW l \in Labels, Delete(v, l), v = u
      PROVE  Cardinality(book'[u]) <= Cardinality(book[u])
  <2>1. book'[u] \subseteq book[u]
    BY <1>3 DEF Delete, IInv, TypeOK
  <2> QED
    BY <2>1, BooksFinite, FS_Subset DEF IInv
<1>4. ASSUME NEW l \in Labels, NEW m \in Labels, Rename(v, l, m) \/ Delete(v, l), v # u
      PROVE  book'[u] = book[u]
  BY <1>4 DEF Rename, Delete, IInv, TypeOK
<1>5. CASE UpdateProfile(v) \/ AccessExpires(v)
  BY <1>1, <1>5, BooksFinite DEF UpdateProfile, AccessExpires, person, IInv
<1> QED
  BY <1>1, <1>2, <1>3, <1>4, <1>5, BooksFinite DEF Profile, IInv

\* Requests that save at once pass the limit by no more than there can be of
\* them (MAX_ADDRESSES_PER_USER, upsert_address).
THEOREM AddressBookBounded == Spec => []AddressesBounded
<1>1. Init => AddressesBounded
  <2> SUFFICES ASSUME Init, NEW u \in Accounts PROVE Room(u)
    BY DEF AddressesBounded, Room
  <2>1. book[u] = {} /\ Adding(u) = {}
    BY DEF Init, Adding, Saving, Doing
  <2>2. Cardinality(book[u]) = 0 /\ Cardinality(Adding(u)) = 0
    BY <2>1, FS_EmptySet
  <2> QED
    BY <2>2, Initially, BooksFinite DEF Room, IInv
<1>2. IInv /\ AddressesBounded /\ [Next]_vars => AddressesBounded'
  <2> SUFFICES ASSUME IInv, [Next]_vars, NEW u \in Accounts, Room(u) PROVE Room(u)'
    BY DEF AddressesBounded, Room
  <2>1. TypeOK /\ TypeOK'
    BY Inductive DEF IInv
  <2>2. ASSUME NEW h \in Handlers, Auth(h) PROVE Room(u)'
    BY <2>1, <2>2, AddingAfterAuth, BooksFinite, FewerStep
  <2>3. ASSUME NEW h \in Handlers, Erasure(h) PROVE Room(u)'
    <3>1. Cardinality(book'[u]) <= Cardinality(book[u])
      BY <2>1, <2>3, AddingAfterErasure, BooksFinite, FS_Subset
    <3> QED
      BY <2>1, <2>3, <3>1, AddingAfterErasure, FewerStep
  <2>4. ASSUME NEW h \in Handlers, Abort(h) PROVE Room(u)'
    <3>1. Adding(u)' \subseteq Adding(u) /\ book' = book
      BY <2>1, <2>4, OtherWork DEF Abort, Close, person
    <3> QED
      BY <2>1, <3>1, BooksFinite, FewerStep
  <2>5. ASSUME NEW v \in Accounts, Profile(v) \/ AccessExpires(v) PROVE Room(u)'
    BY <2>1, <2>5, BookAfterProfile, FewerStep
  <2>6. CASE UNCHANGED vars
    <3>1. Adding(u)' = Adding(u) /\ book' = book
      BY <2>6 DEF vars, person, Adding, Saving, Doing, For
    <3> QED
      BY <2>1, <3>1, BooksFinite, FewerStep
  <2> QED
    BY <2>1, <2>2, <2>3, <2>4, <2>5, <2>6, RoomAfterWrite DEF Next
<1> QED
  BY <1>1, <1>2, Invariance, PTL DEF Spec
=============================================================================
