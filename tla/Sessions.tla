------------------------------ MODULE Sessions ------------------------------
(***************************************************************************)
(* The sessions of one account: the refresh_tokens rows that AuthService   *)
(* rotates, and the devices whose client (mobile/src/api/client.ts) renews *)
(* its access token with them over a network that loses answers.           *)
(*                                                                         *)
(* A refresh is one READ COMMITTED transaction: it reads the token's row,  *)
(* then rotates it with a compare-and-swap that keeps the row locked until *)
(* the commit.  What a request writes before it raises is rolled back with *)
(* the rest of its transaction (TransactionalRoute).                       *)
(***************************************************************************)
EXTENDS Naturals

CONSTANTS
  Tokens,     \* refresh token ids (jti)
  Devices,    \* installations of the app
  Handlers,   \* requests the server can have in progress at once
  Retries,    \* REFRESH_RETRY_ATTEMPTS
  NoToken, NoHandler, Idle

\* What a refresh knows: the device that sent it, the token it presented,
\* whether it read that token's row as live, and once it has rotated the row,
\* the successor.
Refresh == [op : {"refresh"}, dev : Devices, tok : Tokens,
            live : BOOLEAN, new : Tokens \cup {NoToken}]

\* What a logout knows: the tokens its UPDATE is about.
Leave == [op : {"logout"}, hit : SUBSET Tokens]

ASSUME RetriesAssumption   == Retries \in Nat
ASSUME NoTokenAssumption   == NoToken \notin Tokens
ASSUME NoHandlerAssumption == NoHandler \notin Handlers
ASSUME IdleAssumption      == Idle \notin Refresh \cup Leave

VARIABLES
  row,       \* state of each refresh_tokens row
  heir,      \* replaced_by
  login,     \* the token issued at the sign-in this one descends from
  txn,       \* the transaction each handler has open
  store,     \* tokenStore: the refresh token a device holds
  signedIn,  \* useSession's status
  trying,    \* the token of the device's refresh in flight (refreshInFlight)
  tries,     \* attempts of it that failed
  awaits,    \* the request whose answer the device waits for
  missed,    \* the device may have missed the answer to a refresh
  answers    \* history: tokens a logout was answered for, each with what had
             \* replaced it by then

rows   == <<row, heir, login>>
client == <<store, signedIn, trying, tries, awaits, missed>>
vars   == <<rows, txn, client, answers>>

\* "revoked" is revoked_at without replaced_by, "rotated" with it; "gone" is
\* past expires_at, whether delete_expired has come by or not.
RowStates == {"unused", "live", "rotated", "revoked", "gone"}

TypeOK ==
  /\ row      \in [Tokens -> RowStates]
  /\ heir     \in [Tokens -> Tokens \cup {NoToken}]
  /\ login    \in [Tokens -> Tokens \cup {NoToken}]
  /\ txn      \in [Handlers -> Refresh \cup Leave \cup {Idle}]
  /\ store    \in [Devices -> Tokens \cup {NoToken}]
  /\ signedIn \in [Devices -> BOOLEAN]
  /\ trying   \in [Devices -> Tokens \cup {NoToken}]
  /\ tries    \in [Devices -> 0..Retries]
  /\ awaits   \in [Devices -> Handlers \cup {NoHandler}]
  /\ missed   \in [Devices -> BOOLEAN]
  /\ answers  \in SUBSET (Tokens \X (Tokens \cup {NoToken}))

Init ==
  /\ row      = [t \in Tokens |-> "unused"]
  /\ heir     = [t \in Tokens |-> NoToken]
  /\ login    = [t \in Tokens |-> NoToken]
  /\ txn      = [h \in Handlers |-> Idle]
  /\ store    = [d \in Devices |-> NoToken]
  /\ signedIn = [d \in Devices |-> FALSE]
  /\ trying   = [d \in Devices |-> NoToken]
  /\ tries    = [d \in Devices |-> 0]
  /\ awaits   = [d \in Devices |-> NoHandler]
  /\ missed   = [d \in Devices |-> FALSE]
  /\ answers  = {}

-----------------------------------------------------------------------------
(* Rows, locks and transactions.                                            *)

Refreshing(h) == txn[h] # Idle /\ txn[h].op = "refresh"
Leaving(h)    == txn[h] # Idle /\ txn[h].op = "logout"

\* mark_rotated has updated the row of t and not committed.
Locked(t) == \E h \in Handlers :
               Refreshing(h) /\ txn[h].tok = t /\ txn[h].new # NoToken

\* new_refresh_token_id: an id no row and no open transaction has.
Fresh(t) == /\ row[t] = "unused"
            /\ \A h \in Handlers : Refreshing(h) => txn[h].new # t

Close(h) == txn' = [txn EXCEPT ![h] = Idle]

-----------------------------------------------------------------------------
(* The client.                                                              *)

\* refreshTokens has come to an end for the devices in ds: they hold t now.
Settle(ds, t) ==
  /\ store'  = [d \in Devices |-> IF d \in ds THEN t ELSE store[d]]
  /\ trying' = [d \in Devices |-> IF d \in ds THEN NoToken ELSE trying[d]]
  /\ tries'  = [d \in Devices |-> IF d \in ds THEN 0 ELSE tries[d]]
  /\ awaits' = [d \in Devices |-> IF d \in ds THEN NoHandler ELSE awaits[d]]
  /\ UNCHANGED <<signedIn, missed>>

\* An attempt has failed with no word about the token ("unavailable"): it is
\* tried again, and after the last attempt the tokens are kept.
Unavailable(ds) ==
  /\ tries'  = [d \in Devices |-> IF d \notin ds THEN tries[d]
                                  ELSE IF tries[d] = Retries THEN 0
                                  ELSE tries[d] + 1]
  /\ trying' = [d \in Devices |-> IF d \in ds /\ tries[d] = Retries
                                  THEN NoToken ELSE trying[d]]
  /\ awaits' = [d \in Devices |-> IF d \in ds THEN NoHandler ELSE awaits[d]]
  /\ UNCHANGED <<store, signedIn>>

\* The devices that still wait for the answer of handler h.
Waiting(h) == {d \in Devices : awaits[d] = h}

\* LoginScreen: a new token for a device that is signed out; the answer may
\* not arrive.
SignIn(d, t) ==
  /\ ~signedIn[d]
  /\ Fresh(t)
  /\ row'   = [row EXCEPT ![t] = "live"]
  /\ login' = [login EXCEPT ![t] = t]
  /\ \/ /\ store'    = [store EXCEPT ![d] = t]
        /\ signedIn' = [signedIn EXCEPT ![d] = TRUE]
     \/ UNCHANGED <<store, signedIn>>
  /\ UNCHANGED <<heir, txn, trying, tries, awaits, missed, answers>>

\* Mutant: without the shared promise every 401 starts a refresh.
StartRefreshEach(d) ==
  /\ store[d] # NoToken
  /\ trying' = [trying EXCEPT ![d] = store[d]]
  /\ tries'  = [tries EXCEPT ![d] = 0]
  /\ awaits' = [awaits EXCEPT ![d] = NoHandler]
  /\ UNCHANGED <<rows, txn, store, signedIn, missed, answers>>

\* A 401 starts refreshTokens, unless one is in flight already.
StartRefresh(d) ==
  /\ store[d] # NoToken
  /\ trying[d] = NoToken
  /\ trying' = [trying EXCEPT ![d] = store[d]]
  /\ UNCHANGED <<rows, txn, store, signedIn, tries, awaits, missed, answers>>

\* The network drops the request or its answer.
Drop(d) ==
  /\ trying[d] # NoToken
  /\ Unavailable({d})
  /\ missed' = [missed EXCEPT ![d] = @ \/ awaits[d] # NoHandler]
  /\ UNCHANGED <<rows, txn, answers>>

\* signOut: the tokens are forgotten; a refresh in flight is not stopped.
SignOut(d) ==
  /\ signedIn[d]
  /\ store'    = [store EXCEPT ![d] = NoToken]
  /\ signedIn' = [signedIn EXCEPT ![d] = FALSE]
  /\ UNCHANGED <<rows, txn, trying, tries, awaits, missed, answers>>

\* The app is started again: restore goes by the tokens it finds.
Restart(d) ==
  /\ signedIn' = [signedIn EXCEPT ![d] = store[d] # NoToken]
  /\ trying'   = [trying EXCEPT ![d] = NoToken]
  /\ tries'    = [tries EXCEPT ![d] = 0]
  /\ awaits'   = [awaits EXCEPT ![d] = NoHandler]
  /\ missed'   = [missed EXCEPT ![d] = @ \/ awaits[d] # NoHandler]
  /\ UNCHANGED <<rows, txn, store, answers>>

-----------------------------------------------------------------------------
(* The server.                                                              *)

\* attemptRefreshOnce sends the token, AuthService.refresh reads its row.
RefreshBegin(d, h) ==
  /\ txn[h] = Idle
  /\ trying[d] # NoToken /\ awaits[d] = NoHandler
  /\ txn' = [txn EXCEPT ![h] =
              [op |-> "refresh", dev |-> d, tok |-> trying[d],
               live |-> row[trying[d]] = "live", new |-> NoToken]]
  /\ awaits' = [awaits EXCEPT ![d] = h]
  /\ UNCHANGED <<rows, store, signedIn, trying, tries, missed, answers>>

\* Mutant: mark_rotated without "revoked_at IS NULL".
RotateBlind(h, k) ==
  /\ Refreshing(h) /\ txn[h].live /\ txn[h].new = NoToken
  /\ ~Locked(txn[h].tok) /\ Fresh(k)
  /\ txn' = [txn EXCEPT ![h].new = k]
  /\ UNCHANGED <<rows, client, answers>>

\* mark_rotated succeeds: the row is still live, and locked from now on.
Rotate(h, k) ==
  /\ Refreshing(h) /\ txn[h].live /\ txn[h].new = NoToken
  /\ row[txn[h].tok] = "live"
  /\ ~Locked(txn[h].tok) /\ Fresh(k)
  /\ txn' = [txn EXCEPT ![h].new = k]
  /\ UNCHANGED <<rows, client, answers>>

\* Mutant: the rotation notes the successor and leaves the token usable.
RefreshCommitKeepsOld(h) ==
  /\ Refreshing(h) /\ txn[h].new # NoToken
  /\ LET t == txn[h].tok
         k == txn[h].new IN
     /\ row'   = [row EXCEPT ![k] = "live"]
     /\ heir'  = [heir EXCEPT ![t] = k]
     /\ login' = [login EXCEPT ![k] = login[t]]
     /\ Settle(Waiting(h), k)
  /\ Close(h)
  /\ UNCHANGED answers

\* The rotation and the successor's row commit together, and the answer goes
\* to the device if it still waits for it.
RefreshCommit(h) ==
  /\ Refreshing(h) /\ txn[h].new # NoToken
  /\ LET t == txn[h].tok
         k == txn[h].new IN
     /\ row'   = [row EXCEPT ![t] = "rotated", ![k] = "live"]
     /\ heir'  = [heir EXCEPT ![t] = k]
     /\ login' = [login EXCEPT ![k] = login[t]]
     /\ Settle(Waiting(h), k)
  /\ Close(h)
  /\ UNCHANGED answers

\* The token was read as spent, or is spent when mark_rotated looks again.
Spent(h) == /\ Refreshing(h) /\ txn[h].new = NoToken
            /\ ~txn[h].live \/ (row[txn[h].tok] # "live" /\ ~Locked(txn[h].tok))

\* A token that was rotated is presented again.
Reuse(h) == Spent(h) /\ ~txn[h].live /\ row[txn[h].tok] = "rotated"

\* Unauthorized, and the device forgets its tokens.  For a reused token
\* revoke_all_for_user has run just before; the raise rolls it back.
RefreshRefuse(h) ==
  /\ Spent(h)
  /\ Settle(Waiting(h), NoToken)
  /\ Close(h)
  /\ UNCHANGED <<rows, answers>>

\* A failed statement or commit, a crash: 5xx or no answer at all.
RefreshAbort(h) ==
  /\ Refreshing(h)
  /\ Unavailable(Waiting(h))
  /\ Close(h)
  /\ UNCHANGED <<rows, missed, answers>>

\* POST /auth/logout with a token that was issued, renewed since or not.  One that
\* has expired is answered at once (Unauthorized is swallowed).
LogoutBegin(h, t) ==
  /\ txn[h] = Idle
  /\ row[t] \in {"live", "rotated", "revoked"}
  /\ txn' = [txn EXCEPT ![h] = [op |-> "logout", hit |-> {t}]]
  /\ UNCHANGED <<rows, client, answers>>

\* POST /auth/logout-all: the rows its UPDATE finds live when it starts.
LogoutAllBegin(h) ==
  /\ txn[h] = Idle
  /\ txn' = [txn EXCEPT ![h] = [op |-> "logout", hit |-> {t \in Tokens : row[t] = "live"}]]
  /\ UNCHANGED <<rows, client, answers>>

\* The UPDATE waits for the rows a rotation has locked and then skips those no
\* longer live.  The answer is 204 whatever it has matched.
LogoutCommit(h) ==
  /\ Leaving(h)
  /\ \A t \in txn[h].hit : ~Locked(t)
  /\ row' = [t \in Tokens |-> IF t \in txn[h].hit /\ row[t] = "live"
                              THEN "revoked" ELSE row[t]]
  /\ answers' = answers \cup {<<t, heir[t]>> : t \in txn[h].hit}
  /\ Close(h)
  /\ UNCHANGED <<heir, login, client>>

\* The statement or the commit fails (a timeout of the wait, a crash).
LogoutAbort(h) ==
  /\ Leaving(h)
  /\ Close(h)
  /\ UNCHANGED <<rows, client, answers>>

\* A token expires, after the ones it replaced; delete_expired waits for locks.
Expire(t) ==
  /\ row[t] \in {"live", "rotated", "revoked"} /\ ~Locked(t)
  /\ \A u \in Tokens : heir[u] = t => row[u] = "gone"
  /\ row' = [row EXCEPT ![t] = "gone"]
  /\ UNCHANGED <<heir, login, txn, client, answers>>

-----------------------------------------------------------------------------

Device(d) ==
  \/ \E t \in Tokens : SignIn(d, t)
  \/ StartRefresh(d)
  \/ Drop(d)
  \/ SignOut(d)
  \/ Restart(d)
  \/ \E h \in Handlers : RefreshBegin(d, h)

Server(h) ==
  \/ \E k \in Tokens : Rotate(h, k)
  \/ RefreshCommit(h)
  \/ RefreshRefuse(h)
  \/ RefreshAbort(h)
  \/ \E t \in Tokens : LogoutBegin(h, t)
  \/ LogoutAllBegin(h)
  \/ LogoutCommit(h)
  \/ LogoutAbort(h)

Next ==
  \/ \E d \in Devices : Device(d)
  \/ \E h \in Handlers : Server(h)
  \/ \E t \in Tokens : Expire(t)

Spec == Init /\ [][Next]_vars
-----------------------------------------------------------------------------

\* However many copies of a request the network makes and the server runs at
\* once, a sign-in never has two usable tokens (mark_rotated: two concurrent
\* refreshes of a token cannot both win).
OneLivePerSignIn ==
  \A t, u \in Tokens :
    (row[t] = "live" /\ row[u] = "live" /\ login[t] = login[u]) => t = u

\* The answer to a logout is final.  Where no refresh had replaced the token by
\* then, its sign-in has no usable token left and never gets one again, whatever
\* refreshes of it were under way; and a token that had been replaced, which is
\* how a session outlives its logout, is not replaced another time.
LogoutAnsweredIsFinal ==
  \A a \in answers :
    LET t == a[1]
        k == a[2] IN
    /\ heir[t] = k
    /\ k = NoToken => \A u \in Tokens : row[u] = "live" => login[u] # login[t]

\* A device that has missed no answer holds no token it has spent, neither to
\* renew with nor in a refresh under way, so its own client never raises the
\* reuse alarm (refreshInFlight).
NoFalseAlarm ==
  \A d \in Devices : ~missed[d] =>
    \A t \in {store[d], trying[d]} \ {NoToken} : row[t] # "rotated"

-----------------------------------------------------------------------------
(* The inductive invariant.                                                 *)

\* A rotation under way: its token is live and its own, its successor unused.
RotationsSound ==
  \A g, h \in Handlers :
    (Refreshing(h) /\ txn[h].new # NoToken) =>
      /\ row[txn[h].tok] = "live"
      /\ row[txn[h].new] = "unused"
      /\ (g # h /\ Refreshing(g) /\ txn[g].new # NoToken)
           => txn[g].tok # txn[h].tok /\ txn[g].new # txn[h].new

\* A row that is usable or was ended on purpose has no successor, a rotated one has.
HeirsSound ==
  \A t \in Tokens : /\ row[t] \in {"unused", "live", "revoked"} => heir[t] = NoToken
                    /\ row[t] = "rotated" => heir[t] # NoToken

\* The tokens of a sign-in are one chain: one of them has no successor.
OneEnd ==
  \A t, u \in Tokens :
    (/\ row[t] # "unused" /\ row[u] # "unused" /\ login[t] = login[u]
     /\ heir[t] = NoToken /\ heir[u] = NoToken) => t = u

\* A logout is for tokens that were issued, and after it they are not live.
LogoutsSound ==
  /\ \A h \in Handlers : Leaving(h) => \A t \in txn[h].hit : row[t] # "unused"
  /\ \A a \in answers : heir[a[1]] = a[2] /\ row[a[1]] \in {"rotated", "revoked", "gone"}

\* A token descends from a sign-in whose own token was issued.
LoginsIssued ==
  \A t \in Tokens :
    row[t] # "unused" => login[t] \in Tokens /\ row[login[t]] # "unused"

\* The refresh of a device that handler h serves.
Serves(h, d) == Refreshing(h) /\ txn[h].dev = d

\* Device d has t, is renewing it, or would be given it.
Knows(d, t) ==
  \/ t \in {store[d], trying[d]}
  \/ \E h \in Handlers : Serves(h, d) /\ t \in {txn[h].tok, txn[h].new}

\* No two devices ever have the same token.
TokensPrivate ==
  \A d, e \in Devices, t \in Tokens : (Knows(d, t) /\ Knows(e, t)) => d = e

\* What a device has or presents was issued.
HeldIssued ==
  /\ \A d \in Devices : \A t \in {store[d], trying[d]} \ {NoToken} : row[t] # "unused"
  /\ \A h \in Handlers : Refreshing(h) => row[txn[h].tok] # "unused"

\* A device waits for the refresh of the token it is renewing, and has missed
\* an answer if the server works on another one.
AnswersAwaited ==
  \A d \in Devices, h \in Handlers :
    /\ awaits[d] = h => Serves(h, d) /\ txn[h].tok = trying[d]
    /\ Serves(h, d) /\ ~missed[d] => awaits[d] = h

IInv ==
  /\ TypeOK
  /\ HeirsSound
  /\ OneEnd
  /\ LogoutsSound
  /\ RotationsSound
  /\ LoginsIssued
  /\ NoFalseAlarm
  /\ TokensPrivate
  /\ HeldIssued
  /\ AnswersAwaited

-----------------------------------------------------------------------------
(* What the repository says and the code does not keep.                     *)

\* test_token_revocation.py, test_refresh_reuse_revokes_the_entire_session_-
\* family: presenting a rotated token again "revokes every live session for
\* the user, including the one issued by the legitimate rotation".
ReuseEndsFamily ==
  [][\A h \in Handlers :
       (Reuse(h) /\ RefreshRefuse(h)) => \A t \in Tokens : row'[t] # "live"]_vars
=============================================================================
