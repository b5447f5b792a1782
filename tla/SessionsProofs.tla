--------------------------- MODULE SessionsProofs ---------------------------
(***************************************************************************)
(* The rows of Sessions keep their invariant for any number of tokens,     *)
(* devices, requests and retries.                                          *)
(***************************************************************************)
EXTENDS Sessions, TLAPS

\* The client's variables and the server's, each with its types.
ServerTypes ==
  /\ row   \in [Tokens -> RowStates]
  /\ heir  \in [Tokens -> Tokens \cup {NoToken}]
  /\ login \in [Tokens -> Tokens \cup {NoToken}]
  /\ txn   \in [Handlers -> Refresh \cup Leave \cup {Idle}]
  /\ answers \in SUBSET (Tokens \X (Tokens \cup {NoToken}))

ClientTypes ==
  /\ store    \in [Devices -> Tokens \cup {NoToken}]
  /\ signedIn \in [Devices -> BOOLEAN]
  /\ trying   \in [Devices -> Tokens \cup {NoToken}]
  /\ tries    \in [Devices -> 0..Retries]
  /\ awaits   \in [Devices -> Handlers \cup {NoHandler}]
  /\ missed   \in [Devices -> BOOLEAN]

RowsSound == HeirsSound /\ OneEnd /\ LogoutsSound /\ LoginsIssued

\* What the devices hold, next to the rows and the requests under way.
DevicesSound == NoFalseAlarm /\ TokensPrivate /\ HeldIssued /\ AnswersAwaited

\* TypeOK is the two of them together, and IInv adds what the rows and the
\* devices keep.
LEMMA IInvParts ==
  /\ IInv <=> ServerTypes /\ ClientTypes /\ RowsSound /\ RotationsSound /\ DevicesSound
  /\ (IInv <=> ServerTypes /\ ClientTypes /\ RowsSound /\ RotationsSound /\ DevicesSound)'
BY DEF IInv, TypeOK, ServerTypes, ClientTypes, RowsSound, DevicesSound

\* An open transaction is a record of the kind its operation says.
LEMMA OpenTxn ==
  ASSUME ServerTypes, NEW h \in Handlers
  PROVE  /\ Refreshing(h) => txn[h] \in Refresh
         /\ Leaving(h) => txn[h] \in Leave
         /\ Refreshing(h) => ~Leaving(h)
BY DEF ServerTypes, Refreshing, Leaving, Refresh, Leave

-----------------------------------------------------------------------------
(* The client's variables keep their types.                                 *)

\* Settling a refresh on a token, or on none.
LEMMA SettleTypes ==
  ASSUME ClientTypes, NEW ds, NEW t \in Tokens \cup {NoToken}, Settle(ds, t)
  PROVE  ClientTypes'
BY RetriesAssumption DEF ClientTypes, Settle

\* Counting a failed attempt.
LEMMA UnavailableTypes ==
  ASSUME ClientTypes, NEW ds, Unavailable(ds), missed' \in [Devices -> BOOLEAN]
  PROVE  ClientTypes'
<1>1. tries' \in [Devices -> 0..Retries]
  BY RetriesAssumption DEF ClientTypes, Unavailable
<1> QED
  BY <1>1 DEF ClientTypes, Unavailable

\* Every step of a device.
LEMMA DeviceTypes ==
  ASSUME ServerTypes, ClientTypes, NEW d \in Devices, Device(d)
  PROVE  ClientTypes'
<1>1. ASSUME NEW t \in Tokens, SignIn(d, t) PROVE ClientTypes'
  BY <1>1 DEF SignIn, ClientTypes
<1>2. CASE StartRefresh(d)
  BY <1>2 DEF StartRefresh, ClientTypes
<1>3. CASE Drop(d)
  <2>1. missed' \in [Devices -> BOOLEAN]
    BY <1>3 DEF Drop, ClientTypes
  <2> QED
    BY <1>3, <2>1, UnavailableTypes DEF Drop
<1>4. CASE SignOut(d)
  BY <1>4 DEF SignOut, ClientTypes
<1>5. CASE Restart(d)
  BY <1>5, RetriesAssumption DEF Restart, ClientTypes
<1>6. ASSUME NEW h \in Handlers, RefreshBegin(d, h) PROVE ClientTypes'
  BY <1>6 DEF RefreshBegin, ClientTypes
<1> QED
  BY <1>1, <1>2, <1>3, <1>4, <1>5, <1>6 DEF Device

\* Every step of a handler.
LEMMA ServerKeepsClientTypes ==
  ASSUME ServerTypes, ClientTypes, NEW h \in Handlers, Server(h)
  PROVE  ClientTypes'
<1>1. CASE UNCHANGED client
  BY <1>1 DEF client, ClientTypes
<1>2. CASE RefreshCommit(h)
  <2>1. txn[h].new \in Tokens
    BY <1>2, OpenTxn DEF RefreshCommit, Refresh
  <2> QED
    BY <1>2, <2>1, SettleTypes DEF RefreshCommit
<1>3. CASE RefreshRefuse(h)
  BY <1>3, SettleTypes DEF RefreshRefuse
<1>4. CASE RefreshAbort(h)
  <2>1. missed' \in [Devices -> BOOLEAN]
    BY <1>4 DEF RefreshAbort, ClientTypes
  <2> QED
    BY <1>4, <2>1, UnavailableTypes DEF RefreshAbort
<1> QED
  BY <1>1, <1>2, <1>3, <1>4
     DEF Server, Rotate, LogoutBegin, LogoutAllBegin, LogoutCommit, LogoutAbort

-----------------------------------------------------------------------------
(* Steps that leave the rows alone.                                         *)

\* A transaction that ends, or opens without a rotation, disturbs no other.
LEMMA QuietStep ==
  ASSUME ServerTypes, RowsSound, RotationsSound, UNCHANGED <<rows, answers>>,
         NEW h \in Handlers, NEW x \in Refresh \cup Leave \cup {Idle},
         txn' = [txn EXCEPT ![h] = x],
         x # Idle /\ x.op = "refresh" => x.new = NoToken,
         x # Idle /\ x.op = "logout" => \A t \in x.hit : row[t] # "unused"
  PROVE  ServerTypes' /\ RowsSound' /\ RotationsSound'
<1>1. ServerTypes'
  BY DEF ServerTypes, rows
<1>2. RowsSound'
  <2>1. HeirsSound' /\ OneEnd' /\ LoginsIssued'
    BY DEF RowsSound, HeirsSound, OneEnd, LoginsIssued, rows
  <2>2. LogoutsSound'
    BY DEF RowsSound, LogoutsSound, Leaving, ServerTypes, rows
  <2> QED
    BY <2>1, <2>2 DEF RowsSound
<1>3. \A g \in Handlers : Refreshing(g)' /\ txn'[g].new # NoToken
                            => Refreshing(g) /\ txn'[g] = txn[g]
  BY DEF ServerTypes, Refreshing
<1>4. RotationsSound'
  BY <1>3 DEF RotationsSound, rows
<1> QED
  BY <1>1, <1>2, <1>4

\* The steps of a device, apart from signing in.
LEMMA DeviceStep ==
  ASSUME ServerTypes, ClientTypes, RowsSound, RotationsSound,
         NEW d \in Devices, Device(d), UNCHANGED rows
  PROVE  ServerTypes' /\ RowsSound' /\ RotationsSound'
<1>1. CASE UNCHANGED txn
  <2>1. UNCHANGED answers
    BY <1>1 DEF Device, SignIn, StartRefresh, Drop, SignOut, Restart, RefreshBegin
  <2> QED
    BY <1>1, <2>1 DEF rows, ServerTypes, RowsSound, HeirsSound, OneEnd, LogoutsSound,
                      LoginsIssued, RotationsSound, Refreshing, Leaving
<1>2. ASSUME NEW h \in Handlers, RefreshBegin(d, h)
      PROVE  ServerTypes' /\ RowsSound' /\ RotationsSound'
  <2> DEFINE x == [op |-> "refresh", dev |-> d, tok |-> trying[d],
                   live |-> row[trying[d]] = "live", new |-> NoToken]
  <2>1. x \in Refresh
    BY <1>2 DEF RefreshBegin, ClientTypes, Refresh
  <2>2. txn' = [txn EXCEPT ![h] = x]
    BY <1>2 DEF RefreshBegin
  <2>3. x.new = NoToken /\ x.op = "refresh" /\ UNCHANGED answers
    BY <1>2 DEF RefreshBegin
  <2> HIDE DEF x
  <2> QED
    BY <2>1, <2>2, <2>3, QuietStep
<1> QED
  BY <1>1, <1>2
     DEF Device, SignIn, StartRefresh, Drop, SignOut, Restart

-----------------------------------------------------------------------------
(* Steps that write rows.                                                   *)

\* A new sign-in starts a lineage of its own.
LEMMA SignInStep ==
  ASSUME ServerTypes, RowsSound, RotationsSound,
         NEW d \in Devices, NEW t \in Tokens, SignIn(d, t)
  PROVE  ServerTypes' /\ RowsSound' /\ RotationsSound'
<1>1. /\ row[t] = "unused" /\ UNCHANGED <<heir, txn, answers>>
      /\ row' = [row EXCEPT ![t] = "live"]
      /\ login' = [login EXCEPT ![t] = t]
  BY DEF SignIn, Fresh
<1>2. ServerTypes'
  BY <1>1 DEF ServerTypes, RowStates
<1>3. \A u \in Tokens : row[u] # "unused" => login[u] # t
  BY <1>1 DEF RowsSound, LoginsIssued
<1>4. RowsSound'
  <2>1. HeirsSound' /\ OneEnd' /\ LoginsIssued'
    BY <1>1, <1>3 DEF RowsSound, LoginsIssued, HeirsSound, OneEnd, ServerTypes
  <2>2. LogoutsSound'
    BY <1>1, OpenTxn DEF RowsSound, LogoutsSound, Leaving, Leave, ServerTypes
  <2> QED
    BY <2>1, <2>2 DEF RowsSound
<1>5. \A h \in Handlers : Refreshing(h) => txn[h].new # t
  BY DEF SignIn, Fresh
<1>6. RotationsSound'
  BY <1>1, <1>5, OpenTxn DEF RotationsSound, Refreshing, Refresh, ServerTypes
<1> QED
  BY <1>2, <1>4, <1>6

\* Rotating a row takes it out of every other transaction's reach.
LEMMA RotateStep ==
  ASSUME ServerTypes, RowsSound, RotationsSound,
         NEW h \in Handlers, NEW k \in Tokens, Rotate(h, k)
  PROVE  ServerTypes' /\ RowsSound' /\ RotationsSound'
<1>1. /\ UNCHANGED <<rows, answers>> /\ Refreshing(h) /\ txn[h] \in Refresh
      /\ txn' = [txn EXCEPT ![h].new = k]
      /\ row[txn[h].tok] = "live" /\ row[k] = "unused"
  BY OpenTxn DEF Rotate, Fresh
<1>2. txn'[h] \in Refresh /\ ServerTypes'
  BY <1>1 DEF ServerTypes, Refresh, rows
<1>3. RowsSound'
  <2>1. HeirsSound' /\ OneEnd' /\ LoginsIssued'
    BY <1>1 DEF RowsSound, HeirsSound, OneEnd, LoginsIssued, rows
  <2>2. \A g \in Handlers : Leaving(g)' => Leaving(g) /\ txn'[g] = txn[g]
    BY <1>1 DEF ServerTypes, Leaving, Refreshing, Refresh
  <2>3. LogoutsSound'
    BY <1>1, <2>2 DEF RowsSound, LogoutsSound, rows
  <2> QED
    BY <2>1, <2>3 DEF RowsSound
<1>4. \A g \in Handlers \ {h} :
        /\ txn'[g] = txn[g]
        /\ Refreshing(g) => txn[g].new # k
        /\ Refreshing(g) /\ txn[g].new # NoToken => txn[g].tok # txn[h].tok
  BY <1>1 DEF Rotate, Fresh, Locked, ServerTypes
<1>5. txn'[h].tok = txn[h].tok /\ txn'[h].new = k
  BY <1>1 DEF ServerTypes, Refresh
<1>6. RotationsSound'
  BY <1>1, <1>4, <1>5 DEF RotationsSound, Refreshing, rows
<1> QED
  BY <1>2, <1>3, <1>6

\* The successor takes the place of the one live token of its lineage.
LEMMA RefreshCommitStep ==
  ASSUME ServerTypes, RowsSound, RotationsSound, NEW h \in Handlers, RefreshCommit(h)
  PROVE  ServerTypes' /\ RowsSound' /\ RotationsSound'
<1> DEFINE t == txn[h].tok
           k == txn[h].new
<1>1. /\ Refreshing(h) /\ t \in Tokens /\ k \in Tokens
      /\ row' = [row EXCEPT ![t] = "rotated", ![k] = "live"]
      /\ heir' = [heir EXCEPT ![t] = k]
      /\ login' = [login EXCEPT ![k] = login[t]]
      /\ txn' = [txn EXCEPT ![h] = Idle]
      /\ UNCHANGED answers
  BY OpenTxn DEF RefreshCommit, Close, Refresh
<1>2. row[t] = "live" /\ row[k] = "unused" /\ t # k
  BY <1>1 DEF RotationsSound, RefreshCommit
<1>3. login[t] \in Tokens /\ row[login[t]] # "unused"
  BY <1>1, <1>2 DEF RowsSound, LoginsIssued
<1>4. \A g \in Handlers \ {h} :
        Refreshing(g) /\ txn[g].new # NoToken => txn[g].tok # t /\ txn[g].new # k
  BY <1>1 DEF RotationsSound, RefreshCommit
<1> HIDE DEF t, k
<1>5. ServerTypes'
  BY <1>1, <1>3 DEF ServerTypes, RowStates
<1>6. /\ row'[t] = "rotated" /\ row'[k] = "live" /\ login'[k] = login[t]
      /\ \A u \in Tokens : u # t /\ u # k => row'[u] = row[u]
      /\ \A u \in Tokens : u # k => login'[u] = login[u]
      /\ heir'[t] = k /\ \A u \in Tokens : u # t => heir'[u] = heir[u]
  BY <1>1, <1>2 DEF ServerTypes
<1>7. RowsSound'
  <2>1. HeirsSound'
    <3>1. ASSUME NEW u \in Tokens
          PROVE  /\ row'[u] \in {"unused", "live", "revoked"} => heir'[u] = NoToken
                 /\ row'[u] = "rotated" => heir'[u] # NoToken
      <4>1. /\ row[u] \in {"unused", "live", "revoked"} => heir[u] = NoToken
            /\ row[u] = "rotated" => heir[u] # NoToken
        BY DEF RowsSound, HeirsSound
      <4>2. CASE u = t
        BY <1>1, <1>6, <4>2, NoTokenAssumption
      <4>3. CASE u = k
        BY <1>2, <1>6, <4>1, <4>3
      <4>4. CASE u # t /\ u # k
        BY <1>6, <4>1, <4>4
      <4> QED
        BY <4>2, <4>3, <4>4
    <3> QED
      BY <3>1 DEF HeirsSound
  <2>2. OneEnd'
    BY <1>1, <1>2, <1>6, NoTokenAssumption DEF RowsSound, HeirsSound, OneEnd
  <2>3. LoginsIssued'
    <3>1. \A u \in Tokens : row[u] # "unused" => row'[u] # "unused"
      BY <1>1, <1>2, <1>6
    <3>2. row'[login'[k]] # "unused" /\ login'[k] \in Tokens
      BY <1>3, <1>6, <3>1
    <3>3. ASSUME NEW u \in Tokens, row'[u] # "unused", u # k
          PROVE  login'[u] \in Tokens /\ row'[login'[u]] # "unused"
      <4>1. row[u] # "unused" /\ login'[u] = login[u]
        BY <1>1, <1>2, <1>6, <3>3
      <4>2. login[u] \in Tokens /\ row[login[u]] # "unused"
        BY <4>1, <3>3 DEF RowsSound, LoginsIssued
      <4> QED
        BY <4>1, <4>2, <3>1
    <3> QED
      BY <3>2, <3>3 DEF LoginsIssued
  <2>4. \A g \in Handlers : Leaving(g)' => Leaving(g) /\ txn'[g] = txn[g]
    BY <1>1 DEF ServerTypes, Leaving
  <2>5. LogoutsSound'
    <3>1. ASSUME NEW g \in Handlers, Leaving(g)', NEW u \in txn'[g].hit
          PROVE  row'[u] # "unused"
      <4>1. u \in Tokens /\ row[u] # "unused"
        BY <2>4, <3>1, OpenTxn DEF RowsSound, LogoutsSound, Leave
      <4> QED
        BY <1>6, <4>1
    <3>2. ASSUME NEW a \in answers
          PROVE  heir'[a[1]] = a[2] /\ row'[a[1]] \in {"rotated", "revoked", "gone"}
      <4>1. a[1] \in Tokens /\ heir[a[1]] = a[2] /\ row[a[1]] \in {"rotated", "revoked", "gone"}
        BY DEF RowsSound, LogoutsSound, ServerTypes
      <4>2. a[1] # t /\ a[1] # k
        BY <1>2, <4>1
      <4> QED
        BY <1>6, <4>1, <4>2
    <3> QED
      BY <1>1, <3>1, <3>2 DEF LogoutsSound
  <2> QED
    BY <2>1, <2>2, <2>3, <2>5 DEF RowsSound
<1>8. \A g \in Handlers : Refreshing(g)' /\ txn'[g].new # NoToken
        => Refreshing(g) /\ txn'[g] = txn[g] /\ g # h
  BY <1>1 DEF ServerTypes, Refreshing
<1>9. RotationsSound'
  <2>1. ASSUME NEW g \in Handlers, Refreshing(g)', txn'[g].new # NoToken
        PROVE  row'[txn'[g].tok] = "live" /\ row'[txn'[g].new] = "unused"
    <3>1. Refreshing(g) /\ txn'[g] = txn[g] /\ g # h /\ txn[g].new # NoToken
      BY <1>8, <2>1
    <3>2. txn[g].tok \in Tokens /\ txn[g].new \in Tokens
      BY <3>1, OpenTxn DEF Refresh
    <3>3. row[txn[g].tok] = "live" /\ row[txn[g].new] = "unused"
      BY <3>1 DEF RotationsSound
    <3>4. txn[g].tok # t /\ txn[g].new # k
      BY <1>4, <3>1
    <3> QED
      BY <1>2, <1>6, <3>1, <3>2, <3>3, <3>4
  <2>2. ASSUME NEW f \in Handlers, NEW g \in Handlers, f # g,
               Refreshing(f)', txn'[f].new # NoToken,
               Refreshing(g)', txn'[g].new # NoToken
        PROVE  txn'[f].tok # txn'[g].tok /\ txn'[f].new # txn'[g].new
    <3>1. /\ Refreshing(f) /\ txn'[f] = txn[f]
          /\ Refreshing(g) /\ txn'[g] = txn[g]
      BY <1>8, <2>2
    <3> QED
      BY <2>2, <3>1 DEF RotationsSound
  <2> QED
    BY <2>1, <2>2 DEF RotationsSound
<1> QED
  BY <1>5, <1>7, <1>9

\* The tokens in from end, with state s, and nothing else of the rows changes.
EndsOnly(from, s) ==
  /\ UNCHANGED <<heir, login>>
  /\ row' = [t \in Tokens |-> IF t \in from THEN s ELSE row[t]]

\* Ending tokens that nobody has locked disturbs no other row and no rotation.
LEMMA EndingStep ==
  ASSUME ServerTypes, RowsSound, RotationsSound,
         \A h \in Handlers : Refreshing(h)' => Refreshing(h) /\ txn'[h] = txn[h],
         NEW from \in SUBSET Tokens, NEW s \in {"revoked", "gone"},
         EndsOnly(from, s),
         \A t \in from : ~Locked(t) /\ row[t] # "unused",
         s = "revoked" => \A t \in from : row[t] = "live"
  PROVE  /\ row' \in [Tokens -> RowStates]
         /\ HeirsSound' /\ OneEnd' /\ LoginsIssued' /\ RotationsSound'
<1>1. row' \in [Tokens -> RowStates]
  BY DEF EndsOnly, ServerTypes, RowStates
<1>2. HeirsSound' /\ OneEnd' /\ LoginsIssued'
  BY DEF RowsSound, HeirsSound, OneEnd, LoginsIssued, EndsOnly, ServerTypes
<1>3. \A h \in Handlers : Refreshing(h) /\ txn[h].new # NoToken =>
        row'[txn[h].tok] = "live" /\ row'[txn[h].new] = "unused"
  <2> SUFFICES ASSUME NEW h \in Handlers, Refreshing(h), txn[h].new # NoToken
               PROVE  row'[txn[h].tok] = "live" /\ row'[txn[h].new] = "unused"
    OBVIOUS
  <2>1. txn[h].tok \in Tokens /\ txn[h].new \in Tokens /\ Locked(txn[h].tok)
    BY OpenTxn DEF Refresh, Locked
  <2>2. row[txn[h].tok] = "live" /\ row[txn[h].new] = "unused"
    BY DEF RotationsSound
  <2> QED
    BY <2>1, <2>2 DEF EndsOnly
<1>4. RotationsSound'
  BY <1>3 DEF RotationsSound
<1> QED
  BY <1>1, <1>2, <1>4

\* Expiry is such a step.
LEMMA ExpireStep ==
  ASSUME ServerTypes, RowsSound, RotationsSound, NEW t \in Tokens, Expire(t)
  PROVE  ServerTypes' /\ RowsSound' /\ RotationsSound'
<1>1. EndsOnly({t}, "gone") /\ UNCHANGED <<txn, answers>> /\ ~Locked(t) /\ row[t] # "unused"
  BY DEF Expire, EndsOnly, ServerTypes
<1>2. \A h \in Handlers : Refreshing(h)' => Refreshing(h) /\ txn'[h] = txn[h]
  BY <1>1 DEF Refreshing
<1>3. row' \in [Tokens -> RowStates] /\ HeirsSound' /\ OneEnd' /\ LoginsIssued' /\ RotationsSound'
  BY <1>1, <1>2, EndingStep
<1>4. LogoutsSound'
  <2>1. \A u \in Tokens : row[u] # "unused" => row'[u] # "unused"
    BY <1>1 DEF EndsOnly
  <2>2. \A h \in Handlers : Leaving(h)' => Leaving(h) /\ txn'[h] = txn[h] /\ txn[h].hit \subseteq Tokens
    BY <1>1, OpenTxn DEF Leaving, Leave
  <2>3. \A a \in answers : a[1] \in Tokens
    BY DEF ServerTypes
  <2> QED
    BY <1>1, <2>1, <2>2, <2>3 DEF RowsSound, LogoutsSound, EndsOnly
<1> QED
  BY <1>1, <1>3, <1>4 DEF RowsSound, ServerTypes, EndsOnly

\* So is the commit of a logout, which is answered.
LEMMA LogoutStep ==
  ASSUME ServerTypes, RowsSound, RotationsSound, NEW h \in Handlers, LogoutCommit(h)
  PROVE  ServerTypes' /\ RowsSound' /\ RotationsSound'
<1> DEFINE hit  == txn[h].hit
           from == {t \in hit : row[t] = "live"}
<1>1. /\ hit \in SUBSET Tokens /\ from \in SUBSET Tokens
      /\ \A t \in hit : row[t] # "unused"
  BY OpenTxn DEF LogoutCommit, Leave, RowsSound, LogoutsSound
<1>2. /\ \A t \in from : ~Locked(t) /\ row[t] = "live"
      /\ EndsOnly(from, "revoked")
      /\ txn' = [txn EXCEPT ![h] = Idle]
      /\ answers' = answers \cup {<<t, heir[t]>> : t \in hit}
      /\ UNCHANGED <<heir, login>>
  BY DEF LogoutCommit, Close, EndsOnly
<1>3. \A t \in hit : row'[t] \in {"rotated", "revoked", "gone"}
  BY <1>1, <1>2 DEF EndsOnly, ServerTypes, RowStates
<1>4. \A u \in Tokens : /\ row[u] # "unused" => row'[u] # "unused"
                        /\ row[u] \in {"rotated", "revoked", "gone"} => row'[u] = row[u]
  BY <1>2 DEF EndsOnly
<1> HIDE DEF hit, from
<1>5. \A g \in Handlers : /\ Refreshing(g)' => Refreshing(g) /\ txn'[g] = txn[g]
                          /\ Leaving(g)' => Leaving(g) /\ txn'[g] = txn[g]
  BY <1>2 DEF ServerTypes, Refreshing, Leaving
<1>6. row' \in [Tokens -> RowStates] /\ HeirsSound' /\ OneEnd' /\ LoginsIssued' /\ RotationsSound'
  BY <1>1, <1>2, <1>5, EndingStep
<1>7. answers' \in SUBSET (Tokens \X (Tokens \cup {NoToken}))
  BY <1>1, <1>2 DEF ServerTypes
<1>8. LogoutsSound'
  <2>1. \A g \in Handlers : Leaving(g)' => \A t \in txn'[g].hit : row'[t] # "unused"
    BY <1>4, <1>5, OpenTxn DEF RowsSound, LogoutsSound, Leave
  <2>2. ASSUME NEW a \in answers'
        PROVE  heir'[a[1]] = a[2] /\ row'[a[1]] \in {"rotated", "revoked", "gone"}
    <3>1. CASE a \in answers
      <4>1. a[1] \in Tokens /\ heir[a[1]] = a[2] /\ row[a[1]] \in {"rotated", "revoked", "gone"}
        BY <3>1 DEF ServerTypes, RowsSound, LogoutsSound
      <4> QED
        BY <1>2, <1>4, <4>1
    <3>2. CASE \E t \in hit : a = <<t, heir[t]>>
      BY <1>2, <1>3, <3>2
    <3> QED
      BY <1>2, <2>2, <3>1, <3>2
  <2> QED
    BY <2>1, <2>2 DEF LogoutsSound
<1> QED
  BY <1>2, <1>6, <1>7, <1>8 DEF RowsSound, ServerTypes

-----------------------------------------------------------------------------
(* What the devices hold.                                                   *)

\* The transactions of the step are those before it, apart from handler h.
LEMMA OtherHandlers ==
  ASSUME ServerTypes, NEW h \in Handlers, NEW x, txn' = [txn EXCEPT ![h] = x],
         NEW g \in Handlers, g # h
  PROVE  /\ txn'[g] = txn[g]
         /\ Refreshing(g)' <=> Refreshing(g)
         /\ \A d \in Devices : Serves(g, d)' <=> Serves(g, d)
BY DEF ServerTypes, Refreshing, Serves

\* A token that is fresh is nobody's.
LEMMA FreshUnknown ==
  ASSUME HeldIssued, NEW t \in Tokens, Fresh(t), NEW d \in Devices
  PROVE  ~Knows(d, t)
BY NoTokenAssumption DEF HeldIssued, Fresh, Knows, Serves

\* Tokens stay private when devices learn nothing but one that is fresh.
LEMMA PrivacyKept ==
  ASSUME TokensPrivate, HeldIssued, NEW d \in Devices, NEW k \in Tokens, Fresh(k),
         \A e \in Devices, t \in Tokens :
           Knows(e, t)' => Knows(e, t) \/ (e = d /\ t = k)
  PROVE  TokensPrivate'
BY FreshUnknown DEF TokensPrivate

\* A step that tells no device a token keeps tokens private.
LEMMA PrivacyShrinks ==
  ASSUME TokensPrivate,
         \A e \in Devices, t \in Tokens : Knows(e, t)' => Knows(e, t)
  PROVE  TokensPrivate'
BY DEF TokensPrivate

\* Only the device whose refresh h serves waits for the answer of h.
LEMMA OneWaits ==
  ASSUME AnswersAwaited, NEW h \in Handlers, NEW d \in Devices, d \in Waiting(h)
  PROVE  /\ Serves(h, d) /\ txn[h].tok = trying[d]
         /\ \A e \in Devices : e \in Waiting(h) \/ Serves(h, e) => e = d
BY DEF AnswersAwaited, Waiting, Serves

\* Signing in.
LEMMA SignInKeepsDevices ==
  ASSUME IInv, NEW d \in Devices, NEW t \in Tokens, SignIn(d, t)
  PROVE  DevicesSound'
<1> USE IInvParts DEF DevicesSound
<1>1. /\ UNCHANGED <<txn, trying, awaits, missed>> /\ Fresh(t)
      /\ row' = [row EXCEPT ![t] = "live"]
      /\ store' \in [Devices -> Tokens \cup {NoToken}]
      /\ \A e \in Devices : store'[e] = store[e] \/ (e = d /\ store'[e] = t)
  BY DEF SignIn, ClientTypes
<1>2. /\ row[t] = "unused" /\ row'[t] = "live"
      /\ \A u \in Tokens : u # t => row'[u] = row[u]
  BY <1>1 DEF Fresh, ServerTypes
<1>3. \A h \in Handlers : Refreshing(h)' <=> Refreshing(h)
  BY <1>1 DEF Refreshing
<1>4. NoFalseAlarm'
  BY <1>1, <1>2 DEF NoFalseAlarm, ClientTypes
<1>5. TokensPrivate'
  BY <1>1, <1>3, PrivacyKept DEF Knows, Serves
<1>6. HeldIssued'
  BY <1>1, <1>2, <1>3, OpenTxn DEF HeldIssued, Refresh, ClientTypes
<1>7. AnswersAwaited'
  BY <1>1, <1>3 DEF AnswersAwaited, Serves
<1> QED
  BY <1>4, <1>5, <1>6, <1>7

\* The steps of a device that change neither rows nor requests.
LEMMA DeviceKeepsDevices ==
  ASSUME IInv, NEW d \in Devices,
         StartRefresh(d) \/ Drop(d) \/ SignOut(d) \/ Restart(d)
  PROVE  DevicesSound'
<1> USE IInvParts DEF DevicesSound
<1>1. /\ UNCHANGED rows /\ UNCHANGED txn
      /\ \A e \in Devices :
           /\ store'[e] \in {store[e], NoToken}
           /\ trying'[e] \in {trying[e], store[e], NoToken}
           /\ missed[e] => missed'[e]
  BY DEF StartRefresh, Drop, SignOut, Restart, Unavailable, ClientTypes
<1>2. \A e \in Devices :
        \/ awaits'[e] = awaits[e] /\ trying'[e] = trying[e] /\ missed'[e] = missed[e]
        \/ awaits'[e] = NoHandler /\ (missed'[e] \/ awaits[e] = NoHandler)
  <2>1. CASE StartRefresh(d)
    <3>1. awaits[d] = NoHandler
      BY <2>1, NoTokenAssumption, OpenTxn
         DEF StartRefresh, AnswersAwaited, ClientTypes, Serves, Refresh
    <3> QED
      BY <2>1, <3>1 DEF StartRefresh, ClientTypes
  <2>2. CASE Drop(d)
    BY <2>2 DEF Drop, Unavailable, ClientTypes
  <2>3. CASE SignOut(d) \/ Restart(d)
    BY <2>3 DEF SignOut, Restart, ClientTypes
  <2> QED
    BY <2>1, <2>2, <2>3
<1>3. \A h \in Handlers : Refreshing(h)' <=> Refreshing(h)
  BY <1>1 DEF Refreshing
<1>4. NoFalseAlarm' /\ HeldIssued'
  BY <1>1, <1>3 DEF NoFalseAlarm, HeldIssued, ClientTypes, rows
<1>5. TokensPrivate'
  BY <1>1, <1>3, PrivacyShrinks, NoTokenAssumption DEF Knows, Serves
<1>6. AnswersAwaited'
  BY <1>1, <1>2, <1>3, NoHandlerAssumption DEF AnswersAwaited, Serves
<1> QED
  BY <1>4, <1>5, <1>6

\* A refresh reaches the server.
LEMMA BeginKeepsDevices ==
  ASSUME IInv, NEW d \in Devices, NEW h \in Handlers, RefreshBegin(d, h)
  PROVE  DevicesSound'
<1> USE IInvParts DEF DevicesSound
<1> DEFINE x == [op |-> "refresh", dev |-> d, tok |-> trying[d],
                 live |-> row[trying[d]] = "live", new |-> NoToken]
<1>1. /\ UNCHANGED <<rows, store, trying, missed>> /\ txn[h] = Idle
      /\ txn' = [txn EXCEPT ![h] = x]
      /\ awaits' = [awaits EXCEPT ![d] = h] /\ awaits[d] = NoHandler
      /\ trying[d] # NoToken /\ trying[d] \in Tokens
  BY DEF RefreshBegin, ClientTypes
<1>2. /\ txn'[h] = x /\ x.op = "refresh" /\ x.dev = d /\ x.tok = trying[d]
      /\ x.new = NoToken /\ x # Idle
  <2>1. x \in Refresh
    BY <1>1 DEF Refresh
  <2> QED
    BY <1>1, <2>1, IdleAssumption DEF ServerTypes
<1> HIDE DEF x
<1> DEFINE others == Handlers \ {h}
<1>0. \A g \in others :
        /\ txn'[g] = txn[g]
        /\ Refreshing(g)' <=> Refreshing(g)
        /\ \A e \in Devices : Serves(g, e)' <=> Serves(g, e)
  BY <1>1, OtherHandlers
<1>3. /\ ~Refreshing(h) /\ Refreshing(h)'
      /\ \A e \in Devices : Serves(h, e)' <=> e = d
  BY <1>1, <1>2 DEF Refreshing, Serves
<1>4. NoFalseAlarm'
  BY <1>1 DEF NoFalseAlarm, rows
<1>5. HeldIssued'
  BY <1>0, <1>1, <1>2, <1>3 DEF HeldIssued, rows
<1>6. TokensPrivate'
  <2>1. ASSUME NEW e \in Devices, NEW t \in Tokens, Knows(e, t)'
        PROVE  Knows(e, t)
    BY <1>0, <1>1, <1>2, <1>3, <2>1, NoTokenAssumption DEF Knows
  <2> QED
    BY <2>1, PrivacyShrinks
<1>7. AnswersAwaited'
  <2>1. \A e \in Devices : e # d => awaits[e] # h /\ awaits'[e] = awaits[e]
    BY <1>1, <1>3 DEF AnswersAwaited, Serves, ClientTypes
  <2>2. \A g \in Handlers : ~(Serves(g, d) /\ ~missed[d]) /\ awaits[d] # g
    BY <1>1, NoHandlerAssumption DEF AnswersAwaited
  <2>3. awaits'[d] = h
    BY <1>1 DEF ClientTypes
  <2>4. ASSUME NEW g \in Handlers, g # h, NEW e \in Devices
        PROVE  /\ awaits'[e] = g => Serves(g, e)' /\ txn'[g].tok = trying'[e]
               /\ Serves(g, e)' /\ ~missed'[e] => awaits'[e] = g
    BY <1>0, <1>1, <2>1, <2>2, <2>3, <2>4 DEF AnswersAwaited
  <2>5. ASSUME NEW e \in Devices
        PROVE  /\ awaits'[e] = h => Serves(h, e)' /\ txn'[h].tok = trying'[e]
               /\ Serves(h, e)' /\ ~missed'[e] => awaits'[e] = h
    BY <1>1, <1>2, <1>3, <2>1, <2>3
  <2> QED
    BY <2>4, <2>5 DEF AnswersAwaited
<1> QED
  BY <1>4, <1>5, <1>6, <1>7

\* The successor an open rotation has chosen is no other device's.
LEMMA RotateKeepsDevices ==
  ASSUME IInv, NEW h \in Handlers, NEW k \in Tokens, Rotate(h, k)
  PROVE  DevicesSound'
<1> USE IInvParts DEF DevicesSound
<1>1. /\ UNCHANGED rows /\ UNCHANGED client /\ Refreshing(h) /\ Fresh(k)
      /\ txn[h] \in Refresh /\ txn' = [txn EXCEPT ![h].new = k]
  BY OpenTxn DEF Rotate
<1>2. /\ Refreshing(h)' /\ txn'[h].tok = txn[h].tok /\ txn'[h].new = k
      /\ \A d \in Devices : Serves(h, d)' <=> Serves(h, d)
  <2>1. txn'[h] \in Refresh
    BY <1>1 DEF ServerTypes, Refresh
  <2>2. txn'[h].tok = txn[h].tok /\ txn'[h].new = k /\ txn'[h].dev = txn[h].dev
    BY <1>1 DEF ServerTypes, Refresh
  <2> QED
    BY <1>1, <2>1, <2>2, IdleAssumption DEF Refreshing, Serves, Refresh
<1>3. \A g \in Handlers : g # h =>
        /\ txn'[g] = txn[g]
        /\ Refreshing(g)' <=> Refreshing(g)
        /\ \A d \in Devices : Serves(g, d)' <=> Serves(g, d)
  BY <1>1 DEF ServerTypes, Refreshing, Serves
<1>4. NoFalseAlarm'
  BY <1>1 DEF NoFalseAlarm, rows, client
<1>5. HeldIssued'
  BY <1>1, <1>2, <1>3 DEF HeldIssued, rows, client
<1>6. TokensPrivate'
  <2>1. txn[h].dev \in Devices
    BY <1>1 DEF Refresh
  <2>2. ASSUME NEW e \in Devices, NEW t \in Tokens, Knows(e, t)'
        PROVE  Knows(e, t) \/ (e = txn[h].dev /\ t = k)
    BY <1>1, <1>2, <1>3, <2>2 DEF Knows, Serves, client
  <2> QED
    BY <1>1, <2>1, <2>2, PrivacyKept
<1>7. AnswersAwaited'
  BY <1>1, <1>2, <1>3 DEF AnswersAwaited, client
<1> QED
  BY <1>4, <1>5, <1>6, <1>7

\* What the end of request h leaves of the other requests.
LEMMA ClosedRequests ==
  ASSUME ServerTypes, NEW h \in Handlers, Close(h)
  PROVE  /\ ~Refreshing(h)' /\ \A d \in Devices : ~Serves(h, d)'
         /\ \A g \in Handlers : g # h =>
              /\ txn'[g] = txn[g]
              /\ Refreshing(g)' <=> Refreshing(g)
              /\ \A d \in Devices : Serves(g, d)' <=> Serves(g, d)
BY DEF Close, ServerTypes, Refreshing, Serves

\* The answer of a refresh reaches its device, or the device has given it up.
LEMMA AnswerKeepsAwaited ==
  ASSUME IInv, NEW h \in Handlers, Close(h), UNCHANGED missed,
         \A d \in Devices :
           IF d \in Waiting(h)
             THEN awaits'[d] = NoHandler
             ELSE awaits'[d] = awaits[d] /\ trying'[d] = trying[d]
  PROVE  AnswersAwaited'
<1> USE IInvParts DEF DevicesSound
<1>1. ASSUME NEW g \in Handlers, NEW d \in Devices, awaits'[d] = g
      PROVE  Serves(g, d)' /\ txn'[g].tok = trying'[d]
  <2>1. awaits[d] = g /\ g # h /\ trying'[d] = trying[d]
    BY <1>1, NoHandlerAssumption DEF Waiting
  <2> QED
    BY <2>1, ClosedRequests DEF AnswersAwaited
<1>2. ASSUME NEW g \in Handlers, NEW d \in Devices, Serves(g, d)', ~missed'[d]
      PROVE  awaits'[d] = g
  <2>1. g # h /\ Serves(g, d)
    BY <1>2, ClosedRequests
  <2>2. awaits[d] = g
    BY <1>2, <2>1 DEF AnswersAwaited
  <2> QED
    BY <2>1, <2>2 DEF Waiting
<1> QED
  BY <1>1, <1>2 DEF AnswersAwaited

\* A refresh that succeeds: whoever does not get the successor has missed it.
LEMMA CommitKeepsDevices ==
  ASSUME IInv, NEW h \in Handlers, RefreshCommit(h)
  PROVE  DevicesSound'
<1> USE IInvParts DEF DevicesSound
<1> DEFINE t == txn[h].tok
           k == txn[h].new
           w == txn[h].dev
<1>1. /\ Refreshing(h) /\ Serves(h, w) /\ w \in Devices
      /\ t \in Tokens /\ k \in Tokens /\ t # k
      /\ row' = [row EXCEPT ![t] = "rotated", ![k] = "live"]
      /\ Settle(Waiting(h), k) /\ Close(h)
  BY OpenTxn DEF RefreshCommit, Refresh, Serves, RotationsSound
<1>2. /\ row'[t] = "rotated" /\ row'[k] = "live"
      /\ \A u \in Tokens : u # t /\ u # k => row'[u] = row[u]
  BY <1>1 DEF ServerTypes
<1>3. Knows(w, t) /\ Knows(w, k)
  BY <1>1 DEF Knows
<1>4. \A d \in Devices :
        IF d \in Waiting(h)
          THEN d = w /\ store'[d] = k /\ trying'[d] = NoToken /\ awaits'[d] = NoHandler
          ELSE store'[d] = store[d] /\ trying'[d] = trying[d] /\ awaits'[d] = awaits[d]
  BY <1>1, OneWaits DEF Settle
<1>5. UNCHANGED missed /\ (~missed[w] => w \in Waiting(h))
  BY <1>1 DEF Settle, AnswersAwaited, Waiting
<1> HIDE DEF t, k, w
<1>6. NoFalseAlarm'
  <2> SUFFICES ASSUME NEW d \in Devices, ~missed'[d],
                      NEW u \in {store'[d], trying'[d]} \ {NoToken}
               PROVE  row'[u] # "rotated"
    BY DEF NoFalseAlarm
  <2>1. CASE d \in Waiting(h)
    BY <1>2, <1>4, <2>1
  <2>2. CASE d \notin Waiting(h)
    <3>1. d # w /\ u \in {store[d], trying[d]} \ {NoToken} /\ u \in Tokens
      BY <1>4, <1>5, <2>2 DEF ClientTypes
    <3>2. u # t /\ u # k
      BY <1>1, <1>3, <3>1 DEF TokensPrivate, Knows
    <3>3. row[u] # "rotated"
      BY <1>5, <3>1 DEF NoFalseAlarm
    <3> QED
      BY <1>2, <3>1, <3>2, <3>3
  <2> QED
    BY <2>1, <2>2
<1>7. HeldIssued'
  <2>1. \A u \in Tokens : u = k \/ row[u] # "unused" => row'[u] # "unused"
    BY <1>1, <1>2
  <2>2. ASSUME NEW d \in Devices, NEW u \in {store'[d], trying'[d]} \ {NoToken}
        PROVE  row'[u] # "unused"
    <3>1. u \in Tokens /\ (u = k \/ u \in {store[d], trying[d]} \ {NoToken})
      BY <1>1, <1>4, <2>2 DEF ClientTypes
    <3> QED
      BY <2>1, <3>1 DEF HeldIssued
  <2>3. ASSUME NEW g \in Handlers, Refreshing(g)'
        PROVE  row'[txn'[g].tok] # "unused"
    <3>1. g # h /\ Refreshing(g) /\ txn'[g] = txn[g]
      BY <1>1, <2>3, ClosedRequests
    <3>2. txn[g].tok \in Tokens /\ row[txn[g].tok] # "unused"
      BY <3>1, OpenTxn DEF HeldIssued, Refresh
    <3> QED
      BY <2>1, <3>1, <3>2
  <2> QED
    BY <2>2, <2>3 DEF HeldIssued
<1>8. TokensPrivate'
  <2>1. ASSUME NEW e \in Devices, NEW u \in Tokens, Knows(e, u)'
        PROVE  Knows(e, u)
    <3>1. CASE u \in {store'[e], trying'[e]}
      BY <1>3, <1>4, <3>1, NoTokenAssumption DEF Knows
    <3>2. CASE \E g \in Handlers : Serves(g, e)' /\ u \in {txn'[g].tok, txn'[g].new}
      BY <1>1, <3>2, ClosedRequests DEF Knows
    <3> QED
      BY <2>1, <3>1, <3>2 DEF Knows
  <2> QED
    BY <2>1, PrivacyShrinks
<1>9. AnswersAwaited'
  BY <1>1, <1>4, <1>5, AnswerKeepsAwaited
<1> QED
  BY <1>6, <1>7, <1>8, <1>9

\* A refresh that is refused or fails changes no row, and its device forgets
\* the token or keeps it.
LEMMA FailureKeepsDevices ==
  ASSUME IInv, NEW h \in Handlers, RefreshRefuse(h) \/ RefreshAbort(h)
  PROVE  DevicesSound'
<1> USE IInvParts DEF DevicesSound
<1>1. /\ UNCHANGED rows /\ UNCHANGED missed /\ Close(h)
      /\ \A d \in Devices :
           /\ store'[d] \in {store[d], NoToken}
           /\ trying'[d] \in {trying[d], NoToken}
           /\ IF d \in Waiting(h)
                THEN awaits'[d] = NoHandler
                ELSE awaits'[d] = awaits[d] /\ trying'[d] = trying[d]
  BY DEF RefreshRefuse, RefreshAbort, Settle, Unavailable
<1>2. NoFalseAlarm'
  BY <1>1 DEF NoFalseAlarm, rows
<1>3. HeldIssued'
  BY <1>1, ClosedRequests DEF HeldIssued, rows
<1>4. TokensPrivate'
  <2>1. ASSUME NEW e \in Devices, NEW u \in Tokens, Knows(e, u)'
        PROVE  Knows(e, u)
    BY <1>1, <2>1, ClosedRequests, NoTokenAssumption DEF Knows
  <2> QED
    BY <2>1, PrivacyShrinks
<1>5. AnswersAwaited'
  BY <1>1, AnswerKeepsAwaited
<1> QED
  BY <1>2, <1>3, <1>4, <1>5

\* Tokens that are revoked or expire were issued and do not become rotated.
LEMMA EndingKeepsDevices ==
  ASSUME IInv, UNCHANGED client,
         \A t \in Tokens : row'[t] = row[t] \/ row'[t] \in {"revoked", "gone"},
         \A g \in Handlers : /\ Refreshing(g)' <=> Refreshing(g)
                             /\ Refreshing(g) => txn'[g] = txn[g]
  PROVE  DevicesSound'
<1> USE IInvParts DEF DevicesSound
<1>1. \A g \in Handlers, d \in Devices :
        /\ Serves(g, d)' <=> Serves(g, d)
        /\ Serves(g, d) => txn'[g] = txn[g]
  BY DEF Serves
<1>2. NoFalseAlarm'
  BY DEF NoFalseAlarm, client, ClientTypes
<1>3. HeldIssued'
  BY OpenTxn DEF HeldIssued, client, ClientTypes, Refresh
<1>4. TokensPrivate'
  <2>1. ASSUME NEW e \in Devices, NEW u \in Tokens, Knows(e, u)'
        PROVE  Knows(e, u)
    BY <1>1, <2>1 DEF Knows, client
  <2> QED
    BY <2>1, PrivacyShrinks
<1>5. AnswersAwaited'
  BY <1>1 DEF AnswersAwaited, client
<1> QED
  BY <1>2, <1>3, <1>4, <1>5

\* Logging out, of one session or of all.
LEMMA LogoutKeepsDevices ==
  ASSUME IInv, NEW h \in Handlers,
         (\E t \in Tokens : LogoutBegin(h, t)) \/ LogoutAllBegin(h)
           \/ LogoutCommit(h) \/ LogoutAbort(h)
  PROVE  DevicesSound'
<1> USE IInvParts
<1>1. ASSUME NEW x \in Leave, txn[h] = Idle, txn' = [txn EXCEPT ![h] = x],
             UNCHANGED rows, UNCHANGED client
      PROVE  DevicesSound'
  <2>1. /\ ~Refreshing(h) /\ ~Refreshing(h)'
        /\ \A g \in Handlers : g # h => txn'[g] = txn[g]
    BY <1>1 DEF Refreshing, ServerTypes, Leave
  <2> QED
    BY <1>1, <2>1, EndingKeepsDevices DEF rows, Refreshing
<1>2. ASSUME NEW t \in Tokens, LogoutBegin(h, t) PROVE DevicesSound'
  <2>1. [op |-> "logout", hit |-> {t}] \in Leave
    BY DEF Leave
  <2> QED
    BY <1>1, <1>2, <2>1 DEF LogoutBegin
<1>3. CASE LogoutAllBegin(h)
  <2>1. [op |-> "logout", hit |-> {t \in Tokens : row[t] = "live"}] \in Leave
    BY DEF Leave
  <2> QED
    BY <1>1, <1>3, <2>1 DEF LogoutAllBegin
<1>4. CASE LogoutCommit(h) \/ LogoutAbort(h)
  <2>1. ~Refreshing(h) /\ Close(h) /\ UNCHANGED client
    BY <1>4, OpenTxn DEF LogoutCommit, LogoutAbort
  <2>2. \A t \in Tokens : row'[t] = row[t] \/ row'[t] \in {"revoked", "gone"}
    BY <1>4 DEF LogoutCommit, LogoutAbort, rows
  <2> QED
    BY <2>1, <2>2, ClosedRequests, EndingKeepsDevices
<1> QED
  BY <1>2, <1>3, <1>4

-----------------------------------------------------------------------------

\* Every step of a handler.
LEMMA ServerStep ==
  ASSUME ServerTypes, RowsSound, RotationsSound, NEW h \in Handlers, Server(h)
  PROVE  ServerTypes' /\ RowsSound' /\ RotationsSound'
<1>1. CASE UNCHANGED <<rows, answers>> /\ Close(h)
  BY <1>1, QuietStep DEF Close
<1>2. ASSUME NEW hit \in SUBSET Tokens, \A t \in hit : row[t] # "unused",
             UNCHANGED <<rows, answers>>,
             txn' = [txn EXCEPT ![h] = [op |-> "logout", hit |-> hit]]
      PROVE  ServerTypes' /\ RowsSound' /\ RotationsSound'
  <2> DEFINE x == [op |-> "logout", hit |-> hit]
  <2>1. x \in Leave /\ x.op # "refresh" /\ x.hit = hit /\ txn' = [txn EXCEPT ![h] = x]
    BY <1>2 DEF Leave
  <2> HIDE DEF x
  <2> QED
    BY <1>2, <2>1, QuietStep
<1>3. ASSUME NEW t \in Tokens, LogoutBegin(h, t)
      PROVE  ServerTypes' /\ RowsSound' /\ RotationsSound'
  <2>1. {t} \in SUBSET Tokens /\ \A u \in {t} : row[u] # "unused"
    BY <1>3 DEF LogoutBegin
  <2> QED
    BY <1>2, <1>3, <2>1 DEF LogoutBegin
<1>4. CASE LogoutAllBegin(h)
  <2> DEFINE hit == {t \in Tokens : row[t] = "live"}
  <2>1. hit \in SUBSET Tokens /\ \A u \in hit : row[u] # "unused"
    OBVIOUS
  <2>2. txn' = [txn EXCEPT ![h] = [op |-> "logout", hit |-> hit]] /\ UNCHANGED <<rows, answers>>
    BY <1>4 DEF LogoutAllBegin
  <2> HIDE DEF hit
  <2> QED
    BY <1>2, <2>1, <2>2
<1> QED
  BY <1>1, <1>3, <1>4, RotateStep, RefreshCommitStep, LogoutStep
     DEF Server, RefreshRefuse, RefreshAbort, LogoutAbort

\* Every step keeps what holds of the devices.
LEMMA DevicesStep == ASSUME IInv, Next PROVE DevicesSound'
<1>1. ASSUME NEW d \in Devices, Device(d) PROVE DevicesSound'
  BY <1>1, SignInKeepsDevices, DeviceKeepsDevices, BeginKeepsDevices DEF Device
<1>2. ASSUME NEW h \in Handlers, Server(h) PROVE DevicesSound'
  BY <1>2, RotateKeepsDevices, CommitKeepsDevices, FailureKeepsDevices,
     LogoutKeepsDevices DEF Server
<1>3. ASSUME NEW t \in Tokens, Expire(t) PROVE DevicesSound'
  <2>1. UNCHANGED txn /\ UNCHANGED client
    BY <1>3 DEF Expire
  <2>2. \A u \in Tokens : row'[u] = row[u] \/ row'[u] \in {"revoked", "gone"}
    BY <1>3, IInvParts DEF Expire, ServerTypes
  <2> QED
    BY <2>1, <2>2, EndingKeepsDevices DEF Refreshing
<1> QED
  BY <1>1, <1>2, <1>3 DEF Next

\* Every step keeps the invariant.
LEMMA NextStep == ASSUME IInv, Next PROVE IInv'
<1> USE IInvParts
<1>1. DevicesSound'
  BY DevicesStep
<1>2. ASSUME NEW d \in Devices, Device(d) PROVE IInv'
  <2>1. ClientTypes'
    BY <1>2, DeviceTypes
  <2>2. CASE UNCHANGED rows
    BY <1>1, <1>2, <2>1, <2>2, DeviceStep
  <2>3. ASSUME NEW t \in Tokens, SignIn(d, t) PROVE IInv'
    BY <1>1, <2>1, <2>3, SignInStep
  <2> QED
    BY <1>2, <2>2, <2>3
       DEF Device, StartRefresh, Drop, SignOut, Restart, RefreshBegin
<1>3. ASSUME NEW h \in Handlers, Server(h) PROVE IInv'
  BY <1>1, <1>3, ServerStep, ServerKeepsClientTypes
<1>4. ASSUME NEW t \in Tokens, Expire(t) PROVE IInv'
  <2>1. ClientTypes'
    BY <1>4 DEF Expire, client, ClientTypes
  <2> QED
    BY <1>1, <1>4, <2>1, ExpireStep
<1> QED
  BY <1>2, <1>3, <1>4 DEF Next

\* So does a step that changes nothing.
LEMMA StutterStep == ASSUME IInv, UNCHANGED vars PROVE IInv'
<1> USE IInvParts DEF vars, rows, client
<1>1. ServerTypes' /\ ClientTypes' /\ RowsSound'
  BY DEF ServerTypes, ClientTypes, RowsSound, HeirsSound, OneEnd, LogoutsSound, Leaving,
         LoginsIssued
<1>2. RotationsSound'
  BY DEF RotationsSound, Refreshing
<1>3. DevicesSound'
  BY EndingKeepsDevices DEF Refreshing
<1> QED
  BY <1>1, <1>2, <1>3

\* An account nobody has signed in to.
LEMMA InitIInv == ASSUME Init PROVE IInv
<1>1. ServerTypes /\ ClientTypes /\ RowsSound
  BY RetriesAssumption
     DEF Init, ServerTypes, ClientTypes, RowsSound, RowStates, HeirsSound, OneEnd,
         LogoutsSound, Leaving, LoginsIssued
<1>2. \A h \in Handlers : ~Refreshing(h) /\ \A d \in Devices : ~Serves(h, d)
  BY DEF Init, Refreshing, Serves
<1>3. DevicesSound
  BY <1>2, NoTokenAssumption, NoHandlerAssumption
     DEF Init, DevicesSound, NoFalseAlarm, TokensPrivate, Knows, HeldIssued, AnswersAwaited
<1>4. RotationsSound
  BY <1>2 DEF RotationsSound
<1> QED
  BY <1>1, <1>3, <1>4, IInvParts

\* IInv holds in every reachable state.
THEOREM Invariance == Spec => []IInv
<1>1. Init => IInv
  BY InitIInv
<1>2. IInv /\ [Next]_vars => IInv'
  BY NextStep, StutterStep
<1> QED
  BY <1>1, <1>2, PTL DEF Spec

\* Two refreshes of one token never both win (AuthService.refresh).
THEOREM SessionsDoNotFork == Spec => []OneLivePerSignIn
<1>1. IInv => OneLivePerSignIn
  BY DEF IInv, HeirsSound, OneEnd, OneLivePerSignIn
<1> QED
  BY <1>1, Invariance, PTL

\* What a logout was answered for stays as it was then: a session that nothing had
\* renewed is over, a token that had been renewed is not renewed again
\* (AuthService.logout and logout_all against AuthService.refresh).
THEOREM LogoutsStand == Spec => []LogoutAnsweredIsFinal
<1>1. ASSUME IInv, NEW a \in answers
      PROVE  /\ heir[a[1]] = a[2]
             /\ a[2] = NoToken => \A u \in Tokens : row[u] = "live" => login[u] # login[a[1]]
  <2>1. a[1] \in Tokens /\ heir[a[1]] = a[2] /\ row[a[1]] \in {"rotated", "revoked", "gone"}
    BY <1>1 DEF IInv, TypeOK, LogoutsSound
  <2>2. ASSUME NEW u \in Tokens, a[2] = NoToken, row[u] = "live", login[u] = login[a[1]]
        PROVE  FALSE
    <3>1. heir[u] = NoToken
      BY <1>1, <2>2 DEF IInv, HeirsSound
    <3>2. u = a[1]
      BY <1>1, <2>1, <2>2, <3>1 DEF IInv, OneEnd
    <3> QED
      BY <2>1, <2>2, <3>2
  <2> QED
    BY <2>1, <2>2
<1>2. IInv => LogoutAnsweredIsFinal
  BY <1>1 DEF LogoutAnsweredIsFinal
<1> QED
  BY <1>2, Invariance, PTL

\* A client that lost no answer never holds or presents a token it has spent,
\* with any number of devices and of copies of a request (client.ts).
THEOREM NoOwnAlarm == Spec => []NoFalseAlarm
<1>1. IInv => NoFalseAlarm
  BY DEF IInv
<1> QED
  BY <1>1, Invariance, PTL
=============================================================================
