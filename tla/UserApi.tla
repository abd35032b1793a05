------------------------------- MODULE UserApi -------------------------------
(***************************************************************************)
(* The user client's service, apps/user-client/src/services/UserApi.cpp:   *)
(* the session, the table of pending operations, the single profile        *)
(* operation with its reconciliation, and the epoch of current-order reads. *)
(*                                                                         *)
(* Each handler is one step.  The slots of this application that call back *)
(* do so from the last signal of a handler, or send what the handler would *)
(* send next (connectionChanged), so their calls are steps of their own.   *)
(*                                                                         *)
(* The transport keeps the promise that TcpJsonClient is shown to keep: one *)
(* outcome for every request that is not cancelled, a mutation written at  *)
(* most once.  The server is external: it serves the requests of a         *)
(* connection in order, on the account of the token, and what it received  *)
(* on a lost connection it has done, or never does, before it serves the   *)
(* next one.                                                               *)
(***************************************************************************)
EXTENDS Naturals, Sequences, FiniteSets

CONSTANTS
  Account,              \* mobile numbers; an account is known by its mobile
  Offered,              \* bound: the operations the user may choose
  ProfileDuringCharge,  \* may a profile operation start during a charge mutation
  MaxId,                \* bound: requests
  MaxGeneration         \* bound: sessions

None == "none"
NoUser == [account |-> None, nickname |-> 0, balance |-> 0]
ProfileMutation == {"profileUpdate", "profileRecharge"}
ProfileOperation == {"profileGet"} \cup ProfileMutation
ChargeMutation == {"chargeSettle", "chargeOther"}     \* reserve, start, stop, cancel
ChargeOperation == ChargeMutation \cup {"chargeCurrent"}
SafeRead == {"chargeCurrent", "read", "health"}       \* "read": lists and details
Operation == {"login"} \cup ProfileOperation \cup ChargeMutation \cup SafeRead

ASSUME UserApiAssumption ==
  /\ None \notin Account /\ Account # {}
  /\ Offered \subseteq Operation
  /\ ProfileDuringCharge \in BOOLEAN
  /\ MaxId \in Nat /\ MaxGeneration \in Nat

VARIABLES
  pending,         \* pendingOperations_
  generation,      \* sessionGeneration_
  revision,        \* userRevision_
  epoch,           \* chargeReadEpoch_
  user,            \* user_
  token,           \* token_: the account it was issued for
  profileRequest,  \* profileRequestId_, 0 when empty
  uncertain,       \* profileOutcomeUncertain_
  linkUp,          \* the client is connected
  live,            \* requests the client holds
  unsent,          \* those of them sent without a connection
  upstream,        \* requests on the connection
  downstream,      \* responses on the connection
  lastId,          \* requests made so far
  ledger,          \* the server's nickname and balance of every account
  wanted,          \* history: the mobile of the last login attempt
  outcomeAt,       \* history: lastId at the last outcome of a charge mutation
  settleLost       \* history: a settlement of this session ended uncertain

session == <<generation, user, token>>
profile == <<profileRequest, uncertain, revision>>
wires   == <<upstream, downstream>>
past    == <<wanted, outcomeAt, settleLost>>
vars    == <<pending, session, profile, epoch, linkUp, live, unsent, wires, lastId, ledger, past>>

Profile == [account : Account, nickname : Nat, balance : Nat]
Pending == [op : Operation, mobile : Account \cup {None}, generation : Nat, revision : Nat,
            epoch : Nat, reconciliation : BOOLEAN]
Result == {"ok", "refused", "auth", "malformed"}
Message == [id : Nat, op : Operation, account : Account]
Response == [id : Nat, result : Result, user : Profile]

TypeOK ==
  /\ DOMAIN pending \subseteq 1..lastId /\ \A id \in DOMAIN pending : pending[id] \in Pending
  /\ generation \in Nat /\ revision \in Nat /\ epoch \in Nat /\ lastId \in Nat
  /\ user \in Profile \cup {NoUser} /\ token \in Account \cup {None}
  /\ profileRequest \in 0..lastId /\ uncertain \in BOOLEAN
  /\ linkUp \in BOOLEAN /\ live \subseteq 1..lastId /\ unsent \subseteq live
  /\ upstream \in Seq(Message)
  /\ downstream \in Seq(Response)
  /\ ledger \in [Account -> [nickname : Nat, balance : Nat]]
  /\ wanted \in Account \cup {None} /\ outcomeAt \in 0..lastId /\ settleLost \in BOOLEAN

Init ==
  /\ pending = <<>> /\ generation = 0 /\ revision = 0 /\ epoch = 0
  /\ user = NoUser /\ token = None /\ profileRequest = 0 /\ uncertain = FALSE
  /\ linkUp = FALSE /\ live = {} /\ unsent = {} /\ upstream = <<>> /\ downstream = <<>>
  /\ lastId = 0 /\ ledger = [a \in Account |-> [nickname |-> 0, balance |-> 0]]
  /\ wanted = None /\ outcomeAt = 0 /\ settleLost = FALSE

-----------------------------------------------------------------------------
(* Pieces that several operations share. *)

LoggedIn == user # NoUser /\ token # None

Without(ids) == [i \in DOMAIN pending \ ids |-> pending[i]]
Held(ops) == {i \in DOMAIN pending : pending[i].op \in ops}

Entry(op, reconcile) ==
  [op |-> op, mobile |-> None, generation |-> generation, revision |-> revision,
   epoch |-> epoch, reconciliation |-> reconcile]

\* loginByPhone inserts it in the session that resetSession has just opened.
LoginEntry(a) ==
  [op |-> "login", mobile |-> a, generation |-> generation + 1, revision |-> 0,
   epoch |-> epoch + 1, reconciliation |-> FALSE]

\* client_->send() and the insertion into the table that follows it.
Send(op, account, reconcile) ==
  LET id == lastId + 1
  IN  /\ lastId < MaxId
      /\ lastId' = id
      /\ live' = live \cup {id}
      /\ pending' = [i \in DOMAIN pending \cup {id} |->
                       IF i = id THEN Entry(op, reconcile) ELSE pending[i]]
      /\ IF linkUp
         THEN /\ upstream' = Append(upstream, [id |-> id, op |-> op, account |-> account])
              /\ UNCHANGED unsent
         ELSE /\ unsent' = unsent \cup {id}
              /\ UNCHANGED upstream

\* The members that resetSession clears, but for the table.
ClearSession ==
  /\ generation < MaxGeneration
  /\ generation' = generation + 1
  /\ revision' = 0
  /\ epoch' = epoch + 1
  /\ user' = NoUser /\ token' = None
  /\ profileRequest' = 0 /\ uncertain' = FALSE
  /\ settleLost' = FALSE

ApplyUser(u) == user' = u /\ revision' = revision + 1

\* The user may start a profile operation: the profile page is not reached
\* while the charge page blocks the navigation (MainWindow).
ProfileReachable == ProfileDuringCharge \/ Held(ChargeMutation) = {}

-----------------------------------------------------------------------------
(* Operations of the pages. *)

\* Fault: the operations of the old session are neither cancelled nor removed.
LoginKeepsRequests(a) ==
  LET id == lastId + 1
  IN  /\ "login" \in Offered /\ lastId < MaxId
      /\ ClearSession
      /\ wanted' = a
      /\ lastId' = id
      /\ pending' = [i \in DOMAIN pending \cup {id} |->
                       IF i = id THEN LoginEntry(a)
                       ELSE [pending[i] EXCEPT !.generation = generation + 1]]
      /\ live' = live \cup {id}
      /\ IF linkUp
         THEN upstream' = Append(upstream, [id |-> id, op |-> "login", account |-> a]) /\ UNCHANGED unsent
         ELSE unsent' = unsent \cup {id} /\ UNCHANGED upstream
      /\ UNCHANGED <<linkUp, downstream, ledger, outcomeAt>>

\* loginByPhone with a valid mobile: resetSession cancels everything first.
loginByPhone(a) ==
  LET id == lastId + 1
      kept == live \ DOMAIN pending
  IN  /\ "login" \in Offered /\ lastId < MaxId
      /\ ClearSession
      /\ wanted' = a
      /\ lastId' = id
      /\ pending' = [i \in {id} |-> LoginEntry(a)]
      /\ live' = kept \cup {id}
      /\ IF linkUp
         THEN /\ upstream' = Append(upstream, [id |-> id, op |-> "login", account |-> a])
              /\ unsent' = unsent \cap kept
         ELSE /\ unsent' = (unsent \cap kept) \cup {id}
              /\ UNCHANGED upstream
      /\ UNCHANGED <<linkUp, downstream, ledger, outcomeAt>>

\* Fault: the client is not told to cancel.
ResetOnlyClears ==
  /\ ClearSession
  /\ pending' = <<>>
  /\ UNCHANGED <<live, unsent>>

\* Fault: the client cancels, and the table keeps the operations.
ResetOnlyCancels ==
  /\ ClearSession
  /\ live' = live \ DOMAIN pending
  /\ unsent' = unsent \ DOMAIN pending
  /\ UNCHANGED pending

\* resetSession by itself: an invalid mobile, or an expired session.
resetSession ==
  /\ ClearSession
  /\ pending' = <<>>
  /\ live' = live \ DOMAIN pending
  /\ unsent' = unsent \ DOMAIN pending

loginInvalid ==
  /\ "login" \in Offered
  /\ resetSession
  /\ wanted' = None
  /\ UNCHANGED <<linkUp, wires, lastId, ledger, outcomeAt>>

loadProfile ==
  /\ "profileGet" \in Offered /\ ProfileReachable
  /\ LoggedIn /\ profileRequest = 0
  /\ Send("profileGet", token, uncertain)
  /\ profileRequest' = lastId + 1
  /\ UNCHANGED <<session, uncertain, revision, epoch, linkUp, downstream, ledger, past>>

\* Fault: PROFILE_BUSY is not checked.
ChangeProfileBusy(op) ==
  /\ op \in Offered /\ ProfileReachable
  /\ LoggedIn /\ ~uncertain
  /\ Send(op, token, FALSE)
  /\ profileRequest' = lastId + 1
  /\ UNCHANGED <<session, uncertain, revision, epoch, linkUp, downstream, ledger, past>>

\* updateNickname and rechargeWallet.
changeProfile(op) ==
  /\ op \in Offered /\ ProfileReachable
  /\ LoggedIn /\ ~uncertain /\ profileRequest = 0
  /\ Send(op, token, FALSE)
  /\ profileRequest' = lastId + 1
  /\ UNCHANGED <<session, uncertain, revision, epoch, linkUp, downstream, ledger, past>>

\* loadCurrentOrder, sendChargeRequest and the loads of lists and details.
request(op) ==
  /\ op \in Offered
  /\ LoggedIn
  /\ Send(op, token, FALSE)
  /\ UNCHANGED <<session, profile, epoch, linkUp, downstream, ledger, past>>

\* loadSystemHealth needs no session; its request names no account.
loadSystemHealth ==
  /\ "health" \in Offered
  /\ \E a \in Account : Send("health", a, FALSE)
  /\ UNCHANGED <<session, profile, epoch, linkUp, downstream, ledger, past>>

\* Fault: only the epoch moves on; the reads stay.
InvalidateKeepsReads(ids) ==
  /\ pending' = Without(ids)
  /\ live' = live \ ids /\ unsent' = unsent \ ids
  /\ epoch' = epoch + 1

\* The operations `ids' are over, and with them every read of the current order.
InvalidateWith(ids) ==
  LET gone == ids \cup Held({"chargeCurrent"})
  IN  /\ pending' = Without(gone)
      /\ live' = live \ gone /\ unsent' = unsent \ gone
      /\ epoch' = epoch + 1

\* Called by ChargePage before it sends a mutation, and when it leaves.  With no
\* read under way it would only move an epoch that nothing compares.
invalidateChargeReads ==
  /\ Held({"chargeCurrent"}) # {}
  /\ InvalidateWith({})
  /\ UNCHANGED <<session, profile, linkUp, wires, lastId, ledger, past>>

cancelSafeRead(id) ==
  /\ id \in Held(SafeRead)
  /\ pending' = Without({id})
  /\ live' = live \ {id} /\ unsent' = unsent \ {id}
  /\ UNCHANGED <<session, profile, epoch, linkUp, wires, lastId, ledger, past>>

-----------------------------------------------------------------------------
(* handleResponse and handleTransportFailure, for an operation p that was in
   the table as `id'.  Every disjunct removes it from both tables. *)

\* Fault: the failure that is due stays due.
DoneStaysDue(id) ==
  /\ pending' = Without({id})
  /\ live' = live \ {id} /\ UNCHANGED unsent

Done(id) ==
  /\ pending' = Without({id})
  /\ live' = live \ {id} /\ unsent' = unsent \ {id}

\* Only a signal says what came of it.
Over(id) == Done(id) /\ UNCHANGED <<epoch, session, revision, past>>
Ends(id) == Over(id) /\ UNCHANGED <<profileRequest, uncertain>>

\* Fault: an unknown outcome is reported as a failure.
EndProfileCertain(id, unknown) ==
  /\ Over(id)
  /\ profileRequest' = 0
  /\ UNCHANGED uncertain

\* finishProfileOperation, and markProfileUncertain for a mutation.
EndProfile(id, unknown) ==
  /\ Over(id)
  /\ profileRequest' = 0
  /\ uncertain' = (uncertain \/ (unknown /\ pending[id].op \in ProfileMutation))

\* A profile answer that decodes, for this user.
ProfileAnswer(id, u) ==
  IF pending[id].revision # revision
  THEN EndProfile(id, FALSE)
  ELSE /\ Done(id)
       /\ ApplyUser(IF pending[id].op = "profileRecharge" THEN [user EXCEPT !.balance = u.balance] ELSE u)
       /\ profileRequest' = 0
       /\ uncertain' = (uncertain /\ ~pending[id].reconciliation)
       /\ UNCHANGED <<epoch, generation, token, past>>

\* finishChargeFailure: a mutation invalidates the reads of the current order.
ChargeFailure(id, unknown) ==
  IF pending[id].op \in ChargeMutation
  THEN /\ InvalidateWith({id})
       /\ outcomeAt' = lastId
       /\ settleLost' = (settleLost \/ (unknown /\ pending[id].op = "chargeSettle"))
       /\ UNCHANGED <<session, profile, wanted>>
  ELSE Ends(id)

ChargeAnswer(id, u) ==
  IF pending[id].op = "chargeCurrent"
  THEN Ends(id)
  ELSE /\ InvalidateWith({id})
       /\ outcomeAt' = lastId
       /\ IF pending[id].op = "chargeSettle"
          THEN ApplyUser([user EXCEPT !.balance = u.balance])
          ELSE UNCHANGED <<user, revision>>
       /\ UNCHANGED <<generation, token, profileRequest, uncertain, wanted, settleLost>>

LoginAnswer(id, u) ==
  /\ Done(id)
  /\ token' = u.account
  /\ ApplyUser(u)
  /\ UNCHANGED <<generation, epoch, profileRequest, uncertain, past>>

\* handleResponse for an operation of this session.
Answer(id, r) ==
  LET op == pending[id].op
      unknown == r.result \in {"ok", "malformed"}
      fits == r.result = "ok" /\ user # NoUser /\ r.user.account = user.account
      stale == op = "chargeCurrent" /\ pending[id].epoch # epoch
      opens == op = "login" /\ r.result = "ok" /\ r.user.account = pending[id].mobile
  IN  \/ op \in ProfileOperation /\ fits /\ ProfileAnswer(id, r.user)
      \/ op \in ProfileOperation /\ ~fits /\ EndProfile(id, unknown)
      \/ stale /\ Ends(id)
      \/ op \in ChargeOperation /\ ~stale /\ fits /\ ChargeAnswer(id, r.user)
      \/ op \in ChargeOperation /\ ~stale /\ ~fits /\ ChargeFailure(id, unknown)
      \/ opens /\ LoginAnswer(id, r.user)
      \/ op \notin ProfileOperation \cup ChargeOperation /\ ~opens /\ Ends(id)

Expires(id, r) == r.result = "auth" /\ pending[id].op \notin {"login", "health"} /\ LoggedIn

handleResponse(id, r) ==
  IF pending[id].generation # generation THEN Ends(id)
  ELSE IF Expires(id, r) THEN resetSession /\ UNCHANGED <<wanted, outcomeAt>>
  ELSE Answer(id, r)

\* handleTransportFailure for an operation of this session.
Failure(id, unknown) ==
  LET op == pending[id].op
  IN  \/ op \in ProfileOperation /\ EndProfile(id, unknown)
      \/ op \in ChargeMutation /\ ChargeFailure(id, unknown)
      \/ op \notin ProfileOperation \cup ChargeMutation /\ Ends(id)

\* NOT_CONNECTED means that nothing was written.
handleTransportFailure(id, unknown) ==
  IF pending[id].generation # generation THEN Ends(id) ELSE Failure(id, unknown)

-----------------------------------------------------------------------------
(* The transport. *)

\* A response arrives; one that the client does not hold any more is ignored.
Receive ==
  /\ linkUp /\ downstream # <<>>
  /\ downstream' = Tail(downstream)
  /\ LET r == Head(downstream)
     IN  IF r.id \in live /\ r.id \in DOMAIN pending
         THEN handleResponse(r.id, r)
         ELSE UNCHANGED <<pending, live, unsent, session, profile, epoch, past>>
  /\ UNCHANGED <<linkUp, upstream, lastId, ledger>>

\* A timeout, a loss, or a request made without a connection.
Fail(id) ==
  /\ id \in live /\ id \in DOMAIN pending
  /\ handleTransportFailure(id, id \notin unsent)
  /\ UNCHANGED <<linkUp, wires, lastId, ledger>>

Disconnect ==
  /\ linkUp
  /\ linkUp' = FALSE
  /\ upstream' = <<>> /\ downstream' = <<>>
  /\ UNCHANGED <<pending, session, profile, epoch, live, unsent, lastId, ledger, past>>

\* The mutations on a lost connection were failed; reads are sent again, after
\* what the slots of connectionChanged and handleConnectionState send.
Replayed == {i \in DOMAIN pending : i \in live \ unsent /\ pending[i].op \in SafeRead \cup {"profileGet"}}
InOrder == {s \in [1..Cardinality(Replayed) -> Replayed] :
              \A i, j \in DOMAIN s : i < j => s[i] < s[j]}
Replay(s) == [k \in 1..Cardinality(Replayed) |->
                [id |-> s[k], op |-> pending[s[k]].op,
                 account |-> IF token = None THEN CHOOSE a \in Account : TRUE ELSE token]]

Reconciles == uncertain /\ LoggedIn /\ profileRequest = 0

\* The connection is made; handleConnectionState(true) reconciles.
Connect ==
  /\ ~linkUp
  /\ live \ unsent \subseteq Replayed
  /\ linkUp' = TRUE
  /\ Reconciles => lastId < MaxId
  /\ IF Reconciles
     THEN /\ lastId' = lastId + 1
          /\ live' = live \cup {lastId'}
          /\ pending' = [i \in DOMAIN pending \cup {lastId'} |->
                           IF i = lastId' THEN Entry("profileGet", TRUE) ELSE pending[i]]
          /\ profileRequest' = lastId'
          /\ \E s \in InOrder :
               upstream' = <<[id |-> lastId', op |-> "profileGet", account |-> token]>> \o Replay(s)
     ELSE /\ \E s \in InOrder : upstream' = Replay(s)
          /\ UNCHANGED <<lastId, live, pending, profileRequest>>
  /\ UNCHANGED <<session, uncertain, revision, epoch, unsent, downstream, ledger, past>>

-----------------------------------------------------------------------------
(* The server. *)

Effect(op, row) ==
  CASE op = "profileUpdate" -> [row EXCEPT !.nickname = @ + 1]
    [] op \in {"profileRecharge", "chargeSettle"} -> [row EXCEPT !.balance = @ + 1]
    [] OTHER -> row

\* It does what is asked, and its answer may not decode; or it refuses; or it
\* does not know the token.
Serve ==
  /\ upstream # <<>>
  /\ upstream' = Tail(upstream)
  /\ LET m == Head(upstream)
     IN  \E result \in Result :
           /\ ledger' = IF result \in {"ok", "malformed"}
                        THEN [ledger EXCEPT ![m.account] = Effect(m.op, @)] ELSE ledger
           /\ downstream' = Append(downstream,
                [id |-> m.id, result |-> result,
                 user |-> [account |-> m.account, nickname |-> ledger'[m.account].nickname,
                           balance |-> ledger'[m.account].balance]])
  /\ UNCHANGED <<pending, session, profile, epoch, linkUp, live, unsent, lastId, past>>

Pages ==
  \/ \E a \in Account : loginByPhone(a)
  \/ loginInvalid
  \/ loadProfile
  \/ \E op \in ProfileMutation : changeProfile(op)
  \/ \E op \in ChargeMutation \cup {"chargeCurrent", "read"} : request(op)
  \/ loadSystemHealth
  \/ invalidateChargeReads
  \/ \E id \in 1..lastId : cancelSafeRead(id)

Transport ==
  \/ Receive
  \/ \E id \in 1..lastId : Fail(id)
  \/ Disconnect
  \/ Connect

Next == Pages \/ Transport \/ Serve

Spec == Init /\ [][Next]_vars

\* The reads that wait for a connection to be sent again: nothing else ends them.
Kept == IF linkUp THEN {} ELSE Replayed

\* What TcpJsonClient promises with or without RetryAfterLoss: a deadline runs on a
\* connection, a read is sent again once, and all else ends with its connection.
FairSpec == Spec /\ \A id \in 1..MaxId : SF_vars(id \notin Kept /\ Fail(id))

-----------------------------------------------------------------------------
(* Properties. *)

\* The table of operations and that of the client agree: every operation will
\* get an outcome, and every outcome finds its operation.
TablesAgree == DOMAIN pending = live

\* profileRequestId_ is the one profile operation under way, so PROFILE_BUSY
\* neither lasts longer than the operation nor lets a second one in.
OneProfileOperation ==
  Held(ProfileOperation) = (IF profileRequest = 0 THEN {} ELSE {profileRequest})

\* The account on show is that of the last login attempt, and all operations
\* that can still have an effect belong to its session.
SessionIsolated ==
  /\ user # NoUser => user.account = wanted /\ token = wanted
  /\ \A id \in DOMAIN pending : pending[id].generation = generation

\* What the client shows as settled is what the server has: with no operation
\* on the account under way and no warning shown, nickname and balance are the
\* server's, after any losses, timeouts and undecodable answers.
ShownIsCurrent ==
  LoggedIn /\ Held(ProfileOperation \cup {"chargeSettle"}) = {} /\ ~uncertain /\ ~settleLost
    => /\ user.nickname = ledger[user.account].nickname
       /\ user.balance = ledger[user.account].balance

\* A read of the current order that can still be delivered was sent after the
\* last outcome of a charge mutation.
ReadsFollowOutcome ==
  \A id \in Held({"chargeCurrent"}) : id > outcomeAt /\ pending[id].epoch = epoch

\* An operation that never ends is a read that waits for ever for a connection.
OperationsEnd ==
  \A id \in 1..MaxId : <>[](id \in DOMAIN pending) => <>[](id \in Kept)

=============================================================================
