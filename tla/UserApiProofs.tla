---------------------------- MODULE UserApiProofs ----------------------------
(***************************************************************************)
(* Proofs about UserApi for any accounts, any choice of operations, and any *)
(* number of requests and sessions.                                        *)
(***************************************************************************)
EXTENDS UserApi, FiniteSetTheorems, TLAPS

\* What TypeOK says of the two tables of requests.
TableTypes ==
  /\ DOMAIN pending \subseteq 1..lastId /\ \A id \in DOMAIN pending : pending[id] \in Pending
  /\ live \subseteq 1..lastId /\ unsent \subseteq live

-----------------------------------------------------------------------------
(* The table of operations. *)

LEMMA WithoutFacts ==
  ASSUME NEW ids
  PROVE  /\ DOMAIN Without(ids) = DOMAIN pending \ ids
         /\ \A i \in DOMAIN pending \ ids : Without(ids)[i] = pending[i]
BY DEF Without

LEMMA RemoveTypes ==
  ASSUME TypeOK, NEW ids, lastId' = lastId,
         pending' = Without(ids), live' = live \ ids, unsent' = unsent \ ids
  PROVE  TableTypes'
BY WithoutFacts DEF TypeOK, TableTypes

LEMMA EntryTypes ==
  ASSUME TypeOK, NEW op \in Operation, NEW b \in BOOLEAN
  PROVE  Entry(op, b) \in Pending
BY DEF TypeOK, Entry, Pending

LEMMA LoginEntryTypes ==
  ASSUME TypeOK, NEW a \in Account
  PROVE  LoginEntry(a) \in Pending
BY DEF TypeOK, LoginEntry, Pending, Operation

\* The message that Send puts on the connection.
LEMMA SendTypes ==
  ASSUME TypeOK, NEW op \in Operation, NEW a \in Account, NEW b \in BOOLEAN, Send(op, a, b)
  PROVE  /\ TableTypes' /\ lastId' \in Nat
         /\ upstream' \in Seq(Message)
<1>1. lastId \in Nat /\ lastId' = lastId + 1 /\ lastId + 1 \in 1..(lastId + 1)
      /\ 1..lastId \subseteq 1..(lastId + 1)
  BY DEF TypeOK, Send
<1>2. Entry(op, b) \in Pending BY EntryTypes
<1>3. /\ DOMAIN pending' = DOMAIN pending \cup {lastId + 1}
      /\ \A i \in DOMAIN pending' : pending'[i] = IF i = lastId + 1 THEN Entry(op, b) ELSE pending[i]
  BY DEF Send
<1>4. DOMAIN pending' \subseteq 1..lastId' /\ \A i \in DOMAIN pending' : pending'[i] \in Pending
  BY <1>1, <1>2, <1>3 DEF TypeOK
<1>5. live' \subseteq 1..lastId' /\ unsent' \subseteq live'
  BY <1>1 DEF TypeOK, Send
<1>6. [id |-> lastId + 1, op |-> op, account |-> a] \in Message
  BY <1>1 DEF Message
<1>7. upstream' = Append(upstream, [id |-> lastId + 1, op |-> op, account |-> a]) \/ upstream' = upstream
  BY DEF Send
<1>8. upstream \in Seq(Message) BY DEF TypeOK, Message
<1>9. upstream' \in Seq(Message)
  BY <1>6, <1>7, <1>8
<1> QED BY <1>1, <1>4, <1>5, <1>9 DEF TableTypes

LEMMA ClearTypes ==
  ASSUME TypeOK, ClearSession
  PROVE  /\ generation' \in Nat /\ revision' \in Nat /\ epoch' \in Nat
         /\ user' = NoUser /\ token' = None
         /\ profileRequest' = 0 /\ uncertain' = FALSE /\ settleLost' = FALSE
BY DEF TypeOK, ClearSession

LEMMA ApplyTypes ==
  ASSUME TypeOK, NEW u \in Profile, ApplyUser(u)
  PROVE  user' \in Profile /\ revision' \in Nat
BY DEF TypeOK, ApplyUser

\* The balance of an answer is put into the user on show.
LEMMA BalanceTypes ==
  ASSUME TypeOK, user # NoUser, NEW u \in Profile
  PROVE  /\ [user EXCEPT !.balance = u.balance] \in Profile
         /\ [user EXCEPT !.balance = u.balance].account = user.account
<1>1. user \in Profile BY DEF TypeOK
<1> QED BY <1>1 DEF Profile

-----------------------------------------------------------------------------
(* Types: what every outcome of an operation leaves behind. *)

\* The variables that an outcome of an operation may change.
OutcomeTypes ==
  /\ TableTypes
  /\ generation \in Nat /\ revision \in Nat /\ epoch \in Nat
  /\ user \in Profile \cup {NoUser} /\ token \in Account \cup {None}
  /\ profileRequest \in 0..lastId /\ uncertain \in BOOLEAN
  /\ wanted \in Account \cup {None} /\ outcomeAt \in 0..lastId /\ settleLost \in BOOLEAN

LEMMA ZeroInRange == lastId \in Nat => 0 \in 0..lastId /\ lastId \in 0..lastId
OBVIOUS

LEMMA DoneTypes ==
  ASSUME TypeOK, NEW id, Done(id), lastId' = lastId
  PROVE  TableTypes'
BY RemoveTypes DEF Done

LEMMA InvalidateTypes ==
  ASSUME TypeOK, NEW ids, InvalidateWith(ids), lastId' = lastId
  PROVE  TableTypes' /\ epoch' \in Nat
<1>1. TableTypes' BY RemoveTypes DEF InvalidateWith
<1>2. epoch' \in Nat BY DEF InvalidateWith, TypeOK
<1> QED BY <1>1, <1>2

LEMMA EndsTypes ==
  ASSUME TypeOK, NEW id, Ends(id), lastId' = lastId
  PROVE  OutcomeTypes'
<1>1. TableTypes' BY DoneTypes DEF Ends, Over
<1> QED BY <1>1 DEF TypeOK, OutcomeTypes, Ends, Over, session, past

LEMMA EndProfileTypes ==
  ASSUME TypeOK, NEW id, NEW unknown \in BOOLEAN, EndProfile(id, unknown), lastId' = lastId
  PROVE  OutcomeTypes'
<1>1. TableTypes' BY DoneTypes DEF EndProfile, Over
<1>2. profileRequest' \in 0..lastId' BY ZeroInRange DEF EndProfile, TypeOK
<1>3. uncertain' \in BOOLEAN BY DEF EndProfile, TypeOK
<1> QED BY <1>1, <1>2, <1>3 DEF TypeOK, OutcomeTypes, EndProfile, Over, session, past

LEMMA ProfileAnswerTypes ==
  ASSUME TypeOK, NEW id, NEW u \in Profile, user # NoUser, ProfileAnswer(id, u), lastId' = lastId
  PROVE  OutcomeTypes'
<1>1. CASE pending[id].revision # revision
  BY <1>1, EndProfileTypes DEF ProfileAnswer
<1>2. CASE pending[id].revision = revision
  <2>1. TableTypes' BY <1>2, DoneTypes DEF ProfileAnswer
  <2>2. user' \in Profile /\ revision' \in Nat
    BY <1>2, BalanceTypes, ApplyTypes DEF ProfileAnswer
  <2>3. profileRequest' \in 0..lastId' BY <1>2, ZeroInRange DEF ProfileAnswer, TypeOK
  <2>4. uncertain' \in BOOLEAN BY <1>2 DEF ProfileAnswer, TypeOK
  <2> QED BY <1>2, <2>1, <2>2, <2>3, <2>4 DEF TypeOK, OutcomeTypes, ProfileAnswer, past
<1> QED BY <1>1, <1>2

LEMMA ChargeFailureTypes ==
  ASSUME TypeOK, NEW id, NEW unknown \in BOOLEAN, ChargeFailure(id, unknown), lastId' = lastId
  PROVE  OutcomeTypes'
<1>1. CASE pending[id].op \in ChargeMutation
  <2>1. TableTypes' /\ epoch' \in Nat BY <1>1, InvalidateTypes DEF ChargeFailure
  <2>2. outcomeAt' \in 0..lastId' BY <1>1, ZeroInRange DEF ChargeFailure, TypeOK
  <2>3. settleLost' \in BOOLEAN BY <1>1 DEF ChargeFailure, TypeOK
  <2> QED BY <1>1, <2>1, <2>2, <2>3 DEF TypeOK, OutcomeTypes, ChargeFailure, session, profile
<1>2. CASE pending[id].op \notin ChargeMutation
  BY <1>2, EndsTypes DEF ChargeFailure
<1> QED BY <1>1, <1>2

LEMMA ChargeAnswerTypes ==
  ASSUME TypeOK, NEW id, NEW u \in Profile, user # NoUser, ChargeAnswer(id, u), lastId' = lastId
  PROVE  OutcomeTypes'
<1>1. CASE pending[id].op = "chargeCurrent"
  BY <1>1, EndsTypes DEF ChargeAnswer
<1>2. CASE pending[id].op # "chargeCurrent"
  <2>1. TableTypes' /\ epoch' \in Nat BY <1>2, InvalidateTypes DEF ChargeAnswer
  <2>2. outcomeAt' \in 0..lastId' BY <1>2, ZeroInRange DEF ChargeAnswer, TypeOK
  <2>3. user' \in Profile \cup {NoUser} /\ revision' \in Nat
    <3>1. CASE pending[id].op = "chargeSettle"
      BY <1>2, <3>1, BalanceTypes, ApplyTypes DEF ChargeAnswer
    <3>2. CASE pending[id].op # "chargeSettle"
      BY <1>2, <3>2 DEF ChargeAnswer, TypeOK
    <3> QED BY <3>1, <3>2
  <2> QED BY <1>2, <2>1, <2>2, <2>3 DEF TypeOK, OutcomeTypes, ChargeAnswer
<1> QED BY <1>1, <1>2

LEMMA LoginAnswerTypes ==
  ASSUME TypeOK, NEW id, NEW u \in Profile, LoginAnswer(id, u), lastId' = lastId
  PROVE  OutcomeTypes'
<1>1. TableTypes' BY DoneTypes DEF LoginAnswer
<1>2. user' \in Profile /\ revision' \in Nat BY ApplyTypes DEF LoginAnswer
<1>3. token' \in Account BY DEF LoginAnswer, Profile
<1> QED BY <1>1, <1>2, <1>3 DEF TypeOK, OutcomeTypes, LoginAnswer, past

LEMMA ResetTypes ==
  ASSUME TypeOK, resetSession, lastId' = lastId,
         wanted' \in Account \cup {None}, outcomeAt' = outcomeAt
  PROVE  OutcomeTypes'
<1>1. /\ generation' \in Nat /\ revision' \in Nat /\ epoch' \in Nat
      /\ user' = NoUser /\ token' = None
      /\ profileRequest' = 0 /\ uncertain' = FALSE /\ settleLost' = FALSE
  BY ClearTypes DEF resetSession
<1>2. TableTypes'
  <2>1. DOMAIN pending' = {} BY DEF resetSession
  <2>2. live' \subseteq 1..lastId' /\ unsent' \subseteq live' BY DEF resetSession, TypeOK
  <2> QED BY <2>1, <2>2 DEF TableTypes
<1>3. profileRequest' \in 0..lastId' BY <1>1, ZeroInRange DEF TypeOK
<1>4. outcomeAt' \in 0..lastId' BY DEF TypeOK
<1>5. uncertain' \in BOOLEAN /\ settleLost' \in BOOLEAN BY <1>1
<1> QED BY <1>1, <1>2, <1>3, <1>4, <1>5 DEF OutcomeTypes

LEMMA AnswerTypes ==
  ASSUME TypeOK, NEW id \in DOMAIN pending, NEW r \in Response, Answer(id, r), lastId' = lastId
  PROVE  OutcomeTypes'
<1> DEFINE unknown == r.result \in {"ok", "malformed"}
           fits == r.result = "ok" /\ user # NoUser /\ r.user.account = user.account
<1>1. r.user \in Profile BY DEF Response
<1>2. unknown \in BOOLEAN OBVIOUS
<1>3. CASE fits /\ ProfileAnswer(id, r.user) BY <1>1, <1>3, ProfileAnswerTypes
<1>4. CASE EndProfile(id, unknown) BY <1>2, <1>4, EndProfileTypes
<1>5. CASE Ends(id) BY <1>5, EndsTypes
<1>6. CASE fits /\ ChargeAnswer(id, r.user) BY <1>1, <1>6, ChargeAnswerTypes
<1>7. CASE ChargeFailure(id, unknown) BY <1>2, <1>7, ChargeFailureTypes
<1>8. CASE LoginAnswer(id, r.user) BY <1>1, <1>8, LoginAnswerTypes
<1> QED BY <1>3, <1>4, <1>5, <1>6, <1>7, <1>8, Zenon DEF Answer

LEMMA ResponseTypes ==
  ASSUME TypeOK, NEW id \in DOMAIN pending, NEW r \in Response,
         handleResponse(id, r), lastId' = lastId
  PROVE  OutcomeTypes'
<1>1. CASE Ends(id) BY <1>1, EndsTypes
<1>2. CASE resetSession /\ UNCHANGED <<wanted, outcomeAt>>
  <2>1. wanted' \in Account \cup {None} /\ outcomeAt' = outcomeAt BY <1>2 DEF TypeOK
  <2> QED BY <1>2, <2>1, ResetTypes
<1>3. CASE Answer(id, r) BY <1>3, AnswerTypes
<1> QED BY <1>1, <1>2, <1>3, Zenon DEF handleResponse

LEMMA FailureTypes ==
  ASSUME TypeOK, NEW id \in DOMAIN pending, NEW unknown \in BOOLEAN,
         handleTransportFailure(id, unknown), lastId' = lastId
  PROVE  OutcomeTypes'
<1>1. CASE Ends(id) BY <1>1, EndsTypes
<1>2. CASE EndProfile(id, unknown) BY <1>2, EndProfileTypes
<1>3. CASE ChargeFailure(id, unknown) BY <1>3, ChargeFailureTypes
<1> QED BY <1>1, <1>2, <1>3, Zenon DEF handleTransportFailure, Failure

-----------------------------------------------------------------------------
(* Types: the connection. *)

\* The reads that are sent again are messages, in any order.
LEMMA ReplayTypes ==
  ASSUME TypeOK, NEW s \in InOrder
  PROVE  Replay(s) \in Seq(Message)
<1> DEFINE n == Cardinality(Replayed)
           sender == IF token = None THEN CHOOSE a \in Account : TRUE ELSE token
<1>1. n \in Nat
  <2>1. IsFiniteSet(1..lastId) BY FS_Interval DEF TypeOK
  <2>2. Replayed \subseteq 1..lastId BY DEF Replayed, TypeOK
  <2>3. IsFiniteSet(Replayed) BY <2>1, <2>2, FS_Subset
  <2> QED BY <2>3, FS_CardinalityType
<1>2. sender \in Account BY UserApiAssumption DEF UserApiAssumption, TypeOK
<1>3. \A k \in 1..n : s[k] \in Replayed BY DEF InOrder
<1>4. \A k \in 1..n : s[k] \in Nat /\ pending[s[k]].op \in Operation
  BY <1>3 DEF Replayed, TypeOK, Pending
<1>5. \A k \in 1..n : [id |-> s[k], op |-> pending[s[k]].op, account |-> sender] \in Message
  BY <1>2, <1>4 DEF Message
<1>6. Replay(s) = [k \in 1..n |-> [id |-> s[k], op |-> pending[s[k]].op, account |-> sender]]
  BY DEF Replay
<1>7. Replay(s) \in [1..n -> Message] BY <1>5, <1>6
<1> QED BY <1>1, <1>7

LEMMA ConnectTypes ==
  ASSUME TypeOK, Connect
  PROVE  TypeOK'
<1>1. lastId \in Nat BY DEF TypeOK
<1>2. CASE Reconciles
  <2>1. lastId' = lastId + 1 /\ lastId' \in Nat /\ lastId' \in 1..lastId'
        /\ 1..lastId \subseteq 1..lastId' /\ 0..lastId \subseteq 0..lastId'
    BY <1>1, <1>2 DEF Connect
  <2>2. Entry("profileGet", TRUE) \in Pending
    BY EntryTypes DEF Operation, ProfileOperation
  <2>3. /\ DOMAIN pending' = DOMAIN pending \cup {lastId'}
        /\ \A i \in DOMAIN pending' :
             pending'[i] = IF i = lastId' THEN Entry("profileGet", TRUE) ELSE pending[i]
    BY <1>2 DEF Connect
  <2>4. DOMAIN pending' \subseteq 1..lastId' /\ \A i \in DOMAIN pending' : pending'[i] \in Pending
    BY <2>1, <2>2, <2>3 DEF TypeOK
  <2>5. live' \subseteq 1..lastId' /\ unsent' \subseteq live' BY <1>2, <2>1 DEF Connect, TypeOK
  <2>6. [id |-> lastId', op |-> "profileGet", account |-> token] \in Message
    BY <1>2, <2>1 DEF Message, Reconciles, LoggedIn, TypeOK, Operation, ProfileOperation
  <2>7. PICK s \in InOrder :
          upstream' = <<[id |-> lastId', op |-> "profileGet", account |-> token]>> \o Replay(s)
    BY <1>2 DEF Connect
  <2>8. upstream' \in Seq(Message) BY <2>6, <2>7, ReplayTypes
  <2>9. profileRequest' \in 0..lastId' BY <1>2, <2>1 DEF Connect
  <2>10. outcomeAt' \in 0..lastId' BY <2>1 DEF Connect, TypeOK, past
  <2>11. linkUp' \in BOOLEAN BY DEF Connect
  <2> QED
    BY <2>1, <2>4, <2>5, <2>8, <2>9, <2>10, <2>11 DEF TypeOK, Connect, session, past
<1>3. CASE ~Reconciles
  <2>1. PICK s \in InOrder : upstream' = Replay(s) BY <1>3 DEF Connect
  <2>2. upstream' \in Seq(Message) BY <2>1, ReplayTypes
  <2>3. linkUp' \in BOOLEAN BY DEF Connect
  <2> QED BY <1>3, <2>2, <2>3 DEF TypeOK, Connect, session, past
<1> QED BY <1>2, <1>3

LEMMA EffectTypes ==
  ASSUME NEW op, NEW row \in [nickname : Nat, balance : Nat]
  PROVE  Effect(op, row) \in [nickname : Nat, balance : Nat]
BY DEF Effect

LEMMA ServeTypes ==
  ASSUME TypeOK, Serve
  PROVE  TypeOK'
<1> DEFINE m == Head(upstream)
<1>1. m \in Message /\ upstream' \in Seq(Message) BY DEF Serve, TypeOK
<1>2. PICK result \in Result :
        /\ ledger' = IF result \in {"ok", "malformed"}
                     THEN [ledger EXCEPT ![m.account] = Effect(m.op, @)] ELSE ledger
        /\ downstream' = Append(downstream,
             [id |-> m.id, result |-> result,
              user |-> [account |-> m.account, nickname |-> ledger'[m.account].nickname,
                        balance |-> ledger'[m.account].balance]])
  BY DEF Serve
<1>3. m.id \in Nat /\ m.account \in Account BY <1>1 DEF Message
<1>4. ledger \in [Account -> [nickname : Nat, balance : Nat]] BY DEF TypeOK
<1>5. ledger' \in [Account -> [nickname : Nat, balance : Nat]]
  <2>1. Effect(m.op, ledger[m.account]) \in [nickname : Nat, balance : Nat]
    BY <1>3, <1>4, EffectTypes
  <2> QED BY <1>2, <1>3, <1>4, <2>1
<1>6. ledger'[m.account].nickname \in Nat /\ ledger'[m.account].balance \in Nat
  BY <1>3, <1>5
<1>7. [id |-> m.id, result |-> result,
       user |-> [account |-> m.account, nickname |-> ledger'[m.account].nickname,
                 balance |-> ledger'[m.account].balance]] \in Response
  BY <1>3, <1>6 DEF Response, Profile
<1>8. downstream' \in Seq(Response) BY <1>2, <1>7 DEF TypeOK
<1> QED BY <1>1, <1>5, <1>8 DEF TypeOK, Serve, session, profile, past

-----------------------------------------------------------------------------
(* Types: every step. *)

LEMMA LoginTypes ==
  ASSUME TypeOK, NEW a \in Account, loginByPhone(a)
  PROVE  TypeOK'
<1>1. /\ lastId' = lastId + 1 /\ lastId' \in Nat /\ lastId' \in 1..lastId'
      /\ 1..lastId \subseteq 1..lastId' /\ 0..lastId \subseteq 0..lastId' /\ 0 \in 0..lastId'
  BY DEF TypeOK, loginByPhone
<1>2. /\ generation' \in Nat /\ revision' \in Nat /\ epoch' \in Nat
      /\ user' = NoUser /\ token' = None
      /\ profileRequest' = 0 /\ uncertain' = FALSE /\ settleLost' = FALSE
  BY ClearTypes DEF loginByPhone
<1>3. DOMAIN pending' = {lastId'} /\ \A i \in DOMAIN pending' : pending'[i] \in Pending
  BY <1>1, LoginEntryTypes DEF loginByPhone
<1>4. live' \subseteq 1..lastId' /\ unsent' \subseteq live' BY <1>1 DEF loginByPhone, TypeOK
<1>5. [id |-> lastId', op |-> "login", account |-> a] \in Message
  BY <1>1 DEF Message, Operation
<1>6. upstream' = Append(upstream, [id |-> lastId', op |-> "login", account |-> a])
        \/ upstream' = upstream
  BY <1>1 DEF loginByPhone
<1>7. upstream' \in Seq(Message)
  <2>1. upstream \in Seq(Message) BY DEF TypeOK
  <2> QED BY <1>5, <1>6, <2>1
<1>8. wanted' \in Account \cup {None} /\ outcomeAt' \in 0..lastId'
  BY <1>1 DEF loginByPhone, TypeOK
<1>9. linkUp' \in BOOLEAN /\ downstream' \in Seq(Response)
      /\ ledger' \in [Account -> [nickname : Nat, balance : Nat]]
  BY DEF loginByPhone, TypeOK
<1>10. profileRequest' \in 0..lastId' /\ uncertain' \in BOOLEAN /\ settleLost' \in BOOLEAN
  BY <1>1, <1>2
<1> QED BY <1>1, <1>2, <1>3, <1>4, <1>7, <1>8, <1>9, <1>10 DEF TypeOK

\* A request of a page, by Send; profileRequest becomes its identity or stays.
LEMMA RequestTypes ==
  ASSUME TypeOK, NEW op \in Operation, NEW a \in Account, NEW b \in BOOLEAN, Send(op, a, b),
         profileRequest' = lastId + 1 \/ profileRequest' = profileRequest,
         UNCHANGED <<session, uncertain, revision, epoch, linkUp, downstream, ledger, past>>
  PROVE  TypeOK'
<1>1. lastId' = lastId + 1 /\ lastId \in Nat BY DEF TypeOK, Send
<1>2. TableTypes' /\ lastId' \in Nat /\ upstream' \in Seq(Message) BY SendTypes
<1>3. profileRequest' \in 0..lastId' /\ outcomeAt' \in 0..lastId' BY <1>1 DEF TypeOK, past
<1> QED BY <1>2, <1>3 DEF TypeOK, TableTypes, session, past

\* A step that leaves lastId, the connection and the ledger alone.
LEMMA OutcomeStepTypes ==
  ASSUME TypeOK, OutcomeTypes', lastId' \in Nat, linkUp' \in BOOLEAN,
         upstream' \in Seq(Message), downstream' \in Seq(Response), ledger' = ledger
  PROVE  TypeOK'
BY DEF TypeOK, OutcomeTypes, TableTypes

-----------------------------------------------------------------------------
(* Safety.  The inductive invariant adds to the properties that a login     *)
(* under way is the last attempt's: its answer sets the account on show.    *)

LoginsMatch == \A id \in DOMAIN pending : pending[id].op = "login" => pending[id].mobile = wanted

SafeInv ==
  /\ TablesAgree
  /\ OneProfileOperation
  /\ SessionIsolated
  /\ LoginsMatch
  /\ ReadsFollowOutcome

\* What an outcome or a cancellation does that stays in the session: the
\* operations `ids' are over, with all that hangs on them.
Removal(ids) ==
  /\ pending' = Without(ids) /\ live' = live \ ids
  /\ generation' = generation /\ wanted' = wanted
  /\ user' # NoUser => user'.account = wanted /\ token' = wanted
  /\ \/ profileRequest' = profileRequest /\ ids \cap Held(ProfileOperation) = {}
     \/ profileRequest' = 0 /\ Held(ProfileOperation) \subseteq ids
  /\ \/ epoch' = epoch /\ outcomeAt' = outcomeAt
     \/ Held({"chargeCurrent"}) \subseteq ids

LEMMA RemovalKeeps ==
  ASSUME TypeOK, SafeInv, NEW ids, Removal(ids)
  PROVE  SafeInv'
<1>1. DOMAIN pending' = DOMAIN pending \ ids /\ \A i \in DOMAIN pending' : pending'[i] = pending[i]
  BY WithoutFacts DEF Removal
<1>2. TablesAgree' BY <1>1 DEF Removal, SafeInv, TablesAgree
<1>3. OneProfileOperation'
  <2>1. Held(ProfileOperation)' = Held(ProfileOperation) \ ids BY <1>1 DEF Held
  <2> QED BY <2>1 DEF Removal, SafeInv, OneProfileOperation
<1>4. SessionIsolated' BY <1>1 DEF Removal, SafeInv, SessionIsolated
<1>5. LoginsMatch' BY <1>1 DEF Removal, SafeInv, LoginsMatch
<1>6. ReadsFollowOutcome'
  <2>1. Held({"chargeCurrent"})' = Held({"chargeCurrent"}) \ ids BY <1>1 DEF Held
  <2>2. \A i \in Held({"chargeCurrent"})' : pending'[i] = pending[i] BY <1>1 DEF Held
  <2> QED BY <2>1, <2>2 DEF Removal, SafeInv, ReadsFollowOutcome
<1> QED BY <1>2, <1>3, <1>4, <1>5, <1>6 DEF SafeInv

LEMMA EndsRemoves ==
  ASSUME SafeInv, NEW id \in DOMAIN pending, pending[id].op \notin ProfileOperation, Ends(id)
  PROVE  Removal({id})
<1>1. {id} \cap Held(ProfileOperation) = {} BY DEF Held
<1>2. user' # NoUser => user'.account = wanted /\ token' = wanted
  BY DEF SafeInv, SessionIsolated, Ends, Over, session
<1> QED BY <1>1, <1>2 DEF Removal, Ends, Over, Done, session, past

LEMMA TheProfileOperation ==
  ASSUME SafeInv, NEW id \in DOMAIN pending, pending[id].op \in ProfileOperation
  PROVE  Held(ProfileOperation) \subseteq {id}
BY DEF SafeInv, OneProfileOperation, Held

LEMMA EndProfileRemoves ==
  ASSUME SafeInv, NEW id \in DOMAIN pending, pending[id].op \in ProfileOperation,
         NEW unknown, EndProfile(id, unknown)
  PROVE  Removal({id})
<1>1. user' # NoUser => user'.account = wanted /\ token' = wanted
  BY DEF SafeInv, SessionIsolated, EndProfile, Over, session
<1> QED BY <1>1, TheProfileOperation DEF Removal, EndProfile, Over, Done, session, past

LEMMA ProfileAnswerRemoves ==
  ASSUME TypeOK, SafeInv, NEW id \in DOMAIN pending, pending[id].op \in ProfileOperation,
         NEW u \in Profile, user # NoUser, u.account = user.account, ProfileAnswer(id, u)
  PROVE  Removal({id})
<1>1. CASE pending[id].revision # revision
  BY <1>1, EndProfileRemoves DEF ProfileAnswer
<1>2. CASE pending[id].revision = revision
  <2>1. user'.account = user.account
    <3>1. [user EXCEPT !.balance = u.balance].account = user.account BY BalanceTypes
    <3>2. user' = [user EXCEPT !.balance = u.balance] \/ user' = u
      BY <1>2 DEF ProfileAnswer, ApplyUser
    <3> QED BY <3>1, <3>2
  <2>2. token' = token /\ generation' = generation /\ epoch' = epoch /\ profileRequest' = 0
        /\ wanted' = wanted /\ outcomeAt' = outcomeAt
    BY <1>2 DEF ProfileAnswer, past
  <2>3. user'.account = wanted /\ token' = wanted
    BY <2>1, <2>2 DEF SafeInv, SessionIsolated
  <2>4. pending' = Without({id}) /\ live' = live \ {id} BY <1>2 DEF ProfileAnswer, Done
  <2> QED BY <2>2, <2>3, <2>4, TheProfileOperation DEF Removal
<1> QED BY <1>1, <1>2

\* The outcome of a charge mutation ends no profile operation, and every read
\* of the current order.
LEMMA InvalidateRemoves ==
  ASSUME SafeInv, NEW id \in DOMAIN pending, pending[id].op \notin ProfileOperation,
         InvalidateWith({id}), UNCHANGED <<generation, wanted, profileRequest>>,
         user' # NoUser => user'.account = wanted /\ token' = wanted
  PROVE  Removal({id} \cup Held({"chargeCurrent"}))
<1>1. ({id} \cup Held({"chargeCurrent"})) \cap Held(ProfileOperation) = {}
  BY DEF Held, ProfileOperation, ProfileMutation
<1> QED BY <1>1 DEF Removal, InvalidateWith

LEMMA ChargeFailureRemoves ==
  ASSUME SafeInv, NEW id \in DOMAIN pending, pending[id].op \notin ProfileOperation,
         NEW unknown, ChargeFailure(id, unknown)
  PROVE  \E ids : Removal(ids)
<1>1. CASE pending[id].op \in ChargeMutation
  <2>1. UNCHANGED <<generation, wanted, profileRequest, user, token>> /\ InvalidateWith({id})
    BY <1>1 DEF ChargeFailure, session, profile
  <2>2. user' # NoUser => user'.account = wanted /\ token' = wanted
    BY <2>1 DEF SafeInv, SessionIsolated
  <2> QED BY <2>1, <2>2, InvalidateRemoves
<1>2. CASE pending[id].op \notin ChargeMutation
  BY <1>2, EndsRemoves DEF ChargeFailure
<1> QED BY <1>1, <1>2

LEMMA ChargeAnswerRemoves ==
  ASSUME TypeOK, SafeInv, NEW id \in DOMAIN pending, pending[id].op \in ChargeOperation,
         NEW u \in Profile, user # NoUser, ChargeAnswer(id, u)
  PROVE  \E ids : Removal(ids)
<1>1. pending[id].op \notin ProfileOperation
  BY DEF ChargeOperation, ChargeMutation, ProfileOperation, ProfileMutation
<1>2. CASE pending[id].op = "chargeCurrent"
  BY <1>1, <1>2, EndsRemoves DEF ChargeAnswer
<1>3. CASE pending[id].op # "chargeCurrent"
  <2>1. UNCHANGED <<generation, token, profileRequest, wanted>> /\ InvalidateWith({id})
    BY <1>3 DEF ChargeAnswer
  <2>2. user'.account = user.account
    <3>1. [user EXCEPT !.balance = u.balance].account = user.account BY BalanceTypes
    <3>2. user' = [user EXCEPT !.balance = u.balance] \/ user' = user
      BY <1>3 DEF ChargeAnswer, ApplyUser
    <3> QED BY <3>1, <3>2
  <2>3. user'.account = wanted /\ token' = wanted
    BY <2>1, <2>2 DEF SafeInv, SessionIsolated
  <2> QED BY <1>1, <2>1, <2>3, InvalidateRemoves
<1> QED BY <1>2, <1>3

LEMMA LoginAnswerRemoves ==
  ASSUME SafeInv, NEW id \in DOMAIN pending, pending[id].op = "login",
         NEW u, u.account = pending[id].mobile, LoginAnswer(id, u)
  PROVE  Removal({id})
<1>1. user' = u /\ token' = u.account BY DEF LoginAnswer, ApplyUser
<1>2. u.account = wanted BY DEF SafeInv, LoginsMatch
<1>3. {id} \cap Held(ProfileOperation) = {} BY DEF Held, ProfileOperation, ProfileMutation
<1> QED BY <1>1, <1>2, <1>3 DEF Removal, LoginAnswer, Done, past

LEMMA ResetKeeps ==
  ASSUME SafeInv, resetSession
  PROVE  SafeInv'
<1>1. DOMAIN pending' = {} /\ user' = NoUser /\ profileRequest' = 0 /\ live' = {}
  BY DEF resetSession, ClearSession, SafeInv, TablesAgree
<1>2. \A ops : Held(ops)' = {} BY <1>1 DEF Held
<1> QED BY <1>1, <1>2
    DEF SafeInv, TablesAgree, OneProfileOperation, SessionIsolated, LoginsMatch, ReadsFollowOutcome

LEMMA AnswerKeeps ==
  ASSUME TypeOK, SafeInv, NEW id \in DOMAIN pending, NEW r \in Response, Answer(id, r)
  PROVE  SafeInv'
<1> DEFINE op == pending[id].op
           unknown == r.result \in {"ok", "malformed"}
           fits == r.result = "ok" /\ user # NoUser /\ r.user.account = user.account
<1>1. r.user \in Profile BY DEF Response
<1>2. CASE op \in ProfileOperation /\ fits /\ ProfileAnswer(id, r.user)
  BY <1>1, <1>2, ProfileAnswerRemoves, RemovalKeeps
<1>3. CASE op \in ProfileOperation /\ EndProfile(id, unknown)
  BY <1>3, EndProfileRemoves, RemovalKeeps
<1>4. CASE op \in ChargeOperation /\ fits /\ ChargeAnswer(id, r.user)
  BY <1>1, <1>4, ChargeAnswerRemoves, RemovalKeeps
<1>5. CASE op \in ChargeOperation /\ ChargeFailure(id, unknown)
  <2>1. op \notin ProfileOperation
    BY <1>5 DEF ChargeOperation, ChargeMutation, ProfileOperation, ProfileMutation
  <2> QED BY <1>5, <2>1, ChargeFailureRemoves, RemovalKeeps
<1>6. CASE op = "login" /\ r.user.account = pending[id].mobile /\ LoginAnswer(id, r.user)
  BY <1>6, LoginAnswerRemoves, RemovalKeeps
<1>7. CASE op \notin ProfileOperation /\ Ends(id)
  BY <1>7, EndsRemoves, RemovalKeeps
<1>8. op = "chargeCurrent" => op \notin ProfileOperation
  BY DEF ProfileOperation, ProfileMutation
<1> QED BY <1>2, <1>3, <1>4, <1>5, <1>6, <1>7, <1>8, Zenon DEF Answer

LEMMA ResponseKeeps ==
  ASSUME TypeOK, SafeInv, NEW id \in DOMAIN pending, NEW r \in Response, handleResponse(id, r)
  PROVE  SafeInv'
<1>1. pending[id].generation = generation BY DEF SafeInv, SessionIsolated
<1>2. CASE resetSession BY <1>2, ResetKeeps
<1>3. CASE Answer(id, r) BY <1>3, AnswerKeeps
<1> QED BY <1>1, <1>2, <1>3 DEF handleResponse

LEMMA FailureKeeps ==
  ASSUME TypeOK, SafeInv, NEW id \in DOMAIN pending, NEW unknown,
         handleTransportFailure(id, unknown)
  PROVE  SafeInv'
<1> DEFINE op == pending[id].op
<1>1. Failure(id, unknown) BY DEF SafeInv, SessionIsolated, handleTransportFailure
<1>2. CASE op \in ProfileOperation /\ EndProfile(id, unknown)
  BY <1>2, EndProfileRemoves, RemovalKeeps
<1>3. CASE op \in ChargeMutation /\ ChargeFailure(id, unknown)
  <2>1. op \notin ProfileOperation
    BY <1>3 DEF ChargeMutation, ProfileOperation, ProfileMutation
  <2> QED BY <1>3, <2>1, ChargeFailureRemoves, RemovalKeeps
<1>4. CASE op \notin ProfileOperation \cup ChargeMutation /\ Ends(id)
  BY <1>4, EndsRemoves, RemovalKeeps
<1> QED BY <1>1, <1>2, <1>3, <1>4 DEF Failure

\* A new operation of this session: a profile operation only when there is none.
LEMMA NewKeeps ==
  ASSUME TypeOK, SafeInv, NEW op, op # "login", NEW b,
         lastId' = lastId + 1, live' = live \cup {lastId + 1},
         pending' = [i \in DOMAIN pending \cup {lastId + 1} |->
                       IF i = lastId + 1 THEN Entry(op, b) ELSE pending[i]],
         UNCHANGED <<session, epoch, past>>,
         IF op \in ProfileOperation
         THEN profileRequest = 0 /\ profileRequest' = lastId + 1
         ELSE profileRequest' = profileRequest
  PROVE  SafeInv'
<1>1. /\ lastId \in Nat /\ lastId + 1 \notin DOMAIN pending /\ lastId + 1 # 0
      /\ outcomeAt < lastId + 1
  <2>1. lastId \in Nat /\ outcomeAt \in 0..lastId /\ DOMAIN pending \subseteq 1..lastId
    BY DEF TypeOK
  <2> QED BY <2>1
<1>2. /\ DOMAIN pending' = DOMAIN pending \cup {lastId + 1}
      /\ pending'[lastId + 1] = Entry(op, b)
      /\ \A i \in DOMAIN pending : pending'[i] = pending[i]
  BY <1>1
<1>3. /\ Entry(op, b).op = op /\ Entry(op, b).generation = generation
      /\ Entry(op, b).epoch = epoch
  BY DEF Entry
<1>4. \A ops : Held(ops)' = Held(ops) \cup (IF op \in ops THEN {lastId + 1} ELSE {})
  BY <1>2, <1>3 DEF Held
<1>5. UNCHANGED <<generation, user, token, epoch, wanted, outcomeAt>> BY DEF session, past
<1>6. TablesAgree' BY <1>2 DEF SafeInv, TablesAgree
<1>7. OneProfileOperation' BY <1>1, <1>4 DEF SafeInv, OneProfileOperation
<1>8. SessionIsolated' BY <1>2, <1>3, <1>5 DEF SafeInv, SessionIsolated
<1>9. LoginsMatch' BY <1>2, <1>3, <1>5 DEF SafeInv, LoginsMatch
<1>10. ReadsFollowOutcome'
  <2>1. \A i \in Held({"chargeCurrent"}) : pending'[i] = pending[i] BY <1>2 DEF Held
  <2>2. Held({"chargeCurrent"})' \subseteq Held({"chargeCurrent"}) \cup {lastId + 1} BY <1>4
  <2> QED BY <1>1, <1>2, <1>3, <1>5, <2>1, <2>2 DEF SafeInv, ReadsFollowOutcome
<1> QED BY <1>6, <1>7, <1>8, <1>9, <1>10 DEF SafeInv

LEMMA LoginKeeps ==
  ASSUME TypeOK, SafeInv, NEW a \in Account, loginByPhone(a)
  PROVE  SafeInv'
<1>1. lastId \in Nat BY DEF TypeOK
<1>2. DOMAIN pending' = {lastId + 1} /\ pending'[lastId + 1] = LoginEntry(a)
  BY DEF loginByPhone
<1>3. LoginEntry(a).op = "login" /\ LoginEntry(a).mobile = a
      /\ LoginEntry(a).generation = generation + 1
  BY DEF LoginEntry
<1>4. live' = {lastId + 1} BY DEF loginByPhone, SafeInv, TablesAgree
<1>5. user' = NoUser /\ generation' = generation + 1 /\ profileRequest' = 0 /\ wanted' = a
  BY DEF loginByPhone, ClearSession
<1>6. Held(ProfileOperation)' = {} /\ Held({"chargeCurrent"})' = {}
  BY <1>2, <1>3 DEF Held, ProfileOperation, ProfileMutation
<1>7. TablesAgree' BY <1>2, <1>4 DEF TablesAgree
<1>8. OneProfileOperation' BY <1>5, <1>6 DEF OneProfileOperation
<1>9. SessionIsolated' BY <1>2, <1>3, <1>5 DEF SessionIsolated
<1>10. LoginsMatch' BY <1>2, <1>3, <1>5 DEF LoginsMatch
<1>11. ReadsFollowOutcome' BY <1>6 DEF ReadsFollowOutcome
<1> QED BY <1>7, <1>8, <1>9, <1>10, <1>11 DEF SafeInv

\* A step that leaves the tables and the session alone.
LEMMA StutterKeeps ==
  ASSUME SafeInv,
         UNCHANGED <<pending, live, session, profileRequest, epoch, past>>
  PROVE  SafeInv'
BY DEF SafeInv, TablesAgree, OneProfileOperation, SessionIsolated, LoginsMatch,
       ReadsFollowOutcome, Held, session, past

-----------------------------------------------------------------------------
(* The invariant is inductive. *)

ApiInv == TypeOK /\ SafeInv

LEMMA InitInv == Init => ApiInv
<1> SUFFICES ASSUME Init PROVE ApiInv
  OBVIOUS
<1>1. DOMAIN pending = {} /\ live = {} /\ unsent = {} /\ lastId = 0 BY DEF Init
<1>2. upstream \in Seq(Message) /\ downstream \in Seq(Response) BY DEF Init
<1>3. TypeOK
  <2>1. uncertain \in BOOLEAN /\ linkUp \in BOOLEAN /\ settleLost \in BOOLEAN BY DEF Init
  <2>2. ledger \in [Account -> [nickname : Nat, balance : Nat]] BY DEF Init
  <2>3. profileRequest \in 0..lastId /\ outcomeAt \in 0..lastId BY DEF Init
  <2> QED BY <1>1, <1>2, <2>1, <2>2, <2>3 DEF Init, TypeOK
<1>4. \A ops : Held(ops) = {} BY <1>1 DEF Held
<1>5. SafeInv
  BY <1>1, <1>4 DEF Init, SafeInv, TablesAgree, OneProfileOperation, SessionIsolated,
     LoginsMatch, ReadsFollowOutcome
<1> QED BY <1>3, <1>5 DEF ApiInv

LEMMA PagesStep ==
  ASSUME ApiInv, Pages
  PROVE  ApiInv'
<1> USE DEF ApiInv
<1>1. CASE \E a \in Account : loginByPhone(a) BY <1>1, LoginTypes, LoginKeeps
<1>2. CASE loginInvalid
  <2>1. lastId \in Nat /\ UNCHANGED <<lastId, linkUp, wires, ledger, outcomeAt>> /\ wanted' = None
    BY <1>2 DEF loginInvalid, TypeOK
  <2>2. OutcomeTypes' BY <1>2, <2>1, ResetTypes DEF loginInvalid
  <2>3. TypeOK' BY <2>1, <2>2, OutcomeStepTypes DEF TypeOK, wires
  <2> QED BY <1>2, <2>3, ResetKeeps DEF loginInvalid
<1>3. CASE loadProfile
  <2>1. /\ Send("profileGet", token, uncertain) /\ profileRequest = 0
        /\ profileRequest' = lastId + 1
        /\ UNCHANGED <<session, uncertain, revision, epoch, linkUp, downstream, ledger, past>>
    BY <1>3 DEF loadProfile
  <2>2. token \in Account /\ uncertain \in BOOLEAN /\ "profileGet" \in Operation
    BY <1>3 DEF loadProfile, LoggedIn, TypeOK, Operation, ProfileOperation
  <2>3. TypeOK' BY <2>1, <2>2, RequestTypes
  <2>4. SafeInv' BY <2>1, NewKeeps DEF Send, ProfileOperation
  <2> QED BY <2>3, <2>4
<1>4. ASSUME NEW op \in ProfileMutation, changeProfile(op) PROVE ApiInv'
  <2>1. /\ Send(op, token, FALSE) /\ profileRequest = 0 /\ profileRequest' = lastId + 1
        /\ UNCHANGED <<session, uncertain, revision, epoch, linkUp, downstream, ledger, past>>
    BY <1>4 DEF changeProfile
  <2>2. token \in Account BY <1>4 DEF changeProfile, LoggedIn, TypeOK
  <2>3. op \in Operation /\ op \in ProfileOperation /\ op # "login"
    BY <1>4 DEF Operation, ProfileOperation, ProfileMutation
  <2>4. TypeOK' BY <2>1, <2>2, <2>3, RequestTypes
  <2>5. SafeInv' BY <2>1, <2>3, NewKeeps DEF Send
  <2> QED BY <2>4, <2>5
<1>5. ASSUME NEW op \in ChargeMutation \cup {"chargeCurrent", "read"}, request(op) PROVE ApiInv'
  <2>1. /\ Send(op, token, FALSE)
        /\ UNCHANGED <<session, profile, epoch, linkUp, downstream, ledger, past>>
    BY <1>5 DEF request
  <2>2. token \in Account BY <1>5 DEF request, LoggedIn, TypeOK
  <2>3. op \in Operation /\ op \notin ProfileOperation /\ op # "login"
    BY <1>5 DEF Operation, ChargeMutation, SafeRead, ProfileOperation, ProfileMutation
  <2>4. UNCHANGED <<profileRequest, uncertain, revision>> BY <2>1 DEF profile
  <2>5. TypeOK' BY <2>1, <2>2, <2>3, <2>4, RequestTypes
  <2>6. SafeInv' BY <2>1, <2>3, <2>4, NewKeeps DEF Send
  <2> QED BY <2>5, <2>6
<1>6. CASE loadSystemHealth
  <2>1. PICK a \in Account : Send("health", a, FALSE) BY <1>6 DEF loadSystemHealth
  <2>2. UNCHANGED <<session, profile, epoch, linkUp, downstream, ledger, past>>
    BY <1>6 DEF loadSystemHealth
  <2>3. "health" \in Operation /\ "health" \notin ProfileOperation
    BY DEF Operation, SafeRead, ProfileOperation, ProfileMutation
  <2>4. UNCHANGED <<profileRequest, uncertain, revision>> BY <2>2 DEF profile
  <2>5. TypeOK' BY <2>1, <2>2, <2>3, <2>4, RequestTypes
  <2>6. SafeInv' BY <2>1, <2>2, <2>3, <2>4, NewKeeps DEF Send
  <2> QED BY <2>5, <2>6
<1>7. CASE invalidateChargeReads
  <2>1. /\ InvalidateWith({})
        /\ UNCHANGED <<session, profile, linkUp, wires, lastId, ledger, past>>
    BY <1>7 DEF invalidateChargeReads
  <2>2. TableTypes' /\ epoch' \in Nat BY <2>1, InvalidateTypes
  <2>3. TypeOK' BY <2>1, <2>2 DEF TypeOK, TableTypes, session, profile, wires, past
  <2>4. Held({"chargeCurrent"}) \cap Held(ProfileOperation) = {}
    BY DEF Held, ProfileOperation, ProfileMutation
  <2>5. Removal(Held({"chargeCurrent"}))
    BY <2>1, <2>4 DEF Removal, InvalidateWith, session, profile, past, SafeInv, SessionIsolated
  <2> QED BY <2>3, <2>5, RemovalKeeps
<1>8. ASSUME NEW id \in 1..lastId, cancelSafeRead(id) PROVE ApiInv'
  <2>1. /\ pending' = Without({id}) /\ live' = live \ {id} /\ unsent' = unsent \ {id}
        /\ UNCHANGED <<session, profile, epoch, linkUp, wires, lastId, ledger, past>>
    BY <1>8 DEF cancelSafeRead
  <2>2. TableTypes' BY <2>1, RemoveTypes
  <2>3. TypeOK' BY <2>1, <2>2 DEF TypeOK, TableTypes, session, profile, wires, past
  <2>4. {id} \cap Held(ProfileOperation) = {}
    BY <1>8 DEF cancelSafeRead, Held, SafeRead, ProfileOperation, ProfileMutation
  <2>5. Removal({id})
    BY <2>1, <2>4 DEF Removal, session, profile, past, SafeInv, SessionIsolated
  <2> QED BY <2>3, <2>5, RemovalKeeps
<1> QED BY <1>1, <1>2, <1>3, <1>4, <1>5, <1>6, <1>7, <1>8 DEF Pages

LEMMA TransportStep ==
  ASSUME ApiInv, Transport
  PROVE  ApiInv'
<1> USE DEF ApiInv
<1>1. CASE Receive
  <2> DEFINE r == Head(downstream)
  <2>1. r \in Response /\ downstream' \in Seq(Response) BY <1>1 DEF Receive, TypeOK
  <2>2. UNCHANGED <<linkUp, upstream, lastId, ledger>> BY <1>1 DEF Receive
  <2>3. CASE r.id \in live /\ r.id \in DOMAIN pending
    <3>1. handleResponse(r.id, r) BY <1>1, <2>3 DEF Receive
    <3>2. OutcomeTypes' BY <2>1, <2>2, <2>3, <3>1, ResponseTypes
    <3>3. TypeOK' BY <2>1, <2>2, <3>2, OutcomeStepTypes DEF TypeOK
    <3> QED BY <2>1, <2>3, <3>1, <3>3, ResponseKeeps
  <2>4. CASE ~(r.id \in live /\ r.id \in DOMAIN pending)
    <3>1. UNCHANGED <<pending, live, unsent, session, profile, epoch, past>>
      BY <1>1, <2>4 DEF Receive
    <3>2. TypeOK' BY <2>1, <2>2, <3>1 DEF TypeOK, session, profile, past
    <3> QED BY <3>1, <3>2, StutterKeeps DEF profile
  <2> QED BY <2>3, <2>4
<1>2. ASSUME NEW id \in 1..lastId, Fail(id) PROVE ApiInv'
  <2>1. id \in DOMAIN pending /\ handleTransportFailure(id, id \notin unsent)
        /\ UNCHANGED <<linkUp, wires, lastId, ledger>>
    BY <1>2 DEF Fail
  <2>2. OutcomeTypes' BY <2>1, FailureTypes
  <2>3. TypeOK' BY <2>1, <2>2, OutcomeStepTypes DEF TypeOK, wires
  <2> QED BY <2>1, <2>3, FailureKeeps
<1>3. CASE Disconnect
  <2>1. UNCHANGED <<pending, session, profile, epoch, live, unsent, lastId, ledger, past>>
    BY <1>3 DEF Disconnect
  <2>2. linkUp' = FALSE /\ upstream' = <<>> /\ downstream' = <<>> BY <1>3 DEF Disconnect
  <2>3. linkUp' \in BOOLEAN BY <2>2
  <2>4. upstream' \in Seq(Message) /\ downstream' \in Seq(Response) BY <2>2
  <2>5. TypeOK' BY <2>1, <2>3, <2>4 DEF TypeOK, session, profile, past
  <2> QED BY <2>1, <2>5, StutterKeeps DEF profile
<1>4. CASE Connect
  <2>1. TypeOK' BY <1>4, ConnectTypes
  <2>2. UNCHANGED <<session, epoch, past>> BY <1>4 DEF Connect
  <2>3. CASE Reconciles
    <3>1. /\ lastId' = lastId + 1 /\ live' = live \cup {lastId + 1}
          /\ pending' = [i \in DOMAIN pending \cup {lastId + 1} |->
                           IF i = lastId + 1 THEN Entry("profileGet", TRUE) ELSE pending[i]]
          /\ profileRequest = 0 /\ profileRequest' = lastId + 1
      BY <1>4, <2>3 DEF Connect, Reconciles
    <3>2. SafeInv' BY <2>2, <3>1, NewKeeps DEF ProfileOperation
    <3> QED BY <2>1, <3>2
  <2>4. CASE ~Reconciles
    <3>1. UNCHANGED <<live, pending, profileRequest>> BY <1>4, <2>4 DEF Connect
    <3> QED BY <2>1, <2>2, <3>1, StutterKeeps
  <2> QED BY <2>3, <2>4
<1> QED BY <1>1, <1>2, <1>3, <1>4 DEF Transport

LEMMA NextInv == ApiInv /\ [Next]_vars => ApiInv'
<1> SUFFICES ASSUME ApiInv, [Next]_vars PROVE ApiInv'
  OBVIOUS
<1>1. CASE Pages BY <1>1, PagesStep
<1>2. CASE Transport BY <1>2, TransportStep
<1>3. CASE Serve
  <2>1. TypeOK' BY <1>3, ServeTypes DEF ApiInv
  <2>2. UNCHANGED <<pending, live, session, profileRequest, epoch, past>>
    BY <1>3 DEF Serve, profile
  <2> QED BY <2>1, <2>2, StutterKeeps DEF ApiInv
<1>4. CASE UNCHANGED vars
  <2>1. TypeOK' BY <1>4 DEF ApiInv, TypeOK, vars, session, profile, wires, past
  <2>2. UNCHANGED <<pending, live, session, profileRequest, epoch, past>>
    BY <1>4 DEF vars, profile
  <2> QED BY <2>1, <2>2, StutterKeeps DEF ApiInv
<1> QED BY <1>1, <1>2, <1>3, <1>4 DEF Next

LEMMA Invariance == Spec => []ApiInv
BY InitInv, NextInv, PTL DEF Spec

-----------------------------------------------------------------------------

\* Every variable keeps its type.
THEOREM TypeCorrect == Spec => []TypeOK
<1>1. ApiInv => TypeOK BY DEF ApiInv
<1> QED BY <1>1, Invariance, PTL

\* pendingOperations_ and the requests that the client holds stay the same set,
\* through resets, cancellations, replays and outcomes.
THEOREM TablesNeverDiffer == Spec => []TablesAgree
<1>1. ApiInv => TablesAgree BY DEF ApiInv, SafeInv
<1> QED BY <1>1, Invariance, PTL

\* profileRequestId_ names the one profile operation of the table, or is empty
\* and there is none.
THEOREM ProfileOperationIsTheOne == Spec => []OneProfileOperation
<1>1. ApiInv => OneProfileOperation BY DEF ApiInv, SafeInv
<1> QED BY <1>1, Invariance, PTL

\* No operation of an earlier session is left to change the account on show,
\* which is that of the last login attempt.
THEOREM SessionsIsolated == Spec => []SessionIsolated
<1>1. ApiInv => SessionIsolated BY DEF ApiInv, SafeInv
<1> QED BY <1>1, Invariance, PTL

\* No read of the current order that was sent before the last outcome of a
\* charge mutation can still be delivered.
THEOREM ReadsAreFresh == Spec => []ReadsFollowOutcome
<1>1. ApiInv => ReadsFollowOutcome BY DEF ApiInv, SafeInv
<1> QED BY <1>1, Invariance, PTL

-----------------------------------------------------------------------------
(* The account on show is the server's (ShownIsCurrent).  The requests that *)
(* matter for it go over the connection in the order of their ids, so that *)
(* the invariants below speak of the sets of requests and answers on the   *)
(* connection and compare ids instead of places.                           *)

\* Requests that change an account.
Moves == ProfileMutation \cup {"chargeSettle"}
\* Requests that are never overtaken by one with a smaller id.
InTurn == Moves \cup {"profileGet", "login"}

In(s) == {s[k] : k \in DOMAIN s}
Requests == In(upstream)
Answers == In(downstream)

RequestsSorted(s) ==
  \A k, l \in DOMAIN s : k < l =>
    /\ s[k].id # s[l].id
    /\ s[k].op \in InTurn /\ s[l].op \in InTurn => s[k].id < s[l].id
AnswersSorted(s, ids) ==
  \A k, l \in DOMAIN s : k < l /\ s[k].id \in ids /\ s[l].id \in ids => s[k].id <= s[l].id

Settles == Held({"chargeSettle"})

\* What arrived at the server and was not refused; no outcome denies it.
Executed == {"ok", "malformed"}
Unasked(id) == \A m \in Requests : m.id # id
Exec(id) ==
  /\ id \notin unsent /\ Unasked(id)
  /\ \A r \in Answers : r.id = id => r.result \in Executed
ProfileExec(op) == profileRequest # 0 /\ pending[profileRequest].op = op /\ Exec(profileRequest)

-----------------------------------------------------------------------------
(* The inductive invariant. *)

WireInv ==
  /\ \A m \in Requests :
       /\ m.id \in 1..lastId /\ m.id \notin unsent
       /\ m.id \in DOMAIN pending => pending[m.id].op = m.op
  /\ \A r \in Answers : r.id \in 1..lastId /\ r.id \notin unsent
  /\ \A m \in Requests, r \in Answers :
       /\ m.id # r.id
       /\ m.op \in InTurn /\ r.id \in Held(InTurn) => r.id < m.id
  /\ RequestsSorted(upstream) /\ AnswersSorted(downstream, Held(InTurn))
  /\ ~linkUp => upstream = <<>> /\ downstream = <<>>

\* The answer of a login follows everything that earlier sessions asked for.
LoginInv ==
  \A q \in Held({"login"}) :
    /\ user = NoUser /\ Held({"login"}) = {q}
    /\ Held(ProfileOperation) = {} /\ Settles = {}
    /\ \A m \in Requests : m.op \in Moves => m.id < q
    /\ \A r \in Answers : r.id = q =>
         /\ r.user.nickname = ledger[r.user.account].nickname
         /\ r.user.balance = ledger[r.user.account].balance

\* What still moves the account: the profile operation, or one that ended in
\* doubt before it; and settlements that are held or ended in doubt.
OwnInv ==
  LoggedIn => \A m \in Requests : m.account = token =>
    /\ m.op \in ProfileMutation =>
         /\ m.id = profileRequest \/ (uncertain /\ (profileRequest # 0 => m.id < profileRequest))
         /\ \A s \in Settles \ unsent : m.id < s
    /\ m.op = "chargeSettle" => m.id \in Settles \/ settleLost

\* No settlement is answered before a profile operation under way, so none
\* takes the profile operation's revision away.
TurnInv ==
  /\ \A s \in Settles \ unsent : profileRequest < s
  /\ profileRequest # 0 /\ pending[profileRequest].op \in ProfileMutation =>
       /\ ~pending[profileRequest].reconciliation
       /\ \A m \in Requests : m.id = profileRequest => pending[profileRequest].revision = revision
       /\ \A r \in Answers : r.id = profileRequest => pending[profileRequest].revision = revision

\* What the answers under way would show is current, but for settlements that
\* will be answered later.
AnswerInv ==
  LoggedIn => \A r \in Answers : r.user.account = token =>
    /\ r.id = profileRequest => r.user.nickname = ledger[token].nickname
    /\ ~settleLost /\ r.id \in Settles \cup {profileRequest} =>
         \/ r.user.balance = ledger[token].balance
         \/ \E s \in Settles : r.id < s /\ Exec(s)

\* What is shown is current, but for operations that the server did and whose
\* outcome will say so or be in doubt.
ShownInv ==
  LoggedIn /\ ~uncertain =>
    /\ \/ user.nickname = ledger[token].nickname
       \/ ProfileExec("profileUpdate")
    /\ \/ settleLost
       \/ user.balance = ledger[token].balance
       \/ ProfileExec("profileRecharge")
       \/ \E s \in Settles : Exec(s)

AccountInv == WireInv /\ LoginInv /\ OwnInv /\ TurnInv /\ AnswerInv /\ ShownInv

-----------------------------------------------------------------------------
(* Sequences of requests and of answers. *)

LEMMA InTypes == ASSUME NEW S, NEW s \in Seq(S) PROVE In(s) \subseteq S
BY DEF In

LEMMA WireTypes ==
  ASSUME TypeOK
  PROVE  /\ Requests \subseteq Message /\ Answers \subseteq Response
         /\ \A m \in Requests : m.id \in Nat /\ m.account \in Account
         /\ \A r \in Answers : r.id \in Nat /\ r.user \in Profile
<1>1. Requests \subseteq Message
  <2>1. upstream \in Seq(Message) BY DEF TypeOK
  <2> HIDE DEF Message
  <2> QED BY <2>1, InTypes DEF Requests
<1>2. Answers \subseteq Response
  <2>1. downstream \in Seq(Response) BY DEF TypeOK
  <2> HIDE DEF Response
  <2> QED BY <2>1, InTypes DEF Answers
<1>3. \A m \in Message : m.id \in Nat /\ m.account \in Account BY DEF Message
<1>4. \A r \in Response : r.id \in Nat /\ r.user \in Profile BY DEF Response
<1> QED BY <1>1, <1>2, <1>3, <1>4

LEMMA AppendIn ==
  ASSUME NEW S, NEW s \in Seq(S), NEW m \in S
  PROVE  In(Append(s, m)) = In(s) \cup {m}
<1>1. /\ Len(s) \in Nat /\ DOMAIN s = 1..Len(s) /\ DOMAIN Append(s, m) = 1..(Len(s) + 1)
      /\ \A k \in 1..Len(s) : Append(s, m)[k] = s[k]
      /\ Append(s, m)[Len(s) + 1] = m
  OBVIOUS
<1>2. ASSUME NEW x \in In(Append(s, m)) PROVE x \in In(s) \cup {m}
  <2>1. PICK k \in DOMAIN Append(s, m) : x = Append(s, m)[k] BY DEF In
  <2> QED BY <1>1, <2>1 DEF In
<1>3. ASSUME NEW x \in In(s) PROVE x \in In(Append(s, m))
  <2>1. PICK k \in DOMAIN s : x = s[k] BY DEF In
  <2>2. k \in DOMAIN Append(s, m) /\ x = Append(s, m)[k] BY <1>1, <2>1
  <2> QED BY <2>2 DEF In
<1>4. m \in In(Append(s, m)) BY <1>1 DEF In
<1> QED BY <1>2, <1>3, <1>4

\* The first element of a sequence, and the others.
LEMMA TailIn ==
  ASSUME NEW S, NEW s \in Seq(S), s # <<>>
  PROVE  /\ Head(s) \in In(s) /\ Tail(s) \in Seq(S)
         /\ In(Tail(s)) \subseteq In(s)
         /\ \A x \in In(s) : x = Head(s) \/ x \in In(Tail(s))
         /\ \A k \in DOMAIN Tail(s) : k \in Int /\ 1 < k + 1 /\ k + 1 \in DOMAIN s /\ Tail(s)[k] = s[k + 1]
         /\ Head(s) = s[1] /\ 1 \in DOMAIN s
<1>1. /\ Head(s) = s[1] /\ 1 \in DOMAIN s /\ Tail(s) \in Seq(S)
      /\ \A k \in DOMAIN Tail(s) : k \in Int /\ 1 < k + 1 /\ k + 1 \in DOMAIN s /\ Tail(s)[k] = s[k + 1]
      /\ \A k \in DOMAIN s : k # 1 => k - 1 \in DOMAIN Tail(s) /\ Tail(s)[k - 1] = s[k]
  OBVIOUS
<1>2. In(Tail(s)) \subseteq In(s) BY <1>1 DEF In
<1>3. ASSUME NEW x \in In(s) PROVE x = Head(s) \/ x \in In(Tail(s))
  <2>1. PICK k \in DOMAIN s : x = s[k] BY DEF In
  <2> QED BY <1>1, <2>1 DEF In
<1>4. Head(s) \in In(s) BY <1>1 DEF In
<1> QED BY <1>1, <1>2, <1>3, <1>4

LEMMA AppendRequest ==
  ASSUME NEW s \in Seq(Message), NEW m \in Message, RequestsSorted(s),
         \A x \in In(s) : x.id < m.id
  PROVE  RequestsSorted(Append(s, m))
<1> DEFINE t == Append(s, m)
<1> SUFFICES ASSUME NEW k \in DOMAIN t, NEW l \in DOMAIN t, k < l
             PROVE  /\ t[k].id # t[l].id
                    /\ t[k].op \in InTurn /\ t[l].op \in InTurn => t[k].id < t[l].id
  BY DEF RequestsSorted
<1>1. /\ Len(s) \in Nat /\ DOMAIN s = 1..Len(s) /\ DOMAIN t = 1..(Len(s) + 1)
      /\ \A i \in 1..Len(s) : t[i] = s[i]
      /\ t[Len(s) + 1] = m
  <2> HIDE DEF Message
  <2> QED OBVIOUS
<1>2. \A x \in In(s) : x.id \in Nat /\ m.id \in Nat
  <2>1. In(s) \subseteq Message BY InTypes
  <2> QED BY <2>1 DEF Message
<1> HIDE DEF t, Message
<1>3. CASE l <= Len(s)
  <2>1. k \in DOMAIN s /\ l \in DOMAIN s /\ t[k] = s[k] /\ t[l] = s[l] BY <1>1, <1>3
  <2> QED BY <2>1 DEF RequestsSorted
<1>4. CASE l = Len(s) + 1
  <2>1. k \in DOMAIN s /\ t[k] = s[k] /\ t[l] = m BY <1>1, <1>4
  <2>2. s[k] \in In(s) BY <2>1 DEF In
  <2> QED BY <2>1, <2>2, <1>2
<1> QED BY <1>1, <1>3, <1>4

LEMMA TailRequests ==
  ASSUME NEW s \in Seq(Message), s # <<>>, RequestsSorted(s)
  PROVE  /\ RequestsSorted(Tail(s))
         /\ \A x \in In(Tail(s)) :
              /\ x.id # Head(s).id
              /\ Head(s).op \in InTurn /\ x.op \in InTurn => Head(s).id < x.id
<1> HIDE DEF Message
<1>1. /\ \A k \in DOMAIN Tail(s) : k \in Int /\ 1 < k + 1 /\ k + 1 \in DOMAIN s /\ Tail(s)[k] = s[k + 1]
      /\ Head(s) = s[1] /\ 1 \in DOMAIN s
  BY TailIn
<1>2. RequestsSorted(Tail(s))
  <2> SUFFICES ASSUME NEW k \in DOMAIN Tail(s), NEW l \in DOMAIN Tail(s), k < l
               PROVE  /\ Tail(s)[k].id # Tail(s)[l].id
                      /\ Tail(s)[k].op \in InTurn /\ Tail(s)[l].op \in InTurn =>
                           Tail(s)[k].id < Tail(s)[l].id
    BY DEF RequestsSorted
  <2>1. k + 1 \in DOMAIN s /\ l + 1 \in DOMAIN s /\ k + 1 < l + 1 BY <1>1
  <2>2. Tail(s)[k] = s[k + 1] /\ Tail(s)[l] = s[l + 1] BY <1>1
  <2> QED BY <2>1, <2>2 DEF RequestsSorted
<1>3. ASSUME NEW x \in In(Tail(s))
      PROVE  /\ x.id # Head(s).id
             /\ Head(s).op \in InTurn /\ x.op \in InTurn => Head(s).id < x.id
  <2>1. PICK k \in DOMAIN Tail(s) : x = Tail(s)[k] BY DEF In
  <2> QED BY <1>1, <2>1 DEF RequestsSorted
<1> QED BY <1>2, <1>3

LEMMA AppendAnswer ==
  ASSUME NEW s \in Seq(Response), NEW r \in Response, NEW ids, AnswersSorted(s, ids),
         \A x \in In(s) : x.id \in ids /\ r.id \in ids => x.id <= r.id
  PROVE  AnswersSorted(Append(s, r), ids)
<1> DEFINE t == Append(s, r)
<1> SUFFICES ASSUME NEW k \in DOMAIN t, NEW l \in DOMAIN t, k < l, t[k].id \in ids, t[l].id \in ids
             PROVE  t[k].id <= t[l].id
  BY DEF AnswersSorted
<1>1. /\ Len(s) \in Nat /\ DOMAIN s = 1..Len(s) /\ DOMAIN t = 1..(Len(s) + 1)
      /\ \A i \in 1..Len(s) : t[i] = s[i]
      /\ t[Len(s) + 1] = r
  <2> HIDE DEF Response
  <2> QED OBVIOUS
<1> HIDE DEF t, Response
<1>2. CASE l <= Len(s)
  <2>1. k \in DOMAIN s /\ l \in DOMAIN s /\ t[k] = s[k] /\ t[l] = s[l] BY <1>1, <1>2
  <2> QED BY <2>1 DEF AnswersSorted
<1>3. CASE l = Len(s) + 1
  <2>1. k \in DOMAIN s /\ t[k] = s[k] /\ t[l] = r BY <1>1, <1>3
  <2>2. s[k] \in In(s) BY <2>1 DEF In
  <2> QED BY <2>1, <2>2
<1> QED BY <1>1, <1>2, <1>3

LEMMA TailAnswers ==
  ASSUME NEW s \in Seq(Response), s # <<>>, NEW ids, AnswersSorted(s, ids)
  PROVE  /\ AnswersSorted(Tail(s), ids)
         /\ \A x \in In(Tail(s)) : Head(s).id \in ids /\ x.id \in ids => Head(s).id <= x.id
<1> HIDE DEF Response
<1>1. /\ \A k \in DOMAIN Tail(s) : k \in Int /\ 1 < k + 1 /\ k + 1 \in DOMAIN s /\ Tail(s)[k] = s[k + 1]
      /\ Head(s) = s[1] /\ 1 \in DOMAIN s
  BY TailIn
<1>2. AnswersSorted(Tail(s), ids) BY <1>1 DEF AnswersSorted
<1>3. ASSUME NEW x \in In(Tail(s)), Head(s).id \in ids, x.id \in ids PROVE Head(s).id <= x.id
  <2>1. PICK k \in DOMAIN Tail(s) : x = Tail(s)[k] BY DEF In
  <2> QED BY <1>1, <1>3, <2>1 DEF AnswersSorted
<1> QED BY <1>2, <1>3

\* New ids are not those of answers.
LEMMA SameAnswers ==
  ASSUME NEW s, NEW ids, NEW others, AnswersSorted(s, ids),
         \A x \in In(s) : x.id \in others => x.id \in ids
  PROVE  AnswersSorted(s, others)
BY DEF AnswersSorted, In

-----------------------------------------------------------------------------
(* The tables. *)

LEMMA TableFacts ==
  ASSUME TypeOK, SafeInv
  PROVE  /\ lastId \in Nat
         /\ \A id \in DOMAIN pending : id \in Nat /\ 1 <= id /\ id <= lastId
         /\ profileRequest \in Nat /\ profileRequest <= lastId
         /\ profileRequest # 0 =>
              profileRequest \in DOMAIN pending /\ pending[profileRequest].op \in ProfileOperation
         /\ \A id \in DOMAIN pending : pending[id].op \in ProfileOperation => id = profileRequest
         /\ DOMAIN pending = live
<1>1. lastId \in Nat /\ DOMAIN pending \subseteq 1..lastId /\ profileRequest \in 0..lastId
  BY DEF TypeOK
<1>2. profileRequest # 0 =>
        profileRequest \in DOMAIN pending /\ pending[profileRequest].op \in ProfileOperation
  BY DEF SafeInv, OneProfileOperation, Held
<1>3. \A id \in DOMAIN pending : pending[id].op \in ProfileOperation => id = profileRequest
  BY DEF SafeInv, OneProfileOperation, Held
<1> QED BY <1>1, <1>2, <1>3 DEF SafeInv, TablesAgree

LEMMA OpFacts ==
  /\ ProfileMutation \subseteq ProfileOperation /\ ProfileMutation \subseteq Moves
  /\ Moves \subseteq InTurn /\ ProfileOperation \subseteq InTurn
  /\ "chargeSettle" \in Moves /\ "chargeSettle" \notin ProfileOperation
  /\ "login" \in InTurn /\ "login" \notin Moves /\ "login" \notin ProfileOperation
  /\ "profileGet" \notin ProfileMutation /\ "profileGet" \in ProfileOperation
  /\ "profileUpdate" \in ProfileMutation /\ "profileRecharge" \in ProfileMutation
  /\ \A op \in ProfileOperation : op = "profileGet" \/ op \in ProfileMutation
  /\ Moves = ProfileMutation \cup {"chargeSettle"}
BY DEF Moves, InTurn, ProfileOperation, ProfileMutation

\* A request gets the next id, and goes on the connection or is never written.
LEMMA AddWire ==
  ASSUME TypeOK, SafeInv, WireInv, NEW m \in Message, m.id = lastId + 1,
         lastId' = lastId + 1, UNCHANGED <<linkUp, downstream>>,
         m.id \in DOMAIN pending', pending'[m.id].op = m.op,
         \A i \in DOMAIN pending' : i # m.id => i \in DOMAIN pending /\ pending'[i] = pending[i],
         \/ linkUp /\ upstream' = Append(upstream, m) /\ unsent' \subseteq unsent
         \/ ~linkUp /\ upstream' = upstream /\ unsent' \subseteq unsent \cup {m.id}
  PROVE  /\ WireInv'
         /\ Answers' = Answers /\ Requests \subseteq Requests'
         /\ \A x \in Requests' : x \in Requests \/ x = m
         /\ ~linkUp => Requests' = Requests
         /\ \A x \in Requests : x.id \in 1..lastId /\ x.id < m.id /\ x.id # 0
         /\ \A r \in Answers : r.id \in 1..lastId /\ r.id < m.id /\ r.id # 0
<1>1. /\ lastId \in Nat /\ m.id \in Nat /\ m.id # 0 /\ m.id \in 1..m.id
      /\ \A i \in 1..lastId : i < m.id /\ i \in 1..m.id /\ i # 0 /\ i # m.id
      /\ m.id \notin DOMAIN pending /\ m.id \notin unsent
  <2>1. unsent \subseteq 1..lastId /\ DOMAIN pending \subseteq 1..lastId /\ lastId \in Nat
    BY DEF TypeOK
  <2> QED BY <2>1
<1>2. /\ Answers' = Answers
      /\ linkUp => Requests' = Requests \cup {m}
      /\ ~linkUp => Requests' = Requests
  <2>1. upstream \in Seq(Message) BY DEF TypeOK
  <2> HIDE DEF Message
  <2>2. In(Append(upstream, m)) = In(upstream) \cup {m} BY <2>1, AppendIn
  <2> QED BY <2>2 DEF Requests, Answers, In
<1>3. /\ \A x \in Requests : x.id \in 1..lastId /\ x.id < m.id /\ x.id # 0
      /\ \A r \in Answers : r.id \in 1..lastId /\ r.id < m.id /\ r.id # 0
  BY <1>1 DEF WireInv
<1>4. \A ops : \A r \in Answers : r.id \in Held(ops)' => r.id \in Held(ops)
  BY <1>1, <1>3 DEF Held
<1>5. \A x \in Requests' :
        /\ x.id \in 1..lastId' /\ x.id \notin unsent'
        /\ x.id \in DOMAIN pending' => pending'[x.id].op = x.op
  <2> SUFFICES ASSUME NEW x \in Requests'
               PROVE  /\ x.id \in 1..lastId' /\ x.id \notin unsent'
                      /\ x.id \in DOMAIN pending' => pending'[x.id].op = x.op
    OBVIOUS
  <2>1. CASE x \in Requests
    <3>1. /\ x.id \in 1..lastId /\ x.id \notin unsent /\ x.id # m.id
          /\ x.id \in DOMAIN pending => pending[x.id].op = x.op
      BY <1>1, <1>3, <2>1 DEF WireInv
    <3> QED BY <3>1, <1>1
  <2>2. CASE x = m /\ linkUp BY <1>1, <2>2
  <2> QED BY <1>2, <2>1, <2>2
<1>6. \A r \in Answers' : r.id \in 1..lastId' /\ r.id \notin unsent'
  <2> SUFFICES ASSUME NEW r \in Answers PROVE r.id \in 1..lastId' /\ r.id \notin unsent'
    BY <1>2
  <2>1. r.id \in 1..lastId /\ r.id \notin unsent /\ r.id # m.id BY <1>1, <1>3 DEF WireInv
  <2> QED BY <2>1, <1>1
<1>7. \A x \in Requests', r \in Answers' :
        /\ x.id # r.id
        /\ x.op \in InTurn /\ r.id \in Held(InTurn)' => r.id < x.id
  <2> SUFFICES ASSUME NEW x \in Requests', NEW r \in Answers
               PROVE  /\ x.id # r.id
                      /\ x.op \in InTurn /\ r.id \in Held(InTurn)' => r.id < x.id
    BY <1>2
  <2>1. r.id < m.id /\ r.id # m.id /\ (r.id \in Held(InTurn)' => r.id \in Held(InTurn))
    BY <1>1, <1>3, <1>4
  <2>2. /\ x \in Requests => x.id # r.id
        /\ x \in Requests /\ x.op \in InTurn /\ r.id \in Held(InTurn) => r.id < x.id
    BY DEF WireInv
  <2>3. x \in Requests \/ x = m BY <1>2
  <2> QED BY <2>1, <2>2, <2>3
<1>8. RequestsSorted(upstream')
  <2>1. upstream \in Seq(Message) /\ RequestsSorted(upstream) BY DEF TypeOK, WireInv
  <2>2. \A x \in In(upstream) : x.id < m.id BY <1>3 DEF Requests
  <2> HIDE DEF Message
  <2>3. RequestsSorted(Append(upstream, m)) BY <2>1, <2>2, AppendRequest
  <2>4. upstream' = upstream \/ upstream' = Append(upstream, m) OBVIOUS
  <2>5. CASE upstream' = upstream BY <2>1, <2>5, Zenon
  <2>6. CASE upstream' = Append(upstream, m) BY <2>3, <2>6, Zenon
  <2> QED BY <2>4, <2>5, <2>6
<1>9. AnswersSorted(downstream', Held(InTurn)')
  <2>1. downstream' = downstream /\ AnswersSorted(downstream, Held(InTurn)) BY DEF WireInv
  <2>2. \A r \in In(downstream) : r.id \in Held(InTurn)' => r.id \in Held(InTurn)
    BY <1>4 DEF Answers
  <2>3. AnswersSorted(downstream, Held(InTurn)') BY <2>1, <2>2, SameAnswers
  <2> QED BY <2>1, <2>3
<1>10. ~linkUp' => upstream' = <<>> /\ downstream' = <<>> BY DEF WireInv
<1>11. WireInv' BY <1>5, <1>6, <1>7, <1>8, <1>9, <1>10 DEF WireInv
<1> QED BY <1>2, <1>3, <1>11

\* A new operation of this session, written at once or never.
LEMMA AddKeeps ==
  ASSUME TypeOK, SafeInv, AccountInv, NEW op \in Operation \ {"login"}, NEW a \in Account, NEW b \in BOOLEAN,
         Send(op, a, b),
         op \in Moves => LoggedIn /\ a = token,
         op \in ProfileOperation => LoggedIn,
         op \in ProfileMutation => ~uncertain /\ ~b,
         IF op \in ProfileOperation
         THEN profileRequest = 0 /\ profileRequest' = lastId + 1 /\ Settles = {}
         ELSE profileRequest' = profileRequest,
         UNCHANGED <<session, uncertain, revision, linkUp, downstream, ledger, past>>
  PROVE  AccountInv'
<1> DEFINE id == lastId + 1
           m == [id |-> id, op |-> op, account |-> a]
<1>a. /\ lastId \in Nat /\ id \in Nat /\ id # 0 /\ lastId < id /\ id \notin DOMAIN pending
      /\ \A i \in DOMAIN pending : i \in Nat /\ 1 <= i /\ i < id
      /\ profileRequest \in Nat /\ profileRequest < id
      /\ \A i \in 1..lastId : i < id /\ i \in 1..id /\ i # 0
      /\ id \in 1..id
  BY TableFacts
<1>b. /\ lastId' = id /\ Answers' = Answers /\ Answers \subseteq Response
      /\ UNCHANGED <<user, token, uncertain, revision, linkUp, ledger, settleLost>>
      /\ LoggedIn' = LoggedIn
  BY WireTypes DEF Send, session, past, Answers, LoggedIn
<1>c. m \in Message BY <1>a DEF Message
<1>e. /\ DOMAIN pending' = DOMAIN pending \cup {id}
      /\ pending'[id] = Entry(op, b)
      /\ \A i \in DOMAIN pending : pending'[i] = pending[i]
  BY <1>a DEF Send
<1>f. Entry(op, b).op = op /\ Entry(op, b).revision = revision /\ Entry(op, b).reconciliation = b
  BY DEF Entry
<1>g. \A ops : Held(ops)' = Held(ops) \cup (IF op \in ops THEN {id} ELSE {})
  BY <1>a, <1>e, <1>f DEF Held
<1>h. m.id = id /\ m.op = op /\ m.account = a OBVIOUS
<1> HIDE DEF m, id
<1>d. \/ linkUp /\ upstream' = Append(upstream, m) /\ unsent' = unsent
      \/ ~linkUp /\ upstream' = upstream /\ unsent' = unsent \cup {id}
  BY DEF Send, m, id
<1>i. /\ \A x \in Requests' : x \in Requests \/ x = m
      /\ \A x \in Requests : x.id \in 1..lastId /\ x.id < id /\ x.id # 0
      /\ \A r \in Answers : r.id \in 1..lastId /\ r.id < id /\ r.id # 0
      /\ Requests \subseteq Requests' /\ WireInv' /\ (~linkUp => Requests' = Requests)
  <2>1. \A i \in DOMAIN pending' : i # m.id => i \in DOMAIN pending /\ pending'[i] = pending[i]
    BY <1>e, <1>h
  <2>2. m.id \in DOMAIN pending' /\ pending'[m.id].op = m.op BY <1>e, <1>f, <1>h
  <2>3. m.id = lastId + 1 /\ lastId' = lastId + 1 BY <1>b, <1>h DEF id
  <2>4. UNCHANGED <<linkUp, downstream>> OBVIOUS
  <2> HIDE DEF Message
  <2>5. /\ WireInv' /\ Requests \subseteq Requests'
        /\ \A x \in Requests' : x \in Requests \/ x = m
        /\ ~linkUp => Requests' = Requests
        /\ \A x \in Requests : x.id \in 1..lastId /\ x.id < m.id /\ x.id # 0
        /\ \A r \in Answers : r.id \in 1..lastId /\ r.id < m.id /\ r.id # 0
    BY <1>c, <1>d, <1>h, <2>1, <2>2, <2>3, <2>4, AddWire DEF AccountInv
  <2> QED BY <2>5, <1>h
<1>j. /\ Settles' = Settles \cup (IF op = "chargeSettle" THEN {id} ELSE {})
      /\ \A s \in Settles : s \in DOMAIN pending /\ s \in Nat /\ s < id
  BY <1>a, <1>g DEF Settles, Held
<1>k. \A s \in DOMAIN pending : Exec(s) => Exec(s)'
  BY <1>a, <1>b, <1>d, <1>h, <1>i DEF Exec, Unasked
<1>2. LoginInv'
  <2>1. Held({"login"})' = Held({"login"}) BY <1>g
  <2> SUFFICES ASSUME NEW q \in Held({"login"}) PROVE
        /\ user' = NoUser /\ Held({"login"})' = {q}
        /\ Held(ProfileOperation)' = {} /\ Settles' = {}
        /\ \A x \in Requests' : x.op \in Moves => x.id < q
        /\ \A r \in Answers' : r.id = q =>
             /\ r.user.nickname = ledger'[r.user.account].nickname
             /\ r.user.balance = ledger'[r.user.account].balance
    BY <2>1 DEF LoginInv
  <2>2. user = NoUser BY DEF AccountInv, LoginInv
  <2>3. ~LoggedIn BY <2>2 DEF LoggedIn
  <2>4. op \notin Moves /\ op \notin ProfileOperation BY <2>3
  <2>5. op # "chargeSettle" BY <2>4, OpFacts
  <2>6. Held(ProfileOperation)' = Held(ProfileOperation) /\ Settles' = Settles
    BY <1>g, <1>j, <2>4, <2>5
  <2> QED BY <1>b, <1>h, <1>i, <2>1, <2>4, <2>6 DEF AccountInv, LoginInv
<1>3. OwnInv'
  <2> SUFFICES ASSUME LoggedIn, NEW x \in Requests', x.account = token PROVE
        /\ x.op \in ProfileMutation =>
             /\ x.id = profileRequest' \/ (uncertain' /\ (profileRequest' # 0 => x.id < profileRequest'))
             /\ \A s \in Settles' \ unsent' : x.id < s
        /\ x.op = "chargeSettle" => x.id \in Settles' \/ settleLost'
    BY <1>b DEF OwnInv
  <2>1. CASE x \in Requests
    <3>1. /\ x.op \in ProfileMutation =>
               /\ x.id = profileRequest \/ (uncertain /\ (profileRequest # 0 => x.id < profileRequest))
               /\ \A s \in Settles \ unsent : x.id < s
          /\ x.op = "chargeSettle" => x.id \in Settles \/ settleLost
      BY <2>1 DEF AccountInv, OwnInv
    <3>2. x.id < id /\ x.id # 0 BY <2>1, <1>i
    <3>3. x.op \in ProfileMutation =>
            x.id = profileRequest' \/ (uncertain' /\ (profileRequest' # 0 => x.id < profileRequest'))
      BY <3>1, <3>2, <1>b DEF id
    <3>4. x.op \in ProfileMutation => \A s \in Settles' \ unsent' : x.id < s
      <4>1. \A s \in Settles' : s \in Settles \/ s = id BY <1>j
      <4>2. \A s \in Settles : s \notin unsent' => s \notin unsent BY <1>d
      <4> QED BY <3>1, <3>2, <4>1, <4>2
    <3> QED BY <3>1, <3>3, <3>4, <1>b, <1>j
  <2>2. CASE x = m
    <3>1. x.op \in ProfileMutation => op \in ProfileOperation /\ op # "chargeSettle"
      BY <2>2, <1>h, OpFacts
    <3>2. x.op \in ProfileMutation => x.id = profileRequest' /\ Settles' = {}
      BY <2>2, <3>1, <1>h, <1>j DEF id
    <3>3. x.op = "chargeSettle" => x.id \in Settles' BY <2>2, <1>h, <1>j
    <3> QED BY <3>2, <3>3
  <2> QED BY <2>1, <2>2, <1>i
<1>4. TurnInv'
  <2>1. \A s \in Settles' \ unsent' : profileRequest' < s
    <3> SUFFICES ASSUME NEW s \in Settles', s \notin unsent' PROVE profileRequest' < s
      OBVIOUS
    <3>1. CASE op \in ProfileOperation
      BY <1>j, <3>1, OpFacts
    <3>2. CASE op \notin ProfileOperation
      <4>1. profileRequest' = profileRequest BY <3>2
      <4>2. CASE s = id BY <1>a, <4>1, <4>2
      <4>3. CASE s \in Settles
        <5>1. s \notin unsent BY <1>d
        <5> QED BY <4>1, <4>3, <5>1 DEF AccountInv, TurnInv
      <4> QED BY <4>2, <4>3, <1>j
    <3> QED BY <3>1, <3>2
  <2>2. ASSUME profileRequest' # 0, pending'[profileRequest'].op \in ProfileMutation
        PROVE  /\ ~pending'[profileRequest'].reconciliation
               /\ \A x \in Requests' : x.id = profileRequest' => pending'[profileRequest'].revision = revision'
               /\ \A r \in Answers' : r.id = profileRequest' => pending'[profileRequest'].revision = revision'
    <3>1. CASE op \in ProfileOperation
      <4>1. profileRequest' = id BY <3>1 DEF id
      <4>2. pending'[profileRequest'] = Entry(op, b) BY <1>e, <4>1
      <4> QED BY <2>2, <4>2, <1>b, <1>f
    <3>2. CASE op \notin ProfileOperation
      <4>1. profileRequest' = profileRequest /\ profileRequest \in DOMAIN pending
        BY <2>2, <3>2, TableFacts
      <4>2. pending'[profileRequest'] = pending[profileRequest] BY <4>1, <1>e
      <4>3. m.id # profileRequest BY <1>a, <1>h
      <4> QED BY <2>2, <4>1, <4>2, <4>3, <1>b, <1>i DEF AccountInv, TurnInv
    <3> QED BY <3>1, <3>2
  <2> QED BY <2>1, <2>2 DEF TurnInv
<1>5. AnswerInv'
  <2> SUFFICES ASSUME LoggedIn, NEW r \in Answers, r.user.account = token PROVE
        /\ r.id = profileRequest' => r.user.nickname = ledger[token].nickname
        /\ ~settleLost /\ r.id \in Settles' \cup {profileRequest'} =>
             \/ r.user.balance = ledger[token].balance
             \/ \E s \in Settles' : r.id < s /\ Exec(s)'
    BY <1>b DEF AnswerInv
  <2>1. r.id # id BY <1>a, <1>i
  <2>2. (r.id = profileRequest' => r.id = profileRequest) /\ (r.id \in Settles' => r.id \in Settles)
    BY <2>1, <1>j DEF id
  <2>3. /\ r.id = profileRequest => r.user.nickname = ledger[token].nickname
        /\ ~settleLost /\ r.id \in Settles \cup {profileRequest} =>
             \/ r.user.balance = ledger[token].balance
             \/ \E s \in Settles : r.id < s /\ Exec(s)
    BY DEF AccountInv, AnswerInv
  <2>4. \A s \in Settles : s \in Settles' /\ (Exec(s) => Exec(s)') BY <1>j, <1>k
  <2> QED BY <2>2, <2>3, <2>4
<1>6. ShownInv'
  <2> SUFFICES ASSUME LoggedIn, ~uncertain PROVE
        /\ user.nickname = ledger[token].nickname \/ ProfileExec("profileUpdate")'
        /\ \/ settleLost
           \/ user.balance = ledger[token].balance
           \/ ProfileExec("profileRecharge")'
           \/ \E s \in Settles' : Exec(s)'
    BY <1>b DEF ShownInv
  <2>1. \A s \in Settles : s \in Settles' /\ (Exec(s) => Exec(s)') BY <1>j, <1>k
  <2>2. \A o : ProfileExec(o) => ProfileExec(o)'
    <3> SUFFICES ASSUME NEW o, ProfileExec(o) PROVE ProfileExec(o)'
      OBVIOUS
    <3>1. profileRequest # 0 /\ profileRequest \in DOMAIN pending BY TableFacts DEF ProfileExec
    <3>2. profileRequest' = profileRequest BY <3>1
    <3>3. pending'[profileRequest] = pending[profileRequest] /\ Exec(profileRequest)'
      BY <3>1, <1>e, <1>k DEF ProfileExec
    <3> QED BY <3>2, <3>3, <3>1 DEF ProfileExec, Exec, Unasked
  <2> QED BY <2>1, <2>2 DEF AccountInv, ShownInv
<1> QED BY <1>i, <1>2, <1>3, <1>4, <1>5, <1>6 DEF AccountInv

-----------------------------------------------------------------------------
(* Operations that end. *)

\* The first answer is taken from the connection, or none is.
WireStep ==
  /\ UNCHANGED <<lastId, linkUp, upstream, ledger>>
  /\ downstream' = downstream \/ (downstream # <<>> /\ downstream' = Tail(downstream))
\* The operations `ids' are over, by an answer, a failure or a cancellation.
Shrinks(ids) ==
  /\ DOMAIN pending' = DOMAIN pending \ ids
  /\ \A i \in DOMAIN pending' : pending'[i] = pending[i]
  /\ unsent' = unsent \ ids
  /\ WireStep

LEMMA ShrinkFacts ==
  ASSUME TypeOK, WireInv, NEW ids, Shrinks(ids)
  PROVE  /\ WireInv'
         /\ Requests' = Requests /\ Answers' \subseteq Answers
         /\ \A ops : Held(ops)' = Held(ops) \ ids
         /\ Settles' = Settles \ ids
         /\ \A i \in DOMAIN pending : i \notin ids => i \in DOMAIN pending' /\ pending'[i] = pending[i]
         /\ \A i : Exec(i) => Exec(i)'
<1>1. /\ DOMAIN pending' = DOMAIN pending \ ids
      /\ \A i \in DOMAIN pending : i \notin ids => i \in DOMAIN pending' /\ pending'[i] = pending[i]
  BY DEF Shrinks, WireStep
<1>2. Requests' = Requests BY DEF Shrinks, WireStep, Requests, In
<1>3. /\ Answers' \subseteq Answers
      /\ AnswersSorted(downstream', Held(InTurn))
  <2>1. downstream \in Seq(Response) /\ AnswersSorted(downstream, Held(InTurn))
    BY DEF TypeOK, WireInv
  <2>2. CASE downstream' = downstream BY <2>1, <2>2 DEF Answers, In
  <2>3. CASE downstream # <<>> /\ downstream' = Tail(downstream)
    <3> HIDE DEF Response
    <3>1. In(Tail(downstream)) \subseteq In(downstream) BY <2>1, <2>3, TailIn
    <3>2. AnswersSorted(Tail(downstream), Held(InTurn)) BY <2>1, <2>3, TailAnswers
    <3>3. Answers' = In(Tail(downstream)) BY <2>3 DEF Answers, In
    <3> QED BY <2>3, <3>1, <3>2, <3>3 DEF Answers
  <2> QED BY <2>2, <2>3 DEF Shrinks, WireStep
<1>4. \A ops : Held(ops)' = Held(ops) \ ids BY <1>1 DEF Held
<1>5. Settles' = Settles \ ids BY <1>4 DEF Settles
<1>6. \A i : Exec(i) => Exec(i)'
  <2>1. \A i : i \notin unsent => i \notin unsent' BY DEF Shrinks, WireStep
  <2> QED BY <1>2, <1>3, <2>1 DEF Exec, Unasked
<1>7. WireInv'
  <2>1. \A m \in Requests' :
          /\ m.id \in 1..lastId' /\ m.id \notin unsent'
          /\ m.id \in DOMAIN pending' => pending'[m.id].op = m.op
    <3> SUFFICES ASSUME NEW m \in Requests
                 PROVE  /\ m.id \in 1..lastId' /\ m.id \notin unsent'
                        /\ m.id \in DOMAIN pending' => pending'[m.id].op = m.op
      BY <1>2
    <3>1. /\ m.id \in 1..lastId /\ m.id \notin unsent
          /\ m.id \in DOMAIN pending => pending[m.id].op = m.op
      BY DEF WireInv
    <3> QED BY <1>1, <3>1 DEF Shrinks, WireStep
  <2>2. \A r \in Answers' : r.id \in 1..lastId' /\ r.id \notin unsent'
    BY <1>3 DEF WireInv, Shrinks, WireStep
  <2>3. \A m \in Requests', r \in Answers' :
          /\ m.id # r.id
          /\ m.op \in InTurn /\ r.id \in Held(InTurn)' => r.id < m.id
    BY <1>2, <1>3, <1>4 DEF WireInv
  <2>4. RequestsSorted(upstream') BY DEF WireInv, Shrinks, WireStep
  <2>5. AnswersSorted(downstream', Held(InTurn)') BY <1>3, <1>4 DEF AnswersSorted
  <2>6. ~linkUp' => upstream' = <<>> /\ downstream' = <<>>
    BY DEF WireInv, Shrinks, WireStep
  <2> QED BY <2>1, <2>2, <2>3, <2>4, <2>5, <2>6 DEF WireInv
<1> QED BY <1>1, <1>2, <1>3, <1>4, <1>5, <1>6, <1>7

\* Nothing was asked of the server, or it refused.
Denied(id) == id \in unsent \/ \E r \in Answers : r.id = id /\ r.result \notin Executed

LEMMA DeniedFacts ==
  ASSUME WireInv, NEW id, Denied(id)
  PROVE  ~Exec(id) /\ Unasked(id)
BY DEF WireInv, Denied, Exec, Unasked

\* A login stays the only operation, or is over.
LEMMA LoginShrinks ==
  ASSUME TypeOK, AccountInv, NEW ids, Shrinks(ids),
         Held({"login"})' # {} => user' = user
  PROVE  LoginInv'
<1>1. /\ Requests' = Requests /\ Answers' \subseteq Answers
      /\ \A ops : Held(ops)' = Held(ops) \ ids
      /\ Settles' = Settles \ ids
  BY ShrinkFacts DEF AccountInv
<1>2. ledger' = ledger BY DEF Shrinks, WireStep
<1> SUFFICES ASSUME NEW q \in Held({"login"})' PROVE
      /\ user' = NoUser /\ Held({"login"})' = {q}
      /\ Held(ProfileOperation)' = {} /\ Settles' = {}
      /\ \A m \in Requests' : m.op \in Moves => m.id < q
      /\ \A r \in Answers' : r.id = q =>
           /\ r.user.nickname = ledger'[r.user.account].nickname
           /\ r.user.balance = ledger'[r.user.account].balance
  BY DEF LoginInv
<1>3. q \in Held({"login"}) /\ user' = user BY <1>1
<1> QED BY <1>1, <1>2, <1>3 DEF AccountInv, LoginInv

\* Operations that are no business of the account.
LEMMA QuietKeeps ==
  ASSUME TypeOK, SafeInv, AccountInv, NEW ids, Shrinks(ids),
         ids \cap Held(ProfileOperation) = {}, ids \cap Settles = {},
         UNCHANGED <<user, token, uncertain, profileRequest, revision, settleLost>>
  PROVE  AccountInv'
<1>1. /\ WireInv'
      /\ Requests' = Requests /\ Answers' \subseteq Answers
      /\ Settles' = Settles
      /\ \A i \in DOMAIN pending : i \notin ids => i \in DOMAIN pending' /\ pending'[i] = pending[i]
      /\ \A i : Exec(i) => Exec(i)'
  BY ShrinkFacts DEF AccountInv
<1>2. LoggedIn' = LoggedIn /\ ledger' = ledger BY DEF LoggedIn, Shrinks, WireStep
<1>3. \A i : i \notin unsent' => i \notin unsent \/ i \in ids BY DEF Shrinks, WireStep
<1>4. \A s \in Settles \ unsent' : s \notin unsent BY <1>3
<1>5. profileRequest # 0 => pending'[profileRequest] = pending[profileRequest]
  <2>1. profileRequest # 0 => profileRequest \in Held(ProfileOperation)
    BY TableFacts DEF Held
  <2>2. profileRequest # 0 => profileRequest \in DOMAIN pending BY TableFacts
  <2> QED BY <1>1, <2>1, <2>2
<1>6. \A o : ProfileExec(o) => ProfileExec(o)' BY <1>1, <1>5 DEF ProfileExec
<1>7. LoginInv' BY LoginShrinks
<1>8. OwnInv' BY <1>1, <1>2, <1>4 DEF AccountInv, OwnInv
<1>9. TurnInv' BY <1>1, <1>4, <1>5 DEF AccountInv, TurnInv
<1>10. AnswerInv' BY <1>1, <1>2 DEF AccountInv, AnswerInv
<1>11. ShownInv' BY <1>1, <1>2, <1>6 DEF AccountInv, ShownInv
<1> QED BY <1>1, <1>7, <1>8, <1>9, <1>10, <1>11 DEF AccountInv

\* finishProfileOperation: a mutation in doubt leaves the profile uncertain.
LEMMA EndProfileKeeps ==
  ASSUME TypeOK, SafeInv, AccountInv, NEW id \in DOMAIN pending, pending[id].op \in ProfileOperation,
         NEW unknown \in BOOLEAN, Shrinks({id}),
         profileRequest' = 0,
         uncertain' = (uncertain \/ (unknown /\ pending[id].op \in ProfileMutation)),
         UNCHANGED <<user, token, revision, settleLost>>,
         pending[id].op \in ProfileMutation /\ ~unknown => Denied(id)
  PROVE  AccountInv'
<1>1. /\ WireInv'
      /\ Requests' = Requests /\ Answers' \subseteq Answers
      /\ Settles' = Settles \ {id}
      /\ \A i : Exec(i) => Exec(i)'
  BY ShrinkFacts DEF AccountInv
<1>2. LoggedIn' = LoggedIn /\ ledger' = ledger BY DEF LoggedIn, Shrinks, WireStep
<1>3. id \notin Settles BY OpFacts DEF Settles, Held
<1>4. Settles' = Settles BY <1>1, <1>3
<1>5. id = profileRequest /\ id # 0 BY TableFacts
<1>6. \A s \in Settles \ unsent' : s \notin unsent BY <1>3 DEF Shrinks, WireStep
<1>7. Denied(id) => ~Exec(id) /\ Unasked(id) BY DeniedFacts DEF AccountInv
<1>8. LoginInv' BY LoginShrinks
<1>9. OwnInv'
  <2> SUFFICES ASSUME LoggedIn, NEW m \in Requests, m.account = token PROVE
        /\ m.op \in ProfileMutation =>
             /\ uncertain'
             /\ \A s \in Settles \ unsent' : m.id < s
        /\ m.op = "chargeSettle" => m.id \in Settles \/ settleLost
    BY <1>1, <1>2, <1>4 DEF OwnInv
  <2>1. /\ m.op \in ProfileMutation =>
             /\ m.id = profileRequest \/ (uncertain /\ (profileRequest # 0 => m.id < profileRequest))
             /\ \A s \in Settles \ unsent : m.id < s
        /\ m.op = "chargeSettle" => m.id \in Settles \/ settleLost
    BY DEF AccountInv, OwnInv
  <2>2. m.op \in ProfileMutation => uncertain'
    <3>1. CASE m.id # id BY <2>1, <3>1, <1>5
    <3>2. CASE m.id = id
      <4>1. pending[id].op = m.op BY <3>2 DEF AccountInv, WireInv
      <4>2. ~Unasked(id) BY <3>2 DEF Unasked
      <4> QED BY <4>1, <4>2, <1>7
    <3> QED BY <3>1, <3>2
  <2> QED BY <2>1, <2>2, <1>6
<1>10. TurnInv'
  <2>1. \A s \in Settles : 0 < s
    BY TableFacts DEF Settles, Held
  <2> QED BY <1>4, <2>1 DEF TurnInv
<1>11. AnswerInv'
  <2>1. \A r \in Answers : r.id # 0
    BY DEF AccountInv, WireInv
  <2> QED BY <1>1, <1>2, <1>4, <2>1 DEF AccountInv, AnswerInv
<1>12. ShownInv'
  <2> SUFFICES ASSUME LoggedIn, ~uncertain' PROVE
        /\ user.nickname = ledger[token].nickname
        /\ \/ settleLost
           \/ user.balance = ledger[token].balance
           \/ \E s \in Settles : Exec(s)'
    BY <1>2, <1>4 DEF ShownInv
  <2>1. ~uncertain /\ (pending[id].op \in ProfileMutation => ~Exec(id)) BY <1>7
  <2>2. ~ProfileExec("profileUpdate") /\ ~ProfileExec("profileRecharge")
    BY <1>5, <2>1, OpFacts DEF ProfileExec
  <2> QED BY <1>1, <2>1, <2>2 DEF AccountInv, ShownInv
<1> QED BY <1>1, <1>8, <1>9, <1>10, <1>11, <1>12 DEF AccountInv

\* A settlement fails: in doubt, or for sure.
LEMMA SettleFailsKeeps ==
  ASSUME TypeOK, SafeInv, AccountInv, NEW id \in Settles, NEW ids, ids \cap Settles = {id},
         ids \cap Held(ProfileOperation) = {}, Shrinks(ids),
         NEW unknown \in BOOLEAN, settleLost' = (settleLost \/ unknown),
         UNCHANGED <<user, token, uncertain, profileRequest, revision>>,
         ~unknown => Denied(id)
  PROVE  AccountInv'
<1>1. /\ WireInv'
      /\ Requests' = Requests /\ Answers' \subseteq Answers
      /\ Settles' = Settles \ {id}
      /\ \A i \in DOMAIN pending : i \notin ids => i \in DOMAIN pending' /\ pending'[i] = pending[i]
      /\ \A i : Exec(i) => Exec(i)'
  <2>1. Settles' = Settles \ ids BY ShrinkFacts DEF AccountInv
  <2> QED BY <2>1, ShrinkFacts DEF AccountInv
<1>2. LoggedIn' = LoggedIn /\ ledger' = ledger BY DEF LoggedIn, Shrinks, WireStep
<1>3. \A s \in Settles' \ unsent' : s \in Settles /\ s \notin unsent BY <1>1 DEF Shrinks, WireStep
<1>4. profileRequest # 0 => pending'[profileRequest] = pending[profileRequest]
  <2>1. profileRequest # 0 => profileRequest \in Held(ProfileOperation) BY TableFacts DEF Held
  <2>2. profileRequest # 0 => profileRequest \in DOMAIN pending BY TableFacts
  <2> QED BY <1>1, <2>1, <2>2
<1>5. \A o : ProfileExec(o) => ProfileExec(o)' BY <1>1, <1>4 DEF ProfileExec
<1>6. ~settleLost' => ~settleLost /\ ~Exec(id) /\ Unasked(id)
  BY DeniedFacts DEF AccountInv
<1>7. LoginInv' BY LoginShrinks
<1>8. OwnInv'
  <2> SUFFICES ASSUME LoggedIn, NEW m \in Requests, m.account = token PROVE
        /\ m.op \in ProfileMutation =>
             /\ m.id = profileRequest \/ (uncertain /\ (profileRequest # 0 => m.id < profileRequest))
             /\ \A s \in Settles' \ unsent' : m.id < s
        /\ m.op = "chargeSettle" => m.id \in Settles' \/ settleLost'
    BY <1>1, <1>2 DEF OwnInv
  <2>1. m.op = "chargeSettle" => m.id \in Settles' \/ settleLost'
    BY <1>1, <1>6 DEF AccountInv, OwnInv, Unasked
  <2> QED BY <2>1, <1>3 DEF AccountInv, OwnInv
<1>9. TurnInv' BY <1>1, <1>3, <1>4 DEF AccountInv, TurnInv
<1>10. AnswerInv'
  <2> SUFFICES ASSUME LoggedIn, NEW r \in Answers, r.user.account = token PROVE
        /\ r.id = profileRequest => r.user.nickname = ledger[token].nickname
        /\ ~settleLost' /\ r.id \in Settles' \cup {profileRequest} =>
             \/ r.user.balance = ledger[token].balance
             \/ \E s \in Settles' : r.id < s /\ Exec(s)'
    BY <1>1, <1>2 DEF AnswerInv
  <2> QED BY <1>1, <1>6 DEF AccountInv, AnswerInv
<1>11. ShownInv'
  <2> SUFFICES ASSUME LoggedIn, ~uncertain PROVE
        /\ user.nickname = ledger[token].nickname \/ ProfileExec("profileUpdate")'
        /\ \/ settleLost'
           \/ user.balance = ledger[token].balance
           \/ ProfileExec("profileRecharge")'
           \/ \E s \in Settles' : Exec(s)'
    BY <1>2 DEF ShownInv
  <2> QED BY <1>1, <1>5, <1>6 DEF AccountInv, ShownInv
<1> QED BY <1>1, <1>7, <1>8, <1>9, <1>10, <1>11 DEF AccountInv

\* A user on show is logged in, as the account that the token was issued for.
LEMMA ShownUser ==
  ASSUME TypeOK, SafeInv, user # NoUser
  PROVE  /\ LoggedIn /\ token = user.account /\ user \in Profile /\ token \in Account
         /\ Held({"login"}) = {} \/ ~LoginInv
<1>1. user \in Profile BY DEF TypeOK
<1>2. user.account \in Account BY <1>1 DEF Profile
<1>3. token = user.account BY DEF SafeInv, SessionIsolated
<1>4. LoggedIn BY <1>2, <1>3, UserApiAssumption DEF UserApiAssumption, LoggedIn
<1>5. Held({"login"}) = {} \/ ~LoginInv BY DEF LoginInv
<1> QED BY <1>1, <1>2, <1>3, <1>4, <1>5

LEMMA ProfileIsShown == \A u \in Profile : u # NoUser
BY UserApiAssumption DEF UserApiAssumption, NoUser, Profile

\* A settlement is answered: the balance on show is the answer's.
LEMMA SettleAnsweredKeeps ==
  ASSUME TypeOK, SafeInv, AccountInv, NEW id \in Settles, NEW ids, ids \cap Settles = {id},
         ids \cap Held(ProfileOperation) = {}, Shrinks(ids),
         user # NoUser, NEW r \in Answers, r.id = id, r.user.account = user.account,
         \A x \in Answers' : x.id \in Held(InTurn) => id <= x.id,
         user' = [user EXCEPT !.balance = r.user.balance],
         UNCHANGED <<token, uncertain, profileRequest, settleLost>>
  PROVE  AccountInv'
<1>1. /\ WireInv'
      /\ Requests' = Requests /\ Answers' \subseteq Answers
      /\ Settles' = Settles \ {id}
      /\ \A i \in DOMAIN pending : i \notin ids => i \in DOMAIN pending' /\ pending'[i] = pending[i]
      /\ \A i : Exec(i) => Exec(i)'
      /\ Held({"login"})' \subseteq Held({"login"})
  <2>1. Settles' = Settles \ ids BY ShrinkFacts DEF AccountInv
  <2> QED BY <2>1, ShrinkFacts DEF AccountInv
<1>2. LoggedIn /\ token = user.account /\ user \in Profile /\ Held({"login"}) = {}
  BY ShownUser DEF AccountInv
<1>3. r.user \in Profile BY WireTypes
<1>4. /\ user' \in Profile /\ user'.nickname = user.nickname /\ user'.balance = r.user.balance
      /\ LoggedIn'
  <2>1. user' \in Profile /\ user'.nickname = user.nickname /\ user'.balance = r.user.balance
    BY <1>2, <1>3 DEF Profile
  <2>2. token' = token OBVIOUS
  <2>3. user' # NoUser BY <1>2, <2>1, ProfileIsShown
  <2>4. token # None BY <1>2 DEF LoggedIn
  <2> QED BY <2>1, <2>2, <2>3, <2>4 DEF LoggedIn
<1>5. ledger' = ledger BY DEF Shrinks, WireStep
<1>6. /\ id \notin unsent /\ id \in Nat /\ id \in Held(InTurn)
      /\ \A s \in Settles : s \in Nat /\ s \in Held(InTurn)
  BY TableFacts, OpFacts DEF AccountInv, WireInv, Settles, Held
<1>7. \A s \in Settles' \ unsent' : s \in Settles /\ s \notin unsent BY <1>1 DEF Shrinks, WireStep
<1>8. profileRequest # 0 =>
        /\ profileRequest \in Held(InTurn) /\ profileRequest \in DOMAIN pending
        /\ pending'[profileRequest] = pending[profileRequest]
  <2>1. profileRequest # 0 =>
          profileRequest \in Held(ProfileOperation) /\ profileRequest \in DOMAIN pending
          /\ profileRequest \in Held(InTurn)
    BY TableFacts, OpFacts DEF Held
  <2> QED BY <1>1, <2>1
<1>9. profileRequest < id /\ profileRequest \in Nat
  BY <1>6, TableFacts DEF AccountInv, TurnInv
<1>10. \A m \in Requests : m.id # profileRequest \/ profileRequest = 0
  <2> SUFFICES ASSUME NEW m \in Requests, m.id = profileRequest, profileRequest # 0 PROVE FALSE
    OBVIOUS
  <2>1. m.op = pending[profileRequest].op /\ pending[profileRequest].op \in InTurn
    BY <1>8 DEF AccountInv, WireInv, Held
  <2>2. id < m.id BY <2>1, <1>6 DEF AccountInv, WireInv
  <2> QED BY <2>2, <1>6, <1>9
<1>11. \A x \in Answers' : x.id # profileRequest \/ profileRequest = 0
  BY <1>6, <1>8, <1>9
<1>12. LoginInv' BY <1>1, <1>2, LoginShrinks
<1>13. OwnInv'
  <2> SUFFICES ASSUME NEW m \in Requests, m.account = token PROVE
        /\ m.op \in ProfileMutation =>
             /\ m.id = profileRequest \/ (uncertain /\ (profileRequest # 0 => m.id < profileRequest))
             /\ \A s \in Settles' \ unsent' : m.id < s
        /\ m.op = "chargeSettle" => m.id \in Settles' \/ settleLost
    BY <1>1 DEF OwnInv
  <2>1. m.id # id BY DEF AccountInv, WireInv
  <2> QED BY <1>1, <1>2, <1>7, <2>1 DEF AccountInv, OwnInv
<1>14. TurnInv'
  BY <1>1, <1>7, <1>8, <1>10, <1>11 DEF AccountInv, TurnInv
<1>15. AnswerInv'
  <2> SUFFICES ASSUME NEW x \in Answers', x.user.account = token PROVE
        /\ x.id = profileRequest => x.user.nickname = ledger[token].nickname
        /\ ~settleLost /\ x.id \in Settles' \cup {profileRequest} =>
             \/ x.user.balance = ledger[token].balance
             \/ \E s \in Settles' : x.id < s /\ Exec(s)'
    BY <1>5 DEF AnswerInv
  <2>1. /\ x.id = profileRequest => x.user.nickname = ledger[token].nickname
        /\ ~settleLost /\ x.id \in Settles \cup {profileRequest} =>
             \/ x.user.balance = ledger[token].balance
             \/ \E s \in Settles : x.id < s /\ Exec(s)
    BY <1>1, <1>2 DEF AccountInv, AnswerInv
  <2>2. x.id \in Nat /\ x.id # 0 BY <1>1 DEF AccountInv, WireInv
  <2>3. x.id \in Settles \cup {profileRequest} => ~(x.id < id)
    BY <1>6, <1>8, <2>2
  <2> QED BY <1>1, <2>1, <2>3
<1>16. ShownInv'
  <2> SUFFICES ASSUME ~uncertain PROVE
        /\ user.nickname = ledger[token].nickname \/ ProfileExec("profileUpdate")'
        /\ \/ settleLost
           \/ r.user.balance = ledger[token].balance
           \/ \E s \in Settles' : Exec(s)'
    BY <1>4, <1>5 DEF ShownInv
  <2>1. \A o : ProfileExec(o) => ProfileExec(o)' BY <1>1, <1>8 DEF ProfileExec
  <2>2. ~settleLost => \/ r.user.balance = ledger[token].balance
                       \/ \E s \in Settles : id < s /\ Exec(s)
    BY <1>2 DEF AccountInv, AnswerInv
  <2>3. \A s \in Settles : id < s => s \in Settles' BY <1>1, <1>6
  <2> QED BY <1>1, <1>2, <2>1, <2>2, <2>3 DEF AccountInv, ShownInv
<1> QED BY <1>1, <1>12, <1>13, <1>14, <1>15, <1>16 DEF AccountInv

\* A profile answer is put on show.  What earlier operations in doubt still do
\* would have been done before this one.
LEMMA ProfileAnsweredKeeps ==
  ASSUME TypeOK, SafeInv, AccountInv, NEW id \in DOMAIN pending, pending[id].op \in ProfileOperation,
         Shrinks({id}), user # NoUser, NEW r \in Answers, r.id = id, r.user.account = user.account,
         user' = (IF pending[id].op = "profileRecharge"
                  THEN [user EXCEPT !.balance = r.user.balance] ELSE r.user),
         profileRequest' = 0, uncertain' = (uncertain /\ ~pending[id].reconciliation),
         UNCHANGED <<token, settleLost>>
  PROVE  AccountInv'
<1>1. /\ WireInv'
      /\ Requests' = Requests /\ Answers' \subseteq Answers
      /\ Settles' = Settles \ {id}
      /\ \A i : Exec(i) => Exec(i)'
      /\ Held({"login"})' \subseteq Held({"login"})
  BY ShrinkFacts DEF AccountInv
<1>2. LoggedIn /\ token = user.account /\ user \in Profile /\ Held({"login"}) = {}
  BY ShownUser DEF AccountInv
<1>3. id = profileRequest /\ id # 0 /\ id \in Nat BY TableFacts
<1>4. id \notin Settles BY OpFacts DEF Settles, Held
<1>5. Settles' = Settles BY <1>1, <1>4
<1>6. id \in Held(InTurn) BY OpFacts DEF Held
<1>7. r.user \in Profile BY WireTypes
<1>8. /\ LoggedIn' = LoggedIn /\ ledger' = ledger /\ token' = token
      /\ user'.balance = r.user.balance
      /\ pending[id].op = "profileRecharge" => user'.nickname = user.nickname
      /\ pending[id].op # "profileRecharge" => user'.nickname = r.user.nickname
  <2>1. CASE pending[id].op = "profileRecharge"
    <3>1. user' = [user EXCEPT !.balance = r.user.balance] BY <2>1
    <3>2. user' \in Profile /\ user'.nickname = user.nickname /\ user'.balance = r.user.balance
      BY <1>2, <1>7, <3>1 DEF Profile
    <3>3. user' # NoUser BY <3>2, ProfileIsShown
    <3>4. token' = token OBVIOUS
    <3> QED BY <1>2, <2>1, <3>2, <3>3, <3>4 DEF LoggedIn, Shrinks, WireStep
  <2>2. CASE pending[id].op # "profileRecharge"
    <3>1. user' = r.user BY <2>2
    <3>2. user' # NoUser BY <1>7, <3>1, ProfileIsShown
    <3>3. token' = token OBVIOUS
    <3> QED BY <1>2, <2>2, <3>1, <3>2, <3>3 DEF LoggedIn, Shrinks, WireStep
  <2> QED BY <2>1, <2>2
<1>9. \A m \in Requests : m.op \in ProfileMutation => m.account # token
  <2> SUFFICES ASSUME NEW m \in Requests, m.op \in ProfileMutation, m.account = token PROVE FALSE
    OBVIOUS
  <2>1. m.op \in InTurn BY OpFacts
  <2>2. r.id < m.id /\ m.id # r.id BY <1>6, <2>1 DEF AccountInv, WireInv
  <2>3. m.id = profileRequest \/ m.id < profileRequest BY <1>2, <1>3 DEF AccountInv, OwnInv
  <2>4. m.id \in Nat BY WireTypes
  <2> QED BY <1>3, <2>2, <2>3, <2>4
<1>10. LoginInv' BY <1>1, <1>2 DEF LoginInv
<1>11. OwnInv'
  <2> SUFFICES ASSUME NEW m \in Requests, m.account = token, m.op = "chargeSettle"
               PROVE  m.id \in Settles \/ settleLost
    BY <1>1, <1>5, <1>8, <1>9 DEF OwnInv
  <2> QED BY <1>2 DEF AccountInv, OwnInv
<1>12. TurnInv'
  <2>1. \A s \in Settles : 0 < s BY TableFacts DEF Settles, Held
  <2> QED BY <1>5, <2>1 DEF TurnInv
<1>13. AnswerInv'
  <2>1. \A x \in Answers : x.id # 0 BY DEF AccountInv, WireInv
  <2> QED BY <1>1, <1>5, <1>8, <2>1 DEF AccountInv, AnswerInv
<1>14. ShownInv'
  <2> SUFFICES ASSUME ~uncertain' PROVE
        /\ user'.nickname = ledger[token].nickname
        /\ \/ settleLost
           \/ r.user.balance = ledger[token].balance
           \/ \E s \in Settles : Exec(s)'
    BY <1>5, <1>8 DEF ShownInv
  <2>1. /\ r.user.nickname = ledger[token].nickname
        /\ ~settleLost => \/ r.user.balance = ledger[token].balance
                          \/ \E s \in Settles : id < s /\ Exec(s)
    BY <1>2, <1>3 DEF AccountInv, AnswerInv
  <2>2. ASSUME pending[id].op = "profileRecharge" PROVE user.nickname = ledger[token].nickname
    <3>1. ~pending[id].reconciliation BY <1>3, <2>2, OpFacts DEF AccountInv, TurnInv
    <3>2. ~uncertain BY <3>1
    <3>3. ~ProfileExec("profileUpdate") BY <1>3, <2>2 DEF ProfileExec
    <3> QED BY <1>2, <3>2, <3>3 DEF AccountInv, ShownInv
  <2> QED BY <1>1, <1>8, <2>1, <2>2
<1> QED BY <1>1, <1>10, <1>11, <1>12, <1>13, <1>14 DEF AccountInv

\* A login is answered: nothing that moves the account is on the connection.
LEMMA LoginAnsweredKeeps ==
  ASSUME TypeOK, SafeInv, AccountInv, NEW id \in Held({"login"}), Shrinks({id}),
         NEW r \in Answers, r.id = id, user' = r.user, token' = r.user.account,
         UNCHANGED <<profileRequest, uncertain, settleLost>>
  PROVE  AccountInv'
<1>1. /\ WireInv'
      /\ Requests' = Requests /\ Answers' \subseteq Answers
      /\ Settles' = Settles \ {id}
      /\ Held({"login"})' = Held({"login"}) \ {id}
  BY ShrinkFacts DEF AccountInv
<1>2. /\ Held({"login"}) = {id} /\ Held(ProfileOperation) = {} /\ Settles = {}
      /\ \A m \in Requests : m.op \in Moves => m.id < id
      /\ r.user.nickname = ledger[r.user.account].nickname
      /\ r.user.balance = ledger[r.user.account].balance
  BY DEF AccountInv, LoginInv
<1>3. profileRequest = 0 BY <1>2, TableFacts DEF Held
<1>4. id \in Held(InTurn) /\ id \in Nat BY TableFacts, OpFacts DEF Held
<1>5. \A m \in Requests : m.op \notin Moves
  <2>1. \A m \in Requests : m.op \in Moves => id < m.id BY <1>4, OpFacts DEF AccountInv, WireInv
  <2>2. \A m \in Requests : m.id \in Nat BY WireTypes
  <2> QED BY <1>2, <1>4, <2>1, <2>2
<1>6. LoginInv' BY <1>1, <1>2 DEF LoginInv
<1>7. OwnInv' BY <1>1, <1>5, OpFacts DEF OwnInv
<1>8. TurnInv' BY <1>1, <1>2, <1>3 DEF TurnInv
<1>9. AnswerInv'
  <2>1. \A x \in Answers : x.id # 0 BY DEF AccountInv, WireInv
  <2> QED BY <1>1, <1>2, <1>3, <2>1 DEF AnswerInv
<1>10. ShownInv' BY <1>2 DEF ShownInv, Shrinks, WireStep
<1> QED BY <1>1, <1>6, <1>7, <1>8, <1>9, <1>10 DEF AccountInv

\* resetSession: nothing is shown, and nothing of the session is left.
LEMMA ResetAccountKeeps ==
  ASSUME TypeOK, SafeInv, AccountInv, resetSession,
         WireStep
  PROVE  AccountInv'
<1>1. Shrinks(DOMAIN pending)
  <2>1. DOMAIN pending' = {} /\ unsent' = unsent \ DOMAIN pending BY DEF resetSession
  <2> QED BY <2>1 DEF Shrinks
<1>2. WireInv' BY <1>1, ShrinkFacts DEF AccountInv
<1>3. DOMAIN pending' = {} /\ user' = NoUser /\ profileRequest' = 0
  BY DEF resetSession, ClearSession
<1>4. Held({"login"})' = {} /\ Settles' = {} BY <1>3 DEF Held, Settles
<1>5. ~LoggedIn' BY <1>3 DEF LoggedIn
<1> QED BY <1>2, <1>3, <1>4, <1>5
    DEF AccountInv, LoginInv, OwnInv, TurnInv, AnswerInv, ShownInv

\* loginByPhone: the session is empty but for the login.
LEMMA LoginStartKeeps ==
  ASSUME TypeOK, SafeInv, AccountInv, NEW a \in Account, loginByPhone(a)
  PROVE  AccountInv'
<1> DEFINE id == lastId + 1
           m == [id |-> id, op |-> "login", account |-> a]
<1>1. /\ lastId' = id /\ DOMAIN pending' = {id} /\ pending'[id].op = "login"
      /\ user' = NoUser /\ profileRequest' = 0
      /\ UNCHANGED <<linkUp, downstream, ledger>>
  BY DEF loginByPhone, ClearSession, LoginEntry
<1>2. m \in Message /\ m.id = id /\ m.op = "login"
  BY TableFacts DEF Message, Operation
<1>3. \/ linkUp /\ upstream' = Append(upstream, m) /\ unsent' \subseteq unsent
      \/ ~linkUp /\ upstream' = upstream /\ unsent' \subseteq unsent \cup {m.id}
  <2>1. linkUp => upstream' = Append(upstream, m) /\ unsent' = unsent \cap (live \ DOMAIN pending)
    BY DEF loginByPhone
  <2>2. ~linkUp => upstream' = upstream /\ unsent' = (unsent \cap (live \ DOMAIN pending)) \cup {id}
    BY DEF loginByPhone
  <2> QED BY <1>2, <2>1, <2>2
<1> HIDE DEF m
<1>4. /\ WireInv' /\ Answers' = Answers
      /\ \A x \in Requests' : x \in Requests \/ x = m
      /\ \A x \in Requests : x.id \in 1..lastId /\ x.id < m.id /\ x.id # 0
      /\ \A r \in Answers : r.id \in 1..lastId /\ r.id < m.id /\ r.id # 0
  <2>1. \A i \in DOMAIN pending' : i # m.id => i \in DOMAIN pending /\ pending'[i] = pending[i]
    BY <1>1, <1>2
  <2>2. /\ m.id = lastId + 1 /\ lastId' = lastId + 1
        /\ m.id \in DOMAIN pending' /\ pending'[m.id].op = m.op
    BY <1>1, <1>2
  <2> HIDE DEF Message
  <2> QED BY <1>1, <1>2, <1>3, <2>1, <2>2, AddWire DEF AccountInv
<1>5. /\ Held({"login"})' = {id} /\ Held(ProfileOperation)' = {} /\ Settles' = {}
  BY <1>1, OpFacts DEF Held, Settles
<1>6. LoginInv'
  <2>1. \A x \in Requests' : x.op \in Moves => x.id < id BY <1>2, <1>4, OpFacts
  <2>2. \A r \in Answers' : r.id # id
    <3>1. \A r \in Answers : r.id \in Nat BY WireTypes
    <3> QED BY <1>2, <1>4, <3>1, TableFacts
  <2> QED BY <1>1, <1>5, <2>1, <2>2 DEF LoginInv
<1>7. ~LoggedIn' BY <1>1 DEF LoggedIn
<1> QED BY <1>1, <1>4, <1>5, <1>6, <1>7
    DEF AccountInv, OwnInv, TurnInv, AnswerInv, ShownInv

-----------------------------------------------------------------------------
(* The steps of the pages. *)

LEMMA PagesKeep ==
  ASSUME TypeOK, SafeInv, AccountInv, ~ProfileDuringCharge, Pages
  PROVE  AccountInv'
<1>1. ProfileReachable => Settles = {}
  BY DEF ProfileReachable, Settles, Held, ChargeMutation
<1>2. CASE \E a \in Account : loginByPhone(a) BY <1>2, LoginStartKeeps
<1>3. CASE loginInvalid
  BY <1>3, ResetAccountKeeps DEF loginInvalid, wires, WireStep
<1>4. CASE loadProfile
  <2>1. /\ Send("profileGet", token, uncertain) /\ profileRequest = 0 /\ LoggedIn /\ Settles = {}
        /\ profileRequest' = lastId + 1
        /\ UNCHANGED <<session, uncertain, revision, linkUp, downstream, ledger, past>>
    BY <1>1, <1>4 DEF loadProfile
  <2>2. token \in Account /\ uncertain \in BOOLEAN BY <2>1 DEF LoggedIn, TypeOK
  <2>3. "profileGet" \in Operation \ {"login"} BY DEF Operation, ProfileOperation
  <2> QED BY <2>1, <2>2, <2>3, OpFacts, AddKeeps
<1>5. ASSUME NEW op \in ProfileMutation, changeProfile(op) PROVE AccountInv'
  <2>1. /\ Send(op, token, FALSE) /\ profileRequest = 0 /\ LoggedIn /\ Settles = {} /\ ~uncertain
        /\ profileRequest' = lastId + 1
        /\ UNCHANGED <<session, uncertain, revision, linkUp, downstream, ledger, past>>
    BY <1>1, <1>5 DEF changeProfile
  <2>2. token \in Account BY <2>1 DEF LoggedIn, TypeOK
  <2>3. op \in Operation \ {"login"} BY DEF Operation, ProfileOperation, ProfileMutation
  <2> QED BY <2>1, <2>2, <2>3, OpFacts, AddKeeps
<1>6. ASSUME NEW op \in ChargeMutation \cup {"chargeCurrent", "read"}, request(op) PROVE AccountInv'
  <2>1. /\ Send(op, token, FALSE) /\ LoggedIn /\ profileRequest' = profileRequest
        /\ UNCHANGED <<session, uncertain, revision, linkUp, downstream, ledger, past>>
    BY <1>6 DEF request, profile
  <2>2. token \in Account BY <2>1 DEF LoggedIn, TypeOK
  <2>3. /\ op \in Operation \ {"login"} /\ op \notin ProfileOperation /\ op \notin ProfileMutation
    BY DEF Operation, ChargeMutation, SafeRead, ProfileOperation, ProfileMutation
  <2> QED BY <2>1, <2>2, <2>3, AddKeeps
<1>7. CASE loadSystemHealth
  <2>1. PICK a \in Account : Send("health", a, FALSE) BY <1>7 DEF loadSystemHealth
  <2>2. /\ profileRequest' = profileRequest
        /\ UNCHANGED <<session, uncertain, revision, linkUp, downstream, ledger, past>>
    BY <1>7 DEF loadSystemHealth, profile
  <2>3. /\ "health" \in Operation \ {"login"} /\ "health" \notin Moves
        /\ "health" \notin ProfileOperation /\ "health" \notin ProfileMutation
    BY DEF Operation, SafeRead, Moves, ProfileOperation, ProfileMutation
  <2> QED BY <2>1, <2>2, <2>3, AddKeeps
<1>8. CASE invalidateChargeReads
  <2> DEFINE ids == Held({"chargeCurrent"})
  <2>1. InvalidateWith({}) /\ UNCHANGED <<session, profile, linkUp, wires, lastId, ledger, past>>
    BY <1>8 DEF invalidateChargeReads
  <2>2. Shrinks(ids) BY <2>1, WithoutFacts DEF InvalidateWith, Shrinks, WireStep, wires
  <2>3. ids \cap Held(ProfileOperation) = {} /\ ids \cap Settles = {}
    BY DEF Held, Settles, ProfileOperation, ProfileMutation
  <2>4. UNCHANGED <<user, token, uncertain, profileRequest, revision, settleLost>>
    BY <2>1 DEF session, profile, past
  <2> HIDE DEF ids
  <2> QED BY <2>2, <2>3, <2>4, QuietKeeps
<1>9. ASSUME NEW id \in 1..lastId, cancelSafeRead(id) PROVE AccountInv'
  <2>1. Shrinks({id}) BY <1>9, WithoutFacts DEF cancelSafeRead, Shrinks, WireStep, wires
  <2>2. {id} \cap Held(ProfileOperation) = {} /\ {id} \cap Settles = {}
    BY <1>9 DEF cancelSafeRead, Held, Settles, SafeRead, ProfileOperation, ProfileMutation
  <2>3. UNCHANGED <<user, token, uncertain, profileRequest, revision, settleLost>>
    BY <1>9 DEF cancelSafeRead, session, profile, past
  <2> QED BY <2>1, <2>2, <2>3, QuietKeeps
<1> QED BY <1>2, <1>3, <1>4, <1>5, <1>6, <1>7, <1>8, <1>9 DEF Pages

-----------------------------------------------------------------------------
(* The outcomes of operations. *)

LEMMA EndsAccount ==
  ASSUME TypeOK, SafeInv, AccountInv, WireStep, NEW id \in DOMAIN pending, Ends(id),
         pending[id].op \notin ProfileOperation, pending[id].op # "chargeSettle"
  PROVE  AccountInv'
<1>1. Shrinks({id}) BY WithoutFacts DEF Ends, Over, Done, Shrinks
<1>2. {id} \cap Held(ProfileOperation) = {} /\ {id} \cap Settles = {} BY DEF Held, Settles
<1>3. UNCHANGED <<user, token, uncertain, profileRequest, revision, settleLost>>
  BY DEF Ends, Over, session, past
<1> QED BY <1>1, <1>2, <1>3, QuietKeeps

LEMMA EndProfileAccount ==
  ASSUME TypeOK, SafeInv, AccountInv, WireStep, NEW id \in DOMAIN pending,
         pending[id].op \in ProfileOperation, NEW unknown \in BOOLEAN, EndProfile(id, unknown),
         pending[id].op \in ProfileMutation /\ ~unknown => Denied(id)
  PROVE  AccountInv'
<1>1. Shrinks({id}) BY WithoutFacts DEF EndProfile, Over, Done, Shrinks
<1>2. UNCHANGED <<user, token, revision, settleLost>>
  BY DEF EndProfile, Over, session, past
<1>3. /\ profileRequest' = 0
      /\ uncertain' = (uncertain \/ (unknown /\ pending[id].op \in ProfileMutation))
  BY DEF EndProfile
<1> QED BY <1>1, <1>2, <1>3, EndProfileKeeps

\* What InvalidateWith takes away besides the operation.
LEMMA InvalidateShrinks ==
  ASSUME WireStep, NEW id \in DOMAIN pending, InvalidateWith({id}),
         pending[id].op \notin ProfileOperation
  PROVE  \E ids : /\ Shrinks(ids) /\ ids \cap Held(ProfileOperation) = {}
                  /\ pending[id].op = "chargeSettle" => ids \cap Settles = {id}
                  /\ pending[id].op # "chargeSettle" => ids \cap Settles = {}
<1> DEFINE gone == {id} \cup Held({"chargeCurrent"})
<1>1. Shrinks(gone) BY WithoutFacts DEF InvalidateWith, Shrinks
<1>2. /\ Held({"chargeCurrent"}) \cap Held(ProfileOperation) = {}
      /\ Held({"chargeCurrent"}) \cap Settles = {}
  BY DEF Held, Settles, ProfileOperation, ProfileMutation
<1>3. id \notin Held(ProfileOperation) BY DEF Held
<1>4. (id \in Settles) <=> (pending[id].op = "chargeSettle") BY DEF Held, Settles
<1>5. /\ gone \cap Held(ProfileOperation) = {}
      /\ pending[id].op = "chargeSettle" => gone \cap Settles = {id}
      /\ pending[id].op # "chargeSettle" => gone \cap Settles = {}
  BY <1>2, <1>3, <1>4
<1> HIDE DEF gone
<1> QED BY <1>1, <1>5

LEMMA ChargeFailureAccount ==
  ASSUME TypeOK, SafeInv, AccountInv, WireStep, NEW id \in DOMAIN pending,
         pending[id].op \in ChargeOperation, NEW unknown \in BOOLEAN, ChargeFailure(id, unknown),
         ~unknown => Denied(id)
  PROVE  AccountInv'
<1>1. /\ pending[id].op \notin ProfileOperation
      /\ pending[id].op \notin ChargeMutation => pending[id].op = "chargeCurrent"
      /\ "chargeCurrent" # "chargeSettle"
  BY DEF ChargeOperation, ChargeMutation, ProfileOperation, ProfileMutation
<1>2. CASE pending[id].op \in ChargeMutation
  <2>1. /\ InvalidateWith({id})
        /\ settleLost' = (settleLost \/ (unknown /\ pending[id].op = "chargeSettle"))
        /\ UNCHANGED <<user, token, uncertain, profileRequest, revision>>
    BY <1>2 DEF ChargeFailure, session, profile
  <2>2. PICK ids : /\ Shrinks(ids) /\ ids \cap Held(ProfileOperation) = {}
                   /\ pending[id].op = "chargeSettle" => ids \cap Settles = {id}
                   /\ pending[id].op # "chargeSettle" => ids \cap Settles = {}
    BY <1>1, <2>1, InvalidateShrinks
  <2>3. CASE pending[id].op = "chargeSettle"
    <3>1. id \in Settles BY <2>3 DEF Settles, Held
    <3>2. settleLost' = (settleLost \/ unknown) BY <2>1, <2>3
    <3> QED BY <2>1, <2>2, <2>3, <3>1, <3>2, SettleFailsKeeps
  <2>4. CASE pending[id].op # "chargeSettle"
    <3>1. settleLost' = settleLost BY <2>1, <2>4 DEF TypeOK
    <3> QED BY <2>1, <2>2, <2>4, <3>1, QuietKeeps
  <2> QED BY <2>3, <2>4
<1>3. CASE pending[id].op \notin ChargeMutation
  <2>1. Ends(id) /\ pending[id].op # "chargeSettle" BY <1>1, <1>3 DEF ChargeFailure
  <2> QED BY <1>1, <2>1, EndsAccount
<1> QED BY <1>2, <1>3

\* The answer to `id' is the first on the connection, and is taken from it.
Takes(id, r) ==
  /\ downstream # <<>> /\ r = Head(downstream) /\ r.id = id
  /\ WireStep /\ downstream' = Tail(downstream)

LEMMA TakesFacts ==
  ASSUME TypeOK, AccountInv, NEW r, NEW id, Takes(id, r)
  PROVE  /\ r \in Answers /\ r \in Response
         /\ \A x \in Answers' : id \in Held(InTurn) /\ x.id \in Held(InTurn) => id <= x.id
<1>1. downstream \in Seq(Response) /\ AnswersSorted(downstream, Held(InTurn))
  BY DEF TypeOK, AccountInv, WireInv
<1>2. r \in Answers
  <2> HIDE DEF Response
  <2> QED BY <1>1, TailIn DEF Takes, Answers
<1>3. r \in Response BY <1>2, WireTypes
<1>4. \A x \in Answers' : id \in Held(InTurn) /\ x.id \in Held(InTurn) => id <= x.id
  <2>1. Answers' = In(Tail(downstream)) BY DEF Takes, Answers, In
  <2> HIDE DEF Response
  <2>2. \A x \in In(Tail(downstream)) :
          Head(downstream).id \in Held(InTurn) /\ x.id \in Held(InTurn) => Head(downstream).id <= x.id
    BY <1>1, TailAnswers DEF Takes
  <2> QED BY <2>1, <2>2 DEF Takes
<1> QED BY <1>2, <1>3, <1>4

LEMMA ChargeAnswerAccount ==
  ASSUME TypeOK, SafeInv, AccountInv, NEW id \in DOMAIN pending, NEW r, Takes(id, r),
         pending[id].op \in ChargeOperation, user # NoUser, r.user.account = user.account,
         ChargeAnswer(id, r.user)
  PROVE  AccountInv'
<1>1. pending[id].op \notin ProfileOperation /\ "chargeCurrent" # "chargeSettle"
  BY DEF ChargeOperation, ChargeMutation, ProfileOperation, ProfileMutation
<1>2. WireStep BY DEF Takes
<1>3. CASE pending[id].op = "chargeCurrent"
  BY <1>1, <1>2, <1>3, EndsAccount DEF ChargeAnswer
<1>4. CASE pending[id].op # "chargeCurrent"
  <2>1. /\ InvalidateWith({id})
        /\ UNCHANGED <<token, uncertain, profileRequest, settleLost>>
    BY <1>4 DEF ChargeAnswer
  <2>2. PICK ids : /\ Shrinks(ids) /\ ids \cap Held(ProfileOperation) = {}
                   /\ pending[id].op = "chargeSettle" => ids \cap Settles = {id}
                   /\ pending[id].op # "chargeSettle" => ids \cap Settles = {}
    BY <1>1, <1>2, <2>1, InvalidateShrinks
  <2>3. CASE pending[id].op = "chargeSettle"
    <3>1. id \in Settles /\ id \in Held(InTurn) BY <2>3, OpFacts DEF Settles, Held
    <3>2. user' = [user EXCEPT !.balance = r.user.balance]
      BY <1>4, <2>3 DEF ChargeAnswer, ApplyUser
    <3>3. r \in Answers /\ r.id = id BY TakesFacts DEF Takes
    <3>4. \A x \in Answers' : x.id \in Held(InTurn) => id <= x.id BY <3>1, TakesFacts
    <3> QED BY <2>1, <2>2, <2>3, <3>1, <3>2, <3>3, <3>4, SettleAnsweredKeeps
  <2>4. CASE pending[id].op # "chargeSettle"
    <3>1. UNCHANGED <<user, revision>> BY <1>4, <2>4 DEF ChargeAnswer
    <3> QED BY <2>1, <2>2, <2>4, <3>1, QuietKeeps
  <2> QED BY <2>3, <2>4
<1> QED BY <1>3, <1>4

LEMMA ProfileAnswerAccount ==
  ASSUME TypeOK, SafeInv, AccountInv, NEW id \in DOMAIN pending, NEW r, Takes(id, r),
         pending[id].op \in ProfileOperation, user # NoUser, r.user.account = user.account,
         ProfileAnswer(id, r.user)
  PROVE  AccountInv'
<1>1. r \in Answers /\ r.id = id /\ WireStep BY TakesFacts DEF Takes
<1>2. CASE pending[id].revision # revision
  <2>1. EndProfile(id, FALSE) BY <1>2 DEF ProfileAnswer
  <2>2. id = profileRequest /\ id # 0 BY TableFacts
  <2>3. pending[id].op \notin ProfileMutation BY <1>1, <1>2, <2>2 DEF AccountInv, TurnInv
  <2> QED BY <1>1, <2>1, <2>3, EndProfileAccount
<1>3. CASE pending[id].revision = revision
  <2>1. /\ Done(id) /\ profileRequest' = 0
        /\ user' = (IF pending[id].op = "profileRecharge"
                    THEN [user EXCEPT !.balance = r.user.balance] ELSE r.user)
        /\ uncertain' = (uncertain /\ ~pending[id].reconciliation)
        /\ UNCHANGED <<token, settleLost>>
    BY <1>3 DEF ProfileAnswer, ApplyUser, past
  <2>2. Shrinks({id}) BY <1>1, <2>1, WithoutFacts DEF Done, Shrinks
  <2> QED BY <1>1, <2>1, <2>2, ProfileAnsweredKeeps
<1> QED BY <1>2, <1>3

LEMMA AnswerAccount ==
  ASSUME TypeOK, SafeInv, AccountInv, NEW id \in DOMAIN pending, NEW r, Takes(id, r), Answer(id, r)
  PROVE  AccountInv'
<1> DEFINE op == pending[id].op
           unknown == r.result \in {"ok", "malformed"}
           fits == r.result = "ok" /\ user # NoUser /\ r.user.account = user.account
<1>1. r \in Answers /\ r.id = id /\ WireStep BY TakesFacts DEF Takes
<1>2. unknown \in BOOLEAN /\ (~unknown => Denied(id)) BY <1>1 DEF Denied, Executed
<1>3. CASE op \in ProfileOperation /\ fits /\ ProfileAnswer(id, r.user)
  BY <1>3, ProfileAnswerAccount
<1>4. CASE op \in ProfileOperation /\ EndProfile(id, unknown)
  BY <1>1, <1>2, <1>4, EndProfileAccount
<1>5. CASE op = "chargeCurrent" /\ Ends(id)
  BY <1>1, <1>5, EndsAccount DEF ProfileOperation, ProfileMutation
<1>6. CASE op \in ChargeOperation /\ fits /\ ChargeAnswer(id, r.user)
  BY <1>6, ChargeAnswerAccount
<1>7. CASE op \in ChargeOperation /\ ChargeFailure(id, unknown)
  BY <1>1, <1>2, <1>7, ChargeFailureAccount
<1>8. CASE op = "login" /\ LoginAnswer(id, r.user)
  <2>1. id \in Held({"login"}) BY <1>8 DEF Held
  <2>2. Shrinks({id}) BY <1>1, <1>8, WithoutFacts DEF LoginAnswer, Done, Shrinks
  <2>3. /\ user' = r.user /\ token' = r.user.account
        /\ UNCHANGED <<profileRequest, uncertain, settleLost>>
    BY <1>8 DEF LoginAnswer, ApplyUser, past
  <2> QED BY <1>1, <2>1, <2>2, <2>3, LoginAnsweredKeeps
<1>9. CASE op \notin ProfileOperation \cup ChargeOperation /\ Ends(id)
  <2>1. "chargeSettle" \in ChargeOperation BY DEF ChargeOperation, ChargeMutation
  <2> QED BY <1>1, <1>9, <2>1, EndsAccount
<1> QED BY <1>3, <1>4, <1>5, <1>6, <1>7, <1>8, <1>9, Zenon DEF Answer

LEMMA ReceiveAccount ==
  ASSUME TypeOK, SafeInv, AccountInv, Receive
  PROVE  AccountInv'
<1> DEFINE r == Head(downstream)
<1>1. /\ downstream # <<>> /\ downstream' = Tail(downstream)
      /\ UNCHANGED <<linkUp, upstream, lastId, ledger>>
  BY DEF Receive
<1>2. WireStep BY <1>1 DEF WireStep
<1>3. CASE r.id \in live /\ r.id \in DOMAIN pending
  <2>1. handleResponse(r.id, r) BY <1>3 DEF Receive
  <2>2. pending[r.id].generation = generation BY <1>3 DEF SafeInv, SessionIsolated
  <2>3. Takes(r.id, r) BY <1>1, <1>2 DEF Takes
  <2>4. CASE resetSession BY <1>2, <2>4, ResetAccountKeeps
  <2>5. CASE Answer(r.id, r)
    <3> HIDE DEF r
    <3> QED BY <1>3, <2>3, <2>5, AnswerAccount
  <2> QED BY <2>1, <2>2, <2>4, <2>5 DEF handleResponse
<1>4. CASE ~(r.id \in live /\ r.id \in DOMAIN pending)
  <2>1. UNCHANGED <<pending, live, unsent, session, profile, epoch, past>>
    BY <1>4 DEF Receive
  <2>2. Shrinks({}) BY <1>2, <2>1 DEF Shrinks
  <2>3. UNCHANGED <<user, token, uncertain, profileRequest, revision, settleLost>>
    BY <2>1 DEF session, profile, past
  <2>4. {} \cap Held(ProfileOperation) = {} /\ {} \cap Settles = {} OBVIOUS
  <2> QED BY <2>2, <2>3, <2>4, QuietKeeps
<1> QED BY <1>3, <1>4

LEMMA FailAccount ==
  ASSUME TypeOK, SafeInv, AccountInv, NEW id, Fail(id)
  PROVE  AccountInv'
<1> DEFINE unknown == id \notin unsent
           op == pending[id].op
<1>1. /\ id \in DOMAIN pending /\ handleTransportFailure(id, unknown)
      /\ UNCHANGED <<linkUp, wires, lastId, ledger>>
  BY DEF Fail
<1>2. WireStep BY <1>1 DEF WireStep, wires
<1>3. Failure(id, unknown) BY <1>1 DEF handleTransportFailure, SafeInv, SessionIsolated
<1>4. unknown \in BOOLEAN /\ (~unknown => Denied(id)) BY DEF Denied
<1> HIDE DEF unknown
<1>5. CASE op \in ProfileOperation /\ EndProfile(id, unknown)
  BY <1>1, <1>2, <1>4, <1>5, EndProfileAccount
<1>6. CASE op \in ChargeMutation /\ ChargeFailure(id, unknown)
  <2>1. op \in ChargeOperation BY <1>6 DEF ChargeOperation
  <2> QED BY <1>1, <1>2, <1>4, <1>6, <2>1, ChargeFailureAccount
<1>7. CASE op \notin ProfileOperation \cup ChargeMutation /\ Ends(id)
  <2>1. "chargeSettle" \in ChargeMutation BY DEF ChargeMutation
  <2> QED BY <1>1, <1>2, <1>7, <2>1, EndsAccount
<1> QED BY <1>3, <1>5, <1>6, <1>7, Zenon DEF Failure

-----------------------------------------------------------------------------
(* The connection is lost, and made again. *)

LEMMA DisconnectAccount ==
  ASSUME TypeOK, SafeInv, AccountInv, Disconnect
  PROVE  AccountInv'
<1>1. /\ Requests' = {} /\ Answers' = {} /\ linkUp' = FALSE /\ upstream' = <<>> /\ downstream' = <<>>
      /\ UNCHANGED <<pending, user, token, uncertain, profileRequest, revision, unsent, lastId,
                     ledger, settleLost>>
  BY DEF Disconnect, Requests, Answers, In, session, profile, past
<1>2. Settles' = Settles /\ \A ops : Held(ops)' = Held(ops) BY <1>1 DEF Settles, Held
<1>3. \A i : Exec(i) => Exec(i)' BY <1>1 DEF Exec, Unasked
<1>4. WireInv'
  <2>1. RequestsSorted(upstream') /\ AnswersSorted(downstream', Held(InTurn)')
    BY <1>1 DEF RequestsSorted, AnswersSorted
  <2> QED BY <1>1, <2>1 DEF WireInv
<1>5. LoginInv' BY <1>1, <1>2 DEF AccountInv, LoginInv
<1>6. OwnInv' /\ AnswerInv' BY <1>1 DEF OwnInv, AnswerInv
<1>7. TurnInv' BY <1>1, <1>2 DEF AccountInv, TurnInv
<1>8. ShownInv' BY <1>1, <1>2, <1>3 DEF AccountInv, ShownInv, ProfileExec, LoggedIn
<1> QED BY <1>4, <1>5, <1>6, <1>7, <1>8 DEF AccountInv

\* The reads that are sent again, in the order of their ids.
LEMMA ReplayFacts ==
  ASSUME TypeOK, SafeInv, NEW s \in InOrder
  PROVE  /\ Replay(s) \in Seq(Message) /\ RequestsSorted(Replay(s))
         /\ \A x \in In(Replay(s)) :
              /\ x.id \in Replayed /\ x.id \in 1..lastId /\ x.id \notin unsent
              /\ x.op = pending[x.id].op /\ x.op \notin Moves
<1> DEFINE n == Cardinality(Replayed)
<1>1. /\ DOMAIN Replay(s) = 1..n /\ DOMAIN s = 1..n
      /\ \A k \in 1..n : /\ Replay(s)[k].id = s[k] /\ Replay(s)[k].op = pending[s[k]].op
                         /\ s[k] \in Replayed
      /\ \A k, l \in 1..n : k < l => s[k] < s[l]
  BY DEF Replay, InOrder
<1> HIDE DEF n
<1>2. \A i \in Replayed :
        /\ i \in 1..lastId /\ i \in Nat /\ i \notin unsent /\ i \in DOMAIN pending
        /\ pending[i].op \notin Moves
  BY TableFacts DEF Replayed, Moves, SafeRead, ProfileMutation
<1>3. RequestsSorted(Replay(s))
  <2> SUFFICES ASSUME NEW k \in 1..n, NEW l \in 1..n, k < l
               PROVE  Replay(s)[k].id # Replay(s)[l].id /\ Replay(s)[k].id < Replay(s)[l].id
    BY <1>1 DEF RequestsSorted
  <2>1. s[k] < s[l] /\ s[k] \in Nat /\ s[l] \in Nat BY <1>1, <1>2
  <2> QED BY <1>1, <2>1
<1>4. ASSUME NEW x \in In(Replay(s))
      PROVE  /\ x.id \in Replayed /\ x.id \in 1..lastId /\ x.id \notin unsent
             /\ x.op = pending[x.id].op /\ x.op \notin Moves
  <2>1. PICK k \in DOMAIN Replay(s) : x = Replay(s)[k] BY DEF In
  <2> QED BY <1>1, <1>2, <2>1
<1>5. Replay(s) \in Seq(Message) BY ReplayTypes
<1> QED BY <1>3, <1>4, <1>5

LEMMA PrependRequest ==
  ASSUME NEW s \in Seq(Message), NEW m \in Message, RequestsSorted(s),
         \A x \in In(s) : x.id # m.id /\ x.op \notin InTurn
  PROVE  /\ RequestsSorted(<<m>> \o s)
         /\ \A x \in In(<<m>> \o s) : x = m \/ x \in In(s)
<1> DEFINE t == <<m>> \o s
<1>1. /\ Len(s) \in Nat /\ DOMAIN s = 1..Len(s) /\ DOMAIN t = 1..(Len(s) + 1)
      /\ t[1] = m /\ \A k \in 2..(Len(s) + 1) : t[k] = s[k - 1] /\ k - 1 \in DOMAIN s
  <2> HIDE DEF Message
  <2> QED OBVIOUS
<1> HIDE DEF t, Message
<1>2. \A k \in DOMAIN t : \/ k = 1
                          \/ k \in 2..(Len(s) + 1) /\ t[k] = s[k - 1] /\ k - 1 \in DOMAIN s
                             /\ s[k - 1] \in In(s)
  BY <1>1 DEF In
<1>3. \A x \in In(t) : x = m \/ x \in In(s) BY <1>1, <1>2 DEF In
<1>4. RequestsSorted(t)
  <2> SUFFICES ASSUME NEW k \in DOMAIN t, NEW l \in DOMAIN t, k < l
               PROVE  /\ t[k].id # t[l].id
                      /\ t[k].op \in InTurn /\ t[l].op \in InTurn => t[k].id < t[l].id
    BY DEF RequestsSorted
  <2>1. l \in 2..(Len(s) + 1) /\ t[l] = s[l - 1] /\ l - 1 \in DOMAIN s /\ s[l - 1] \in In(s)
    BY <1>1, <1>2
  <2>2. CASE k = 1 BY <1>1, <2>1, <2>2
  <2>3. CASE k # 1
    <3>1. t[k] = s[k - 1] /\ k - 1 \in DOMAIN s /\ k - 1 < l - 1 BY <1>1, <1>2, <2>1, <2>3
    <3> QED BY <2>1, <3>1 DEF RequestsSorted
  <2> QED BY <2>2, <2>3
<1> QED BY <1>3, <1>4 DEF t

\* The connection carries what is replayed, and a read that reconciles.
LEMMA ReconcileAccount ==
  ASSUME TypeOK, SafeInv, AccountInv, Connect, Reconciles
  PROVE  AccountInv'
<1> DEFINE id == lastId + 1
           m == [id |-> id, op |-> "profileGet", account |-> token]
<1>1. /\ lastId' = id /\ id \in Nat /\ id # 0 /\ lastId < id /\ id \notin DOMAIN pending
      /\ id \notin unsent /\ id \in 1..id /\ \A i \in 1..lastId : i \in 1..id /\ i # id /\ i # 0
      /\ profileRequest' = id /\ profileRequest = 0 /\ LoggedIn /\ uncertain
      /\ UNCHANGED <<user, token, uncertain, revision, unsent, downstream, ledger, settleLost>>
      /\ linkUp' = TRUE /\ downstream = <<>> /\ token \in Account
  <2>1. unsent \subseteq 1..lastId /\ DOMAIN pending \subseteq 1..lastId /\ lastId \in Nat
        /\ token \in Account \cup {None}
    BY DEF TypeOK
  <2>2. /\ lastId' = id /\ linkUp' = TRUE /\ ~linkUp /\ profileRequest' = lastId'
        /\ UNCHANGED <<user, token, uncertain, revision, unsent, downstream, ledger, settleLost>>
    BY DEF Connect, session, past
  <2>3. profileRequest = 0 /\ LoggedIn /\ uncertain BY DEF Reconciles
  <2> QED BY <2>1, <2>2, <2>3 DEF AccountInv, WireInv, LoggedIn
<1>2. /\ DOMAIN pending' = DOMAIN pending \cup {id}
      /\ pending'[id].op = "profileGet"
      /\ \A i \in DOMAIN pending : pending'[i] = pending[i]
  BY <1>1 DEF Connect, Entry
<1>3. m \in Message /\ m.id = id /\ m.op = "profileGet"
  BY <1>1 DEF Message, Operation, ProfileOperation
<1>4. PICK s \in InOrder : upstream' = <<m>> \o Replay(s) BY <1>1 DEF Connect
<1> HIDE DEF m, id
<1>5. /\ Replay(s) \in Seq(Message) /\ RequestsSorted(Replay(s))
      /\ \A x \in In(Replay(s)) :
           /\ x.id \in Replayed /\ x.id \in 1..lastId /\ x.id \notin unsent
           /\ x.op = pending[x.id].op /\ x.op \notin Moves
  BY ReplayFacts
<1>6. \A x \in In(Replay(s)) : x.op \notin InTurn /\ x.id \in DOMAIN pending
  <2>1. \A i \in Replayed : i \in DOMAIN pending /\ pending[i].op \in SafeRead \cup {"profileGet"}
    BY DEF Replayed
  <2>2. \A i \in Replayed : pending[i].op # "profileGet"
    BY <1>1, <2>1, TableFacts, OpFacts
  <2>3. SafeRead \cap InTurn = {} BY DEF SafeRead, InTurn, Moves, ProfileMutation
  <2> QED BY <1>5, <2>1, <2>2, <2>3
<1>7. /\ RequestsSorted(upstream')
      /\ \A x \in Requests' : x = m \/ x \in In(Replay(s))
  <2>1. \A x \in In(Replay(s)) : x.id # m.id /\ x.op \notin InTurn BY <1>1, <1>3, <1>5, <1>6
  <2>2. Requests' = In(<<m>> \o Replay(s)) BY <1>4 DEF Requests, In
  <2> HIDE DEF Message
  <2>3. /\ RequestsSorted(<<m>> \o Replay(s))
        /\ \A x \in In(<<m>> \o Replay(s)) : x = m \/ x \in In(Replay(s))
    BY <1>3, <1>5, <2>1, PrependRequest
  <2> QED BY <1>4, <2>2, <2>3
<1>8. Answers' = {} BY <1>1 DEF Answers, In
<1>9. Settles' = Settles /\ Settles \ unsent = {} /\ Held({"login"})' = Held({"login"})
  <2>1. live \ unsent \subseteq Replayed BY DEF Connect
  <2>2. \A i \in Replayed : pending[i].op # "chargeSettle" BY DEF Replayed, SafeRead
  <2>3. Settles \subseteq live BY TableFacts DEF Settles, Held
  <2> QED BY <1>1, <1>2, <2>1, <2>2, <2>3 DEF Settles, Held
<1>10. WireInv'
  <2>1. \A x \in Requests' :
          /\ x.id \in 1..lastId' /\ x.id \notin unsent'
          /\ x.id \in DOMAIN pending' => pending'[x.id].op = x.op
    BY <1>1, <1>2, <1>3, <1>5, <1>6, <1>7
  <2>2. AnswersSorted(downstream', Held(InTurn)') BY <1>1 DEF AnswersSorted
  <2> QED BY <1>1, <1>7, <1>8, <2>1, <2>2 DEF WireInv
<1>11. LoginInv'
  <2>1. Held({"login"}) = {} BY <1>1 DEF AccountInv, LoginInv, LoggedIn
  <2> QED BY <1>9, <2>1 DEF LoginInv
<1>12. OwnInv'
  <2>1. \A x \in Requests' : x.op \notin Moves
    BY <1>3, <1>5, <1>7 DEF Moves, ProfileMutation
  <2> QED BY <2>1, OpFacts DEF OwnInv
<1>13. TurnInv' BY <1>1, <1>2, <1>9, OpFacts DEF TurnInv
<1>14. AnswerInv' /\ ShownInv' BY <1>1, <1>8 DEF AnswerInv, ShownInv
<1> QED BY <1>10, <1>11, <1>12, <1>13, <1>14 DEF AccountInv

LEMMA ConnectAccount ==
  ASSUME TypeOK, SafeInv, AccountInv, Connect
  PROVE  AccountInv'
<1>1. CASE Reconciles BY <1>1, ReconcileAccount
<1>2. CASE ~Reconciles
  <2>1. PICK s \in InOrder : upstream' = Replay(s) BY <1>2 DEF Connect
  <2>2. /\ UNCHANGED <<lastId, pending, profileRequest, user, token, uncertain, revision, unsent,
                       downstream, ledger, settleLost>>
        /\ linkUp' = TRUE /\ downstream = <<>>
    BY <1>2 DEF Connect, session, past, AccountInv, WireInv
  <2>3. /\ Replay(s) \in Seq(Message) /\ RequestsSorted(Replay(s))
        /\ \A x \in In(Replay(s)) :
             /\ x.id \in Replayed /\ x.id \in 1..lastId /\ x.id \notin unsent
             /\ x.op = pending[x.id].op /\ x.op \notin Moves
    BY ReplayFacts
  <2>4. Requests' = In(Replay(s)) /\ Answers' = {} BY <2>1, <2>2 DEF Requests, Answers, In
  <2>5. Settles' = Settles /\ \A ops : Held(ops)' = Held(ops) BY <2>2 DEF Settles, Held
  <2>6. \A i \in DOMAIN pending : pending[i].op \in Moves /\ Exec(i) => Exec(i)'
    BY <2>2, <2>3, <2>4 DEF Exec, Unasked
  <2>7. WireInv'
    <3>1. AnswersSorted(downstream', Held(InTurn)') BY <2>2 DEF AnswersSorted
    <3> QED BY <2>1, <2>2, <2>3, <2>4, <3>1 DEF WireInv
  <2>8. LoginInv' BY <2>2, <2>3, <2>4, <2>5 DEF AccountInv, LoginInv
  <2>9. OwnInv' BY <2>3, <2>4, OpFacts DEF OwnInv
  <2>10. TurnInv' BY <2>2, <2>3, <2>4, <2>5, OpFacts DEF AccountInv, TurnInv
  <2>11. AnswerInv' BY <2>4 DEF AnswerInv
  <2>12. ShownInv'
    <3>1. \A x \in Settles : Exec(x) => Exec(x)'
      BY <2>6, OpFacts DEF Settles, Held
    <3>2. \A o \in ProfileMutation : ProfileExec(o) => ProfileExec(o)'
      BY <2>2, <2>6, OpFacts, TableFacts DEF ProfileExec
    <3> QED BY <2>2, <2>5, <3>1, <3>2, OpFacts DEF AccountInv, ShownInv, LoggedIn
  <2> QED BY <2>7, <2>8, <2>9, <2>10, <2>11, <2>12 DEF AccountInv
<1> QED BY <1>1, <1>2

-----------------------------------------------------------------------------
(* The server. *)

\* What one request changes.
LEMMA EffectFacts ==
  ASSUME NEW op, NEW row \in [nickname : Nat, balance : Nat]
  PROVE  /\ op \notin Moves => Effect(op, row) = row
         /\ op # "profileUpdate" => Effect(op, row).nickname = row.nickname
         /\ op \notin {"profileRecharge", "chargeSettle"} => Effect(op, row).balance = row.balance
BY DEF Effect, Moves, ProfileMutation

\* The request m is served with the answer r.
Serves(m, r) ==
  /\ upstream # <<>> /\ m = Head(upstream) /\ upstream' = Tail(upstream)
  /\ downstream' = Append(downstream, r)
  /\ m \in Requests /\ m \in Message /\ r \in Response
  /\ r.id = m.id /\ r.user.account = m.account
  /\ r.user.nickname = ledger'[m.account].nickname
  /\ r.user.balance = ledger'[m.account].balance
  /\ m.op \notin Moves \/ r.result \notin Executed => ledger' = ledger
  /\ \A b \in Account :
       /\ b # m.account \/ m.op # "profileUpdate" => ledger'[b].nickname = ledger[b].nickname
       /\ b # m.account \/ m.op \notin {"profileRecharge", "chargeSettle"} =>
            ledger'[b].balance = ledger[b].balance
  /\ UNCHANGED <<pending, user, token, uncertain, profileRequest, revision, unsent, lastId, linkUp,
                 settleLost>>

LEMMA ServeFacts ==
  ASSUME TypeOK, Serve
  PROVE  \E m, r : Serves(m, r)
<1> DEFINE m == Head(upstream)
<1>1. upstream # <<>> /\ upstream' = Tail(upstream) /\ m \in Requests /\ m \in Message
  <2>1. upstream # <<>> /\ upstream' = Tail(upstream) /\ upstream \in Seq(Message)
    BY DEF Serve, TypeOK
  <2> HIDE DEF Message
  <2> QED BY <2>1, TailIn, WireTypes DEF Requests
<1>2. PICK result \in Result :
        /\ ledger' = IF result \in {"ok", "malformed"}
                     THEN [ledger EXCEPT ![m.account] = Effect(m.op, @)] ELSE ledger
        /\ downstream' = Append(downstream,
             [id |-> m.id, result |-> result,
              user |-> [account |-> m.account, nickname |-> ledger'[m.account].nickname,
                        balance |-> ledger'[m.account].balance]])
  BY DEF Serve
<1> DEFINE r == [id |-> m.id, result |-> result,
                 user |-> [account |-> m.account, nickname |-> ledger'[m.account].nickname,
                           balance |-> ledger'[m.account].balance]]
<1>3. m.id \in Nat /\ m.account \in Account /\ ledger \in [Account -> [nickname : Nat, balance : Nat]]
  BY <1>1 DEF Message, TypeOK
<1> HIDE DEF m
<1>4. Effect(m.op, ledger[m.account]) \in [nickname : Nat, balance : Nat]
  BY <1>3, EffectTypes
<1>5. ledger' \in [Account -> [nickname : Nat, balance : Nat]] BY <1>2, <1>3, <1>4
<1>6. r \in Response BY <1>3, <1>5 DEF Response, Profile
<1>7. /\ r.id = m.id /\ r.result = result /\ r.user.account = m.account
      /\ r.user.nickname = ledger'[m.account].nickname
      /\ r.user.balance = ledger'[m.account].balance
  OBVIOUS
<1>8. m.op \notin Moves \/ result \notin Executed => ledger' = ledger
  <2>1. CASE result \notin Executed BY <1>2, <2>1 DEF Executed
  <2>2. CASE result \in Executed /\ m.op \notin Moves
    <3>1. Effect(m.op, ledger[m.account]) = ledger[m.account] BY <1>3, <2>2, EffectFacts
    <3> QED BY <1>2, <1>3, <2>2, <3>1 DEF Executed
  <2> QED BY <2>1, <2>2
<1>9. \A b \in Account :
        /\ b # m.account \/ m.op # "profileUpdate" => ledger'[b].nickname = ledger[b].nickname
        /\ b # m.account \/ m.op \notin {"profileRecharge", "chargeSettle"} =>
             ledger'[b].balance = ledger[b].balance
  <2>1. /\ m.op # "profileUpdate" =>
             Effect(m.op, ledger[m.account]).nickname = ledger[m.account].nickname
        /\ m.op \notin {"profileRecharge", "chargeSettle"} =>
             Effect(m.op, ledger[m.account]).balance = ledger[m.account].balance
    BY <1>3, EffectFacts
  <2> QED BY <1>2, <1>3, <2>1
<1>10. UNCHANGED <<pending, user, token, uncertain, profileRequest, revision, unsent, lastId, linkUp,
                   settleLost>>
  BY DEF Serve, session, profile, past
<1>11. downstream' = Append(downstream, r) BY <1>2
<1> HIDE DEF r
<1> QED BY <1>1, <1>6, <1>7, <1>8, <1>9, <1>10, <1>11 DEF Serves, m

LEMMA ServeWire ==
  ASSUME TypeOK, SafeInv, AccountInv, NEW m, NEW r, Serves(m, r)
  PROVE  /\ WireInv'
         /\ Requests' \subseteq Requests /\ Answers' = Answers \cup {r}
         /\ m.id \in 1..lastId /\ m.id \notin unsent /\ \A a \in Answers : a.id # m.id
         /\ m.op \in InTurn => \A a \in Answers : a.id \in Held(InTurn) => a.id < m.id
         /\ \A i : Exec(i) => Exec(i)'
         /\ r.result \in Executed => Exec(m.id)'
<1>1. upstream \in Seq(Message) /\ downstream \in Seq(Response) /\ RequestsSorted(upstream)
      /\ AnswersSorted(downstream, Held(InTurn))
  BY DEF TypeOK, AccountInv, WireInv
<1>2. /\ Requests' = In(Tail(upstream)) /\ Requests' \subseteq Requests
      /\ RequestsSorted(upstream')
      /\ \A x \in Requests' : x.id # m.id /\ (m.op \in InTurn /\ x.op \in InTurn => m.id < x.id)
  <2> HIDE DEF Message
  <2>1. Requests' = In(Tail(upstream)) BY DEF Serves, Requests, In
  <2>2. In(Tail(upstream)) \subseteq In(upstream) BY <1>1, TailIn DEF Serves
  <2>3. /\ RequestsSorted(Tail(upstream))
        /\ \A x \in In(Tail(upstream)) :
             /\ x.id # Head(upstream).id
             /\ Head(upstream).op \in InTurn /\ x.op \in InTurn => Head(upstream).id < x.id
    BY <1>1, TailRequests DEF Serves
  <2> QED BY <2>1, <2>2, <2>3 DEF Serves, Requests
<1>3. Answers' = Answers \cup {r}
  <2> HIDE DEF Response
  <2>1. r \in Response BY DEF Serves
  <2>2. In(Append(downstream, r)) = In(downstream) \cup {r} BY <1>1, <2>1, AppendIn
  <2>3. Answers' = In(Append(downstream, r)) BY DEF Serves, Answers, In
  <2> QED BY <2>2, <2>3 DEF Answers
<1>4. /\ m.id \in 1..lastId /\ m.id \notin unsent /\ m \in Requests /\ r.id = m.id
      /\ m.id \in DOMAIN pending => pending[m.id].op = m.op
      /\ \A a \in Answers : a.id # m.id
      /\ m.op \in InTurn => \A a \in Answers : a.id \in Held(InTurn) => a.id < m.id
      /\ UNCHANGED <<pending, unsent, lastId, linkUp>>
  BY DEF Serves, AccountInv, WireInv
<1>5. \A ops : Held(ops)' = Held(ops) BY <1>4 DEF Held
<1>6. m.id \in Held(InTurn) => m.op \in InTurn BY <1>4 DEF Held
<1>7. WireInv'
  <2>1. \A x \in Requests' :
          /\ x.id \in 1..lastId' /\ x.id \notin unsent'
          /\ x.id \in DOMAIN pending' => pending'[x.id].op = x.op
    BY <1>2, <1>4 DEF AccountInv, WireInv
  <2>2. \A a \in Answers' : a.id \in 1..lastId' /\ a.id \notin unsent'
    BY <1>3, <1>4 DEF AccountInv, WireInv
  <2>3. \A x \in Requests', a \in Answers' :
          /\ x.id # a.id
          /\ x.op \in InTurn /\ a.id \in Held(InTurn)' => a.id < x.id
    <3> SUFFICES ASSUME NEW x \in Requests', NEW a \in Answers'
                 PROVE  /\ x.id # a.id
                        /\ x.op \in InTurn /\ a.id \in Held(InTurn) => a.id < x.id
      BY <1>5
    <3>1. CASE a \in Answers BY <1>2, <3>1 DEF AccountInv, WireInv
    <3>2. CASE a = r BY <1>2, <1>4, <1>6, <3>2
    <3> QED BY <1>3, <3>1, <3>2
  <2>4. AnswersSorted(downstream', Held(InTurn)')
    <3>1. \A a \in In(downstream) : a.id \in Held(InTurn) /\ r.id \in Held(InTurn) => a.id <= r.id
      <4>1. \A a \in Answers : a.id \in Nat BY WireTypes
      <4> QED BY <1>4, <1>6, <4>1, TableFacts DEF Answers
    <3> HIDE DEF Response
    <3>2. r \in Response BY DEF Serves
    <3>3. AnswersSorted(Append(downstream, r), Held(InTurn)) BY <1>1, <3>1, <3>2, AppendAnswer
    <3> QED BY <1>5, <3>3 DEF Serves
  <2>5. linkUp' BY <1>4 DEF Serves, AccountInv, WireInv
  <2> QED BY <1>2, <2>1, <2>2, <2>3, <2>4, <2>5 DEF WireInv
<1>8. \A i : Exec(i) => Exec(i)'
  BY <1>2, <1>3, <1>4 DEF Exec, Unasked
<1>9. r.result \in Executed => Exec(m.id)'
  BY <1>2, <1>3, <1>4 DEF Exec, Unasked
<1> QED BY <1>2, <1>3, <1>4, <1>7, <1>8, <1>9

LEMMA ServeAccount ==
  ASSUME TypeOK, SafeInv, AccountInv, Serve
  PROVE  AccountInv'
<1>1. PICK m, r : Serves(m, r) BY ServeFacts
<1>2. /\ WireInv'
      /\ Requests' \subseteq Requests /\ Answers' = Answers \cup {r}
      /\ m.id \in 1..lastId /\ m.id \notin unsent /\ \A a \in Answers : a.id # m.id
      /\ m.op \in InTurn => \A a \in Answers : a.id \in Held(InTurn) => a.id < m.id
      /\ \A i : Exec(i) => Exec(i)'
      /\ r.result \in Executed => Exec(m.id)'
  BY <1>1, ServeWire
<1>3. /\ m \in Requests /\ r.id = m.id /\ r.user.account = m.account
      /\ r.user.nickname = ledger'[m.account].nickname
      /\ r.user.balance = ledger'[m.account].balance
      /\ m.op \notin Moves \/ r.result \notin Executed => ledger' = ledger
      /\ \A b \in Account :
           /\ b # m.account \/ m.op # "profileUpdate" => ledger'[b].nickname = ledger[b].nickname
           /\ b # m.account \/ m.op \notin {"profileRecharge", "chargeSettle"} =>
                ledger'[b].balance = ledger[b].balance
      /\ UNCHANGED <<pending, user, token, uncertain, profileRequest, revision, unsent, settleLost>>
  BY <1>1 DEF Serves
<1>4. /\ Settles' = Settles /\ \A ops : Held(ops)' = Held(ops)
      /\ LoggedIn' = LoggedIn /\ \A o : ProfileExec(o) => ProfileExec(o)'
  BY <1>2, <1>3 DEF Settles, Held, LoggedIn, ProfileExec
<1>5. m.id \in Nat /\ m.id # 0 /\ \A a \in Answers : a.id \in Nat /\ a.id # 0
  BY <1>2, WireTypes, TableFacts DEF AccountInv, WireInv
<1>6. m.id \in DOMAIN pending => pending[m.id].op = m.op BY <1>3 DEF AccountInv, WireInv
<1>7. /\ profileRequest # 0 => profileRequest \in Held(InTurn) /\ profileRequest \in DOMAIN pending
      /\ \A s \in Settles : s \in Held(InTurn) /\ s \in Nat
      /\ profileRequest \in Nat
  BY TableFacts, OpFacts DEF Held, Settles
<1>8. LoggedIn => token \in Account BY DEF LoggedIn, TypeOK
<1>9. LoginInv'
  <2> SUFFICES ASSUME NEW q \in Held({"login"}) PROVE
        \A a \in Answers' : a.id = q =>
          /\ a.user.nickname = ledger'[a.user.account].nickname
          /\ a.user.balance = ledger'[a.user.account].balance
    BY <1>2, <1>3, <1>4 DEF AccountInv, LoginInv
  <2> SUFFICES ASSUME NEW a \in Answers, a.id = q PROVE
          /\ a.user.nickname = ledger'[a.user.account].nickname
          /\ a.user.balance = ledger'[a.user.account].balance
    BY <1>2, <1>3
  <2>1. a.id \in Held(InTurn) /\ q \in Nat BY OpFacts, TableFacts DEF Held
  <2>2. m.op \in Moves => m.id < q BY <1>3 DEF AccountInv, LoginInv
  <2>3. m.op \notin Moves BY <1>2, <1>5, <2>1, <2>2, OpFacts
  <2> QED BY <1>3, <2>3 DEF AccountInv, LoginInv
<1>10. OwnInv' BY <1>2, <1>3, <1>4 DEF AccountInv, OwnInv
<1>11. TurnInv' BY <1>2, <1>3, <1>4 DEF AccountInv, TurnInv
<1>12. LoggedIn /\ m.account = token =>
        /\ m.op \in ProfileMutation =>
             /\ m.id = profileRequest \/ (uncertain /\ (profileRequest # 0 => m.id < profileRequest))
             /\ \A s \in Settles \ unsent : m.id < s
        /\ m.op = "chargeSettle" => m.id \in Settles \/ settleLost
  BY <1>3 DEF AccountInv, OwnInv
<1>13. AnswerInv'
  <2> SUFFICES ASSUME LoggedIn, NEW a \in Answers', a.user.account = token PROVE
        /\ a.id = profileRequest => a.user.nickname = ledger'[token].nickname
        /\ ~settleLost /\ a.id \in Settles \cup {profileRequest} =>
             \/ a.user.balance = ledger'[token].balance
             \/ \E s \in Settles : a.id < s /\ Exec(s)'
    BY <1>3, <1>4 DEF AnswerInv
  <2>1. CASE a = r BY <1>3, <2>1
  <2>2. CASE a \in Answers
    <3>1. /\ a.id = profileRequest => a.user.nickname = ledger[token].nickname
          /\ ~settleLost /\ a.id \in Settles \cup {profileRequest} =>
               \/ a.user.balance = ledger[token].balance
               \/ \E s \in Settles : a.id < s /\ Exec(s)
      BY <2>2 DEF AccountInv, AnswerInv
    <3>2. a.id \in Settles \cup {profileRequest} => a.id \in Held(InTurn)
      BY <1>5, <1>7, <2>2
    <3>3. m.op \in Moves /\ a.id \in Settles \cup {profileRequest} => a.id < m.id
      BY <1>2, <2>2, <3>2, OpFacts
    <3>4. a.id = profileRequest => a.user.nickname = ledger'[token].nickname
      <4> SUFFICES ASSUME a.id = profileRequest, m.account = token, m.op = "profileUpdate" PROVE FALSE
        BY <1>3, <1>8, <3>1
      <4> QED BY <1>5, <1>7, <1>12, <2>2, <3>3, OpFacts
    <3>5. ASSUME ~settleLost, a.id \in Settles \cup {profileRequest}
          PROVE  \/ a.user.balance = ledger'[token].balance
                 \/ \E s \in Settles : a.id < s /\ Exec(s)'
      <4>1. CASE ledger'[token].balance = ledger[token].balance
        BY <1>2, <3>1, <3>5, <4>1
      <4>2. CASE ledger'[token].balance # ledger[token].balance
        <5>1. /\ m.account = token /\ m.op \in {"profileRecharge", "chargeSettle"}
              /\ r.result \in Executed
          BY <1>3, <1>8, <4>2
        <5>2. a.id < m.id BY <3>3, <3>5, <5>1, OpFacts
        <5>3. CASE m.op = "profileRecharge"
          <6>1. m.id = profileRequest \/ (profileRequest # 0 => m.id < profileRequest)
            BY <1>12, <5>1, <5>3, OpFacts
          <6>2. a.id # profileRequest BY <1>5, <1>7, <2>2, <5>2, <6>1
          <6>3. a.id \in Settles \ unsent BY <2>2, <3>5, <6>2 DEF AccountInv, WireInv
          <6>4. m.id < a.id BY <1>12, <5>1, <5>3, <6>3, OpFacts
          <6> QED BY <1>5, <2>2, <5>2, <6>4
        <5>4. CASE m.op = "chargeSettle"
          BY <1>2, <1>12, <3>5, <5>1, <5>2, <5>4
        <5> QED BY <5>1, <5>3, <5>4
      <4> QED BY <4>1, <4>2
    <3> QED BY <3>4, <3>5
  <2> QED BY <1>2, <2>1, <2>2
<1>14. ShownInv'
  <2> SUFFICES ASSUME LoggedIn, ~uncertain PROVE
        /\ user.nickname = ledger'[token].nickname \/ ProfileExec("profileUpdate")'
        /\ \/ settleLost
           \/ user.balance = ledger'[token].balance
           \/ ProfileExec("profileRecharge")'
           \/ \E s \in Settles : Exec(s)'
    BY <1>3, <1>4 DEF ShownInv
  <2>1. /\ user.nickname = ledger[token].nickname \/ ProfileExec("profileUpdate")
        /\ \/ settleLost
           \/ user.balance = ledger[token].balance
           \/ ProfileExec("profileRecharge")
           \/ \E s \in Settles : Exec(s)
    BY DEF AccountInv, ShownInv
  <2>2. ASSUME m.account = token, m.op \in ProfileMutation, r.result \in Executed
        PROVE  ProfileExec(m.op)'
    <3>1. m.id = profileRequest BY <1>12, <2>2
    <3>2. pending[profileRequest].op = m.op BY <1>5, <1>6, <1>7, <3>1
    <3> QED BY <1>2, <1>3, <1>5, <2>2, <3>1, <3>2 DEF ProfileExec
  <2>3. user.nickname = ledger'[token].nickname \/ ProfileExec("profileUpdate")'
    <3>1. CASE ledger'[token].nickname = ledger[token].nickname BY <1>4, <2>1, <3>1
    <3>2. CASE ledger'[token].nickname # ledger[token].nickname
      <4>1. m.account = token /\ m.op = "profileUpdate" /\ r.result \in Executed
        BY <1>3, <1>8, <3>2
      <4> QED BY <2>2, <4>1, OpFacts
    <3> QED BY <3>1, <3>2
  <2>4. \/ settleLost
        \/ user.balance = ledger'[token].balance
        \/ ProfileExec("profileRecharge")'
        \/ \E s \in Settles : Exec(s)'
    <3>1. CASE ledger'[token].balance = ledger[token].balance BY <1>2, <1>4, <2>1, <3>1
    <3>2. CASE ledger'[token].balance # ledger[token].balance
      <4>1. /\ m.account = token /\ m.op \in {"profileRecharge", "chargeSettle"}
            /\ r.result \in Executed
        BY <1>3, <1>8, <3>2
      <4>2. CASE m.op = "profileRecharge" BY <2>2, <4>1, <4>2, OpFacts
      <4>3. CASE m.op = "chargeSettle" BY <1>2, <1>12, <4>1, <4>3
      <4> QED BY <4>1, <4>2, <4>3
    <3> QED BY <3>1, <3>2
  <2> QED BY <2>3, <2>4
<1> QED BY <1>2, <1>9, <1>10, <1>11, <1>13, <1>14 DEF AccountInv

-----------------------------------------------------------------------------
(* The invariant is inductive. *)

LEMMA InitAccount == Init => AccountInv
<1> SUFFICES ASSUME Init PROVE AccountInv
  OBVIOUS
<1>1. /\ Requests = {} /\ Answers = {} /\ upstream = <<>> /\ downstream = <<>>
      /\ DOMAIN pending = {} /\ user = NoUser /\ profileRequest = 0
  BY DEF Init, Requests, Answers, In
<1>2. Settles = {} /\ Held({"login"}) = {} BY <1>1 DEF Settles, Held
<1>3. WireInv
  <2>1. RequestsSorted(upstream) /\ AnswersSorted(downstream, Held(InTurn))
    BY <1>1 DEF RequestsSorted, AnswersSorted
  <2> QED BY <1>1, <2>1 DEF WireInv
<1>4. ~LoggedIn BY <1>1 DEF LoggedIn
<1> QED BY <1>1, <1>2, <1>3, <1>4
    DEF AccountInv, LoginInv, OwnInv, TurnInv, AnswerInv, ShownInv

LEMMA AccountStep == ~ProfileDuringCharge /\ ApiInv /\ AccountInv /\ [Next]_vars => AccountInv'
<1> SUFFICES ASSUME ~ProfileDuringCharge, TypeOK, SafeInv, AccountInv, [Next]_vars PROVE AccountInv'
  BY DEF ApiInv
<1>1. CASE Pages BY <1>1, PagesKeep
<1>2. CASE Receive BY <1>2, ReceiveAccount
<1>3. CASE \E id \in 1..lastId : Fail(id) BY <1>3, FailAccount
<1>4. CASE Disconnect BY <1>4, DisconnectAccount
<1>5. CASE Connect BY <1>5, ConnectAccount
<1>6. CASE Serve BY <1>6, ServeAccount
<1>7. CASE UNCHANGED vars
  BY <1>7 DEF vars, session, profile, wires, past, AccountInv, WireInv, LoginInv, OwnInv, TurnInv,
     AnswerInv, ShownInv, Requests, Answers, In, Settles, Held, LoggedIn, ProfileExec, Exec, Unasked
<1> QED BY <1>1, <1>2, <1>3, <1>4, <1>5, <1>6, <1>7 DEF Next, Transport

LEMMA AccountImplies == ApiInv /\ AccountInv => ShownIsCurrent
<1> SUFFICES ASSUME TypeOK, SafeInv, AccountInv, LoggedIn,
                    Held(ProfileOperation \cup {"chargeSettle"}) = {}, ~uncertain, ~settleLost
             PROVE  /\ user.nickname = ledger[user.account].nickname
                    /\ user.balance = ledger[user.account].balance
  BY DEF ApiInv, ShownIsCurrent
<1>1. Settles = {} /\ profileRequest = 0
  <2>1. Settles = {} /\ Held(ProfileOperation) = {} BY DEF Settles, Held
  <2> QED BY <2>1, TableFacts DEF Held
<1>2. token = user.account BY DEF LoggedIn, SafeInv, SessionIsolated
<1> QED BY <1>1, <1>2 DEF AccountInv, ShownInv, ProfileExec

-----------------------------------------------------------------------------

\* With no operation on the account under way, and no doubt reported, the
\* nickname and the balance on show are the server's, after any losses, timeouts
\* and answers that do not decode - as long as no profile operation is started
\* during a charge mutation, which MainWindow prevents.
THEOREM ShownAccountIsCurrent == ~ProfileDuringCharge /\ Spec => []ShownIsCurrent
<1>1. CASE ~ProfileDuringCharge
  <2>1. Init => AccountInv BY InitAccount
  <2>2. ApiInv /\ AccountInv /\ [Next]_vars => AccountInv' BY <1>1, AccountStep
  <2>3. ApiInv /\ AccountInv => ShownIsCurrent BY AccountImplies
  <2>4. Spec => []ShownIsCurrent BY <2>1, <2>2, <2>3, InitInv, NextInv, PTL DEF Spec
  <2> QED BY <2>4
<1>2. CASE ProfileDuringCharge BY <1>2
<1> QED BY <1>1, <1>2, UserApiAssumption DEF UserApiAssumption

=============================================================================
