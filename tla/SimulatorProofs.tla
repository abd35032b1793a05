--------------------------- MODULE SimulatorProofs ---------------------------
(***************************************************************************)
(* Proofs about Simulator for any number of chargers, any snapshots of the *)
(* peer, any queue bound and any bounds of the model; then about           *)
(* SimulatorServer: its server is one of the peers that Simulator allows,  *)
(* and its cursors never refuse a sample when the interval of the          *)
(* telemetry is at least the second that recordedAt keeps.                 *)
(***************************************************************************)
EXTENDS SimulatorServer, TLAPS

\* All samples written or queued are from simulated times that have passed.
NoneLater == \A i \in DOMAIN (log \o queue) : (log \o queue)[i].at <= time

\* flushPending empties the queue before anything else is sent.
NothingQueuedOnline == link = "connected" => queue = <<>>

LinkInv == NeverStranded /\ TimerSparesConnection /\ NoBytesAcrossConnections
OrderInv == SamplesInOrder /\ NoneLater /\ NothingQueuedOnline

\* The samples of a doTick.
Batch(t) == [c \in DOMAIN chargers |-> Sample(c, t)]

-----------------------------------------------------------------------------
(* Sequences. *)

\* Where the elements of a concatenation come from.
LEMMA ConcatFacts ==
  ASSUME NEW T, NEW p \in Seq(T), NEW q \in Seq(T)
  PROVE  /\ p \o q \in Seq(T)
         /\ DOMAIN (p \o q) = 1..(Len(p) + Len(q))
         /\ \A i \in 1..Len(p) : (p \o q)[i] = p[i]
         /\ \A i \in 1..Len(q) : (p \o q)[Len(p) + i] = q[i]
OBVIOUS

\* One sample per charger, in the order of the ids.
LEMMA BatchFacts ==
  ASSUME SimulatorAssumption, chargers \in {<<>>} \cup [Charger -> Status], NEW t \in Nat
  PROVE  /\ Batch(t) \in Seq(Telemetry)
         /\ \A i \in DOMAIN Batch(t) : Batch(t)[i].charger = i /\ Batch(t)[i].at = t
<1>1. CASE chargers = <<>>
  <2>1. DOMAIN chargers = {} BY <1>1
  <2>2. Batch(t) = <<>> BY <2>1 DEF Batch
  <2> QED BY <2>2
<1>2. CASE chargers \in [Charger -> Status]
  <2>1. DOMAIN chargers = 1..N BY <1>2 DEF Charger
  <2>2. \A c \in 1..N : Sample(c, t) \in Telemetry
    BY <1>2 DEF Sample, Telemetry, Charger
  <2>3. N \in Nat BY DEF SimulatorAssumption
  <2>4. Batch(t) \in [1..N -> Telemetry] BY <2>1, <2>2 DEF Batch
  <2>5. \A c \in 1..N : Batch(t)[c].charger = c /\ Batch(t)[c].at = t
    BY <2>1 DEF Batch, Sample
  <2>6. DOMAIN Batch(t) = 1..N BY <2>1 DEF Batch
  <2> QED BY <2>3, <2>4, <2>5, <2>6
<1> QED BY <1>1, <1>2

\* Enqueue keeps a suffix of at most MaxQueue samples.
LEMMA EnqueueFacts ==
  ASSUME SimulatorAssumption, NEW q \in Seq(Telemetry), NEW b \in Seq(Telemetry)
  PROVE  /\ Enqueue(q, b) \in Seq(Telemetry)
         /\ Len(Enqueue(q, b)) <= MaxQueue
         /\ \E d \in Nat : /\ d <= Len(q \o b)
                           /\ Len(Enqueue(q, b)) = Len(q \o b) - d
                           /\ \A i \in 1..Len(Enqueue(q, b)) : Enqueue(q, b)[i] = (q \o b)[d + i]
<1> DEFINE all == q \o b
           d == IF Len(all) > MaxQueue THEN Len(all) - MaxQueue ELSE 0
<1>1. all \in Seq(Telemetry) /\ Len(all) \in Nat OBVIOUS
<1>2. MaxQueue \in Nat BY DEF SimulatorAssumption
<1>3. Enqueue(q, b) = SubSeq(all, d + 1, Len(all)) BY <1>1, <1>2 DEF Enqueue
<1>4. d \in Nat /\ d <= Len(all) /\ Len(all) - d <= MaxQueue BY <1>1, <1>2
<1> HIDE DEF all, d
<1>5. SubSeq(all, d + 1, Len(all)) \in Seq(Telemetry) BY <1>1, <1>4
<1>6. Len(SubSeq(all, d + 1, Len(all))) = Len(all) - d BY <1>1, <1>4
<1>7. \A i \in 1..(Len(all) - d) : SubSeq(all, d + 1, Len(all))[i] = all[d + i]
  BY <1>1, <1>4
<1>8. \E x \in Nat : /\ x <= Len(all)
                     /\ Len(Enqueue(q, b)) = Len(all) - x
                     /\ \A i \in 1..Len(Enqueue(q, b)) : Enqueue(q, b)[i] = all[x + i]
  BY <1>3, <1>4, <1>6, <1>7
<1> QED BY <1>3, <1>4, <1>5, <1>6, <1>8 DEF all

\* A batch of later samples, one per charger, keeps a sequence ordered.
LEMMA OrderedBatch ==
  ASSUME NEW s \in Seq(Telemetry), NEW b \in Seq(Telemetry), NEW t \in Nat, NEW u \in Nat,
         t < u, Ordered(s),
         \A i \in DOMAIN s : s[i].at <= t,
         \A i \in DOMAIN b : b[i].charger = i /\ b[i].at = u
  PROVE  Ordered(s \o b) /\ \A i \in DOMAIN (s \o b) : (s \o b)[i].at <= u
<1> DEFINE a == s \o b
<1>1. Len(a) = Len(s) + Len(b) /\ DOMAIN a = 1..Len(a) /\ Len(s) \in Nat /\ Len(b) \in Nat
  OBVIOUS
<1>2. \A i \in 1..Len(s) : a[i] = s[i] OBVIOUS
<1>3. \A i \in (Len(s) + 1)..Len(a) : i - Len(s) \in DOMAIN b /\ a[i] = b[i - Len(s)]
  OBVIOUS
<1>4. \A i \in DOMAIN s : s[i].at \in Nat
  <2>1. \A i \in DOMAIN s : s[i] \in Telemetry OBVIOUS
  <2>2. \A m \in Telemetry : m.at \in Nat BY DEF Telemetry
  <2> QED BY <2>1, <2>2
<1>5. DOMAIN s = 1..Len(s) OBVIOUS
<1> HIDE DEF a
<1>6. \A i \in DOMAIN a : a[i].at <= u
  <2> SUFFICES ASSUME NEW i \in DOMAIN a PROVE a[i].at <= u OBVIOUS
  <2>1. CASE i <= Len(s) BY <2>1, <1>1, <1>2, <1>4, <1>5
  <2>2. CASE i > Len(s) BY <2>2, <1>1, <1>3
  <2> QED BY <2>1, <2>2, <1>1
<1>7. Ordered(a)
  <2> SUFFICES ASSUME NEW i \in DOMAIN a, NEW j \in DOMAIN a,
                      i < j, a[i].charger = a[j].charger
               PROVE  a[i].at < a[j].at
    BY DEF Ordered
  <2>1. CASE j <= Len(s) BY <2>1, <1>1, <1>2, <1>5 DEF Ordered
  <2>2. CASE i <= Len(s) /\ j > Len(s) BY <2>2, <1>1, <1>2, <1>3, <1>4, <1>5
  <2>3. CASE i > Len(s) BY <2>3, <1>1, <1>3
  <2> QED BY <2>1, <2>2, <2>3, <1>1
<1> QED BY <1>6, <1>7 DEF a

\* Dropping d elements after a prefix keeps a sequence ordered.
LEMMA OrderedDrop ==
  ASSUME NEW s \in Seq(Telemetry), NEW a \in Seq(Telemetry), NEW r \in Seq(Telemetry),
         NEW d \in Nat, NEW t \in Nat,
         d <= Len(a), Len(r) = Len(a) - d, \A i \in 1..Len(r) : r[i] = a[d + i],
         Ordered(s \o a), \A i \in DOMAIN (s \o a) : (s \o a)[i].at <= t
  PROVE  Ordered(s \o r) /\ \A i \in DOMAIN (s \o r) : (s \o r)[i].at <= t
<1> DEFINE x == s \o a
           y == s \o r
           k(i) == IF i <= Len(s) THEN i ELSE d + i
<1>1. /\ DOMAIN x = 1..(Len(s) + Len(a)) /\ DOMAIN y = 1..(Len(s) + Len(r))
      /\ Len(s) \in Nat /\ Len(a) \in Nat /\ Len(r) \in Nat
  <2>1. Len(s) \in Nat /\ Len(a) \in Nat /\ Len(r) \in Nat OBVIOUS
  <2> QED BY <2>1, ConcatFacts
<1>2. /\ \A i \in 1..Len(s) : x[i] = s[i] /\ y[i] = s[i]
      /\ \A i \in 1..Len(a) : x[Len(s) + i] = a[i]
      /\ \A i \in 1..Len(r) : y[Len(s) + i] = r[i]
  BY ConcatFacts
<1> HIDE DEF x, y
<1>3. \A i \in DOMAIN y : k(i) \in DOMAIN x /\ y[i] = x[k(i)]
  <2> SUFFICES ASSUME NEW i \in DOMAIN y PROVE k(i) \in DOMAIN x /\ y[i] = x[k(i)]
    OBVIOUS
  <2>1. CASE i <= Len(s)
    <3>1. k(i) = i /\ i \in 1..Len(s) BY <2>1, <1>1
    <3>2. x[i] = s[i] /\ y[i] = s[i] BY <3>1, <1>2
    <3> QED BY <3>1, <3>2, <1>1
  <2>2. CASE i > Len(s)
    <3>1. i - Len(s) \in 1..Len(r) /\ d + (i - Len(s)) \in 1..Len(a) BY <2>2, <1>1
    <3>2. y[Len(s) + (i - Len(s))] = r[i - Len(s)] BY <3>1, <1>2
    <3>3. x[Len(s) + (d + (i - Len(s)))] = a[d + (i - Len(s))] BY <3>1, <1>2
    <3>4. Len(s) + (i - Len(s)) = i /\ Len(s) + (d + (i - Len(s))) = d + i BY <2>2, <1>1
    <3>5. k(i) = d + i /\ k(i) \in DOMAIN x BY <2>2, <1>1, <3>1
    <3> QED BY <3>1, <3>2, <3>3, <3>4, <3>5
  <2> QED BY <2>1, <2>2, <1>1
<1>4. \A i, j \in DOMAIN y : i < j => k(i) < k(j) BY <1>1
<1> HIDE DEF k
<1>5. Ordered(y) BY <1>3, <1>4 DEF Ordered, x
<1>6. \A i \in DOMAIN y : y[i].at <= t BY <1>3 DEF x
<1> QED BY <1>5, <1>6 DEF y

-----------------------------------------------------------------------------
(* Types. *)

\* What an action may do to the sequences and the timer, one lemma each.
LEMMA ArmType ==
  ASSUME TypeOK, NEW s \in BOOLEAN, Arm(s)
  PROVE  timer' \in {0, 1, 2, 4} /\ attempt' \in 0..2
<1>1. attempt \in 0..2 /\ timer \in {0, 1, 2, 4} BY DEF TypeOK
<1>2. CASE ~s /\ timer = 0
  <2>1. timer' = reconnectDelay(attempt) /\ attempt' = AtMost2(attempt + 1) BY <1>2 DEF Arm
  <2>2. reconnectDelay(attempt) \in {0, 1, 2, 4} BY DEF reconnectDelay
  <2>3. AtMost2(attempt + 1) \in 0..2 BY <1>1 DEF AtMost2
  <2> QED BY <2>1, <2>2, <2>3
<1>3. CASE ~(~s /\ timer = 0)
  BY <1>1, <1>3 DEF Arm, retry
<1> QED BY <1>2, <1>3

LEMMA HangUpType ==
  ASSUME HangUp
  PROVE  badge' \in BOOLEAN /\ partial' \in BOOLEAN
         /\ toServer' \in Seq(Request) /\ toClient' \in Seq(Frame)
<1>1. badge' \in BOOLEAN /\ partial' \in BOOLEAN BY DEF HangUp
<1>2. toServer' = <<>> /\ toClient' = <<>> BY DEF HangUp
<1> QED BY <1>1, <1>2

LEMMA ConnectType ==
  ASSUME TypeOK, NEW s \in BOOLEAN, connectToServer(s)
  PROVE  /\ link' = "connecting"
         /\ badge' \in BOOLEAN /\ partial' \in BOOLEAN
         /\ toServer' \in Seq(Request) /\ toClient' \in Seq(Frame)
         /\ timer' \in {0, 1, 2, 4} /\ attempt' \in 0..2
<1>1. CASE link \in {"connected", "closing"}
  <2>1. HangUp /\ Arm(s) BY <1>1 DEF connectToServer, onDisconnected
  <2> QED BY <2>1, ArmType, HangUpType DEF connectToServer
<1>2. CASE link \notin {"connected", "closing"}
  BY <1>2 DEF connectToServer, TypeOK, wire, retry
<1> QED BY <1>1, <1>2

\* Messages are requests.
LEMMA MessageTypes ==
  ASSUME TypeOK
  PROVE  /\ StatusReport \in Request
         /\ \A c \in Charger : Intent(c, "fault") \in Request /\ Intent(c, "recover") \in Request
         /\ Seq(Telemetry) \subseteq Seq(Request)
<1>1. time \in Nat BY DEF TypeOK
<1>2. StatusReport \in Request BY <1>1 DEF StatusReport, Request
<1>3. \A c \in Charger : Intent(c, "fault") \in Request /\ Intent(c, "recover") \in Request
  BY <1>1 DEF Intent, Request
<1>4. Telemetry \subseteq Request BY DEF Request
<1> QED BY <1>2, <1>3, <1>4

\* The variables keep their types.
LEMMA TypeStep == TypeOK /\ [Next]_vars => TypeOK'
<1> SUFFICES ASSUME TypeOK, [Next]_vars PROVE TypeOK'
  OBVIOUS
<1> USE SimulatorAssumption
<1>1. CASE doTick
  <2>1. time + Tick \in Nat BY DEF TypeOK, SimulatorAssumption
  <2>2. Batch(time + Tick) \in Seq(Telemetry) BY <2>1, BatchFacts DEF TypeOK
  <2>3. queue \in Seq(Telemetry) /\ log \in Seq(Telemetry) /\ toServer \in Seq(Request)
    BY DEF TypeOK
  <2>4. Batch(time + Tick) \in Seq(Request) BY <2>2, MessageTypes
  <2>5. toServer' \in Seq(Request) /\ log' \in Seq(Telemetry) /\ queue' \in Seq(Telemetry)
        /\ Len(queue') <= MaxQueue
    <3>1. CASE Online
      <4>1. /\ toServer' = toServer \o Batch(time + Tick)
            /\ log' = log \o Batch(time + Tick) /\ queue' = queue
        BY <1>1, <3>1 DEF doTick, Batch
      <4>2. Len(queue) <= MaxQueue BY DEF TypeOK
      <4> QED BY <4>1, <4>2, <2>2, <2>3, <2>4
    <3>2. CASE ~Online
      <4>1. /\ queue' = Enqueue(queue, Batch(time + Tick))
            /\ toServer' = toServer /\ log' = log
        BY <1>1, <3>2 DEF doTick, Batch
      <4> QED BY <4>1, <2>2, <2>3, EnqueueFacts
    <3> QED BY <3>1, <3>2
  <2>6. time' \in Nat BY <1>1, <2>1 DEF doTick
  <2>7. UNCHANGED <<chargers, running, badge, link, timer, attempt, stopping, statusId, partial,
                    toClient, failures>>
    BY <1>1 DEF doTick, window, retry
  <2> QED BY <2>5, <2>6, <2>7 DEF TypeOK
<1>2. CASE toggleRun \/ prepareReset
  BY <1>2 DEF TypeOK, toggleRun, prepareReset, engine, retry, wire
<1>3. ASSUME NEW c \in Charger, injectFault(c) \/ injectRecovery(c) PROVE TypeOK'
  <2>1. toServer' \in Seq(Request)
    <3>1. Intent(c, "fault") \in Request /\ Intent(c, "recover") \in Request BY MessageTypes
    <3>2. \/ toServer' = toServer
          \/ toServer' = Append(toServer, Intent(c, "fault"))
          \/ toServer' = Append(toServer, Intent(c, "recover"))
      BY <1>3 DEF injectFault, injectRecovery, Write
    <3>3. toServer \in Seq(Request) BY DEF TypeOK
    <3> QED BY <3>1, <3>2, <3>3
  <2>2. chargers' \in {<<>>} \cup [Charger -> Status]
    <3>1. CASE injectRecovery(c) BY <3>1 DEF injectRecovery, engine, TypeOK
    <3>2. CASE injectFault(c)
      <4>1. DOMAIN chargers # {} BY <3>2 DEF injectFault
      <4>2. chargers \in [Charger -> Status] BY <4>1 DEF TypeOK
      <4>3. chargers' = [chargers EXCEPT ![c] = "fault"] BY <3>2 DEF injectFault
      <4> QED BY <4>2, <4>3 DEF Status
    <3> QED BY <3>1, <3>2, <1>3
  <2>3. UNCHANGED <<time, running, badge, link, timer, attempt, stopping, statusId, queue, partial,
                    toClient, log, failures>>
    BY <1>3 DEF injectFault, injectRecovery, engine, window, retry
  <2> QED BY <2>1, <2>2, <2>3 DEF TypeOK
<1>4. CASE refresh
  <2>1. toServer' = Append(toServer, StatusReport) BY <1>4 DEF refresh, Write
  <2>2. toServer' \in Seq(Request)
    <3>1. toServer \in Seq(Request) BY DEF TypeOK
    <3> QED BY <2>1, <3>1, MessageTypes
  <2>3. statusId' \in Nat BY <1>4 DEF refresh, TypeOK
  <2>4. UNCHANGED <<time, chargers, running, badge, link, timer, attempt, stopping, queue, partial,
                    toClient, log, failures>>
    BY <1>4 DEF refresh, engine, window, retry
  <2> QED BY <2>2, <2>3, <2>4 DEF TypeOK
<1>5. CASE start
  <2>1. connectToServer(FALSE) /\ stopping' = FALSE BY <1>5 DEF start
  <2>2. UNCHANGED <<time, chargers, running, statusId, queue, log, failures>> BY <1>5 DEF start, engine
  <2> QED BY <2>1, <2>2, ConnectType DEF TypeOK
<1>6. CASE stop
  <2>1. link' \in {"off", "connecting", "closePending", "connected", "closing"}
    BY <1>6 DEF stop, TypeOK
  <2>2. timer' = 0 /\ stopping' = TRUE BY <1>6 DEF stop
  <2>3. UNCHANGED <<time, chargers, running, badge, attempt, statusId, queue, partial, toServer,
                    toClient, log, failures>>
    BY <1>6 DEF stop, engine, window, wire
  <2> QED BY <2>1, <2>2, <2>3 DEF TypeOK
<1>7. CASE ReconnectTimeout
  <2>1. connectToServer(stopping) BY <1>7 DEF ReconnectTimeout
  <2>2. UNCHANGED <<time, chargers, running, stopping, statusId, queue, log, failures>>
    BY <1>7 DEF ReconnectTimeout, engine
  <2>3. stopping \in BOOLEAN BY DEF TypeOK
  <2> QED BY <2>1, <2>2, <2>3, ConnectType DEF TypeOK
<1>8. CASE Connected
  <2>1. /\ toServer' = <<StatusReport>> \o queue
        /\ log' = log \o queue /\ queue' = <<>>
        /\ link' \in {"connected", "closing"} /\ timer' = 0 /\ attempt' = 0
        /\ badge' = TRUE /\ failures' = 0 /\ statusId' = time
    BY <1>8 DEF Connected
  <2>2. queue \in Seq(Telemetry) /\ log \in Seq(Telemetry) /\ time \in Nat BY DEF TypeOK
  <2>3. <<StatusReport>> \in Seq(Request) /\ queue \in Seq(Request) BY <2>2, MessageTypes
  <2>4. toServer' \in Seq(Request) BY <2>1, <2>3
  <2>5. log' \in Seq(Telemetry) BY <2>1, <2>2
  <2>6. queue' \in Seq(Telemetry) /\ Len(queue') <= MaxQueue BY <2>1 DEF SimulatorAssumption
  <2>7. UNCHANGED <<time, chargers, running, stopping, partial, toClient>>
    BY <1>8 DEF Connected, engine
  <2> QED BY <2>1, <2>2, <2>4, <2>5, <2>6, <2>7 DEF TypeOK
<1>9. CASE ConnectFailed
  <2>1. Arm(stopping) /\ stopping \in BOOLEAN BY <1>9 DEF ConnectFailed, TypeOK
  <2>2. failures' \in 0..2 BY <1>9 DEF ConnectFailed, AtMost2, TypeOK
  <2>3. link' = "off" BY <1>9 DEF ConnectFailed
  <2>4. UNCHANGED <<time, chargers, running, badge, stopping, statusId, queue, partial, toServer,
                    toClient, log>>
    BY <1>9 DEF ConnectFailed, engine, window, wire
  <2> QED BY <2>1, <2>2, <2>3, <2>4, ArmType DEF TypeOK
<1>10. CASE Disconnected \/ ReadMalformed
  <2>1. HangUp /\ Arm(stopping) /\ link' = "off" /\ stopping \in BOOLEAN
    BY <1>10 DEF Disconnected, ReadMalformed, onDisconnected, TypeOK
  <2>2. UNCHANGED <<time, chargers, running, stopping, statusId, queue, log, failures>>
    BY <1>10 DEF Disconnected, ReadMalformed, engine
  <2> QED BY <2>1, <2>2, ArmType, HangUpType DEF TypeOK
<1>11. CASE ReadPart
  BY <1>11 DEF TypeOK, ReadPart, engine, window, retry, wire
<1>12. CASE ReadResponse
  <2>1. toClient \in Seq(Frame) /\ toClient # <<>> BY <1>12 DEF ReadResponse, Readable, TypeOK
  <2>2. Head(toClient) \in Frame /\ Tail(toClient) \in Seq(Frame) BY <2>1
  <2>3. \A f \in Frame : f.kind = "status" => f.chargers \in [Charger -> Status]
    BY DEF Frame, SimulatorAssumption
  <2>4. /\ chargers' \in {<<>>} \cup [Charger -> Status]
        /\ statusId' \in Nat \cup {None}
    BY <1>12, <2>2, <2>3 DEF ReadResponse, Accepts, TypeOK
  <2>5. partial' = FALSE /\ toClient' = Tail(toClient) BY <1>12 DEF ReadResponse
  <2>6. UNCHANGED <<time, running, badge, link, timer, attempt, stopping, queue, toServer, log, failures>>
    BY <1>12 DEF ReadResponse, window, retry
  <2> QED BY <2>2, <2>4, <2>5, <2>6 DEF TypeOK
<1>13. CASE Take
  <2>1. toServer \in Seq(Request) /\ toClient \in Seq(Frame) /\ toServer # <<>> BY <1>13 DEF Take, TypeOK
  <2>2. Head(toServer) \in Request /\ Tail(toServer) \in Seq(Request) BY <2>1
  <2>3. \A m \in Request : m.at \in Nat BY DEF Request, Telemetry
  <2> DEFINE Answers == [kind : {"other", "bad"}]
               \cup [kind : {"status"}, at : {Head(toServer).at}, ok : BOOLEAN, chargers : Snapshot]
  <2>4. Answers \subseteq Frame BY <2>2, <2>3 DEF Frame
  <2>5. toClient' = toClient \/ \E f \in Answers : toClient' = Append(toClient, f)
    BY <1>13 DEF Take
  <2> HIDE DEF Answers
  <2>6. toClient' \in Seq(Frame) BY <2>1, <2>4, <2>5
  <2>7. toServer' = Tail(toServer) BY <1>13 DEF Take
  <2>8. UNCHANGED <<time, chargers, running, badge, link, timer, attempt, stopping, statusId, queue,
                    partial, log, failures>>
    BY <1>13 DEF Take, engine, window, retry
  <2> QED BY <2>2, <2>6, <2>7, <2>8 DEF TypeOK
<1>14. CASE UNCHANGED vars
  BY <1>14 DEF TypeOK, vars, engine, window, retry, wire
<1> QED BY <1>1, <1>2, <1>3, <1>4, <1>5, <1>6, <1>7, <1>8, <1>9, <1>10, <1>11, <1>12, <1>13, <1>14
        DEF Next, User, Timer, Network

LEMMA InitTypes == Init => TypeOK
<1> SUFFICES ASSUME Init PROVE TypeOK OBVIOUS
<1>1. queue = <<>> /\ log = <<>> /\ toServer = <<>> /\ toClient = <<>> BY DEF Init
<1>2. Len(queue) <= MaxQueue BY <1>1, SimulatorAssumption DEF SimulatorAssumption
<1>3. queue \in Seq(Telemetry) /\ log \in Seq(Telemetry) /\ toServer \in Seq(Request)
      /\ toClient \in Seq(Frame)
  BY <1>1
<1>4. running \in BOOLEAN /\ badge \in BOOLEAN /\ stopping \in BOOLEAN /\ partial \in BOOLEAN
  BY DEF Init
<1>5. /\ time \in Nat /\ timer \in {0, 1, 2, 4} /\ attempt \in 0..2 /\ failures \in 0..2
      /\ statusId \in Nat \cup {None}
  BY DEF Init
<1>6. /\ link \in {"off", "connecting", "closePending", "connected", "closing"}
      /\ chargers \in {<<>>} \cup [Charger -> Status]
  BY DEF Init
<1> QED BY <1>2, <1>3, <1>4, <1>5, <1>6 DEF TypeOK

\* Type correctness of the simulator.
THEOREM TypeCorrect == Spec => []TypeOK
BY InitTypes, TypeStep, PTL DEF Spec

-----------------------------------------------------------------------------
(* The connection. *)

\* Losing the socket leaves no bytes behind and the timer running.
LEMMA ArmRuns ==
  ASSUME TypeOK, NEW s \in BOOLEAN, Arm(s), ~s
  PROVE  timer' # 0
<1>1. CASE timer = 0
  <2>1. timer' = reconnectDelay(attempt) BY <1>1 DEF Arm
  <2> QED BY <2>1 DEF reconnectDelay
<1>2. CASE timer # 0 BY <1>2 DEF Arm, retry
<1> QED BY <1>1, <1>2

LEMMA LinkStep == TypeOK /\ LinkInv /\ [Next]_vars => LinkInv'
<1> SUFFICES ASSUME TypeOK, LinkInv, [Next]_vars PROVE LinkInv'
  OBVIOUS
<1> USE DEF LinkInv, NeverStranded, TimerSparesConnection, NoBytesAcrossConnections
<1>1. CASE UNCHANGED <<link, timer, stopping, partial>>
  BY <1>1
<1>2. CASE start \/ ReconnectTimeout
  <2>1. PICK s \in BOOLEAN : connectToServer(s)
    BY <1>2 DEF start, ReconnectTimeout, TypeOK
  <2>2. link' = "connecting" BY <2>1 DEF connectToServer
  <2>3. partial' = FALSE
    <3>1. CASE link \in {"connected", "closing"}
      BY <2>1, <3>1 DEF connectToServer, onDisconnected, HangUp
    <3>2. CASE link \notin {"connected", "closing"}
      BY <2>1, <3>2 DEF connectToServer, TypeOK
    <3> QED BY <3>1, <3>2
  <2> QED BY <2>2, <2>3
<1>3. CASE stop
  BY <1>3 DEF stop
<1>4. CASE Connected
  BY <1>4 DEF Connected
<1>5. CASE ConnectFailed \/ Disconnected \/ ReadMalformed
  <2>1. Arm(stopping) /\ link' = "off" /\ stopping' = stopping /\ stopping \in BOOLEAN
    BY <1>5 DEF ConnectFailed, Disconnected, ReadMalformed, onDisconnected, TypeOK
  <2>2. partial' = FALSE
    BY <1>5 DEF ConnectFailed, Disconnected, ReadMalformed, onDisconnected, HangUp, TypeOK
  <2> QED BY <2>1, <2>2, ArmRuns
<1>6. CASE ReadPart
  BY <1>6 DEF ReadPart, Readable, retry
<1>7. CASE ReadResponse
  BY <1>7 DEF ReadResponse, retry
<1>8. CASE doTick \/ toggleRun \/ prepareReset \/ refresh \/ Take \/ UNCHANGED vars
           \/ \E c \in Charger : injectFault(c) \/ injectRecovery(c)
  BY <1>1, <1>8 DEF doTick, toggleRun, prepareReset, refresh, Take, injectFault, injectRecovery,
                    vars, retry
<1> QED BY <1>2, <1>3, <1>4, <1>5, <1>6, <1>7, <1>8 DEF Next, User, Timer, Network

LEMMA LinkSafe == Spec => []LinkInv
<1>1. Init => LinkInv
  BY DEF Init, LinkInv, NeverStranded, TimerSparesConnection, NoBytesAcrossConnections
<1>2. TypeOK /\ LinkInv /\ [Next]_vars => LinkInv' BY LinkStep
<1> QED BY <1>1, <1>2, TypeCorrect, PTL DEF Spec

\* The simulator is never left without a connection, an attempt or a timer
\* unless it was stopped.
THEOREM StrandedNever == Spec => []NeverStranded
<1>1. LinkInv => NeverStranded BY DEF LinkInv
<1> QED BY <1>1, LinkSafe, PTL

\* The repeating reconnect timer never meets an open connection.
THEOREM TimerMeetsNoConnection == Spec => []TimerSparesConnection
<1>1. LinkInv => TimerSparesConnection BY DEF LinkInv
<1> QED BY <1>1, LinkSafe, PTL

\* No bytes outlive their connection in the decoder.
THEOREM BytesEndWithConnection == Spec => []NoBytesAcrossConnections
<1>1. LinkInv => NoBytesAcrossConnections BY DEF LinkInv
<1> QED BY <1>1, LinkSafe, PTL

-----------------------------------------------------------------------------
(* The order of the samples. *)

LEMMA OrderStep == TypeOK /\ OrderInv /\ [Next]_vars => OrderInv'
<1> SUFFICES ASSUME TypeOK, OrderInv, [Next]_vars PROVE OrderInv'
  OBVIOUS
<1>a. /\ time \in Nat /\ queue \in Seq(Telemetry) /\ log \in Seq(Telemetry)
      /\ log \o queue \in Seq(Telemetry)
  <2>1. time \in Nat /\ queue \in Seq(Telemetry) /\ log \in Seq(Telemetry) BY DEF TypeOK
  <2> QED BY <2>1
<1>b. Ordered(log \o queue) /\ \A i \in DOMAIN (log \o queue) : (log \o queue)[i].at <= time
  BY DEF OrderInv, SamplesInOrder, NoneLater
<1>1. CASE doTick
  <2> DEFINE u == time + Tick
             b == Batch(u)
  <2>1. u \in Nat /\ time < u BY <1>a, SimulatorAssumption DEF SimulatorAssumption
  <2>2. chargers \in {<<>>} \cup [Charger -> Status] BY DEF TypeOK
  <2>3. b \in Seq(Telemetry) /\ \A i \in DOMAIN b : b[i].charger = i /\ b[i].at = u
    BY <2>1, <2>2, BatchFacts, SimulatorAssumption
  <2>4. time' = u /\ link' = link BY <1>1 DEF doTick
  <2>5. Online => queue' = queue /\ log' = log \o b BY <1>1 DEF doTick, Batch
  <2>6. ~Online => queue' = Enqueue(queue, b) /\ log' = log BY <1>1 DEF doTick, Batch
  <2> HIDE DEF u, b
  <2>7. Ordered((log \o queue) \o b)
        /\ \A i \in DOMAIN ((log \o queue) \o b) : ((log \o queue) \o b)[i].at <= u
    BY <1>a, <1>b, <2>1, <2>3, OrderedBatch
  <2>8. CASE Online
    <3>1. queue = <<>> BY <2>8 DEF OrderInv, NothingQueuedOnline, Online
    <3>2. log' \o queue' = (log \o queue) \o b
      <4>1. log \o queue = log BY <3>1, <1>a
      <4>2. log \o b \in Seq(Telemetry) BY <1>a, <2>3
      <4>3. (log \o b) \o <<>> = log \o b BY <4>2
      <4> QED BY <4>1, <4>3, <2>5, <2>8, <3>1
    <3>3. queue' = <<>> BY <3>1, <2>5, <2>8
    <3> QED BY <3>2, <3>3, <2>7, <2>4 DEF OrderInv, SamplesInOrder, NoneLater, NothingQueuedOnline
  <2>9. CASE ~Online
    <3> DEFINE a == queue \o b
               r == Enqueue(queue, b)
    <3>1. a \in Seq(Telemetry) BY <1>a, <2>3
    <3>2. log \o a = (log \o queue) \o b BY <1>a, <2>3
    <3>3. /\ r \in Seq(Telemetry)
          /\ \E d \in Nat : /\ d <= Len(a) /\ Len(r) = Len(a) - d
                            /\ \A i \in 1..Len(r) : r[i] = a[d + i]
      BY <1>a, <2>3, EnqueueFacts, SimulatorAssumption
    <3>4. log' \o queue' = log \o r BY <2>6, <2>9
    <3> HIDE DEF a, r
    <3>5. PICK d \in Nat : d <= Len(a) /\ Len(r) = Len(a) - d /\ \A i \in 1..Len(r) : r[i] = a[d + i]
      BY <3>3
    <3>6. Ordered(log \o a) /\ \A i \in DOMAIN (log \o a) : (log \o a)[i].at <= u
      BY <2>7, <3>2
    <3>7. Ordered(log \o r) /\ \A i \in DOMAIN (log \o r) : (log \o r)[i].at <= u
      BY <1>a, <2>1, <3>1, <3>3, <3>5, <3>6, OrderedDrop
    <3>8. link' # "connected" BY <2>4, <2>9 DEF Online
    <3> QED BY <3>4, <3>7, <3>8, <2>4 DEF OrderInv, SamplesInOrder, NoneLater, NothingQueuedOnline
  <2> QED BY <2>8, <2>9
<1>2. CASE Connected
  <2>1. log' = log \o queue /\ queue' = <<>> /\ time' = time BY <1>2 DEF Connected, engine
  <2>2. log' \o queue' = log \o queue BY <2>1, <1>a
  <2> QED BY <2>1, <2>2, <1>b DEF OrderInv, SamplesInOrder, NoneLater, NothingQueuedOnline
<1>3. ASSUME UNCHANGED <<time, queue, log>>, link' = "connected" => link = "connected"
      PROVE  OrderInv'
  BY <1>3 DEF OrderInv, SamplesInOrder, NoneLater, NothingQueuedOnline
<1>4. CASE toggleRun \/ prepareReset \/ refresh \/ Take \/ ReadPart \/ ReadResponse \/ UNCHANGED vars
           \/ \E c \in Charger : injectFault(c) \/ injectRecovery(c)
  BY <1>3, <1>4 DEF toggleRun, prepareReset, refresh, Take, ReadPart, ReadResponse, injectFault,
                    injectRecovery, vars, engine
<1>5. CASE start \/ stop \/ ReconnectTimeout \/ ConnectFailed \/ Disconnected \/ ReadMalformed
  BY <1>3, <1>5 DEF start, stop, ReconnectTimeout, ConnectFailed, Disconnected, ReadMalformed,
                    connectToServer, engine
<1> QED BY <1>1, <1>2, <1>4, <1>5 DEF Next, User, Timer, Network

LEMMA OrderSafe == Spec => []OrderInv
<1>1. Init => OrderInv
  <2> SUFFICES ASSUME Init PROVE OrderInv OBVIOUS
  <2>1. log \o queue = <<>> /\ link # "connected" BY DEF Init
  <2>2. DOMAIN (log \o queue) = {} BY <2>1
  <2> QED BY <2>1, <2>2 DEF OrderInv, SamplesInOrder, NoneLater, NothingQueuedOnline, Ordered
<1> QED BY <1>1, OrderStep, TypeCorrect, PTL DEF Spec

\* Whatever the losses and the overflows, the samples of a charger are written
\* in the order of their times, each at most once.
THEOREM SamplesOrdered == Spec => []SamplesInOrder
<1>1. OrderInv => SamplesInOrder BY DEF OrderInv
<1> QED BY <1>1, OrderSafe, PTL

-----------------------------------------------------------------------------
(* What is left in the queue. *)

Follows(a, b) ==
  \/ b.at = a.at /\ b.charger = a.charger + 1
  \/ b.at = a.at + Tick /\ a.charger = N /\ b.charger = 1
Gapless(s) == \A i \in 1..(Len(s) - 1) : Follows(s[i], s[i + 1])
EndsAt(s, t) == s # <<>> => s[Len(s)].at = t /\ s[Len(s)].charger = N

\* Only a connected client ticks without queueing, and its queue is empty; a
\* client that never had a snapshot has queued nothing.
QueueInv ==
  /\ Gapless(queue) /\ EndsAt(queue, time)
  /\ NothingQueuedOnline
  /\ DOMAIN chargers = {} => queue = <<>>

\* The batch of the next tick goes on where the queue ends.
LEMMA GaplessBatch ==
  ASSUME SimulatorAssumption, NEW s \in Seq(Telemetry), NEW b \in Seq(Telemetry), NEW t \in Nat,
         Gapless(s), EndsAt(s, t), N # 0, Len(b) = N,
         \A i \in DOMAIN b : b[i].charger = i /\ b[i].at = t + Tick
  PROVE  Gapless(s \o b) /\ EndsAt(s \o b, t + Tick)
<1> DEFINE a == s \o b
<1>1. /\ Len(s) \in Nat /\ Len(b) = N /\ N \in Nat /\ N > 0 /\ Tick \in Nat
      /\ DOMAIN s = 1..Len(s) /\ DOMAIN b = 1..N
  BY DEF SimulatorAssumption
<1>2. /\ Len(a) = Len(s) + N
      /\ \A i \in 1..Len(s) : a[i] = s[i]
      /\ \A i \in 1..N : a[Len(s) + i] = b[i]
  <2>1. /\ DOMAIN a = 1..(Len(s) + Len(b))
        /\ \A i \in 1..Len(s) : a[i] = s[i]
        /\ \A i \in 1..Len(b) : a[Len(s) + i] = b[i]
    <3> HIDE DEF Gapless, EndsAt
    <3> QED OBVIOUS
  <2>2. Len(a) = Len(s) + Len(b) OBVIOUS
  <2> QED BY <2>1, <2>2, <1>1
<1> HIDE DEF a
<1>3. ASSUME NEW i \in 1..(Len(a) - 1) PROVE Follows(a[i], a[i + 1])
  <2>1. CASE i < Len(s)
    <3>1. a[i] = s[i] /\ a[i + 1] = s[i + 1] /\ i \in 1..(Len(s) - 1)
      BY <2>1, <1>1, <1>2
    <3> QED BY <3>1 DEF Gapless
  <2>2. CASE i = Len(s)
    <3>1. a[i] = s[Len(s)] /\ s # <<>> BY <2>2, <1>1, <1>2
    <3>2. a[i + 1] = b[1] /\ 1 \in DOMAIN b BY <2>2, <1>1, <1>2
    <3>3. s[Len(s)].at = t /\ s[Len(s)].charger = N BY <3>1 DEF EndsAt
    <3> QED BY <3>1, <3>2, <3>3 DEF Follows
  <2>3. CASE i > Len(s)
    <3>1. i - Len(s) \in 1..N /\ (i - Len(s)) + 1 \in 1..N BY <2>3, <1>1, <1>2
    <3>2. a[Len(s) + (i - Len(s))] = b[i - Len(s)] /\ Len(s) + (i - Len(s)) = i
      BY <3>1, <1>1, <1>2
    <3>3. a[Len(s) + ((i - Len(s)) + 1)] = b[(i - Len(s)) + 1] /\ Len(s) + ((i - Len(s)) + 1) = i + 1
      BY <3>1, <1>1, <1>2
    <3>4. /\ b[i - Len(s)].charger = i - Len(s) /\ b[i - Len(s)].at = t + Tick
          /\ b[(i - Len(s)) + 1].charger = (i - Len(s)) + 1 /\ b[(i - Len(s)) + 1].at = t + Tick
      BY <3>1, <1>1
    <3> QED BY <3>2, <3>3, <3>4 DEF Follows
  <2>4. i \in Int /\ Len(s) \in Int BY <1>1, <1>2
  <2> QED BY <2>1, <2>2, <2>3, <2>4
<1>4. a[Len(a)].at = t + Tick /\ a[Len(a)].charger = N
  <2>1. a[Len(s) + N] = b[N] /\ N \in DOMAIN b BY <1>1, <1>2
  <2> QED BY <2>1, <1>2
<1> QED BY <1>3, <1>4 DEF Gapless, EndsAt, a

\* What is left when the oldest samples are dropped ends as before.
LEMMA GaplessSuffix ==
  ASSUME NEW a \in Seq(Telemetry), NEW r \in Seq(Telemetry), NEW t, NEW d \in Nat,
         Gapless(a), EndsAt(a, t),
         d <= Len(a), Len(r) = Len(a) - d, \A i \in 1..Len(r) : r[i] = a[d + i]
  PROVE  Gapless(r) /\ EndsAt(r, t)
<1>1. Len(a) \in Nat /\ Len(r) \in Nat OBVIOUS
<1>2. ASSUME NEW i \in 1..(Len(r) - 1) PROVE Follows(r[i], r[i + 1])
  <2>1. i \in 1..Len(r) /\ i + 1 \in 1..Len(r) BY <1>1
  <2>2. r[i] = a[d + i] /\ r[i + 1] = a[d + (i + 1)] BY <2>1
  <2>3. d + i \in 1..(Len(a) - 1) /\ d + (i + 1) = (d + i) + 1 BY <1>1
  <2> QED BY <2>2, <2>3 DEF Gapless
<1>3. ASSUME r # <<>> PROVE r[Len(r)].at = t /\ r[Len(r)].charger = N
  <2>1. Len(r) \in 1..Len(r) BY <1>1, <1>3
  <2>2. r[Len(r)] = a[d + Len(r)] /\ d + Len(r) = Len(a) /\ a # <<>> BY <2>1, <1>1
  <2> QED BY <2>2 DEF EndsAt
<1> QED BY <1>2, <1>3 DEF Gapless, EndsAt

LEMMA QueueStep == TypeOK /\ QueueInv /\ [Next]_vars => QueueInv'
<1> SUFFICES ASSUME TypeOK, QueueInv, [Next]_vars PROVE QueueInv'
  OBVIOUS
<1>a. /\ time \in Nat /\ queue \in Seq(Telemetry) /\ chargers \in {<<>>} \cup [Charger -> Status]
      /\ N \in Nat /\ Tick \in Nat
  BY SimulatorAssumption DEF TypeOK, SimulatorAssumption
<1>b. DOMAIN chargers = {} \/ DOMAIN chargers = 1..N
  BY <1>a DEF Charger
<1>1. CASE doTick
  <2> DEFINE u == time + Tick
             b == Batch(u)
             a == queue \o b
             r == Enqueue(queue, b)
  <2>1. /\ time' = u /\ link' = link /\ chargers' = chargers
        /\ Online => queue' = queue
        /\ ~Online => queue' = r
    BY <1>1 DEF doTick, Batch
  <2>2. b \in Seq(Telemetry) /\ \A i \in DOMAIN b : b[i].charger = i /\ b[i].at = u
    <3>1. u \in Nat BY <1>a
    <3> HIDE DEF u
    <3> QED BY <1>a, <3>1, BatchFacts, SimulatorAssumption
  <2>3. DOMAIN b = DOMAIN chargers BY DEF Batch
  <2> HIDE DEF b
  <2>4. CASE Online
    <3>1. queue = <<>> BY <2>4 DEF QueueInv, NothingQueuedOnline, Online
    <3> QED BY <2>1, <2>4, <3>1 DEF QueueInv, NothingQueuedOnline, Gapless, EndsAt
  <2>5. CASE ~Online
    <3>1. /\ r \in Seq(Telemetry)
          /\ \E d \in Nat : /\ d <= Len(a) /\ Len(r) = Len(a) - d
                            /\ \A i \in 1..Len(r) : r[i] = a[d + i]
      BY <1>a, <2>2, EnqueueFacts, SimulatorAssumption
    <3>2. a \in Seq(Telemetry) BY <1>a, <2>2
    <3>3. link' # "connected" BY <2>1, <2>5 DEF Online
    <3>4. CASE DOMAIN chargers = {}
      <4>1. queue = <<>> /\ b = <<>>
        BY <3>4, <2>2, <2>3 DEF QueueInv
      <4>2. Len(a) = 0 BY <4>1
      <4>3. r = <<>>
        <5> HIDE DEF a, r
        <5>1. Len(r) = 0 BY <3>1, <4>2
        <5> QED BY <3>1, <5>1
      <4> QED BY <2>1, <2>5, <3>3, <3>4, <4>3 DEF QueueInv, NothingQueuedOnline, Gapless, EndsAt
    <3>5. CASE DOMAIN chargers # {}
      <4>1. DOMAIN b = 1..N /\ N # 0 BY <3>5, <1>a, <1>b, <2>3
      <4>2. Len(b) = N BY <4>1, <2>2, <1>a
      <4>3. Gapless(a) /\ EndsAt(a, u)
        BY <1>a, <2>2, <4>1, <4>2, GaplessBatch, SimulatorAssumption DEF QueueInv
      <4> HIDE DEF a, r
      <4>4. PICK d \in Nat : /\ d <= Len(a) /\ Len(r) = Len(a) - d
                             /\ \A i \in 1..Len(r) : r[i] = a[d + i]
        BY <3>1
      <4>5. Gapless(r) /\ EndsAt(r, u)
        BY <3>1, <3>2, <4>3, <4>4, GaplessSuffix
      <4> QED BY <2>1, <2>5, <3>3, <3>5, <4>5 DEF QueueInv, NothingQueuedOnline
    <3> QED BY <3>4, <3>5
  <2> QED BY <2>4, <2>5
<1>2. CASE Connected
  <2>1. queue' = <<>> BY <1>2 DEF Connected
  <2> QED BY <2>1 DEF QueueInv, NothingQueuedOnline, Gapless, EndsAt
<1>3. ASSUME UNCHANGED <<time, queue>>, link' = "connected" => link = "connected",
             DOMAIN chargers' = {} => DOMAIN chargers = {}
      PROVE  QueueInv'
  BY <1>3 DEF QueueInv, NothingQueuedOnline, Gapless, EndsAt
<1>4. CASE toggleRun \/ prepareReset \/ refresh \/ Take \/ ReadPart \/ UNCHANGED vars
           \/ \E c \in Charger : injectRecovery(c)
  BY <1>3, <1>4 DEF toggleRun, prepareReset, refresh, Take, ReadPart, injectRecovery, vars, engine
<1>5. CASE start \/ stop \/ ReconnectTimeout \/ ConnectFailed \/ Disconnected \/ ReadMalformed
  BY <1>3, <1>5 DEF start, stop, ReconnectTimeout, ConnectFailed, Disconnected, ReadMalformed,
                    connectToServer, engine
<1>6. ASSUME NEW c \in Charger, injectFault(c) PROVE QueueInv'
  <2>1. DOMAIN chargers' = DOMAIN chargers /\ UNCHANGED <<time, queue, link>>
    BY <1>6 DEF injectFault
  <2> QED BY <2>1, <1>3
<1>7. CASE ReadResponse
  <2>1. UNCHANGED <<time, queue, link>> BY <1>7 DEF ReadResponse
  <2>2. toClient \in Seq(Frame) /\ toClient # <<>> BY <1>7 DEF ReadResponse, Readable, TypeOK
  <2>3. Head(toClient) \in Frame BY <2>2
  <2>4. \A f \in Frame : f.kind = "status" => f.chargers \in [Charger -> Status]
    BY SimulatorAssumption DEF Frame, SimulatorAssumption
  <2>5. chargers' = chargers \/ chargers' \in [Charger -> Status]
    BY <1>7, <2>3, <2>4 DEF ReadResponse, Accepts
  <2>6. chargers' = chargers \/ DOMAIN chargers' = 1..N
    BY <2>5 DEF Charger
  <2>7. DOMAIN chargers' = {} => DOMAIN chargers = {}
    BY <2>6, <1>b
  <2> QED BY <2>1, <2>7, <1>3
<1> QED BY <1>1, <1>2, <1>4, <1>5, <1>6, <1>7 DEF Next, User, Timer, Network

\* The queue holds the samples produced last, without a gap, however often it
\* overflowed.
THEOREM QueueKeepsLatest == Spec => []QueueIsLatest
<1>1. Init => QueueInv
  <2> SUFFICES ASSUME Init PROVE QueueInv OBVIOUS
  <2>1. queue = <<>> BY DEF Init
  <2> QED BY <2>1 DEF QueueInv, NothingQueuedOnline, Gapless, EndsAt
<1>2. TypeOK /\ QueueInv => QueueIsLatest
  BY DEF QueueInv, QueueIsLatest, Gapless, EndsAt, Follows
<1> QED BY <1>1, <1>2, QueueStep, TypeCorrect, PTL DEF Spec

-----------------------------------------------------------------------------
(* Which status answer is taken. *)

NotLater(m, t) == m.kind = "status" => m.at <= t
AllNotLater(s, t) == \A i \in DOMAIN s : NotLater(s[i], t)

\* The status reports on their way were made by now, and none of them after
\* the one whose id the client waits for.
StatusInv ==
  /\ AllNotLater(toServer, time)
  /\ statusId # None => AllNotLater(toServer, statusId) /\ statusId <= time

LEMMA NotLaterConcat ==
  ASSUME NEW p \in Seq(Request), NEW q \in Seq(Request), NEW t,
         AllNotLater(p, t), AllNotLater(q, t)
  PROVE  AllNotLater(p \o q, t)
<1> SUFFICES ASSUME NEW i \in DOMAIN (p \o q) PROVE NotLater((p \o q)[i], t)
  BY DEF AllNotLater
<1>1. Len(p) \in Nat /\ Len(q) \in Nat /\ i \in 1..(Len(p) + Len(q)) OBVIOUS
<1>2. CASE i <= Len(p)
  <2>1. i \in DOMAIN p /\ (p \o q)[i] = p[i] BY <1>1, <1>2
  <2> QED BY <2>1 DEF AllNotLater
<1>3. CASE i > Len(p)
  <2>1. i - Len(p) \in DOMAIN q /\ (p \o q)[i] = q[i - Len(p)] BY <1>1, <1>3
  <2> QED BY <2>1 DEF AllNotLater
<1> QED BY <1>1, <1>2, <1>3

LEMMA NotLaterTail ==
  ASSUME NEW p \in Seq(Request), p # <<>>, NEW t, AllNotLater(p, t)
  PROVE  AllNotLater(Tail(p), t)
<1> SUFFICES ASSUME NEW i \in DOMAIN Tail(p) PROVE NotLater(Tail(p)[i], t)
  BY DEF AllNotLater
<1>1. i + 1 \in DOMAIN p /\ Tail(p)[i] = p[i + 1] OBVIOUS
<1> QED BY <1>1 DEF AllNotLater

LEMMA NotLaterMono ==
  ASSUME NEW p \in Seq(Request), NEW t \in Int, NEW u \in Int, t <= u, AllNotLater(p, t)
  PROVE  AllNotLater(p, u)
<1> SUFFICES ASSUME NEW i \in DOMAIN p PROVE NotLater(p[i], u)
  BY DEF AllNotLater
<1>1. p[i] \in Request OBVIOUS
<1>2. p[i].at \in Int BY <1>1 DEF Request, Telemetry
<1>3. NotLater(p[i], t) BY DEF AllNotLater
<1> QED BY <1>2, <1>3 DEF NotLater

\* Samples are no status reports.
LEMMA TelemetryNotLater ==
  ASSUME NEW q \in Seq(Telemetry), NEW t
  PROVE  q \in Seq(Request) /\ AllNotLater(q, t)
<1>1. q \in Seq(Request)
  <2>1. Telemetry \subseteq Request BY DEF Request
  <2> HIDE DEF Request, Telemetry
  <2> QED BY <2>1
<1>2. \A i \in DOMAIN q : q[i] \in Telemetry OBVIOUS
<1> QED BY <1>1, <1>2 DEF AllNotLater, NotLater, Telemetry

LEMMA StatusStep == TypeOK /\ StatusInv /\ [Next]_vars => StatusInv'
<1> SUFFICES ASSUME TypeOK, StatusInv, [Next]_vars PROVE StatusInv'
  OBVIOUS
<1>a. /\ time \in Nat /\ statusId \in Nat \cup {None} /\ toServer \in Seq(Request)
      /\ queue \in Seq(Telemetry) /\ chargers \in {<<>>} \cup [Charger -> Status]
  BY DEF TypeOK
<1>b. AllNotLater(toServer, time) BY DEF StatusInv
<1>c. None \notin Nat BY DEF None
<1>1. CASE doTick
  <2> DEFINE u == time + Tick
             b == Batch(u)
  <2>1. u \in Nat /\ time <= u BY <1>a, SimulatorAssumption DEF SimulatorAssumption
  <2>2. /\ time' = u /\ statusId' = statusId
        /\ toServer' = toServer \/ toServer' = toServer \o b
    BY <1>1 DEF doTick, Batch
  <2> HIDE DEF u
  <2>3. b \in Seq(Telemetry) BY <1>a, <2>1, BatchFacts, SimulatorAssumption
  <2> HIDE DEF b
  <2>4. ASSUME NEW t, AllNotLater(toServer, t) PROVE AllNotLater(toServer', t)
    <3>1. b \in Seq(Request) /\ AllNotLater(b, t) BY <2>3, TelemetryNotLater
    <3>2. AllNotLater(toServer \o b, t) BY <1>a, <2>4, <3>1, NotLaterConcat
    <3> QED BY <2>2, <2>4, <3>2
  <2>5. AllNotLater(toServer, u)
    BY <1>a, <1>b, <2>1, NotLaterMono
  <2> QED BY <2>1, <2>2, <2>4, <2>5, <1>a, <1>c DEF StatusInv
<1>2. CASE refresh \/ Connected
  <2> DEFINE r == StatusReport
  <2>1. statusId' = time /\ time' = time BY <1>2 DEF refresh, Connected, engine
  <2>2. r \in Request BY <1>a DEF Request, StatusReport
  <2>3. r.kind = "status" /\ r.at = time BY DEF StatusReport
  <2>4. toServer' = Append(toServer, r) \/ toServer' = <<r>> \o queue
    BY <1>2 DEF refresh, Connected, Write
  <2> HIDE DEF r
  <2>5. <<r>> \in Seq(Request) /\ DOMAIN <<r>> = {1} /\ <<r>>[1] = r
    <3> HIDE DEF Request
    <3> QED BY <2>2
  <2>6. AllNotLater(<<r>>, time) BY <2>3, <2>5, <1>a DEF AllNotLater, NotLater
  <2>7. queue \in Seq(Request) /\ AllNotLater(queue, time) BY <1>a, TelemetryNotLater
  <2>8. AllNotLater(<<r>> \o queue, time) BY <2>5, <2>6, <2>7, NotLaterConcat
  <2>9. AllNotLater(toServer \o <<r>>, time) BY <1>a, <1>b, <2>5, <2>6, NotLaterConcat
  <2>10. Append(toServer, r) = toServer \o <<r>> BY <1>a, <2>2
  <2>11. AllNotLater(toServer', time) BY <2>4, <2>8, <2>9, <2>10
  <2> QED BY <2>1, <2>11, <1>a DEF StatusInv
<1>3. ASSUME NEW m, m.kind # "status", m \in Request,
             toServer' = toServer \/ toServer' = Append(toServer, m),
             UNCHANGED <<time, statusId>>
      PROVE  StatusInv'
  <2>1. <<m>> \in Seq(Request) /\ DOMAIN <<m>> = {1} /\ <<m>>[1] = m BY <1>3
  <2>2. ASSUME NEW t, AllNotLater(toServer, t) PROVE AllNotLater(toServer', t)
    <3>1. AllNotLater(<<m>>, t) BY <1>3, <2>1 DEF AllNotLater, NotLater
    <3>2. AllNotLater(toServer \o <<m>>, t) BY <1>a, <2>1, <2>2, <3>1, NotLaterConcat
    <3>3. Append(toServer, m) = toServer \o <<m>> BY <1>a, <1>3
    <3> QED BY <1>3, <2>2, <3>2, <3>3
  <2> QED BY <1>3, <2>2 DEF StatusInv
<1>4. ASSUME NEW c \in Charger, injectFault(c) \/ injectRecovery(c) PROVE StatusInv'
  <2>1. PICK v \in {"fault", "recover"} :
          toServer' = toServer \/ toServer' = Append(toServer, Intent(c, v))
    BY <1>4 DEF injectFault, injectRecovery, Write
  <2>2. Intent(c, v).kind # "status" /\ Intent(c, v) \in Request
    BY <1>a DEF Intent, Request
  <2>3. UNCHANGED <<time, statusId>> BY <1>4 DEF injectFault, injectRecovery, engine
  <2> QED BY <2>1, <2>2, <2>3, <1>3
<1>5. CASE Take
  <2>1. /\ toServer # <<>> /\ toServer' = Tail(toServer)
        /\ UNCHANGED <<time, statusId>>
    BY <1>5 DEF Take, engine
  <2>2. ASSUME NEW t, AllNotLater(toServer, t) PROVE AllNotLater(toServer', t)
    BY <1>a, <2>1, <2>2, NotLaterTail
  <2> QED BY <2>1, <2>2 DEF StatusInv
<1>6. CASE ReadResponse
  BY <1>6 DEF ReadResponse, StatusInv
<1>7. ASSUME UNCHANGED <<time, statusId>>, toServer' = toServer \/ toServer' = <<>>
      PROVE  StatusInv'
  <2>1. \A t : AllNotLater(<<>>, t) BY DEF AllNotLater
  <2> QED BY <1>7, <2>1 DEF StatusInv
<1>8. CASE toggleRun \/ prepareReset \/ ReadPart \/ UNCHANGED vars
  BY <1>7, <1>8 DEF toggleRun, prepareReset, ReadPart, vars, engine, wire
<1>9. CASE start \/ stop \/ ReconnectTimeout \/ ConnectFailed \/ Disconnected \/ ReadMalformed
  BY <1>7, <1>9 DEF start, stop, ReconnectTimeout, ConnectFailed, Disconnected, ReadMalformed,
                    connectToServer, onDisconnected, HangUp, engine, wire
<1> QED BY <1>1, <1>2, <1>4, <1>5, <1>6, <1>8, <1>9 DEF Next, User, Timer, Network

\* The client stops waiting for a status answer only when it takes one, and
\* takes it only by the id of the report it made last.
LEMMA TakenById ==
  ASSUME TypeOK, [Next]_vars, statusId' = None, statusId # None
  PROVE  Head(toClient).at = statusId
<1>a. time \in Nat BY DEF TypeOK
<1>b. time # None BY <1>a DEF None
<1>1. CASE ReadResponse BY <1>1 DEF ReadResponse, Accepts
<1>2. CASE refresh \/ Connected BY <1>2, <1>b DEF refresh, Connected
<1>3. CASE doTick \/ toggleRun \/ prepareReset \/ ReadPart \/ Take \/ UNCHANGED vars
           \/ \E c \in Charger : injectFault(c) \/ injectRecovery(c)
  BY <1>3 DEF doTick, toggleRun, prepareReset, ReadPart, Take, vars, injectFault, injectRecovery
<1>4. CASE start \/ stop \/ ReconnectTimeout \/ ConnectFailed \/ Disconnected \/ ReadMalformed
  BY <1>4 DEF start, stop, ReconnectTimeout, ConnectFailed, Disconnected, ReadMalformed
<1> QED BY <1>1, <1>2, <1>3, <1>4 DEF Next, User, Timer, Network

\* No answer is taken for the authoritative snapshot while the answer to a
\* later report is on its way.
THEOREM TakesTheLastAnswer == Spec => SnapshotNotSuperseded
<1>1. Init => StatusInv
  BY DEF Init, StatusInv, AllNotLater
<1>2. TypeOK /\ StatusInv /\ [Next]_vars =>
        [statusId' = None /\ statusId # None =>
           \A i \in DOMAIN toServer :
             toServer[i].kind = "status" => toServer[i].at <= Head(toClient).at]_vars
  BY TakenById DEF StatusInv, AllNotLater, NotLater
<1> QED BY <1>1, <1>2, StatusStep, TypeCorrect, PTL DEF Spec, SnapshotNotSuperseded


-----------------------------------------------------------------------------
(* The server is one of the peers of Simulator. *)

\* ServerTypeOK, with the statuses of the server among those it may report.
StoreInv ==
  /\ authority \in Snapshot
  /\ \A t \in DOMAIN snapshots : snapshots[t] \in Snapshot
  /\ cursor \in [Charger -> Int]
  /\ \A id \in accepted : id \in {"telemetry", "fault"} \X Charger \X Nat

LEMMA StoreTypes ==
  StoreInv => /\ ServerTypeOK
              /\ authority \in [Charger -> Status]
BY SimulatorAssumption DEF StoreInv, ServerTypeOK, SimulatorAssumption

LEMMA HeadTypes ==
  ASSUME TypeOK, toServer # <<>>
  PROVE  /\ Head(toServer) \in Request
         /\ Head(toServer).at \in Nat
         /\ Head(toServer).kind # "status" =>
              Head(toServer).charger \in Charger /\ Head(toServer).kind \in {"telemetry", "fault"}
<1>1. Head(toServer) \in Request
  <2>1. toServer \in Seq(Request) BY DEF TypeOK
  <2> HIDE DEF Request
  <2> QED BY <2>1
<1>2. \A m \in Request : /\ m.at \in Nat
                         /\ m.kind # "status" => m.charger \in Charger /\ m.kind \in {"telemetry", "fault"}
  BY DEF Request, Telemetry
<1> QED BY <1>1, <1>2

LEMMA SecondTypes == ASSUME NEW a \in Nat PROVE a \div Second \in Int
BY ServerAssumption DEF ServerAssumption

\* The answer to a report, stored or new, is a snapshot.
LEMMA ServeIsTake ==
  ASSUME TypeOK, StoreInv, Serve
  PROVE  Take /\ StoreInv'
<1> DEFINE m == Head(toServer)
<1>a. /\ toServer # <<>> /\ toServer' = Tail(toServer)
      /\ UNCHANGED Rest
  BY DEF Serve
<1>b. /\ m.at \in Nat
      /\ m.kind # "status" => m.charger \in Charger /\ m.kind \in {"telemetry", "fault"}
  BY <1>a, HeadTypes
<1>c. Len(toClient) \in Nat /\ MaxReply \in Nat
  BY SimulatorAssumption DEF TypeOK, SimulatorAssumption
<1>1. CASE m.kind = "status"
  <2> DEFINE taken == [t \in DOMAIN snapshots \cup {m.at} |->
                         IF t \in DOMAIN snapshots THEN snapshots[t] ELSE authority]
             f == [kind |-> "status", at |-> m.at, ok |-> TRUE, chargers |-> taken[m.at]]
  <2>1. /\ snapshots' = taken
        /\ Len(toClient) < MaxReply /\ toClient' = Append(toClient, f)
        /\ UNCHANGED <<authority, cursor, accepted>>
    BY <1>1, <1>a DEF Serve, ServeStatus, Reply
  <2>2. \A t \in DOMAIN taken : taken[t] \in Snapshot BY DEF StoreInv
  <2>3. taken[m.at] \in Snapshot BY <2>2
  <2> HIDE DEF taken
  <2>4. f \in [kind : {"status"}, at : {m.at}, ok : BOOLEAN, chargers : Snapshot] BY <2>3
  <2>5. ~(Len(toClient) >= MaxReply) BY <2>1, <1>c
  <2>6. Take BY <1>a, <2>1, <2>4, <2>5 DEF Take, Rest
  <2> QED BY <2>1, <2>2, <2>6 DEF StoreInv
<1>2. CASE m.kind # "status"
  <2>1. /\ UNCHANGED <<toClient, snapshots>>
        /\ \/ UNCHANGED <<accepted, cursor, authority>>
           \/ /\ Consistent(m)
              /\ accepted' = accepted \cup {requestId(m)}
              /\ cursor' = [cursor EXCEPT ![m.charger] = recordedAt(m)]
              /\ authority' = IF m.value = "fault" /\ m.kind = "fault"
                              THEN [authority EXCEPT ![m.charger] = "fault"] ELSE authority
    BY <1>2 DEF Serve, ServeEvent
  <2>2. Take BY <1>a, <2>1 DEF Take, Rest
  <2>3. recordedAt(m) \in Int BY <1>b, SecondTypes DEF recordedAt
  <2>4. requestId(m) \in {"telemetry", "fault"} \X Charger \X Nat BY <1>b, <1>2 DEF requestId
  <2>5. [authority EXCEPT ![m.charger] = "fault"] \in Snapshot
    BY <1>b, <1>2, ServerAssumption DEF ServerAssumption, StoreInv
  <2> HIDE DEF m
  <2>6. authority' \in Snapshot BY <2>1, <2>5 DEF StoreInv
  <2>7. cursor' \in [Charger -> Int] BY <2>1, <2>3 DEF StoreInv
  <2>8. \A id \in accepted' : id \in {"telemetry", "fault"} \X Charger \X Nat
    BY <2>1, <2>4 DEF StoreInv
  <2> QED BY <2>1, <2>2, <2>6, <2>7, <2>8 DEF StoreInv
<1> QED BY <1>1, <1>2

\* What the users of the server do leaves the simulator alone.
LEMMA ServerStep ==
  TypeOK /\ StoreInv /\ [ServerNext]_allVars => [Next]_vars /\ StoreInv'
<1> SUFFICES ASSUME TypeOK, StoreInv, [ServerNext]_allVars PROVE [Next]_vars /\ StoreInv'
  OBVIOUS
<1>1. CASE (User \/ Timer \/ Network) /\ UNCHANGED server
  BY <1>1 DEF Next, server, StoreInv
<1>2. CASE Serve
  BY <1>2, ServeIsTake DEF Next
<1>3. ASSUME NEW c \in Charger, Operate(c) PROVE [Next]_vars /\ StoreInv'
  BY <1>3 DEF Operate, StoreInv
<1>4. CASE UNCHANGED allVars
  BY <1>4 DEF allVars, server, StoreInv
<1> QED BY <1>1, <1>2, <1>3, <1>4 DEF ServerNext

LEMMA ServerSafe == ServerSpec => [](TypeOK /\ StoreInv)
<1>1. ServerInit => TypeOK /\ StoreInv
  <2> SUFFICES ASSUME ServerInit PROVE TypeOK /\ StoreInv OBVIOUS
  <2>1. TypeOK BY InitTypes DEF ServerInit
  <2>2. cursor \in [Charger -> Int] BY DEF ServerInit, None
  <2>3. DOMAIN snapshots = {} BY DEF ServerInit
  <2> QED BY <2>1, <2>2, <2>3 DEF ServerInit, StoreInv
<1>2. TypeOK /\ StoreInv /\ [ServerNext]_allVars => (TypeOK /\ StoreInv)'
  BY ServerStep, TypeStep
<1> QED BY <1>1, <1>2, PTL DEF ServerSpec

\* Against the server of the interface contract the simulator does what
\* Simulator says, so that what is proved there holds here.
THEOREM ServerIsAPeer == ServerSpec => KeepsSimulator
<1>1. ServerInit => Init BY DEF ServerInit
<1>2. TypeOK /\ StoreInv /\ [ServerNext]_allVars => [Next]_vars BY ServerStep
<1> QED BY <1>1, <1>2, ServerSafe, PTL DEF ServerSpec, KeepsSimulator, Spec

\* The statuses, cursors, stored ids and stored answers of the server are of
\* their types.
THEOREM ServerTypeCorrect == ServerSpec => []ServerTypeOK
BY ServerSafe, StoreTypes, PTL

-----------------------------------------------------------------------------
(* Why the cursors never refuse a sample. *)

\* An event on its way, or queued, was made by now, and a sample is of a later
\* second than all the server accepted for its charger.
Fresh == {m \in Request : m.kind # "status" =>
            /\ m.at <= time
            /\ m.kind = "telemetry" => cursor[m.charger] < recordedAt(m)}

\* A tick passes between an event and a later sample of the charger.
Apart(m, n) ==
  m.kind # "status" /\ n.kind = "telemetry" /\ m.charger = n.charger => m.at + Tick <= n.at
AllApart(p, q) == \A i \in DOMAIN p, j \in DOMAIN q : Apart(p[i], q[j])
Spread(s) == \A i, j \in DOMAIN s : i < j => Apart(s[i], s[j])

CursorInv ==
  /\ \A c \in Charger : cursor[c] <= time \div Second
  /\ \A id \in accepted : id[3] \div Second <= cursor[id[2]]

FreshInv ==
  /\ toServer \in Seq(Fresh) /\ queue \in Seq(Fresh)
  /\ Spread(toServer) /\ Spread(queue) /\ AllApart(toServer, queue)

EventInv == CursorInv /\ FreshInv

-----------------------------------------------------------------------------
(* Seconds, and sequences of events. *)

LEMMA NonNegative == ASSUME NEW s \in Nat, NEW d \in Nat PROVE s * d >= 0
OBVIOUS

LEMMA DivMono ==
  ASSUME NEW a \in Nat, NEW b \in Nat, a <= b
  PROVE  a \div Second <= b \div Second
<1> DEFINE p == a \div Second
           q == b \div Second
<1>s. Second \in Nat \ {0} BY ServerAssumption DEF ServerAssumption
<1>1. p \in Int /\ q \in Int BY <1>s
<1>2. Second * p <= a /\ b < Second * q + Second BY <1>s
<1> HIDE DEF p, q
<1>3. ASSUME q < p PROVE FALSE
  <2>1. p - q - 1 \in Nat BY <1>1, <1>3
  <2>2. Second * (p - q - 1) >= 0 BY <1>s, <2>1, NonNegative
  <2>3. Second * (p - q - 1) = Second * p - Second * q - Second BY <1>1, <1>s
  <2>4. Second * p \in Int /\ Second * q \in Int BY <1>1, <1>s
  <2> QED BY <1>2, <1>s, <2>2, <2>3, <2>4
<1>4. p <= q BY <1>1, <1>3
<1> QED BY <1>4 DEF p, q

\* A tick of at least a second is a later second.
LEMMA DivTick ==
  ASSUME SimulatorAssumption, Second <= Tick, NEW a \in Nat, NEW b \in Nat, a + Tick <= b
  PROVE  a \div Second < b \div Second
<1> DEFINE c == a + Second
<1>s. Second \in Nat \ {0} /\ Tick \in Nat
  BY ServerAssumption DEF ServerAssumption, SimulatorAssumption
<1>1. c \in Nat /\ c <= b BY <1>s
<1>2. c \div Second = (a \div Second) + 1 BY <1>s
<1>3. a \div Second \in Int /\ b \div Second \in Int BY <1>s
<1> HIDE DEF c
<1>4. c \div Second <= b \div Second BY <1>1, DivMono
<1> QED BY <1>2, <1>3, <1>4

LEMMA SeqOf ==
  ASSUME NEW S, NEW T, NEW s \in Seq(S), \A i \in DOMAIN s : s[i] \in T
  PROVE  s \in Seq(T)
<1>1. s \in [1..Len(s) -> T] /\ Len(s) \in Nat OBVIOUS
<1> QED BY <1>1

LEMMA SpreadConcat ==
  ASSUME NEW p \in Seq(Request), NEW q \in Seq(Request), Spread(p), Spread(q), AllApart(p, q)
  PROVE  Spread(p \o q)
<1> HIDE DEF Request
<1> SUFFICES ASSUME NEW i \in DOMAIN (p \o q), NEW j \in DOMAIN (p \o q), i < j
             PROVE  Apart((p \o q)[i], (p \o q)[j])
  BY DEF Spread
<1>1. /\ Len(p) \in Nat /\ Len(q) \in Nat
      /\ i \in 1..(Len(p) + Len(q)) /\ j \in 1..(Len(p) + Len(q))
      /\ DOMAIN p = 1..Len(p) /\ DOMAIN q = 1..Len(q)
  OBVIOUS
<1>2. CASE j <= Len(p)
  <2>1. i \in DOMAIN p /\ j \in DOMAIN p BY <1>1, <1>2
  <2>2. (p \o q)[i] = p[i] /\ (p \o q)[j] = p[j] BY <2>1
  <2> QED BY <2>1, <2>2 DEF Spread
<1>3. CASE i <= Len(p) /\ j > Len(p)
  <2>1. i \in DOMAIN p /\ j - Len(p) \in DOMAIN q BY <1>1, <1>3
  <2>2. (p \o q)[i] = p[i] /\ (p \o q)[j] = q[j - Len(p)] BY <1>1, <1>3
  <2> QED BY <2>1, <2>2 DEF AllApart
<1>4. CASE i > Len(p)
  <2>1. i - Len(p) \in DOMAIN q /\ j - Len(p) \in DOMAIN q /\ i - Len(p) < j - Len(p) BY <1>1, <1>4
  <2>2. (p \o q)[i] = q[i - Len(p)] /\ (p \o q)[j] = q[j - Len(p)] BY <1>1, <1>4
  <2> QED BY <2>1, <2>2 DEF Spread
<1> QED BY <1>1, <1>2, <1>3, <1>4

LEMMA ApartConcat ==
  ASSUME NEW s \in Seq(Request), NEW p \in Seq(Request), NEW q \in Seq(Request),
         AllApart(s, p), AllApart(s, q)
  PROVE  AllApart(s, p \o q)
<1> HIDE DEF Request
<1> SUFFICES ASSUME NEW i \in DOMAIN s, NEW j \in DOMAIN (p \o q)
             PROVE  Apart(s[i], (p \o q)[j])
  BY DEF AllApart
<1>1. Len(p) \in Nat /\ Len(q) \in Nat /\ j \in 1..(Len(p) + Len(q)) OBVIOUS
<1>2. CASE j <= Len(p)
  <2>1. j \in DOMAIN p /\ (p \o q)[j] = p[j] BY <1>1, <1>2
  <2> QED BY <2>1 DEF AllApart
<1>3. CASE j > Len(p)
  <2>1. j - Len(p) \in DOMAIN q /\ (p \o q)[j] = q[j - Len(p)] BY <1>1, <1>3
  <2> QED BY <2>1 DEF AllApart
<1> QED BY <1>1, <1>2, <1>3

\* Taking the first event leaves the others apart, from it and from each other.
LEMMA SpreadTail ==
  ASSUME NEW p \in Seq(Request), NEW q \in Seq(Request), p # <<>>, Spread(p), AllApart(p, q)
  PROVE  /\ Spread(Tail(p)) /\ AllApart(Tail(p), q)
         /\ \A j \in DOMAIN Tail(p) : Apart(Head(p), Tail(p)[j])
         /\ \A j \in DOMAIN q : Apart(Head(p), q[j])
<1> HIDE DEF Request
<1>1. /\ Head(p) = p[1] /\ 1 \in DOMAIN p
      /\ \A j \in DOMAIN Tail(p) : j \in Int /\ 1 < j + 1 /\ j + 1 \in DOMAIN p /\ Tail(p)[j] = p[j + 1]
  OBVIOUS
<1>2. Spread(Tail(p)) BY <1>1 DEF Spread
<1>3. AllApart(Tail(p), q) BY <1>1 DEF AllApart
<1>4. \A j \in DOMAIN Tail(p) : Apart(Head(p), Tail(p)[j]) BY <1>1 DEF Spread
<1>5. \A j \in DOMAIN q : Apart(Head(p), q[j]) BY <1>1 DEF AllApart
<1> QED BY <1>2, <1>3, <1>4, <1>5

\* So does dropping the oldest ones.
LEMMA SpreadDrop ==
  ASSUME NEW s \in Seq(Request), NEW a \in Seq(Request), NEW r \in Seq(Request), NEW d \in Nat,
         d <= Len(a), Len(r) = Len(a) - d, \A i \in 1..Len(r) : r[i] = a[d + i],
         Spread(a), AllApart(s, a)
  PROVE  Spread(r) /\ AllApart(s, r)
<1> HIDE DEF Request
<1>1. \A i \in DOMAIN r : i \in Int /\ d + i \in DOMAIN a /\ r[i] = a[d + i]
  OBVIOUS
<1>2. Spread(r) BY <1>1 DEF Spread
<1>3. AllApart(s, r) BY <1>1 DEF AllApart
<1> QED BY <1>2, <1>3

-----------------------------------------------------------------------------
(* The steps of the simulator. *)

LEMMA FreshTypes ==
  ASSUME FreshInv
  PROVE  toServer \in Seq(Request) /\ queue \in Seq(Request)
<1>1. Fresh \subseteq Request BY DEF Fresh
<1> HIDE DEF Request, Fresh
<1> QED BY <1>1 DEF FreshInv

\* What was fresh stays so as time goes on.
LEMMA StillFresh ==
  ASSUME time \in Nat, time' \in Nat, time <= time', cursor' = cursor
  PROVE  Fresh \subseteq Fresh'
<1> SUFFICES ASSUME NEW m \in Fresh PROVE m \in Fresh'
  OBVIOUS
<1>1. m.at \in Nat BY DEF Fresh, Request, Telemetry
<1>2. m.kind # "status" => m.at <= time' BY <1>1 DEF Fresh
<1> QED BY <1>2 DEF Fresh, recordedAt

\* The samples of a tick are of a later second than everything before.
LEMMA TickFresh ==
  ASSUME TypeOK, StoreInv, EventInv, Second <= Tick, doTick, UNCHANGED server
  PROVE  \E b \in Seq(Request) :
           /\ b \in Seq(Telemetry) /\ b \in Seq(Fresh')
           /\ Spread(b) /\ AllApart(toServer, b) /\ AllApart(queue, b)
           /\ Online => toServer' = toServer \o b /\ queue' = queue
           /\ ~Online => toServer' = toServer /\ queue' = Enqueue(queue, b)
<1> DEFINE u == time + Tick
           b == Batch(u)
<1>a. /\ time \in Nat /\ chargers \in {<<>>} \cup [Charger -> Status]
      /\ Tick \in Nat /\ Second \in Nat \ {0}
  BY SimulatorAssumption, ServerAssumption DEF TypeOK, SimulatorAssumption, ServerAssumption
<1>1. /\ time' = u /\ cursor' = cursor
      /\ Online => toServer' = toServer \o b /\ queue' = queue
      /\ ~Online => toServer' = toServer /\ queue' = Enqueue(queue, b)
  BY DEF doTick, Batch, server
<1>2. u \in Nat BY <1>a
<1>3. time \div Second < u \div Second
  BY <1>a, <1>2, SimulatorAssumption, DivTick
<1>4. u = time + Tick OBVIOUS
<1> HIDE DEF u
<1>5. b \in Seq(Telemetry) /\ \A i \in DOMAIN b : b[i].charger = i /\ b[i].at = u
  BY <1>a, <1>2, BatchFacts, SimulatorAssumption
<1> HIDE DEF b
<1>6. \A i \in DOMAIN b : b[i] \in Telemetry BY <1>5
<1>7. b \in Seq(Request) BY <1>5, TelemetryNotLater
<1>8. ASSUME NEW i \in DOMAIN b PROVE b[i] \in Fresh'
  <2>1. b[i] \in Telemetry /\ b[i].at = u BY <1>5, <1>6
  <2>2. b[i] \in Request /\ b[i].charger \in Charger BY <2>1 DEF Request, Telemetry
  <2>3. cursor[b[i].charger] \in Int /\ cursor[b[i].charger] <= time \div Second
    BY <2>2 DEF StoreInv, EventInv, CursorInv
  <2>4. time \div Second \in Int /\ u \div Second \in Int BY <1>a, <1>2
  <2>5. cursor[b[i].charger] < u \div Second BY <1>3, <2>3, <2>4
  <2> QED BY <1>1, <1>2, <2>1, <2>2, <2>5 DEF Fresh, recordedAt
<1>9. b \in Seq(Fresh')
  <2> HIDE DEF Fresh
  <2> QED BY <1>7, <1>8, SeqOf
<1>10. Spread(b)
  <2>1. \A i \in DOMAIN b : i \in Int BY <1>5
  <2> QED BY <1>5, <2>1 DEF Spread, Apart
<1>11. ASSUME NEW s \in Seq(Fresh) PROVE AllApart(s, b)
  <2> SUFFICES ASSUME NEW i \in DOMAIN s, NEW j \in DOMAIN b, s[i].kind # "status"
               PROVE  s[i].at + Tick <= b[j].at
    BY DEF AllApart, Apart
  <2>1. s[i] \in Fresh
    <3> HIDE DEF Fresh
    <3> QED OBVIOUS
  <2>2. s[i].at \in Nat /\ s[i].at <= time BY <2>1 DEF Fresh, Request, Telemetry
  <2> QED BY <1>a, <1>4, <1>5, <2>2
<1>12. AllApart(toServer, b) /\ AllApart(queue, b) BY <1>11 DEF EventInv, FreshInv
<1> QED BY <1>1, <1>5, <1>7, <1>9, <1>10, <1>12

LEMMA TickStep ==
  ASSUME TypeOK, StoreInv, NothingQueuedOnline, EventInv, Second <= Tick, doTick, UNCHANGED server
  PROVE  EventInv'
<1>a. /\ time \in Nat /\ time' \in Nat /\ time <= time' /\ cursor' = cursor /\ accepted' = accepted
  BY SimulatorAssumption DEF TypeOK, SimulatorAssumption, doTick, server
<1>1. toServer \in Seq(Request) /\ queue \in Seq(Request) BY FreshTypes DEF EventInv
<1>2. toServer \in Seq(Fresh') /\ queue \in Seq(Fresh')
  <2>1. Fresh \subseteq Fresh' BY <1>a, StillFresh
  <2> HIDE DEF Fresh
  <2> QED BY <2>1 DEF EventInv, FreshInv
<1>3. PICK b \in Seq(Request) :
        /\ b \in Seq(Telemetry) /\ b \in Seq(Fresh')
        /\ Spread(b) /\ AllApart(toServer, b) /\ AllApart(queue, b)
        /\ Online => toServer' = toServer \o b /\ queue' = queue
        /\ ~Online => toServer' = toServer /\ queue' = Enqueue(queue, b)
  BY TickFresh
<1>4. CursorInv'
  <2>1. \A c \in Charger : cursor[c] \in Int /\ cursor[c] <= time \div Second
    BY DEF StoreInv, EventInv, CursorInv
  <2>2. time \div Second <= time' \div Second BY <1>a, DivMono
  <2>3. time \div Second \in Int /\ time' \div Second \in Int BY <1>a, SecondTypes
  <2>4. \A c \in Charger : cursor[c] <= time' \div Second BY <2>1, <2>2, <2>3
  <2> QED BY <1>a, <2>4 DEF EventInv, CursorInv
<1>5. CASE Online
  <2>1. queue = <<>> BY <1>5 DEF NothingQueuedOnline, Online
  <2>2. toServer' = toServer \o b /\ queue' = <<>> BY <1>3, <1>5, <2>1
  <2>3. toServer \o b \in Seq(Fresh')
    <3> HIDE DEF Fresh
    <3> QED BY <1>2, <1>3
  <2>4. Spread(toServer \o b) BY <1>1, <1>3, SpreadConcat DEF EventInv, FreshInv
  <2> QED BY <1>2, <1>4, <2>1, <2>2, <2>3, <2>4 DEF EventInv, FreshInv, Spread, AllApart
<1>6. CASE ~Online
  <2> DEFINE a == queue \o b
             r == Enqueue(queue, b)
  <2>1. toServer' = toServer /\ queue' = r BY <1>3, <1>6
  <2>2. a \in Seq(Request) /\ a \in Seq(Fresh')
    <3> HIDE DEF Fresh, Request
    <3> QED BY <1>1, <1>2, <1>3
  <2>3. Spread(a) /\ AllApart(toServer, a)
    BY <1>1, <1>3, SpreadConcat, ApartConcat DEF EventInv, FreshInv
  <2>4. queue \in Seq(Telemetry) BY DEF TypeOK
  <2>5. /\ r \in Seq(Telemetry)
        /\ \E d \in Nat : /\ d <= Len(a) /\ Len(r) = Len(a) - d
                          /\ \A i \in 1..Len(r) : r[i] = a[d + i]
    BY <1>3, <2>4, EnqueueFacts, SimulatorAssumption
  <2> HIDE DEF a, r
  <2>6. PICK d \in Nat : d <= Len(a) /\ Len(r) = Len(a) - d /\ \A i \in 1..Len(r) : r[i] = a[d + i]
    BY <2>5
  <2>7. r \in Seq(Request) BY <2>5, TelemetryNotLater
  <2>8. Spread(r) /\ AllApart(toServer, r) BY <1>1, <2>2, <2>3, <2>6, <2>7, SpreadDrop
  <2>9. \A i \in DOMAIN r : r[i] \in Fresh'
    <3> HIDE DEF Fresh
    <3>1. \A i \in DOMAIN a : a[i] \in Fresh' BY <2>2
    <3>2. \A i \in DOMAIN r : d + i \in DOMAIN a /\ r[i] = a[d + i] BY <2>2, <2>6, <2>7
    <3> QED BY <3>1, <3>2
  <2>10. r \in Seq(Fresh')
    <3> HIDE DEF Fresh
    <3> QED BY <2>7, <2>9, SeqOf
  <2> QED BY <1>2, <1>4, <2>1, <2>8, <2>10 DEF EventInv, FreshInv
<1> QED BY <1>5, <1>6

\* A request other than a sample, written on an open connection.
LEMMA WriteStep ==
  ASSUME TypeOK, NothingQueuedOnline, EventInv, Online, UNCHANGED <<server, time, queue>>,
         NEW m \in Request, m.kind # "telemetry", m.kind # "status" => m.at = time,
         toServer' = Append(toServer, m)
  PROVE  EventInv'
<1> HIDE DEF Request
<1>1. toServer \in Seq(Request) BY FreshTypes DEF EventInv
<1>2. Fresh' = Fresh BY DEF Fresh, server, recordedAt
<1>3. m \in Fresh
  <2>1. time \in Nat BY DEF TypeOK
  <2> QED BY <2>1 DEF Fresh
<1>4. /\ <<m>> \in Seq(Request) /\ <<m>>[1] = m /\ DOMAIN <<m>> = {1}
      /\ Append(toServer, m) = toServer \o <<m>>
  BY <1>1
<1>5. Spread(<<m>>) /\ AllApart(toServer, <<m>>) BY <1>4 DEF Spread, AllApart, Apart
<1>6. Spread(toServer') BY <1>1, <1>4, <1>5, SpreadConcat DEF EventInv, FreshInv
<1>7. toServer' \in Seq(Fresh)
  <2> HIDE DEF Fresh
  <2> QED BY <1>3 DEF EventInv, FreshInv
<1>8. queue = <<>> BY DEF NothingQueuedOnline, Online
<1>9. CursorInv' BY DEF EventInv, CursorInv, server
<1>10. queue' \in Seq(Fresh) /\ Spread(queue') /\ AllApart(toServer', queue')
  BY <1>8 DEF Spread, AllApart
<1> QED BY <1>2, <1>6, <1>7, <1>9, <1>10 DEF EventInv, FreshInv

\* The queue goes out behind the status report.
LEMMA FlushStep ==
  ASSUME TypeOK, EventInv, Connected, UNCHANGED server
  PROVE  EventInv'
<1> DEFINE m == StatusReport
<1>1. toServer \in Seq(Request) /\ queue \in Seq(Request) BY FreshTypes DEF EventInv
<1>2. time' = time /\ toServer' = <<m>> \o queue /\ queue' = <<>>
  BY DEF Connected, engine
<1>3. Fresh' = Fresh BY <1>2 DEF Fresh, server, recordedAt
<1>4. time \in Nat BY DEF TypeOK
<1>5. m \in Request /\ m.kind = "status" BY <1>4 DEF StatusReport, Request
<1> HIDE DEF m, Request
<1>6. m \in Fresh BY <1>5 DEF Fresh
<1>7. <<m>> \in Seq(Request) /\ <<m>>[1] = m /\ DOMAIN <<m>> = {1} BY <1>5
<1>8. Spread(<<m>>) /\ AllApart(<<m>>, queue) BY <1>5, <1>7 DEF Spread, AllApart, Apart
<1>9. Spread(<<m>> \o queue) BY <1>1, <1>7, <1>8, SpreadConcat DEF EventInv, FreshInv
<1>10. <<m>> \o queue \in Seq(Fresh)
  <2> HIDE DEF Fresh
  <2> QED BY <1>6 DEF EventInv, FreshInv
<1>11. CursorInv' BY <1>2 DEF EventInv, CursorInv, server
<1>12. <<>> \in Seq(Fresh) /\ Spread(<<>>) /\ AllApart(<<m>> \o queue, <<>>) BY DEF Spread, AllApart
<1> QED BY <1>2, <1>3, <1>9, <1>10, <1>11, <1>12 DEF EventInv, FreshInv

\* Everything else writes nothing; what is lost with a connection is no matter.
LEMMA QuietStep ==
  ASSUME EventInv, UNCHANGED <<time, queue, cursor, accepted>>, toServer' = toServer \/ toServer' = <<>>
  PROVE  EventInv'
<1>1. Fresh' = Fresh BY DEF Fresh, recordedAt
<1>2. CursorInv' BY DEF EventInv, CursorInv
<1>3. <<>> \in Seq(Fresh) /\ Spread(<<>>) /\ AllApart(<<>>, queue) BY DEF Spread, AllApart
<1> HIDE DEF Fresh
<1> QED BY <1>1, <1>2, <1>3 DEF EventInv, FreshInv

LEMMA SimulatorStep ==
  ASSUME TypeOK, StoreInv, NothingQueuedOnline, EventInv, Second <= Tick,
         User \/ Timer \/ Network, UNCHANGED server
  PROVE  EventInv'
<1>a. time \in Nat BY DEF TypeOK
<1>1. CASE doTick BY <1>1, TickStep
<1>2. CASE refresh
  <2>1. StatusReport \in Request /\ StatusReport.kind = "status"
    BY <1>a DEF StatusReport, Request
  <2>2. Online /\ UNCHANGED <<time, queue>> /\ toServer' = Append(toServer, StatusReport)
    BY <1>2 DEF refresh, Write, engine
  <2> QED BY <2>1, <2>2, WriteStep
<1>3. ASSUME NEW c \in Charger, injectFault(c) \/ injectRecovery(c) PROVE EventInv'
  <2>1. PICK v \in {"fault", "recover"} :
          \/ Online /\ toServer' = Append(toServer, Intent(c, v))
          \/ toServer' = toServer
    BY <1>3 DEF injectFault, injectRecovery, Write
  <2>2. /\ Intent(c, v) \in Request /\ Intent(c, v).kind # "telemetry" /\ Intent(c, v).at = time
    BY <1>a DEF Intent, Request
  <2>3. UNCHANGED <<time, queue>> BY <1>3 DEF injectFault, injectRecovery, engine
  <2>4. CASE Online /\ toServer' = Append(toServer, Intent(c, v))
    BY <2>2, <2>3, <2>4, WriteStep
  <2>5. CASE toServer' = toServer BY <2>3, <2>5, QuietStep DEF server
  <2> QED BY <2>1, <2>4, <2>5
<1>4. CASE Connected BY <1>4, FlushStep
<1>5. CASE toggleRun \/ prepareReset \/ ReadPart \/ ReadResponse
  BY <1>5, QuietStep DEF toggleRun, prepareReset, ReadPart, ReadResponse, engine, wire, server
<1>6. CASE start \/ stop \/ ReconnectTimeout \/ ConnectFailed \/ Disconnected \/ ReadMalformed
  BY <1>6, QuietStep DEF start, stop, ReconnectTimeout, ConnectFailed, Disconnected, ReadMalformed,
       connectToServer, onDisconnected, HangUp, engine, wire, server
<1> QED BY <1>1, <1>2, <1>3, <1>4, <1>5, <1>6 DEF User, Timer, Network

-----------------------------------------------------------------------------
(* The steps of the server. *)

LEMMA ServeKeepsEvents ==
  ASSUME TypeOK, StoreInv, EventInv, Second <= Tick, Serve
  PROVE  EventInv'
<1> DEFINE m == Head(toServer)
<1>a. toServer # <<>> /\ toServer' = Tail(toServer) /\ UNCHANGED <<time, queue>>
  BY DEF Serve, Rest, engine
<1>b. /\ m.at \in Nat /\ time \in Nat
      /\ m.kind # "status" => m.charger \in Charger /\ m.kind \in {"telemetry", "fault"}
  BY <1>a, HeadTypes DEF TypeOK
<1>c. toServer \in Seq(Request) /\ queue \in Seq(Request) BY FreshTypes DEF EventInv
<1>d. m \in Fresh /\ Tail(toServer) \in Seq(Fresh) /\ queue \in Seq(Fresh)
  <2> HIDE DEF Fresh
  <2> QED BY <1>a DEF EventInv, FreshInv
<1>1. /\ Spread(Tail(toServer)) /\ AllApart(Tail(toServer), queue)
      /\ \A j \in DOMAIN Tail(toServer) : Apart(m, Tail(toServer)[j])
      /\ \A j \in DOMAIN queue : Apart(m, queue[j])
  BY <1>a, <1>c, SpreadTail DEF EventInv, FreshInv
<1> HIDE DEF m
<1>2. CASE UNCHANGED <<accepted, cursor>>
  <2>1. Fresh' = Fresh BY <1>a, <1>2 DEF Fresh, recordedAt
  <2>2. CursorInv' BY <1>a, <1>2 DEF EventInv, CursorInv
  <2> HIDE DEF Fresh
  <2> QED BY <1>a, <1>d, <1>1, <2>1, <2>2 DEF EventInv, FreshInv
<1>3. CASE /\ m.kind # "status" /\ recordedAt(m) > cursor[m.charger]
           /\ accepted' = accepted \cup {requestId(m)}
           /\ cursor' = [cursor EXCEPT ![m.charger] = recordedAt(m)]
  <2>1. /\ m.charger \in Charger /\ cursor \in [Charger -> Int]
        /\ recordedAt(m) \in Int /\ time \div Second \in Int
    BY <1>b, <1>3, SecondTypes DEF StoreInv, recordedAt
  <2>2. m.at <= time BY <1>3, <1>d DEF Fresh
  <2>3. recordedAt(m) <= time \div Second BY <1>b, <2>2, DivMono DEF recordedAt
  <2>4. ASSUME NEW n \in Fresh, Apart(m, n) PROVE n \in Fresh'
    <3>1. n \in Request /\ n.at \in Nat BY DEF Fresh, Request, Telemetry
    <3>2. n.kind # "status" => n.charger \in Charger BY <3>1 DEF Request, Telemetry
    <3>3. CASE n.kind = "telemetry" /\ n.charger = m.charger
      <4>1. m.at + Tick <= n.at BY <1>3, <2>4, <3>3 DEF Apart
      <4>2. recordedAt(m) < recordedAt(n)
        BY <1>b, <3>1, <4>1, DivTick, SimulatorAssumption DEF recordedAt
      <4>3. cursor'[n.charger] = recordedAt(m) BY <1>3, <2>1, <3>3
      <4>4. n.at <= time BY <3>3 DEF Fresh
      <4> QED BY <1>a, <3>1, <3>3, <4>2, <4>3, <4>4 DEF Fresh, recordedAt
    <3>4. CASE ~(n.kind = "telemetry" /\ n.charger = m.charger)
      <4>1. n.kind = "telemetry" => cursor'[n.charger] = cursor[n.charger]
        BY <1>3, <2>1, <3>2, <3>4
      <4> QED BY <1>a, <3>1, <4>1 DEF Fresh, recordedAt
    <3> QED BY <3>3, <3>4
  <2>5. Tail(toServer) \in Seq(Fresh') /\ queue \in Seq(Fresh')
    <3> HIDE DEF Fresh
    <3>1. \A j \in DOMAIN Tail(toServer) : Tail(toServer)[j] \in Fresh' BY <1>1, <1>d, <2>4
    <3>2. \A j \in DOMAIN queue : queue[j] \in Fresh' BY <1>1, <1>d, <2>4
    <3>3. Tail(toServer) \in Seq(Fresh') BY <1>d, <3>1, SeqOf
    <3>4. queue \in Seq(Fresh') BY <1>d, <3>2, SeqOf
    <3> QED BY <3>3, <3>4
  <2>6. \A c \in Charger : cursor'[c] <= time' \div Second
    BY <1>a, <1>3, <2>1, <2>3 DEF EventInv, CursorInv
  <2>7. \A id \in accepted' : id[3] \div Second <= cursor'[id[2]]
    <3> SUFFICES ASSUME NEW id \in accepted' PROVE id[3] \div Second <= cursor'[id[2]]
      OBVIOUS
    <3>1. CASE id = requestId(m)
      <4>1. id[3] = m.at /\ id[2] = m.charger BY <3>1 DEF requestId
      <4>2. cursor'[m.charger] = recordedAt(m) BY <1>3, <2>1
      <4> QED BY <4>1, <4>2, <2>1 DEF recordedAt
    <3>2. CASE id \in accepted
      <4>1. id[3] \in Nat /\ id[2] \in Charger BY <3>2 DEF StoreInv
      <4>2. id[3] \div Second <= cursor[id[2]] BY <3>2 DEF EventInv, CursorInv
      <4>3. cursor[id[2]] <= cursor'[id[2]] BY <1>3, <2>1, <4>1
      <4>4. id[3] \div Second \in Int /\ cursor[id[2]] \in Int /\ cursor'[id[2]] \in Int
        BY <1>3, <2>1, <4>1, SecondTypes
      <4> QED BY <4>2, <4>3, <4>4
    <3> QED BY <1>3, <3>1, <3>2
  <2>8. CursorInv' BY <2>6, <2>7 DEF CursorInv
  <2> HIDE DEF Fresh
  <2> QED BY <1>a, <1>1, <2>5, <2>8 DEF EventInv, FreshInv
<1> QED BY <1>2, <1>3 DEF Serve, ServeStatus, ServeEvent, m

LEMMA EventStep ==
  TypeOK /\ StoreInv /\ NothingQueuedOnline /\ EventInv /\ Second <= Tick /\ [ServerNext]_allVars
    => EventInv'
<1> SUFFICES ASSUME TypeOK, StoreInv, NothingQueuedOnline, EventInv, Second <= Tick,
                    [ServerNext]_allVars
             PROVE  EventInv'
  OBVIOUS
<1>1. CASE (User \/ Timer \/ Network) /\ UNCHANGED server BY <1>1, SimulatorStep
<1>2. CASE Serve BY <1>2, ServeKeepsEvents
<1>3. ASSUME NEW c \in Charger, Operate(c) PROVE EventInv'
  BY <1>3, QuietStep DEF Operate, vars, engine, wire
<1>4. CASE UNCHANGED allVars
  BY <1>4, QuietStep DEF allVars, vars, server, engine, wire
<1> QED BY <1>1, <1>2, <1>3, <1>4 DEF ServerNext

\* With an interval of a second or more, as the default of three is, whatever
\* was queued, dropped or lost and whatever faults were injected, a sample that
\* reaches the server is a new event and later than its cursor.
THEOREM SamplesAccepted == Second <= Tick /\ ServerSpec => []SamplesAreNew
<1>1. ServerInit => EventInv
  <2> SUFFICES ASSUME ServerInit PROVE EventInv OBVIOUS
  <2>1. toServer = <<>> /\ queue = <<>> /\ time = 0 /\ accepted = {} BY DEF ServerInit, Init
  <2>2. FreshInv BY <2>1 DEF FreshInv, Spread, AllApart
  <2>3. \A c \in Charger : cursor[c] = -1 BY DEF ServerInit, None
  <2>4. time \div Second >= 0 BY <2>1, ServerAssumption DEF ServerAssumption
  <2>5. time \div Second \in Int BY <2>1, SecondTypes
  <2>6. CursorInv BY <2>1, <2>3, <2>4, <2>5 DEF CursorInv
  <2> QED BY <2>2, <2>6 DEF EventInv
<1>2. TypeOK /\ StoreInv /\ EventInv => SamplesAreNew
  <2> SUFFICES ASSUME TypeOK, StoreInv, EventInv, toServer # <<>>, Head(toServer).kind = "telemetry"
               PROVE  /\ requestId(Head(toServer)) \notin accepted
                      /\ recordedAt(Head(toServer)) > cursor[Head(toServer).charger]
    BY DEF SamplesAreNew, Incoming
  <2> DEFINE m == Head(toServer)
  <2>1. m.at \in Nat /\ m.charger \in Charger BY HeadTypes
  <2>2. m \in Fresh
    <3> HIDE DEF Fresh
    <3> QED BY DEF EventInv, FreshInv
  <2>3. m.kind = "telemetry" OBVIOUS
  <2> HIDE DEF m
  <2>4. cursor[m.charger] < recordedAt(m) BY <2>2, <2>3 DEF Fresh
  <2>5. cursor[m.charger] \in Int /\ recordedAt(m) \in Int
    BY <2>1, SecondTypes DEF StoreInv, recordedAt
  <2>6. ASSUME requestId(m) \in accepted PROVE FALSE
    <3>1. requestId(m)[3] = m.at /\ requestId(m)[2] = m.charger BY DEF requestId
    <3>2. recordedAt(m) <= cursor[m.charger]
      BY <2>6, <3>1 DEF EventInv, CursorInv, recordedAt
    <3> QED BY <2>4, <2>5, <3>2
  <2> QED BY <2>4, <2>5, <2>6 DEF m
<1>3. OrderInv => NothingQueuedOnline BY DEF OrderInv
<1>4. CASE Second <= Tick
  <2>1. TypeOK /\ StoreInv /\ NothingQueuedOnline /\ EventInv /\ [ServerNext]_allVars => EventInv'
    BY <1>4, EventStep
  <2> QED BY <1>1, <1>2, <1>3, <2>1, ServerSafe, ServerIsAPeer, OrderSafe, PTL
          DEF ServerSpec, KeepsSimulator
<1> QED BY <1>4

=============================================================================
