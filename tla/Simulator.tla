------------------------------ MODULE Simulator ------------------------------
(***************************************************************************)
(* The device simulator, simulator/src: TelemetryEngine (simulated time    *)
(* and the statuses of the chargers), SimulatorWindow (the run timer and   *)
(* the buttons) and SimulatorClient (one socket, a bounded queue of the    *)
(* samples produced while offline, and a repeating reconnect timer).       *)
(*                                                                         *)
(* Everything runs on one thread and no slot of this program calls back    *)
(* into the handler that emitted, so a handler is one step.  In particular *)
(* pendingIntents_ is empty between handlers: injectFault and              *)
(* injectRecovery drain what they add.                                     *)
(*                                                                         *)
(* Here the peer takes requests off the connection and sends any frame;    *)
(* SimulatorServer puts the server of the interface contract in its place. *)
(* Left out: powers and energies, which nothing decides on, the counters   *)
(* shown in the window and the log.                                        *)
(***************************************************************************)
EXTENDS Integers, Sequences

CONSTANTS
  N,          \* chargers of the server's snapshot, with ids 1..N
  Snapshot,   \* the snapshots the peer may send
  Tick,       \* intervalMs_
  MaxQueue,   \* config_.maxQueueSamples
  MaxTime,    \* bound: simulated time
  MaxWire,    \* bound: unread requests beyond which the user does not click
  MaxReply    \* bound: unread frames of the peer

Charger == 1..N
Status == {"idle", "reserved", "charging", "fault", "restarting"}
None == -1

ASSUME SimulatorAssumption ==
  /\ N \in Nat /\ Tick \in Nat \ {0} /\ MaxQueue \in Nat \ {0}
  /\ MaxTime \in Nat /\ MaxWire \in Nat /\ MaxReply \in Nat
  /\ Snapshot \subseteq [Charger -> Status]

VARIABLES
  time,      \* engine: currentTime_, counted from config.startTime
  chargers,  \* engine: chargers_, empty until the first snapshot
  running,   \* window: running_, the state of tickTimer_ too
  badge,     \* window: the badge reads "connected"
  link,      \* client: socket_.state(); "closePending": a connection attempt
             \*   that disconnectFromHost() found under way
  timer,     \* client: the interval of reconnectTimer_, 0 when inactive
  attempt,   \* client: reconnectAttempt_ (2 stands for more: same delay)
  stopping,  \* client: stopping_
  statusId,  \* client: the time in pendingStatusRequestId_, or None
  queue,     \* client: pendingSamples_
  partial,   \* client: decoder_ holds the beginning of a frame
  toServer,  \* requests written on this connection, not yet taken by the peer
  toClient,  \* frames the peer sent on this connection, not yet read
  log,       \* history: the telemetry requests written, in order
  failures   \* history: failed attempts since the last connection (up to 2)

engine == <<time, chargers>>
window == <<running, badge>>
retry  == <<timer, attempt>>
wire   == <<toServer, toClient>>
vars   == <<engine, window, link, retry, stopping, statusId, queue, partial,
            wire, log, failures>>

-----------------------------------------------------------------------------
(* Messages.  A request id is made of the kind, the charger and the time. *)

Sample(c, t) == [kind |-> "telemetry", charger |-> c, at |-> t, value |-> chargers[c]]
Intent(c, v) == [kind |-> "fault", charger |-> c, at |-> time, value |-> v]
StatusReport == [kind |-> "status", charger |-> 0, at |-> time, value |-> "running"]

Telemetry == [kind : {"telemetry"}, charger : Charger, at : Nat, value : Status]
Request == Telemetry
  \cup [kind : {"fault"}, charger : Charger, at : Nat, value : {"fault", "recover"}]
  \cup [kind : {"status"}, charger : {0}, at : Nat, value : {"running"}]

\* A frame of the peer: the answer to a status request, or something that
\* handleResponse only logs ("other"), or that the decoder refuses ("bad").
Frame == [kind : {"status"}, at : Nat, ok : BOOLEAN, chargers : Snapshot]
  \cup [kind : {"other", "bad"}]

TypeOK ==
  /\ time \in Nat
  /\ chargers \in {<<>>} \cup [Charger -> Status]
  /\ running \in BOOLEAN /\ badge \in BOOLEAN /\ stopping \in BOOLEAN /\ partial \in BOOLEAN
  /\ link \in {"off", "connecting", "closePending", "connected", "closing"}
  /\ timer \in {0, 1, 2, 4} /\ attempt \in 0..2 /\ failures \in 0..2
  /\ statusId \in Nat \cup {None}
  /\ queue \in Seq(Telemetry) /\ Len(queue) <= MaxQueue /\ log \in Seq(Telemetry)
  /\ toServer \in Seq(Request) /\ toClient \in Seq(Frame)

\* main: the window is shown and client->start() is called.
Init ==
  /\ time = 0 /\ chargers = <<>> /\ running = FALSE /\ badge = FALSE
  /\ link = "connecting" /\ timer = 0 /\ attempt = 0 /\ stopping = FALSE
  /\ statusId = None /\ queue = <<>> /\ partial = FALSE
  /\ toServer = <<>> /\ toClient = <<>> /\ log = <<>> /\ failures = 0

-----------------------------------------------------------------------------
(* Pieces that several handlers share. *)

Online == link = "connected"                      \* isConnected()

reconnectDelay(n) == IF n <= 0 THEN 1 ELSE IF n = 1 THEN 2 ELSE 4

AtMost2(n) == IF n > 2 THEN 2 ELSE n

\* Fault: the timer is armed for the first loss only.
ArmOnce(stopped) ==
  IF ~stopped /\ timer = 0 /\ attempt = 0
  THEN timer' = reconnectDelay(attempt) /\ attempt' = AtMost2(attempt + 1)
  ELSE UNCHANGED retry

\* if (!stopping_ && !reconnectTimer_.isActive()) reconnectTimer_.start(...)
Arm(stopped) ==
  IF ~stopped /\ timer = 0
  THEN timer' = reconnectDelay(attempt) /\ attempt' = AtMost2(attempt + 1)
  ELSE UNCHANGED retry

\* The socket left ConnectedState or ClosingState: what onDisconnected does
\* but for the timer, and the connection's bytes are gone.
HangUp ==
  /\ badge' = FALSE /\ partial' = FALSE
  /\ toServer' = <<>> /\ toClient' = <<>>

onDisconnected(stopped) == HangUp /\ Arm(stopped)

\* Fault: a full queue refuses the newest sample.
EnqueueOldest(q, batch) ==
  LET all == q \o batch
  IN  SubSeq(all, 1, IF Len(all) > MaxQueue THEN MaxQueue ELSE Len(all))

\* Fault: `>' for `>=' in the test of the bound.
EnqueueOneMore(q, batch) ==
  LET all == q \o batch
  IN  SubSeq(all, IF Len(all) > MaxQueue + 1 THEN Len(all) - MaxQueue ELSE 1, Len(all))

\* Enqueue a batch, dropping from the front what exceeds maxQueueSamples.
Enqueue(q, batch) ==
  LET all == q \o batch
  IN  SubSeq(all, IF Len(all) > MaxQueue THEN Len(all) - MaxQueue + 1 ELSE 1, Len(all))

Write(m) == toServer' = Append(toServer, m)

-----------------------------------------------------------------------------
(* The window. *)

\* Fault: samples produced online are queued as well.
DoTickQueuesToo ==
  /\ running /\ time + Tick <= MaxTime
  /\ time' = time + Tick
  /\ LET batch == [c \in DOMAIN chargers |-> Sample(c, time + Tick)]
     IN  /\ queue' = Enqueue(queue, batch)
         /\ IF Online
            THEN toServer' = toServer \o batch /\ log' = log \o batch
            ELSE UNCHANGED <<toServer, log>>
  /\ UNCHANGED <<chargers, window, link, retry, stopping, statusId, partial, toClient, failures>>

\* doTick: one sample for every charger, in the order of their ids.
doTick ==
  /\ running /\ time + Tick <= MaxTime
  /\ time' = time + Tick
  /\ LET batch == [c \in DOMAIN chargers |-> Sample(c, time + Tick)]
     IN  IF Online
         THEN /\ toServer' = toServer \o batch
              /\ log' = log \o batch
              /\ UNCHANGED queue
         ELSE /\ queue' = Enqueue(queue, batch)
              /\ UNCHANGED <<toServer, log>>
  /\ UNCHANGED <<chargers, window, link, retry, stopping, statusId, partial, toClient, failures>>

toggleRun ==
  /\ running' = ~running
  /\ UNCHANGED <<engine, badge, link, retry, stopping, statusId, queue, partial, wire, log, failures>>

prepareReset ==
  /\ running' = FALSE
  /\ UNCHANGED <<engine, badge, link, retry, stopping, statusId, queue, partial, wire, log, failures>>

\* Offline, the intent is dropped and the local status stays "fault".
injectFault(c) ==
  /\ Len(toServer) < MaxWire
  /\ c \in DOMAIN chargers
  /\ chargers[c] \in {"idle", "reserved", "charging"}
  /\ chargers' = [chargers EXCEPT ![c] = "fault"]
  /\ IF Online THEN Write(Intent(c, "fault")) ELSE UNCHANGED toServer
  /\ UNCHANGED <<time, window, link, retry, stopping, statusId, queue, partial, toClient, log, failures>>

injectRecovery(c) ==
  /\ Len(toServer) < MaxWire
  /\ c \in DOMAIN chargers
  /\ chargers[c] = "fault"
  /\ IF Online THEN Write(Intent(c, "recover")) ELSE UNCHANGED toServer
  /\ UNCHANGED <<engine, window, link, retry, stopping, statusId, queue, partial, toClient, log, failures>>

refresh ==
  /\ Len(toServer) < MaxWire
  /\ Online
  /\ statusId' = time
  /\ Write(StatusReport)
  /\ UNCHANGED <<engine, window, link, retry, stopping, queue, partial, toClient, log, failures>>

-----------------------------------------------------------------------------
(* Connecting and disconnecting. *)

\* connectToServer(): abort() of an open socket emits disconnected, that of an
\* attempt under way does not; then a new attempt starts.
connectToServer(stopped) ==
  /\ link' = "connecting"
  /\ IF link \in {"connected", "closing"}
     THEN onDisconnected(stopped)
     ELSE UNCHANGED <<badge, partial, wire, retry>>

\* main calls start() once, which is in Init; again only after stop().
start ==
  /\ stopping
  /\ stopping' = FALSE
  /\ connectToServer(FALSE)
  /\ UNCHANGED <<engine, running, statusId, queue, log, failures>>

\* disconnectFromHost() lets an attempt finish, and an open connection flush.
stop ==
  /\ stopping' = TRUE
  /\ timer' = 0
  /\ link' = CASE link = "connecting" -> "closePending"
               [] link = "connected"  -> "closing"
               [] OTHER               -> link
  /\ UNCHANGED <<engine, window, attempt, statusId, queue, partial, wire, log, failures>>

\* Fault: the reconnect timer keeps running.
ConnectedKeepsTimer ==
  /\ link \in {"connecting", "closePending"}
  /\ link' = IF link = "connecting" THEN "connected" ELSE "closing"
  /\ attempt' = 0 /\ badge' = TRUE /\ failures' = 0
  /\ statusId' = time
  /\ toServer' = <<StatusReport>> \o queue
  /\ log' = log \o queue /\ queue' = <<>>
  /\ UNCHANGED <<engine, running, timer, stopping, partial, toClient>>

\* onConnected: sendStatus, then flushPending.
Connected ==
  /\ link \in {"connecting", "closePending"}
  /\ link' = IF link = "connecting" THEN "connected" ELSE "closing"
  /\ timer' = 0 /\ attempt' = 0 /\ badge' = TRUE /\ failures' = 0
  /\ statusId' = time
  /\ toServer' = <<StatusReport>> \o queue
  /\ log' = log \o queue /\ queue' = <<>>
  /\ UNCHANGED <<engine, running, stopping, partial, toClient>>

\* errorOccurred in UnconnectedState: the attempt failed.
ConnectFailed ==
  /\ link \in {"connecting", "closePending"}
  /\ link' = "off"
  /\ failures' = AtMost2(failures + 1)
  /\ Arm(stopping)
  /\ UNCHANGED <<engine, window, stopping, statusId, queue, partial, wire, log>>

\* The connection is lost or finishes closing.  errorOccurred, when emitted,
\* finds the socket still connected and does nothing.
Disconnected ==
  /\ link \in {"connected", "closing"}
  /\ link' = "off"
  /\ onDisconnected(stopping)
  /\ UNCHANGED <<engine, running, stopping, statusId, queue, log, failures>>

\* onReconnectTimeout.  The timer is not single-shot: it goes on running, and
\* the next timeout aborts an attempt that is still under way, silently.
ReconnectTimeout ==
  /\ timer # 0 /\ ~stopping
  /\ connectToServer(stopping)
  /\ UNCHANGED <<engine, running, stopping, statusId, queue, log, failures>>

-----------------------------------------------------------------------------
(* onReadyRead and handleResponse. *)

Readable == link \in {"connected", "closing"} /\ toClient # <<>>

\* A read that ends inside the next frame.
ReadPart ==
  /\ Readable /\ ~partial
  /\ partial' = TRUE
  /\ UNCHANGED <<engine, window, link, retry, stopping, statusId, queue, wire, log, failures>>

\* Fault: any status answer is taken.
AcceptsAny(f) == f.kind = "status" /\ f.ok

\* response.requestId == pendingStatusRequestId_ && response.ok && ...
Accepts(f) == f.kind = "status" /\ f.at = statusId /\ f.ok

ReadResponse ==
  /\ Readable
  /\ LET f == Head(toClient)
     IN  /\ f.kind # "bad"
         /\ IF Accepts(f)
            THEN chargers' = f.chargers /\ statusId' = None
            ELSE UNCHANGED <<chargers, statusId>>
  /\ partial' = FALSE
  /\ toClient' = Tail(toClient)
  /\ UNCHANGED <<time, window, link, retry, stopping, queue, toServer, log, failures>>

\* append() throws on a malformed header: the frames before it in the same
\* read are lost too, and abort() emits disconnected.
ReadMalformed ==
  /\ Readable
  /\ \E i \in DOMAIN toClient : toClient[i].kind = "bad"
  /\ link' = "off"
  /\ onDisconnected(stopping)
  /\ UNCHANGED <<engine, running, stopping, statusId, queue, log, failures>>

-----------------------------------------------------------------------------
(* The peer. *)

Take ==
  /\ toServer # <<>>
  /\ toServer' = Tail(toServer)
  /\ toClient' \in {toClient}
       \cup (IF Len(toClient) >= MaxReply THEN {}
             ELSE {Append(toClient, f) : f \in
                    [kind : {"other", "bad"}]
                    \cup [kind : {"status"}, at : {Head(toServer).at}, ok : BOOLEAN, chargers : Snapshot]})
  /\ UNCHANGED <<engine, window, link, retry, stopping, statusId, queue, partial, log, failures>>

User == toggleRun \/ prepareReset \/ refresh \/ start \/ stop
        \/ \E c \in Charger : injectFault(c) \/ injectRecovery(c)
Timer == doTick \/ ReconnectTimeout
Network == Connected \/ ConnectFailed \/ Disconnected \/ ReadPart \/ ReadResponse \/ ReadMalformed

Next == User \/ Timer \/ Network \/ Take

Spec == Init /\ [][Next]_vars

\* The reconnect timer fires, and attempts that are made again and again
\* succeed in the end.
FairSpec == Spec /\ WF_vars(ReconnectTimeout) /\ SF_vars(Connected)

-----------------------------------------------------------------------------
(* Properties. *)

Ordered(s) == \A i, j \in DOMAIN s :
  i < j /\ s[i].charger = s[j].charger => s[i].at < s[j].at

\* The samples of a charger are written in the order of their simulated times
\* and none is written twice, over any number of losses: those still queued
\* are later than all that flushPending and sendTelemetry wrote.
SamplesInOrder == Ordered(log \o queue)

\* The queue holds the samples produced last, without a gap: dropping the
\* oldest (sendTelemetry) never loses a newer sample instead.
QueueIsLatest ==
  queue # <<>> =>
    /\ queue[Len(queue)].at = time /\ queue[Len(queue)].charger = N
    /\ \A i \in 1..(Len(queue) - 1) :
         \/ queue[i + 1].at = queue[i].at /\ queue[i + 1].charger = queue[i].charger + 1
         \/ queue[i + 1].at = queue[i].at + Tick /\ queue[i].charger = N /\ queue[i + 1].charger = 1

\* Unless it was stopped, the client without a connection or an attempt has
\* its reconnect timer running.
NeverStranded == link = "off" => timer # 0 \/ stopping

\* The reconnect timer, which repeats and aborts whatever connection it finds,
\* never runs while a connection is open.
TimerSparesConnection == timer # 0 => link \in {"off", "connecting"}

\* decoder_ never completes a frame with bytes of an earlier connection, also
\* when append() threw and left its buffer as it was.
NoBytesAcrossConnections == partial => link \in {"connected", "closing"}

\* A status answer is not taken for the authoritative snapshot while the
\* answer to a status report with a later simulated time is on its way.
SnapshotNotSuperseded ==
  [][statusId' = None /\ statusId # None =>
       \A i \in DOMAIN toServer :
         toServer[i].kind = "status" => toServer[i].at <= Head(toClient).at]_vars

\* Until it is stopped, the client gets connected again and again.
Reconnects == <>[]~stopping => []<>Online

\* The delays of the plan, 1, 2 and 4 seconds: after two failed attempts in a
\* row the client waits longer than at first.
BacksOff == link = "off" /\ failures = 2 /\ ~stopping => timer # 1

=============================================================================
