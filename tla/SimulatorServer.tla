--------------------------- MODULE SimulatorServer ---------------------------
(***************************************************************************)
(* The simulator against the server that docs/design/interface-contract.md *)
(* describes: stored responses by request id, a cursor per charger shared  *)
(* by telemetry.push and simulator.fault_set, and the statuses that users  *)
(* and administrators change meanwhile.  The server is not in the          *)
(* repository and is external here; what is checked is whether the ids and *)
(* the times the simulator chooses fit that contract.                      *)
(***************************************************************************)
EXTENDS Simulator

CONSTANTS
  Second    \* simulated time units in a second; recordedAt is in seconds

\* The snapshots bound the statuses the server gets to; faults stay within.
ASSUME ServerAssumption ==
  /\ Second \in Nat \ {0}
  /\ \A s \in Snapshot, c \in Charger : [s EXCEPT ![c] = "fault"] \in Snapshot

VARIABLES
  authority,  \* the status of every charger
  cursor,     \* the latest recordedAt accepted for every charger
  accepted,   \* request ids of the events accepted
  snapshots   \* stored simulator.status responses, by the time in their id

server == <<authority, cursor, accepted, snapshots>>
allVars == <<vars, server>>

\* isoPlus08: QDateTime::toString(Qt::ISODate) has no milliseconds.
recordedAt(m) == m.at \div Second

requestId(m) == <<m.kind, m.charger, m.at>>

ServerTypeOK ==
  /\ authority \in [Charger -> Status]
  /\ cursor \in [Charger -> Int]
  /\ \A id \in accepted : id \in {"telemetry", "fault"} \X Charger \X Nat
  /\ \A t \in DOMAIN snapshots : snapshots[t] \in Snapshot

ServerInit ==
  /\ Init
  /\ authority \in Snapshot
  /\ cursor = [c \in Charger |-> None]
  /\ accepted = {} /\ snapshots = <<>>

-----------------------------------------------------------------------------
(* The server. *)

Reply(f) == Len(toClient) < MaxReply /\ toClient' = Append(toClient, f)

Rest == <<engine, window, link, retry, stopping, statusId, queue, partial, log, failures>>

\* Fault: the answer carries the id of the next report.
ServeStatusWrongId(m) ==
  /\ LET taken == [t \in DOMAIN snapshots \cup {m.at} |->
                     IF t \in DOMAIN snapshots THEN snapshots[t] ELSE authority]
     IN  /\ snapshots' = taken
         /\ Reply([kind |-> "status", at |-> m.at + 1, ok |-> TRUE, chargers |-> taken[m.at]])
  /\ UNCHANGED <<authority, cursor, accepted>>

\* simulator.status: a stored response is replayed, a new one is the snapshot.
ServeStatus(m) ==
  /\ LET taken == [t \in DOMAIN snapshots \cup {m.at} |->
                     IF t \in DOMAIN snapshots THEN snapshots[t] ELSE authority]
     IN  /\ snapshots' = taken
         /\ Reply([kind |-> "status", at |-> m.at, ok |-> TRUE, chargers |-> taken[m.at]])
  /\ UNCHANGED <<authority, cursor, accepted>>

Consistent(m) == LET s == authority[m.charger] IN
  CASE m.kind = "telemetry"  -> m.value = s
    [] m.value = "fault"     -> s \in {"idle", "reserved", "charging"}
    [] OTHER                 -> s = "fault"

\* Fault: a recovery takes effect at once.
ServeEventTakesValue(m) ==
  /\ IF /\ requestId(m) \notin accepted
        /\ recordedAt(m) > cursor[m.charger]
        /\ Consistent(m)
     THEN /\ accepted' = accepted \cup {requestId(m)}
          /\ cursor' = [cursor EXCEPT ![m.charger] = recordedAt(m)]
          /\ authority' = [authority EXCEPT ![m.charger] = m.value]
     ELSE UNCHANGED <<accepted, cursor, authority>>
  /\ UNCHANGED <<toClient, snapshots>>

\* telemetry.push and simulator.fault_set.  The client only logs the answers,
\* which are left out.
ServeEvent(m) ==
  /\ IF /\ requestId(m) \notin accepted
        /\ recordedAt(m) > cursor[m.charger]
        /\ Consistent(m)
     THEN /\ accepted' = accepted \cup {requestId(m)}
          /\ cursor' = [cursor EXCEPT ![m.charger] = recordedAt(m)]
          /\ authority' = IF m.value = "fault" /\ m.kind = "fault"
                          THEN [authority EXCEPT ![m.charger] = "fault"] ELSE authority
     ELSE UNCHANGED <<accepted, cursor, authority>>
  /\ UNCHANGED <<toClient, snapshots>>

Serve ==
  /\ toServer # <<>>
  /\ LET m == Head(toServer) IN IF m.kind = "status" THEN ServeStatus(m) ELSE ServeEvent(m)
  /\ toServer' = Tail(toServer)
  /\ UNCHANGED Rest

\* A user reserves, starts or settles; an administrator restarts a charger.
Operate(c) ==
  /\ \E s \in {<<"idle", "reserved">>, <<"reserved", "charging">>, <<"reserved", "idle">>,
               <<"charging", "idle">>, <<"fault", "restarting">>, <<"restarting", "idle">>} :
       /\ authority[c] = s[1]
       /\ [authority EXCEPT ![c] = s[2]] \in Snapshot     \* bound
       /\ authority' = [authority EXCEPT ![c] = s[2]]
  /\ UNCHANGED <<vars, cursor, accepted, snapshots>>

ServerNext ==
  \/ (User \/ Timer \/ Network) /\ UNCHANGED server
  \/ Serve
  \/ \E c \in Charger : Operate(c)

ServerSpec == ServerInit /\ [][ServerNext]_allVars

-----------------------------------------------------------------------------
(* Properties. *)

\* This server is one of the peers that Simulator allows, so what is shown of
\* the simulator there holds here.
KeepsSimulator == Spec

Incoming(kind) == toServer # <<>> /\ Head(toServer).kind = kind

\* Every sample reaches the server as a new event, later than all events of its
\* charger, whatever was queued, dropped or lost before and whatever faults
\* were injected: the cursor never refuses telemetry.
SamplesAreNew ==
  Incoming("telemetry") =>
    LET m == Head(toServer)
    IN  requestId(m) \notin accepted /\ recordedAt(m) > cursor[m.charger]

\* The same of fault and recovery events.
FaultsAreNew ==
  Incoming("fault") =>
    LET m == Head(toServer)
    IN  requestId(m) \notin accepted /\ recordedAt(m) > cursor[m.charger]

\* A status report is answered with the statuses of that moment, which the
\* engine takes for authoritative, and not with those of an earlier report.
RefreshIsAuthoritative ==
  Incoming("status") =>
    LET t == Head(toServer).at
    IN  t \in DOMAIN snapshots => snapshots[t] = authority

=============================================================================
