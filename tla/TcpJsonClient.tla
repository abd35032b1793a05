---------------------------- MODULE TcpJsonClient ----------------------------
(***************************************************************************)
(* The user client's transport, apps/user-client/src/net/TcpJsonClient.cpp: *)
(* one QTcpSocket, the table of pending requests with their 10 s timers,   *)
(* the single replay of a safe read after an unexpected loss, and the      *)
(* single-shot reconnect timer.                                            *)
(*                                                                         *)
(* The client runs on one thread, but its signals are delivered by direct  *)
(* calls: a slot may call send() or cancelRequest() while the handler that *)
(* emitted is half way through a loop over the pending table.  So a        *)
(* handler is a frame of the call `stack', a loop iteration is a step, and *)
(* an emission pushes a "slot" frame on top of which the application may   *)
(* call back.  Events come from the Qt event loop and start only when the  *)
(* stack is empty.                                                         *)
(*                                                                         *)
(* The socket (its states, the synchronous `disconnected' of abort(), the  *)
(* deferred close of a connection attempt), the peer and the wire are      *)
(* external and modelled from how this file uses them.                     *)
(***************************************************************************)
EXTENDS Naturals, Sequences

CONSTANTS
  Request,              \* request ids; QUuid makes each send() use a new one
  SafeRead,             \* those whose action isSafeReadAction accepts
  Oversize,             \* those whose frame encodeFrame refuses
  MaxReconnectAttempt,  \* kMaxReconnectAttempt
  RetryAfterLoss,       \* may connectToServer be called while lossHandled_ is set
  MaxInbox              \* bound: response frames on the wire at once

ASSUME RequestAssumption ==
  /\ SafeRead \subseteq Request
  /\ Oversize \subseteq Request
  /\ {"badFrame", "badEnvelope"} \cap Request = {}
ASSUME BoundAssumption ==
  /\ MaxReconnectAttempt \in Nat
  /\ RetryAfterLoss \in BOOLEAN
  /\ MaxInbox \in Nat

VARIABLES
  socket,        \* socket_->state()
  closePending,  \* disconnectFromHost() was called on a connection attempt
  armed,         \* reconnectTimer_->isActive()
  attempt,       \* reconnectAttempt_
  manual,        \* manualDisconnect_
  reported,      \* connectionReported_
  lossHandled,   \* lossHandled_
  partial,       \* decoder_ holds the beginning of a frame
  pending,       \* the keys of pendingRequests_
  written,       \* those with written set
  replayed,      \* those with replayed set
  awaiting,      \* those with awaitingReplay set
  timing,        \* those whose timeoutTimer is active
  deferred,      \* failures posted with QTimer::singleShot(0)
  stack,         \* the handlers being executed, innermost first
  owed,          \* requests the peer received on this connection and may answer
  inbox,         \* frames the peer sent on this connection, not yet read
  issued,        \* history: ids send() returned
  cancelled,     \* history: ids cancelRequest() erased
  outcomes,      \* history: signals emitted for each id
  writes         \* history: times the whole frame of each id was written

link  == <<socket, closePending, armed, attempt, manual, reported, lossHandled, partial>>
table == <<pending, written, replayed, awaiting, timing>>
wire  == <<owed, inbox>>
past  == <<issued, cancelled, outcomes, writes>>
vars  == <<link, table, deferred, stack, wire, past>>

-----------------------------------------------------------------------------
(* Frames of the call stack. *)

Item == Request \cup {"badFrame", "badEnvelope"}
Op == {"slot", "loss", "failAll", "replay", "frames", "failWrite", "abort", "close"}
Frame == [op : Op, ids : SUBSET Request, items : Seq(Item)]

Call(op, ids) == [op |-> op, ids |-> ids, items |-> <<>>]
Slot == Call("slot", {})

Idle == stack = <<>>
Running(op) == stack # <<>> /\ Head(stack).op = op
Caller == Tail(stack)
Todo == Head(stack).ids \cap pending       \* a missing key is skipped by every loop
Again(f, id) == <<[f EXCEPT !.ids = @ \ {id}]>> \o Caller

\* Where the application may call send() and cancelRequest().
CanCall == Idle \/ Running("slot")

TypeOK ==
  /\ socket \in {"unconnected", "connecting", "connected", "closing"}
  /\ closePending \in BOOLEAN /\ armed \in BOOLEAN /\ manual \in BOOLEAN
  /\ reported \in BOOLEAN /\ lossHandled \in BOOLEAN /\ partial \in BOOLEAN
  /\ attempt \in 0..MaxReconnectAttempt
  /\ pending \subseteq Request /\ written \subseteq pending /\ replayed \subseteq pending
  /\ awaiting \subseteq pending /\ timing \subseteq pending
  /\ deferred \subseteq Request /\ owed \subseteq Request
  /\ stack \in Seq(Frame)
  /\ inbox \in Seq(Item)
  /\ issued \subseteq Request /\ cancelled \subseteq Request
  /\ outcomes \in [Request -> Nat] /\ writes \in [Request -> Nat]

Init ==
  /\ socket = "unconnected" /\ closePending = FALSE
  /\ armed = FALSE /\ attempt = 0 /\ manual = FALSE
  /\ reported = FALSE /\ lossHandled = FALSE /\ partial = FALSE
  /\ pending = {} /\ written = {} /\ replayed = {} /\ awaiting = {} /\ timing = {}
  /\ deferred = {} /\ stack = <<>> /\ owed = {} /\ inbox = <<>>
  /\ issued = {} /\ cancelled = {}
  /\ outcomes = [id \in Request |-> 0] /\ writes = [id \in Request |-> 0]

-----------------------------------------------------------------------------
(* Pieces that several handlers share. *)

\* Fault: the timer of an erased request is left running.
EraseKeepsTimer(id) ==
  /\ pending'  = pending \ {id}
  /\ written'  = written \ {id}
  /\ replayed' = replayed \ {id}
  /\ awaiting' = awaiting \ {id}
  /\ UNCHANGED timing

\* pendingRequests_.erase(it); timer->stop(); timer->deleteLater()
Erase(id) ==
  /\ pending'  = pending \ {id}
  /\ written'  = written \ {id}
  /\ replayed' = replayed \ {id}
  /\ awaiting' = awaiting \ {id}
  /\ timing'   = timing \ {id}

Signal(id) == outcomes' = [outcomes EXCEPT ![id] = @ + 1]

\* failRequest, and the same steps for a response: erase, emit the signal, and
\* go on with `rest' when its slots return.
Resolve(id, rest) ==
  /\ Erase(id)
  /\ Signal(id)
  /\ stack' = <<Slot>> \o rest

\* Fault: the decoder keeps its bytes over a loss.
LossKeepsBytes(keys, rest) ==
  \/ /\ lossHandled
     /\ stack' = rest
     /\ UNCHANGED <<lossHandled, partial, reported>>
  \/ /\ ~lossHandled
     /\ lossHandled' = TRUE
     /\ reported' = FALSE
     /\ stack' = (IF reported THEN <<Slot>> ELSE <<>>) \o <<Call("loss", keys)>> \o rest
     /\ UNCHANGED partial

\* The part of handleTransportLoss before its loop; the loop is the "loss"
\* frame over `keys', the pending table at that point.
handleTransportLoss(keys, rest) ==
  \/ /\ lossHandled
     /\ stack' = rest
     /\ UNCHANGED <<lossHandled, partial, reported>>
  \/ /\ ~lossHandled
     /\ lossHandled' = TRUE
     /\ partial' = FALSE
     /\ reported' = FALSE
     /\ stack' = (IF reported THEN <<Slot>> ELSE <<>>) \o <<Call("loss", keys)>> \o rest

\* The socket leaves an established connection and emits disconnected at once:
\* abort(), or the end of a close.
Drop(keys, rest) ==
  /\ socket' = "unconnected"
  /\ closePending' = FALSE
  /\ owed' = {} /\ inbox' = <<>>
  /\ handleTransportLoss(keys, rest)

\* disconnectFromHost() on an established connection: it closes at once, or
\* waits for the bytes still to be written.
CloseGently(rest) ==
  \/ Drop(pending, rest)
  \/ /\ socket' = "closing"
     /\ closePending' = FALSE
     /\ stack' = rest
     /\ UNCHANGED <<lossHandled, partial, reported, wire>>

\* Fault: no deadline is started.
WriteWithoutDeadline(id) ==
  /\ written'  = written \cup {id}
  /\ awaiting' = awaiting \ {id}
  /\ owed'     = owed \cup {id}
  /\ writes'   = [writes EXCEPT ![id] = @ + 1]
  /\ UNCHANGED timing

\* writeRequest accepted by the socket: the peer will see the frame.
WriteFrame(id) ==
  /\ written'  = written \cup {id}
  /\ awaiting' = awaiting \ {id}
  /\ timing'   = timing \cup {id}
  /\ owed'     = owed \cup {id}
  /\ writes'   = [writes EXCEPT ![id] = @ + 1]

\* protocolFailure: fail everything, then abort the connection.
protocolFailure(rest) ==
  /\ partial' = FALSE
  /\ stack' = <<Call("failAll", pending), Call("abort", {})>> \o rest

-----------------------------------------------------------------------------
(* Calls of the application. *)

\* send(), refused: the failure is posted to the event loop.
SendRefused(id) ==
  /\ CanCall
  /\ id \in Request \ issued
  /\ id \in Oversize \/ socket # "connected"
  /\ issued' = issued \cup {id}
  /\ deferred' = deferred \cup {id}
  /\ UNCHANGED <<link, table, stack, wire, cancelled, outcomes, writes>>

\* send(), written in full.
SendWritten(id) ==
  /\ CanCall
  /\ id \in Request \ (issued \cup Oversize)
  /\ socket = "connected"
  /\ issued' = issued \cup {id}
  /\ pending' = pending \cup {id}
  /\ WriteFrame(id)
  /\ UNCHANGED <<link, replayed, deferred, stack, inbox, cancelled, outcomes>>

\* send(), short write: the connection is poisoned, so it is aborted, and only
\* after that loss is handled is the request itself failed.
SendShort(id) ==
  /\ CanCall
  /\ id \in Request \ (issued \cup Oversize)
  /\ socket = "connected"
  /\ issued' = issued \cup {id}
  /\ pending' = pending \cup {id}
  /\ Drop(pending \cup {id}, <<Call("failWrite", {id})>> \o stack)
  /\ UNCHANGED <<armed, attempt, manual, written, replayed, awaiting, timing,
                 deferred, cancelled, outcomes, writes>>

cancelRequest(id) ==
  /\ CanCall
  /\ id \in pending
  /\ Erase(id)
  /\ cancelled' = cancelled \cup {id}
  /\ UNCHANGED <<link, deferred, stack, wire, issued, outcomes, writes>>

\* Called at start-up and by the retry buttons, never from a slot.
connectToServer ==
  /\ Idle
  /\ RetryAfterLoss \/ ~lossHandled
  /\ manual' = FALSE
  /\ armed' = FALSE
  /\ socket' = IF socket = "unconnected" THEN "connecting" ELSE socket
  /\ UNCHANGED <<closePending, attempt, reported, lossHandled, partial,
                 table, deferred, stack, wire, past>>

\* Fault: the reconnect timer survives a disconnect.
DisconnectKeepsTimer ==
  /\ Idle
  /\ manual' = TRUE
  /\ socket = "unconnected"
  /\ partial' = FALSE
  /\ stack' = <<Call("failAll", pending)>>
  /\ UNCHANGED <<socket, closePending, lossHandled, reported, wire,
                 armed, attempt, table, deferred, past>>

disconnectFromServer ==
  /\ Idle
  /\ manual' = TRUE
  /\ armed' = FALSE
  /\ \/ /\ socket = "unconnected"
        /\ partial' = FALSE
        /\ stack' = <<Call("failAll", pending)>>
        /\ UNCHANGED <<socket, closePending, lossHandled, reported, wire>>
     \/ /\ socket = "connecting"
        /\ partial' = FALSE
        /\ closePending' = TRUE
        /\ UNCHANGED <<socket, lossHandled, reported, stack, wire>>
     \/ /\ socket \in {"connected", "closing"}
        /\ Drop(pending, <<>>)
     \/ /\ socket \in {"connected", "closing"}
        /\ socket' = "closing"
        /\ partial' = FALSE
        /\ UNCHANGED <<closePending, lossHandled, reported, stack, wire>>
  /\ UNCHANGED <<attempt, table, deferred, past>>

-----------------------------------------------------------------------------
(* Events of the Qt event loop. *)

\* Fault: lossHandled_ is not cleared by a new connection.
ConnectedKeepsLoss ==
  /\ Idle
  /\ socket = "connecting"
  /\ socket' = "connected"
  /\ attempt' = 0
  /\ reported' = TRUE
  /\ stack' = <<Slot, Call("replay", awaiting)>>
  /\ UNCHANGED <<closePending, armed, manual, lossHandled, partial,
                 table, deferred, wire, past>>

\* QTcpSocket::connected.  The slots of connectionChanged(true) run before the
\* replay loop takes its keys; a deferred close follows the handler.
Connected ==
  /\ Idle
  /\ socket = "connecting"
  /\ socket' = "connected"
  /\ lossHandled' = FALSE
  /\ attempt' = 0
  /\ reported' = TRUE
  /\ stack' = (IF reported THEN <<>> ELSE <<Slot>>)
                \o <<Call("replay", awaiting)>>
                \o (IF closePending THEN <<Call("close", {})>> ELSE <<>>)
  /\ UNCHANGED <<closePending, armed, manual, partial, table, deferred, wire, past>>

\* errorOccurred with the socket back in UnconnectedState.
ConnectFailed ==
  /\ Idle
  /\ socket = "connecting"
  /\ Drop(pending, <<>>)
  /\ UNCHANGED <<armed, attempt, manual, table, deferred, past>>

\* disconnected: the peer or the network closed the connection, or the close
\* the client asked for completed.  What was not read is lost.
Disconnected ==
  /\ Idle
  /\ socket \in {"connected", "closing"}
  /\ Drop(pending, <<>>)
  /\ UNCHANGED <<armed, attempt, manual, table, deferred, past>>

\* readyRead: n whole frames have arrived, and possibly the beginning of one
\* more.  A frame header the decoder refuses throws before any frame of this
\* read is looked at.
ReadyRead(n, tail) ==
  /\ Idle
  /\ socket = "connected"
  /\ n \in 0..Len(inbox)
  /\ tail => n < Len(inbox)
  /\ n > 0 \/ (tail /\ ~partial)
  /\ inbox' = SubSeq(inbox, n + 1, Len(inbox))
  /\ LET batch == SubSeq(inbox, 1, n) IN
       \/ /\ \E i \in 1..n : batch[i] = "badFrame"
          /\ protocolFailure(<<>>)
       \/ /\ \A i \in 1..n : batch[i] # "badFrame"
          /\ partial' = tail
          /\ stack' = IF n = 0 THEN <<>>
                      ELSE <<[op |-> "frames", ids |-> {}, items |-> batch]>>
  /\ UNCHANGED <<socket, closePending, armed, attempt, manual, reported, lossHandled,
                 table, deferred, owed, past>>

\* A timeoutTimer fires: onRequestTimeout.
RequestTimeout(id) ==
  /\ Idle
  /\ id \in timing
  /\ Resolve(id, <<>>)
  /\ UNCHANGED <<link, deferred, wire, issued, cancelled, writes>>

\* A failure posted by send() is delivered.
DeferredFailure(id) ==
  /\ Idle
  /\ id \in deferred
  /\ deferred' = deferred \ {id}
  /\ Signal(id)
  /\ stack' = <<Slot>>
  /\ UNCHANGED <<link, table, wire, issued, cancelled, writes>>

\* Fault: the timer reconnects without clearing lossHandled_.
ReconnectKeepsLoss ==
  /\ Idle
  /\ armed
  /\ armed' = FALSE
  /\ socket' = IF ~manual /\ socket = "unconnected" THEN "connecting" ELSE socket
  /\ UNCHANGED <<closePending, attempt, manual, reported, lossHandled, partial,
                 table, deferred, stack, wire, past>>

\* reconnectTimer_ fires; it is single-shot.
ReconnectTimeout ==
  /\ Idle
  /\ armed
  /\ armed' = FALSE
  /\ lossHandled' = IF manual THEN lossHandled ELSE FALSE
  /\ socket' = IF ~manual /\ socket = "unconnected" THEN "connecting" ELSE socket
  /\ UNCHANGED <<closePending, attempt, manual, reported, partial,
                 table, deferred, stack, wire, past>>

-----------------------------------------------------------------------------
(* Steps of the handlers on the stack. *)

\* The slots connected to the signal return.
SlotReturn ==
  /\ Running("slot")
  /\ stack' = Caller
  /\ UNCHANGED <<link, table, deferred, wire, past>>

\* Faults: a read is kept every time; a mutation is kept too.
ReplayableAgain(id) == ~manual /\ id \in written /\ id \in SafeRead
ReplayableAny(id) == ~manual /\ id \in written /\ id \notin replayed

\* Which requests survive a loss to be written once more.
Replayable(id) == ~manual /\ id \in written /\ id \notin replayed /\ id \in SafeRead

LossKeep(id) ==
  /\ Running("loss")
  /\ id \in Todo
  /\ Replayable(id)
  /\ timing' = timing \ {id}
  /\ replayed' = replayed \cup {id}
  /\ written' = written \ {id}
  /\ awaiting' = awaiting \cup {id}
  /\ stack' = Again(Head(stack), id)
  /\ UNCHANGED <<link, pending, deferred, wire, past>>

LossFail(id) ==
  /\ Running("loss")
  /\ id \in Todo
  /\ ~Replayable(id)
  /\ Resolve(id, Again(Head(stack), id))
  /\ UNCHANGED <<link, deferred, wire, issued, cancelled, writes>>

\* scheduleReconnect; the delay armed is 1000 * 2^attempt ms.
LossDone ==
  /\ Running("loss")
  /\ Todo = {}
  /\ stack' = Caller
  /\ \/ /\ ~manual /\ ~armed
        /\ armed' = TRUE
        /\ attempt' = IF attempt < MaxReconnectAttempt THEN attempt + 1 ELSE attempt
     \/ /\ manual \/ armed
        /\ UNCHANGED <<armed, attempt>>
  /\ UNCHANGED <<socket, closePending, manual, reported, lossHandled, partial,
                 table, deferred, wire, past>>

FailAllNext(id) ==
  /\ Running("failAll")
  /\ id \in Todo
  /\ Resolve(id, Again(Head(stack), id))
  /\ UNCHANGED <<link, deferred, wire, issued, cancelled, writes>>

\* failAll and the replay loop end.
LoopDone ==
  /\ Running("failAll") \/ Running("replay")
  /\ Running("failAll") => Todo = {}
  /\ Running("replay") => Todo \cap awaiting = {} \/ socket # "connected"
  /\ stack' = Caller
  /\ UNCHANGED <<link, table, deferred, wire, past>>

ReplayWritten(id) ==
  /\ Running("replay")
  /\ id \in Todo \cap awaiting
  /\ socket = "connected"
  /\ WriteFrame(id)
  /\ stack' = Again(Head(stack), id)
  /\ UNCHANGED <<link, pending, replayed, deferred, inbox, issued, cancelled, outcomes>>

ReplayShort(id) ==
  /\ Running("replay")
  /\ id \in Todo \cap awaiting
  /\ socket = "connected"
  /\ Drop(pending, <<Call("failWrite", {id})>> \o Again(Head(stack), id))
  /\ UNCHANGED <<armed, attempt, manual, table, deferred, past>>

\* Fault: the request is failed whether or not the loss already failed it.
FailWriteAgain(id) ==
  /\ Running("failWrite")
  /\ Head(stack).ids = {id}
  /\ Resolve(id, Caller)
  /\ UNCHANGED <<link, deferred, wire, issued, cancelled, writes>>

\* failRequest at the end of a short write.
FailWrite(id) ==
  /\ Running("failWrite")
  /\ Head(stack).ids = {id}
  /\ \/ /\ id \in pending
        /\ Resolve(id, Caller)
     \/ /\ id \notin pending
        /\ stack' = Caller
        /\ UNCHANGED <<table, outcomes>>
  /\ UNCHANGED <<link, deferred, wire, issued, cancelled, writes>>

\* Fault: a response is delivered though its request is gone.
NextResponseAnyway(id) ==
  /\ Running("frames")
  /\ Head(stack).items # <<>>
  /\ Head(Head(stack).items) = id
  /\ Resolve(id, <<[Head(stack) EXCEPT !.items = Tail(@)]>> \o Caller)
  /\ UNCHANGED <<link, deferred, wire, issued, cancelled, writes>>

\* One iteration of the loop over the frames of a read: a response.
NextResponse(id) ==
  /\ Running("frames")
  /\ Head(stack).items # <<>>
  /\ Head(Head(stack).items) = id
  /\ LET loop == [Head(stack) EXCEPT !.items = Tail(@)] IN
       \/ /\ id \in pending
          /\ Resolve(id, <<loop>> \o Caller)
       \/ /\ id \notin pending
          /\ stack' = <<loop>> \o Caller
          /\ UNCHANGED <<table, outcomes>>
  /\ UNCHANGED <<link, deferred, wire, issued, cancelled, writes>>

\* ... a frame parseResponse refuses: the rest of the read is dropped.
NextMalformed ==
  /\ Running("frames")
  /\ Head(stack).items # <<>>
  /\ Head(Head(stack).items) = "badEnvelope"
  /\ protocolFailure(Caller)
  /\ UNCHANGED <<socket, closePending, armed, attempt, manual, reported, lossHandled,
                 table, deferred, wire, past>>

FramesDone ==
  /\ Running("frames")
  /\ Head(stack).items = <<>>
  /\ stack' = Caller
  /\ UNCHANGED <<link, table, deferred, wire, past>>

\* socket_->abort() at the end of protocolFailure.
Abort ==
  /\ Running("abort")
  /\ \/ /\ socket = "connected"
        /\ Drop(pending, Caller)
     \/ /\ socket = "unconnected"
        /\ stack' = Caller
        /\ UNCHANGED <<socket, closePending, reported, lossHandled, partial, wire>>
  /\ UNCHANGED <<armed, attempt, manual, table, deferred, past>>

\* The close asked for while connecting.
DeferredClose ==
  /\ Running("close")
  /\ \/ /\ socket = "connected"
        /\ CloseGently(Caller)
     \/ /\ socket = "unconnected"
        /\ stack' = Caller
        /\ UNCHANGED <<socket, closePending, reported, lossHandled, partial, wire>>
  /\ UNCHANGED <<armed, attempt, manual, table, deferred, past>>

-----------------------------------------------------------------------------
(* The peer.  What it sends while a handler runs is read after it. *)

Respond(id) ==
  /\ Idle
  /\ socket = "connected"
  /\ id \in owed
  /\ Len(inbox) < MaxInbox
  /\ inbox' = Append(inbox, id)
  /\ owed' = owed \ {id}
  /\ UNCHANGED <<link, table, deferred, stack, past>>

\* A frame with a refused header, or one that is not a v1 response.
Garble(item) ==
  /\ Idle
  /\ socket = "connected"
  /\ Len(inbox) < MaxInbox
  /\ item \in {"badFrame", "badEnvelope"}
  /\ inbox' = Append(inbox, item)
  /\ UNCHANGED <<link, table, deferred, stack, owed, past>>

-----------------------------------------------------------------------------
Application ==
  \/ \E id \in Request :
       SendRefused(id) \/ SendWritten(id) \/ SendShort(id) \/ cancelRequest(id)
  \/ connectToServer \/ disconnectFromServer

Handlers ==
  \/ SlotReturn \/ LossDone \/ LoopDone \/ NextMalformed \/ FramesDone \/ Abort \/ DeferredClose
  \/ \E id \in Request :
       \/ LossKeep(id) \/ LossFail(id) \/ FailAllNext(id) \/ ReplayWritten(id)
       \/ ReplayShort(id) \/ FailWrite(id) \/ NextResponse(id)

Timers ==
  \/ ReconnectTimeout
  \/ \E id \in Request : RequestTimeout(id) \/ DeferredFailure(id)

Network ==
  \/ Connected \/ ConnectFailed \/ Disconnected
  \/ \E n \in 0..MaxInbox, tail \in BOOLEAN : ReadyRead(n, tail)

Peer ==
  \/ \E id \in Request : Respond(id)
  \/ \E item \in {"badFrame", "badEnvelope"} : Garble(item)

Next == Application \/ Handlers \/ Timers \/ Network \/ Peer

Spec == Init /\ [][Next]_vars

\* A handler that started runs to its end; a timer that stays active fires even
\* though other events keep the thread busy in between (strong fairness: the
\* event loop serves every due timer); a connection attempt ends one way or
\* the other (Qt gives up after 30 s).  Nothing is assumed of the application,
\* of the peer or of the network.
Fairness ==
  /\ WF_vars(Handlers)
  /\ SF_vars(ReconnectTimeout)
  /\ SF_vars(Connected \/ ConnectFailed)
  /\ \A id \in Request : SF_vars(RequestTimeout(id)) /\ SF_vars(DeferredFailure(id))

FairSpec == Spec /\ Fairness

-----------------------------------------------------------------------------
(* Correctness. *)

\* No request is dropped on the floor and none is answered twice: an id send()
\* returned is held in the table or in a posted failure until it is cancelled
\* or exactly one signal carries it, whatever losses, replays, timeouts, late
\* answers and callbacks happen in between.
ExactlyOneOutcome ==
  /\ pending \cap deferred = {}
  /\ \A id \in Request :
       outcomes[id] = IF id \in issued \ (pending \cup deferred \cup cancelled) THEN 1 ELSE 0

\* Reservations, starts, stops, settlements and recharges are never put on the
\* wire twice; a safe read is repeated once at most.
WriteBound ==
  \A id \in Request : writes[id] <= IF id \in SafeRead THEN 2 ELSE 1

\* Only a safe read that was on the wire survives a loss: once the loss is
\* handled, and until a new connection is up, every other request has been
\* failed, so no later connection can carry it.
OnlyReadsSurviveLoss ==
  Idle /\ socket \in {"unconnected", "connecting"} => pending \subseteq awaiting \cap SafeRead

\* Between handlers, every request on a live connection has been written and
\* has a running deadline: the replay loop leaves none behind.
ConnectedHasDeadlines ==
  Idle /\ socket = "connected" => pending \subseteq timing \cap written

\* Between handlers, what the application was last told about the connection
\* is what the socket says.
LinkReported ==
  Idle => (reported <=> socket \in {"connected", "closing"})

\* The beginning of a frame read on one connection is never completed with
\* bytes of the next one.
NoBytesAcrossConnections ==
  partial => socket = "connected"

\* A connection the user did not close is being re-established: between
\* handlers a client that handled a loss has its reconnect timer running or a
\* connection attempt under way.
ReconnectUnderWay ==
  Idle /\ lossHandled /\ ~manual => armed \/ socket # "unconnected"

\* After disconnectFromServer nothing restarts the connection by itself and,
\* once the socket is down, no request is left behind.
ManualDisconnectSettles ==
  Idle /\ manual => /\ ~armed
                    /\ socket = "connecting" => closePending
                    /\ socket = "unconnected" => pending = {}

\* What TcpJsonClient promises, as an abstract specification: the open ids are
\* those in the table and those with a posted failure.
Promise == INSTANCE RequestPromise WITH
  open <- pending \cup deferred, signals <- outcomes

\* Every step keeps the promise: nothing is delivered that is not open, nothing
\* leaves the open set but by a signal or a cancellation.
KeepsPromise == Promise!Safety

\* ... and every open request is eventually resolved, though the peer and the
\* network are free to do nothing.
ResolvesRequests == Promise!Spec
=============================================================================
