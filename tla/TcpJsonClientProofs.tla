------------------------ MODULE TcpJsonClientProofs ------------------------
(***************************************************************************)
(* Proofs about TcpJsonClient for every set of requests and every bound.   *)
(***************************************************************************)
EXTENDS TcpJsonClient, SequenceTheorems, TLAPS

-----------------------------------------------------------------------------
(* The call stack. *)

LEMMA CallIsFrame ==
  ASSUME NEW op \in Op, NEW ids \in SUBSET Request
  PROVE  Call(op, ids) \in Frame
<1>1. <<>> \in Seq(Item)
  OBVIOUS
<1> QED BY <1>1 DEF Call, Frame

LEMMA PushIsStack ==
  ASSUME NEW f \in Frame, NEW s \in Seq(Frame)
  PROVE  <<f>> \o s \in Seq(Frame)
<1>1. <<f>> \in Seq(Frame)
  OBVIOUS
<1> QED BY <1>1

LEMMA SlotIsFrame == Slot \in Frame
BY CallIsFrame DEF Slot, Op

LEMMA RunningTypes ==
  ASSUME NEW op, stack \in Seq(Frame), Running(op)
  PROVE  Head(stack) \in Frame /\ Caller \in Seq(Frame)
BY DEF Running, Caller

LEMMA AgainIsStack ==
  ASSUME NEW f \in Frame, NEW id, Caller \in Seq(Frame)
  PROVE  Again(f, id) \in Seq(Frame)
<1>1. [f EXCEPT !.ids = @ \ {id}] \in Frame
  BY DEF Frame
<1> QED BY <1>1, PushIsStack DEF Again

-----------------------------------------------------------------------------
(* The shared pieces keep the types. *)

LinkTypes ==
  /\ socket \in {"unconnected", "connecting", "connected", "closing"}
  /\ closePending \in BOOLEAN /\ armed \in BOOLEAN /\ manual \in BOOLEAN
  /\ reported \in BOOLEAN /\ lossHandled \in BOOLEAN /\ partial \in BOOLEAN
  /\ attempt \in 0..MaxReconnectAttempt

LEMMA LossTypes ==
  ASSUME TypeOK, NEW keys \in SUBSET Request, NEW rest \in Seq(Frame),
         handleTransportLoss(keys, rest)
  PROVE  /\ lossHandled' \in BOOLEAN /\ partial' \in BOOLEAN /\ reported' \in BOOLEAN
         /\ stack' \in Seq(Frame)
<1>1. CASE lossHandled
  BY <1>1 DEF handleTransportLoss, TypeOK
<1>2. CASE ~lossHandled
  <2>1. Call("loss", keys) \in Frame
    BY CallIsFrame DEF Op
  <2>2. <<Call("loss", keys)>> \o rest \in Seq(Frame)
    BY <2>1, PushIsStack
  <2>3. <<Slot>> \in Seq(Frame) /\ <<>> \in Seq(Frame)
    BY SlotIsFrame
  <2>4. (IF reported THEN <<Slot>> ELSE <<>>) \o (<<Call("loss", keys)>> \o rest) \in Seq(Frame)
    BY <2>2, <2>3
  <2>5. stack' = (IF reported THEN <<Slot>> ELSE <<>>) \o <<Call("loss", keys)>> \o rest
    BY <1>2 DEF handleTransportLoss
  <2>6. (IF reported THEN <<Slot>> ELSE <<>>) \o <<Call("loss", keys)>> \in Seq(Frame)
    BY <2>1, <2>3
  <2>7. stack' \in Seq(Frame)
    BY <2>5, <2>6
  <2> QED BY <1>2, <2>7 DEF handleTransportLoss
<1> QED BY <1>1, <1>2

LEMMA DropTypes ==
  ASSUME TypeOK, NEW keys \in SUBSET Request, NEW rest \in Seq(Frame), Drop(keys, rest)
  PROVE  /\ socket' \in {"unconnected", "connecting", "connected", "closing"}
         /\ closePending' \in BOOLEAN
         /\ lossHandled' \in BOOLEAN /\ partial' \in BOOLEAN /\ reported' \in BOOLEAN
         /\ stack' \in Seq(Frame)
         /\ owed' \subseteq Request /\ inbox' \in Seq(Item)
<1>1. <<>> \in Seq(Item)
  OBVIOUS
<1>2. handleTransportLoss(keys, rest)
  BY DEF Drop
<1>3. /\ lossHandled' \in BOOLEAN /\ partial' \in BOOLEAN /\ reported' \in BOOLEAN
      /\ stack' \in Seq(Frame)
  BY <1>2, LossTypes
<1> HIDE DEF handleTransportLoss
<1> QED BY <1>1, <1>3 DEF Drop

LEMMA EraseTypes ==
  ASSUME TypeOK, NEW id, Erase(id)
  PROVE  /\ pending' \subseteq Request
         /\ written' \subseteq pending' /\ replayed' \subseteq pending'
         /\ awaiting' \subseteq pending' /\ timing' \subseteq pending'
BY DEF TypeOK, Erase

LEMMA ResolveTypes ==
  ASSUME TypeOK, NEW id \in Request, NEW rest \in Seq(Frame), Resolve(id, rest)
  PROVE  /\ pending' \subseteq Request
         /\ written' \subseteq pending' /\ replayed' \subseteq pending'
         /\ awaiting' \subseteq pending' /\ timing' \subseteq pending'
         /\ outcomes' \in [Request -> Nat]
         /\ stack' \in Seq(Frame)
<1>1. stack' \in Seq(Frame)
  BY PushIsStack, SlotIsFrame DEF Resolve
<1>2. outcomes' \in [Request -> Nat]
  BY DEF Resolve, Signal, TypeOK
<1> QED BY <1>1, <1>2, EraseTypes DEF Resolve

LEMMA ProtocolFailureTypes ==
  ASSUME TypeOK, NEW rest \in Seq(Frame), protocolFailure(rest)
  PROVE  partial' \in BOOLEAN /\ stack' \in Seq(Frame)
<1>1. Call("failAll", pending) \in Frame /\ Call("abort", {}) \in Frame
  BY CallIsFrame DEF Op, TypeOK
<1>2. <<Call("failAll", pending), Call("abort", {})>> \in Seq(Frame)
  BY <1>1
<1>3. ASSUME NEW s \in Seq(Frame) PROVE s \o rest \in Seq(Frame)
  OBVIOUS
<1>4. <<Call("failAll", pending), Call("abort", {})>> \o rest \in Seq(Frame)
  BY <1>2, <1>3
<1> QED BY <1>4 DEF protocolFailure

-----------------------------------------------------------------------------
(* Type correctness. *)

LEMMA TypeInit == Init => TypeOK
<1>1. 0 \in 0..MaxReconnectAttempt
  BY BoundAssumption
<1>2. [id \in Request |-> 0] \in [Request -> Nat]
  OBVIOUS
<1>3. <<>> \in Seq(Frame) /\ <<>> \in Seq(Item)
  OBVIOUS
<1> QED BY <1>1, <1>2, <1>3 DEF Init, TypeOK

LEMMA TypeNext == TypeOK /\ [Next]_vars => TypeOK'
<1> SUFFICES ASSUME TypeOK, [Next]_vars PROVE TypeOK'
  OBVIOUS
<1> USE BoundAssumption
<1>1. ASSUME NEW id \in Request, SendRefused(id) PROVE TypeOK'
  BY <1>1 DEF SendRefused, TypeOK, link, table, wire
<1>2. ASSUME NEW id \in Request, SendWritten(id) PROVE TypeOK'
  BY <1>2 DEF SendWritten, WriteFrame, TypeOK, link
<1>3. ASSUME NEW id \in Request, SendShort(id) PROVE TypeOK'
  <2>1. pending \cup {id} \in SUBSET Request /\ stack \in Seq(Frame)
    BY DEF TypeOK
  <2>2. Call("failWrite", {id}) \in Frame
    BY CallIsFrame DEF Op
  <2>3. <<Call("failWrite", {id})>> \o stack \in Seq(Frame)
    BY <2>1, <2>2, PushIsStack
  <2>4. Drop(pending \cup {id}, <<Call("failWrite", {id})>> \o stack)
    BY <1>3 DEF SendShort
  <2> HIDE DEF Drop
  <2> QED BY <1>3, <2>1, <2>3, <2>4, DropTypes DEF SendShort, TypeOK
<1>4. ASSUME NEW id \in Request, cancelRequest(id) PROVE TypeOK'
  BY <1>4, EraseTypes DEF cancelRequest, TypeOK, link, wire
<1>5. CASE connectToServer
  BY <1>5 DEF connectToServer, TypeOK, table, wire, past
<1>6. CASE disconnectFromServer
  <2>1. CASE socket \in {"unconnected", "connecting"}
    <3>1. Call("failAll", pending) \in Frame
      BY CallIsFrame DEF Op, TypeOK
    <3>2. <<Call("failAll", pending)>> \in Seq(Frame)
      BY <3>1
    <3> QED BY <1>6, <2>1, <3>2 DEF disconnectFromServer, TypeOK, table, wire, past
  <2>2. CASE Drop(pending, <<>>)
    <3>1. <<>> \in Seq(Frame) /\ pending \in SUBSET Request
      BY DEF TypeOK
    <3> QED BY <1>6, <2>2, <3>1, DropTypes DEF disconnectFromServer, TypeOK, table, past
  <2>3. CASE socket' = "closing" /\ partial' = FALSE
             /\ UNCHANGED <<closePending, lossHandled, reported, stack, wire>>
    BY <1>6, <2>3 DEF disconnectFromServer, TypeOK, table, wire, past
  <2> QED BY <1>6, <2>1, <2>2, <2>3 DEF disconnectFromServer
<1>7. CASE Connected
  <2>1. Call("replay", awaiting) \in Frame /\ Call("close", {}) \in Frame /\ Slot \in Frame
    BY CallIsFrame, SlotIsFrame DEF Op, TypeOK
  <2>2. stack' \in Seq(Frame)
    BY <1>7, <2>1 DEF Connected
  <2>3. attempt' \in 0..MaxReconnectAttempt
    BY <1>7 DEF Connected
  <2> QED BY <1>7, <2>2, <2>3 DEF Connected, TypeOK, table, wire, past
<1>8. CASE ConnectFailed \/ Disconnected
  <2>1. <<>> \in Seq(Frame) /\ pending \in SUBSET Request
    BY DEF TypeOK
  <2> QED BY <1>8, <2>1, DropTypes DEF ConnectFailed, Disconnected, TypeOK, table, past
<1>9. ASSUME NEW n \in 0..MaxInbox, NEW tail \in BOOLEAN, ReadyRead(n, tail) PROVE TypeOK'
  <2> DEFINE batch == SubSeq(inbox, 1, n)
  <2>1. n \in 0..Len(inbox) /\ inbox \in Seq(Item)
    BY <1>9 DEF ReadyRead, TypeOK
  <2>2. batch \in Seq(Item) /\ SubSeq(inbox, n + 1, Len(inbox)) \in Seq(Item)
    BY <2>1
  <2>3. partial' \in BOOLEAN /\ stack' \in Seq(Frame)
    <3>1. CASE protocolFailure(<<>>)
      <4>1. <<>> \in Seq(Frame)
        OBVIOUS
      <4> QED BY <3>1, <4>1, ProtocolFailureTypes
    <3>2. CASE /\ partial' = tail
               /\ stack' = IF n = 0 THEN <<>>
                           ELSE <<[op |-> "frames", ids |-> {}, items |-> batch]>>
      <4>1. [op |-> "frames", ids |-> {}, items |-> batch] \in Frame
        BY <2>2 DEF Frame, Op
      <4> QED BY <3>2, <4>1
    <3> QED BY <1>9, <3>1, <3>2 DEF ReadyRead
  <2> QED BY <1>9, <2>2, <2>3 DEF ReadyRead, TypeOK, table, past
<1>10. ASSUME NEW id \in Request, RequestTimeout(id) PROVE TypeOK'
  <2>1. <<>> \in Seq(Frame)
    OBVIOUS
  <2> QED BY <1>10, <2>1, ResolveTypes DEF RequestTimeout, TypeOK, link, wire
<1>11. ASSUME NEW id \in Request, DeferredFailure(id) PROVE TypeOK'
  <2>1. <<Slot>> \in Seq(Frame)
    BY SlotIsFrame
  <2> QED BY <1>11, <2>1 DEF DeferredFailure, Signal, TypeOK, link, table, wire
<1>12. CASE ReconnectTimeout
  BY <1>12 DEF ReconnectTimeout, TypeOK, table, wire, past
<1>13. CASE SlotReturn \/ LoopDone \/ FramesDone
  <2>1. Caller \in Seq(Frame)
    BY <1>13, RunningTypes DEF SlotReturn, LoopDone, FramesDone, TypeOK
  <2> QED BY <1>13, <2>1 DEF SlotReturn, LoopDone, FramesDone, TypeOK, link, table, wire, past
<1>14. ASSUME NEW id \in Request, LossKeep(id) PROVE TypeOK'
  <2>1. Again(Head(stack), id) \in Seq(Frame)
    BY <1>14, RunningTypes, AgainIsStack DEF LossKeep, TypeOK
  <2> QED BY <1>14, <2>1 DEF LossKeep, Todo, TypeOK, link, wire, past
<1>15. ASSUME NEW id \in Request, LossFail(id) \/ FailAllNext(id) PROVE TypeOK'
  <2>1. Again(Head(stack), id) \in Seq(Frame)
    BY <1>15, RunningTypes, AgainIsStack DEF LossFail, FailAllNext, TypeOK
  <2> QED BY <1>15, <2>1, ResolveTypes DEF LossFail, FailAllNext, TypeOK, link, wire
<1>16. CASE LossDone
  <2>1. Caller \in Seq(Frame)
    BY <1>16, RunningTypes DEF LossDone, TypeOK
  <2>2. attempt' \in 0..MaxReconnectAttempt
    <3>1. attempt \in 0..MaxReconnectAttempt
      BY DEF TypeOK
    <3>2. attempt' = attempt \/ (attempt < MaxReconnectAttempt /\ attempt' = attempt + 1)
      BY <1>16 DEF LossDone
    <3> QED BY <3>1, <3>2
  <2>3. stack' \in Seq(Frame)
    BY <1>16, <2>1 DEF LossDone
  <2>4. UNCHANGED <<socket, closePending, manual, reported, lossHandled, partial,
                    table, deferred, wire, past>>
    BY <1>16 DEF LossDone
  <2>5. armed' \in BOOLEAN
    BY <1>16 DEF LossDone, TypeOK
  <2> QED BY <2>2, <2>3, <2>4, <2>5 DEF TypeOK, table, wire, past
<1>17. ASSUME NEW id \in Request, ReplayWritten(id) PROVE TypeOK'
  <2>1. Again(Head(stack), id) \in Seq(Frame)
    BY <1>17, RunningTypes, AgainIsStack DEF ReplayWritten, TypeOK
  <2> QED BY <1>17, <2>1 DEF ReplayWritten, WriteFrame, Todo, TypeOK, link
<1>18. ASSUME NEW id \in Request, ReplayShort(id) PROVE TypeOK'
  <2> DEFINE rest == <<Call("failWrite", {id})>> \o Again(Head(stack), id)
  <2>1. Again(Head(stack), id) \in Seq(Frame)
    BY <1>18, RunningTypes, AgainIsStack DEF ReplayShort, TypeOK
  <2>2. Call("failWrite", {id}) \in Frame
    BY CallIsFrame DEF Op
  <2>3. rest \in Seq(Frame)
    BY <2>1, <2>2, PushIsStack
  <2>4. Drop(pending, rest) /\ pending \in SUBSET Request
    BY <1>18 DEF ReplayShort, TypeOK
  <2> HIDE DEF rest
  <2> QED BY <1>18, <2>3, <2>4, DropTypes DEF ReplayShort, TypeOK, table, past
<1>19. ASSUME NEW id \in Request, FailWrite(id) PROVE TypeOK'
  <2>1. Caller \in Seq(Frame)
    BY <1>19, RunningTypes DEF FailWrite, TypeOK
  <2>2. CASE Resolve(id, Caller)
    BY <1>19, <2>1, <2>2, ResolveTypes DEF FailWrite, TypeOK, link, wire
  <2>3. CASE stack' = Caller /\ UNCHANGED <<table, outcomes>>
    BY <1>19, <2>1, <2>3 DEF FailWrite, TypeOK, link, wire, table
  <2> QED BY <1>19, <2>2, <2>3 DEF FailWrite
<1>20. ASSUME NEW id \in Request, NextResponse(id) PROVE TypeOK'
  <2> DEFINE loop == [Head(stack) EXCEPT !.items = Tail(@)]
  <2>1. Head(stack) \in Frame /\ Caller \in Seq(Frame) /\ Head(stack).items # <<>>
    BY <1>20, RunningTypes DEF NextResponse, TypeOK
  <2>2. loop \in Frame
    <3>1. Head(stack).items \in Seq(Item)
      BY <2>1 DEF Frame
    <3>2. Tail(Head(stack).items) \in Seq(Item)
      BY <2>1, <3>1
    <3> QED BY <2>1, <3>2 DEF Frame
  <2>3. <<loop>> \o Caller \in Seq(Frame)
    BY <2>1, <2>2, PushIsStack
  <2>4. CASE Resolve(id, <<loop>> \o Caller)
    <3> HIDE DEF loop
    <3> QED BY <1>20, <2>3, <2>4, ResolveTypes DEF NextResponse, TypeOK, link, wire
  <2>5. CASE stack' = <<loop>> \o Caller /\ UNCHANGED <<table, outcomes>>
    <3> HIDE DEF loop
    <3> QED BY <1>20, <2>3, <2>5 DEF NextResponse, TypeOK, link, wire, table
  <2> QED BY <1>20, <2>4, <2>5 DEF NextResponse
<1>21. CASE NextMalformed
  <2>1. Caller \in Seq(Frame)
    BY <1>21, RunningTypes DEF NextMalformed, TypeOK
  <2> QED BY <1>21, <2>1, ProtocolFailureTypes DEF NextMalformed, TypeOK, table, wire, past
<1>22. CASE Abort \/ DeferredClose
  <2>1. Caller \in Seq(Frame) /\ pending \in SUBSET Request
    BY <1>22, RunningTypes DEF Abort, DeferredClose, TypeOK
  <2>2. CASE Drop(pending, Caller)
    BY <1>22, <2>1, <2>2, DropTypes DEF Abort, DeferredClose, TypeOK, table, past
  <2>3. CASE ~Drop(pending, Caller)
    BY <1>22, <2>1, <2>3 DEF Abort, DeferredClose, CloseGently, TypeOK, table, wire, past
  <2> QED BY <2>2, <2>3
<1>23. ASSUME NEW id \in Request, Respond(id) PROVE TypeOK'
  <2>1. id \in Item /\ inbox \in Seq(Item)
    BY DEF Item, TypeOK
  <2> QED BY <1>23, <2>1 DEF Respond, TypeOK, link, table, past
<1>24. ASSUME NEW item \in {"badFrame", "badEnvelope"}, Garble(item) PROVE TypeOK'
  <2>1. item \in Item /\ inbox \in Seq(Item)
    BY DEF Item, TypeOK
  <2> QED BY <1>24, <2>1 DEF Garble, TypeOK, link, table, past
<1>25. CASE UNCHANGED vars
  BY <1>25 DEF vars, TypeOK, link, table, wire, past
<1> QED
  BY <1>1, <1>2, <1>3, <1>4, <1>5, <1>6, <1>7, <1>8, <1>9, <1>10, <1>11, <1>12, <1>13,
     <1>14, <1>15, <1>16, <1>17, <1>18, <1>19, <1>20, <1>21, <1>22, <1>23, <1>24, <1>25
  DEF Next, Application, Handlers, Timers, Network, Peer

\* Every variable keeps its type, and the flags and timers of a request exist
\* only while the request is in the table.
THEOREM TypeCorrect == Spec => []TypeOK
BY TypeInit, TypeNext, PTL DEF Spec

-----------------------------------------------------------------------------
(* How often a frame is put on the wire.  WriteBound is not inductive: that   *)
(* a request may be written now depends on how often it was written before,   *)
(* which the flags of its table entry record.                                 *)

WriteInv ==
  /\ pending \subseteq issued
  /\ replayed \subseteq SafeRead
  /\ awaiting = replayed \ written
  /\ \A id \in Request :
       /\ id \notin issued => writes[id] = 0
       /\ id \in pending \ (written \cup replayed) => writes[id] = 0
       /\ id \in pending \ (written \cap replayed) => writes[id] <= 1
       /\ writes[id] <= IF id \in SafeRead THEN 2 ELSE 1

LEMMA WriteInit == Init => WriteInv
BY DEF Init, WriteInv

LEMMA EraseWrites ==
  ASSUME TypeOK, WriteInv, NEW id, Erase(id), UNCHANGED <<issued, writes>>
  PROVE  WriteInv'
BY DEF TypeOK, WriteInv, Erase

LEMMA WriteNext == TypeOK /\ WriteInv /\ [Next]_vars => WriteInv'
<1> SUFFICES ASSUME TypeOK, WriteInv, [Next]_vars PROVE WriteInv'
  OBVIOUS
<1>1. ASSUME NEW id \in Request, SendRefused(id) PROVE WriteInv'
  BY <1>1 DEF SendRefused, WriteInv, TypeOK, table
<1>2. ASSUME NEW id \in Request, SendWritten(id) PROVE WriteInv'
  <2>1. id \notin pending /\ writes[id] = 0
    BY <1>2 DEF SendWritten, WriteInv
  <2>2. writes'[id] = 1 /\ \A x \in Request \ {id} : writes'[x] = writes[x]
    BY <1>2, <2>1 DEF SendWritten, WriteFrame, TypeOK
  <2> QED BY <1>2, <2>1, <2>2 DEF SendWritten, WriteFrame, WriteInv, TypeOK
<1>3. ASSUME NEW id \in Request, SendShort(id) PROVE WriteInv'
  BY <1>3 DEF SendShort, WriteInv, TypeOK
<1>4. ASSUME NEW id \in Request, cancelRequest(id) PROVE WriteInv'
  BY <1>4, EraseWrites DEF cancelRequest
<1>5. CASE connectToServer \/ disconnectFromServer
  BY <1>5 DEF connectToServer, disconnectFromServer, WriteInv, table, past
<1>6. CASE Connected \/ ConnectFailed \/ Disconnected
  BY <1>6 DEF Connected, ConnectFailed, Disconnected, WriteInv, table, past
<1>7. ASSUME NEW n \in 0..MaxInbox, NEW tail \in BOOLEAN, ReadyRead(n, tail) PROVE WriteInv'
  BY <1>7 DEF ReadyRead, WriteInv, table, past
<1>8. ASSUME NEW id \in Request, RequestTimeout(id) PROVE WriteInv'
  BY <1>8, EraseWrites DEF RequestTimeout, Resolve
<1>9. ASSUME NEW id \in Request, DeferredFailure(id) PROVE WriteInv'
  BY <1>9 DEF DeferredFailure, WriteInv, table
<1>10. CASE ReconnectTimeout
  BY <1>10 DEF ReconnectTimeout, WriteInv, table, past
<1>11. CASE SlotReturn \/ LoopDone \/ FramesDone \/ LossDone \/ NextMalformed \/ Abort \/ DeferredClose
  BY <1>11 DEF SlotReturn, LoopDone, FramesDone, LossDone, NextMalformed, Abort, DeferredClose,
               WriteInv, table, past
<1>12. ASSUME NEW id \in Request, LossKeep(id) PROVE WriteInv'
  <2>1. id \in pending /\ id \in written \ replayed /\ id \in SafeRead
    BY <1>12 DEF LossKeep, Todo, Replayable
  <2>2. UNCHANGED <<pending, issued, writes>>
    BY <1>12 DEF LossKeep, past
  <2> QED BY <1>12, <2>1, <2>2 DEF LossKeep, WriteInv, TypeOK
<1>13. ASSUME NEW id \in Request, LossFail(id) \/ FailAllNext(id) PROVE WriteInv'
  BY <1>13, EraseWrites DEF LossFail, FailAllNext, Resolve
<1>14. ASSUME NEW id \in Request, ReplayWritten(id) PROVE WriteInv'
  <2>1. id \in pending /\ id \in replayed \ written /\ id \in SafeRead /\ writes[id] <= 1
    BY <1>14 DEF ReplayWritten, Todo, WriteInv, TypeOK
  <2>2. writes'[id] <= 2 /\ \A x \in Request \ {id} : writes'[x] = writes[x]
    BY <1>14, <2>1 DEF ReplayWritten, WriteFrame, TypeOK
  <2> QED BY <1>14, <2>1, <2>2 DEF ReplayWritten, WriteFrame, WriteInv, TypeOK
<1>15. ASSUME NEW id \in Request, ReplayShort(id) PROVE WriteInv'
  BY <1>15 DEF ReplayShort, WriteInv, table, past
<1>16. ASSUME NEW id \in Request, FailWrite(id) \/ NextResponse(id) PROVE WriteInv'
  <2>1. UNCHANGED <<issued, writes>> /\ (Erase(id) \/ UNCHANGED table)
    BY <1>16 DEF FailWrite, NextResponse, Resolve
  <2>2. CASE Erase(id)
    BY <2>1, <2>2, EraseWrites
  <2>3. CASE UNCHANGED table
    BY <2>1, <2>3 DEF WriteInv, table
  <2> QED BY <2>1, <2>2, <2>3
<1>17. ASSUME NEW id \in Request, Respond(id) PROVE WriteInv'
  BY <1>17 DEF Respond, WriteInv, table, past
<1>18. ASSUME NEW item \in {"badFrame", "badEnvelope"}, Garble(item) PROVE WriteInv'
  BY <1>18 DEF Garble, WriteInv, table, past
<1>19. CASE UNCHANGED vars
  BY <1>19 DEF vars, WriteInv, table, past
<1> QED
  BY <1>1, <1>2, <1>3, <1>4, <1>5, <1>6, <1>7, <1>8, <1>9, <1>10, <1>11, <1>12, <1>13,
     <1>14, <1>15, <1>16, <1>17, <1>18, <1>19
  DEF Next, Application, Handlers, Timers, Network, Peer

\* A mutation is written at most once and a safe read at most twice, whatever
\* the network does.
THEOREM NeverWrittenAgain == Spec => []WriteBound
<1>1. WriteInv => WriteBound
  BY DEF WriteInv, WriteBound
<1>2. Spec => []WriteInv
  BY WriteInit, WriteNext, TypeCorrect, PTL DEF Spec
<1> QED BY <1>1, <1>2, PTL

-----------------------------------------------------------------------------
(* Each request has one outcome. *)

\* What ExactlyOneOutcome needs to be inductive: no set holds an id twice.
LedgerInv ==
  /\ pending \cup deferred \cup cancelled \subseteq issued
  /\ cancelled \cap (pending \cup deferred) = {}
  /\ ExactlyOneOutcome

LEMMA LedgerInit == Init => LedgerInv
BY DEF Init, LedgerInv, ExactlyOneOutcome

LEMMA ResolveLedger ==
  ASSUME TypeOK, LedgerInv, NEW id \in pending, NEW rest, Resolve(id, rest),
         UNCHANGED <<deferred, issued, cancelled>>
  PROVE  LedgerInv'
<1>1. id \in Request /\ id \notin deferred /\ outcomes[id] = 0
  BY DEF TypeOK, LedgerInv, ExactlyOneOutcome
<1>2. outcomes'[id] = 1 /\ \A x \in Request \ {id} : outcomes'[x] = outcomes[x]
  BY <1>1 DEF Resolve, Signal, TypeOK
<1>3. pending' = pending \ {id}
  BY DEF Resolve, Erase
<1> QED BY <1>1, <1>2, <1>3 DEF LedgerInv, ExactlyOneOutcome

LEMMA LedgerNext == TypeOK /\ LedgerInv /\ [Next]_vars => LedgerInv'
<1> SUFFICES ASSUME TypeOK, LedgerInv, [Next]_vars PROVE LedgerInv'
  OBVIOUS
<1>1. ASSUME NEW id \in Request, SendRefused(id) PROVE LedgerInv'
  BY <1>1 DEF SendRefused, LedgerInv, ExactlyOneOutcome, TypeOK, table
<1>2. ASSUME NEW id \in Request, SendWritten(id) \/ SendShort(id) PROVE LedgerInv'
  BY <1>2 DEF SendWritten, SendShort, LedgerInv, ExactlyOneOutcome, TypeOK
<1>3. ASSUME NEW id \in Request, cancelRequest(id) PROVE LedgerInv'
  BY <1>3 DEF cancelRequest, Erase, LedgerInv, ExactlyOneOutcome, TypeOK
<1>4. CASE connectToServer \/ disconnectFromServer
  BY <1>4 DEF connectToServer, disconnectFromServer, LedgerInv, ExactlyOneOutcome, table, past
<1>5. CASE Connected \/ ConnectFailed \/ Disconnected
  BY <1>5 DEF Connected, ConnectFailed, Disconnected, LedgerInv, ExactlyOneOutcome, table, past
<1>6. ASSUME NEW n \in 0..MaxInbox, NEW tail \in BOOLEAN, ReadyRead(n, tail) PROVE LedgerInv'
  BY <1>6 DEF ReadyRead, LedgerInv, ExactlyOneOutcome, table, past
<1>7. ASSUME NEW id \in Request, RequestTimeout(id) PROVE LedgerInv'
  <2>1. id \in pending
    BY <1>7 DEF RequestTimeout, TypeOK
  <2> QED BY <1>7, <2>1, ResolveLedger DEF RequestTimeout
<1>8. ASSUME NEW id \in Request, DeferredFailure(id) PROVE LedgerInv'
  <2>1. id \in deferred /\ id \notin pending /\ outcomes[id] = 0
    BY <1>8 DEF DeferredFailure, LedgerInv, ExactlyOneOutcome
  <2>2. outcomes'[id] = 1 /\ \A x \in Request \ {id} : outcomes'[x] = outcomes[x]
    BY <1>8, <2>1 DEF DeferredFailure, Signal, TypeOK
  <2> QED BY <1>8, <2>1, <2>2 DEF DeferredFailure, LedgerInv, ExactlyOneOutcome, table
<1>9. CASE ReconnectTimeout
  BY <1>9 DEF ReconnectTimeout, LedgerInv, ExactlyOneOutcome, table, past
<1>10. CASE SlotReturn \/ LoopDone \/ FramesDone \/ LossDone \/ NextMalformed \/ Abort \/ DeferredClose
  BY <1>10 DEF SlotReturn, LoopDone, FramesDone, LossDone, NextMalformed, Abort, DeferredClose,
               LedgerInv, ExactlyOneOutcome, table, past
<1>11. ASSUME NEW id \in Request, LossKeep(id) \/ ReplayWritten(id) \/ ReplayShort(id) PROVE LedgerInv'
  BY <1>11 DEF LossKeep, ReplayWritten, ReplayShort, LedgerInv, ExactlyOneOutcome, table, past
<1>12. ASSUME NEW id \in Request, LossFail(id) \/ FailAllNext(id) PROVE LedgerInv'
  <2>1. id \in pending
    BY <1>12 DEF LossFail, FailAllNext, Todo
  <2> QED BY <1>12, <2>1, ResolveLedger DEF LossFail, FailAllNext
<1>13. ASSUME NEW id \in Request, FailWrite(id) \/ NextResponse(id) PROVE LedgerInv'
  <2>1. UNCHANGED <<deferred, issued, cancelled>>
    BY <1>13 DEF FailWrite, NextResponse
  <2>2. CASE id \in pending
    <3>1. \E rest : Resolve(id, rest)
      BY <1>13, <2>2 DEF FailWrite, NextResponse
    <3> QED BY <2>1, <2>2, <3>1, ResolveLedger
  <2>3. CASE id \notin pending
    BY <1>13, <2>1, <2>3 DEF FailWrite, NextResponse, LedgerInv, ExactlyOneOutcome, table
  <2> QED BY <2>2, <2>3
<1>14. ASSUME NEW id \in Request, Respond(id) PROVE LedgerInv'
  BY <1>14 DEF Respond, LedgerInv, ExactlyOneOutcome, table, past
<1>15. ASSUME NEW item \in {"badFrame", "badEnvelope"}, Garble(item) PROVE LedgerInv'
  BY <1>15 DEF Garble, LedgerInv, ExactlyOneOutcome, table, past
<1>16. CASE UNCHANGED vars
  BY <1>16 DEF vars, LedgerInv, ExactlyOneOutcome, table, past
<1> QED
  BY <1>1, <1>2, <1>3, <1>4, <1>5, <1>6, <1>7, <1>8, <1>9, <1>10, <1>11, <1>12, <1>13,
     <1>14, <1>15, <1>16
  DEF Next, Application, Handlers, Timers, Network, Peer

\* No id send() returned is lost, and none is signalled twice.
THEOREM OneOutcome == Spec => []ExactlyOneOutcome
<1>1. Spec => []LedgerInv
  BY LedgerInit, LedgerNext, TypeCorrect, PTL DEF Spec
<1>2. LedgerInv => ExactlyOneOutcome
  BY DEF LedgerInv
<1> QED BY <1>1, <1>2, PTL

-----------------------------------------------------------------------------
(* TcpJsonClient implements RequestPromise. *)

LEMMA PromiseInit == Init => Promise!Init
BY DEF Init, Promise!Init

LEMMA ResolveDelivers ==
  ASSUME TypeOK, LedgerInv, NEW id \in pending, NEW rest, Resolve(id, rest),
         UNCHANGED <<deferred, cancelled>>
  PROVE  Promise!Deliver(id)
<1>1. id \notin deferred /\ pending' = pending \ {id}
  BY DEF LedgerInv, ExactlyOneOutcome, Resolve, Erase
<1> QED BY <1>1 DEF Promise!Deliver, Resolve, Signal

LEMMA PromiseNext ==
  TypeOK /\ LedgerInv /\ [Next]_vars => [Promise!Next]_(Promise!vars)
<1> SUFFICES ASSUME TypeOK, LedgerInv, [Next]_vars PROVE [Promise!Next]_(Promise!vars)
  OBVIOUS
<1> DEFINE Quiet == UNCHANGED <<pending, deferred, cancelled, outcomes>>
<1>1. ASSUME NEW id \in Request, SendRefused(id) \/ SendWritten(id) \/ SendShort(id)
      PROVE  Promise!Issue(id)
  <2>1. id \notin pending \cup deferred \cup cancelled /\ outcomes[id] = 0
    BY <1>1 DEF SendRefused, SendWritten, SendShort, LedgerInv, ExactlyOneOutcome
  <2>2. /\ pending' \cup deferred' = (pending \cup deferred) \cup {id}
        /\ UNCHANGED <<cancelled, outcomes>>
    BY <1>1 DEF SendRefused, SendWritten, SendShort, table
  <2> QED BY <2>1, <2>2 DEF Promise!Issue, Promise!Fresh
<1>2. ASSUME NEW id \in Request, cancelRequest(id) PROVE Promise!Cancel(id)
  <2>1. id \in pending /\ id \notin deferred
    BY <1>2 DEF cancelRequest, LedgerInv, ExactlyOneOutcome
  <2> QED BY <1>2, <2>1 DEF cancelRequest, Erase, Promise!Cancel
<1>3. CASE connectToServer \/ disconnectFromServer \/ Connected \/ ConnectFailed \/ Disconnected
           \/ ReconnectTimeout
  <2>1. Quiet
    BY <1>3 DEF connectToServer, disconnectFromServer, Connected, ConnectFailed, Disconnected,
                ReconnectTimeout, table, past
  <2> QED BY <2>1 DEF Promise!vars
<1>4. ASSUME NEW n \in 0..MaxInbox, NEW tail \in BOOLEAN, ReadyRead(n, tail) PROVE Quiet
  BY <1>4 DEF ReadyRead, table, past
<1>5. ASSUME NEW id \in Request, RequestTimeout(id) \/ LossFail(id) \/ FailAllNext(id)
      PROVE  Promise!Deliver(id)
  <2>1. id \in pending
    BY <1>5 DEF RequestTimeout, LossFail, FailAllNext, Todo, TypeOK
  <2> QED BY <1>5, <2>1, ResolveDelivers DEF RequestTimeout, LossFail, FailAllNext
<1>6. ASSUME NEW id \in Request, DeferredFailure(id) PROVE Promise!Deliver(id)
  <2>1. id \in deferred /\ id \notin pending /\ deferred' = deferred \ {id} /\ UNCHANGED pending
    BY <1>6 DEF DeferredFailure, LedgerInv, ExactlyOneOutcome, table
  <2> QED BY <1>6, <2>1 DEF DeferredFailure, Signal, Promise!Deliver
<1>7. CASE SlotReturn \/ LoopDone \/ FramesDone \/ LossDone \/ NextMalformed \/ Abort \/ DeferredClose
  <2>1. Quiet
    BY <1>7 DEF SlotReturn, LoopDone, FramesDone, LossDone, NextMalformed, Abort, DeferredClose,
                table, past
  <2> QED BY <2>1 DEF Promise!vars
<1>8. ASSUME NEW id \in Request, LossKeep(id) \/ ReplayWritten(id) \/ ReplayShort(id) PROVE Quiet
  BY <1>8 DEF LossKeep, ReplayWritten, ReplayShort, table, past
<1>9. ASSUME NEW id \in Request, FailWrite(id) \/ NextResponse(id)
      PROVE  Quiet \/ Promise!Deliver(id)
  <2>1. UNCHANGED <<deferred, cancelled>>
    BY <1>9 DEF FailWrite, NextResponse
  <2>2. CASE id \in pending
    <3>1. \E rest : Resolve(id, rest)
      BY <1>9, <2>2 DEF FailWrite, NextResponse
    <3> QED BY <2>1, <2>2, <3>1, ResolveDelivers
  <2>3. CASE id \notin pending
    BY <1>9, <2>1, <2>3 DEF FailWrite, NextResponse, table
  <2> QED BY <2>2, <2>3
<1>10. ASSUME NEW id \in Request, Respond(id) PROVE Quiet
  BY <1>10 DEF Respond, table, past
<1>11. ASSUME NEW item \in {"badFrame", "badEnvelope"}, Garble(item) PROVE Quiet
  BY <1>11 DEF Garble, table, past
<1>12. CASE UNCHANGED vars
  BY <1>12 DEF vars, Promise!vars, table, past
<1>13. Quiet => UNCHANGED Promise!vars
  BY DEF Promise!vars
<1>14. ASSUME NEW id \in Request, Promise!Issue(id) \/ Promise!Deliver(id) \/ Promise!Cancel(id)
       PROVE  Promise!Next
  BY <1>14 DEF Promise!Next
<1> HIDE DEF Quiet
<1> QED
  BY <1>1, <1>2, <1>3, <1>4, <1>5, <1>6, <1>7, <1>8, <1>9, <1>10, <1>11, <1>12, <1>13, <1>14
  DEF Next, Application, Handlers, Timers, Network, Peer

\* TcpJsonClient keeps the safety half of RequestPromise.
THEOREM ImplementsPromise == Spec => KeepsPromise
<1>1. Spec => [](TypeOK /\ LedgerInv)
  BY LedgerInit, LedgerNext, TypeInit, TypeNext, PTL DEF Spec
<1>2. Spec => Promise!Init /\ [][Promise!Next]_(Promise!vars)
  BY <1>1, PromiseInit, PromiseNext, PTL DEF Spec
<1> QED BY <1>2 DEF KeepsPromise, Promise!Safety

-----------------------------------------------------------------------------
(***************************************************************************)
(* Proofs about the connection of TcpJsonClient and what a loss leaves in  *)
(* the table, for every set of requests and every depth of callbacks.      *)
(*                                                                         *)
(* The properties speak of the moments between handlers, when the stack is *)
(* empty.  What makes them inductive is an account of the handlers that    *)
(* are still on it: a request that a loss, a failure of everything or a    *)
(* replay has yet to deal with is named in the frame of that loop.         *)
(***************************************************************************)

-----------------------------------------------------------------------------
(* Frames on a stack. *)

\* A handler `op' is under way in s; it has yet to come to `id'.
Has(s, op) == \E i \in DOMAIN s : s[i].op = op
Owes(s, op, id) == \E i \in DOMAIN s : s[i].op = op /\ id \in s[i].ids

LEMMA EmptyStack ==
  ASSUME NEW op
  PROVE  ~Has(<<>>, op) /\ \A id : ~Owes(<<>>, op, id)
BY DEF Has, Owes

LEMMA PushedStack ==
  ASSUME NEW f \in Frame, NEW s \in Seq(Frame), NEW op
  PROVE  /\ Has(<<f>> \o s, op) <=> f.op = op \/ Has(s, op)
         /\ \A id : Owes(<<f>> \o s, op, id) <=> (f.op = op /\ id \in f.ids) \/ Owes(s, op, id)
<1> DEFINE p == <<f>> \o s
<1>1. Len(p) = Len(s) + 1 /\ Len(s) \in Nat /\ DOMAIN p = 1..Len(p) /\ DOMAIN s = 1..Len(s)
  OBVIOUS
<1>2. p[1] = f /\ \A i \in 1..Len(s) : p[i + 1] = s[i]
  OBVIOUS
<1> HIDE DEF p
<1>3. ASSUME NEW i \in DOMAIN p PROVE i = 1 \/ (i - 1 \in DOMAIN s /\ p[i] = s[i - 1])
  <2>1. i = 1 \/ (i - 1 \in 1..Len(s) /\ (i - 1) + 1 = i)
    BY <1>1
  <2> QED BY <2>1, <1>1, <1>2
<1>4. ASSUME NEW i \in DOMAIN s PROVE i + 1 \in DOMAIN p /\ p[i + 1] = s[i]
  BY <1>1, <1>2
<1>5. 1 \in DOMAIN p
  BY <1>1
<1> QED BY <1>2, <1>3, <1>4, <1>5 DEF Has, Owes, p

LEMMA SingleStack ==
  ASSUME NEW f \in Frame, NEW op
  PROVE  /\ Has(<<f>>, op) <=> f.op = op
         /\ \A id : Owes(<<f>>, op, id) <=> f.op = op /\ id \in f.ids
<1>1. Len(<<f>>) = 1 /\ DOMAIN <<f>> = {1} /\ <<f>>[1] = f
  OBVIOUS
<1> QED BY <1>1 DEF Has, Owes

LEMMA PoppedStack ==
  ASSUME NEW s \in Seq(Frame), s # <<>>, NEW op
  PROVE  /\ Has(s, op) <=> Head(s).op = op \/ Has(Tail(s), op)
         /\ \A id : Owes(s, op, id) <=>
                      (Head(s).op = op /\ id \in Head(s).ids) \/ Owes(Tail(s), op, id)
<1> DEFINE f == Head(s)
           r == Tail(s)
<1>1. f \in Frame /\ r \in Seq(Frame) /\ s = <<f>> \o r
  OBVIOUS
<1> HIDE DEF f, r
<1>2. /\ Has(<<f>> \o r, op) <=> f.op = op \/ Has(r, op)
      /\ \A id : Owes(<<f>> \o r, op, id) <=> (f.op = op /\ id \in f.ids) \/ Owes(r, op, id)
  BY <1>1, PushedStack
<1> QED BY <1>1, <1>2 DEF f, r

LEMMA CallFields ==
  ASSUME NEW op, NEW ids
  PROVE  Call(op, ids).op = op /\ Call(op, ids).ids = ids
BY DEF Call

\* The innermost handler and its callers.
LEMMA RunningStack ==
  ASSUME TypeOK, NEW o, Running(o), NEW op
  PROVE  /\ Has(stack, op) <=> op = o \/ Has(Caller, op)
         /\ \A id : Owes(stack, op, id) <=>
                      (op = o /\ id \in Head(stack).ids) \/ Owes(Caller, op, id)
<1>1. stack \in Seq(Frame) /\ stack # <<>> /\ Head(stack).op = o
  BY DEF TypeOK, Running
<1> QED BY <1>1, PoppedStack DEF Caller

\* A loop that has dealt with `id'.
LEMMA AgainStack ==
  ASSUME TypeOK, NEW o, Running(o), NEW id, NEW op
  PROVE  /\ Has(Again(Head(stack), id), op) <=> Has(stack, op)
         /\ \A x : Owes(Again(Head(stack), id), op, x) =>  Owes(stack, op, x)
         /\ \A x : Owes(stack, op, x) =>
                      (x = id /\ op = o) \/ Owes(Again(Head(stack), id), op, x)
<1> DEFINE f == [Head(stack) EXCEPT !.ids = @ \ {id}]
<1>1. Head(stack) \in Frame /\ Caller \in Seq(Frame) /\ Head(stack).op = o
  BY RunningTypes DEF TypeOK, Running
<1>2. f \in Frame /\ f.op = o /\ f.ids = Head(stack).ids \ {id}
  BY <1>1 DEF Frame
<1> HIDE DEF f
<1>3. /\ Has(<<f>> \o Caller, op) <=> f.op = op \/ Has(Caller, op)
      /\ \A x : Owes(<<f>> \o Caller, op, x) <=> (f.op = op /\ x \in f.ids) \/ Owes(Caller, op, x)
  BY <1>1, <1>2, PushedStack
<1> QED BY <1>2, <1>3, RunningStack DEF Again, f

\* A signal's slots on top.
LEMMA SlotStack ==
  ASSUME NEW s \in Seq(Frame), NEW op
  PROVE  /\ op # "slot" => (Has(<<Slot>> \o s, op) <=> Has(s, op))
         /\ \A id : Owes(<<Slot>> \o s, op, id) <=> Owes(s, op, id)
<1>1. Slot \in Frame /\ Slot.op = "slot" /\ Slot.ids = {}
  BY SlotIsFrame, CallFields DEF Slot
<1> QED BY <1>1, PushedStack

\* The stack after a loss that had not been handled yet.
LEMMA LossStack ==
  ASSUME TypeOK, NEW keys \in SUBSET Request, NEW rest \in Seq(Frame),
         handleTransportLoss(keys, rest), ~lossHandled, NEW op
  PROVE  /\ op # "slot" => (Has(stack', op) <=> op = "loss" \/ Has(rest, op))
         /\ \A id : Owes(stack', op, id) <=> (op = "loss" /\ id \in keys) \/ Owes(rest, op, id)
<1> DEFINE f == Call("loss", keys)
           s == <<f>> \o rest
<1>1. f \in Frame /\ f.op = "loss" /\ f.ids = keys
  BY CallIsFrame, CallFields DEF Op
<1> HIDE DEF f
<1>2. s \in Seq(Frame)
  BY <1>1
<1>3. /\ Has(s, op) <=> op = "loss" \/ Has(rest, op)
      /\ \A id : Owes(s, op, id) <=> (op = "loss" /\ id \in keys) \/ Owes(rest, op, id)
  BY <1>1, PushedStack
<1>4. stack' = s \/ stack' = <<Slot>> \o s
  <2>1. stack' = (IF reported THEN <<Slot>> ELSE <<>>) \o <<f>> \o rest
    BY DEF handleTransportLoss, f
  <2>2. (<<>> \o <<f>>) \o rest = <<f>> \o rest
    BY <1>1
  <2>3. (<<Slot>> \o <<f>>) \o rest = <<Slot>> \o (<<f>> \o rest)
    BY <1>1, SlotIsFrame
  <2> QED BY <2>1, <2>2, <2>3
<1> HIDE DEF s
<1>5. /\ op # "slot" => (Has(<<Slot>> \o s, op) <=> Has(s, op))
      /\ \A id : Owes(<<Slot>> \o s, op, id) <=> Owes(s, op, id)
  BY <1>2, SlotStack
<1>6. CASE stack' = s
  BY <1>3, <1>6
<1>7. CASE stack' = <<Slot>> \o s
  BY <1>3, <1>5, <1>7
<1> QED BY <1>4, <1>6, <1>7

\* The stack after a protocol failure.
LEMMA ProtocolFailureStack ==
  ASSUME TypeOK, NEW rest \in Seq(Frame), protocolFailure(rest), NEW op
  PROVE  /\ op \notin {"failAll", "abort"} => (Has(stack', op) <=> Has(rest, op))
         /\ \A id : Owes(stack', op, id) <=> (op = "failAll" /\ id \in pending) \/ Owes(rest, op, id)
<1> DEFINE f == Call("failAll", pending)
           g == Call("abort", {})
           s == <<g>> \o rest
<1>1. /\ f \in Frame /\ f.op = "failAll" /\ f.ids = pending
      /\ g \in Frame /\ g.op = "abort" /\ g.ids = {}
  BY CallIsFrame, CallFields DEF Op, TypeOK
<1>2. stack' = <<f, g>> \o rest
  BY DEF protocolFailure
<1> HIDE DEF f, g
<1>3. s \in Seq(Frame)
  BY <1>1
<1>4. stack' = <<f>> \o s
  <2>1. <<f, g>> = <<f>> \o <<g>>
    <3>1. <<f, g>> \in Seq(Frame) /\ <<f>> \o <<g>> \in Seq(Frame)
      BY <1>1
    <3>2. Len(<<f, g>>) = 2 /\ Len(<<f>> \o <<g>>) = 2
      BY <1>1
    <3>3. /\ <<f, g>>[1] = f /\ (<<f>> \o <<g>>)[1] = f
          /\ <<f, g>>[2] = g /\ (<<f>> \o <<g>>)[2] = g
      BY <1>1
    <3> HIDE DEF f, g
    <3>4. \A i \in 1..2 : <<f, g>>[i] = (<<f>> \o <<g>>)[i]
      BY <3>3
    <3> QED BY <3>1, <3>2, <3>4, SeqEqual
  <2>2. (<<f>> \o <<g>>) \o rest = <<f>> \o (<<g>> \o rest)
    BY <1>1
  <2> QED BY <1>2, <2>1, <2>2
<1>5. /\ Has(s, op) <=> g.op = op \/ Has(rest, op)
      /\ \A id : Owes(s, op, id) <=> (g.op = op /\ id \in g.ids) \/ Owes(rest, op, id)
  BY <1>1, PushedStack
<1> HIDE DEF s
<1>6. /\ Has(<<f>> \o s, op) <=> f.op = op \/ Has(s, op)
      /\ \A id : Owes(<<f>> \o s, op, id) <=> (f.op = op /\ id \in f.ids) \/ Owes(s, op, id)
  BY <1>1, <1>3, PushedStack
<1> QED BY <1>1, <1>4, <1>5, <1>6

-----------------------------------------------------------------------------
(* Steps of the handlers that neither lose nor fail the connection. *)

LoopStep ==
  \/ SlotReturn \/ LossDone \/ LoopDone \/ FramesDone
  \/ \E id \in Request : \/ LossKeep(id) \/ LossFail(id) \/ FailAllNext(id)
                         \/ ReplayWritten(id) \/ FailWrite(id) \/ NextResponse(id)

\* Such a step starts no loop, and a loop that goes on keeps what it owes: what
\* a loss or a failure of everything came to is gone, or the loss keeps it for
\* its replay, and what a replay came to awaits it no more.
LEMMA LoopStack ==
  ASSUME TypeOK, LoopStep, NEW op \in Op \ {"slot"}
  PROVE  /\ Has(stack', op) => Has(stack, op)
         /\ Has(stack, op) => Has(stack', op) \/ Running(op)
         /\ \A x \in pending' : Owes(stack, op, x) =>
              \/ Owes(stack', op, x)
              \/ op = "loss" /\ LossKeep(x)
              \/ op = "replay" /\ (x \notin awaiting' \/ socket # "connected")
              \/ op \notin {"loss", "failAll", "replay"}
<1> DEFINE Goal == /\ Has(stack', op) => Has(stack, op)
                   /\ Has(stack, op) => Has(stack', op) \/ Running(op)
                   /\ \A x \in pending' : Owes(stack, op, x) =>
                        \/ Owes(stack', op, x)
                        \/ op = "loss" /\ LossKeep(x)
                        \/ op = "replay" /\ (x \notin awaiting' \/ socket # "connected")
                        \/ op \notin {"loss", "failAll", "replay"}
<1>1. CASE SlotReturn
  <2>1. Running("slot") /\ stack' = Caller
    BY <1>1 DEF SlotReturn
  <2> QED BY <2>1, RunningStack
<1>2. CASE LossDone
  <2>1. Running("loss") /\ stack' = Caller /\ Todo = {} /\ pending' = pending
    BY <1>2 DEF LossDone, table
  <2> QED BY <2>1, RunningStack DEF Todo
<1>3. CASE LoopDone
  <2>1. PICK o \in {"failAll", "replay"} : Running(o)
    BY <1>3 DEF LoopDone
  <2>2. /\ stack' = Caller /\ pending' = pending /\ awaiting' = awaiting
        /\ o = "failAll" => Todo = {}
        /\ o = "replay" => Todo \cap awaiting = {} \/ socket # "connected"
    BY <1>3, <2>1 DEF LoopDone, table
  <2> QED BY <2>1, <2>2, RunningStack DEF Todo
<1>4. CASE FramesDone
  <2>1. Running("frames") /\ stack' = Caller
    BY <1>4 DEF FramesDone
  <2> QED BY <2>1, RunningStack
<1>5. ASSUME NEW id \in Request, LossKeep(id)
      PROVE  Goal
  <2>1. Running("loss") /\ stack' = Again(Head(stack), id) /\ id \in awaiting'
    BY <1>5 DEF LossKeep
  <2>2. /\ Has(Again(Head(stack), id), op) <=> Has(stack, op)
        /\ \A x : Owes(Again(Head(stack), id), op, x) => Owes(stack, op, x)
        /\ \A x : Owes(stack, op, x) =>
                     (x = id /\ op = "loss") \/ Owes(Again(Head(stack), id), op, x)
    BY <2>1, AgainStack
  <2> QED BY <1>5, <2>1, <2>2
<1>6. ASSUME NEW id \in Request, LossFail(id) \/ FailAllNext(id)
      PROVE  Goal
  <2>1. PICK o \in {"loss", "failAll"} : Running(o)
    BY <1>6 DEF LossFail, FailAllNext
  <2>2. stack' = <<Slot>> \o Again(Head(stack), id) /\ id \notin pending'
    BY <1>6 DEF LossFail, FailAllNext, Resolve, Erase
  <2>3. Again(Head(stack), id) \in Seq(Frame)
    BY <2>1, RunningTypes, AgainIsStack DEF TypeOK
  <2>4. /\ Has(Again(Head(stack), id), op) <=> Has(stack, op)
        /\ \A x : Owes(Again(Head(stack), id), op, x) => Owes(stack, op, x)
        /\ \A x : Owes(stack, op, x) =>
                     (x = id /\ op = o) \/ Owes(Again(Head(stack), id), op, x)
    BY <2>1, AgainStack
  <2> QED BY <2>1, <2>2, <2>3, <2>4, SlotStack
<1>7. ASSUME NEW id \in Request, ReplayWritten(id)
      PROVE  Goal
  <2>1. Running("replay") /\ stack' = Again(Head(stack), id) /\ id \notin awaiting'
    BY <1>7 DEF ReplayWritten, WriteFrame
  <2>2. /\ Has(Again(Head(stack), id), op) <=> Has(stack, op)
        /\ \A x : Owes(Again(Head(stack), id), op, x) => Owes(stack, op, x)
        /\ \A x : Owes(stack, op, x) =>
                     (x = id /\ op = "replay") \/ Owes(Again(Head(stack), id), op, x)
    BY <2>1, AgainStack
  <2> QED BY <2>1, <2>2
<1>8. ASSUME NEW id \in Request, FailWrite(id)
      PROVE  Goal
  <2>1. Running("failWrite") /\ (stack' = Caller \/ stack' = <<Slot>> \o Caller)
    BY <1>8 DEF FailWrite, Resolve
  <2>2. Caller \in Seq(Frame)
    BY <2>1, RunningTypes DEF TypeOK
  <2>3. /\ Has(stack, op) <=> op = "failWrite" \/ Has(Caller, op)
        /\ \A x : Owes(stack, op, x) <=> (op = "failWrite" /\ x \in Head(stack).ids) \/ Owes(Caller, op, x)
    BY <2>1, RunningStack
  <2>4. /\ Has(<<Slot>> \o Caller, op) <=> Has(Caller, op)
        /\ \A x : Owes(<<Slot>> \o Caller, op, x) <=> Owes(Caller, op, x)
    BY <2>2, SlotStack
  <2> QED BY <2>1, <2>2, <2>3, <2>4
<1>9. ASSUME NEW id \in Request, NextResponse(id)
      PROVE  Goal
  <2> DEFINE f == [Head(stack) EXCEPT !.items = Tail(@)]
  <2>1. /\ Running("frames") /\ Head(stack) \in Frame /\ Caller \in Seq(Frame)
        /\ Head(stack).items # <<>>
    BY <1>9, RunningTypes DEF NextResponse, TypeOK
  <2>2. stack' = <<f>> \o Caller \/ stack' = <<Slot>> \o (<<f>> \o Caller)
    BY <1>9 DEF NextResponse, Resolve
  <2>3. f \in Frame /\ f.op = "frames" /\ f.ids = Head(stack).ids
    <3>1. Head(stack).items \in Seq(Item)
      BY <2>1 DEF Frame
    <3>2. Tail(Head(stack).items) \in Seq(Item)
      BY <2>1, <3>1
    <3> QED BY <2>1, <3>2 DEF Frame, Running
  <2> HIDE DEF f
  <2>4. <<f>> \o Caller \in Seq(Frame)
    BY <2>1, <2>3, PushIsStack
  <2>5. /\ Has(<<f>> \o Caller, op) <=> op = "frames" \/ Has(Caller, op)
        /\ \A x : Owes(<<f>> \o Caller, op, x) <=>
                    (op = "frames" /\ x \in Head(stack).ids) \/ Owes(Caller, op, x)
    BY <2>1, <2>3, PushedStack
  <2>6. /\ Has(stack, op) <=> op = "frames" \/ Has(Caller, op)
        /\ \A x : Owes(stack, op, x) <=> (op = "frames" /\ x \in Head(stack).ids) \/ Owes(Caller, op, x)
    BY <2>1, RunningStack
  <2> DEFINE s == <<f>> \o Caller
  <2>7. /\ Has(<<Slot>> \o s, op) <=> Has(s, op)
        /\ \A x : Owes(<<Slot>> \o s, op, x) <=> Owes(s, op, x)
    BY <2>4, SlotStack
  <2> QED BY <2>1, <2>2, <2>5, <2>6, <2>7
<1> HIDE DEF Goal
<1>10. Goal
  BY <1>1, <1>2, <1>3, <1>4, <1>5, <1>6, <1>7, <1>8, <1>9 DEF LoopStep, Goal
<1> QED BY <1>10 DEF Goal

-----------------------------------------------------------------------------
(* The socket and what is remembered about it.  LinkReported and             *)
(* NoBytesAcrossConnections need two facts that only hold together: a loss   *)
(* counts as handled only while there is no connection, and a close that was *)
(* put off to the end of connected() meets no part of a frame.               *)

SocketInv ==
  /\ reported <=> socket \in {"connected", "closing"}
  /\ lossHandled => socket \in {"unconnected", "connecting"}
  /\ partial => socket = "connected"
  /\ Has(stack, "close") => ~partial
  /\ Has(stack, "loss") => socket = "unconnected"

LEMMA SocketInit == Init => SocketInv
BY EmptyStack DEF Init, SocketInv

\* Losing the socket keeps it, whatever the callers are.
LEMMA DropSocket ==
  ASSUME TypeOK, SocketInv, NEW keys, NEW rest, Drop(keys, rest)
  PROVE  SocketInv'
BY DEF TypeOK, SocketInv, Drop, handleTransportLoss

LEMMA ReadSocket ==
  ASSUME TypeOK, SocketInv, NEW n \in 0..MaxInbox, NEW tail \in BOOLEAN, ReadyRead(n, tail)
  PROVE  SocketInv'
<1> DEFINE f == [op |-> "frames", ids |-> {}, items |-> SubSeq(inbox, 1, n)]
<1>1. /\ socket = "connected" /\ stack = <<>>
      /\ UNCHANGED <<socket, reported, lossHandled>>
  BY DEF ReadyRead, Idle
<1>2. CASE protocolFailure(<<>>)
  <2>1. ASSUME NEW op \in {"close", "loss"} PROVE ~Has(stack', op)
    <3>1. <<>> \in Seq(Frame) /\ op \notin {"failAll", "abort"}
      OBVIOUS
    <3>2. Has(stack', op) <=> Has(<<>>, op)
      BY <1>2, <3>1, ProtocolFailureStack
    <3> QED BY <3>2, EmptyStack
  <2> QED BY <1>1, <1>2, <2>1 DEF SocketInv, protocolFailure
<1>3. CASE partial' = tail /\ stack' = IF n = 0 THEN <<>> ELSE <<f>>
  <2>1. n \in 0..Len(inbox) /\ inbox \in Seq(Item)
    BY DEF ReadyRead, TypeOK
  <2>2. f \in Frame /\ f.op = "frames"
    BY <2>1 DEF Frame, Op
  <2> HIDE DEF f
  <2>3. ASSUME NEW op \in {"close", "loss"} PROVE ~Has(stack', op)
    <3>1. ~Has(<<f>>, op) /\ ~Has(<<>>, op)
      BY <2>2, SingleStack, EmptyStack
    <3> QED BY <1>3, <3>1
  <2> QED BY <1>1, <1>3, <2>3 DEF SocketInv
<1> QED BY <1>2, <1>3 DEF ReadyRead

LEMMA ConnectedSocket ==
  ASSUME TypeOK, SocketInv, Connected
  PROVE  SocketInv'
<1> DEFINE r == Call("replay", awaiting)
           c == Call("close", {})
<1>1. stack = <<>> /\ socket' = "connected" /\ ~partial /\ ~partial' /\ reported' /\ ~lossHandled'
  BY DEF Connected, Idle, SocketInv
<1>2. ~Has(stack', "loss")
  <2>1. /\ r \in Frame /\ r.op = "replay" /\ c \in Frame /\ c.op = "close"
        /\ Slot \in Frame /\ Slot.op = "slot"
    BY CallIsFrame, CallFields, SlotIsFrame DEF Op, Slot, TypeOK
  <2>2. stack' = (IF reported THEN <<>> ELSE <<Slot>>) \o <<r>> \o (IF closePending THEN <<c>> ELSE <<>>)
    BY DEF Connected
  <2> HIDE DEF r, c
  <2>3. \A i \in DOMAIN stack' : stack'[i].op \in {"slot", "replay", "close"}
    BY <2>1, <2>2
  <2> QED BY <2>3 DEF Has
<1> QED BY <1>1, <1>2 DEF SocketInv

LEMMA SocketNext == TypeOK /\ SocketInv /\ [Next]_vars => SocketInv'
<1> SUFFICES ASSUME TypeOK, SocketInv, [Next]_vars PROVE SocketInv'
  OBVIOUS
<1> USE DEF SocketInv
<1>1. ASSUME UNCHANGED <<socket, reported, lossHandled, partial, stack>>
      PROVE  SocketInv'
  BY <1>1
<1>2. CASE \/ UNCHANGED vars
           \/ \E id \in Request : SendRefused(id) \/ SendWritten(id) \/ cancelRequest(id) \/ Respond(id)
           \/ \E item \in {"badFrame", "badEnvelope"} : Garble(item)
  BY <1>1, <1>2 DEF SendRefused, SendWritten, cancelRequest, Respond, Garble, vars, link
<1>3. CASE connectToServer \/ ReconnectTimeout
  <2>1. stack = <<>> /\ UNCHANGED <<reported, partial, stack>> /\ (lossHandled' => lossHandled)
    BY <1>3 DEF connectToServer, ReconnectTimeout, Idle
  <2>2. socket' = socket \/ (socket = "unconnected" /\ socket' = "connecting")
    BY <1>3 DEF connectToServer, ReconnectTimeout
  <2> QED BY <2>1, <2>2, EmptyStack
<1>4. ASSUME NEW id \in Request, RequestTimeout(id) \/ DeferredFailure(id) PROVE SocketInv'
  <2>1. stack = <<>> /\ UNCHANGED <<socket, reported, lossHandled, partial>>
    BY <1>4 DEF RequestTimeout, DeferredFailure, Idle, link
  <2>2. stack' = <<Slot>> \o <<>> /\ <<>> \in Seq(Frame)
    BY <1>4, SlotIsFrame DEF RequestTimeout, DeferredFailure, Resolve
  <2>3. ~Has(stack', "close") /\ ~Has(stack', "loss")
    BY <2>2, SlotStack, EmptyStack
  <2> QED BY <2>1, <2>3
<1>5. CASE LoopStep
  <2>1. UNCHANGED <<socket, reported, lossHandled, partial>>
    BY <1>5 DEF LoopStep, SlotReturn, LossDone, LoopDone, FramesDone, LossKeep, LossFail, FailAllNext,
                ReplayWritten, FailWrite, NextResponse, link
  <2>2. /\ Has(stack', "close") => Has(stack, "close")
        /\ Has(stack', "loss") => Has(stack, "loss")
    BY <1>5, LoopStack DEF Op
  <2> QED BY <2>1, <2>2
<1>6. CASE NextMalformed
  <2>1. /\ Running("frames") /\ protocolFailure(Caller) /\ ~partial'
        /\ UNCHANGED <<socket, reported, lossHandled>>
    BY <1>6 DEF NextMalformed, protocolFailure
  <2>2. Caller \in Seq(Frame)
    BY <2>1, RunningTypes DEF TypeOK
  <2>3. Has(stack', "loss") => Has(Caller, "loss")
    BY <2>1, <2>2, ProtocolFailureStack
  <2>4. Has(Caller, "loss") => Has(stack, "loss")
    BY <2>1, RunningStack
  <2> QED BY <2>1, <2>3, <2>4
<1>7. CASE ConnectFailed \/ Disconnected \/ \E id \in Request : SendShort(id) \/ ReplayShort(id)
  <2> HIDE DEF SocketInv
  <2>1. PICK keys, rest : Drop(keys, rest)
    BY <1>7 DEF ConnectFailed, Disconnected, SendShort, ReplayShort
  <2> QED BY <2>1, DropSocket
<1>8. CASE disconnectFromServer
  <2>1. stack = <<>>
    BY <1>8 DEF disconnectFromServer, Idle
  <2>2. CASE socket \in {"unconnected", "connecting"}
    <3>1. UNCHANGED <<socket, lossHandled, reported>> /\ ~partial'
      BY <1>8, <2>2 DEF disconnectFromServer
    <3>2. socket = "connecting" => stack' = stack
      BY <1>8, <2>2 DEF disconnectFromServer
    <3> QED BY <2>1, <2>2, <3>1, <3>2, EmptyStack
  <2>3. CASE Drop(pending, <<>>)
    BY <2>3, DropSocket
  <2>4. CASE socket \in {"connected", "closing"} /\ ~Drop(pending, <<>>)
    BY <1>8, <2>1, <2>4, EmptyStack DEF disconnectFromServer
  <2> QED BY <1>8, <2>2, <2>3, <2>4 DEF disconnectFromServer
<1>9. CASE Abort \/ DeferredClose
  <2>1. CASE Drop(pending, Caller)
    BY <2>1, DropSocket
  <2>2. CASE ~Drop(pending, Caller)
    <3>1. PICK o \in {"abort", "close"} : Running(o) /\ (Abort => o = "abort") /\ (DeferredClose => o = "close")
      BY <1>9 DEF Abort, DeferredClose, Running
    <3>2. /\ stack' = Caller /\ UNCHANGED <<lossHandled, reported, partial>>
          /\ socket' = socket \/ (o = "close" /\ socket = "connected" /\ socket' = "closing")
      BY <1>9, <2>2, <3>1 DEF Abort, DeferredClose, CloseGently
    <3>3. /\ Has(Caller, "close") => Has(stack, "close")
          /\ Has(Caller, "loss") => Has(stack, "loss")
          /\ o = "close" => Has(stack, "close")
      BY <3>1, RunningStack
    <3> QED BY <3>1, <3>2, <3>3
  <2> QED BY <2>1, <2>2
<1>10. ASSUME NEW n \in 0..MaxInbox, NEW tail \in BOOLEAN, ReadyRead(n, tail) PROVE SocketInv'
  BY <1>10, ReadSocket
<1>11. CASE Connected
  BY <1>11, ConnectedSocket
<1> HIDE DEF SocketInv
<1> QED
  BY <1>2, <1>3, <1>4, <1>5, <1>6, <1>7, <1>8, <1>9, <1>10, <1>11
  DEF Next, Application, Handlers, Timers, Network, Peer, LoopStep

LEMMA SocketAlways == Spec => []SocketInv
BY SocketInit, SocketNext, TypeCorrect, PTL DEF Spec

\* What the application was last told about the connection is what the socket
\* says, for any nesting of callbacks.
THEOREM LinkIsReported == Spec => []LinkReported
<1>1. SocketInv => LinkReported
  BY DEF SocketInv, LinkReported
<1> QED BY <1>1, SocketAlways, PTL

\* The decoder never joins bytes of two connections.
THEOREM BytesStayWithTheirConnection == Spec => []NoBytesAcrossConnections
<1>1. SocketInv => NoBytesAcrossConnections
  BY DEF SocketInv, NoBytesAcrossConnections
<1> QED BY <1>1, SocketAlways, PTL

-----------------------------------------------------------------------------
(* The table.  Without a connection a request waits for its replay or is     *)
(* named by the loop that will deal with it; on a connection it has its      *)
(* deadline, or the replay loop will still come to it.                       *)

TableInv ==
  /\ socket \in {"unconnected", "connecting"} =>
       \A id \in pending : id \in awaiting \/ Owes(stack, "loss", id) \/ Owes(stack, "failAll", id)
  /\ socket = "connected" =>
       \A id \in pending : \/ id \in timing \cap written
                           \/ id \in awaiting /\ Owes(stack, "replay", id)

LEMMA TableInit == Init => TableInv
BY DEF Init, TableInv

\* The loss of a connection puts the whole table before its loop.
LEMMA DropTable ==
  ASSUME TypeOK, NEW rest \in Seq(Frame), NEW keys \in SUBSET Request,
         ~lossHandled, Drop(keys, rest), pending' \subseteq keys
  PROVE  TableInv'
<1>1. \A id \in keys : Owes(stack', "loss", id)
  BY LossStack DEF Drop
<1> QED BY <1>1 DEF TableInv, Drop

\* Nothing else is on the stack when an event is handled.
LEMMA IdleTable ==
  ASSUME TableInv, stack = <<>>
  PROVE  /\ socket \in {"unconnected", "connecting"} => pending \subseteq awaiting
         /\ socket = "connected" => pending \subseteq timing \cap written
BY EmptyStack DEF TableInv

LEMMA ConnectedTable ==
  ASSUME TypeOK, TableInv, Connected
  PROVE  TableInv'
<1> DEFINE r == Call("replay", awaiting)
           c == Call("close", {})
           first == IF reported THEN <<>> ELSE <<Slot>>
           last == IF closePending THEN <<c>> ELSE <<>>
<1>1. pending \subseteq awaiting /\ socket' = "connected" /\ UNCHANGED table
  BY IdleTable DEF Connected, Idle
<1>2. r \in Frame /\ r.op = "replay" /\ r.ids = awaiting /\ c \in Frame /\ Slot \in Frame
  BY CallIsFrame, CallFields, SlotIsFrame DEF Op, TypeOK
<1>3. stack' = first \o <<r>> \o last
  BY DEF Connected
<1> HIDE DEF r, c
<1>4. first \in Seq(Frame) /\ last \in Seq(Frame)
  BY <1>2
<1> HIDE DEF first, last
<1>5. /\ Len(first) + 1 \in DOMAIN (first \o <<r>> \o last)
      /\ (first \o <<r>> \o last)[Len(first) + 1] = r
  BY <1>2, <1>4
<1>6. \A id \in awaiting : Owes(stack', "replay", id)
  BY <1>2, <1>3, <1>5 DEF Owes
<1> QED BY <1>1, <1>6 DEF TableInv, table

LEMMA LoopTable ==
  ASSUME TypeOK, SocketInv, TableInv, LoopStep
  PROVE  TableInv'
<1>1. socket' = socket
  BY DEF LoopStep, SlotReturn, LossDone, LoopDone, FramesDone, LossKeep, LossFail, FailAllNext,
         ReplayWritten, FailWrite, NextResponse, link
<1>2. pending' \subseteq pending
  BY DEF LoopStep, SlotReturn, LossDone, LoopDone, FramesDone, LossKeep, LossFail, FailAllNext,
         ReplayWritten, FailWrite, NextResponse, Resolve, Erase, table
<1>3. socket # "connected" => awaiting \cap pending' \subseteq awaiting'
  BY DEF LoopStep, SlotReturn, LossDone, LoopDone, FramesDone, LossKeep, LossFail, FailAllNext,
         ReplayWritten, FailWrite, NextResponse, Resolve, Erase, table
<1>4. ASSUME socket = "connected"
      PROVE  /\ timing \cap written \cap pending' \subseteq timing' \cap written'
             /\ awaiting \cap pending' \subseteq awaiting' \cup (timing' \cap written')
  <2>1. ~Running("loss")
    BY <1>4, RunningStack DEF SocketInv
  <2> QED BY <2>1 DEF LoopStep, SlotReturn, LossDone, LoopDone, FramesDone, LossKeep, LossFail,
                      FailAllNext, ReplayWritten, FailWrite, NextResponse, Resolve, Erase,
                      WriteFrame, table
<1>5. ASSUME socket \in {"unconnected", "connecting"}, NEW x \in pending'
      PROVE  x \in awaiting' \/ Owes(stack', "loss", x) \/ Owes(stack', "failAll", x)
  <2>1. x \in awaiting \/ Owes(stack, "loss", x) \/ Owes(stack, "failAll", x)
    BY <1>2, <1>5 DEF TableInv
  <2>2. CASE x \in awaiting
    BY <2>2, <1>3, <1>5
  <2>3. CASE Owes(stack, "loss", x)
    BY <2>3, LoopStack DEF Op, LossKeep
  <2>4. CASE Owes(stack, "failAll", x)
    BY <2>4, LoopStack DEF Op
  <2> QED BY <2>1, <2>2, <2>3, <2>4
<1>6. ASSUME socket = "connected", NEW x \in pending'
      PROVE  \/ x \in timing' \cap written'
             \/ x \in awaiting' /\ Owes(stack', "replay", x)
  <2>1. \/ x \in timing \cap written
        \/ x \in awaiting /\ Owes(stack, "replay", x)
    BY <1>2, <1>6 DEF TableInv
  <2>2. Owes(stack, "replay", x) => Owes(stack', "replay", x) \/ x \notin awaiting'
    BY <1>6, LoopStack DEF Op
  <2> QED BY <2>1, <2>2, <1>4, <1>6
<1> QED BY <1>1, <1>5, <1>6 DEF TableInv

LEMMA TableNext == TypeOK /\ WriteInv /\ SocketInv /\ TableInv /\ [Next]_vars => TableInv'
<1> SUFFICES ASSUME TypeOK, WriteInv, SocketInv, TableInv, [Next]_vars PROVE TableInv'
  OBVIOUS
<1>a. <<>> \in Seq(Frame) /\ stack \in Seq(Frame) /\ pending \in SUBSET Request
  BY DEF TypeOK
<1>b. socket \in {"connected", "closing"} => ~lossHandled
  BY DEF SocketInv
<1>1. CASE \/ UNCHANGED vars
           \/ \E id \in Request : SendRefused(id) \/ cancelRequest(id) \/ Respond(id)
           \/ \E item \in {"badFrame", "badEnvelope"} : Garble(item)
  BY <1>1 DEF SendRefused, cancelRequest, Erase, Respond, Garble, vars, link, table, TableInv
<1>2. ASSUME NEW id \in Request, SendWritten(id) PROVE TableInv'
  <2>1. id \notin pending /\ socket = "connected" /\ UNCHANGED <<socket, stack>>
    BY <1>2 DEF SendWritten, WriteInv, link
  <2>2. /\ pending' = pending \cup {id} /\ written' = written \cup {id}
        /\ timing' = timing \cup {id} /\ awaiting' = awaiting \ {id}
    BY <1>2 DEF SendWritten, WriteFrame
  <2>3. \A x \in pending' : \/ x \in timing' \cap written'
                            \/ x \in awaiting' /\ Owes(stack, "replay", x)
    BY <2>1, <2>2 DEF TableInv
  <2> QED BY <2>1, <2>3 DEF TableInv
<1>3. CASE connectToServer \/ ReconnectTimeout
  <2>1. UNCHANGED <<table, stack>>
    BY <1>3 DEF connectToServer, ReconnectTimeout
  <2>2. socket' = socket \/ (socket = "unconnected" /\ socket' = "connecting")
    BY <1>3 DEF connectToServer, ReconnectTimeout
  <2> QED BY <2>1, <2>2 DEF TableInv, table
<1>4. ASSUME NEW id \in Request, RequestTimeout(id) \/ DeferredFailure(id) PROVE TableInv'
  <2>1. stack = <<>> /\ UNCHANGED socket /\ (Erase(id) \/ UNCHANGED table)
    BY <1>4 DEF RequestTimeout, DeferredFailure, Resolve, Idle, link
  <2>2. /\ pending' \subseteq pending /\ awaiting \cap pending' \subseteq awaiting'
        /\ timing \cap written \cap pending' \subseteq timing' \cap written'
    BY <2>1 DEF Erase, table
  <2> QED BY <2>1, <2>2, IdleTable DEF TableInv
<1>5. CASE LoopStep
  BY <1>5, LoopTable
<1>6. CASE NextMalformed
  <2>1. Running("frames") /\ protocolFailure(Caller) /\ UNCHANGED <<socket, table>>
    BY <1>6 DEF NextMalformed
  <2>2. Caller \in Seq(Frame)
    BY <2>1, RunningTypes DEF TypeOK
  <2>3. \A id : Owes(stack', "failAll", id) <=> id \in pending \/ Owes(Caller, "failAll", id)
    BY <2>1, <2>2, ProtocolFailureStack
  <2>4. \A id : Owes(stack', "replay", id) <=> Owes(Caller, "replay", id)
    BY <2>1, <2>2, ProtocolFailureStack
  <2>5. \A id : Owes(stack, "replay", id) <=> Owes(Caller, "replay", id)
    BY <2>1, RunningStack
  <2> QED BY <2>1, <2>3, <2>4, <2>5 DEF TableInv, table
<1>7. ASSUME NEW n \in 0..MaxInbox, NEW tail \in BOOLEAN, ReadyRead(n, tail) PROVE TableInv'
  <2>1. stack = <<>> /\ UNCHANGED <<socket, table>>
    BY <1>7 DEF ReadyRead, Idle
  <2>2. /\ socket \in {"unconnected", "connecting"} => pending \subseteq awaiting
        /\ socket = "connected" => pending \subseteq timing \cap written
    BY <2>1, IdleTable
  <2> QED BY <2>1, <2>2 DEF TableInv, table
<1>8. CASE Connected
  BY <1>8, ConnectedTable
<1>9. CASE ConnectFailed
  <2>1. Drop(pending, <<>>) /\ socket = "connecting" /\ stack = <<>> /\ UNCHANGED table
    BY <1>9 DEF ConnectFailed, Idle
  <2>2. pending \subseteq awaiting
    BY <2>1, IdleTable
  <2> QED BY <2>1, <2>2 DEF Drop, TableInv, table
<1>10. CASE Disconnected
  <2>1. Drop(pending, <<>>) /\ ~lossHandled /\ UNCHANGED table
    BY <1>10, <1>b DEF Disconnected
  <2> QED BY <2>1, <1>a, DropTable DEF table
<1>11. ASSUME NEW id \in Request, SendShort(id) PROVE TableInv'
  <2>1. /\ ~lossHandled /\ pending' = pending \cup {id}
        /\ Drop(pending \cup {id}, <<Call("failWrite", {id})>> \o stack)
    BY <1>11, <1>b DEF SendShort
  <2>2. Call("failWrite", {id}) \in Frame
    BY CallIsFrame DEF Op
  <2>3. <<Call("failWrite", {id})>> \o stack \in Seq(Frame)
    BY <1>a, <2>2, PushIsStack
  <2>4. pending \cup {id} \in SUBSET Request
    BY <1>a
  <2> QED BY <2>1, <2>3, <2>4, DropTable
<1>12. ASSUME NEW id \in Request, ReplayShort(id) PROVE TableInv'
  <2>1. /\ ~lossHandled /\ pending' = pending
        /\ Drop(pending, <<Call("failWrite", {id})>> \o Again(Head(stack), id))
    BY <1>12, <1>b DEF ReplayShort, table
  <2>2. Call("failWrite", {id}) \in Frame
    BY CallIsFrame DEF Op
  <2>3. Again(Head(stack), id) \in Seq(Frame)
    BY <1>12, RunningTypes, AgainIsStack DEF ReplayShort, TypeOK
  <2>4. <<Call("failWrite", {id})>> \o Again(Head(stack), id) \in Seq(Frame)
    BY <2>2, <2>3, PushIsStack
  <2> QED BY <1>a, <2>1, <2>4, DropTable
<1>13. CASE disconnectFromServer
  <2>1. stack = <<>> /\ UNCHANGED table
    BY <1>13 DEF disconnectFromServer, Idle
  <2>2. CASE socket \in {"unconnected", "connecting"}
    <3>1. socket' = socket /\ pending \subseteq awaiting
      BY <1>13, <2>1, <2>2, IdleTable DEF disconnectFromServer
    <3> QED BY <2>1, <2>2, <3>1 DEF TableInv, table
  <2>3. CASE socket \in {"connected", "closing"} /\ Drop(pending, <<>>)
    BY <2>1, <2>3, <1>a, <1>b, DropTable DEF table
  <2>4. CASE socket' = "closing"
    BY <2>4 DEF TableInv
  <2> QED BY <1>13, <2>2, <2>3, <2>4 DEF disconnectFromServer
<1>14. CASE Abort \/ DeferredClose
  <2>1. PICK o \in {"abort", "close"} : Running(o)
    BY <1>14 DEF Abort, DeferredClose
  <2>2. Caller \in Seq(Frame) /\ UNCHANGED table
    BY <1>14, <2>1, RunningTypes DEF Abort, DeferredClose, TypeOK
  <2>3. CASE socket = "connected" /\ Drop(pending, Caller)
    BY <2>2, <2>3, <1>a, <1>b, DropTable DEF table
  <2>4. CASE socket' = "closing"
    BY <2>4 DEF TableInv
  <2>5. CASE socket = "unconnected" /\ stack' = Caller /\ UNCHANGED socket
    <3>1. /\ \A id : Owes(stack, "loss", id) <=> Owes(Caller, "loss", id)
          /\ \A id : Owes(stack, "failAll", id) <=> Owes(Caller, "failAll", id)
      BY <2>1, RunningStack
    <3> QED BY <2>2, <2>5, <3>1 DEF TableInv, table
  <2> QED BY <1>14, <2>3, <2>4, <2>5 DEF Abort, DeferredClose, CloseGently
<1> QED
  BY <1>1, <1>2, <1>3, <1>4, <1>5, <1>6, <1>7, <1>8, <1>9, <1>10, <1>11, <1>12, <1>13, <1>14
  DEF Next, Application, Handlers, Timers, Network, Peer, LoopStep

LEMMA TableAlways == Spec => [](WriteInv /\ TableInv)
<1>1. Spec => []WriteInv
  BY WriteInit, WriteNext, TypeCorrect, PTL DEF Spec
<1> QED BY <1>1, TableInit, TableNext, SocketAlways, TypeCorrect, PTL DEF Spec

\* Once a loss is handled only safe reads are left, and they wait for their
\* replay: no later connection carries anything else.
THEOREM ReadsAloneSurviveLoss == Spec => []OnlyReadsSurviveLoss
<1>1. WriteInv /\ TableInv => OnlyReadsSurviveLoss
  BY EmptyStack DEF WriteInv, TableInv, OnlyReadsSurviveLoss, Idle
<1> QED BY <1>1, TableAlways, PTL

\* Between handlers every request on a connection is written and has its
\* deadline: the replay loop leaves none behind, whatever its slots do.
THEOREM DeadlinesRun == Spec => []ConnectedHasDeadlines
<1>1. TableInv => ConnectedHasDeadlines
  BY EmptyStack DEF TableInv, ConnectedHasDeadlines, Idle
<1> QED BY <1>1, TableAlways, PTL

-----------------------------------------------------------------------------
(* Reconnecting.  Both properties need connectToServer not to be called      *)
(* while a loss counts as handled: the finding of tcp_client_retry is what   *)
(* happens otherwise.                                                        *)

ReconnectInv ==
  /\ lossHandled => socket = "unconnected"
  /\ lossHandled /\ ~manual => armed \/ Has(stack, "loss")

LEMMA ReconnectInit == Init => ReconnectInv
BY DEF Init, ReconnectInv

\* A handled loss has its loop on the stack, or was handled before.
LEMMA DropReconnect ==
  ASSUME TypeOK, ReconnectInv, NEW rest \in Seq(Frame), NEW keys \in SUBSET Request,
         socket # "unconnected", Drop(keys, rest)
  PROVE  ReconnectInv'
<1>1. ~lossHandled
  BY DEF ReconnectInv
<1>2. Has(stack', "loss")
  BY <1>1, LossStack DEF Drop
<1> QED BY <1>2 DEF ReconnectInv, Drop

\* The loop that ends has armed the timer; no other step takes it off the stack.
LEMMA LoopReconnect ==
  ASSUME TypeOK, ReconnectInv, LoopStep
  PROVE  ReconnectInv'
<1>1. UNCHANGED <<socket, manual, lossHandled>> /\ (armed => armed')
  BY DEF LoopStep, SlotReturn, LossDone, LoopDone, FramesDone, LossKeep, LossFail, FailAllNext,
         ReplayWritten, FailWrite, NextResponse, link
<1>2. CASE LossDone
  <2>1. manual \/ armed'
    BY <1>2 DEF LossDone
  <2> QED BY <1>1, <2>1 DEF ReconnectInv
<1>3. CASE ~LossDone
  <2>1. CASE Running("loss")
    <3>1. /\ ~Running("slot") /\ ~Running("failAll") /\ ~Running("replay")
          /\ ~Running("frames") /\ ~Running("failWrite")
      BY <2>1 DEF Running
    <3>2. PICK id \in Request : LossKeep(id) \/ LossFail(id)
      BY <1>3, <3>1 DEF LoopStep, SlotReturn, LoopDone, FramesDone, FailAllNext, ReplayWritten,
                        FailWrite, NextResponse
    <3>3. Again(Head(stack), id) \in Seq(Frame)
      BY <2>1, RunningTypes, AgainIsStack DEF TypeOK
    <3>4. Has(stack, "loss")
      BY <2>1, RunningStack
    <3>5. Has(Again(Head(stack), id), "loss")
      BY <2>1, <3>4, AgainStack
    <3>6. Has(stack', "loss")
      BY <3>2, <3>3, <3>5, SlotStack DEF LossKeep, LossFail, Resolve
    <3> QED BY <1>1, <3>6 DEF ReconnectInv
  <2>2. CASE ~Running("loss")
    <3>1. Has(stack, "loss") => Has(stack', "loss")
      BY <2>2, LoopStack DEF Op
    <3> QED BY <1>1, <3>1 DEF ReconnectInv
  <2> QED BY <2>1, <2>2
<1> QED BY <1>2, <1>3

LEMMA ReconnectNext ==
  ~RetryAfterLoss /\ TypeOK /\ ReconnectInv /\ [Next]_vars => ReconnectInv'
<1> SUFFICES ASSUME ~RetryAfterLoss, TypeOK, ReconnectInv, [Next]_vars PROVE ReconnectInv'
  OBVIOUS
<1>a. <<>> \in Seq(Frame) /\ stack \in Seq(Frame) /\ pending \in SUBSET Request
  BY DEF TypeOK
<1>1. CASE \/ UNCHANGED vars
           \/ \E id \in Request : SendRefused(id) \/ SendWritten(id) \/ cancelRequest(id) \/ Respond(id)
           \/ \E item \in {"badFrame", "badEnvelope"} : Garble(item)
  <2>1. UNCHANGED <<socket, manual, armed, lossHandled, stack>>
    BY <1>1 DEF SendRefused, SendWritten, cancelRequest, Respond, Garble, vars, link
  <2> QED BY <2>1 DEF ReconnectInv
<1>2. CASE connectToServer \/ Connected
  BY <1>2 DEF connectToServer, Connected, ReconnectInv
<1>3. CASE ReconnectTimeout
  BY <1>3 DEF ReconnectTimeout, ReconnectInv
<1>4. ASSUME NEW id \in Request, RequestTimeout(id) \/ DeferredFailure(id) PROVE ReconnectInv'
  <2>1. UNCHANGED <<socket, manual, armed, lossHandled>> /\ stack = <<>>
    BY <1>4 DEF RequestTimeout, DeferredFailure, Idle, link
  <2> QED BY <2>1, EmptyStack DEF ReconnectInv
<1>5. CASE LoopStep
  BY <1>5, LoopReconnect
<1>6. CASE NextMalformed
  <2>1. Running("frames") /\ protocolFailure(Caller) /\ UNCHANGED <<socket, manual, armed, lossHandled>>
    BY <1>6 DEF NextMalformed
  <2>2. Caller \in Seq(Frame)
    BY <2>1, RunningTypes DEF TypeOK
  <2>3. Has(stack, "loss") => Has(Caller, "loss")
    BY <2>1, RunningStack
  <2>4. Has(Caller, "loss") => Has(stack', "loss")
    BY <2>1, <2>2, ProtocolFailureStack
  <2> QED BY <2>1, <2>3, <2>4 DEF ReconnectInv
<1>7. ASSUME NEW n \in 0..MaxInbox, NEW tail \in BOOLEAN, ReadyRead(n, tail) PROVE ReconnectInv'
  BY <1>7 DEF ReadyRead, ReconnectInv
<1>8. CASE ConnectFailed \/ Disconnected
  BY <1>8, <1>a, DropReconnect DEF ConnectFailed, Disconnected
<1>9. ASSUME NEW id \in Request, SendShort(id) PROVE ReconnectInv'
  <2> DEFINE rest == <<Call("failWrite", {id})>> \o stack
  <2>1. rest \in Seq(Frame)
    BY <1>a, CallIsFrame, PushIsStack DEF Op
  <2> HIDE DEF rest
  <2>2. Drop(pending \cup {id}, rest) /\ socket = "connected" /\ pending \cup {id} \in SUBSET Request
    BY <1>9, <1>a DEF SendShort, rest
  <2> QED BY <2>1, <2>2, DropReconnect
<1>10. ASSUME NEW id \in Request, ReplayShort(id) PROVE ReconnectInv'
  <2> DEFINE rest == <<Call("failWrite", {id})>> \o Again(Head(stack), id)
  <2>1. Again(Head(stack), id) \in Seq(Frame)
    BY <1>10, RunningTypes, AgainIsStack DEF ReplayShort, TypeOK
  <2>2. rest \in Seq(Frame)
    BY <2>1, CallIsFrame, PushIsStack DEF Op
  <2> HIDE DEF rest
  <2>3. Drop(pending, rest) /\ socket = "connected"
    BY <1>10 DEF ReplayShort, rest
  <2> QED BY <1>a, <2>2, <2>3, DropReconnect
<1>11. CASE disconnectFromServer
  <2>1. manual'
    BY <1>11 DEF disconnectFromServer
  <2>2. CASE socket = "unconnected" \/ socket' = socket
    <3>1. lossHandled' => socket' = "unconnected"
      BY <1>11, <2>2 DEF disconnectFromServer, ReconnectInv, Drop
    <3> QED BY <2>1, <3>1 DEF ReconnectInv
  <2>3. CASE socket # "unconnected" /\ Drop(pending, <<>>)
    BY <1>a, <2>3, DropReconnect
  <2>4. CASE socket # "unconnected" /\ UNCHANGED lossHandled
    BY <2>1, <2>4 DEF ReconnectInv
  <2> QED BY <1>11, <2>2, <2>3, <2>4 DEF disconnectFromServer
<1>12. CASE Abort \/ DeferredClose
  <2>1. PICK o \in {"abort", "close"} : Running(o)
    BY <1>12 DEF Abort, DeferredClose
  <2>2. Caller \in Seq(Frame) /\ UNCHANGED <<armed, manual>>
    BY <1>12, <2>1, RunningTypes DEF Abort, DeferredClose, TypeOK
  <2>3. CASE socket = "connected" /\ Drop(pending, Caller)
    BY <1>a, <2>2, <2>3, DropReconnect
  <2>4. CASE stack' = Caller /\ UNCHANGED lossHandled /\ (socket' = socket \/ socket = "connected")
    <3>1. Has(stack, "loss") <=> Has(Caller, "loss")
      BY <2>1, RunningStack
    <3> QED BY <2>2, <2>4, <3>1 DEF ReconnectInv
  <2> QED BY <1>12, <2>3, <2>4 DEF Abort, DeferredClose, CloseGently
<1> QED
  BY <1>1, <1>2, <1>3, <1>4, <1>5, <1>6, <1>7, <1>8, <1>9, <1>10, <1>11, <1>12
  DEF Next, Application, Handlers, Timers, Network, Peer, LoopStep

\* A connection the user did not close is being re-established, provided that
\* connectToServer is not called between a loss and the reconnect timer.
THEOREM ReconnectsUnlessManual == ~RetryAfterLoss /\ Spec => []ReconnectUnderWay
<1>1. ReconnectInv => ReconnectUnderWay
  BY EmptyStack DEF ReconnectInv, ReconnectUnderWay, Idle
<1>2. CASE ~RetryAfterLoss
  BY <1>1, <1>2, ReconnectInit, ReconnectNext, TypeCorrect, PTL DEF Spec
<1> QED BY <1>2

\* What is left of the table after a close the user asked for is named by a
\* loop that will fail it.
ManualInv ==
  manual =>
    /\ ~armed
    /\ socket = "connecting" => closePending
    /\ socket = "unconnected" =>
         \A id \in pending : Owes(stack, "loss", id) \/ Owes(stack, "failAll", id)

LEMMA ManualInit == Init => ManualInv
BY DEF Init, ManualInv

LEMMA DropManual ==
  ASSUME TypeOK, ReconnectInv, ManualInv,
         NEW rest \in Seq(Frame), NEW keys \in SUBSET Request,
         socket # "unconnected", Drop(keys, rest), pending' \subseteq keys,
         ~armed', manual' \in BOOLEAN
  PROVE  ManualInv'
<1>1. ~lossHandled /\ socket' = "unconnected"
  BY DEF ReconnectInv, Drop
<1>2. \A id \in keys : Owes(stack', "loss", id)
  BY <1>1, LossStack DEF Drop
<1> QED BY <1>1, <1>2 DEF ManualInv

LEMMA LoopManual ==
  ASSUME TypeOK, ManualInv, LoopStep
  PROVE  ManualInv'
<1>1. UNCHANGED <<socket, manual, closePending>> /\ (manual => (armed' => armed))
  BY DEF LoopStep, SlotReturn, LossDone, LoopDone, FramesDone, LossKeep, LossFail, FailAllNext,
         ReplayWritten, FailWrite, NextResponse, link
<1>2. ASSUME manual, socket = "unconnected", NEW id \in pending'
      PROVE  Owes(stack', "loss", id) \/ Owes(stack', "failAll", id)
  <2>1. ~LossKeep(id)
    BY <1>2 DEF LossKeep, Replayable
  <2>2. id \in pending
    BY <1>2 DEF LoopStep, SlotReturn, LossDone, LoopDone, FramesDone, LossKeep, LossFail, FailAllNext,
                ReplayWritten, FailWrite, NextResponse, Resolve, Erase, table
  <2>3. Owes(stack, "loss", id) \/ Owes(stack, "failAll", id)
    BY <1>2, <2>2 DEF ManualInv
  <2>4. ASSUME NEW op \in {"loss", "failAll"}, Owes(stack, op, id)
        PROVE  Owes(stack', op, id)
    BY <2>1, <2>4, LoopStack DEF Op
  <2> QED BY <2>3, <2>4
<1> QED BY <1>1, <1>2 DEF ManualInv

LEMMA ManualNext ==
  ~RetryAfterLoss /\ TypeOK /\ WriteInv /\ ReconnectInv /\ ManualInv /\ [Next]_vars => ManualInv'
<1> SUFFICES ASSUME ~RetryAfterLoss, TypeOK, WriteInv, ReconnectInv, ManualInv, [Next]_vars
             PROVE  ManualInv'
  OBVIOUS
<1>a. <<>> \in Seq(Frame) /\ stack \in Seq(Frame) /\ pending \in SUBSET Request
      /\ armed \in BOOLEAN /\ manual \in BOOLEAN
  BY DEF TypeOK
<1>1. CASE \/ UNCHANGED vars
           \/ \E id \in Request : SendRefused(id) \/ cancelRequest(id) \/ Respond(id)
           \/ \E item \in {"badFrame", "badEnvelope"} : Garble(item)
  <2>1. UNCHANGED <<socket, closePending, manual, armed, stack>> /\ pending' \subseteq pending
    BY <1>1 DEF SendRefused, cancelRequest, Erase, Respond, Garble, vars, link, table
  <2> QED BY <2>1 DEF ManualInv
<1>2. ASSUME NEW id \in Request, SendWritten(id) PROVE ManualInv'
  <2>1. UNCHANGED <<socket, closePending, manual, armed>> /\ socket = "connected"
    BY <1>2 DEF SendWritten, link
  <2> QED BY <2>1 DEF ManualInv
<1>3. CASE connectToServer
  BY <1>3 DEF connectToServer, ManualInv
<1>4. CASE ReconnectTimeout
  <2>1. ~manual /\ UNCHANGED manual
    BY <1>4 DEF ReconnectTimeout, ManualInv
  <2> QED BY <2>1 DEF ManualInv
<1>5. CASE Connected
  <2>1. UNCHANGED <<armed, manual>> /\ socket' = "connected"
    BY <1>5 DEF Connected
  <2> QED BY <2>1 DEF ManualInv
<1>6. ASSUME NEW id \in Request, RequestTimeout(id) \/ DeferredFailure(id) PROVE ManualInv'
  <2>1. /\ UNCHANGED <<socket, closePending, manual, armed>> /\ stack = <<>>
        /\ pending' \subseteq pending
    BY <1>6 DEF RequestTimeout, DeferredFailure, Resolve, Erase, Idle, link, table
  <2> QED BY <2>1, EmptyStack DEF ManualInv
<1>7. CASE LoopStep
  BY <1>7, LoopManual
<1>8. CASE NextMalformed
  <2>1. /\ Running("frames") /\ protocolFailure(Caller)
        /\ UNCHANGED <<socket, closePending, manual, armed, pending>>
    BY <1>8 DEF NextMalformed, table
  <2>2. Caller \in Seq(Frame)
    BY <2>1, RunningTypes DEF TypeOK
  <2>3. \A id \in pending : Owes(stack', "failAll", id)
    BY <2>1, <2>2, ProtocolFailureStack
  <2> QED BY <2>1, <2>3 DEF ManualInv
<1>9. ASSUME NEW n \in 0..MaxInbox, NEW tail \in BOOLEAN, ReadyRead(n, tail) PROVE ManualInv'
  BY <1>9 DEF ReadyRead, ManualInv
<1>10. CASE ConnectFailed \/ Disconnected
  <2>1. /\ socket # "unconnected" /\ Drop(pending, <<>>) /\ pending' = pending
        /\ armed' = armed /\ manual' = manual
    BY <1>10 DEF ConnectFailed, Disconnected, table
  <2>2. CASE manual
    BY <1>a, <2>1, <2>2, DropManual DEF ManualInv
  <2>3. CASE ~manual
    BY <2>1, <2>3 DEF ManualInv
  <2> QED BY <2>2, <2>3
<1>11. ASSUME NEW id \in Request, SendShort(id) PROVE ManualInv'
  <2> DEFINE rest == <<Call("failWrite", {id})>> \o stack
  <2>1. rest \in Seq(Frame)
    BY <1>a, CallIsFrame, PushIsStack DEF Op
  <2> HIDE DEF rest
  <2>2. /\ socket # "unconnected" /\ Drop(pending \cup {id}, rest) /\ pending' = pending \cup {id}
        /\ armed' = armed /\ manual' = manual /\ pending \cup {id} \in SUBSET Request
    BY <1>11, <1>a DEF SendShort, rest
  <2>3. CASE manual
    BY <1>a, <2>1, <2>2, <2>3, DropManual DEF ManualInv
  <2>4. CASE ~manual
    BY <2>2, <2>4 DEF ManualInv
  <2> QED BY <2>3, <2>4
<1>12. ASSUME NEW id \in Request, ReplayShort(id) PROVE ManualInv'
  <2> DEFINE rest == <<Call("failWrite", {id})>> \o Again(Head(stack), id)
  <2>1. Again(Head(stack), id) \in Seq(Frame)
    BY <1>12, RunningTypes, AgainIsStack DEF ReplayShort, TypeOK
  <2>2. rest \in Seq(Frame)
    BY <2>1, CallIsFrame, PushIsStack DEF Op
  <2> HIDE DEF rest
  <2>3. /\ socket # "unconnected" /\ Drop(pending, rest) /\ pending' = pending
        /\ armed' = armed /\ manual' = manual
    BY <1>12 DEF ReplayShort, table, rest
  <2>4. CASE manual
    BY <1>a, <2>2, <2>3, <2>4, DropManual DEF ManualInv
  <2>5. CASE ~manual
    BY <2>3, <2>5 DEF ManualInv
  <2> QED BY <2>4, <2>5
<1>13. CASE disconnectFromServer
  <2>1. stack = <<>> /\ manual' /\ ~armed' /\ pending' = pending
    BY <1>13 DEF disconnectFromServer, Idle, table
  <2>2. CASE socket = "unconnected"
    <3>1. Call("failAll", pending) \in Frame
      BY <1>a, CallIsFrame DEF Op
    <3>2. socket' = socket /\ stack' = <<Call("failAll", pending)>>
      BY <1>13, <2>2 DEF disconnectFromServer
    <3>3. \A id \in pending : Owes(stack', "failAll", id)
      BY <3>1, <3>2, SingleStack, CallFields
    <3> QED BY <2>1, <2>2, <3>2, <3>3 DEF ManualInv
  <2>3. CASE socket = "connecting"
    <3>1. socket' = socket /\ closePending'
      BY <1>13, <2>3 DEF disconnectFromServer
    <3> QED BY <2>1, <2>3, <3>1 DEF ManualInv
  <2>4. CASE socket # "unconnected" /\ Drop(pending, <<>>)
    BY <1>a, <2>1, <2>4, DropManual
  <2>5. CASE socket' = "closing"
    BY <2>1, <2>5 DEF ManualInv
  <2> QED BY <1>13, <2>2, <2>3, <2>4, <2>5 DEF disconnectFromServer
<1>14. CASE Abort \/ DeferredClose
  <2>1. PICK o \in {"abort", "close"} : Running(o)
    BY <1>14 DEF Abort, DeferredClose
  <2>2. Caller \in Seq(Frame) /\ armed' = armed /\ manual' = manual /\ pending' = pending
    BY <1>14, <2>1, RunningTypes DEF Abort, DeferredClose, TypeOK, table
  <2>3. CASE ~manual
    BY <2>2, <2>3 DEF ManualInv
  <2>4. CASE manual /\ socket = "connected" /\ Drop(pending, Caller)
    BY <1>a, <2>2, <2>4, DropManual DEF ManualInv
  <2>5. CASE socket' = "closing"
    BY <2>2, <2>5 DEF ManualInv
  <2>6. CASE socket = "unconnected" /\ stack' = Caller /\ UNCHANGED socket
    <3>1. /\ \A id : Owes(stack, "loss", id) <=> Owes(Caller, "loss", id)
          /\ \A id : Owes(stack, "failAll", id) <=> Owes(Caller, "failAll", id)
      BY <2>1, RunningStack
    <3> QED BY <2>2, <2>6, <3>1 DEF ManualInv
  <2> QED BY <1>14, <2>3, <2>4, <2>5, <2>6 DEF Abort, DeferredClose, CloseGently
<1> QED
  BY <1>1, <1>2, <1>3, <1>4, <1>5, <1>6, <1>7, <1>8, <1>9, <1>10, <1>11, <1>12, <1>13, <1>14
  DEF Next, Application, Handlers, Timers, Network, Peer, LoopStep

\* After disconnectFromServer nothing restarts the connection by itself and,
\* once the socket is down, no request is left behind.
THEOREM ManualCloseSettles == ~RetryAfterLoss /\ Spec => []ManualDisconnectSettles
<1>1. ManualInv => ManualDisconnectSettles
  BY EmptyStack DEF ManualInv, ManualDisconnectSettles, Idle
<1>2. CASE ~RetryAfterLoss
  BY <1>1, <1>2, ReconnectInit, ReconnectNext, ManualInit, ManualNext, TableAlways, TypeCorrect, PTL
  DEF Spec
<1> QED BY <1>2
=============================================================================
