--------------------------- MODULE RequestPromise ---------------------------
(***************************************************************************)
(* What TcpJsonClient promises its caller about one send() call: the id it *)
(* returns is resolved by exactly one signal (responseReceived or          *)
(* transportFailed) unless the caller withdraws it with cancelRequest,     *)
(* after which no signal ever carries that id.                             *)
(***************************************************************************)
EXTENDS Naturals

CONSTANT Request        \* the request ids

VARIABLES
  open,                 \* ids handed out and not yet resolved
  cancelled,            \* ids withdrawn by the caller
  signals               \* how many signals carried each id

vars == <<open, cancelled, signals>>

Fresh(id) == id \notin open \cup cancelled /\ signals[id] = 0

Init ==
  /\ open = {}
  /\ cancelled = {}
  /\ signals = [id \in Request |-> 0]

Issue(id) ==
  /\ Fresh(id)
  /\ open' = open \cup {id}
  /\ UNCHANGED <<cancelled, signals>>

Deliver(id) ==
  /\ id \in open
  /\ open' = open \ {id}
  /\ signals' = [signals EXCEPT ![id] = @ + 1]
  /\ UNCHANGED cancelled

Cancel(id) ==
  /\ id \in open
  /\ open' = open \ {id}
  /\ cancelled' = cancelled \cup {id}
  /\ UNCHANGED signals

Next == \E id \in Request : Issue(id) \/ Deliver(id) \/ Cancel(id)

\* The safety half of the promise.
Safety == Init /\ [][Next]_vars

\* The whole promise: an open id is eventually resolved or withdrawn.
Spec == Safety /\ \A id \in Request : WF_vars(Deliver(id) \/ Cancel(id))
=============================================================================
