# Verification of the EV charging platform

TLA+ models, TLC runs and TLAPS proofs about the programs of this repository:
the user client (`apps/user-client`), the device simulator (`simulator`) and
the protocol they share (`shared`). The server they talk to is not in the
repository (`apps/admin-server` is empty); where a model needs it, it is an
external action written from `docs/design/interface-contract.md` and from what
the clients rely on.

Run a check with `tlc -config <cfg> <module>` and a proof with
`tlapm <module>.tla` in this directory. `PROJECT.json` lists the runs, the
source lines each definition stands for, the hazards, and for every property a
mutation of the model that breaks it (the definitions commented `Fault:`, which
nothing uses otherwise).

## 1. The system

```
 user -> pages (Login, Nearby, Charge, History, Profile, Navigation) - MainWindow
            |  calls, signals                                 |
            v                                                 v
         UserApi  --send/cancelRequest-->  TcpJsonClient   TencentMapClient, web view
            ^------responseReceived, transportFailed,--|
                   connectionChanged                   | TCP, length-prefixed JSON
                                                     server (absent) --- database
                                                       |
 SimulatorWindow -- TelemetryEngine -- SimulatorClient-+
```

Every program is one Qt thread with an event loop. Concurrency is therefore the
order of events (socket signals, timers, clicks, answers) and re-entrancy: a
signal is a call, so a slot runs, and may send, cancel or abort, in the middle
of the handler that emitted it.

| Component | State | Operations | Hard part | What makes it correct |
|---|---|---|---|---|
| **TcpJsonClient** (`net/`) | table of pending requests with their timers, decoder, reconnect timer and attempt, `lossHandled_`, `manualDisconnect_` | `send`, `cancelRequest`, `connectToServer`, `disconnectFromServer`, socket signals, timers | loops that emit while slots change the table; replay of reads; loss detected by several signals; short writes | one outcome for each request; a mutation is never sent twice; always reconnecting |
| **UserApi** (`services/`) | user, token, session generation, user revision, table of operations, the profile operation, "outcome uncertain", epoch of current-order reads | login, loads, profile and charge mutations, answers, failures, connection changes | late answers of an old session; lost outcomes; answers that overtake each other | old answers change nothing; balances shown are the server's or there is a warning |
| **ChargePage** (`ui/`) | order, selection, pending mutation, pending read, facts of the station, the refresh owed after an order is over | mutations, polling, reconciliation, leaving | which answer belongs to which page; what to show after a loss; what blocks the flow | no action on an order whose state is unknown; a blocked flow has a way out |
| **MainWindow** (`ui/`) | page shown, the account's current order, remembered selection, guard and reconciliation reads, block on navigation, deferred withdrawal | navigation, login guard, reconciliation after a connection, session reset | an order observed while a mutation is under way; synchronous signals that come back | one order for the window and the page; nothing leaves a page with a mutation |
| **NearbyPage** (`ui/`) | geocoding, list and detail under way, three generations, the refresh run for ChargePage | search, list, detail, selection, refresh | requests that supersede each other; two answers to one refresh | a withdrawn selection is not used; a search never hangs |
| **HistoryPage**, **ProfilePage** (`ui/`) | the read under way, committed page | reads, refresh after reconnect | reads of a page left meanwhile | only the current read is shown; a read never hangs |
| **NavigationPage**, `navigation.html` | generation, pending route, operation being polled | load, show, mode change, polling up to 300 x 50 ms | operation of an earlier load answering | one result per route asked for |
| **TencentMapClient** | one reply, deadline | geocode | deadline against finished reply | one signal per call |
| **SimulatorClient, TelemetryEngine, SimulatorWindow** | link, reconnect timer, offline queue of 200 samples, last status id; simulated time, chargers | tick, run/pause, fault, recovery, refresh, start/stop, socket signals | losses between queueing and flushing; ids and times derived from simulated time | samples in order, at most once, all of them new to the server |
| **FrameCodec, JsonEnvelope** | bytes not yet decoded | append, reset, encode, parse | frames in pieces | the frames that come out are those that went in |
| **contracts** | none | permissions, statuses, billing rules, reset receipt | boundaries | agreement with the contract document |
| **database scripts** | files, SQLite | build, seed, finalise, export | failure between two steps | no half-written golden database |
| **dashboard** | none | validates a snapshot | - | agreement with the contract |

The hazards, each at its line and with the properties aimed at it, are in
`PROJECT.json`.

## 2. What is modelled

### Transport: `RequestPromise`, `TcpJsonClient`

`RequestPromise` is what the rest of the client relies on: an id that `send`
returned is resolved by exactly one signal unless it is cancelled first; after
that no signal carries it.

`TcpJsonClient` is the code. `pending`, `written`, `replayed`, `timing`,
`awaiting` are the fields of the entries of `pending_`; `deferred` the failures
posted with `QTimer::singleShot(0)`; `socket`, `lossHandled`, `manual`, `armed`
the members with these roles. Because signals are calls, `stack` holds the C++
frames that still have work: a handler's loop is taken one entry at a time, and
whenever a signal is emitted a `Slot` frame lets the application call `send` and
`cancelRequest` before the loop goes on (`Idle` is "no frame"). A loss arrives
by `disconnected`, `errorOccurred` or synchronously from `abort`; a short write
aborts; a malformed frame fails everything and aborts. The counters `writes`
and `outcomes` are history.

### The simulator: `Simulator`, `SimulatorServer`

`Simulator` has one action for each button, timer and socket signal of the
three classes. Samples carry charger, time and status; powers and energies are
left out. The peer (`Take`) is anything that reads a request and may answer it.
`toServer`, `toClient` are the two directions of the connection and vanish with
it; `log` is the history of samples written.

`SimulatorServer` composes it with the server of the interface contract: a
stored answer for every request id, one cursor per charger that each new event
has to pass, and the statuses. `KeepsSimulator` is the refinement: every step of
this server is one that `Simulator` allows its peer.

### The service: `UserApi`

One action per operation and one per branch of `handleResponse` and
`handleTransportFailure`. The transport is the promise proved of
`TcpJsonClient`: `live` are the requests it holds, `Fail` its one failure,
`Replay` the reads it repeats. The ledger is the server's nickname and balance
of each account, and each mutation moves it by one. The server serves the
requests of a connection in order; what it had received on a lost connection it
has done, or never does, before the next one (`Disconnect` empties the wires).
A mutation left in the network that the server takes up *after* the read that
reconciles it would defeat any client; this is assumed away, and is the only
thing assumed about what happens to requests on lost connections.

Two things of the transport are not in `UserApi`. `send` may fail from inside
itself, when the socket takes less than the frame: `transportFailed` is then emitted
before the operation is inserted (`UserApi.cpp:905`), and the operation would never
end. `TcpJsonClient` has short writes; `UserApi` takes `send` as not failing before it
returns. And a read that waits for a connection waits for as long as there is none
(`Kept`): `Fail` is never promised for it, since after finding 1 nothing reconnects.

A handler is one step. Slots that call back into `UserApi` do it from the last
signal of a handler (the pages on `loginSucceeded`, `chargeRequestFailed`), so
that the call is a step of its own; on `connectionChanged` the slots' calls
precede the reconciling read, and `Connect` sends it only when none is pending.

`ProfileDuringCharge` tells whether a profile operation can start while a charge
mutation is under way. `MainWindow` prevents it (`chargeFlowBlocked_`, line
222), and `ShownIsCurrent` needs it: the answer of a recharge is dropped without
a warning when a settlement answered in between (`UserApi.cpp:1197`). That it is
FALSE of the whole client is `MutationKeepsPage` of `MainWindow`.

### The pages: `PageReads`, `ChargePage`, `NearbyPage`, `HistoryPage`, `ChargeFlow`, `MainWindow`

The pages and the window call each other synchronously, by calls and by signals,
down to six handlers deep and back into the page that began. A handler is
therefore an operator from a *shell* (the record of `api`, `charge`, `nearby`,
`history` and `main`) to a shell, a call is an application, and the order of the
calls in the code is the order of nesting. `MainWindow` holds the shell in its
variables and has one action per event of the event loop; each other module is a
part of the shell, in the order in which they need one another:

| Module | Has |
|---|---|
| `PageReads` | what `UserApi` holds for the pages (`api.reads`, `api.details`, `api.ops`), and giving up the reads one owns |
| `ChargePage` | what the page shows and offers (`render`), what blocks it, entering, leaving, polling, reconciliation, the outcomes of a refresh |
| `NearbyPage` | search, list, detail, selection, the refresh for `ChargePage` |
| `HistoryPage` | the pages of the order history |
| `ChargeFlow` | answers: the current order, the facts, the mutations; and what the window makes of them |
| `MainWindow` | the events, the session, the connection, the server, the properties |

`charge.buttons` and `charge.polling` are what the last `render()` and
`updatePolling()` left, `nearby.search` and `nearby.controls` what the last
`setSearchPending` and `setDetailControlsEnabled` left: a handler that forgets to
call them leaves the old buttons, as in the code. Generations, epochs and request
ids are only compared with each other, so a field says whether two of them are
still equal (`fits`, `fresh`, `current`); the attempts of a refresh, which are
compared over a longer time, are numbers chosen to differ from those in use.
`valid` (of a selection) and `since` are history for the properties.

The server answers the reads of a connection in order and takes the mutations in
order: `api.reads[s]` is the number of mutations it takes before the read `s`. A
mutation whose answer the client gave up (a timeout, a new session) stays with
it. When the connection is lost it has taken any number of those on their way
(`takenFirst`) and never takes the others, the assumption made of `UserApi`.
Other terminals of the account move the order on, make one, or end it
(`Elsewhere`). The first order may be there from the start.

Every owner has one read under way at a time, so that a read is named by its owner,
with one exception. Requests for the chargers of a station have ids (`DetailId`), since
`NearbyPage` leaves some of them behind. `searchCurrentAddress`, a lost connection and
the end of a session cancel the one that is awaited (`cancelDetail`,
`cancelEveryDetail`). A list, or an address that was found, *supersedes* it
(`supersedeDetail`: `NearbyPage.cpp:182`, `258`, `761`): its id goes into
`supersededSafeReadIds_` and it stays under way. And `requestStationDetail` over one that is
still awaited but does not fit any more only overwrites the id (line 805): that request
stays in `UserApi`'s table with nobody who knows of it. Press retry while the
chargers of a station are loaded, let the list enable the buttons, and choose a station.
`api.details` says of every id whether its request was sent, is kept over a loss (once) or is
over. Answers and failures go through the comparisons of the code (`detailFits`); one
that does not fit only leaves the set. The place of these requests among the mutations
is not kept: their answers do not depend on the order.

Left out, besides texts and layout: the forecast that follows a list, with the
rebuilding of the cards of stations that its answer causes; all stations but one,
so that the comparison of station ids and of origins is left to the generation of
the selection; the ids of the forecasts in `supersededSafeReadIds_`;
code that the runs show unreachable is kept as it is written. The login page is
the slot `login`; the pages of the account and of the route are pages of the
window only. A retry without a connection calls `UserApi::retryConnection`, which
changes nothing here.

## 3. Runs

| Run | Bounds | Shows |
|---|---|---|
| `tcp_client` | three requests and an oversized one, all losses | the safety of the transport and `KeepsPromise` |
| `tcp_client_fair` | a mutation and a read, fair, no retry of the user after a handled loss (`RetryAfterLoss`) | `ReconnectUnderWay`, `ManualDisconnectSettles`, `ResolvesRequests` |
| `tcp_client_retry` | the same with that retry | finding 1 |
| `simulator` | 2 chargers, 2 ticks, a queue of 3, one frame in each direction, fair | order, queue, connection, snapshots; the simulator connects again and again |
| `simulator_backoff` | 1 charger, 1 tick | finding 2 |
| `simulator_server` | 1 charger, 2 ticks of 3 units, a fault and a recovery | every sample is new to the server; refinement |
| `simulator_fault`, `simulator_refresh` | the same | findings 3 and 4 |
| `user_api` | 2 accounts, 3 sessions, 5 requests on the account | sessions, profile operation, `ShownIsCurrent` |
| `user_api_fair` | 1 account, 3 sessions, 4 requests on orders and lists, fair | `ReadsFollowOutcome`; `OperationsEnd`: what never ends is a read that waits for a connection for ever |
| `main_window` | 2 chargers (alike: `SYMMETRY`), 2 orders, 1 move of another terminal, 2 pages of history, 2 requests for chargers (alike too); logins, searches, losses, failures and timeouts without bound | the pages composed: see below |
| `main_window_retry` | 1 charger, 2 orders, 2 moves of other terminals | finding 5 |

What `main_window` says of the pages:

| Property | Question |
|---|---|
| `NoOrphanRead` | do the window, the page of an order, the list of stations and the history agree with `UserApi`, in both directions, on their reads and mutations under way? (Requests for chargers are not included: the code does forget those.) |
| `NoDeadEnd` | is there, while the navigation is blocked and the connection is up, something under way or a retry button? |
| `BlockReported` | does no path change what blocks the flow without telling the window? |
| `NoBlindMutation`, `ActsOnCurrentOrder` | is a button enabled only when no mutation can still change the order, and does it then act on the server's order? |
| `AuthorityFollowsPage` | are the order of the page and the order of the window the same, also when reads overtake a mutation? |
| `NoWithdrawnSelection` | is a withdrawn selection gone, also when the withdrawal had to wait for the flow? |
| `RefreshedBeforeLeaving` | were the list and the station both read after the order was over, before the way back opens? |
| `SearchRecovers` | is a disabled search always under way? |
| `MutationKeepsPage` | is the page that asked for a mutation still there for its outcome? |
| `DetailAwaited` | are the chargers that the page waits for, and would show, under way; and is no request that the page knows of, awaited or superseded, sent again after a loss? |
| `ControlsRecover` | are the buttons of the stations enabled, or is something under way that will enable them: an address, a list, or chargers that still fit? |

**Why the bounds are enough.** The transport treats requests alike but for
mutation/read and size, and its loops take entries in any order: a mutation, two
reads and an oversized request give every pair that can disturb each other, and
losses are unbounded. A queue of three and batches of two overflow in the middle
of a batch (200 is no multiple of every batch size either). In `UserApi` the
longest scenario that matters is login, a lost mutation, its read, that read
lost and repeated, and one request that interferes: five. In `MainWindow`
searches, logins, losses and refreshes repeat without bound, since nothing counts
them. Two orders are needed for an order that replaces another, two chargers for
a selection that is not of the order found; one move of another terminal is what
an outcome can be overtaken by. Two requests for
chargers are needed for one that takes the place of another, which is then superseded or
left behind. Two named bounds of `MCMainWindow` keep apart what does not meet: once there
has been a search the history has one page (`OnePageOnceSearched`), and two requests for
chargers are under way only while no other terminal has acted (`OneRequestOnceElsewhere`).
`main_window` has 1.05 million states. Without the two bounds it has 2.8 million, too many
for a run that is repeated, and every property holds there too; `DetailAwaited` and
`ControlsRecover` also hold with three requests for chargers, so that one is awaited, one
superseded and one left behind (1 charger, no other terminal, one page: 0.59 million states).
With three orders and two moves of other terminals (and one request for chargers, one page
of history; 3.7 million states) every property holds as well. The runs of the
transport and of the window check for deadlock; in the others the bounded counters (requests,
sessions, ticks) run out, and the fair runs say what must happen instead.

**Fairness.** Handlers of the event loop are weakly fair: Qt delivers posted
events. Timers that can be disabled and re-armed (`RequestTimeout`,
`DeferredFailure`, `ReconnectTimeout` of the transport) are strongly fair: a timer
that is running again and again fires. A connection attempt is strongly fair to
end in success or failure. `Reconnects` of the simulator needs more: the network lets an
attempt made again and again succeed (`SF(Connected)`), because the repeating
timer aborts attempts. `OperationsEnd` takes `SF(id \notin Kept /\ Fail(id))`: a request that is
again and again without an outcome, and not waiting for a connection, fails in the end.
That much the transport gives whatever the user presses. On a connection
each request has its deadline (`DeadlinesRun`); a mutation ends with its connection; a
read is kept over one loss and ends with the next (`ReadsAloneSurviveLoss`). It does not
give an end to a read that waits for a connection: `ResolvesRequests` has that too, but
under `~RetryAfterLoss`, and `UserApi::retryConnection` (`UserApi.cpp:882`) is the call
which that excludes (finding 1). `OperationsEnd` therefore says that an operation which
never ends is such a read. Nothing is assumed of the server.

## 4. Findings

1. `tcp_client_retry`: the retry buttons stop the reconnect timer and connect
   without clearing `lossHandled_`. If that attempt fails, the failure is taken
   for one already handled: nothing reconnects, and reads waiting for replay
   hang without a deadline.
2. `simulator_backoff`: the simulator's reconnect timer is repeating and is not
   restarted while active; the delays of 2 and 4 s are never used, and attempts
   longer than 1 s are aborted.
3. `simulator_fault`: a fault or a recovery has the time of the last tick, which
   its telemetry has already used, and the two have one request id: the server
   refuses one and swallows the other.
4. `simulator_refresh`: while simulated time stands still a refresh repeats its
   request id and gets the stored answer, an old snapshot.
5. `main_window_retry`: a failed refresh after an order is over blocks the flow
   until it is tried again. When the new try finds an order that another terminal
   has made on the same charger, the refresh stays owed; if it fails again while a
   poll is under way, the answer to the poll takes `factsFailed_` and
   `reconciliationRequired_` back (`ChargePage.cpp:778`) but not
   `exitRefreshRequired_`. The navigation stays locked, the retry button is
   hidden, and the enabled stop button does nothing (`beginMutation` returns, the
   flow being blocked) until the connection is lost. `NoDeadEnd` leaves exactly
   this case out (an order under way with the refresh owed).

Observed with `main_window`, without a finding: pressing retry on the page of
stations while the chargers of one are awaited moves `searchGeneration_` on
(`NearbyPage.cpp:820`) without ending that wait. The answer no longer fits and is
dropped, and the page says that it is loading the chargers until another station
is chosen. The buttons come back with the list, be it an answer or a failure
(`ControlsRecover`). A station that is chosen before the answer has come replaces the
request, which then stays in `UserApi`'s table until it is answered, and is the only kind
of request for chargers that is sent again after a loss (`DetailAwaited`). No answer to it
changes anything. The repository states nothing against it.

Two more disagreements with the contract's strictly increasing `recordedAt`
follow from the same times and need no run: a restarted simulator starts at the
same simulated time and repeats its earlier ids (`main.cpp:19`), and
`--interval-ms` accepts less than a second although `recordedAt` has no
milliseconds (`SimulatorClient.cpp:15`; with `Tick < Second` in
`MCSimulatorServer.cfg`, `SamplesAreNew` fails).

## 5. Proofs

The theorems hold for any set of requests, any number of chargers, any queue
bound, any accounts and sessions, any chargers, orders, moves of other terminals and
pages of the history, and every behaviour of network, peer and user.

### The transport

`TcpJsonClientProofs`
- `TypeCorrect`. `TypeOK` is inductive as it stands; most of the work is that
  every frame pushed on `stack` is well formed.
- `NeverWrittenAgain`: `WriteBound` follows from `WriteInv`, which ties the
  counter to the table: an entry that was written once and is not replayed has
  one write, one without has none, and the number of an id that has left the
  table no longer changes. The bare bound is not inductive, since nothing in it
  stops a mutation that was already written from being written again.
- `OneOutcome`: `ExactlyOneOutcome` from `LedgerInv`, which adds that whatever
  is in the table or posted was issued and not cancelled.
- `ImplementsPromise`: with `LedgerInv`, each step of the transport is one of
  `RequestPromise` (issue, deliver, cancel) or leaves it unchanged.

In its second part, what the properties say of the state between two handlers
(`Idle`) is proved through what holds while handlers are on the stack.
- `LinkIsReported` and `BytesStayWithTheirConnection` from `SocketInv`: it says
  for each kind of frame what the socket is while the frame has work left.
- `ReadsAloneSurviveLoss` and `DeadlinesRun` from `TableInv`: without a
  connection each request waits for its replay or is *named* by a loop on the
  stack (`Owes`); on one it has its deadline, or the replay loop still owes it.
  Slots called from the middle of a loop change the table under it, so the
  invariant has to be about the ids the loop copied, not about its position.
- `ReconnectsUnlessManual` and `ManualCloseSettles` take the hypothesis
  `~RetryAfterLoss`: `connectToServer` is not called between a loss and the
  reconnect timer. It is what the retry buttons of the pages do, and finding 1 is
  what then happens; the theorem says that nothing else can stop reconnecting.

### The simulator

`SimulatorProofs`
- `TypeCorrect`, including `Len(queue) <= MaxQueue`.
- `StrandedNever`, `TimerMeetsNoConnection`, `BytesEndWithConnection`: the three
  are inductive together (`LinkInv`). The first and the last say that the timer is
  running while there is no connection and no attempt, and that `decoder_` holds no bytes
  of an earlier connection; they are only proved, and no run repeats them.
- `SamplesOrdered`: `SamplesInOrder` speaks of samples written; the invariant
  `OrderInv` speaks of the samples written followed by those queued, says that
  none is later than now (`NoneLater`), and that nothing is queued while
  connected. The two last are needed for the tick that writes directly and for
  the flush. `OrderedBatch` and `OrderedDrop` are the facts about sequences.
- `QueueKeepsLatest`: `QueueIsLatest` compares entries with the time; `QueueInv`
  says that neighbours follow each other (`Gapless`) and that the last entry is
  the last charger's of the present tick (`EndsAt`), which both survive the drop
  of the oldest.
- `TakesTheLastAnswer`: the action property `SnapshotNotSuperseded`, from
  `StatusInv`: the reports on their way are no later than the one whose answer is
  awaited, and that one no later than now; only its answer is taken (`TakenById`).

Its second part is about the composition with the server (`SimulatorServer`).
- `ServerIsAPeer`: `KeepsSimulator`. A step of the composition is a step of
  `Simulator`, so that all that is proved there holds with this server.
- `ServerTypeCorrect`.
- `SamplesAccepted`: with `Second <= Tick`, `SamplesAreNew`. `EventInv` says that
  the cursor of a charger is never beyond the present second and that every
  sample still to come, queued or written, is a later second than all the
  server has accepted for its charger, a tick apart from the next. The
  hypothesis is the default interval (3000 ms); section 4 says what a smaller
  `--interval-ms` does.

### The service

`UserApiProofs`, for any accounts, operations, numbers of requests and sessions.
`ApiInv` is `TypeOK` with the four properties below and `LoginsMatch`, which says
that a login under way is the last attempt's; without it the answer to an earlier
attempt could put its account on show.
- `TypeCorrect`: what each outcome leaves behind is typed by a lemma of its own;
  `ReplayTypes` says that the reads sent again are messages.
- `TablesNeverDiffer`, `ProfileOperationIsTheOne`, `SessionsIsolated`,
  `ReadsAreFresh`: `Removal(ids)` says what an outcome or a cancellation within
  the session does to the tables, and keeps the properties (`RemovalKeeps`); each
  branch of `handleResponse` and `handleTransportFailure` is shown to be a
  `Removal` or a reset. The four hang together: the branch for operations of
  another session would leave `profileRequest` set, and `SessionIsolated` says
  that it is never taken; `TablesAgree` makes a reset empty both tables.
- `ShownAccountIsCurrent`: with `~ProfileDuringCharge`, `ShownIsCurrent`. The
  property speaks of the moments when nothing is under way; `AccountInv` says at
  every moment which operation still explains a difference between the account
  shown and the server's. Its parts: the connection carries requests and answers
  in the order of their ids (`WireInv`); what earlier sessions sent precedes a
  login, whose answer therefore is current (`LoginInv`); a request that will move
  the account belongs to an operation that is held or ended in doubt (`OwnInv`);
  no settlement is answered before a profile operation, so that the profile's
  answer is never dropped for its revision (`TurnInv`); what the answers under
  way would show is current but for settlements answered later (`AnswerInv`);
  what is shown is current but for operations the server did whose outcome will
  say so or be in doubt (`ShownInv`). The hypothesis is what `MainWindow`'s block
  on the navigation provides (section 2).

### The window

The five parts of the shell are proved about together, since each handler of one
goes through the others. `ShellProofs` has a lemma for each operator of
`PageReads`, `ChargePage`, `NearbyPage` and `HistoryPage`, `MainWindowProofs` for each
of `ChargeFlow` and `MainWindow`, then one per event. A lemma says how the shell
before and the shell after are related; the relations compose, so that a handler is
proved by composing its calls in their order:

- `Keeps`: whatever held of the shell holds after it (helpers);
- `Moves`: the block may have changed and the window was not told yet (the middle of a
  handler);
- `Settles`: as `Moves`, ending with the window told and the buttons rendered (a handler
  that ends with `render` and `setChargeFlowBlocked`).

The inductive invariant is `IInv`, that is `Sound` of the shell:

- `Known`, `Listed` and `Paged`: each page knows of its reads under way (but for requests for
  chargers, of which the invariant has the types only), and what a read of the page of
  an order was started for is still so. `NoOrphanRead` alone is not inductive: whether a read's answer finds its page depends on `Paged` (facts awaited
  only while active and fitting, a reconciling read with no facts).
- `Told` and `Reported`: the block the window was told of is the one it has. In the middle
  of a handler only `Heard` holds (a block is reported, an unblocking maybe not yet),
  which is what the deferred withdrawal relies on.
- `Rendered`: the buttons but for the retry button are what `render` would show. A mutation
  and the way back start from a button, so that they start only on a page that is free;
  without it `Awaited` is not kept.
- `Withdrawn`: a selection that was withdrawn and is still held waits for the block to end.
- `Seated`: each page is active exactly while it is on show, the guard is awaited only
  on the page of the login, and the window's read only while no page of an order reads.
- `Awaited`: at most one mutation is under way, its page is on show, and the order is
  still the one it was sent for.

While the outcome of a mutation is handled, `Awaited` is broken on purpose; `Answered` and
`Concludes` say what holds instead, and how it is left. The server's taking of mutations
at a loss (`takenFirst`, a recursive function) is typed by induction over the finite sets of
mutations (`SetInduction`, from the well-foundedness of the natural numbers).

Theorems: `Invariant`; `TypeCorrect` (`TypeOK`), `ReadsOwned` (`NoOrphanRead`,
which does not speak of requests for chargers),
`BlockKnown` (`BlockReported`), `MutationOnItsPage` (`MutationKeepsPage`). The last one
is what the hypothesis `~ProfileDuringCharge` of `ShownAccountIsCurrent` rests on: the page
of the account is not on show during a mutation of an order.

`OrderProofs` adds, over `IInv`, what relates the shell to mutations that are still
under way when nobody waits for them, and to the order:

- `CarefulAlways`: `Careful` says, while a mutation is under way, that it is the only one,
  that its connection is the present one, and of everybody who could offer a button next
  that what it holds is outdated (`Bound` of the page: its mutation is not superseded, or a
  reconciliation is owed and no facts are taken before it; `Late`: the reads under way were
  sent after the mutation was done or will be asked again). A handler keeps it when it is
  `Gentle`: it gives up nothing of this until the last read of the order.
- `MutationsOneByOne` (`NoBlindMutation`) follows from `Careful` and `Rendered`.
- `AgreedAlways`: `Agreed` says that the window's authority is an order under way or none,
  that it is the one of the page of the order while that page is on show, and that a read
  or a mutation that can still set it belongs to that order (`OwnRead`, `OwnMutation`).
- `AuthorityFollows` (`AuthorityFollowsPage`) follows from it. The case that matters is a
  mutation superseded by a read of another order: its outcome must not replace what
  the read told, which holds since the stamp of the authority has moved.

`RefreshProofs` is about the refresh that is owed when an order is over, over `IInv`. What
`ChargePage` keeps of it (`exit`, `attempt`, `facts`, `selection`) and what `NearbyPage` keeps
(`refresh`, `list`) must fit after every handler, though each page changes its part in a
signal of the other:

- `RefreshOwedAlways`: `Sane`. Its heart is `Calm`, in three parts. `Loose`: a refresh is
  owed only to a page on show that has a selection and awaits no mutation; a poll is of an
  order that is not over; a withdrawn selection is not of the present generation of the list.
  `Ready`: a refresh of the page of stations awaits its list until it has it, and is not kept
  once it has both answers. And when a refresh is owed it is either `Waiting` (under way on
  both pages for the same attempt, the facts awaited until they are applied, nothing
  applied for a withdrawn selection) or `Retrying` (no facts awaited, and the order is read
  again, or its failure can be retried, or it is polled). `Sane` also carries `Offering`:
  a failure on a page with nothing under way shows the retry button.
- In the middle of a handler `Calm` is broken: a list that fails has ended the
  refresh of one page before it tells the other. `Hangs` is what is left of it there.
  Handlers are related by `Minds` (starts no refresh, gives up none), `Leans` (makes none
  owed) and `Tends` (a whole handler that was calm); most of them touch none of the
  marks (`Mild`). Those that make a refresh owed or end one establish `Sane` anew.
- `AlwaysAWayOut` (`NoDeadEnd`): with `Known` and `Listed` of `IInv`, each thing that is
  awaited is a request under way. `Waiting` without its condition on the facts would leave a
  refresh whose station was never asked for.
- `SelectionStands` (`NoWithdrawnSelection`). It does not follow from `Withdrawn` alone, though
  it looks so: a refresh can be owed with no order left (an order of another terminal on
  the same charger found by a retry, and then gone). The flow is then blocked and the
  withdrawal waits, so that the button stays shut only because `Waiting` says that what has
  been applied is of a selection that stands.

`RecoveryProofs` has two parts. The first is the order of the server, as long as this terminal is the only
one that acts (`server.elsewhere = 0`):

- `FollowedAlways`: `Followed` says that then the window's authority is the server's order,
  or the page of an order is on show, owes a read of its order and waits for no mutation
  (`Owed`), or nobody is signed in (`Informed`); that a mutation which is awaited was not
  superseded and was sent with the server's order known; and that a mutation still under
  way that nobody awaits leaves the page owing (`Knows`). `ActsOnCurrentOrder` is not
  inductive without them: while a mutation is under way the server's order may
  become another one at any moment, at the loss of the connection too. An answer that was
  computed before a mutation is ignored because of `Careful`; an outcome is the one of the
  server because of `Agreed`; an outcome that is not known leaves `Owed`, which every handler
  keeps until an answer computed after it (`Gentle`), also over a loss and a new connection
  (`ChargeConnectionOwing`).
- `CurrentActedOn` (`ActsOnCurrentOrder`) follows from it with `Agreed` and `Rendered`: a page
  that offers anything does not owe a read.

The second part of `RecoveryProofs` is about the button of the search, over `IInv`:

- `SearchingAlways`: `Searching` says that the list which is awaited is for the search as
  it is (`fits`), that a search under way (`foreground`) awaits its address or its own
  list, and that over a connection the search is allowed, or an address or a list is
  awaited. `SearchRecovers` is only the last of these. Without the first two an
  answer could be dropped for its generation, or for its kind, and nothing would enable
  the button; a refresh for the page of an order that takes the list over from a search
  is the case to look at (`StaleCharge`). Handlers of the search establish it (`Seeks`);
  all others keep it (`Rests`), and most of them do not touch the page (`Still`).
- `SearchAlwaysRecovers` (`SearchRecovers`). The page of the login turns out to need no
  exception.

Assumptions: `RequestAssumption` and the two `BoundAssumption` (types of the requests,
and bounds that are natural numbers),
`NoneAssumption` (`None` is none of the records it stands in for), `SimulatorAssumption`, `UserApiAssumption` (types of
the constants, and that there is an account), `ServerAssumption` (types, a positive
second, and that the statuses of a server do not leave their set when a fault is
applied).

Only model-checked: everything under fairness (`ResolvesRequests`, `Reconnects`,
`OperationsEnd`), which TLAPS 1.4.5 cannot prove; and three invariants of the window. `RefreshedBeforeLeaving`
needs, over `Sane`, the charger for which the list and the
facts of a refresh were asked, and which of the answers the ghost `since` has seen,
through each handler: a read that was answered before the order was over must not count.
`DetailAwaited` and `ControlsRecover` need, for each handler of the page of stations, what it
does to the ids of requests for chargers; the proofs so far say only that no other part
of the shell depends on them (`OnlyDetails`, `Forgets`).
The state graphs are searched completely instead, with counters only on orders, on requests
for chargers and on the moves of other terminals.

## 6. Plan

In this order; each module is written with the constants, named assumptions and
one-action-per-operation layout the proofs need, and without RECURSIVE.

1. `RefreshedBeforeLeaving`, on top of `Sane`; `DetailAwaited` and `ControlsRecover`, on top of
   `Searching`.
2. `NavigationPage` (with the script's side) and `TencentMapClient`: one route at
   a time, polled.
3. `FrameCodec` against a reference decoder over bounded inputs;
   `ContractTimestamp`, `BusinessRules`, `Permissions` as functions.
4. `GoldenBuild`: the steps of the database scripts with a failure after each.

## 7. Not modelled

- Parsers of payloads, formatting, layout, logs: choices between answers that
  decode and answers that do not.
- `NavigationPage` with `navigation.html`, and `TencentMapClient` beyond its two
  outcomes: they share no state with the rest of the client but the page shown.
- `ProfilePage` beyond what `UserApi` keeps for it, and the forecast of stations.
- Powers, energies and amounts, but for the balance as a counter.
- The server, the map service, Qt and the network, except as the external
  actions named above.
- `UserApi.stationSnapshots_`, which grows with each list until the session ends.
- Warnings of the simulator. `docs/superpowers/plans/2026-09-01-data-simulator.md:295` says
  that "queue overflow discards the oldest sample and emits a visible warning signal";
  the code discards the sample (`QueueIsLatest`) and emits nothing
  (`SimulatorClient.cpp:102`). The model has no signals to the display, so this disagreement
  has no run.
- Observed and left out, since the repository states nothing to check them
  against: the simulator's status report says `running` whether or not it is
  paused; a fault injected offline is dropped.
