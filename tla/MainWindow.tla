------------------------------ MODULE MainWindow ------------------------------
(***************************************************************************)
(* MainWindow, apps/user-client/src/ui/MainWindow.cpp, with the charge     *)
(* page, the pages of nearby stations and of the order history and the     *)
(* login page it shows, over one connection to a server that other         *)
(* terminals of the account use too.                                       *)
(*                                                                         *)
(* An action is one event of the event loop: a press of a button that is   *)
(* enabled, a timer, an answer or the failure of a request, a change of    *)
(* the connection.  It runs every handler of the event.                    *)
(*                                                                         *)
(* The server takes the mutations in the order they were sent; a read is   *)
(* answered when those before it were taken.  A mutation whose answer the  *)
(* client gave up stays with the server.                                   *)
(***************************************************************************)
EXTENDS ChargeFlow

CONSTANTS
  MaxOrder,      \* bound: orders the account makes
  MaxElsewhere,  \* bound: moves of other terminals
  LastPage       \* bound: the last page of the order history

ASSUME BoundAssumption ==
  MaxOrder \in Nat \ {0} /\ MaxElsewhere \in Nat /\ LastPage \in Nat

VARIABLES
  api, charge, nearby, history, main,
  server,    \* the order that is not over, the orders made, the moves elsewhere
  since      \* what was read since the page shows an order that is over

vars == <<api, charge, nearby, history, main, server, since>>

w == [api |-> api, charge |-> charge, nearby |-> nearby, history |-> history, main |-> main]

Mutation == {"reserve", "start", "stop", "settle", "cancel"}
Status == {"idle", "reserved", "charging"}     \* of a charger

-----------------------------------------------------------------------------
(* Types.  The id of no order is 0.                                        *)

Maybe(S) == S \cup {None}

Order == [id : 1..MaxOrder, charger : Charger, status : Active \cup Terminal]
Selection == [charger : Charger, status : Status, fresh : BOOLEAN, valid : BOOLEAN]
Associated == [charger : Charger, status : Status]
PageRead == [op : {"poll", "reconcile"}, selGen : 0..1, owner : 0..MaxOrder]
PageMutation == [op : Mutation, subject : 0..MaxOrder, superseded : BOOLEAN, fits : BOOLEAN]
Facts == [charger : Charger, fits : BOOLEAN]
StationList == [kind : {"foreground", "reconnect", "charge"}, fresh : BOOLEAN, fits : BOOLEAN]
Refresh == [attempt : 0..3, fresh : BOOLEAN, fits : BOOLEAN,
            listApplied : BOOLEAN, detailApplied : BOOLEAN]
Detail == [id : DetailId, fits : BOOLEAN]
Reconnect == [owner : 0..MaxOrder]
OrderPage == {p \in [index : 0..LastPage, more : BOOLEAN] : p.more => p.index < LastPage}

\* A charger is reserved; the other mutations are of an order.
SentMutation ==
  {m \in [op : Mutation, target : Charger \cup 1..MaxOrder, live : BOOLEAN] :
     m.target \in IF m.op = "reserve" THEN Charger ELSE 1..MaxOrder}

\* With reads of the slots under way.
ApiState(slots) ==
  [up : BOOLEAN, user : BOOLEAN, reads : [slots -> Nat], replayed : SUBSET slots,
   details : [DetailId -> {"sent", "kept", "over"}],
   ops : Seq(SentMutation)]

ChargeState ==
  [active : BOOLEAN, order : Maybe(Order), selection : Maybe(Selection),
   associated : Maybe(Associated), read : Maybe(PageRead), mutation : Maybe(PageMutation),
   facts : Maybe(Facts), selGen : 0..1, reconcile : BOOLEAN, factsFailed : BOOLEAN,
   gate : BOOLEAN, noOrder : BOOLEAN, exit : BOOLEAN, exitFailed : BOOLEAN, attempt : 0..3,
   reported : BOOLEAN, current : BOOLEAN, buttons : SUBSET (Mutation \cup {"back", "retry"}),
   polling : BOOLEAN]

NearbyState ==
  [origin : BOOLEAN, known : BOOLEAN, list : Maybe(StationList), refresh : Maybe(Refresh),
   detail : Maybe(Detail), superseded : SUBSET DetailId, shown : BOOLEAN,
   foreground : BOOLEAN, geocode : BOOLEAN, search : BOOLEAN, controls : BOOLEAN]

HistoryState ==
  [active : BOOLEAN, pending : Maybe(0..LastPage), committed : Maybe(OrderPage)]

MainState ==
  [page : {"login", "nearby", "charge", "history", "profile", "navigation"},
   authority : Maybe(Order), remembered : Maybe(Selection), guard : BOOLEAN,
   reconnect : Maybe(Reconnect), required : BOOLEAN, queued : BOOLEAN, deferred : BOOLEAN,
   blocked : BOOLEAN, stamp : {"none", "same", "moved"}, navShown : BOOLEAN]

ServerState ==
  [order : Maybe([id : 1..MaxOrder, charger : Charger, status : Active]),
   made : 0..MaxOrder, elsewhere : 0..MaxElsewhere]

\* An empty optional is none of the values it may have.
ASSUME NoneAssumption ==
  None \notin Nat \cup Order \cup Selection \cup Associated \cup PageRead \cup PageMutation
              \cup Facts \cup StationList \cup Refresh \cup Detail \cup Reconnect \cup OrderPage

-----------------------------------------------------------------------------
(* The server.                                                             *)

takes(s, op, target) ==
  CASE op = "reserve" -> s.order = None /\ s.made < MaxOrder
    [] op \in {"start", "cancel"} ->
         s.order # None /\ s.order.id = target /\ s.order.status = "reserved"
    [] op = "stop" -> s.order # None /\ s.order.id = target /\ s.order.status = "charging"
    [] OTHER -> s.order # None /\ s.order.id = target /\ s.order.status = "stopped"

outcome(s, op, target) ==
  IF op = "reserve" THEN [id |-> s.made + 1, charger |-> target, status |-> "reserved"]
  ELSE [s.order EXCEPT !.status = CASE op = "start" -> "charging"
                                    [] op = "stop" -> "stopped"
                                    [] op = "settle" -> "completed"
                                    [] OTHER -> "cancelled"]

took(s, op, target) ==
  LET order == outcome(s, op, target)
  IN  IF ~takes(s, op, target) THEN s
      ELSE [s EXCEPT !.order = IF order.status \in Terminal THEN None ELSE order,
                     !.made = IF op = "reserve" THEN @ + 1 ELSE @]

\* The first k of the mutations on their way are taken.
takenFirst[k \in 0..Len(api.ops)] ==
  IF k = 0 THEN server
  ELSE took(takenFirst[k - 1], api.ops[k].op, api.ops[k].target)

\* What the station says of a charger: of the order's, it says the order's state.
chargerStatus(charger) ==
  IF server.order # None /\ server.order.charger = charger
  THEN {IF server.order.status = "reserved" THEN "reserved" ELSE "charging"}
  ELSE Status

-----------------------------------------------------------------------------
Init ==
  /\ api = [up |-> FALSE, user |-> FALSE, reads |-> <<>>, replayed |-> {}, ops |-> <<>>,
            details |-> [d \in DetailId |-> "over"]]
  /\ charge = [active |-> FALSE, order |-> None, selection |-> None, associated |-> None,
               read |-> None, mutation |-> None, facts |-> None, selGen |-> 0,
               reconcile |-> FALSE, factsFailed |-> FALSE, gate |-> FALSE, noOrder |-> FALSE,
               exit |-> FALSE, exitFailed |-> FALSE, attempt |-> 0, reported |-> FALSE,
               current |-> TRUE, buttons |-> {}, polling |-> FALSE]
  /\ nearby = [origin |-> FALSE, known |-> FALSE, list |-> None, refresh |-> None,
               detail |-> None, superseded |-> {}, shown |-> FALSE, foreground |-> FALSE,
               geocode |-> FALSE, search |-> FALSE, controls |-> FALSE]
  /\ history = [active |-> FALSE, pending |-> None, committed |-> None]
  /\ main = [page |-> "login", authority |-> None, remembered |-> None, guard |-> FALSE,
             reconnect |-> None, required |-> FALSE, queued |-> FALSE, deferred |-> FALSE,
             blocked |-> FALSE, stamp |-> "none", navShown |-> FALSE]
  /\ \E order \in {None} \cup [id : {1}, charger : Charger, status : Active] :
       server = [order |-> order, made |-> IF order = None THEN 0 ELSE 1, elsewhere |-> 0]
  /\ since = {}

isOver(x) == x.charge.order # None /\ x.charge.order.status \in Terminal

\* The shell is x after the event, which answered a read of slots.
Becomes(x, slots) ==
  /\ api' = x.api /\ charge' = x.charge /\ nearby' = x.nearby /\ history' = x.history
  /\ main' = x.main
  /\ since' = IF isOver(x) THEN (IF isOver(w) THEN since ELSE {}) \cup slots ELSE {}

Does(x) == Becomes(x, {}) /\ UNCHANGED server

\* The pages are disabled while the order of a new connection is not read.
At(page) == main.page = page /\ ~main.required

Free == main.navShown /\ ~main.blocked /\ ~main.required

-----------------------------------------------------------------------------
(* The session.                                                            *)

sessionReset(x) ==
  LET v == cancelAll(x)
      m == [v EXCEPT !.api.user = FALSE,
                     !.main = [page |-> "login", authority |-> None, remembered |-> None,
                               guard |-> FALSE, reconnect |-> None, required |-> FALSE,
                               queued |-> FALSE, deferred |-> FALSE, blocked |-> FALSE,
                               stamp |-> "none", navShown |-> FALSE]]
  IN  resetChargePage(resetHistoryPage(resetNearbyPage(m)))

\* UserApi::loginByPhone.  The session ends also when the number is not one, or
\* when there is no connection to ask over.
loginByPhone ==
  /\ At("login") /\ "login" \notin DOMAIN api.reads
  /\ \/ api.up /\ Does(send(sessionReset(w), "login"))
     \/ Does(sessionReset(w))

loginSucceeded(x) ==
  [send([x EXCEPT !.api.user = TRUE], "guard") EXCEPT
     !.main.remembered = None, !.main.deferred = FALSE, !.main.stamp = "none",
     !.main.reconnect = None, !.main.required = FALSE, !.main.queued = FALSE,
     !.main.authority = None, !.main.guard = TRUE]

-----------------------------------------------------------------------------
(* The buttons of the window and of the pages.                             *)

leaves(x) ==
  CASE x.main.page = "charge" -> leavePage(x)
    [] x.main.page = "history" -> deactivateHistory(x)
    [] OTHER -> x

NearbyButton ==
  /\ Free /\ main.authority = None
  /\ Does([leaves(w) EXCEPT !.main.page = "nearby"])

CurrentOrderButton ==
  /\ Free /\ main.authority # None
  /\ Does([resume(enterOrder(IF main.page = "history"
                              THEN deactivateHistory(cancelReconnectCurrent(w))
                              ELSE cancelReconnectCurrent(w), main.authority)) EXCEPT
             !.main.page = "charge"])

\* The press leaves the history only for another page.
HistoryButton ==
  /\ Free
  /\ Does([activateHistory(IF main.page = "charge" THEN leavePage(w) ELSE w) EXCEPT
             !.main.page = "history"])

\* Fault: the page is turned with an order under way.
ProfileAnyTime ==
  /\ main.navShown /\ ~main.required
  /\ Does([leaves(w) EXCEPT !.main.page = "profile"])

ProfileButton == Free /\ Does([leaves(w) EXCEPT !.main.page = "profile"])

HistoryPageButton ==
  /\ At("history") /\ api.up /\ history.pending = None
  /\ \/ Does(refreshHistory(w))
     \/ /\ history.committed # None /\ history.committed.index > 0
        /\ Does(requestPage(w, history.committed.index - 1))
     \/ /\ history.committed # None /\ history.committed.more
        /\ Does(requestPage(w, history.committed.index + 1))

AuthorityRetryButton == main.required /\ api.up /\ Does(requestReconnectCurrent(w))

\* The press makes a selection even when the window does not go on with it.
chargerSelected ==
  /\ At("nearby") /\ nearby.controls /\ nearby.shown
  /\ \E c \in Charger, st \in Status :
       LET s == [charger |-> c, status |-> st, fresh |-> TRUE, valid |-> TRUE]
           v == nextSelection(w)
       IN  IF main.authority # None \/ main.blocked THEN Does(v)
           ELSE Does([enterSelection([v EXCEPT !.main.remembered = s], s) EXCEPT
                        !.main.page = "charge"])

stationSelected ==
  /\ At("nearby") /\ nearby.controls /\ nearby.origin /\ nearby.known
  /\ \E d \in DetailId \ awaitedDetail(w) :
       api.details[d] = "over" /\ Does(requestStationDetail(w, d))

navigationRequested ==
  /\ At("nearby") /\ nearby.controls /\ nearby.shown /\ ~main.blocked
  /\ Does([w EXCEPT !.main.page = "navigation"])

navigationBack == At("navigation") /\ Does([w EXCEPT !.main.page = "nearby"])

SearchButton == At("nearby") /\ nearby.search /\ Does(searchCurrentAddress(w))

NearbyRetryButton ==
  /\ At("nearby") /\ api.up /\ ~nearby.foreground
  /\ Does(requestReconnectStations(w))

geocodeFinished ==
  /\ nearby.geocode
  /\ Does(geocodeSucceeded(w)) \/ Does(geocodeFailed(w))

MutationButton ==
  /\ At("charge")
  /\ \E op \in Mutation \cap charge.buttons : Does(beginMutation(w, op))

\* Without a connection the press asks for one.
RetryButton == At("charge") /\ "retry" \in charge.buttons /\ api.up /\ Does(requestReconciliation(w))

pollTimer == charge.polling /\ Does(requestPoll(w))

\* ChargePage::backRequested: an order that is current is shown instead.
BackButton ==
  /\ At("charge") /\ "back" \in charge.buttons
  /\ IF isActive(main.authority)
     THEN Does(resume(enterOrder(w, main.authority)))
     ELSE Does([leavePage(w) EXCEPT !.main.authority = None, !.main.remembered = None,
                                    !.main.page = "nearby"])

-----------------------------------------------------------------------------
(* Answers and failures.                                                   *)

answered(slot) == cancelSafeReads(w, {slot})

Due(slot) == api.up /\ slot \in DOMAIN api.reads /\ api.reads[slot] = 0

MutationDue == api.up /\ api.ops # <<>> /\ \A slot \in DOMAIN api.reads : ~Due(slot)

handleLogin == Due("login") /\ Does(loginSucceeded(answered("login")))

handleCurrent ==
  \E slot \in CurrentRead :
    Due(slot) /\ Does(currentOrderLoaded(answered(slot), slot, server.order))

handleList ==
  /\ Due("list")
  /\ \E has \in BOOLEAN :
       /\ Becomes(nearbyStationsLoaded(answered("list"), has), {"list"})
       /\ UNCHANGED server

DetailDue(d) == api.up /\ api.details[d] # "over"

handleDetail ==
  \E d \in DetailId :
    DetailDue(d) /\ Does(stationDetailLoaded(cancelDetails(w, {d}), d))

handleHistory ==
  /\ Due("history")
  /\ \E more \in IF history.pending < LastPage THEN BOOLEAN ELSE {FALSE} :
       Does(orderHistoryLoaded(answered("history"), more))

handleFacts ==
  /\ Due("facts")
  /\ \E st \in {None} \cup chargerStatus(charge.facts.charger) :
       /\ Becomes(factsLoaded(answered("facts"), st), {"facts"})
       /\ UNCHANGED server

readFailed(x, slot) ==
  CASE slot \in CurrentRead -> currentOrderFailed(x, slot)
    [] slot = "facts" -> factsFailed(x)
    [] slot = "list" -> nearbyStationsFailed(x)
    [] slot = "history" -> orderHistoryFailed(x)
    [] OTHER -> x

\* An error, a malformed answer, or no answer in time.
handleFailure ==
  \/ \E slot \in DOMAIN api.reads : api.up /\ Does(readFailed(answered(slot), slot))
  \/ \E d \in DetailId :
       DetailDue(d) /\ Does(stationDetailFailed(cancelDetails(w, {d}), d))

\* AUTH_REQUIRED: expireAuthenticatedSession.
handleExpiry ==
  /\ api.user
  /\ \/ /\ \/ \E slot \in DOMAIN api.reads \ {"login"} : Due(slot)
           \/ \E d \in DetailId : DetailDue(d)
        /\ Does(sessionReset(w))
     \/ /\ MutationDue /\ api.ops[1].live
        /\ Does(sessionReset([w EXCEPT !.api.ops = Tail(@)]))

\* The head of the mutations was taken: what follows it comes one nearer.
nearer ==
  [w EXCEPT !.api.ops = Tail(@),
            !.api.reads = [s \in DOMAIN @ |-> @[s] - 1]]

\* The server does what is asked of it, if it can; the client awaits the answer.
handleMutation ==
  /\ MutationDue
  /\ LET m == api.ops[1]
         s == took(server, m.op, m.target)
     IN  IF ~m.live
         THEN server' = s /\ Becomes(nearer, {})
         ELSE \/ /\ takes(server, m.op, m.target)
                 /\ server' = s
                 /\ Becomes(acceptMutation(nearer, outcome(server, m.op, m.target)), {})
              \/ \E why \in {"refresh", "other"} : Does(mutationFailed(nearer, why))
              \/ server' = s /\ Becomes(mutationFailed(nearer, "uncertain"), {})

\* No answer in time: the server may still do what was asked.
MutationTimeout ==
  /\ api.up /\ \E i \in DOMAIN api.ops : api.ops[i].live
  /\ Does(mutationFailed([w EXCEPT !.api.ops = [i \in DOMAIN @ |-> [@[i] EXCEPT !.live = FALSE]]],
                         "uncertain"))

-----------------------------------------------------------------------------
(* The connection.                                                         *)

MainConnectionChanged(x) ==
  LET v == [x EXCEPT !.main.required = TRUE, !.main.queued = TRUE]
  IN  IF ~x.api.user \/ x.main.guard \/ x.main.page = "charge" \/ x.main.blocked THEN x
      ELSE requestReconnectCurrent(v)

connectionChanged(x, before) ==
  MainConnectionChanged(
    NearbyConnectionChanged(ChargeConnectionChanged(HistoryConnectionChanged(x), before)))

failOf(x, slot) == IF slot \in DOMAIN x.api.reads
                   THEN readFailed(cancelSafeReads(x, {slot}), slot) ELSE x

\* The reads the pages kept are sent again once; what was sent before is lost.
lost(x) ==
  LET gone == [x EXCEPT !.api.up = FALSE, !.api.ops = <<>>]
      told == connectionChanged(gone, TRUE)
      over == {"login"} \cup told.api.replayed
      reads == failOf(failOf(failOf(told, "login"),
                             IF "guard" \in over THEN "guard" ELSE "login"),
                      IF "reconnect" \in over THEN "reconnect" ELSE "login")
      failed == IF \E i \in DOMAIN api.ops : api.ops[i].live
                THEN mutationFailed(reads, "uncertain") ELSE reads
  IN  [failed EXCEPT !.api.reads = [s \in DOMAIN @ |-> 0],
                     !.api.details =
                        [d \in DetailId |-> IF @[d] = "sent" THEN "kept" ELSE "over"]]

Disconnect ==
  /\ api.up
  /\ Becomes(lost(w), {})
  /\ \E k \in 0..Len(api.ops) : server' = takenFirst[k]

Connect ==
  /\ ~api.up
  /\ Does(connectionChanged([w EXCEPT !.api.up = TRUE, !.api.replayed = DOMAIN api.reads], FALSE))

\* Other terminals of the account: they move the order on or make one, or what
\* they did since the last answer has ended it, and perhaps made another.
Elsewhere ==
  /\ server.elsewhere < MaxElsewhere
  /\ \E c \in Charger :
       LET over == [server EXCEPT !.order = None]
           onward == {took(server, op, server.order.id) : op \in Mutation \ {"reserve"}}
       IN  \E s \in {took(server, "reserve", c), took(over, "reserve", c), over}
                     \cup (IF server.order = None THEN {} ELSE onward) :
             s # server /\ server' = [s EXCEPT !.elsewhere = @ + 1]
  /\ UNCHANGED <<api, charge, nearby, history, main, since>>

Press ==
  \/ loginByPhone \/ NearbyButton \/ CurrentOrderButton \/ HistoryButton
  \/ ProfileButton \/ HistoryPageButton
  \/ AuthorityRetryButton \/ chargerSelected \/ stationSelected \/ navigationRequested
  \/ navigationBack \/ SearchButton \/ NearbyRetryButton \/ MutationButton \/ RetryButton
  \/ BackButton

Answer ==
  \/ handleLogin \/ handleCurrent \/ handleList \/ handleDetail \/ handleFacts
  \/ handleHistory
  \/ handleFailure \/ handleExpiry \/ handleMutation \/ MutationTimeout
  \/ geocodeFinished

Next == Press \/ Answer \/ pollTimer \/ Disconnect \/ Connect \/ Elsewhere

Spec == Init /\ [][Next]_vars

-----------------------------------------------------------------------------
(* Properties.                                                             *)

\* The types of the shell and of the server.
TypeOK ==
  /\ DOMAIN api.reads \subseteq Read /\ api \in ApiState(DOMAIN api.reads)
  /\ charge \in ChargeState /\ nearby \in NearbyState /\ history \in HistoryState
  /\ main \in MainState /\ server \in ServerState /\ since \subseteq {"list", "facts"}

\* No page waits for a read that nobody will answer, and no read with one owner is
\* under way that its owner has forgotten: cancelling, superseding and replaying keep
\* the pages' pending requests and UserApi's table the same.  The chargers of a
\* station are another matter: see DetailAwaited.
NoOrphanRead ==
  /\ main.guard <=> "guard" \in DOMAIN api.reads
  /\ main.reconnect # None <=> "reconnect" \in DOMAIN api.reads
  /\ charge.read # None <=> "page" \in DOMAIN api.reads
  /\ charge.facts # None <=> "facts" \in DOMAIN api.reads
  /\ nearby.list # None <=> "list" \in DOMAIN api.reads
  /\ history.pending # None <=> "history" \in DOMAIN api.reads
  /\ history.active <=> main.page = "history"
  /\ charge.mutation # None <=> \E i \in DOMAIN api.ops : api.ops[i].live

\* A detail that the page waits for and would show is under way; and a connection
\* that is lost brings none back that the page knows of, awaited or superseded.  (One
\* that was replaced while it was awaited stays under way and is sent again.)
DetailAwaited ==
  /\ nearby.detail # None /\ nearby.detail.fits => api.details[nearby.detail.id] # "over"
  /\ \A d \in DetailId :
       api.details[d] = "kept" => d \notin nearby.superseded \cup awaitedDetail(w)

\* A blocked flow always has a way out: while the connection is up something is
\* under way that will unblock it, or the page offers to try again.  An order that
\* another terminal made while the refresh after the last one was still owed is
\* left out: RetryAfterFailedRefresh is about it.
NoDeadEnd ==
  api.up /\ charge.active /\ chargeFlowBlocked(charge) =>
    \/ {"page", "facts"} \cap DOMAIN api.reads # {}
    \/ charge.mutation # None
    \/ nearby.list # None /\ nearby.list.kind = "charge"
    \/ "retry" \in charge.buttons
    \/ charge.exit /\ isActive(charge.order)

\* When the refresh that an order that is over needs has failed, the page offers to
\* try again, unless it is already reading the order again.
RetryAfterFailedRefresh ==
  charge.exit /\ charge.exitFailed /\ api.up =>
    "retry" \in charge.buttons \/ "page" \in DOMAIN api.reads

\* Between two events the window knows whether the charge flow is blocked: no
\* path changes what blocks it without the signal that says so.
BlockReported == main.blocked = chargeFlowBlocked(charge)

\* No button of a mutation is enabled while an earlier mutation may still change
\* the order: not while it is awaited, and not after its answer was given up and
\* before the order was read again.
NoBlindMutation == charge.buttons \cap Mutation # {} => api.ops = <<>>

\* What a button would act on is what the server has, when only this client acts.
ActsOnCurrentOrder ==
  charge.buttons \cap Mutation # {} /\ server.elsewhere = 0 => charge.order = server.order

\* The order that the charge page shows as under way, and that can be acted on,
\* is in the same state for the window, which takes the user back to it.
AuthorityFollowsPage ==
  charge.buttons \cap Mutation # {} /\ isActive(charge.order) => main.authority = charge.order

\* A selection that the nearby page has withdrawn is never one to reserve by, also
\* when it was withdrawn while the flow was blocked and had to wait.
NoWithdrawnSelection == "reserve" \in charge.buttons => charge.selection.valid

\* A search that is not allowed is under way.
SearchRecovers ==
  api.up /\ main.page # "login" /\ ~nearby.search => nearby.geocode \/ nearby.list # None

\* Over a connection the buttons of the stations and chargers are enabled, or what
\* enables them is awaited: an address, a list, or a detail that still fits.
ControlsRecover ==
  api.up /\ nearby.origin /\ ~nearby.controls =>
    \/ nearby.geocode \/ nearby.list # None
    \/ nearby.detail # None /\ nearby.detail.fits

\* The way back from an order that is over, with its selection kept, opens only
\* when the list and the station were both read after it was over.
RefreshedBeforeLeaving ==
  isOver(w) /\ charge.active /\ charge.selection # None /\ "back" \in charge.buttons =>
    since = {"list", "facts"}

\* The outcome of a mutation finds the page that asked for it as it was: while
\* one is awaited, nothing leaves the page or enters it for another order.
MutationKeepsPage ==
  charge.mutation # None => charge.active /\ charge.mutation.fits /\ main.page = "charge"
=============================================================================
