------------------------------ MODULE ChargeFlow ------------------------------
(***************************************************************************)
(* The answers that ChargePage waits for, and what MainWindow makes of     *)
(* them: the order that is current for the whole window (main.authority),  *)
(* the mutation of an order, the facts of its station.                     *)
(*                                                                         *)
(* A signal runs the handlers of ChargePage first, then MainWindow's, as   *)
(* they were connected.  Everything here runs while the connection is up,  *)
(* but for the failures that its loss brings.                              *)
(***************************************************************************)
EXTENDS HistoryPage

isActive(order) == order # None /\ order.status \in Active

-----------------------------------------------------------------------------
(* MainWindow: the current order of the window.                            *)

moved(stamp) == IF stamp = "none" THEN "none" ELSE "moved"   \* ++authorityRevision_

adoptActiveOrder(w, order) ==
  [w EXCEPT !.main.authority = order, !.main.stamp = moved(@),
            !.main.remembered = IF matching(@, order) THEN @ ELSE None]

clearActiveOrder(w, owner, force) ==
  IF ~force /\ w.main.authority # None /\ (owner = 0 \/ w.main.authority.id # owner)
  THEN w
  ELSE [w EXCEPT !.main.authority = None,
                 !.main.stamp = IF force \/ w.main.authority # None THEN moved(@) ELSE @]

requestReconnectCurrent(w) ==
  IF \/ ~w.main.required \/ ~w.api.up \/ w.main.reconnect # None \/ w.main.guard
     \/ w.main.page = "charge" \/ ~w.api.user
  THEN w
  ELSE [send(w, "reconnect") EXCEPT !.main.reconnect = [owner |-> orderId(w.main.authority)]]

cancelReconnectCurrent(w) == [cancelSafeReads(w, {"reconnect"}) EXCEPT !.main.reconnect = None]

\* With runQueuedReconnectReads: the stations and the history are read again.
resolveReconnectCurrent(w) ==
  LET v == [w EXCEPT !.main.required = FALSE, !.main.queued = FALSE]
  IN  IF w.main.queued /\ w.api.up
      THEN refreshHistory(IF w.nearby.foreground THEN v ELSE requestReconnectStations(v))
      ELSE [v EXCEPT !.main.queued = w.main.queued]

\* The window has learnt that the account's order is this one, or that it has none.
observed(w, order, guard, owned, owner) ==
  CASE order # None -> adoptActiveOrder(w, order)
    [] order = None /\ guard -> clearActiveOrder(w, 0, TRUE)
    [] order = None /\ ~guard /\ owned -> clearActiveOrder(w, owner, FALSE)
    [] OTHER -> w

\* MainWindow, on ChargePage::currentAuthorityObserved.
currentAuthorityObserved(w, slot, order, pageOwned, owner) ==
  IF slot = "reconnect" /\ w.main.reconnect # None
  THEN resolveReconnectCurrent(
         observed([w EXCEPT !.main.reconnect = None], order, FALSE, TRUE, w.main.reconnect.owner))
  ELSE observed(w, order, slot = "guard" /\ w.main.guard, pageOwned, owner)

\* Fault: an outcome is dropped whenever the window has learnt of an order since.
DropWhenMoved(w, order) ==
  LET newer == w.main.stamp = "moved" /\ w.main.authority # None
      v == CASE w.main.stamp = "none" \/ newer -> w
             [] OTHER -> IF isActive(order) THEN adoptActiveOrder(w, order)
                         ELSE clearActiveOrder(w, order.id, FALSE)
  IN  [v EXCEPT !.main.stamp = "none"]

\* MainWindow, on ChargePage::mutationAuthorityObserved and mutationFinished.
mutationAuthorityObserved(w, order) ==
  LET newer == w.main.stamp = "moved" /\ w.main.authority # None /\ w.main.authority.id # order.id
      v == CASE w.main.stamp = "none" \/ newer -> w
             [] OTHER -> IF isActive(order) THEN adoptActiveOrder(w, order)
                         ELSE clearActiveOrder(w, order.id, FALSE)
  IN  [v EXCEPT !.main.stamp = "none"]

-----------------------------------------------------------------------------
(* ChargePage: the facts of the station an order or a selection is at.     *)

\* An attempt that neither page has.
freshAttempt(w) ==
  CHOOSE i \in 1..3 : /\ i # w.charge.attempt
                      /\ w.nearby.refresh # None => i # w.nearby.refresh.attempt

\* A commit also awaits the list of NearbyPage, under an attempt of its own.
sendFacts(w, gate, commit, origin, id) ==
  [send(w, "facts") EXCEPT
     !.charge.facts = [charger |-> IF w.charge.order # None THEN w.charge.order.charger
                                   ELSE w.charge.selection.charger, fits |-> TRUE],
     !.charge.factsFailed = FALSE, !.charge.gate = gate,
     !.charge.exit = @ /\ (commit => origin),
     !.charge.attempt = IF ~commit THEN @ ELSE IF origin THEN id ELSE 0]

requestFacts(w, gate, commit) ==
  LET c == w.charge
      origin == c.selection # None /\ (c.order = None \/ matching(c.selection, c.order))
      id == freshAttempt(w)
      sent == sendFacts(w, gate, commit, origin, id)
  IN  IF ~c.active \/ (c.order = None /\ c.selection = None) THEN w
      ELSE Shown(IF origin THEN refreshAfterCharge(sent, IF commit THEN id ELSE 0) ELSE sent)

\* What both failures of the facts come to, unless NearbyPage has ended them.
factsFail(w) ==
  LET told == IF w.charge.exit THEN failChargeStationDetail(w, w.charge.attempt) ELSE w
      must == told.charge.gate \/ told.charge.exit
  IN  IF w.charge.exit /\ (~told.charge.exit \/ told.charge.exitFailed) THEN told
      ELSE Shown([told EXCEPT !.charge.factsFailed = must, !.charge.gate = must,
                              !.charge.reconcile = must])

\* handleGeneralFailure
factsFailed(w) == factsFail([w EXCEPT !.charge.facts = None])

\* The status of the charger at the station, if it is there: a reserved order needs
\* it reserved.
unmatched(c, status) ==
  \/ status = None
  \/ c.order # None /\ c.order.status = "reserved" /\ status # "reserved"

takeFacts(w, status) ==
  LET c == w.charge
      matched == ~unmatched(c, status)
      found == [charger |-> c.facts.charger, status |-> status]
  IN  [w EXCEPT
         !.charge.facts = None,
         !.charge.associated = IF matched /\ (c.order # None \/ c.selection # None) THEN found
                               ELSE IF c.order # None THEN None ELSE @,
         !.charge.selection = IF matched /\ c.order = None /\ @ # None
                              THEN [@ EXCEPT !.status = status] ELSE @]

factsLoaded(w, status) ==
  LET c == w.charge
      v == takeFacts(w, status)
      u == [v EXCEPT !.charge.factsFailed = @ /\ c.exitFailed,
                     !.charge.reconcile = @ /\ (c.exitFailed \/ ~c.gate),
                     !.charge.gate = FALSE]
  IN  IF ~c.facts.fits THEN w
      ELSE IF unmatched(c, status) THEN factsFail(v)
      ELSE Shown(IF c.exit THEN applyChargeStationDetail(u, c.attempt) ELSE u)

-----------------------------------------------------------------------------
(* ChargePage: the current order.                                          *)

\* A mutation that is awaited is of another order than the one under way.
supersedeMutation(w, order) ==
  LET m == w.charge.mutation
  IN  IF m # None /\ isActive(order) /\ (m.subject = 0 \/ m.subject # order.id)
      THEN [w EXCEPT !.charge.mutation.superseded = TRUE] ELSE w

takeActiveOrder(w, order) ==
  LET keeps == w.charge.selection = None \/ matching(w.charge.selection, order)
  IN  [endExitRefresh(invalidateSafeReads(w)) EXCEPT
         !.charge.polling = FALSE, !.charge.reconcile = TRUE,
         !.charge.factsFailed = FALSE, !.charge.gate = FALSE, !.charge.noOrder = FALSE,
         !.charge.order = order, !.charge.selGen = 0, !.charge.associated = None,
         !.charge.selection = IF keeps THEN @ ELSE None,
         !.main.remembered = IF keeps THEN @ ELSE None]

observeAuthoritativeCurrent(w, slot, order) ==
  LET v == supersedeMutation(w, order)
  IN  IF ~isActive(order) \/ ~w.charge.active
      THEN currentAuthorityObserved(v, slot, order, FALSE, 0)
      ELSE requestFacts(
             currentAuthorityObserved(Shown(takeActiveOrder(v, order)), slot, order, FALSE, 0),
             TRUE, FALSE)

\* An order that is over stays while its refresh is owed and there is no other.
takeOrder(w, order) ==
  LET c == w.charge
      terminal == order = None /\ c.exit /\ c.order # None /\ c.order.status \in Terminal
      shown == IF terminal THEN c.order ELSE order
      keeps == order = None \/ c.selection = None \/ matching(c.selection, order)
  IN  [w EXCEPT
         !.charge.order = shown, !.charge.noOrder = order = None, !.charge.associated = None,
         !.charge.factsFailed = FALSE,
         !.charge.selGen = IF shown # None \/ ~keeps THEN 0 ELSE @,
         !.charge.exit = @ /\ keeps, !.charge.attempt = IF keeps THEN @ ELSE 0,
         !.charge.selection = IF keeps THEN @ ELSE None,
         !.main.remembered = IF keeps THEN @ ELSE None]

\* The answer to a read of the page's own, as long as the page is the same.
pageOrderLoaded(w, order) ==
  LET c == w.charge
      r == c.read
      poll == r.op = "poll"
      v == [w EXCEPT !.charge.read = None]
      new == takeOrder(v, order)
      target == new.charge.order # None \/ new.charge.selection # None
      facts == \/ ~poll /\ c.reconcile /\ target
               \/ new.charge.order # None /\ new.charge.order.status = "reserved"
               \/ new.charge.order = None /\ new.charge.selection # None
      read == currentAuthorityObserved(Shown([new EXCEPT !.charge.reconcile = facts]),
                                       "page", order, TRUE, r.owner)
  IN  IF ~c.active \/ r.selGen # c.selGen \/ ~c.current THEN v
      ELSE IF poll /\ c.order # None /\ order # None /\ order.id # c.order.id
           THEN observeAuthoritativeCurrent(v, "page", order)
      ELSE IF ~poll /\ target THEN requestFacts(read, facts, read.charge.exit) ELSE read

\* ChargePage::enterGuardOrder
enterGuardOrder(w, order) == requestFacts(enterOrder(w, order), TRUE, FALSE)

\* MainWindow: the order of the account that has just logged in.
guardLoaded(w, order) ==
  LET v == [w EXCEPT !.main.guard = FALSE, !.main.navShown = TRUE]
  IN  IF order # None
      THEN [enterGuardOrder([v EXCEPT !.main.remembered =
                                        IF matching(@, order) THEN @ ELSE None], order)
              EXCEPT !.main.page = "charge"]
      ELSE [v EXCEPT !.main.page = IF @ = "charge" THEN @ ELSE "nearby"]

currentOrderLoaded(w, slot, order) ==
  LET v == IF slot = "page" /\ w.charge.read # None THEN pageOrderLoaded(w, order)
           ELSE observeAuthoritativeCurrent(w, slot, order)
  IN  IF slot = "guard" /\ v.main.guard THEN guardLoaded(v, order) ELSE v

\* handleChargeFailure for a read, and MainWindow's two handlers of it.
currentOrderFailed(w, slot) ==
  CASE slot = "page" ->
         IF w.charge.read = None \/ ~w.charge.active \/ w.charge.read.selGen # w.charge.selGen
         THEN w
         ELSE Shown([w EXCEPT !.charge.read = None, !.charge.reconcile = TRUE])
    [] slot = "guard" /\ w.main.guard ->
         [clearActiveOrder([w EXCEPT !.main.guard = FALSE], 0, TRUE) EXCEPT
            !.main.navShown = FALSE, !.main.page = "login"]
    [] slot = "reconnect" /\ w.main.reconnect # None -> [w EXCEPT !.main.reconnect = None]
    [] OTHER -> w

-----------------------------------------------------------------------------
(* ChargePage: a mutation of the order.                                    *)

beginMutation(w, op) ==
  LET c == w.charge
      target == IF op = "reserve" THEN c.selection.charger ELSE c.order.id
  IN  IF ~c.active \/ ~w.api.up \/ chargeFlowBlocked(c) THEN w
      ELSE Shown([sendMutation(w, op, target) EXCEPT
                    !.charge.mutation = [op |-> op, subject |-> orderId(c.order),
                                         superseded |-> FALSE, fits |-> TRUE],
                    !.main.stamp = "same"])

overtaken(w, id) ==
  w.charge.mutation.superseded /\ isActive(w.charge.order) /\ w.charge.order.id # id

endMutation(w) == Shown([adoptMutationReadEpoch(w) EXCEPT !.charge.mutation = None])

\* The refresh is owed when the order is over and its selection is still there.
takeOutcome(w, order) ==
  LET exits == order.status \in Terminal /\ matching(w.charge.selection, order)
      reserved == w.charge.mutation.op = "reserve" /\ order.status = "reserved"
  IN  [cancelOwnedSafeReads(w) EXCEPT
         !.charge.polling = FALSE, !.charge.order = order, !.charge.noOrder = FALSE,
         !.charge.selGen = 0, !.charge.associated = None,
         !.charge.exit = exits, !.charge.exitFailed = FALSE, !.charge.attempt = 0,
         !.charge.reconcile = exits \/ reserved, !.charge.mutation = None]

acceptMutation(w, order) ==
  LET told == mutationAuthorityObserved(invalidateChargeReads(w), order)
      taken == takeOutcome(told, order)
  IN  IF ~w.charge.active \/ ~w.charge.mutation.fits \/ overtaken(w, order.id)
      THEN endMutation(told)
      ELSE requestFacts(Shown(taken), taken.charge.reconcile, taken.charge.exit)

\* Fault: an outcome that is not known is taken for a refusal.
MutationForgotten(w, why) ==
  Shown([cancelOwnedSafeReads(invalidateChargeReads(w)) EXCEPT
           !.charge.mutation = None, !.charge.polling = FALSE, !.main.stamp = "none"])

\* why: uncertain, or an error that asks for a refresh of the order, or another.
mutationFailed(w, why) ==
  LET m == w.charge.mutation
      told == [invalidateChargeReads(w) EXCEPT !.main.stamp = "none"]
      failed == Shown([cancelOwnedSafeReads([told EXCEPT !.charge.reconcile = TRUE]) EXCEPT
                         !.charge.polling = FALSE, !.charge.mutation = None])
  IN  IF overtaken(w, m.subject) \/ ~w.charge.active \/ ~m.fits THEN endMutation(told)
      ELSE IF why \in {"uncertain", "refresh"} THEN requestReconciliation(failed)
      ELSE failed
=============================================================================
