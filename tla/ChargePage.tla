------------------------------ MODULE ChargePage ------------------------------
(***************************************************************************)
(* ChargePage, apps/user-client/src/ui/ChargePage.cpp: the page of one     *)
(* order.  This module has what it shows, when it blocks the navigation,   *)
(* how it is entered and left, and what it does when NearbyPage or         *)
(* MainWindow call on it; ChargeFlow has the answers it waits for.         *)
(*                                                                         *)
(* charge.buttons is what the last render() left enabled, so a page that   *)
(* is not rendered after a change offers what it offered before.           *)
(***************************************************************************)
EXTENDS PageReads

chargeFlowBlocked(c) ==
  \/ c.mutation # None \/ c.reconcile \/ c.factsFailed \/ c.exit
  \/ c.facts # None /\ c.gate

matching(selection, order) ==
  selection # None /\ order # None /\ selection.charger = order.charger

\* What one user can press in an order's state, when nothing forbids it.
Offers(c) ==
  CASE c.order = None /\ c.selection # None ->
         IF c.selection.status = "idle" THEN {"reserve"} ELSE {}
    [] c.order = None /\ c.selection = None -> {}
    [] c.order # None /\ c.order.status = "reserved" ->
         IF c.associated # None /\ c.associated.charger = c.order.charger
              /\ c.associated.status = "reserved"
         THEN {"start", "cancel"} ELSE {}
    [] c.order # None /\ c.order.status = "charging" -> {"stop"}
    [] c.order # None /\ c.order.status = "stopped" -> {"settle"}
    [] OTHER -> {}

Leaves(c) ==
  \/ c.order = None /\ c.selection = None /\ c.noOrder
  \/ c.order # None /\ c.order.status \in Terminal

\* Fault: a required reconciliation does not take the buttons away.
RenderEager(w) ==
  LET c == w.charge
      mutable == w.api.up /\ c.mutation = None
      free == c.read = None /\ c.facts = None /\ c.mutation = None
      polls == w.api.up /\ ~c.reconcile /\ c.mutation = None
                 /\ c.order # None /\ c.order.status = "charging"
  IN  [w EXCEPT
         !.charge.buttons =
            (IF c.active /\ mutable THEN Offers(c) ELSE {})
            \cup (IF c.active /\ Leaves(c) /\ ~chargeFlowBlocked(c) THEN {"back"} ELSE {})
            \cup (IF c.active /\ free /\ (c.reconcile \/ c.factsFailed \/ ~w.api.up)
                  THEN {"retry"} ELSE {}),
         !.charge.polling = IF c.active THEN polls ELSE @]

\* With updatePolling, which an inactive page does not reach.
render(w) ==
  LET c == w.charge
      mutable == /\ w.api.up /\ c.mutation = None /\ ~c.reconcile /\ ~c.factsFailed
                 /\ ~(c.facts # None /\ c.gate)
      free == c.read = None /\ c.facts = None /\ c.mutation = None
      polls == w.api.up /\ ~c.reconcile /\ c.mutation = None
                 /\ c.order # None /\ c.order.status = "charging"
  IN  [w EXCEPT
         !.charge.buttons =
            (IF c.active /\ mutable THEN Offers(c) ELSE {})
            \cup (IF c.active /\ Leaves(c) /\ ~chargeFlowBlocked(c) THEN {"back"} ELSE {})
            \cup (IF c.active /\ free /\ (c.reconcile \/ c.factsFailed \/ ~w.api.up)
                  THEN {"retry"} ELSE {}),
         !.charge.polling = IF c.active THEN polls ELSE @]

-----------------------------------------------------------------------------
(* The selection of a charger and the block that MainWindow is told of.    *)

\* ChargePage::invalidateSelection, for a generation newer than its own.
invalidateSelection(w) ==
  LET c == w.charge
      v == [w EXCEPT !.charge.selection = None]
  IN  IF chargeFlowBlocked(c) \/ c.selection = None
      THEN w
      ELSE render(
             IF c.order = None
             THEN [cancelOwnedSafeReads([v EXCEPT !.charge.associated = None]) EXCEPT
                     !.charge.selGen = 1, !.charge.noOrder = TRUE,
                     !.charge.reconcile = FALSE, !.charge.factsFailed = FALSE]
             ELSE [v EXCEPT !.charge.selGen = 0])

\* MainWindow::applySelectionInvalidation.
applySelectionInvalidation(w) == invalidateSelection([w EXCEPT !.main.remembered = None])

\* MainWindow makes up for the invalidation it put off while blocked.
updateChargeFlowBlock(w) ==
  LET blocked == chargeFlowBlocked(w.charge)
      v == [w EXCEPT !.charge.reported = blocked, !.main.blocked = blocked]
  IN  IF blocked = w.charge.reported THEN w
      ELSE IF ~blocked /\ w.main.deferred
           THEN applySelectionInvalidation([v EXCEPT !.main.deferred = FALSE])
           ELSE v

Shown(w) == render(updateChargeFlowBlock(w))

-----------------------------------------------------------------------------
(* What the refresh of the nearby page came to, after a settled order.     *)

endExitRefresh(w) ==
  [w EXCEPT !.charge.exit = FALSE, !.charge.exitFailed = FALSE, !.charge.attempt = 0]

\* Attempt 0 is a refresh that nobody waits for.
Awaits(w, attempt) == w.charge.exit /\ attempt # 0 /\ attempt = w.charge.attempt

\* Fault: the window is not told that the flow is free again.
CommittedQuietly(w, attempt) ==
  IF Awaits(w, attempt) THEN render(endExitRefresh(w)) ELSE w

nearbyRefreshCommitted(w, attempt) ==
  IF Awaits(w, attempt) THEN Shown(endExitRefresh(w)) ELSE w

nearbyRefreshFailed(w, attempt) ==
  IF ~Awaits(w, attempt) THEN w
  ELSE Shown([cancelSafeReads(w, {"facts"}) EXCEPT
                !.charge.facts = None, !.charge.gate = TRUE, !.charge.factsFailed = TRUE,
                !.charge.exitFailed = TRUE, !.charge.reconcile = TRUE])

nearbyRefreshUnavailable(w, attempt) ==
  IF ~Awaits(w, attempt) THEN w
  ELSE Shown([endExitRefresh(cancelSafeReads(w, {"facts"})) EXCEPT
                !.charge.facts = None, !.charge.gate = FALSE, !.charge.factsFailed = FALSE,
                !.charge.reconcile = ~w.api.up,
                !.charge.selection = None, !.charge.selGen = 0, !.main.remembered = None])

-----------------------------------------------------------------------------
(* Entering and leaving the page, and the reads it sends by itself.        *)

\* The generation of the page is moved on: what was sent for it does not fit.
nextPage(w) ==
  [w EXCEPT !.charge.mutation = IF @ = None THEN None ELSE [@ EXCEPT !.fits = FALSE]]

beginPage(w, selGen) ==
  [cancelOwnedSafeReads([nextPage(w) EXCEPT !.charge.selGen = selGen]) EXCEPT
     !.charge.active = TRUE, !.charge.reconcile = FALSE, !.charge.factsFailed = FALSE,
     !.charge.exit = FALSE, !.charge.exitFailed = FALSE, !.charge.attempt = 0,
     !.charge.noOrder = FALSE, !.charge.polling = FALSE]

enterSelection(w, selection) ==
  IF chargeFlowBlocked(w.charge) THEN w
  ELSE render([beginPage(w, 1) EXCEPT
                 !.charge.selection = selection, !.charge.order = None,
                 !.charge.associated = [charger |-> selection.charger, status |-> selection.status]])

\* The remembered selection is kept when it is of the order's charger.
enterOrder(w, order) ==
  LET kept == IF matching(w.main.remembered, order) THEN w.main.remembered ELSE None
  IN  render([beginPage(w, 0) EXCEPT
                !.charge.selection = kept, !.charge.order = order,
                !.charge.associated = IF kept = None THEN None
                                      ELSE [charger |-> kept.charger, status |-> kept.status]])

leavePage(w) ==
  IF ~w.charge.active THEN w
  ELSE render([cancelOwnedSafeReads([nextPage(w) EXCEPT !.charge.active = FALSE]) EXCEPT
                 !.charge.polling = FALSE])

orderId(order) == IF order = None THEN 0 ELSE order.id

\* An answer fits the page while neither generation has moved on.
loadCurrentOrder(w, op) ==
  [send(w, "page") EXCEPT
     !.charge.read = [op |-> op, selGen |-> w.charge.selGen, owner |-> orderId(w.charge.order)]]

requestPoll(w) ==
  IF w.charge.read # None \/ ~w.charge.active \/ w.charge.order = None
       \/ w.charge.order.status # "charging"
  THEN w ELSE loadCurrentOrder(w, "poll")

requestReconciliation(w) ==
  IF ~w.api.up \/ ~w.charge.active \/ w.charge.read # None \/ w.charge.mutation # None
  THEN w
  ELSE Shown(loadCurrentOrder(
         cancelOwnedSafeReads([w EXCEPT !.charge.polling = FALSE, !.charge.reconcile = TRUE,
                                        !.charge.factsFailed = FALSE, !.charge.exitFailed = FALSE]),
         "reconcile"))

resume(w) == IF w.charge.order = None THEN w ELSE requestReconciliation(render(beginPage(w, 0)))

ChargeConnectionChanged(w, before) ==
  LET c == w.charge
      lost == [invalidateSafeReads([w EXCEPT !.charge.polling = FALSE]) EXCEPT
                 !.charge.reconcile = TRUE, !.charge.factsFailed = FALSE]
  IN  Shown(CASE ~w.api.up /\ c.active -> lost
              [] ~w.api.up /\ ~c.active -> [w EXCEPT !.charge.polling = FALSE]
              [] w.api.up /\ ~before /\ c.active -> requestReconciliation(w)
              [] OTHER -> w)

resetChargePage(w) ==
  Shown([endExitRefresh(cancelOwnedSafeReads([nextPage(w) EXCEPT !.charge.active = FALSE])) EXCEPT
           !.charge.polling = FALSE, !.charge.mutation = None, !.charge.reconcile = FALSE,
           !.charge.factsFailed = FALSE, !.charge.noOrder = FALSE,
           !.charge.selection = None, !.charge.order = None, !.charge.associated = None])
=============================================================================
