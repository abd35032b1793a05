------------------------------ MODULE OrderProofs ------------------------------
(***************************************************************************)
(* What the window knows of the order it shows and of the mutations it has *)
(* sent, for any chargers and any number of orders: first what the         *)
(* handlers of the page of stations leave of the page of an order, then    *)
(* what every event does to the order, its mutation and its authority.     *)
(***************************************************************************)
EXTENDS MainWindowProofs, SequenceTheorems

\* The flow is blocked, and waits for no refresh after an order that is over: nothing
\* that the page of stations does may free it.
Held(c) == chargeFlowBlocked(c) /\ ~(c.exit /\ c.attempt # 0)

Fixed(c, d) ==
  /\ d.facts = c.facts /\ d.gate = c.gate /\ d.exit = c.exit
  /\ d.reconcile = c.reconcile /\ d.factsFailed = c.factsFailed /\ d.mutation = c.mutation
  /\ d.attempt = c.attempt

\* What has failed can be tried again.
Offering(v) ==
  LET c == v.charge
  IN  c.active /\ v.api.up /\ c.read = None /\ c.facts = None /\ c.mutation = None
        /\ (c.reconcile \/ c.factsFailed) => "retry" \in c.buttons

Gentle(v, u) ==
  /\ u.charge.read \in {None, v.charge.read}
  /\ Held(v.charge) => Fixed(v.charge, u.charge)
  /\ Offering(v) => Offering(u)

LEMMA FixedHeld ==
  ASSUME NEW c, NEW d, Held(c), Fixed(c, d) PROVE Held(d)
BY DEF Held, Fixed, chargeFlowBlocked

LEMMA GentleTrans ==
  ASSUME NEW a, NEW b, NEW c, Gentle(a, b), Gentle(b, c) PROVE Gentle(a, c)
<1>1. Held(a.charge) => Held(b.charge) BY FixedHeld DEF Gentle
<1> QED BY <1>1 DEF Gentle, Fixed

LEMMA GentleSame ==
  ASSUME NEW v, NEW u, u.charge = v.charge, u.api.up = v.api.up PROVE Gentle(v, u)
BY DEF Gentle, Fixed, Offering

LEMMA GentleSelf == ASSUME NEW v PROVE Gentle(v, v)
BY GentleSame

\* Only the selection is another.
LEMMA GentleChosen ==
  ASSUME NEW v \in Shell, NEW u, NEW s, u.charge = [v.charge EXCEPT !.selection = s],
         u.api.up = v.api.up
  PROVE  Gentle(v, u)
<1>1. v.charge \in ChargeState BY Parts
<1>2. /\ u.charge.read = v.charge.read /\ Fixed(v.charge, u.charge)
      /\ u.charge.active = v.charge.active /\ u.charge.buttons = v.charge.buttons
  BY <1>1 DEF ChargeState, Fixed
<1> QED BY <1>2 DEF Gentle, Fixed, Offering

LEMMA RenderOffers ==
  ASSUME NEW v \in Shell
  PROVE  Offering(render(v)) /\ Gentle(v, render(v))
<1> DEFINE u == render(v)
<1>1. SameOrder(u.charge, v.charge) /\ u.api = v.api BY Render, RenderSame
<1>2. v.charge.active /\ v.api.up /\ v.charge.read = None /\ v.charge.facts = None
        /\ v.charge.mutation = None /\ (v.charge.reconcile \/ v.charge.factsFailed)
        => "retry" \in u.charge.buttons
  BY DEF render, Shell, ChargeState
<1> HIDE DEF u
<1>3. Offering(u) BY <1>1, <1>2 DEF Offering, SameOrder
<1>4. Fixed(v.charge, u.charge) /\ u.charge.read = v.charge.read
  BY <1>1 DEF Fixed, SameOrder
<1> QED BY <1>3, <1>4 DEF Gentle, u

LEMMA InvalidateGentle ==
  ASSUME NEW v \in Shell, Known(v), Told(v)
  PROVE  /\ Gentle(v, invalidateSelection(v))
         /\ Gentle(v, applySelectionInvalidation(v))
<1>1. ASSUME NEW u, Quiet(v.charge, u.charge), u.api.up = v.api.up,
             chargeFlowBlocked(v.charge) => u.charge = v.charge,
             ~chargeFlowBlocked(v.charge) => ~chargeFlowBlocked(u.charge)
      PROVE  Gentle(v, u)
  <2>1. CASE chargeFlowBlocked(v.charge) BY <1>1, <2>1, GentleSame
  <2>2. CASE ~chargeFlowBlocked(v.charge)
    <3>1. Offering(u) BY <1>1, <2>2 DEF Offering, chargeFlowBlocked
    <3> QED BY <1>1, <2>2, <3>1 DEF Gentle, Quiet, Held
  <2> QED BY <2>1, <2>2
<1>2. Gentle(v, invalidateSelection(v))
  <2> DEFINE u == invalidateSelection(v)
  <2>1. /\ Keeps(v, u) /\ Quiet(v.charge, u.charge)
        /\ chargeFlowBlocked(v.charge) => u = v
        /\ ~chargeFlowBlocked(v.charge) => ~chargeFlowBlocked(u.charge)
    BY Invalidate
  <2> HIDE DEF u
  <2>2. u.api.up = v.api.up BY <2>1 DEF Keeps, Within, Frame
  <2>3. Gentle(v, u) BY <1>1, <2>1, <2>2
  <2> QED BY <2>3 DEF u
<1>3. Gentle(v, applySelectionInvalidation(v))
  <2> DEFINE u == applySelectionInvalidation(v)
  <2>1. /\ Keeps(v, u) /\ Quiet(v.charge, u.charge)
        /\ chargeFlowBlocked(v.charge) => u.charge = v.charge
        /\ ~chargeFlowBlocked(v.charge) => ~chargeFlowBlocked(u.charge)
    BY ApplyInvalidation
  <2> HIDE DEF u
  <2>2. u.api.up = v.api.up BY <2>1 DEF Keeps, Within, Frame
  <2>3. Gentle(v, u) BY <1>1, <2>1, <2>2
  <2> QED BY <2>3 DEF u
<1> QED BY <1>2, <1>3

LEMMA ShownGentle ==
  ASSUME NEW v \in Shell, Known(v), Told(v)
  PROVE  Gentle(v, Shown(v)) /\ Offering(Shown(v))
<1> DEFINE x == updateChargeFlowBlock(v)
           u == Shown(v)
<1>1. x \in Shell /\ Quiet(v.charge, x.charge) BY UpdateBlock DEF Moves
<1>2. Held(v.charge) => Fixed(v.charge, x.charge)
  <2> SUFFICES ASSUME Held(v.charge) PROVE Fixed(v.charge, x.charge) OBVIOUS
  <2>1. v.charge \in ChargeState BY Parts
  <2>2. x = v \/ x = [v EXCEPT !.charge.reported = chargeFlowBlocked(v.charge),
                               !.main.blocked = chargeFlowBlocked(v.charge)]
    BY DEF updateChargeFlowBlock, Held
  <2>3. x.charge = v.charge
          \/ x.charge = [v.charge EXCEPT !.reported = chargeFlowBlocked(v.charge)]
    <3> DEFINE b == chargeFlowBlocked(v.charge)
    <3>1. x = v \/ x = [v EXCEPT !.charge.reported = b, !.main.blocked = b] BY <2>2
    <3> HIDE DEF b, x
    <3>2. x.charge = v.charge \/ x.charge = [v.charge EXCEPT !.reported = b]
      BY <3>1 DEF Shell
    <3> QED BY <3>2 DEF b
  <2> HIDE DEF x
  <2> QED BY <2>1, <2>3 DEF ChargeState, Fixed
<1>3. u = render(x) BY DEF Shown
<1> HIDE DEF x, u
<1>4. Offering(u) /\ Gentle(x, u) BY <1>1, <1>3, RenderOffers
<1>5. Held(v.charge) => Fixed(v.charge, u.charge)
  BY <1>2, <1>4, FixedHeld DEF Gentle, Fixed
<1>6. u.charge.read \in {None, v.charge.read} BY <1>1, <1>4 DEF Gentle, Quiet
<1> QED BY <1>4, <1>5, <1>6 DEF Gentle, u

-----------------------------------------------------------------------------
(* The page of stations tells the page of an order what its refresh came to. *)

\* The page waits for its refresh, becomes y and shows it.
LEMMA RefreshEnds ==
  ASSUME NEW v \in Shell, v.charge.exit, v.charge.attempt # 0, NEW y \in Shell, Known(y), Told(y),
         y.charge.read = v.charge.read
  PROVE  Gentle(v, Shown(y))
<1> DEFINE u == Shown(y)
<1>1. Gentle(y, u) /\ Offering(u) BY ShownGentle
<1> HIDE DEF u
<1>2. Gentle(v, u) BY <1>1 DEF Gentle, Held
<1> QED BY <1>2 DEF u

LEMMA CommittedGentle ==
  ASSUME NEW v \in Shell, Known(v), Told(v), NEW attempt
  PROVE  Gentle(v, nearbyRefreshCommitted(v, attempt))
<1>1. CASE Awaits(v, attempt)
  <2> DEFINE x == endExitRefresh(v)
  <2>1. /\ Moves(v, x)
        /\ x.charge = [v.charge EXCEPT !.exit = FALSE, !.exitFailed = FALSE, !.attempt = 0]
    BY EndRefresh
  <2>2. nearbyRefreshCommitted(v, attempt) = Shown(x) BY <1>1 DEF nearbyRefreshCommitted
  <2> HIDE DEF x
  <2>3. x.charge.read = v.charge.read BY <2>1, Parts DEF ChargeState
  <2> QED BY <1>1, <2>1, <2>2, <2>3, RefreshEnds DEF Moves, Awaits
<1>2. CASE ~Awaits(v, attempt) BY <1>2, GentleSelf DEF nearbyRefreshCommitted
<1> QED BY <1>1, <1>2

LEMMA FailedGentle ==
  ASSUME NEW v \in Shell, Known(v), Told(v), NEW attempt
  PROVE  Gentle(v, nearbyRefreshFailed(v, attempt))
<1> DEFINE x == cancelSafeReads(v, {"facts"})
           c == [v.charge EXCEPT !.facts = None, !.gate = TRUE, !.factsFailed = TRUE,
                                 !.exitFailed = TRUE, !.reconcile = TRUE]
           y == [x EXCEPT !.charge = c, !.main = v.main]
<1>a. /\ v.charge \in ChargeState /\ v.main \in MainState /\ v.main.blocked = v.charge.reported
      /\ Paged(v.charge)
  BY Parts DEF Told, Known
<1>1. CASE Awaits(v, attempt)
  <2>0. c \in ChargeState BY <1>a, NoneFits DEF ChargeState
  <2>1. /\ c.active = v.charge.active /\ c.order = v.charge.order
        /\ c.mutation = v.charge.mutation /\ c.facts = None /\ c.read = v.charge.read
        /\ c.selection = v.charge.selection /\ c.reported = v.charge.reported
        /\ c.selGen = v.charge.selGen /\ c.exit = v.charge.exit
        /\ c.attempt = v.charge.attempt
    BY <1>a DEF ChargeState
  <2>2. x \in Shell /\ x.charge = v.charge /\ x.main = v.main BY CancelReads
  <2>3. y = [x EXCEPT !.charge.facts = None, !.charge.gate = TRUE, !.charge.factsFailed = TRUE,
                      !.charge.exitFailed = TRUE, !.charge.reconcile = TRUE]
    <3> HIDE DEF x
    <3> QED BY <2>2 DEF Shell
  <2> HIDE DEF c
  <2>4. Moves(v, y)
    <3>1. SameMain(v.main, v.main) BY DEF SameMain
    <3>2. Paged(c) BY <1>1, <1>a, <2>1 DEF Paged, Awaits
    <3> QED BY <1>a, <2>0, <2>1, <3>1, <3>2, FactsGone DEF Withdrawn
  <2>5. nearbyRefreshFailed(v, attempt) = Shown(y)
    <3> HIDE DEF y
    <3> QED BY <1>1, <2>3 DEF nearbyRefreshFailed, x
  <2>6. y.charge = c
    <3> HIDE DEF x
    <3> QED BY <2>2 DEF Shell
  <2> HIDE DEF y
  <2> QED BY <1>1, <2>1, <2>4, <2>5, <2>6, RefreshEnds DEF Moves, Awaits
<1>2. CASE ~Awaits(v, attempt) BY <1>2, GentleSelf DEF nearbyRefreshFailed
<1> QED BY <1>1, <1>2

LEMMA UnavailableGentle ==
  ASSUME NEW v \in Shell, Known(v), Told(v), NEW attempt
  PROVE  Gentle(v, nearbyRefreshUnavailable(v, attempt))
<1> DEFINE x == cancelSafeReads(v, {"facts"})
           e == endExitRefresh(x)
           r == ~v.api.up
           c == [v.charge EXCEPT !.exit = FALSE, !.exitFailed = FALSE, !.attempt = 0,
                                 !.facts = None, !.gate = FALSE, !.factsFailed = FALSE,
                                 !.reconcile = r, !.selection = None, !.selGen = 0]
           m == [v.main EXCEPT !.remembered = None]
           y == [x EXCEPT !.charge = c, !.main = m]
<1>a. /\ v.charge \in ChargeState /\ v.main \in MainState /\ v.main.blocked = v.charge.reported
      /\ r \in BOOLEAN /\ Paged(v.charge)
  BY Parts DEF Told, Known
<1>1. CASE Awaits(v, attempt)
  <2>2. x \in Shell /\ x.charge = v.charge /\ x.main = v.main BY CancelReads
  <2>3. y = [e EXCEPT !.charge.facts = None, !.charge.gate = FALSE, !.charge.factsFailed = FALSE,
                      !.charge.reconcile = r, !.charge.selection = None, !.charge.selGen = 0,
                      !.main.remembered = None]
    <3> HIDE DEF x, r
    <3> QED BY <2>2 DEF Shell, endExitRefresh
  <2>5. nearbyRefreshUnavailable(v, attempt) = Shown(y)
    <3> HIDE DEF y, e
    <3> QED BY <1>1, <2>3 DEF nearbyRefreshUnavailable, e, x
  <2> HIDE DEF r
  <2>0. c \in ChargeState BY <1>a, NoneFits, Small DEF ChargeState
  <2>1. /\ c.active = v.charge.active /\ c.order = v.charge.order
        /\ c.mutation = v.charge.mutation /\ c.facts = None /\ c.read = v.charge.read
        /\ c.selection = None /\ c.reported = v.charge.reported
        /\ c.selGen = 0 /\ c.exit = FALSE /\ c.exitFailed = FALSE /\ c.attempt = 0
    BY <1>a DEF ChargeState
  <2>6. /\ m \in MainState /\ SameMain(m, v.main) /\ m.blocked = v.main.blocked
        /\ m.deferred = v.main.deferred /\ m.remembered = None
    BY <1>a, NoneFits DEF MainState, SameMain
  <2> HIDE DEF c, m
  <2>8. Paged(c) BY <1>1, <1>a, <2>1 DEF Paged, Awaits
  <2>4. Moves(v, y) BY <1>a, <2>0, <2>1, <2>6, <2>8, FactsGone DEF Withdrawn
  <2>7. y.charge = c
    <3> HIDE DEF x
    <3> QED BY <2>2 DEF Shell
  <2> HIDE DEF y
  <2> QED BY <1>1, <2>1, <2>4, <2>5, <2>7, RefreshEnds DEF Moves, Awaits
<1>2. CASE ~Awaits(v, attempt) BY <1>2, GentleSelf DEF nearbyRefreshUnavailable
<1> QED BY <1>1, <1>2

LEMMA NextSelectionGentle ==
  ASSUME NEW v \in Shell, Known(v), Told(v)
  PROVE  Gentle(v, nextSelection(v))
<1> DEFINE u == nextSelection(v)
           s == aged(v.charge.selection)
<1>1. u.api = v.api /\ u.charge = [v.charge EXCEPT !.selection = s] BY NextSelection
<1> HIDE DEF s, u
<1>2. Gentle(v, u) BY <1>1, GentleChosen
<1> QED BY <1>2 DEF u

\* The selections are withdrawn: nothing else of the page of an order changes.
LEMMA WithdrawnCharge ==
  ASSUME NEW v \in Shell, Known(v), Told(v)
  PROVE  \E s : withdrawn(v).charge = [v.charge EXCEPT !.selection = s]
<1> DEFINE gone(x) == IF x = None THEN None ELSE [x EXCEPT !.valid = FALSE]
           x == nextSelection(v)
           g == aged(v.charge.selection)
           s == gone(x.charge.selection)
           p == gone(x.main.remembered)
<1>1. x \in Shell /\ x.charge = [v.charge EXCEPT !.selection = g]
  BY NextSelection DEF Keeps
<1>2. withdrawn(v) = [x EXCEPT !.charge.selection = s, !.main.remembered = p]
  BY Zenon DEF withdrawn
<1> HIDE DEF x, s, p, g
<1>3. withdrawn(v).charge = [x.charge EXCEPT !.selection = s]
  BY <1>1, <1>2 DEF Shell
<1>4. withdrawn(v).charge = [v.charge EXCEPT !.selection = s]
  BY <1>1, <1>3, Parts DEF ChargeState
<1> QED BY <1>4

LEMMA InvalidateNearbyGentle ==
  ASSUME NEW v \in Shell, Known(v), Told(v)
  PROVE  Gentle(v, invalidateNearbySelection(v))
<1> DEFINE x == withdrawn(v)
           u == invalidateNearbySelection(v)
<1>1. x \in Shell /\ Known(x) /\ Told(x) /\ x.api = v.api BY Withdraw
<1>2. Gentle(v, x)
  <2>1. PICK s : x.charge = [v.charge EXCEPT !.selection = s] BY WithdrawnCharge
  <2> HIDE DEF x
  <2> QED BY <1>1, <2>1, GentleChosen
<1>3. Gentle(x, u)
  <2>1. u = IF x.main.blocked THEN [x EXCEPT !.main.deferred = TRUE]
            ELSE applySelectionInvalidation(x)
    BY DEF invalidateNearbySelection
  <2> HIDE DEF x, u
  <2>2. CASE x.main.blocked
    <3>1. u.charge = x.charge /\ u.api = x.api BY <1>1, <2>1, <2>2 DEF Shell
    <3> QED BY <3>1, GentleSame
  <2>3. CASE ~x.main.blocked BY <1>1, <2>1, <2>3, InvalidateGentle
  <2> QED BY <2>2, <2>3
<1> HIDE DEF x, u
<1>4. Gentle(v, u) BY <1>2, <1>3, GentleTrans
<1> QED BY <1>4 DEF u

LEMMA FinishGentle ==
  ASSUME NEW v \in Shell, Known(v), Told(v)
  PROVE  /\ Gentle(v, finishChargeRefreshUnavailable(v))
         /\ Gentle(v, finishChargeRefreshFailed(v))
         /\ Gentle(v, finishChargeRefreshIfReady(v))
         /\ Gentle(v, abandonChargeRefresh(v))
<1> DEFINE x == resetChargeRefresh(v)
           g == cancelChargeRefresh(v)
           n == [x.nearby EXCEPT !.shown = TRUE]
           y == [x EXCEPT !.nearby = n]
           a == v.nearby.refresh.attempt
<1>1. Keeps(v, x) /\ x.charge = v.charge BY ResetRefresh
<1>2. Keeps(v, g) /\ g.charge = v.charge BY GiveUpRefresh
<1>3. finishChargeRefreshUnavailable(v) \in {v, nearbyRefreshUnavailable(x, a)}
  BY DEF finishChargeRefreshUnavailable
<1>4. finishChargeRefreshFailed(v) \in {v, nearbyRefreshFailed(g, a)}
  BY DEF finishChargeRefreshFailed
<1>5. finishChargeRefreshIfReady(v) \in {v, nearbyRefreshCommitted(y, a)}
  BY DEF finishChargeRefreshIfReady
<1>6. abandonChargeRefresh(v) \in {g, nearbyRefreshUnavailable(g, a)}
  BY DEF abandonChargeRefresh
<1> HIDE DEF x, g, a
<1>7. Keeps(x, y) /\ y.charge = x.charge
  <2>1. n \in NearbyState /\ n.list = x.nearby.list /\ n.detail = x.nearby.detail
    BY <1>1, Parts DEF NearbyState, Keeps
  <2> HIDE DEF n
  <2> QED BY <1>1, <2>1, NearbySet DEF Keeps
<1> HIDE DEF y
<1>8. Gentle(v, x) /\ Gentle(v, g) /\ Gentle(v, y)
  BY <1>1, <1>2, <1>7, GentleSame DEF Keeps, Within, Frame
<1>9. /\ Gentle(v, nearbyRefreshUnavailable(x, a)) /\ Gentle(v, nearbyRefreshFailed(g, a))
      /\ Gentle(v, nearbyRefreshCommitted(y, a)) /\ Gentle(v, nearbyRefreshUnavailable(g, a))
  BY <1>1, <1>2, <1>7, <1>8, UnavailableGentle, FailedGentle, CommittedGentle, GentleTrans
     DEF Keeps
<1> QED BY <1>3, <1>4, <1>5, <1>6, <1>8, <1>9, GentleSelf

LEMMA DetailGentle ==
  ASSUME NEW v \in Shell, Known(v), Told(v), NEW attempt
  PROVE  /\ Gentle(v, applyChargeStationDetail(v, attempt))
         /\ Gentle(v, failChargeStationDetail(v, attempt))
<1> DEFINE r == v.nearby.refresh
           s == [r EXCEPT !.detailApplied = TRUE]
           n == [v.nearby EXCEPT !.refresh = s]
           y == [v EXCEPT !.nearby = n]
<1>1. CASE r = None \/ r.attempt # attempt
  BY <1>1, GentleSelf DEF applyChargeStationDetail, failChargeStationDetail
<1>2. CASE r # None /\ r.attempt = attempt
  <2>1. applyChargeStationDetail(v, attempt)
          \in {finishChargeRefreshUnavailable(v), finishChargeRefreshIfReady(y)}
    BY <1>2 DEF applyChargeStationDetail
  <2>2. failChargeStationDetail(v, attempt) = finishChargeRefreshFailed(v)
    BY <1>2 DEF failChargeStationDetail
  <2>3. v.nearby \in NearbyState /\ r \in Refresh BY <1>2, Parts DEF NearbyState, Maybe
  <2> HIDE DEF r
  <2>4. s \in Maybe(Refresh) BY <2>3 DEF Refresh, Maybe
  <2> HIDE DEF s
  <2>5. n \in NearbyState /\ n.list = v.nearby.list /\ n.detail = v.nearby.detail
    BY <2>3, <2>4 DEF NearbyState
  <2> HIDE DEF n
  <2>6. Keeps(v, y) /\ y.charge = v.charge BY <2>5, NearbySet
  <2> HIDE DEF y
  <2>7. Gentle(v, finishChargeRefreshIfReady(y))
    BY <2>6, FinishGentle, GentleSame, GentleTrans DEF Keeps, Within, Frame
  <2> QED BY <2>1, <2>2, <2>7, FinishGentle
<1> QED BY <1>1, <1>2

LEMMA StationsGentle ==
  ASSUME NEW v \in Shell, Known(v), Told(v),
         NEW kind \in {"foreground", "reconnect", "charge"}, NEW attempt \in 0..3
  PROVE  Gentle(v, requestNearbyStations(v, kind, attempt))
<1> DEFINE q == IF kind = "charge" THEN cancelChargeRefresh(v) ELSE abandonChargeRefresh(v)
           quiet == cancelPendingStationList(q)
           z == setSearchPending(quiet, TRUE)
           x == nextSearch(z)
           l == [kind |-> kind, fresh |-> TRUE, fits |-> TRUE]
           r == IF kind # "charge" THEN x.nearby.refresh
                ELSE [attempt |-> attempt, fresh |-> TRUE, fits |-> TRUE,
                      listApplied |-> FALSE, detailApplied |-> FALSE]
           n == [x.nearby EXCEPT !.list = l, !.refresh = r]
           asked == [x EXCEPT !.nearby = n]
           I(a) == IF kind = "charge" THEN invalidateNearbySelection(a) ELSE a
           K(a) == IF a.nearby.detail = None THEN a
                   ELSE setDetailControlsEnabled(supersedeDetail(I(a)), TRUE)
           U(a) == IF kind = "charge" THEN send(K(a), "list")
                   ELSE setDetailControlsEnabled(send(K(a), "list"), FALSE)
           i == I(asked)
           d == supersedeDetail(i)
           given == setDetailControlsEnabled(d, TRUE)
           k == IF asked.nearby.detail = None THEN asked ELSE given
           sent == send(k, "list")
           u == IF kind = "charge" THEN sent ELSE setDetailControlsEnabled(sent, FALSE)
<1>1. requestNearbyStations(v, kind, attempt) = u
  <2>2. requestNearbyStations(v, kind, attempt) =
          U([x EXCEPT !.nearby.list = l,
                  !.nearby.refresh =
                     IF kind # "charge" THEN @
                     ELSE [attempt |-> attempt, fresh |-> TRUE, fits |-> TRUE,
                           listApplied |-> FALSE, detailApplied |-> FALSE]])
    BY Zenon DEF requestNearbyStations
  <2>3. U(asked) = u OBVIOUS
  <2> HIDE DEF U
  <2>1. [x EXCEPT !.nearby.list = l,
                  !.nearby.refresh =
                     IF kind # "charge" THEN @
                     ELSE [attempt |-> attempt, fresh |-> TRUE, fits |-> TRUE,
                           listApplied |-> FALSE, detailApplied |-> FALSE]]
        = asked
    OBVIOUS
  <2> HIDE DEF asked, u
  <2> QED BY <2>1, <2>2, <2>3
<1>2. Keeps(v, q) /\ Gentle(v, q)
  BY GiveUpRefresh, Abandon, FinishGentle, GentleSame DEF Keeps, Within, Frame
<1> HIDE DEF q
<1>3. Keeps(q, quiet) /\ quiet.charge = q.charge BY <1>2, GiveUpList DEF Keeps
<1> HIDE DEF quiet
<1>4. Keeps(quiet, z) /\ z.charge = quiet.charge BY <1>3, SearchSet DEF Keeps
<1> HIDE DEF z
<1>5. Keeps(z, x) /\ x.charge = z.charge BY <1>4, NextSearch DEF Keeps
<1> HIDE DEF x
<1>6. Keeps(q, x) /\ x.charge = q.charge BY <1>3, <1>4, <1>5, KeepsTrans
<1>7. x.api.up = q.api.up BY <1>6 DEF Keeps, Within, Frame
<1>8. x \in Shell /\ Known(x) /\ Told(x) /\ Gentle(v, x)
  BY <1>2, <1>6, <1>7, GentleSame, GentleTrans DEF Keeps
<1>9. l \in Maybe(StationList) /\ r \in Maybe(Refresh)
  <2>1. l \in StationList BY DEF StationList
  <2>2. x.nearby.refresh \in Maybe(Refresh) BY <1>8, Parts DEF NearbyState
  <2>3. [attempt |-> attempt, fresh |-> TRUE, fits |-> TRUE,
         listApplied |-> FALSE, detailApplied |-> FALSE] \in Refresh
    BY DEF Refresh
  <2> QED BY <2>1, <2>2, <2>3 DEF Maybe
<1> HIDE DEF l, r
<1>10. n \in NearbyState /\ n.detail = x.nearby.detail
  <2>1. x.nearby \in NearbyState BY <1>8, Parts
  <2>2. n \in NearbyState BY <1>9, <2>1 DEF NearbyState
  <2> QED BY <2>1, <2>2 DEF NearbyState
<1> HIDE DEF n
<1>11. /\ asked \in Shell /\ asked.api = x.api /\ asked.charge = x.charge
       /\ asked.main = x.main /\ asked.history = x.history /\ asked.nearby = n
  BY <1>8, <1>10 DEF Shell
<1> HIDE DEF asked
<1>12. Known(asked) /\ Told(asked) /\ Gentle(v, asked)
  <2>1. Known(asked) /\ Told(asked) BY <1>8, <1>10, <1>11 DEF Known, Told, Slots
  <2> QED BY <1>8, <1>11, <2>1, GentleSame, GentleTrans
<1>13. i \in Shell /\ Known(i) /\ Told(i) /\ Gentle(v, i)
  <2>1. CASE kind # "charge" BY <1>11, <1>12, <2>1
  <2>2. CASE kind = "charge"
    <3>1. i = invalidateNearbySelection(asked) BY <2>2
    <3> HIDE DEF i
    <3> QED BY <1>11, <1>12, <3>1, InvalidateNearby, InvalidateNearbyGentle, GentleTrans
            DEF Keeps
  <2> QED BY <2>1, <2>2
<1> HIDE DEF i
<1>14. Keeps(i, d) /\ d.charge = i.charge BY <1>13, DropDetail DEF Forgets
<1> HIDE DEF d
<1>15. Keeps(d, given) /\ given.charge = d.charge BY <1>14, Controls DEF Keeps
<1> HIDE DEF given
<1>16. Keeps(i, given) /\ Gentle(v, given)
  <2>1. Keeps(i, given) BY <1>14, <1>15, KeepsTrans
  <2>2. given.api.up = i.api.up BY <2>1 DEF Keeps, Within, Frame
  <2> QED BY <1>13, <1>14, <1>15, <2>1, <2>2, GentleSame, GentleTrans
<1>17. k \in Shell /\ Gentle(v, k) BY <1>11, <1>12, <1>16 DEF Keeps
<1> HIDE DEF k
<1>18. sent \in Shell /\ sent.charge = k.charge /\ sent.api.up = k.api.up
  BY <1>17, SendRead DEF Read
<1> HIDE DEF sent
<1>19. u.charge = sent.charge /\ u.api = sent.api
  BY <1>18 DEF setDetailControlsEnabled, Shell
<1> HIDE DEF u
<1> QED BY <1>1, <1>17, <1>18, <1>19, GentleSame, GentleTrans

LEMMA RefreshAfterGentle ==
  ASSUME NEW v \in Shell, Known(v), Told(v), NEW attempt \in 0..3
  PROVE  Gentle(v, refreshAfterCharge(v, attempt))
BY StationsGentle, UnavailableGentle DEF refreshAfterCharge

-----------------------------------------------------------------------------
(* The handlers of the page of stations.                                   *)

Eased(v, u) == Keeps(v, u) /\ Gentle(v, u)

LEMMA EasedTrans ==
  ASSUME NEW a, NEW b, NEW c, Eased(a, b), Eased(b, c) PROVE Eased(a, c)
BY KeepsTrans, GentleTrans DEF Eased

LEMMA EasedSame ==
  ASSUME NEW v, NEW u, Keeps(v, u), u.charge = v.charge PROVE Eased(v, u)
BY GentleSame DEF Eased, Keeps, Within, Frame

LEMMA EasedShell ==
  ASSUME NEW v, NEW u, Eased(v, u) PROVE u \in Shell /\ Known(u) /\ Told(u)
BY DEF Eased, Keeps

LEMMA EasedSelf ==
  ASSUME NEW v \in Shell, Known(v), Told(v) PROVE Eased(v, v)
BY KeepsSelf, EasedSame

LEMMA EasedSteps ==
  ASSUME NEW v \in Shell, Known(v), Told(v), NEW on \in BOOLEAN
  PROVE  /\ Eased(v, setSearchPending(v, on))
         /\ Eased(v, setDetailControlsEnabled(v, on))
         /\ Eased(v, supersedeDetail(v))
         /\ Eased(v, cancelDetail(v))
         /\ Eased(v, cancelEveryDetail(v))
         /\ Eased(v, cancelPendingStationList(v))
         /\ Eased(v, cancelChargeRefresh(v))
         /\ Eased(v, nextSearch(v))
<1>1. Eased(v, setSearchPending(v, on)) /\ Eased(v, setDetailControlsEnabled(v, on))
  BY SearchSet, Controls, EasedSame
<1>2. Eased(v, cancelPendingStationList(v)) BY GiveUpList, EasedSame
<1>4. /\ Eased(v, supersedeDetail(v)) /\ Eased(v, cancelDetail(v))
      /\ Eased(v, cancelEveryDetail(v))
  BY DropDetail, EasedSame DEF Forgets
<1>3. Eased(v, cancelChargeRefresh(v)) /\ Eased(v, nextSearch(v))
  BY GiveUpRefresh, NextSearch, EasedSame
<1> QED BY <1>1, <1>2, <1>3, <1>4

LEMMA EasedEnds ==
  ASSUME NEW v \in Shell, Known(v), Told(v)
  PROVE  /\ Eased(v, finishChargeRefreshUnavailable(v))
         /\ Eased(v, finishChargeRefreshFailed(v))
         /\ Eased(v, finishChargeRefreshIfReady(v))
         /\ Eased(v, abandonChargeRefresh(v))
         /\ Eased(v, invalidateNearbySelection(v))
<1>1. Eased(v, finishChargeRefreshUnavailable(v)) /\ Eased(v, finishChargeRefreshFailed(v))
  BY FinishUnavailable, FinishFailed, FinishGentle DEF Eased
<1>2. Eased(v, finishChargeRefreshIfReady(v)) /\ Eased(v, abandonChargeRefresh(v))
  BY FinishIfReady, Abandon, FinishGentle DEF Eased
<1>3. Eased(v, invalidateNearbySelection(v))
  BY InvalidateNearby, InvalidateNearbyGentle DEF Eased
<1> QED BY <1>1, <1>2, <1>3

\* The page of stations alone is set.
LEMMA EasedSet ==
  ASSUME NEW v \in Shell, Known(v), Told(v), NEW n \in NearbyState,
         n.list # None <=> v.nearby.list # None
  PROVE  Eased(v, [v EXCEPT !.nearby = n])
BY NearbySet, EasedSame

LEMMA EasedFlags ==
  ASSUME NEW v \in Shell, Known(v), Told(v), NEW f \in BOOLEAN, NEW g \in BOOLEAN
  PROVE  /\ Eased(v, [v EXCEPT !.nearby.geocode = g, !.nearby.foreground = f])
         /\ Eased(v, [v EXCEPT !.nearby.geocode = f])
         /\ Eased(v, [v EXCEPT !.nearby.foreground = f])
<1>1. /\ [v EXCEPT !.nearby.geocode = f].charge = v.charge
      /\ [v EXCEPT !.nearby.foreground = f].charge = v.charge
  BY DEF Shell
<1> QED BY <1>1, Flagged, FlaggedOne, EasedSame

LEMMA EasedList ==
  ASSUME NEW v \in Shell, Known(v), Told(v), "list" \notin Slots(v)
  PROVE  Eased(v, listOver(v)) /\ Eased(v, listIgnored(v))
<1> DEFINE x == listOver(v)
<1>1. Eased(v, x)
  <2>1. Keeps(v, x) BY ListOver
  <2>2. x.charge = v.charge BY DEF listOver, setSearchPending, Shell
  <2> HIDE DEF x
  <2> QED BY <2>1, <2>2, EasedSame
<1>2. listIgnored(v) = IF v.nearby.list.kind = "charge" THEN finishChargeRefreshUnavailable(x)
                       ELSE x
  BY DEF listIgnored
<1> HIDE DEF x
<1>3. Eased(x, finishChargeRefreshUnavailable(x)) BY <1>1, EasedShell, EasedEnds
<1>4. Eased(v, finishChargeRefreshUnavailable(x)) BY <1>1, <1>3, EasedTrans
<1>5. Eased(v, listIgnored(v)) BY <1>1, <1>2, <1>4
<1> QED BY <1>1, <1>5 DEF x

\* As ForegroundList.
LEMMA EasedForeground ==
  ASSUME NEW v \in Shell, Known(v), Told(v), "list" \notin Slots(v), NEW has \in BOOLEAN
  PROVE  Eased(v, [invalidateNearbySelection(
                     nextSearch([[supersedeDetail(v) EXCEPT !.nearby.list = None]
                                   EXCEPT !.nearby.foreground = FALSE]))
                     EXCEPT !.nearby.origin = TRUE, !.nearby.known = has, !.nearby.shown = FALSE])
<1> DEFINE d == supersedeDetail(v)
           x == [d EXCEPT !.nearby.list = None, !.nearby.foreground = FALSE]
           y == nextSearch(x)
           i == invalidateNearbySelection(y)
           u == [i EXCEPT !.nearby.origin = TRUE, !.nearby.known = has, !.nearby.shown = FALSE]
<1>1. Eased(v, d) /\ "list" \notin Slots(d) BY DropDetail, EasedSame DEF Forgets
<1>2. [[d EXCEPT !.nearby.list = None] EXCEPT !.nearby.foreground = FALSE] = x
  <2> HIDE DEF d
  <2>1. d \in Shell /\ d.nearby \in NearbyState BY <1>1, EasedShell, Parts
  <2> QED BY <2>1 DEF Shell, NearbyState
<1> HIDE DEF d
<1>3. Eased(d, x)
  <2>1. d \in Shell /\ Keeps(d, x) BY <1>1, EasedShell, ListGone
  <2>2. x.charge = d.charge BY <2>1 DEF Shell
  <2> QED BY <2>1, <2>2, EasedSame
<1> HIDE DEF x
<1>4. Eased(x, y) BY <1>3, EasedShell, EasedSteps
<1> HIDE DEF y
<1>5. Eased(y, i) BY <1>4, EasedShell, EasedEnds
<1> HIDE DEF i
<1>6. Eased(i, u)
  <2>1. i \in Shell /\ Known(i) /\ Told(i) /\ i.nearby \in NearbyState
    BY <1>5, EasedShell, Parts
  <2> DEFINE n == [i.nearby EXCEPT !.origin = TRUE, !.known = has, !.shown = FALSE]
  <2>2. n \in NearbyState BY <2>1 DEF NearbyState
  <2>3. n.list = i.nearby.list /\ n.detail = i.nearby.detail BY <2>1 DEF NearbyState
  <2>5. u = [i EXCEPT !.nearby = n] OBVIOUS
  <2> HIDE DEF n, u
  <2> QED BY <2>1, <2>2, <2>3, <2>5, EasedSet
<1> HIDE DEF u
<1>7. Eased(v, u) BY <1>1, <1>3, <1>4, <1>5, <1>6, EasedTrans
<1> QED BY <1>2, <1>7 DEF d, x, y, i, u

LEMMA EasedStations ==
  ASSUME NEW v \in Shell, Known(v), Told(v), "list" \notin Slots(v), NEW has \in BOOLEAN
  PROVE  Eased(v, applyStations(v, has))
<1> DEFINE kind == v.nearby.list.kind
           u == applyStations(v, has)
<1> SUFFICES Eased(v, u) OBVIOUS
<1>1. CASE kind = "foreground"
  <2>1. u = [invalidateNearbySelection(
               nextSearch([[supersedeDetail(v) EXCEPT !.nearby.list = None]
                             EXCEPT !.nearby.foreground = FALSE]))
               EXCEPT !.nearby.origin = TRUE, !.nearby.known = has, !.nearby.shown = FALSE]
    BY <1>1 DEF applyStations
  <2> HIDE DEF u
  <2> QED BY <2>1, EasedForeground
<1>2. CASE kind # "foreground"
  <2> DEFINE n == [v.nearby EXCEPT !.list = None, !.known = has]
             x == [v EXCEPT !.nearby = n]
             s == [v.nearby.refresh EXCEPT !.listApplied = TRUE]
             p == [n EXCEPT !.refresh = s]
             y == [x EXCEPT !.nearby = p]
             i == invalidateNearbySelection(x)
             z == [i EXCEPT !.nearby.shown = FALSE]
  <2>1. [[v EXCEPT !.nearby.list = None] EXCEPT !.nearby.known = has] = x
    BY Parts DEF Shell, NearbyState
  <2>2. [x EXCEPT !.nearby.refresh.listApplied = TRUE] = y
    BY Parts DEF Shell, NearbyState
  <2>3. u = IF kind # "charge" \/ v.nearby.refresh = None THEN x
            ELSE IF has THEN finishChargeRefreshIfReady(y)
            ELSE finishChargeRefreshUnavailable(z)
    <3> DEFINE A == [[v EXCEPT !.nearby.list = None] EXCEPT !.nearby.known = has]
               B == [A EXCEPT !.nearby.refresh.listApplied = TRUE]
               C == [invalidateNearbySelection(A) EXCEPT !.nearby.shown = FALSE]
    <3>1. u = IF kind # "charge" \/ v.nearby.refresh = None THEN A
              ELSE IF has THEN finishChargeRefreshIfReady(B)
              ELSE finishChargeRefreshUnavailable(C)
      BY <1>2 DEF applyStations
    <3> HIDE DEF u
    <3>2. A = x BY <2>1
    <3> HIDE DEF A, x
    <3>3. B = y BY <2>2, <3>2
    <3>4. C = z BY <3>2
    <3> HIDE DEF B, C, y, z
    <3> QED BY <3>1, <3>2, <3>3, <3>4
  <2>4. v.nearby \in NearbyState BY Parts
  <2>5. n \in NearbyState /\ n.list = None /\ n.detail = v.nearby.detail
    <3>1. n \in NearbyState BY <2>4, NoneFits DEF NearbyState
    <3> QED BY <2>4, <3>1 DEF NearbyState
  <2> HIDE DEF n, u
  <2>6. Eased(v, x) /\ x.nearby = n BY <2>5, ListAnswered, EasedSame
  <2> HIDE DEF x
  <2>7. CASE kind # "charge" \/ v.nearby.refresh = None
    BY <2>3, <2>6, <2>7
  <2>8. CASE kind = "charge" /\ v.nearby.refresh # None /\ has
    <3>1. s \in Maybe(Refresh)
      <4>1. v.nearby.refresh \in Refresh BY <2>4, <2>8 DEF NearbyState, Maybe
      <4> QED BY <4>1 DEF Refresh, Maybe
    <3> HIDE DEF s
    <3>2. p \in NearbyState BY <2>5, <3>1 DEF NearbyState
    <3>3. p.list = n.list /\ p.detail = n.detail BY <2>5 DEF NearbyState
    <3> HIDE DEF p
    <3>4. Eased(x, y) BY <2>6, <3>2, <3>3, EasedShell, EasedSet
    <3> HIDE DEF y
    <3>5. Eased(y, finishChargeRefreshIfReady(y)) BY <3>4, EasedShell, EasedEnds
    <3>6. u = finishChargeRefreshIfReady(y) BY <2>3, <2>8
    <3> QED BY <2>6, <3>4, <3>5, <3>6, EasedTrans
  <2>9. CASE kind = "charge" /\ v.nearby.refresh # None /\ ~has
    <3>1. Eased(x, i) BY <2>6, EasedShell, EasedEnds
    <3> DEFINE q == [i.nearby EXCEPT !.shown = FALSE]
    <3>2. i \in Shell /\ Known(i) /\ Told(i) /\ i.nearby \in NearbyState
      BY <3>1, EasedShell, Parts
    <3>3. q \in NearbyState BY <3>2 DEF NearbyState
    <3>4. q.list = i.nearby.list /\ q.detail = i.nearby.detail BY <3>2 DEF NearbyState
    <3>5. z = [i EXCEPT !.nearby = q] OBVIOUS
    <3> HIDE DEF i, q, z
    <3>6. Eased(i, z) BY <3>2, <3>3, <3>4, <3>5, EasedSet
    <3>7. Eased(z, finishChargeRefreshUnavailable(z)) BY <3>6, EasedShell, EasedEnds
    <3>8. u = finishChargeRefreshUnavailable(z) BY <2>3, <2>9
    <3> QED BY <2>6, <3>1, <3>6, <3>7, <3>8, EasedTrans
  <2> QED BY <2>7, <2>8, <2>9
<1> QED BY <1>1, <1>2

LEMMA EasedLoaded ==
  ASSUME NEW v \in Shell, Known(v), Told(v), "list" \notin Slots(v), NEW has \in BOOLEAN
  PROVE  Eased(v, nearbyStationsLoaded(v, has))
<1> DEFINE x == applyStations(v, has)
           y == setSearchPending(x, FALSE)
           z == setDetailControlsEnabled(y, TRUE)
<1>0. nearbyStationsLoaded(v, has) \in {listIgnored(v), z} BY DEF nearbyStationsLoaded
<1>1. Eased(v, x) BY EasedStations
<1> HIDE DEF x
<1>2. Eased(x, y) BY <1>1, EasedShell, EasedSteps
<1> HIDE DEF y
<1>3. Eased(y, z) BY <1>2, EasedShell, EasedSteps
<1> HIDE DEF z
<1>4. Eased(v, z) BY <1>1, <1>2, <1>3, EasedTrans
<1> QED BY <1>0, <1>4, EasedList

LEMMA EasedFailed ==
  ASSUME NEW v \in Shell, Known(v), Told(v), "list" \notin Slots(v)
  PROVE  Eased(v, nearbyStationsFailed(v))
<1> DEFINE x == listOver(v)
           y == setDetailControlsEnabled(x, TRUE)
           i == listIgnored(v)
           f == v.nearby.foreground
           z == [i EXCEPT !.nearby.foreground = f]
<1>0. nearbyStationsFailed(v) \in {z, finishChargeRefreshFailed(y), y}
  BY DEF nearbyStationsFailed
<1>1. Eased(v, x) BY EasedList
<1> HIDE DEF x
<1>2. Eased(x, y) BY <1>1, EasedShell, EasedSteps
<1> HIDE DEF y
<1>3. Eased(v, y) BY <1>1, <1>2, EasedTrans
<1>4. Eased(y, finishChargeRefreshFailed(y)) BY <1>2, EasedShell, EasedEnds
<1>5. Eased(v, finishChargeRefreshFailed(y)) BY <1>3, <1>4, EasedTrans
<1>6. Eased(v, i) BY EasedList
<1>7. f \in BOOLEAN BY Parts DEF NearbyState
<1> HIDE DEF i, f
<1>8. Eased(i, z) BY <1>6, <1>7, EasedShell, EasedFlags
<1> HIDE DEF z
<1>9. Eased(v, z) BY <1>6, <1>8, EasedTrans
<1> QED BY <1>0, <1>3, <1>5, <1>9

\* The details under way are the page's own business.
LEMMA EasedDetails ==
  ASSUME NEW v \in Shell, Known(v), Told(v), NEW u, OnlyDetails(v, u)
  PROVE  Eased(v, u)
BY DetailsKeep, EasedSame DEF OnlyDetails

LEMMA EasedCancelled ==
  ASSUME NEW v \in Shell, Known(v), Told(v), NEW ids
  PROVE  Eased(v, cancelDetails(v, ids))
BY CancelDetails, EasedDetails

LEMMA EasedRequest ==
  ASSUME NEW v \in Shell, Known(v), Told(v), NEW id \in DetailId
  PROVE  Eased(v, requestStationDetail(v, id))
<1> DEFINE a == abandonChargeRefresh(v)
           i == invalidateNearbySelection(a)
           c == setDetailControlsEnabled(i, FALSE)
           d == [id |-> id, fits |-> TRUE]
           n == [c.nearby EXCEPT !.detail = d]
           x == [c EXCEPT !.nearby = n]
           u == sendDetail(x, id)
<1>1. requestStationDetail(v, id) = u BY DEF requestStationDetail
<1>2. Eased(v, a) BY EasedEnds
<1> HIDE DEF a
<1>3. Eased(a, i) BY <1>2, EasedShell, EasedEnds
<1> HIDE DEF i
<1>4. Eased(i, c) BY <1>3, EasedShell, EasedSteps
<1> HIDE DEF c
<1>5. d \in Detail BY DEF Detail
<1> HIDE DEF d
<1>6. d \in Maybe(Detail) BY <1>5 DEF Maybe
<1>7. c \in Shell /\ Known(c) /\ Told(c) /\ c.nearby \in NearbyState
  BY <1>4, EasedShell, Parts
<1>8. n \in NearbyState /\ n.list = c.nearby.list
  <2>1. n \in NearbyState BY <1>6, <1>7 DEF NearbyState
  <2> QED BY <1>7, <2>1 DEF NearbyState
<1> HIDE DEF n
<1>9. Eased(c, x)
  <2> HIDE DEF x
  <2> QED BY <1>7, <1>8, EasedSet DEF x
<1> HIDE DEF x
<1>10. OnlyDetails(x, u) BY <1>9, EasedShell, SendDetail
<1>11. Eased(x, u) BY <1>9, <1>10, EasedShell, EasedDetails
<1> HIDE DEF u
<1> QED BY <1>1, <1>2, <1>3, <1>4, <1>9, <1>11, EasedTrans

LEMMA EasedDetail ==
  ASSUME NEW v \in Shell, Known(v), Told(v), NEW id
  PROVE  Eased(v, stationDetailLoaded(v, id)) /\ Eased(v, stationDetailFailed(v, id))
<1> DEFINE g == [v EXCEPT !.nearby.detail = None]
           s == [v EXCEPT !.nearby.superseded = @ \ {id}]
           a == abandonChargeRefresh(g)
           i == invalidateNearbySelection(a)
           n == [i.nearby EXCEPT !.shown = TRUE]
           x == [i EXCEPT !.nearby = n]
           c == setDetailControlsEnabled(x, TRUE)
           e == setDetailControlsEnabled(g, TRUE)
<1>1. Eased(v, g) /\ Eased(v, s)
  <2>1. g.charge = v.charge /\ s.charge = v.charge BY DEF Shell
  <2>2. Keeps(v, g) /\ Keeps(v, s) BY DetailGone
  <2> HIDE DEF g, s
  <2> QED BY <2>1, <2>2, EasedSame
<1>2. x = [i EXCEPT !.nearby.shown = TRUE] OBVIOUS
<1>3. stationDetailFailed(v, id) \in {s, e} /\ stationDetailLoaded(v, id) \in {s, c}
  BY <1>2 DEF stationDetailFailed, stationDetailLoaded
<1> HIDE DEF g, s
<1>4. Eased(g, e) BY <1>1, EasedShell, EasedSteps
<1> HIDE DEF e
<1>5. Eased(g, a) BY <1>1, EasedShell, EasedEnds
<1> HIDE DEF a
<1>6. Eased(a, i) BY <1>5, EasedShell, EasedEnds
<1> HIDE DEF i
<1>7. Eased(i, x)
  <2>1. i \in Shell /\ Known(i) /\ Told(i) /\ i.nearby \in NearbyState
    BY <1>6, EasedShell, Parts
  <2>2. n \in NearbyState BY <2>1 DEF NearbyState
  <2>3. n.list = i.nearby.list /\ n.detail = i.nearby.detail BY <2>1 DEF NearbyState
  <2> HIDE DEF n
  <2> QED BY <2>1, <2>2, <2>3, EasedSet
<1> HIDE DEF x
<1>8. Eased(x, c) BY <1>7, EasedShell, EasedSteps
<1> HIDE DEF c
<1>9. Eased(v, e) /\ Eased(v, c) BY <1>1, <1>4, <1>5, <1>6, <1>7, <1>8, EasedTrans
<1> QED BY <1>1, <1>3, <1>9

LEMMA EasedAnswer ==
  ASSUME NEW v \in Shell, Known(v), Told(v), NEW id
  PROVE  /\ Eased(v, stationDetailLoaded(cancelDetails(v, {id}), id))
         /\ Eased(v, stationDetailFailed(cancelDetails(v, {id}), id))
<1> DEFINE x == cancelDetails(v, {id})
<1>1. Eased(v, x) BY EasedCancelled
<1> HIDE DEF x
<1>2. Eased(x, stationDetailLoaded(x, id)) /\ Eased(x, stationDetailFailed(x, id))
  BY <1>1, EasedShell, EasedDetail
<1>3. Eased(v, stationDetailLoaded(x, id)) /\ Eased(v, stationDetailFailed(x, id))
  BY <1>1, <1>2, EasedTrans
<1> QED BY <1>3 DEF x

LEMMA EasedSearch ==
  ASSUME NEW v \in Shell, Known(v), Told(v)
  PROVE  Eased(v, searchCurrentAddress(v))
<1> DEFINE a == nextSearch(v)
           b == [a EXCEPT !.nearby.foreground = TRUE]
           c == setSearchPending(b, TRUE)
           d == setDetailControlsEnabled(c, FALSE)
           e == abandonChargeRefresh(d)
           f == cancelPendingStationList(e)
           g == cancelDetail(f)
           h == [g EXCEPT !.nearby.geocode = TRUE]
<1>0. searchCurrentAddress(v) = h BY DEF searchCurrentAddress
<1>1. Eased(v, a) BY EasedSteps
<1> HIDE DEF a
<1>2. Eased(a, b) BY <1>1, EasedShell, EasedFlags
<1> HIDE DEF b
<1>3. Eased(b, c) BY <1>2, EasedShell, EasedSteps
<1> HIDE DEF c
<1>4. Eased(c, d) BY <1>3, EasedShell, EasedSteps
<1> HIDE DEF d
<1>5. Eased(d, e) BY <1>4, EasedShell, EasedEnds
<1> HIDE DEF e
<1>6. Eased(e, f) BY <1>5, EasedShell, EasedSteps
<1> HIDE DEF f
<1>7. Eased(f, g) BY <1>6, EasedShell, EasedSteps
<1> HIDE DEF g
<1>8. Eased(g, h) BY <1>7, EasedShell, EasedFlags
<1> HIDE DEF h
<1>9. Eased(v, d) BY <1>1, <1>2, <1>3, <1>4, EasedTrans
<1>10. Eased(d, h) BY <1>5, <1>6, <1>7, <1>8, EasedTrans
<1> QED BY <1>0, <1>9, <1>10, EasedTrans

LEMMA EasedGeocode ==
  ASSUME NEW v \in Shell, Known(v), Told(v)
  PROVE  Eased(v, geocodeSucceeded(v)) /\ Eased(v, geocodeFailed(v))
<1>1. Eased(v, geocodeSucceeded(v))
  <2> DEFINE a == [v EXCEPT !.nearby.geocode = FALSE, !.nearby.foreground = TRUE]
             b == abandonChargeRefresh(a)
             c == cancelPendingStationList(b)
             d == supersedeDetail(c)
             e == setDetailControlsEnabled(d, FALSE)
             f == requestNearbyStations(e, "foreground", 0)
  <2>0. geocodeSucceeded(v) = f BY DEF geocodeSucceeded
  <2>1. Eased(v, a) BY EasedFlags
  <2> HIDE DEF a
  <2>2. Eased(a, b) BY <2>1, EasedShell, EasedEnds
  <2> HIDE DEF b
  <2>3. Eased(b, c) BY <2>2, EasedShell, EasedSteps
  <2> HIDE DEF c
  <2>4. Eased(c, d) BY <2>3, EasedShell, EasedSteps
  <2> HIDE DEF d
  <2>5. Eased(d, e) BY <2>4, EasedShell, EasedSteps
  <2> HIDE DEF e
  <2>6. Eased(e, f)
    <3>1. Keeps(e, f) BY <2>5, Small, EasedShell, RequestStations
    <3>2. Gentle(e, f) BY <2>5, Small, EasedShell, StationsGentle
    <3> QED BY <3>1, <3>2 DEF Eased
  <2> HIDE DEF f
  <2>7. Eased(v, c) BY <2>1, <2>2, <2>3, EasedTrans
  <2>8. Eased(c, f) BY <2>4, <2>5, <2>6, EasedTrans
  <2> QED BY <2>0, <2>7, <2>8, EasedTrans
<1>2. Eased(v, geocodeFailed(v))
  <2> DEFINE a == [v EXCEPT !.nearby.geocode = FALSE, !.nearby.foreground = FALSE]
             b == setSearchPending(a, FALSE)
             p == v.api.up
             c == setDetailControlsEnabled(b, p)
  <2>0. geocodeFailed(v) = c BY DEF geocodeFailed
  <2>1. Eased(v, a) BY EasedFlags
  <2> HIDE DEF a
  <2>2. Eased(a, b) BY <2>1, EasedShell, EasedSteps
  <2> HIDE DEF b
  <2>3. p \in BOOLEAN BY Parts DEF ApiState
  <2> HIDE DEF p
  <2>4. Eased(b, c) BY <2>2, <2>3, EasedShell, EasedSteps
  <2> HIDE DEF c
  <2> QED BY <2>0, <2>1, <2>2, <2>4, EasedTrans
<1> QED BY <1>1, <1>2

LEMMA EasedReconnect ==
  ASSUME NEW v \in Shell, Known(v), Told(v)
  PROVE  Eased(v, requestReconnectStations(v)) /\ requestReconnectStations(v).charge = v.charge
<1> DEFINE a == cancelPendingStationList(v)
           b == nextSearch(a)
           x == [b EXCEPT !.nearby.list = [kind |-> "reconnect", fresh |-> TRUE, fits |-> TRUE]]
           u == send(x, "list")
<1>1. requestReconnectStations(v) \in {v, u} BY DEF requestReconnectStations
<1>2. a \in Shell /\ Known(a) /\ Told(a) /\ a.charge = v.charge BY GiveUpList DEF Keeps
<1> HIDE DEF a
<1>3. b \in Shell /\ b.charge = v.charge BY <1>2, NextSearch DEF Keeps
<1> HIDE DEF b
<1>4. x.charge = v.charge /\ u.charge = x.charge BY <1>3 DEF Shell, send
<1> HIDE DEF x, u
<1>5. requestReconnectStations(v).charge = v.charge BY <1>1, <1>4
<1> QED BY <1>5, ReconnectStations, EasedSame

LEMMA EasedConnection ==
  ASSUME NEW v \in Shell, Known(v), Told(v)
  PROVE  Eased(v, NearbyConnectionChanged(v))
<1>1. CASE v.api.up
  <2> DEFINE p == v.nearby.foreground \/ v.nearby.geocode \/ v.nearby.list # None
             q == v.nearby.controls \/ (v.nearby.list = None /\ ~v.nearby.foreground)
             a == setSearchPending(v, p)
             b == setDetailControlsEnabled(a, q)
  <2>0. NearbyConnectionChanged(v) = b BY <1>1 DEF NearbyConnectionChanged
  <2>1. p \in BOOLEAN /\ q \in BOOLEAN BY Parts DEF NearbyState
  <2> HIDE DEF p, q
  <2>2. Eased(v, a) BY <2>1, EasedSteps
  <2> HIDE DEF a
  <2>3. Eased(a, b) BY <2>1, <2>2, EasedShell, EasedSteps
  <2> HIDE DEF b
  <2> QED BY <2>0, <2>2, <2>3, EasedTrans
<1>2. CASE ~v.api.up
  <2> DEFINE a == [v EXCEPT !.nearby.geocode = FALSE, !.nearby.foreground = FALSE]
             b == cancelChargeRefresh(a)
             c == cancelPendingStationList(b)
             d == cancelEveryDetail(c)
             e == setDetailControlsEnabled(d, TRUE)
             f == setSearchPending(e, FALSE)
  <2>0. NearbyConnectionChanged(v) = f BY <1>2 DEF NearbyConnectionChanged
  <2>1. Eased(v, a) BY EasedFlags
  <2> HIDE DEF a
  <2>2. Eased(a, b) BY <2>1, EasedShell, EasedSteps
  <2> HIDE DEF b
  <2>3. Eased(b, c) BY <2>2, EasedShell, EasedSteps
  <2> HIDE DEF c
  <2>4. Eased(c, d) BY <2>3, EasedShell, EasedSteps
  <2> HIDE DEF d
  <2>5. Eased(d, e) BY <2>4, EasedShell, EasedSteps
  <2> HIDE DEF e
  <2>6. Eased(e, f) BY <2>5, EasedShell, EasedSteps
  <2> HIDE DEF f
  <2>7. Eased(v, c) BY <2>1, <2>2, <2>3, EasedTrans
  <2>8. Eased(c, f) BY <2>4, <2>5, <2>6, EasedTrans
  <2> QED BY <2>0, <2>7, <2>8, EasedTrans
<1> QED BY <1>1, <1>2

-----------------------------------------------------------------------------
(* While a mutation is on its way, the page of the order stays and offers   *)
(* none, and no read of it is answered before the mutation is taken.        *)

\* What keeps the page from offering a mutation until the order was read again.
Bound(c) ==
  /\ ~c.exit
  /\ \/ c.mutation # None /\ ~c.mutation.superseded
     \/ c.reconcile /\ (c.facts # None => c.gate)

Late(v) == \A s \in {"page", "facts"} \cap Slots(v) : v.api.reads[s] # 0

Careful(v) ==
  v.api.ops # <<>> =>
    /\ v.api.up /\ Len(v.api.ops) = 1
    /\ v.main.page = "charge" \/ (v.main.page = "login" /\ ~v.api.user /\ ~v.main.guard)
    /\ "login" \in Slots(v) => v.api.reads["login"] # 0
    /\ v.charge.active =>
         /\ Bound(v.charge)
         /\ v.charge.mutation = None \/ v.charge.mutation.superseded => Late(v)

LEMMA BoundHeld ==
  ASSUME NEW c, NEW d, Bound(c), Held(c) => Fixed(c, d), d.mutation = c.mutation
  PROVE  Bound(d)
<1>1. Held(c) BY DEF Bound, Held, chargeFlowBlocked
<1> QED BY <1>1 DEF Bound, Fixed

LEMMA CarefulFrame ==
  ASSUME NEW v, NEW u, Frame(v, u), Gentle(v, u), Careful(v)
  PROVE  Careful(u)
<1> SUFFICES ASSUME v.api.ops # <<>>
             PROVE  Careful(u)
  BY DEF Careful, Frame
<1>1. Len(v.api.ops) = 1 BY DEF Careful
<1>2. v.charge.active => Bound(u.charge)
  BY BoundHeld DEF Careful, Gentle, Frame
<1>3. "login" \in Slots(u) => u.api.reads["login"] # 0
  BY <1>1 DEF Careful, Frame
<1>4. Late(v) => Late(u)
  BY <1>1 DEF Late, Frame
<1> QED BY <1>1, <1>2, <1>3, <1>4 DEF Careful, Frame

LEMMA CarefulIdle ==
  ASSUME NEW v, v.api.ops = <<>> PROVE Careful(v)
BY DEF Careful

\* A step that shows the page keeps what was so before.
LEMMA CarefulShown ==
  ASSUME NEW v \in Shell, Known(v), Told(v), Careful(v)
  PROVE  Careful(Shown(v))
<1> DEFINE u == Shown(v)
<1>1. Settles(v, u) /\ Gentle(v, u) BY ShownSettles, ShownGentle
<1> HIDE DEF u
<1>2. Frame(v, u) BY <1>1 DEF Settles, Moves, Within
<1>3. Careful(u) BY <1>1, <1>2, CarefulFrame
<1> QED BY <1>3 DEF u

LEMMA CarefulEased ==
  ASSUME NEW v, NEW u, Eased(v, u), Careful(v)
  PROVE  Careful(u)
BY CarefulFrame DEF Eased, Keeps, Within

-----------------------------------------------------------------------------
(* What the handlers of the page do to what it awaits.                     *)

\* A read of the current order that the page has just sent, for the order it shows.
Reading(c, op, d) ==
  d.read # None => d.read.op = op /\ d.read.owner = orderId(c.order)

\* The page reads its order again and waits for that.
Reconciling(v, u) ==
  /\ v.charge.mutation = None /\ v.charge.active /\ v.api.up
  /\ u.charge.reconcile /\ u.charge.facts = None /\ u.charge.exit = v.charge.exit
  /\ ~u.charge.factsFailed /\ "page" \notin Slots(v) /\ Reading(v.charge, "reconcile", u.charge)
  /\ Offering(u)

LEMMA LoadedRecord ==
  ASSUME NEW v \in Shell, NEW op
  PROVE  LET c == loadCurrentOrder(v, op).charge IN
         /\ c.read.op = op /\ c.read.owner = orderId(v.charge.order)
         /\ c = [v.charge EXCEPT !.read = c.read]
<1> DEFINE x == send(v, "page")
           r == [op |-> op, selGen |-> v.charge.selGen, owner |-> orderId(v.charge.order)]
           u == [x EXCEPT !.charge.read = r]
<1>1. x \in Shell /\ x.charge = v.charge BY SendRead DEF Read, CurrentRead
<1>2. v.charge \in ChargeState BY Parts
<1>3. loadCurrentOrder(v, op) = u BY DEF loadCurrentOrder
<1>4. r.op = op /\ r.owner = orderId(v.charge.order) OBVIOUS
<1> HIDE DEF x, r
<1>5. u.charge = [v.charge EXCEPT !.read = r] BY <1>1 DEF Shell
<1> HIDE DEF u
<1>6. u.charge.read = r BY <1>2, <1>5 DEF ChargeState
<1> QED BY <1>3, <1>4, <1>5, <1>6

\* As RequestReconciliation.
LEMMA ReconciliationDone ==
  ASSUME NEW v \in Shell, Known(v), Told(v)
  PROVE  LET u == requestReconciliation(v) IN u = v \/ Reconciling(v, u)
<1> DEFINE c == [v.charge EXCEPT !.polling = FALSE, !.reconcile = TRUE,
                                 !.factsFailed = FALSE, !.exitFailed = FALSE]
           x == [v EXCEPT !.charge = c, !.main = v.main]
           y == cancelOwnedSafeReads(x)
           z == loadCurrentOrder(y, "reconcile")
           u == requestReconciliation(v)
<1>1. CASE ~v.api.up \/ ~v.charge.active \/ v.charge.read # None \/ v.charge.mutation # None
  BY <1>1 DEF requestReconciliation
<1>2. CASE ~(~v.api.up \/ ~v.charge.active \/ v.charge.read # None \/ v.charge.mutation # None)
  <2>1. x = [v EXCEPT !.charge.polling = FALSE, !.charge.reconcile = TRUE,
                      !.charge.factsFailed = FALSE, !.charge.exitFailed = FALSE]
    BY DEF Shell
  <2>2. u = Shown(z)
    <3> HIDE DEF x
    <3> QED BY <1>2, <2>1 DEF requestReconciliation
  <2>a. /\ v.charge \in ChargeState /\ v.main \in MainState /\ Paged(v.charge)
        /\ v.main.blocked = v.charge.reported
    BY Parts DEF Known, Told
  <2>3. c \in ChargeState BY <2>a DEF ChargeState
  <2>4. /\ c.active = v.charge.active /\ c.order = v.charge.order
        /\ c.mutation = v.charge.mutation /\ c.facts = v.charge.facts /\ c.read = v.charge.read
        /\ c.selection = v.charge.selection /\ c.reported = v.charge.reported
        /\ c.selGen = v.charge.selGen /\ c.exit = v.charge.exit /\ ~c.exitFailed
        /\ c.attempt = v.charge.attempt /\ c.reconcile /\ ~c.factsFailed
    BY <2>a DEF ChargeState
  <2> HIDE DEF c
  <2>5. Moves(v, x) /\ x.charge = c
    <3>1. SameMain(v.main, v.main) BY DEF SameMain
    <3>2. Paged(c) BY <2>a, <2>4, PagedSame
    <3>3. x.charge = c BY DEF Shell
    <3> QED BY <2>a, <2>3, <2>4, <3>1, <3>2, <3>3, ChargeAlone DEF Withdrawn
  <2> HIDE DEF x
  <2>6. /\ Moves(x, y) /\ y.charge.active /\ y.charge.facts = None
        /\ ~y.charge.exitFailed /\ (y.charge.exit => y.charge.attempt = 0)
        /\ y.charge.reconcile /\ ~y.charge.factsFailed /\ y.charge.exit = v.charge.exit
        /\ y.charge.order = v.charge.order
    <3>1. x.charge \in ChargeState BY <2>5, Parts DEF Moves
    <3>2. /\ Moves(x, y)
          /\ y.charge = [x.charge EXCEPT
                          !.read = None, !.facts = None, !.gate = FALSE,
                          !.attempt = IF x.charge.exit THEN 0 ELSE @, !.current = TRUE]
      BY <2>5, GiveUpOwned DEF Moves
    <3> HIDE DEF y
    <3> QED BY <1>2, <2>4, <2>5, <3>1, <3>2 DEF ChargeState
  <2> HIDE DEF y
  <2>7. Moves(y, z) BY <2>6, LoadOrder DEF Moves
  <2>8. /\ z.charge.read.op = "reconcile" /\ z.charge.read.owner = orderId(v.charge.order)
        /\ z.charge = [y.charge EXCEPT !.read = z.charge.read]
    BY <2>6, LoadedRecord DEF Moves
  <2> HIDE DEF z
  <2>9. /\ z.charge.facts = None /\ (z.charge.exit => z.charge.attempt = 0)
        /\ z.charge.reconcile /\ ~z.charge.factsFailed /\ z.charge.exit = v.charge.exit
    <3>1. y.charge \in ChargeState BY <2>6, Parts DEF Moves
    <3> QED BY <2>6, <2>8, <3>1 DEF ChargeState
  <2>10. Gentle(z, u) /\ Offering(u) BY <2>2, <2>7, ShownGentle DEF Moves
  <2>11. Held(z.charge) BY <2>9 DEF Held, chargeFlowBlocked
  <2>12. "page" \notin Slots(v) BY <1>2 DEF Known
  <2> HIDE DEF u
  <2>13. Reconciling(v, u)
    BY <1>2, <2>8, <2>9, <2>10, <2>11, <2>12 DEF Reconciling, Reading, Gentle, Fixed
  <2> QED BY <2>13 DEF u
<1> QED BY <1>1, <1>2

\* All of Careful but for what the page of the order awaits.
Abiding(v) ==
  v.api.ops # <<>> =>
    /\ v.api.up /\ Len(v.api.ops) = 1
    /\ v.main.page = "charge" \/ (v.main.page = "login" /\ ~v.api.user /\ ~v.main.guard)
    /\ "login" \in Slots(v) => v.api.reads["login"] # 0
    /\ v.charge.active => ~v.charge.exit

LEMMA CarefulAbides == ASSUME NEW v, Careful(v) PROVE Abiding(v)
BY DEF Careful, Abiding, Bound

\* The page that reads its order again offers no mutation, and its read waits for
\* those on their way.
LEMMA ReconciliationCareful ==
  ASSUME NEW v \in Shell, Known(v), Told(v), Abiding(v),
         Careful(v) \/ Reconciling(v, requestReconciliation(v))
  PROVE  Careful(requestReconciliation(v))
<1> DEFINE u == requestReconciliation(v)
<1>1. Keeps(v, u) BY RequestReconciliation
<1>2. u = v \/ Reconciling(v, u) BY ReconciliationDone
<1> HIDE DEF u
<1>3. Known(u) /\ Frame(v, u) BY <1>1 DEF Keeps, Within
<1>4. ASSUME Reconciling(v, u) PROVE Careful(u)
  <2> SUFFICES ASSUME v.api.ops # <<>> PROVE Careful(u) BY <1>3 DEF Frame, Careful
  <2>1. Bound(u.charge) BY <1>3, <1>4 DEF Reconciling, Bound, Frame, Abiding
  <2>2. "facts" \notin Slots(u) BY <1>3, <1>4 DEF Reconciling, Known
  <2>3. Late(u) BY <1>3, <1>4, <2>2 DEF Late, Reconciling, Frame, Abiding
  <2>4. "login" \in Slots(u) => u.api.reads["login"] # 0 BY <1>3 DEF Frame, Abiding
  <2> QED BY <1>3, <2>1, <2>3, <2>4 DEF Careful, Abiding, Frame
<1>5. CASE u = v BY <1>2, <1>4, <1>5 DEF u
<1> QED BY <1>2, <1>4, <1>5 DEF u

\* The reads and the mutations under way, and the page on show.
Alike(v, u) ==
  /\ u.api.up = v.api.up /\ u.api.user = v.api.user /\ u.api.ops = v.api.ops
  /\ u.main.page = v.main.page /\ u.main.guard = v.main.guard
  /\ u.charge.active = v.charge.active
  /\ "login" \in Slots(u) <=> "login" \in Slots(v)
  /\ Sent(v, u)

LEMMA AlikeTrans ==
  ASSUME NEW a, NEW b, NEW c, Alike(a, b), Alike(b, c) PROVE Alike(a, c)
BY DEF Alike, Sent

LEMMA AlikeSteps ==
  ASSUME NEW v, NEW u, Frame(v, u) \/ Turns(v, u) \/ Holds(v, u) PROVE Alike(v, u)
BY DEF Alike, Frame, Turns, Holds, Sent

LEMMA CarefulAlike ==
  ASSUME NEW v, NEW u, Alike(v, u), Abiding(v),
         v.api.ops # <<>> /\ v.charge.active =>
           /\ Bound(u.charge)
           /\ u.charge.mutation = None \/ u.charge.mutation.superseded => Late(v) \/ Late(u)
  PROVE  Careful(u)
<1> SUFFICES ASSUME v.api.ops # <<>> PROVE Careful(u) BY DEF Careful, Alike
<1>1. Late(v) => Late(u) BY DEF Late, Alike, Sent, Abiding
<1>2. "login" \in Slots(u) => u.api.reads["login"] # 0 BY DEF Alike, Sent, Abiding
<1> QED BY <1>1, <1>2 DEF Careful, Alike, Abiding

LEMMA CarefulKept ==
  ASSUME NEW v, NEW u, Alike(v, u), Careful(v), u.charge.mutation = v.charge.mutation,
         Bound(v.charge) => Bound(u.charge)
  PROVE  Careful(u)
BY CarefulAlike, CarefulAbides DEF Careful

LEMMA PollCareful ==
  ASSUME NEW v \in Shell, Known(v), Told(v), Careful(v)
  PROVE  Careful(requestPoll(v))
<1> DEFINE u == loadCurrentOrder(v, "poll")
<1>1. CASE requestPoll(v) = v BY <1>1
<1>2. CASE requestPoll(v) # v
  <2>1. requestPoll(v) = u /\ v.charge.active BY <1>2 DEF requestPoll
  <2>2. Keeps(v, u) BY <2>1, LoadOrder
  <2>3. u.charge = [v.charge EXCEPT !.read = u.charge.read] BY LoadedRecord
  <2> HIDE DEF u
  <2>4. v.charge \in ChargeState BY Parts
  <2>5. Bound(v.charge) => Bound(u.charge) BY <2>3, <2>4 DEF Bound, ChargeState
  <2>6. Alike(v, u) /\ u.charge.mutation = v.charge.mutation
    BY <2>2, AlikeSteps DEF Keeps, Within, Frame
  <2> QED BY <2>1, <2>5, <2>6, CarefulKept
<1> QED BY <1>1, <1>2

\* As PageFailed.
LEMMA PageFailedDone ==
  ASSUME NEW v \in Shell, Known(v), Told(v), "page" \in Slots(v)
  PROVE  LET u == currentOrderFailed(cancelSafeReads(v, {"page"}), "page")
             c == [v.charge EXCEPT !.read = None, !.reconcile = TRUE]
         IN  \E t \in Shell :
               /\ Turns(v, t) /\ t.charge = c /\ t.main = v.main
               /\ u = Shown(t) /\ Settles(t, u)
<1> DEFINE x == cancelSafeReads(v, {"page"})
           y == PageAnswered(v)
           a == [v.charge EXCEPT !.read = None]
           c == [v.charge EXCEPT !.read = None, !.reconcile = TRUE]
           d == [a EXCEPT !.reconcile = TRUE]
           p == y.main.remembered
           t == [y EXCEPT !.charge = d, !.main = [y.main EXCEPT !.remembered = p]]
           u == currentOrderFailed(x, "page")
<1>1. x.charge = v.charge /\ x.main = v.main /\ x \in Shell BY CancelReads
<1>2. v.charge \in ChargeState /\ v.charge.read # None /\ v.charge.active
      /\ v.charge.read.selGen = v.charge.selGen
  BY Parts DEF Known, Paged
<1>3. Turns(v, y) /\ y.charge = a BY PageReadOver
<1>4. y = [x EXCEPT !.charge.read = None] BY DEF PageAnswered
<1>5. u = Shown([x EXCEPT !.charge.read = None, !.charge.reconcile = TRUE])
  <2> HIDE DEF y, t, c, a, d, p
  <2> QED BY <1>1, <1>2 DEF currentOrderFailed
<1>7. /\ [x EXCEPT !.charge.read = None, !.charge.reconcile = TRUE]
           = [y EXCEPT !.charge.reconcile = TRUE]
      /\ y.main = v.main
  <2> HIDE DEF x
  <2> QED BY <1>1, <1>4 DEF Shell
<1> HIDE DEF x, y, c
<1>6. d = c BY <1>2 DEF ChargeState, c
<1>8. y \in Shell /\ Known(y) /\ Told(y) /\ a \in ChargeState /\ y.main \in MainState
  BY <1>3, Parts DEF Turns
<1>9. [y EXCEPT !.charge.reconcile = TRUE] = t
  <2> HIDE DEF a
  <2> QED BY <1>3, <1>8 DEF Shell, MainState
<1>10. Paged(a) BY <1>3, <1>8 DEF Known
<1>11. Turns(y, t) /\ t.charge = d
  <2> HIDE DEF a
  <2>1. /\ d \in ChargeState /\ d.facts = a.facts /\ d.read = a.read /\ d.active = a.active
        /\ d.order = a.order /\ d.selGen = a.selGen /\ d.exit = a.exit
        /\ d.exitFailed = a.exitFailed /\ d.attempt = a.attempt /\ d.reported = a.reported
        /\ d.mutation = a.mutation /\ d.selection = a.selection
    BY <1>8 DEF ChargeState
  <2> HIDE DEF d
  <2>2. Paged(d) BY <1>10, <2>1, PagedSame
  <2>3. p \in Maybe(Selection) BY <1>8 DEF MainState
  <2>4. /\ d.facts = y.charge.facts /\ d.read = y.charge.read
        /\ d.active = y.charge.active /\ d.reported = y.charge.reported
        /\ d.mutation = None <=> y.charge.mutation = None
        /\ y.charge.mutation # None => d.mutation.fits = y.charge.mutation.fits
        /\ d.selection \in {None, y.charge.selection} /\ p \in {None, y.main.remembered}
    BY <1>3, <2>1
  <2> HIDE DEF p
  <2> QED BY <1>8, <2>1, <2>2, <2>3, <2>4, ChargeTurn
<1>15. t.main = v.main
  <2>1. [y.main EXCEPT !.remembered = p] = y.main BY <1>8 DEF MainState
  <2> HIDE DEF d, p
  <2> QED BY <1>7, <1>8, <2>1 DEF Shell
<1> HIDE DEF t, u, d
<1>12. t \in Shell /\ Known(t) /\ Told(t) BY <1>11 DEF Turns
<1>13. Settles(t, u) /\ u = Shown(t) BY <1>5, <1>7, <1>9, <1>12, ShownSettles
<1>14. Turns(v, t) BY <1>3, <1>11, TurnsTrans
<1> QED BY <1>6, <1>11, <1>12, <1>13, <1>14, <1>15 DEF u, x, c

LEMMA PageFailedCareful ==
  ASSUME NEW v \in Shell, Known(v), Told(v), "page" \in Slots(v), Careful(v)
  PROVE  Careful(currentOrderFailed(cancelSafeReads(v, {"page"}), "page"))
<1> DEFINE u == currentOrderFailed(cancelSafeReads(v, {"page"}), "page")
<1>1. PICK t \in Shell : /\ Turns(v, t)
                         /\ t.charge = [v.charge EXCEPT !.read = None, !.reconcile = TRUE]
                         /\ u = Shown(t)
  BY PageFailedDone
<1> HIDE DEF u
<1>2. v.charge \in ChargeState BY Parts
<1>3. /\ Bound(v.charge) => Bound(t.charge)
      /\ t.charge.mutation = v.charge.mutation
  BY <1>1, <1>2 DEF Bound, ChargeState
<1>4. Careful(t) BY <1>1, <1>3, AlikeSteps, CarefulKept
<1>5. Careful(u) BY <1>1, <1>4, CarefulShown DEF Turns
<1> QED BY <1>5 DEF u

-----------------------------------------------------------------------------
(* The facts of the station.                                               *)

\* As FactsFail, when no refresh is owed.
LEMMA FactsFailDone ==
  ASSUME NEW v \in Shell, Known(v), Told(v), ~v.charge.exit
  PROVE  LET b == v.charge.gate
             c == [v.charge EXCEPT !.factsFailed = b, !.gate = b, !.reconcile = b]
         IN  \E z \in Shell : Moves(v, z) /\ z.charge = c /\ factsFail(v) = Shown(z)
<1> DEFINE b == v.charge.gate
           c == [v.charge EXCEPT !.factsFailed = b, !.gate = b, !.reconcile = b]
           z == [v EXCEPT !.charge = c, !.main = v.main]
           u == factsFail(v)
<1>1. /\ v.charge \in ChargeState /\ v.main \in MainState /\ Paged(v.charge)
      /\ v.main.blocked = v.charge.reported
  BY Parts DEF Known, Told
<1>2. (b \/ v.charge.exit) = b /\ b \in BOOLEAN BY <1>1 DEF ChargeState
<1>3. u = Shown(z)
  <2>1. [v EXCEPT !.charge.factsFailed = b, !.charge.gate = b, !.charge.reconcile = b] = z
    <3> HIDE DEF b
    <3> QED BY DEF Shell
  <2> HIDE DEF z
  <2> QED BY <1>2, <2>1 DEF factsFail
<1> HIDE DEF b
<1>4. /\ c \in ChargeState
      /\ c.active = v.charge.active /\ c.order = v.charge.order
      /\ c.mutation = v.charge.mutation /\ c.facts = v.charge.facts /\ c.read = v.charge.read
      /\ c.selection = v.charge.selection /\ c.reported = v.charge.reported
      /\ c.selGen = v.charge.selGen /\ c.exit = v.charge.exit
      /\ c.exitFailed = v.charge.exitFailed /\ c.attempt = v.charge.attempt
  BY <1>1, <1>2 DEF ChargeState
<1> HIDE DEF c
<1>5. Paged(c) BY <1>1, <1>4, PagedSame
<1>6. SameMain(v.main, v.main) BY DEF SameMain
<1>7. Moves(v, z) BY <1>1, <1>4, <1>5, <1>6, ChargeAlone DEF Withdrawn
<1>8. z.charge = c BY <1>4 DEF Shell
<1> HIDE DEF z, u
<1>9. z \in Shell BY <1>7 DEF Moves
<1> QED BY <1>3, <1>7, <1>8, <1>9 DEF u, c, b

\* The facts of a page that owes no refresh fail: what keeps it from offering a
\* mutation stays.
LEMMA FactsFailCareful ==
  ASSUME NEW v \in Shell, Known(v), Told(v), Careful(v), v.charge.facts = None,
         ~v.charge.exitFailed,
         v.api.ops # <<>> =>
           /\ ~v.charge.exit
           /\ v.charge.gate \/ (v.charge.mutation # None /\ ~v.charge.mutation.superseded)
  PROVE  Careful(factsFail(v))
<1> DEFINE u == factsFail(v)
<1>1. u.api.ops = v.api.ops BY FactsFail DEF Settles, Moves, Within, Frame
<1>2. ASSUME v.api.ops # <<>> PROVE Careful(u)
  <2>1. PICK z \in Shell :
          /\ Moves(v, z)
          /\ z.charge = [v.charge EXCEPT !.factsFailed = v.charge.gate, !.gate = v.charge.gate,
                                         !.reconcile = v.charge.gate]
          /\ u = Shown(z)
    BY <1>2, FactsFailDone
  <2> HIDE DEF u
  <2>2. v.charge \in ChargeState BY Parts
  <2>3. /\ z.charge.mutation = v.charge.mutation /\ z.charge.exit = v.charge.exit
        /\ z.charge.facts = None /\ z.charge.reconcile = v.charge.gate
    BY <2>1, <2>2 DEF ChargeState
  <2>4. Bound(v.charge) => Bound(z.charge) BY <1>2, <2>3 DEF Bound
  <2>5. Careful(z) BY <2>1, <2>3, <2>4, MovesTurns, AlikeSteps, CarefulKept
  <2> QED BY <2>1, <2>5, CarefulShown DEF Moves
<1> QED BY <1>1, <1>2, CarefulIdle DEF u

LEMMA FactsFailedCareful ==
  ASSUME NEW v \in Shell, Known(v), Told(v), "facts" \in Slots(v), Careful(v)
  PROVE  Careful(factsFailed(cancelSafeReads(v, {"facts"})))
<1> DEFINE c == [v.charge EXCEPT !.facts = None]
           x == cancelSafeReads(v, {"facts"})
           y == FactsOver(v, c)
<1>1. v.charge \in ChargeState /\ v.charge.facts # None /\ Paged(v.charge)
  BY Parts DEF Known
<1>2. /\ c \in ChargeState /\ c.active = v.charge.active /\ c.order = v.charge.order
      /\ c.mutation = v.charge.mutation
      /\ c.facts = None /\ c.read = v.charge.read /\ c.selGen = v.charge.selGen
      /\ c.exit = v.charge.exit /\ c.exitFailed = v.charge.exitFailed
      /\ c.attempt = v.charge.attempt /\ c.reported = v.charge.reported
      /\ c.selection = v.charge.selection /\ c.gate = v.charge.gate
      /\ c.reconcile = v.charge.reconcile
  BY <1>1, NoneFits DEF ChargeState
<1>3. ~c.exitFailed BY <1>1, <1>2 DEF Paged
<1>4. [x EXCEPT !.charge.facts = None] = y
  <2>1. x.charge = v.charge BY CancelReads
  <2> HIDE DEF x
  <2> QED BY <2>1 DEF FactsOver, x
<1> HIDE DEF c
<1>5. Moves(v, y) /\ y.charge = c BY <1>2, FactsEnd
<1> HIDE DEF y
<1>6. Bound(v.charge) => Bound(c) BY <1>2 DEF Bound
<1>7. Careful(y) BY <1>2, <1>5, <1>6, MovesTurns, AlikeSteps, CarefulKept
<1>8. y.api.ops # <<>> =>
        ~c.exit /\ (c.gate \/ (c.mutation # None /\ ~c.mutation.superseded))
  <2>1. v.api.ops # <<>> => Bound(v.charge)
    BY <1>1, <1>5 DEF Careful, Paged
  <2>2. y.api.ops = v.api.ops BY <1>5 DEF Moves, Within, Frame
  <2> QED BY <1>1, <1>2, <2>1, <2>2 DEF Bound
<1>9. Careful(factsFail(y)) BY <1>2, <1>3, <1>5, <1>7, <1>8, FactsFailCareful DEF Moves
<1>10. factsFailed(x) = factsFail(y) BY <1>4 DEF factsFailed
<1> QED BY <1>9, <1>10

\* The facts are answered before a mutation that is on its way: it is the page's.
LEMMA FactsLoadedCareful ==
  ASSUME NEW v \in Shell, Known(v), Told(v), "facts" \in Slots(v), v.api.reads["facts"] = 0,
         NEW status \in Maybe(Status), Careful(v)
  PROVE  Careful(factsLoaded(cancelSafeReads(v, {"facts"}), status))
<1> DEFINE u == factsLoaded(cancelSafeReads(v, {"facts"}), status)
           g == v.charge
<1>1. PICK y, z \in Shell :
        /\ \A t \in {y, z} : /\ Moves(v, t) /\ t.charge.facts = None
                             /\ t.charge.exit = g.exit /\ ~t.charge.exitFailed
        /\ u = IF unmatched(g, status) THEN factsFail(y)
               ELSE Shown(IF g.exit THEN applyChargeStationDetail(z, g.attempt) ELSE z)
  BY FactsTaken
<1>2. Settles(v, u) BY FactsLoaded
<1> HIDE DEF u
<1>3. g.active BY DEF Known, Paged
<1>4. ASSUME v.api.ops # <<>> PROVE Careful(u)
  <2>1. ~g.exit /\ g.mutation # None /\ ~g.mutation.superseded
    BY <1>3, <1>4 DEF Careful, Bound, Late
  <2>2. \A t \in {y, z} : Careful(t)
    <3> TAKE t \in {y, z}
    <3>1. Moves(v, t) /\ t.charge.exit = g.exit BY <1>1
    <3>2. t.charge.mutation = g.mutation BY <3>1 DEF Moves, Within, Frame
    <3>3. Bound(t.charge) BY <2>1, <3>1, <3>2 DEF Bound
    <3> QED BY <3>1, <3>2, <3>3, MovesTurns, AlikeSteps, CarefulKept
  <2>3. ASSUME unmatched(g, status) PROVE Careful(u)
    <3>1. y.charge.mutation = g.mutation BY <1>1 DEF Moves, Within, Frame
    <3>2. Careful(factsFail(y)) BY <1>1, <2>1, <2>2, <3>1, FactsFailCareful DEF Moves
    <3> QED BY <1>1, <2>3, <3>2
  <2>4. ASSUME ~unmatched(g, status) PROVE Careful(u)
    <3>1. Careful(Shown(z)) BY <1>1, <2>2, CarefulShown DEF Moves
    <3> QED BY <1>1, <2>1, <2>4, <3>1
  <2> QED BY <2>3, <2>4
<1>5. u.api.ops = v.api.ops BY <1>2 DEF Settles, Moves, Within, Frame
<1> QED BY <1>4, <1>5, CarefulIdle DEF u

\* The facts are asked for by a page that owes no refresh and offers no mutation.
LEMMA FactsHeld ==
  ASSUME NEW v \in Shell, Known(v), Told(v), NEW gate \in BOOLEAN, NEW commit \in BOOLEAN,
         v.charge.facts = None, v.charge.read = None, ~v.charge.exitFailed, ~v.charge.exit,
         v.charge.mutation # None \/ v.charge.reconcile \/ gate
  PROVE  LET u == requestFacts(v, gate, commit) IN
         IF ~v.charge.active \/ (v.charge.order = None /\ v.charge.selection = None) THEN u = v
         ELSE /\ u.charge.facts # None /\ u.charge.gate = gate /\ ~u.charge.exit
              /\ u.charge.mutation = v.charge.mutation /\ ~u.charge.factsFailed
              /\ u.charge.reconcile = v.charge.reconcile /\ u.charge.read = None
<1> DEFINE c == v.charge
           u == requestFacts(v, gate, commit)
<1>1. ASSUME ~c.active \/ (c.order = None /\ c.selection = None) PROVE u = v
  BY <1>1 DEF requestFacts
<1>2. ASSUME c.active, c.order # None \/ c.selection # None
      PROVE  /\ u.charge.facts # None /\ u.charge.gate = gate /\ ~u.charge.exit
             /\ u.charge.mutation = c.mutation /\ ~u.charge.factsFailed
             /\ u.charge.reconcile = c.reconcile /\ u.charge.read = None
  <2>1. PICK s \in Shell, a \in 0..3 :
          /\ Moves(v, s) /\ Origin(c) \in BOOLEAN
          /\ s.charge = Asking(c, s.charge.facts, gate, s.charge.exit, s.charge.attempt)
          /\ s.charge.exit = (c.exit /\ (commit => Origin(c)))
          /\ s.charge.facts # None /\ s.charge.gate = gate /\ ~s.charge.factsFailed
          /\ s.charge.mutation = c.mutation /\ s.charge.reconcile = c.reconcile
          /\ u = Shown(IF Origin(c) THEN refreshAfterCharge(s, a) ELSE s)
    <3> HIDE DEF u
    <3> QED BY <1>2, FactsAsked DEF u
  <2> DEFINE y == IF Origin(c) THEN refreshAfterCharge(s, a) ELSE s
  <2> HIDE DEF u
  <2>2. s \in Shell /\ Known(s) /\ Told(s) BY <2>1 DEF Moves
  <2>3. chargeFlowBlocked(s.charge) /\ ~s.charge.exit BY <2>1 DEF chargeFlowBlocked
  <2>4. Keeps(s, y) /\ Gentle(s, y)
    <3>1. Keeps(s, s) /\ Gentle(s, s) BY <2>2, KeepsSelf, GentleSelf
    <3>2. Keeps(s, refreshAfterCharge(s, a)) /\ Gentle(s, refreshAfterCharge(s, a))
      BY <2>2, <2>3, RefreshAfter, RefreshAfterGentle
    <3> QED BY <2>1, <3>1, <3>2
  <2>5. u = Shown(y) BY <2>1
  <2> HIDE DEF y
  <2>6. Gentle(y, u) BY <2>4, <2>5, ShownGentle DEF Keeps
  <2>7. Fixed(s.charge, u.charge) BY <2>3, <2>4, <2>6, GentleTrans DEF Gentle, Held
  <2>8. c \in ChargeState /\ c.read = None BY Parts
  <2>9. s.charge.read = None
    <3> DEFINE f == s.charge.facts  e == s.charge.exit  k == s.charge.attempt
    <3>1. s.charge = Asking(c, f, gate, e, k) BY <2>1
    <3> HIDE DEF f, e, k, c
    <3> QED BY <2>8, <3>1 DEF Asking, ChargeState
  <2>10. u.charge.read = None BY <2>4, <2>6, <2>9, GentleTrans DEF Gentle
  <2> QED BY <2>1, <2>3, <2>7, <2>10 DEF Fixed
<1> QED BY <1>1, <1>2 DEF u

LEMMA FactsBound ==
  ASSUME NEW v \in Shell, Known(v), Told(v), NEW gate \in BOOLEAN, NEW commit \in BOOLEAN,
         v.charge.facts = None, v.charge.read = None, ~v.charge.exitFailed, Bound(v.charge),
         gate \/ (v.charge.mutation # None /\ ~v.charge.mutation.superseded)
  PROVE  Bound(requestFacts(v, gate, commit).charge)
BY FactsHeld DEF Bound

\* The page is of that order, and reads the facts of its station first.
Taking(v, u, order) ==
  /\ u.charge.order = order /\ u.charge.mutation = supersedeMutation(v, order).charge.mutation
  /\ u.charge.reconcile /\ ~u.charge.exit /\ ~u.charge.factsFailed
  /\ u.charge.facts # None /\ u.charge.gate /\ u.charge.read = None
  /\ "page" \notin Slots(u) /\ u.api.reads["facts"] = Len(v.api.ops)

\* The window has learnt that the order is current.
Observing(v, u, slot, order) ==
  \E h \in Shell : LET o == currentAuthorityObserved(h, slot, order, FALSE, 0) IN
    /\ Known(h) /\ Told(h) /\ SameMain(h.main, v.main)
    /\ h.charge.active /\ h.charge.order = order
    /\ u.main.authority = o.main.authority /\ u.main.stamp = o.main.stamp

\* As ObserveCurrent, for a page on show and an order that is under way.
LEMMA ObserveTaken ==
  ASSUME NEW v \in Shell, Known(v), Told(v), Alone(v), NEW slot, NEW order \in Maybe(Order),
         isActive(order), v.charge.active
  PROVE  /\ Taking(v, observeAuthoritativeCurrent(v, slot, order), order)
         /\ Observing(v, observeAuthoritativeCurrent(v, slot, order), slot, order)
<1> DEFINE s == supersedeMutation(v, order)
           t == takeActiveOrder(s, order)
           h == Shown(t)
           o == currentAuthorityObserved(h, slot, order, FALSE, 0)
           u == observeAuthoritativeCurrent(v, slot, order)
<1>1. /\ Turns(v, s) /\ s.charge.active /\ s.main = v.main
  BY Supersede
<1>2. s \in Shell /\ Known(s) /\ Told(s) /\ Alone(s) BY <1>1, AloneTurns DEF Turns
<1>3. u = requestFacts(o, TRUE, FALSE) BY DEF observeAuthoritativeCurrent
<1>4. order \in Order /\ order # None BY DEF isActive, Maybe
<1> HIDE DEF u, s
<1>5. /\ Turns(s, t) /\ t.charge.order = order
      /\ t.charge.facts = None /\ t.charge.read = None /\ ~t.charge.exitFailed
      /\ t.charge.reconcile /\ ~t.charge.factsFailed
      /\ ~t.charge.exit /\ ~t.charge.gate /\ t.charge.mutation = s.charge.mutation
      /\ SameMain(t.main, s.main)
  BY <1>1, <1>2, <1>4, TakeActive
<1> HIDE DEF t
<1>6. t \in Shell /\ Known(t) /\ Told(t) /\ t.charge.active BY <1>1, <1>5 DEF Turns
<1>7. Held(t.charge) BY <1>5 DEF Held, chargeFlowBlocked
<1>8. Settles(t, h) /\ Quiet(t.charge, h.charge) /\ Fixed(t.charge, h.charge)
  BY <1>6, <1>7, ShownSettles, ShownQuiet, ShownGentle DEF Gentle
<1> HIDE DEF h
<1>9. /\ h \in Shell /\ Known(h) /\ Told(h) /\ Heard(h) /\ Frame(t, h)
      /\ h.charge.facts = None /\ h.charge.read = None /\ ~h.charge.exitFailed
      /\ ~h.charge.exit /\ h.charge.reconcile /\ h.charge.order = order /\ h.charge.active
      /\ h.charge.mutation = s.charge.mutation /\ h.api.ops = v.api.ops
  BY <1>1, <1>5, <1>6, <1>8, ReportedHeard DEF Settles, Moves, Within, Frame, Quiet, Fixed, Turns
<1>10. Holds(h, o) /\ o.charge = h.charge
  <2>1. FALSE \in BOOLEAN OBVIOUS
  <2>2. h \in Shell /\ Known(h) /\ Told(h) BY <1>9
  <2> QED BY <2>1, <2>2, Observed
<1> HIDE DEF o
<1>11. o \in Shell /\ Known(o) /\ Told(o) /\ o.api.ops = v.api.ops /\ "facts" \notin Slots(o)
  BY <1>9, <1>10 DEF Holds, Known
<1>12. TRUE \in BOOLEAN /\ FALSE \in BOOLEAN OBVIOUS
<1>13. Heard(o)
  <2>1. Reported(h) BY <1>8 DEF Settles
  <2> QED BY <1>10, <2>1, ReportedHeard DEF Holds
<1>14. Moves(o, u) BY <1>3, <1>4, <1>9, <1>10, <1>11, <1>12, <1>13, RequestFacts
<1>15. /\ u.charge.facts # None /\ u.charge.gate /\ ~u.charge.exit
       /\ u.charge.mutation = s.charge.mutation /\ ~u.charge.factsFailed
       /\ u.charge.reconcile /\ u.charge.read = None
  <2>1. LET c == o.charge IN
        /\ c.active /\ c.order # None /\ c.facts = None /\ c.read = None /\ ~c.exitFailed
        /\ ~c.exit /\ c.reconcile /\ c.mutation = s.charge.mutation
    BY <1>4, <1>9, <1>10
  <2> QED BY <1>3, <1>11, <1>12, <2>1, FactsHeld
<1>16. u.charge.order = order /\ Known(u) BY <1>9, <1>10, <1>14 DEF Moves, Within, Frame
<1>17. "page" \notin Slots(u) /\ u.api.reads["facts"] = Len(v.api.ops)
  <2>1. "facts" \in Slots(u) BY <1>15, <1>16 DEF Known
  <2> QED BY <1>11, <1>14, <1>15, <1>16, <2>1 DEF Moves, Within, Frame, Known
<1>18. SameMain(h.main, v.main)
  <2>1. SameMain(h.main, t.main) BY <1>9 DEF Frame, SameMain
  <2> QED BY <1>1, <1>5, <2>1 DEF SameMain
<1>19. u.main.authority = o.main.authority /\ u.main.stamp = o.main.stamp
  BY <1>14 DEF Moves, Within, Frame
<1>20. Observing(v, u, slot, order) BY <1>9, <1>18, <1>19 DEF Observing, o
<1>21. Taking(v, u, order) BY <1>15, <1>16, <1>17 DEF Taking, s
<1> QED BY <1>20, <1>21 DEF u

\* The order that is current was read: the page of another order waits for its facts.
LEMMA ObserveCareful ==
  ASSUME NEW v \in Shell, Known(v), Told(v), Alone(v), NEW slot, NEW order \in Maybe(Order),
         Careful(v)
  PROVE  Careful(observeAuthoritativeCurrent(v, slot, order))
<1> DEFINE s == supersedeMutation(v, order)
           u == observeAuthoritativeCurrent(v, slot, order)
<1>1. Holds(v, u) BY ObserveCurrent
<1>2. ASSUME isActive(order), v.charge.active PROVE Careful(u)
  <2>1. /\ u.charge.reconcile /\ ~u.charge.exit /\ u.charge.gate
        /\ "page" \notin Slots(u) /\ u.api.reads["facts"] = Len(v.api.ops)
    <3>1. Taking(v, u, order) BY <1>2, ObserveTaken
    <3> QED BY <3>1 DEF Taking
  <2> HIDE DEF u
  <2>2. Bound(u.charge) BY <2>1 DEF Bound
  <2>3. v.api.ops # <<>> => Late(u) BY <2>1, CarefulAbides DEF Late, Abiding
  <2> QED BY <1>1, <2>2, <2>3, AlikeSteps, CarefulAbides, CarefulAlike
<1>3. ASSUME ~(isActive(order) /\ v.charge.active) PROVE Careful(u)
  <2>1. u.charge = s.charge
    <3>1. u = currentAuthorityObserved(s, slot, order, FALSE, 0)
      BY <1>3 DEF observeAuthoritativeCurrent
    <3>2. s \in Shell /\ Known(s) /\ Told(s) BY Supersede DEF Holds
    <3>3. FALSE \in BOOLEAN OBVIOUS
    <3> HIDE DEF s, u
    <3> QED BY <3>1, <3>2, <3>3, Observed
  <2>2. ~isActive(order) => s = v BY DEF supersedeMutation
  <2> HIDE DEF u, s
  <2>3. CASE v.charge.active
    BY <1>1, <1>3, <2>1, <2>2, <2>3, AlikeSteps, CarefulKept
  <2>4. CASE ~v.charge.active
    BY <1>1, <2>4, AlikeSteps, CarefulAbides, CarefulAlike
  <2> QED BY <2>3, <2>4
<1> QED BY <1>2, <1>3 DEF u

\* The order was read before a mutation that is on its way: it is the page's.
LEMMA PageLoadedCareful ==
  ASSUME NEW v \in Shell, Known(v), Told(v), Alone(v), "page" \in Slots(v),
         v.api.reads["page"] = 0, NEW order \in Maybe(Order), Careful(v)
  PROVE  Careful(pageOrderLoaded(cancelSafeReads(v, {"page"}), order))
<1> DEFINE x == cancelSafeReads(v, {"page"})
           r == v.charge.read
           poll == r.op = "poll"
           y == PageAnswered(v)
           n == takeOrder(y, order)
           target == n.charge.order # None \/ n.charge.selection # None
           facts == \/ ~poll /\ v.charge.reconcile /\ target
                    \/ n.charge.order # None /\ n.charge.order.status = "reserved"
                    \/ n.charge.order = None /\ n.charge.selection # None
           t == [n EXCEPT !.charge.reconcile = facts]
           h == Shown(t)
           o == currentAuthorityObserved(h, "page", order, TRUE, r.owner)
           f == requestFacts(o, facts, o.charge.exit)
           u == pageOrderLoaded(x, order)
<1>1. x.charge = v.charge BY CancelReads
<1>2. /\ v.charge \in ChargeState /\ Paged(v.charge) /\ r # None /\ r \in PageRead
      /\ v.charge.active /\ r.selGen = v.charge.selGen
  BY Parts DEF Known, Paged, ChargeState, Maybe
<1>3. Turns(v, y) /\ y.charge = [v.charge EXCEPT !.read = None]
  BY PageReadOver
<1>4. y = [x EXCEPT !.charge.read = None] BY DEF PageAnswered
<1> HIDE DEF y
<1>5. /\ y \in Shell /\ Known(y) /\ Told(y) /\ Alone(y)
      /\ y.charge.active /\ y.charge.read = None /\ y.charge.facts = v.charge.facts
      /\ y.charge.exitFailed = v.charge.exitFailed /\ y.charge.exit = v.charge.exit
      /\ y.charge.mutation = v.charge.mutation /\ (Bound(v.charge) => Bound(y.charge))
  BY <1>2, <1>3, AloneTurns DEF Turns, ChargeState, Bound
<1>6. Careful(y) BY <1>3, <1>5, AlikeSteps, CarefulKept
<1>7. u = IF ~v.charge.current THEN y
          ELSE IF poll /\ v.charge.order # None /\ order # None /\ order.id # v.charge.order.id
               THEN observeAuthoritativeCurrent(y, "page", order)
          ELSE IF ~poll /\ target THEN f ELSE o
  <2>1. u = IF ~x.charge.active \/ x.charge.read.selGen # x.charge.selGen \/ ~x.charge.current THEN y
            ELSE IF poll /\ v.charge.order # None /\ order # None /\ order.id # v.charge.order.id
                 THEN observeAuthoritativeCurrent(y, "page", order)
            ELSE IF ~poll /\ target THEN f ELSE o
    BY <1>1, <1>4 DEF pageOrderLoaded
  <2> HIDE DEF u, f, o, poll, target
  <2> QED BY <1>1, <1>2, <2>1
<1>8. Holds(v, u) BY PageLoaded
<1>9. facts \in BOOLEAN OBVIOUS
<1> HIDE DEF u, poll, target, facts
<1>10. ASSUME v.api.ops # <<>> PROVE Careful(u)
  <2>1. ~v.charge.exit /\ v.charge.mutation # None /\ ~v.charge.mutation.superseded
    BY <1>2, <1>10 DEF Careful, Bound, Late
  <2>2. /\ Turns(y, t) /\ t.charge.read = None /\ t.charge.facts = v.charge.facts
        /\ t.charge.exitFailed = v.charge.exitFailed
        /\ t.charge.mutation = v.charge.mutation /\ ~t.charge.exit
    BY <1>5, <1>9, <2>1, TakeOrder
  <2> HIDE DEF t, n
  <2>3. t \in Shell /\ Known(t) /\ Told(t) /\ Held(t.charge)
    BY <2>1, <2>2 DEF Turns, Held, chargeFlowBlocked
  <2>4. /\ Settles(t, h) /\ Quiet(t.charge, h.charge) /\ Fixed(t.charge, h.charge)
    BY <2>3, ShownSettles, ShownQuiet, ShownGentle DEF Gentle
  <2> HIDE DEF h
  <2>5. h \in Shell /\ Known(h) /\ Told(h) BY <2>4 DEF Settles, Moves
  <2>6. Holds(h, o) /\ o.charge = h.charge
    <3>1. TRUE \in BOOLEAN OBVIOUS
    <3> QED BY <2>5, <3>1, Observed
  <2> HIDE DEF o
  <2>7. /\ o \in Shell /\ Known(o) /\ Told(o)
        /\ o.charge.mutation = v.charge.mutation /\ ~o.charge.exit
        /\ o.charge.read = None /\ o.charge.facts \in {None, v.charge.facts}
        /\ o.charge.exitFailed = v.charge.exitFailed
    BY <2>2, <2>4, <2>6 DEF Holds, Fixed, Quiet
  <2>8. Bound(o.charge) BY <2>1, <2>7 DEF Bound
  <2>9. ASSUME u = o PROVE Careful(u)
    BY <1>8, <2>1, <2>7, <2>8, <2>9, AlikeSteps, CarefulKept
  <2>10. ASSUME u = f, ~poll PROVE Careful(u)
    <3>1. v.charge.facts = None /\ ~v.charge.exitFailed
      BY <1>2, <2>10 DEF Paged, PageRead, poll
    <3>2. o.charge.exit \in BOOLEAN BY <2>7, Parts DEF ChargeState
    <3>3. /\ u.charge.mutation = o.charge.mutation /\ ~u.charge.exit
      <4>1. o.charge.facts = None /\ ~o.charge.exitFailed BY <2>7, <3>1
      <4>2. LET z == requestFacts(o, facts, o.charge.exit) IN
            z.charge.mutation = o.charge.mutation /\ ~z.charge.exit
        BY <1>9, <2>1, <2>7, <3>2, <4>1, FactsHeld
      <4> QED BY <2>10, <4>2
    <3>4. Bound(u.charge) BY <2>1, <2>7, <3>3 DEF Bound
    <3> QED BY <1>8, <2>7, <3>3, <3>4, AlikeSteps, CarefulKept
  <2>11. ASSUME u = y PROVE Careful(u) BY <1>6, <2>11
  <2>12. ASSUME u = observeAuthoritativeCurrent(y, "page", order) PROVE Careful(u)
    BY <1>5, <1>6, <2>12, ObserveCareful
  <2> HIDE DEF f
  <2> QED BY <1>7, <2>9, <2>10, <2>11, <2>12
<1>11. u.api.ops = v.api.ops BY <1>8 DEF Holds
<1> QED BY <1>10, <1>11, CarefulIdle DEF u

-----------------------------------------------------------------------------
(* Every event leaves the mutations on their way with a page that waits.   *)

LEMMA BecomesShell ==
  ASSUME NEW x \in Shell, NEW slots, Becomes(x, slots)
  PROVE  /\ api' = x.api /\ charge' = x.charge /\ main' = x.main
         /\ Careful(x) => Careful(w)'
<1>1. x = [api |-> x.api, charge |-> x.charge, nearby |-> x.nearby, history |-> x.history,
           main |-> x.main]
  BY DEF Shell
<1>2. w' = x BY <1>1 DEF w, Becomes
<1> QED BY <1>2 DEF Becomes

LEMMA DoesCareful ==
  ASSUME NEW x \in Shell, Careful(x), NEW slots, Becomes(x, slots)
  PROVE  Careful(w)'
BY BecomesShell

LEMMA IdleEvent ==
  ASSUME api'.ops = <<>> PROVE Careful(w)'
<1>1. w'.api = api' BY DEF w
<1> QED BY <1>1 DEF Careful

\* With a mutation on its way the page of its order or that of the login is on show,
\* and none of its buttons leaves it or changes the order.
LEMMA Busy ==
  ASSUME NEW v, Sound(v), Careful(v), v.api.ops # <<>>
  PROVE  /\ v.api.up /\ Len(v.api.ops) = 1 /\ ~v.main.guard
         /\ {"guard", "reconnect"} \cap Slots(v) = {}
         /\ v.main.page = "charge" => /\ Bound(v.charge) /\ v.charge.active /\ v.main.blocked
                                      /\ ~v.main.required
                                      /\ v.charge.buttons \subseteq {"retry"}
         /\ v.main.page # "charge" => /\ v.main.page = "login" /\ ~v.api.user
                                      /\ ~v.main.navShown /\ ~v.charge.active
<1>1. /\ Whole(v) /\ Seated(v) BY DEF Sound
<1>2. ~v.main.guard BY <1>1 DEF Careful, Seated
<1>3. v.main.reconnect = None BY <1>1 DEF Careful, Seated
<1>4. ASSUME v.main.page = "charge"
      PROVE  /\ Bound(v.charge) /\ v.charge.active /\ v.main.blocked
             /\ ~v.main.required /\ v.charge.buttons \subseteq {"retry"}
  <2>1. Bound(v.charge) /\ v.charge.active /\ ~v.main.required
    BY <1>1, <1>4 DEF Careful, Seated
  <2>2. chargeFlowBlocked(v.charge) BY <2>1 DEF Bound, chargeFlowBlocked
  <2>3. v.main.blocked BY <1>1, <2>2 DEF Whole, Told, Reported
  <2>4. Usable(v) = {} BY <2>1, <2>2 DEF Usable, Bound
  <2> QED BY <1>1, <2>1, <2>3, <2>4 DEF Whole, Rendered
<1> QED BY <1>1, <1>2, <1>3, <1>4 DEF Careful, Seated

\* A read that is given up frees its slot.
LEMMA SlotCareful ==
  ASSUME NEW v \in Shell, Careful(v), NEW slot
  PROVE  Careful(cancelSafeReads(v, {slot}))
<1> DEFINE u == cancelSafeReads(v, {slot})
<1>1. /\ u.charge = v.charge /\ u.main = v.main /\ u.api.up = v.api.up
      /\ u.api.user = v.api.user /\ u.api.ops = v.api.ops /\ slot \notin Slots(u)
      /\ \A s : s # slot => (s \in Slots(u) <=> s \in Slots(v))
      /\ Sent(v, u)
  BY SlotFree
<1> HIDE DEF u
<1> SUFFICES ASSUME v.api.ops # <<>> PROVE Careful(u)
  BY <1>1 DEF Careful, u
<1>2. Len(v.api.ops) = 1 BY DEF Careful
<1>3. \A s \in Slots(u) : s \in Slots(v)
                            /\ (v.api.reads[s] # 0 => u.api.reads[s] # 0)
  BY <1>1, <1>2 DEF Sent
<1>4. Late(v) => Late(u) BY <1>3 DEF Late
<1> QED BY <1>1, <1>3, <1>4 DEF Careful

LEMMA SlotEased ==
  ASSUME NEW v, Sound(v), Careful(v), NEW u, Eased(cancelSafeReads(v, {"list"}), u)
  PROVE  Careful(u)
<1>1. Careful(cancelSafeReads(v, {"list"})) BY SoundKnown, SlotCareful
<1> QED BY <1>1, CarefulEased

LEMMA HistoryCareful ==
  ASSUME NEW v, Sound(v), Careful(v), "history" \in Slots(v), NEW u,
         Holds(v, u), u.charge = v.charge
  PROVE  Careful(u)
BY AlikeSteps, CarefulKept

LEMMA QuietCareful ==
  ASSUME Sound(w), Careful(w),
         stationSelected \/ SearchButton \/ NearbyRetryButton \/ geocodeFinished
           \/ RetryButton \/ pollTimer
  PROVE  Careful(w)'
<1>1. w \in Shell /\ Known(w) /\ Told(w) BY SoundKnown
<1>2. ASSUME NEW x, Eased(w, x), Does(x) PROVE Careful(w)'
  BY <1>2, EasedShell, CarefulEased, DoesCareful DEF Does
<1>3. CASE stationSelected BY <1>1, <1>2, <1>3, EasedRequest DEF stationSelected
<1>4. CASE SearchButton BY <1>1, <1>2, <1>4, EasedSearch DEF SearchButton
<1>5. CASE NearbyRetryButton BY <1>1, <1>2, <1>5, EasedReconnect DEF NearbyRetryButton
<1>6. CASE geocodeFinished BY <1>1, <1>2, <1>6, EasedGeocode DEF geocodeFinished
<1>7. CASE RetryButton
  <2>1. requestReconciliation(w) \in Shell BY <1>1, RequestReconciliation DEF Keeps, Within
  <2>2. Careful(requestReconciliation(w)) BY <1>1, CarefulAbides, ReconciliationCareful
  <2> QED BY <1>7, <2>1, <2>2, DoesCareful DEF RetryButton, Does
<1>8. CASE pollTimer
  <2>1. requestPoll(w) \in Shell BY <1>1, RequestPoll DEF Keeps, Within
  <2>2. Careful(requestPoll(w)) BY <1>1, PollCareful
  <2> QED BY <1>8, <2>1, <2>2, DoesCareful DEF pollTimer, Does
<1> QED BY <1>3, <1>4, <1>5, <1>6, <1>7, <1>8

LEMMA AnswerCareful ==
  ASSUME Sound(w), Careful(w), server \in ServerState,
         handleLogin \/ handleCurrent \/ handleList \/ handleDetail \/ handleHistory
  PROVE  Careful(w)'
<1>1. w \in Shell /\ Known(w) /\ Told(w) /\ w.api = api /\ w.charge = charge
  BY SoundKnown, ShellOf
<1>2. api'.ops = api.ops BY AnswerEvent
<1>3. CASE api.ops = <<>> BY <1>2, <1>3, IdleEvent
<1>4. CASE api.ops # <<>>
  <2>1. ~handleLogin BY <1>1, <1>4, DueSlot DEF handleLogin, Due, Careful
  <2>2. CASE handleCurrent
    <3>1. PICK slot \in CurrentRead :
            Due(slot) /\ Does(currentOrderLoaded(answered(slot), slot, server.order))
      BY <2>2 DEF handleCurrent
    <3>2. slot \in Slots(w) BY <3>1, DueSlot
    <3>3. slot = "page" BY <1>1, <1>4, <3>2, Busy DEF CurrentRead
    <3>4. w.api.reads["page"] = 0 BY <1>1, <3>1, <3>3 DEF Due
    <3>5. server.order \in Maybe(Order) BY ServerOrder
    <3> DEFINE x == cancelSafeReads(w, {"page"})
               u == currentOrderLoaded(x, "page", server.order)
    <3>6. x.charge = w.charge BY <1>1, CancelReads
    <3>7. u = pageOrderLoaded(x, server.order)
      <4>1. x.charge.read # None BY <1>1, <3>2, <3>3, <3>6 DEF Known
      <4> HIDE DEF x
      <4> QED BY <4>1 DEF currentOrderLoaded
    <3>8. Leads(w, u) BY <3>2, <3>3, <3>5, CurrentLoaded
    <3>9. Careful(u)
      BY <1>1, <3>2, <3>3, <3>4, <3>5, <3>7, SoundAlone, PageLoadedCareful
    <3>10. Does(u) BY <3>1, <3>3 DEF answered
    <3> HIDE DEF u
    <3> QED BY <3>8, <3>9, <3>10, SoundKnown, DoesCareful DEF Leads, Does
  <2>3. CASE handleList
    <3>1. PICK has \in BOOLEAN : Becomes(nearbyStationsLoaded(answered("list"), has), {"list"})
      BY <2>3 DEF handleList
    <3>2. Eased(answered("list"), nearbyStationsLoaded(answered("list"), has))
      BY ListSlot, EasedLoaded DEF answered
    <3> QED BY <3>1, <3>2, SlotEased, EasedShell, DoesCareful DEF answered
  <2>4. CASE handleDetail
    <3>1. PICK d \in DetailId : Does(stationDetailLoaded(cancelDetails(w, {d}), d))
      BY <2>4 DEF handleDetail
    <3> DEFINE u == stationDetailLoaded(cancelDetails(w, {d}), d)
    <3>2. Eased(w, u) BY <1>1, EasedAnswer
    <3> HIDE DEF u
    <3>3. Careful(u) /\ u \in Shell BY <3>2, EasedShell, CarefulEased
    <3> QED BY <3>1, <3>3, DoesCareful DEF Does, u
  <2>5. CASE handleHistory
    <3>1. PICK more \in IF history.pending < LastPage THEN BOOLEAN ELSE {FALSE} :
            Does(orderHistoryLoaded(answered("history"), more))
      BY <2>5 DEF handleHistory
    <3> DEFINE x == cancelSafeReads(w, {"history"})
               u == orderHistoryLoaded(x, more)
    <3>2. more \in BOOLEAN /\ (more => w.history.pending < LastPage) BY <3>1, ShellOf
    <3>3. "history" \in Slots(w) BY <2>5, DueSlot DEF handleHistory
    <3>4. Holds(w, u) BY <1>1, <3>2, <3>3, HistoryAnswered
    <3>5. u.charge = w.charge
      <4>1. x \in Shell /\ x.charge = w.charge BY <1>1, SlotFree
      <4> HIDE DEF x
      <4> QED BY <4>1 DEF orderHistoryLoaded, Shell
    <3> HIDE DEF u
    <3>6. Careful(u) BY <3>3, <3>4, <3>5, HistoryCareful
    <3> QED BY <3>1, <3>4, <3>6, DoesCareful DEF answered, u, Does, Holds
  <2> QED BY <2>1, <2>2, <2>3, <2>4, <2>5
<1> QED BY <1>3, <1>4

LEMMA FactsCareful ==
  ASSUME Sound(w), Careful(w), handleFacts
  PROVE  Careful(w)'
<1>1. PICK st \in {None} \cup chargerStatus(charge.facts.charger) :
        Becomes(factsLoaded(answered("facts"), st), {"facts"})
  BY DEF handleFacts
<1>2. st \in Maybe(Status) BY <1>1 DEF chargerStatus, Status, Maybe
<1>3. w \in Shell /\ Known(w) /\ Told(w) /\ "facts" \in Slots(w) /\ w.api.reads["facts"] = 0
  BY SoundKnown, DueSlot, ShellOf DEF handleFacts, Due
<1> DEFINE u == factsLoaded(cancelSafeReads(w, {"facts"}), st)
<1>4. u \in Shell BY <1>2, <1>3, FactsLoaded DEF Settles, Moves
<1>5. Careful(u) BY <1>2, <1>3, FactsLoadedCareful
<1>6. Becomes(u, {"facts"}) BY <1>1 DEF answered
<1> HIDE DEF u
<1> QED BY <1>4, <1>5, <1>6, DoesCareful

LEMMA ReadFailureCareful ==
  ASSUME Sound(w), Careful(w), handleFailure, NEW slot \in DOMAIN api.reads,
         Does(readFailed(answered(slot), slot))
  PROVE  Careful(w)'
<1>1. Does(readFailed(answered(slot), slot)) OBVIOUS
<1> DEFINE x == cancelSafeReads(w, {slot})
           u == readFailed(x, slot)
<1>2. w \in Shell /\ Known(w) /\ Told(w) /\ slot \in Slots(w) /\ slot \in Read
  BY <1>1, SoundKnown, ShellOf, Parts DEF Slots
<1>3. Leads(w, u) BY <1>2, ReadFailed
<1>4. CASE api.ops = <<>> BY <1>4, FailureEvent, IdleEvent
<1>5. CASE api.ops # <<>>
  <2>1. slot \notin {"guard", "reconnect"} BY <1>2, <1>5, ShellOf, Busy
  <2>2. CASE slot = "page"
    <3>1. u = currentOrderFailed(cancelSafeReads(w, {"page"}), "page")
      BY <2>2 DEF readFailed, CurrentRead
    <3> QED BY <1>2, <2>2, <3>1, PageFailedCareful, <1>1, <1>3, SoundKnown, DoesCareful
            DEF Leads, Does, answered
  <2>3. CASE slot = "facts"
    <3>1. u = factsFailed(cancelSafeReads(w, {"facts"}))
      BY <2>3 DEF readFailed, CurrentRead
    <3> HIDE DEF u
    <3>2. Careful(u) BY <1>2, <2>3, <3>1, FactsFailedCareful
    <3> QED BY <1>1, <1>3, <3>2, SoundKnown, DoesCareful DEF Leads, Does, answered, u
  <2>4. CASE slot = "list"
    <3>1. u = nearbyStationsFailed(cancelSafeReads(w, {"list"}))
      BY <2>4 DEF readFailed, CurrentRead
    <3>2. Eased(cancelSafeReads(w, {"list"}), u) BY <3>1, ListSlot, EasedFailed
    <3> HIDE DEF u
    <3>3. Careful(u) BY <3>2, SlotEased
    <3> QED BY <1>1, <1>3, <3>3, SoundKnown, DoesCareful DEF Leads, Does, answered, u
  <2>6. CASE slot = "history"
    <3>1. u = orderHistoryFailed(cancelSafeReads(w, {"history"}))
      BY <2>6 DEF readFailed, CurrentRead
    <3>2. FALSE \in BOOLEAN /\ Holds(w, u) BY <1>2, <2>6, <3>1, HistoryAnswered
    <3>3. u.charge = w.charge
      <4>1. x \in Shell /\ x.charge = w.charge BY <1>2, SlotFree
      <4>2. u = orderHistoryFailed(x) BY <2>6, <3>1
      <4> HIDE DEF x, u
      <4> QED BY <4>1, <4>2 DEF orderHistoryFailed, Shell
    <3> HIDE DEF u
    <3>4. Careful(u) BY <1>2, <2>6, <3>2, <3>3, HistoryCareful
    <3> QED BY <1>1, <1>3, <3>4, SoundKnown, DoesCareful DEF Leads, Does, answered, u
  <2>7. CASE slot = "login"
    <3>1. u = x BY <2>7 DEF readFailed, CurrentRead
    <3> HIDE DEF u
    <3>2. Careful(u) BY <1>2, <3>1, SlotCareful
    <3> QED BY <1>1, <1>3, <3>2, SoundKnown, DoesCareful DEF Leads, Does, answered, u
  <2> QED BY <1>2, <2>1, <2>2, <2>3, <2>4, <2>6, <2>7 DEF Read, CurrentRead
<1> QED BY <1>4, <1>5

LEMMA FailureCareful ==
  ASSUME Sound(w), Careful(w), handleFailure
  PROVE  Careful(w)'
<1>1. CASE \E slot \in DOMAIN api.reads : api.up /\ Does(readFailed(answered(slot), slot))
  BY <1>1, ReadFailureCareful
<1>2. CASE \E d \in DetailId :
             DetailDue(d) /\ Does(stationDetailFailed(cancelDetails(w, {d}), d))
  <2>1. PICK d \in DetailId : Does(stationDetailFailed(cancelDetails(w, {d}), d)) BY <1>2
  <2> DEFINE u == stationDetailFailed(cancelDetails(w, {d}), d)
  <2>2. Eased(w, u) BY SoundKnown, EasedAnswer
  <2> HIDE DEF u
  <2>3. Careful(u) /\ u \in Shell BY <2>2, EasedShell, CarefulEased
  <2> QED BY <2>1, <2>3, DoesCareful DEF Does, u
<1> QED BY <1>1, <1>2 DEF handleFailure

\* Pages are turned only when no mutation is on its way.
LEMMA TurnCareful ==
  ASSUME Sound(w), Careful(w),
         NearbyButton \/ ProfileButton \/ navigationRequested \/ navigationBack
           \/ CurrentOrderButton \/ BackButton \/ HistoryButton \/ HistoryPageButton
           \/ chargerSelected
  PROVE  api.ops = <<>> /\ Careful(w)'
<1>1. ASSUME api.ops # <<>> PROVE FALSE
  <2>1. /\ main.page = "charge" => main.blocked /\ charge.buttons \subseteq {"retry"}
        /\ main.page # "charge" => main.page = "login" /\ ~main.navShown
    BY <1>1, Busy, ShellOf
  <2>2. ~Free BY <2>1 DEF Free
  <2>3. "back" \notin charge.buttons \/ main.page # "charge" BY <2>1
  <2> QED BY <2>1, <2>2, <2>3
          DEF NearbyButton, ProfileButton, navigationRequested, navigationBack,
              CurrentOrderButton, BackButton, HistoryButton, HistoryPageButton,
              chargerSelected, At
<1>2. api'.ops = api.ops BY TurnEvent, OrderEvent, HistoryPageEvent, ChargerEvent
<1> QED BY <1>1, <1>2, IdleEvent

LEMMA RetryCareful ==
  ASSUME Sound(w), Careful(w), AuthorityRetryButton
  PROVE  Careful(w)'
<1>1. CASE api.ops = <<>> BY <1>1, RetryEvent, IdleEvent
<1>2. CASE api.ops # <<>>
  <2>1. main.required /\ Does(requestReconnectCurrent(w)) BY DEF AuthorityRetryButton
  <2>2. ~w.api.user BY <1>2, <2>1, Busy, ShellOf
  <2>3. requestReconnectCurrent(w) = w BY <2>2 DEF requestReconnectCurrent
  <2> QED BY <2>1, <2>3, SoundKnown, DoesCareful DEF Does
<1> QED BY <1>1, <1>2

\* A session that ends gives up what it awaits; a login waits for what is on its way.
LEMMA ResetCareful ==
  ASSUME NEW v \in Shell, Careful(v)
  PROVE  LET u == sessionReset(v) IN
         /\ Sound(u) /\ Careful(u) /\ Careful(send(u, "login"))
         /\ u.main.page = "login" /\ ~u.api.user /\ ~u.main.guard
         /\ Len(u.api.ops) = Len(v.api.ops)
<1> DEFINE u == sessionReset(v)
           x == send(u, "login")
<1>1. /\ Sound(u) /\ u.main.page = "login" /\ ~u.api.user /\ ~u.main.guard
      /\ u.api.up = v.api.up /\ "login" \notin Slots(u)
      /\ Len(u.api.ops) = Len(v.api.ops)
  BY SessionReset
<1> HIDE DEF u
<1>2. u \in Shell /\ ~u.charge.active BY <1>1, SoundKnown DEF Sound, Seated
<1>3. ASSUME u.api.ops # <<>> PROVE v.api.up /\ Len(v.api.ops) = 1
  <2>1. u.api.ops \in Seq(SentMutation) /\ v.api.ops \in Seq(SentMutation)
    BY <1>2, Parts DEF ApiState
  <2>2. v.api.ops # <<>> BY <1>1, <1>3, <2>1
  <2> QED BY <2>2 DEF Careful
<1>4. Careful(u) BY <1>1, <1>2, <1>3 DEF Careful
<1>5. /\ x.charge = u.charge /\ x.main = u.main /\ x.api.up = u.api.up
      /\ x.api.user = u.api.user /\ x.api.ops = u.api.ops
      /\ x.api.reads["login"] = Len(u.api.ops)
  <2>1. "login" \in Read BY DEF Read
  <2> QED BY <1>2, <2>1, SendRead
<1> HIDE DEF x
<1>6. Careful(x) BY <1>1, <1>2, <1>3, <1>5 DEF Careful
<1> QED BY <1>1, <1>4, <1>6 DEF u, x

LEMMA LoginCareful ==
  ASSUME Sound(w), Careful(w), loginByPhone
  PROVE  Careful(w)'
<1> DEFINE u == sessionReset(w)
<1>1. /\ Sound(u) /\ Careful(u) /\ Careful(send(u, "login"))
      /\ u.main.page = "login" /\ ~u.api.user /\ ~u.main.guard
  BY SoundKnown, ResetCareful
<1>2. Does(send(u, "login")) \/ Does(u) BY DEF loginByPhone
<1> HIDE DEF u
<1>3. Leads(u, send(u, "login")) BY <1>1, LoginSent
<1> QED BY <1>1, <1>2, <1>3, SoundKnown, DoesCareful DEF Leads, Does

LEMMA TailGone ==
  ASSUME Sound(w), Careful(w), api.ops # <<>>
  PROVE  Tail(api.ops) = <<>>
<1>1. api.ops \in Seq(SentMutation) /\ Len(api.ops) = 1
  BY SoundKnown, Parts, ShellOf DEF ApiState, Careful
<1>2. ASSUME NEW q \in Seq(SentMutation), Len(q) = 1 PROVE Tail(q) = <<>>
  <2>1. Len(q) = 1 /\ q # <<>> BY <1>2
  <2>2. Tail(q) \in Seq(SentMutation) BY <2>1
  <2>3. Len(Tail(q)) = 0 BY <2>1
  <2> QED BY <2>2, <2>3, EmptySeq
<1> QED BY <1>1, <1>2

LEMMA ExpiryCareful ==
  ASSUME Sound(w), Careful(w), handleExpiry
  PROVE  Careful(w)'
<1> DEFINE v == [w EXCEPT !.api.ops = Tail(@)]
<1>1. w \in Shell /\ w.api = api BY SoundKnown, ShellOf
<1>2. CASE Does(sessionReset(w))
  <2>1. Careful(sessionReset(w)) /\ sessionReset(w) \in Shell BY <1>1, ResetCareful, SoundKnown
  <2> QED BY <1>2, <2>1, DoesCareful DEF Does
<1>3. CASE api.ops # <<>> /\ Does(sessionReset(v))
  <2> DEFINE a == [api EXCEPT !.ops = Tail(@)]
  <2>1. Tail(api.ops) = <<>> BY <1>3, TailGone
  <2>2. a \in ApiState(Slots(w)) /\ a.ops = <<>>
    <3>1. api \in ApiState(Slots(w)) BY <1>1, Parts
    <3>2. <<>> \in Seq(SentMutation) OBVIOUS
    <3> QED BY <2>1, <3>1, <3>2 DEF ApiState
  <2>3. v = [w EXCEPT !.api = a] BY <1>1 DEF Shell
  <2> HIDE DEF a
  <2>4. v \in Shell /\ v.api.ops = <<>>
    BY <1>1, <2>2, <2>3, Parts DEF Shell
  <2> HIDE DEF v
  <2>5. Careful(sessionReset(v)) /\ sessionReset(v) \in Shell
    BY <2>4, CarefulIdle, ResetCareful, SoundKnown
  <2> QED BY <1>3, <2>5, DoesCareful DEF Does
<1> QED BY <1>2, <1>3 DEF handleExpiry, MutationDue

LEMMA OutcomeCareful ==
  ASSUME Sound(w), Careful(w), server \in ServerState, handleMutation
  PROVE  Careful(w)'
BY OutcomeEvent, TailGone, IdleEvent

LEMMA LinkCareful ==
  ASSUME Sound(w), Careful(w), Disconnect \/ Connect
  PROVE  Careful(w)'
<1>1. Connect => api.ops = <<>> BY ShellOf DEF Connect, Careful
<1> QED BY <1>1, LinkEvent, IdleEvent

\* What was asked is awaited no longer, and the page stays or reads its order again.
LEMMA UncertainCareful ==
  ASSUME NEW v, Answered(v), Careful(v)
  PROVE  Careful(mutationFailed(v, "uncertain"))
<1> DEFINE m == [v.main EXCEPT !.stamp = "none"]
           e == Unsettled(v.charge)
           z == Anew(v, e, m)
           h == Shown(z)
           f == endMutation(Notified(v, [v.charge EXCEPT !.current = FALSE], m))
           u == mutationFailed(v, "uncertain")
<1>1. /\ v \in Shell /\ Known(v) /\ Told(v) /\ v.charge.active
      /\ v.charge \in ChargeState /\ {"guard", "reconnect", "login"} \cap Slots(v) = {}
  BY AnsweredAlone
<1>2. /\ m \in MainState /\ Noted(v.main, m) /\ e \in ChargeState /\ Paged(e)
      /\ e.active /\ e.reported = v.charge.reported /\ e.facts = None /\ e.read = None
      /\ e.reconcile = TRUE /\ e.mutation = None /\ e.exit = v.charge.exit
      /\ Whole(h)
      /\ u = IF overtaken(v, v.charge.mutation.subject) THEN f ELSE requestReconciliation(h)
  BY MutationRefused
<1> HIDE DEF m, e, u
<1>3. CASE overtaken(v, v.charge.mutation.subject)
  <2>1. PICK y : Ending(v, m, y) /\ f = Shown(y) BY <1>2, EndingDone
  <2>2. /\ y \in Shell /\ Known(y) /\ Told(y)
        /\ y.charge = [v.charge EXCEPT !.read = None, !.current = TRUE, !.mutation = None]
        /\ y.api.up = v.api.up /\ y.api.user = v.api.user /\ y.api.ops = v.api.ops
        /\ y.main.page = v.main.page /\ y.main.guard = v.main.guard
        /\ Slots(y) \subseteq Slots(v) /\ \A s \in Slots(y) : y.api.reads[s] = v.api.reads[s]
    BY <1>2, <2>1 DEF Ending, Noted
  <2>3. /\ y.charge.mutation = None /\ y.charge.exit = v.charge.exit
        /\ y.charge.reconcile = v.charge.reconcile /\ y.charge.facts = v.charge.facts
        /\ y.charge.gate = v.charge.gate /\ y.charge.active
    BY <1>1, <2>2 DEF ChargeState
  <2>4. v.api.ops # <<>> => Bound(y.charge) /\ Late(y)
    BY <1>1, <1>3, <2>2, <2>3 DEF overtaken, Careful, Bound, Late
  <2>5. Careful(y) BY <1>1, <2>2, <2>4 DEF Careful
  <2> QED BY <1>2, <1>3, <2>1, <2>2, <2>5, CarefulShown DEF u
<1>4. CASE ~overtaken(v, v.charge.mutation.subject)
  <2>1. Beside(v, z) /\ z.charge = e /\ z.main = m
    BY <1>1, <1>2, Replaced DEF Noted, Told
  <2> HIDE DEF z
  <2>2. /\ z \in Shell /\ Known(z) /\ Told(z) /\ z.api.up = v.api.up
        /\ z.api.user = v.api.user /\ z.api.ops = v.api.ops
        /\ z.main.page = v.main.page /\ z.main.guard = v.main.guard
        /\ "login" \notin Slots(z)
    BY <1>1, <1>2, <2>1 DEF Beside, Noted
  <2>3. Late(z) BY <1>2, <2>1, <2>2 DEF Late, Known
  <2>4. v.api.ops # <<>> => Bound(z.charge) BY <1>1, <1>2, <2>1 DEF Careful, Bound
  <2>5. Careful(z) BY <2>2, <2>3, <2>4 DEF Careful
  <2>6. Careful(h) /\ h \in Shell /\ Known(h) /\ Told(h)
    BY <1>2, <2>2, <2>5, CarefulShown DEF Whole
  <2> HIDE DEF h
  <2>7. Careful(requestReconciliation(h)) BY <2>6, CarefulAbides, ReconciliationCareful
  <2> QED BY <1>2, <1>4, <2>7 DEF u
<1> QED BY <1>3, <1>4

LEMMA UnawaitedParts ==
  ASSUME NEW v \in Shell
  PROVE  LET u == Unawaited(v) IN
         /\ u.charge = v.charge /\ u.main = v.main /\ u.nearby = v.nearby
         /\ u.api.up = v.api.up /\ u.api.user = v.api.user /\ u.api.reads = v.api.reads
         /\ Len(u.api.ops) = Len(v.api.ops) /\ (u.api.ops # <<>> <=> v.api.ops # <<>>)
<1> DEFINE q == v.api.ops
           p == [i \in DOMAIN q |-> [q[i] EXCEPT !.live = FALSE]]
           u == Unawaited(v)
<1>1. v.api \in ApiState(Slots(v)) /\ q \in Seq(SentMutation) BY Parts DEF ApiState
<1>2. p \in Seq(SentMutation) /\ DOMAIN p = DOMAIN q BY <1>1, GivenUpOps
<1>3. Len(p) = Len(q) BY <1>1, <1>2
<1>4. p # <<>> <=> q # <<>> BY <1>1, <1>2, <1>3, EmptySeq
<1>5. u = [v EXCEPT !.api.ops = p] BY DEF Unawaited
<1> HIDE DEF p, u
<1>6. /\ u.charge = v.charge /\ u.main = v.main /\ u.nearby = v.nearby
      /\ u.api.up = v.api.up /\ u.api.user = v.api.user /\ u.api.reads = v.api.reads
      /\ u.api.ops = p
  BY <1>1, <1>5 DEF Shell, ApiState
<1> QED BY <1>3, <1>4, <1>6 DEF u

LEMMA TimeoutCareful ==
  ASSUME Sound(w), Careful(w), MutationTimeout
  PROVE  Careful(w)'
<1> DEFINE v == Unawaited(w)
           u == mutationFailed(v, "uncertain")
<1>1. \E i \in DOMAIN w.api.ops : w.api.ops[i].live BY ShellOf DEF MutationTimeout
<1>2. Answered(v) BY <1>1, UnawaitedAnswered
<1>3. /\ v.charge = w.charge /\ v.main = w.main
      /\ v.api.up = w.api.up /\ v.api.user = w.api.user /\ v.api.reads = w.api.reads
      /\ Len(v.api.ops) = Len(w.api.ops) /\ (v.api.ops # <<>> <=> w.api.ops # <<>>)
  BY SoundKnown, UnawaitedParts
<1>4. Does(u) BY DEF MutationTimeout, Unawaited
<1> HIDE DEF v
<1>5. Careful(v) BY <1>3 DEF Careful, Late, Slots
<1>6. Careful(u) BY <1>2, <1>5, UncertainCareful
<1>7. Leads(v, u) BY <1>2, MutationFailed
<1> HIDE DEF u
<1> QED BY <1>4, <1>6, <1>7, SoundKnown, DoesCareful DEF Leads, Does

\* A mutation is sent by a page that is free, when none is on its way.
LEMMA MutationCareful ==
  ASSUME Sound(w), Careful(w), MutationButton
  PROVE  Careful(w)'
<1>1. PICK op \in Mutation \cap charge.buttons : Does(beginMutation(w, op))
  BY DEF MutationButton
<1> DEFINE u == beginMutation(w, op)
<1>2. w.charge = charge /\ w.api = api /\ w.main = main BY ShellOf
<1>3. api.ops = <<>>
  <2>1. main.page = "charge" BY DEF MutationButton, At
  <2>2. op # "retry" BY DEF Mutation
  <2> QED BY <1>1, <1>2, <2>1, <2>2, Busy
<1>4. Sound(u) BY <1>1, <1>2, BeginMutation
<1>5. CASE ~w.charge.active \/ ~w.api.up \/ chargeFlowBlocked(w.charge)
  <2>1. u = w BY <1>1, <1>2, <1>5, MutationBegun
  <2> HIDE DEF u
  <2> QED BY <1>1, <1>4, <2>1, SoundKnown, DoesCareful DEF Does, u
<1>6. CASE ~(~w.charge.active \/ ~w.api.up \/ chargeFlowBlocked(w.charge))
  <2>1. PICK p, r, y : Asked(w, op, p, r, y) /\ u = Shown(y)
    BY <1>1, <1>2, <1>6, MutationBegun
  <2> HIDE DEF u
  <2>2. /\ p # None /\ y.charge.mutation = p /\ y.charge.active /\ ~y.charge.exit
        /\ y.main.page = "charge" /\ ~p.superseded
    <3>1. /\ p # None /\ y.charge.mutation = p /\ y.charge.active = w.charge.active
          /\ y.charge.exit = w.charge.exit /\ y.main.page = w.main.page
      BY <2>1, AskedParts
    <3>2. ~p.superseded BY <2>1 DEF Asked
    <3>3. w.main.page = "charge" BY <1>2 DEF MutationButton, At
    <3> QED BY <1>6, <3>1, <3>2, <3>3 DEF chargeFlowBlocked
  <2>3. /\ y \in Shell /\ Known(y) /\ Told(y) /\ y.api.up /\ Slots(y) = Slots(w)
        /\ Len(y.api.ops) = 1
    BY <1>2, <1>3, <1>6, <2>1 DEF Asked, Slots
  <2>4. "login" \notin Slots(y)
    BY <2>2, <2>3, <1>2 DEF Sound, Seated, MutationButton, At
  <2>5. Careful(y) BY <2>2, <2>3, <2>4 DEF Careful, Bound
  <2>6. Careful(u) BY <2>1, <2>3, <2>5, CarefulShown
  <2> QED BY <1>1, <1>4, <2>6, SoundKnown, DoesCareful DEF Does, u
<1> QED BY <1>5, <1>6

-----------------------------------------------------------------------------
(* No mutation while another is on its way.                                *)

LEMMA ElsewhereSame ==
  ASSUME Elsewhere \/ UNCHANGED vars PROVE w' = w
BY DEF Elsewhere, vars, w

LEMMA CarefulStep ==
  ASSUME IInv, Careful(w), [Next]_vars
  PROVE  Careful(w)'
<1>1. Sound(w) /\ server \in ServerState BY DEF IInv
<1>2. CASE Press
  BY <1>1, <1>2, LoginCareful, TurnCareful, RetryCareful, QuietCareful, MutationCareful
  DEF Press
<1>3. CASE Answer
  BY <1>1, <1>3, AnswerCareful, FactsCareful, FailureCareful, ExpiryCareful,
     OutcomeCareful, TimeoutCareful, QuietCareful
  DEF Answer
<1>4. CASE pollTimer BY <1>1, <1>4, QuietCareful
<1>5. CASE Disconnect \/ Connect BY <1>1, <1>5, LinkCareful
<1>6. CASE Elsewhere \/ UNCHANGED vars BY <1>6, ElsewhereSame
<1> QED BY <1>2, <1>3, <1>4, <1>5, <1>6 DEF Next

LEMMA CarefulInit == ASSUME Init PROVE Careful(w)
BY ShellOf DEF Init, Careful

\* While a mutation is on its way it is alone, and the page of its order or that of the
\* login is on show and waits: the inductive invariant of the theorem below.
THEOREM CarefulAlways == Spec => []Careful(w)
<1>1. Init => IInv /\ Careful(w) BY SoundInit, CarefulInit
<1>2. IInv /\ Careful(w) /\ [Next]_vars => IInv' /\ Careful(w)' BY IInvStep, CarefulStep
<1> QED BY <1>1, <1>2, PTL DEF Spec

\* No button of a mutation is enabled while an earlier one may still change the
\* order: from the press to the answer, and from an answer that was given up, a lost
\* connection or the end of the session until ChargePage has read the order after it.
THEOREM MutationsOneByOne == Spec => []NoBlindMutation
<1>1. ASSUME IInv, Careful(w) PROVE NoBlindMutation
  <2> SUFFICES ASSUME api.ops # <<>> PROVE charge.buttons \cap Mutation = {}
    BY DEF NoBlindMutation
  <2>1. w.charge = charge /\ w.api = api BY ShellOf
  <2>2. CASE charge.active
    <3>1. Bound(w.charge) /\ Rendered(w) /\ Sound(w)
      BY <1>1, <2>1, <2>2 DEF Careful, IInv, Sound, Whole
    <3>2. Usable(w) \subseteq {"back"} BY <2>1, <3>1 DEF Usable, Bound
    <3> QED BY <2>1, <3>1, <3>2 DEF Rendered, Mutation
  <2>3. CASE ~charge.active
    <3>1. Rendered(w) BY <1>1 DEF IInv, Sound, Whole
    <3>2. Usable(w) = {} BY <2>1, <2>3 DEF Usable
    <3> QED BY <2>1, <3>1, <3>2 DEF Rendered, Mutation
  <2> QED BY <2>2, <2>3
<1> QED BY <1>1, Invariant, CarefulAlways, PTL

-----------------------------------------------------------------------------
(* The window and the page of an order know of the same order.             *)

Current(order) == IF isActive(order) THEN order ELSE None

\* What the page of an order has asked for is about the order it shows.
OwnRead(c) ==
  c.read # None =>
    /\ c.read.owner = orderId(c.order)
    /\ c.read.op = "poll" => c.order # None
    /\ c.read.op = "reconcile" => c.reconcile /\ c.mutation = None

OwnMutation(v) ==
  LET m == v.charge.mutation
  IN  m # None =>
        /\ v.main.stamp # "none"
        /\ m.superseded => v.main.stamp = "moved"
        /\ m.op = "reserve" <=> m.subject = 0
        /\ ~m.superseded /\ v.charge.order # None => v.charge.order.id = m.subject
        /\ \A i \in DOMAIN v.api.ops :
             v.api.ops[i].live =>
               /\ v.api.ops[i].op = m.op
               /\ m.op # "reserve" => v.api.ops[i].target = m.subject

Agreed(v) ==
  /\ v.main.authority = Current(v.main.authority)
  /\ v.charge.active => v.main.authority = Current(v.charge.order)
  /\ OwnRead(v.charge) /\ OwnMutation(v)

LEMMA CurrentTwice ==
  /\ Current(None) = None
  /\ \A order : Current(Current(order)) = Current(order)
BY DEF Current, isActive

\* A page that is not on show awaits nothing.
LEMMA AgreedAway ==
  ASSUME NEW u, Sound(u), ~u.charge.active, u.main.authority = Current(u.main.authority)
  PROVE  Agreed(u)
<1>1. u.charge.mutation = None /\ u.charge.read = None
  BY DEF Sound, Awaited, Whole, Known, Paged
<1> QED BY <1>1 DEF Agreed, OwnRead, OwnMutation

LEMMA AgreedFrame ==
  ASSUME NEW v, NEW u, Frame(v, u), Agreed(v), OwnRead(u.charge)
  PROVE  Agreed(u)
BY DEF Agreed, Frame, OwnMutation

LEMMA AgreedRead ==
  ASSUME NEW v, NEW u, Frame(v, u), Agreed(v), u.charge.read \in {None, v.charge.read},
         v.charge.read # None => v.charge.read.op # "reconcile" \/ u.charge.reconcile
  PROVE  Agreed(u)
<1>1. OwnRead(u.charge) BY DEF Agreed, OwnRead, Frame
<1> QED BY <1>1, AgreedFrame

LEMMA AgreedGentle ==
  ASSUME NEW v, NEW u, Known(v), Frame(v, u), Gentle(v, u), Agreed(v)
  PROVE  Agreed(u)
<1>1. ASSUME v.charge.read # None, v.charge.read.op = "reconcile" PROVE u.charge.reconcile
  <2>1. v.charge.reconcile BY <1>1 DEF Agreed, OwnRead
  <2>2. Held(v.charge) BY <1>1, <2>1 DEF Held, chargeFlowBlocked, Known, Paged
  <2> QED BY <2>1, <2>2 DEF Gentle, Fixed
<1> QED BY <1>1, AgreedRead DEF Gentle

LEMMA AgreedEased ==
  ASSUME NEW v, NEW u, Known(v), Eased(v, u), Agreed(v)
  PROVE  Agreed(u)
BY AgreedGentle DEF Eased, Keeps, Within

LEMMA AgreedShown ==
  ASSUME NEW v \in Shell, Known(v), Told(v), Agreed(v)
  PROVE  Agreed(Shown(v))
<1> DEFINE u == Shown(v)
<1>1. Settles(v, u) /\ Gentle(v, u) BY ShownSettles, ShownGentle
<1> HIDE DEF u
<1>2. Frame(v, u) BY <1>1 DEF Settles, Moves, Within
<1>3. Agreed(u) BY <1>1, <1>2, AgreedGentle
<1> QED BY <1>3 DEF u

LEMMA ReconciliationAgreed ==
  ASSUME NEW v \in Shell, Known(v), Told(v), Agreed(v)
  PROVE  Agreed(requestReconciliation(v))
<1> DEFINE u == requestReconciliation(v)
<1>1. Frame(v, u) BY RequestReconciliation DEF Keeps, Within
<1>2. u = v \/ Reconciling(v, u) BY ReconciliationDone
<1> HIDE DEF u
<1>3. ASSUME Reconciling(v, u) PROVE Agreed(u)
  <2>1. OwnRead(u.charge) BY <1>1, <1>3 DEF Reconciling, Reading, OwnRead, Frame
  <2> QED BY <1>1, <2>1, AgreedFrame
<1> QED BY <1>2, <1>3 DEF u

LEMMA PollAgreed ==
  ASSUME NEW v \in Shell, Known(v), Told(v), Agreed(v)
  PROVE  Agreed(requestPoll(v))
<1> DEFINE u == loadCurrentOrder(v, "poll")
<1>1. CASE requestPoll(v) = v BY <1>1
<1>2. CASE requestPoll(v) # v
  <2>1. requestPoll(v) = u /\ v.charge.active /\ v.charge.order # None
    BY <1>2 DEF requestPoll
  <2>2. Frame(v, u) BY <2>1, LoadOrder DEF Keeps, Within
  <2>3. u.charge.read.op = "poll" /\ u.charge.read.owner = orderId(v.charge.order)
    BY LoadedRecord
  <2> HIDE DEF u
  <2>4. OwnRead(u.charge) BY <2>1, <2>2, <2>3 DEF OwnRead, Frame
  <2> QED BY <2>1, <2>2, <2>4, AgreedFrame
<1> QED BY <1>1, <1>2

\* The event is over, and the window is the shell that its handlers leave.
LEMMA DoesAgreed ==
  ASSUME NEW x \in Shell, Agreed(x), NEW slots, Becomes(x, slots)
  PROVE  Agreed(w)'
<1>1. x = [api |-> x.api, charge |-> x.charge, nearby |-> x.nearby, history |-> x.history,
           main |-> x.main]
  BY DEF Shell
<1>2. w' = x BY <1>1 DEF w, Becomes
<1> QED BY <1>2

\* The window is sound, and knows of the same order as its page.
Accords(u) == Sound(u) /\ Agreed(u)

LEMMA BecomesAgreed ==
  ASSUME NEW x, Accords(x), NEW slots, Becomes(x, slots)
  PROVE  Agreed(w)'
BY SoundKnown, DoesAgreed DEF Accords

LEMMA KeepsAccords ==
  ASSUME NEW v, Sound(v), NEW u, Keeps(v, u), Agreed(u)
  PROVE  Accords(u)
BY KeepsLeads DEF Leads, Accords

\* What the window makes of the order that a read has found.
Learns(n, order, guard, owned, owner) ==
  CASE order # None -> order
    [] order = None /\ guard -> None
    [] order = None /\ ~guard /\ owned
         /\ (n.authority = None \/ (owner # 0 /\ n.authority.id = owner)) -> None
    [] OTHER -> n.authority

LEMMA LearntAuthority ==
  ASSUME NEW v \in Shell, NEW order \in Maybe(Order), NEW guard \in BOOLEAN,
         NEW owned \in BOOLEAN, NEW owner
  PROVE  LET m == observed(v, order, guard, owned, owner).main IN
         /\ m.authority = Learns(v.main, order, guard, owned, owner)
         /\ m.stamp \in {v.main.stamp, moved(v.main.stamp)}
         /\ order # None => m.stamp = moved(v.main.stamp)
<1> DEFINE u == observed(v, order, guard, owned, owner)
<1>1. v.main \in MainState /\ v = [v EXCEPT !.main = v.main] BY Parts DEF Shell
<1>2. CASE order # None
  <2>1. u = adoptActiveOrder(v, order) BY <1>2 DEF observed
  <2> HIDE DEF u
  <2>2. u.main.authority = order /\ u.main.stamp = moved(v.main.stamp)
    BY <1>1, <2>1 DEF adoptActiveOrder, Shell, MainState
  <2> QED BY <1>2, <2>2 DEF Learns, u
<1>3. CASE order = None /\ ~guard /\ ~owned
  BY <1>3 DEF observed, Learns
<1>4. CASE order = None /\ (guard \/ owned)
  <2> DEFINE o == IF guard THEN 0 ELSE owner
             a == v.main.authority
  <2>1. u = clearActiveOrder(v, o, guard) BY <1>4 DEF observed
  <2> HIDE DEF u
  <2>2. CASE ~guard /\ a # None /\ (o = 0 \/ a.id # o)
    <3>1. u = v BY <2>1, <2>2 DEF clearActiveOrder
    <3> QED BY <1>4, <2>2, <3>1 DEF Learns, u
  <2>3. CASE ~(~guard /\ a # None /\ (o = 0 \/ a.id # o))
    <3>1. u.main.authority = None /\ u.main.stamp \in {v.main.stamp, moved(v.main.stamp)}
      BY <1>1, <2>1, <2>3 DEF clearActiveOrder, Shell, MainState
    <3> QED BY <1>4, <2>3, <3>1 DEF Learns, u
  <2> QED BY <2>2, <2>3
<1> QED BY <1>2, <1>3, <1>4

\* The same, of a read of the window, of the page or of neither.
LEMMA ObservedAuthority ==
  ASSUME NEW v \in Shell, Known(v), Told(v), NEW slot, NEW order \in Maybe(Order),
         NEW pageOwned \in BOOLEAN, NEW owner
  PROVE  LET m == currentAuthorityObserved(v, slot, order, pageOwned, owner).main IN
         /\ m.authority \in {order, None, v.main.authority}
         /\ order # None \/ (slot = "guard" /\ v.main.guard) => m.authority = order
         /\ /\ slot = "page" /\ pageOwned /\ order = None
            /\ v.main.authority = None \/ (owner # 0 /\ v.main.authority.id = owner)
            => m.authority = None
         /\ m.stamp \in {v.main.stamp, moved(v.main.stamp)}
         /\ order # None => m.stamp = moved(v.main.stamp)
<1> DEFINE u == currentAuthorityObserved(v, slot, order, pageOwned, owner)
<1>1. CASE slot = "reconnect" /\ v.main.reconnect # None
  <2> DEFINE n == [v.main EXCEPT !.reconnect = None]
             y == [v EXCEPT !.main = n]
             own == v.main.reconnect.owner
             no == FALSE
             yes == TRUE
             o == observed(y, order, no, yes, own)
  <2>1. /\ n \in MainState /\ n.authority = v.main.authority /\ n.stamp = v.main.stamp
        /\ n.page = v.main.page /\ n.guard = v.main.guard /\ n.navShown = v.main.navShown
        /\ n.blocked = v.main.blocked /\ n.deferred = v.main.deferred
        /\ n.remembered = v.main.remembered
    BY Parts DEF MainState, Maybe
  <2>2. u = resolveReconnectCurrent(o)
    <3>1. [v EXCEPT !.main.reconnect = None] = y BY DEF Shell
    <3> HIDE DEF y
    <3> QED BY <1>1, <3>1 DEF currentAuthorityObserved
  <2> HIDE DEF n, u
  <2>3. y \in Shell /\ y.main = n /\ Known(y) /\ Told(y) BY <2>1, MainSet
  <2> HIDE DEF y
  <2>4. yes \in BOOLEAN /\ no \in BOOLEAN OBVIOUS
  <2>5. /\ o.main.authority = Learns(n, order, no, yes, own)
        /\ o.main.stamp \in {n.stamp, moved(n.stamp)}
        /\ order # None => o.main.stamp = moved(n.stamp)
    <3>1. /\ o.main.authority = Learns(y.main, order, no, yes, own)
          /\ o.main.stamp \in {y.main.stamp, moved(y.main.stamp)}
          /\ order # None => o.main.stamp = moved(y.main.stamp)
      <4> HIDE DEF own, no, yes
      <4> QED BY <2>3, <2>4, LearntAuthority
    <3> HIDE DEF o, own, no, yes
    <3> QED BY <2>3, <3>1
  <2>6. o \in Shell /\ Known(o) /\ Told(o) BY <2>3, <2>4, Learnt DEF Holds
  <2> HIDE DEF o
  <2>7. u.main.authority = o.main.authority /\ u.main.stamp = o.main.stamp
    BY <2>2, <2>6, Resolve
  <2>8. Learns(n, order, no, yes, own) = Learns(v.main, order, no, yes, own)
    BY <2>1 DEF Learns
  <2>9. /\ u.main.authority = Learns(v.main, order, no, yes, own)
        /\ u.main.stamp \in {v.main.stamp, moved(v.main.stamp)}
        /\ order # None => u.main.stamp = moved(v.main.stamp)
    BY <2>1, <2>5, <2>7, <2>8
  <2> QED BY <1>1, <2>9 DEF Learns, u, no
<1>2. CASE ~(slot = "reconnect" /\ v.main.reconnect # None)
  <2> DEFINE g == slot = "guard" /\ v.main.guard
  <2>1. g \in BOOLEAN BY Parts DEF MainState
  <2>2. u = observed(v, order, g, pageOwned, owner) BY <1>2 DEF currentAuthorityObserved
  <2> HIDE DEF u, g
  <2>3. /\ u.main.authority = Learns(v.main, order, g, pageOwned, owner)
        /\ u.main.stamp \in {v.main.stamp, moved(v.main.stamp)}
        /\ order # None => u.main.stamp = moved(v.main.stamp)
    BY <2>1, <2>2, LearntAuthority
  <2> QED BY <1>2, <2>3 DEF Learns, u, g
<1> QED BY <1>1, <1>2

\* The facts are asked for, and nothing else but the selection changes.
LEMMA FactsFrame ==
  ASSUME NEW v \in Shell, Known(v), Told(v), NEW gate \in BOOLEAN, NEW commit \in BOOLEAN,
         v.charge.facts = None, v.charge.read = None, ~v.charge.exitFailed,
         v.charge.order # None \/ gate
  PROVE  LET u == requestFacts(v, gate, commit) IN Frame(v, u) /\ u.charge.read = None
<1> DEFINE c == v.charge
           u == requestFacts(v, gate, commit)
<1>1. CASE ~c.active \/ (c.order = None /\ c.selection = None)
  <2>1. u = v BY <1>1 DEF requestFacts
  <2>2. Keeps(v, v) BY KeepsSelf
  <2> QED BY <2>1, <2>2 DEF Keeps, Within
<1>2. CASE c.active /\ (c.order # None \/ c.selection # None)
  <2>1. PICK s \in Shell, a \in 0..3 :
          /\ Moves(v, s) /\ Origin(c) \in BOOLEAN
          /\ s.charge = Asking(c, s.charge.facts, gate, s.charge.exit, s.charge.attempt)
          /\ s.charge.facts # None /\ s.charge.gate = gate /\ s.charge.order = c.order
          /\ u = Shown(IF Origin(c) THEN refreshAfterCharge(s, a) ELSE s)
    <3> HIDE DEF u
    <3> QED BY <1>2, FactsAsked DEF u
  <2> DEFINE y == IF Origin(c) THEN refreshAfterCharge(s, a) ELSE s
  <2> HIDE DEF u
  <2>2. s \in Shell /\ Known(s) /\ Told(s) /\ Frame(v, s) BY <2>1 DEF Moves, Within
  <2>3. Keeps(s, y) /\ Gentle(s, y)
    <3>1. Keeps(s, s) /\ Gentle(s, s) BY <2>2, KeepsSelf, GentleSelf
    <3>2. s.charge.order # None \/ chargeFlowBlocked(s.charge)
      BY <2>1 DEF chargeFlowBlocked
    <3>3. Keeps(s, refreshAfterCharge(s, a)) /\ Gentle(s, refreshAfterCharge(s, a))
      BY <2>2, <3>2, RefreshAfter, RefreshAfterGentle
    <3> QED BY <2>1, <3>1, <3>3
  <2>4. u = Shown(y) BY <2>1
  <2> HIDE DEF y
  <2>5. Gentle(y, u) /\ Moves(y, u)
    BY <2>3, <2>4, ShownGentle, ShownSettles DEF Keeps, Settles
  <2>6. c \in ChargeState /\ c.read = None BY Parts
  <2>7. s.charge.read = None
    <3> DEFINE f == s.charge.facts  e == s.charge.exit  k == s.charge.attempt
    <3>1. s.charge = Asking(c, f, gate, e, k) BY <2>1
    <3> HIDE DEF f, e, k, c
    <3> QED BY <2>6, <3>1 DEF Asking, ChargeState
  <2>8. u.charge.read = None BY <2>3, <2>5, <2>7 DEF Gentle
  <2>9. Within(v, u) BY <2>1, <2>3, <2>5, WithinTrans DEF Moves, Keeps
  <2> QED BY <2>8, <2>9 DEF Within, u
<1> QED BY <1>1, <1>2

\* The page, its mutation and the order of the window are as they were.
LEMMA AgreedKept ==
  ASSUME NEW v, NEW u, Agreed(v), OwnRead(u.charge), u.api.ops = v.api.ops,
         u.main.authority = v.main.authority, u.main.stamp = v.main.stamp,
         u.charge.active = v.charge.active, u.charge.order = v.charge.order,
         u.charge.mutation = v.charge.mutation
  PROVE  Agreed(u)
BY DEF Agreed, OwnMutation

LEMMA ObservedCurrent ==
  ASSUME NEW v \in Shell, Known(v), Told(v), NEW slot, NEW order \in Maybe(Order), order # None,
         NEW pageOwned \in BOOLEAN, NEW owner
  PROVE  LET u == currentAuthorityObserved(v, slot, order, pageOwned, owner) IN
         u.main.authority = order /\ u.main.stamp = moved(v.main.stamp)
BY ObservedAuthority

\* The order that is current was read, and the page of an order takes it.
LEMMA ObserveAgreed ==
  ASSUME NEW v \in Shell, Known(v), Told(v), Alone(v), Agreed(v), NEW slot,
         NEW order \in Maybe(Order), isActive(order), v.charge.active
  PROVE  /\ Agreed(observeAuthoritativeCurrent(v, slot, order))
         /\ observeAuthoritativeCurrent(v, slot, order).main.authority = order
<1> DEFINE u == observeAuthoritativeCurrent(v, slot, order)
           s == supersedeMutation(v, order).charge.mutation
           m == v.charge.mutation
<1>1. Taking(v, u, order) /\ Observing(v, u, slot, order) BY ObserveTaken
<1>2. Holds(v, u) BY ObserveCurrent
<1> HIDE DEF u
<1>3. order # None /\ Current(order) = order BY DEF isActive, Current
<1>4. u.main.authority = order /\ u.main.stamp = moved(v.main.stamp)
  <2>1. PICK h \in Shell :
          LET o == currentAuthorityObserved(h, slot, order, FALSE, 0) IN
          /\ Known(h) /\ Told(h) /\ SameMain(h.main, v.main)
          /\ u.main.authority = o.main.authority /\ u.main.stamp = o.main.stamp
    BY <1>1 DEF Observing
  <2> DEFINE o == currentAuthorityObserved(h, slot, order, FALSE, 0)
  <2>3. o.main.authority = order /\ o.main.stamp = moved(h.main.stamp)
    <3>1. h \in Shell /\ Known(h) /\ Told(h) BY <2>1
    <3> DEFINE no == FALSE
    <3>2. o = currentAuthorityObserved(h, slot, order, no, 0) /\ no \in BOOLEAN OBVIOUS
    <3>3. order # None BY <1>3
    <3> HIDE DEF o, no
    <3> QED BY <3>1, <3>2, <3>3, ObservedCurrent
  <2> QED BY <2>1, <2>3 DEF SameMain
<1>5. /\ s = None <=> m = None
      /\ m # None => /\ s.op = m.op /\ s.subject = m.subject
                     /\ m.superseded => s.superseded
                     /\ ~s.superseded => order.id = m.subject
  <2>1. v.charge \in ChargeState BY Parts
  <2>2. CASE m # None /\ (m.subject = 0 \/ m.subject # order.id)
    <3>1. supersedeMutation(v, order) = [v EXCEPT !.charge.mutation.superseded = TRUE]
      BY <2>2 DEF supersedeMutation
    <3>2. m \in PageMutation BY <2>1, <2>2 DEF ChargeState, Maybe
    <3>3. s = [m EXCEPT !.superseded = TRUE] BY <2>1, <3>1 DEF Shell, ChargeState
    <3>4. s # None /\ s.op = m.op /\ s.subject = m.subject /\ s.superseded = TRUE
      <4>1. s \in PageMutation /\ s.op = m.op /\ s.subject = m.subject /\ s.superseded = TRUE
        <5> HIDE DEF s, m
        <5> QED BY <3>2, <3>3 DEF PageMutation
      <4> QED BY <4>1, NoneAssumption
    <3> QED BY <2>2, <3>4
  <2>3. CASE ~(m # None /\ (m.subject = 0 \/ m.subject # order.id))
    <3>1. supersedeMutation(v, order) = v BY <2>3 DEF supersedeMutation
    <3> QED BY <2>3, <3>1
  <2> QED BY <2>2, <2>3
<1> HIDE DEF s, m
<1>6. /\ u.charge.order = order /\ u.charge.mutation = s /\ u.charge.read = None
      /\ u.api.ops = v.api.ops
  BY <1>1, <1>2 DEF Taking, Holds, s
<1>7. OwnRead(u.charge) BY <1>6 DEF OwnRead
<1>8. OwnMutation(u)
  <2>1. SUFFICES ASSUME m # None PROVE OwnMutation(u) BY <1>5, <1>6 DEF OwnMutation
  <2>2. /\ v.main.stamp # "none" /\ (m.op = "reserve" <=> m.subject = 0)
        /\ \A i \in DOMAIN v.api.ops :
             v.api.ops[i].live =>
               /\ v.api.ops[i].op = m.op
               /\ m.op # "reserve" => v.api.ops[i].target = m.subject
    BY <2>1 DEF Agreed, OwnMutation, m
  <2>3. u.main.stamp = "moved" BY <1>4, <2>2 DEF moved
  <2> QED BY <1>5, <1>6, <2>1, <2>2, <2>3 DEF OwnMutation
<1>9. Agreed(u) BY <1>3, <1>4, <1>6, <1>7, <1>8 DEF Agreed
<1> QED BY <1>4, <1>9 DEF u

\* The same, while the page of an order is not on show.
LEMMA ObserveAway ==
  ASSUME NEW v \in Shell, Known(v), Told(v), ~v.charge.active, NEW slot,
         NEW order \in Maybe(Order), order = Current(order),
         v.main.authority = Current(v.main.authority)
  PROVE  LET u == observeAuthoritativeCurrent(v, slot, order) IN
         /\ u.main.authority = Current(u.main.authority) /\ ~u.charge.active
         /\ u.main.authority \in {order, v.main.authority}
         /\ slot = "guard" /\ v.main.guard => u.main.authority = order
<1> DEFINE s == supersedeMutation(v, order)
           u == observeAuthoritativeCurrent(v, slot, order)
<1>1. /\ Turns(v, s) /\ ~s.charge.active /\ s.main = v.main
  BY Supersede
<1>2. s \in Shell /\ Known(s) /\ Told(s) BY <1>1 DEF Turns
<1>3. u = currentAuthorityObserved(s, slot, order, FALSE, 0)
  BY DEF observeAuthoritativeCurrent
<1> HIDE DEF s, u
<1>4. u.charge = s.charge
  <2>1. FALSE \in BOOLEAN OBVIOUS
  <2> QED BY <1>2, <1>3, <2>1, Observed
<1>5. /\ u.main.authority \in {order, None, s.main.authority}
      /\ order # None \/ (slot = "guard" /\ s.main.guard) => u.main.authority = order
  <2>1. FALSE \in BOOLEAN OBVIOUS
  <2> QED BY <1>2, <1>3, <2>1, ObservedAuthority
<1>6. u.main.authority = Current(u.main.authority)
  BY <1>1, <1>5, CurrentTwice
<1>7. u.main.authority \in {order, v.main.authority} BY <1>1, <1>5
<1> QED BY <1>1, <1>4, <1>5, <1>6, <1>7 DEF u

\* What a read of the page's order leaves: the read is over and nothing else is, or the
\* window and the page take the order, the page for another one or for the next of its own.
PageTold(v, u, order) ==
  \/ u = PageAnswered(v)
  \/ /\ order # None /\ v.charge.order # None /\ order.id # v.charge.order.id
     /\ u = observeAuthoritativeCurrent(PageAnswered(v), "page", order)
     /\ u.main.authority = order
  \/ u.main.authority = order /\ u.charge.mutation = v.charge.mutation

\* The page has read its order again.
LEMMA PageLoadedAgreed ==
  ASSUME NEW v \in Shell, Known(v), Told(v), Alone(v), "page" \in Slots(v), Agreed(v),
         NEW order \in Maybe(Order), order = Current(order)
  PROVE  LET u == pageOrderLoaded(cancelSafeReads(v, {"page"}), order) IN
         Agreed(u) /\ PageTold(v, u, order)
<1> DEFINE x == cancelSafeReads(v, {"page"})
           r == v.charge.read
           c == v.charge
           poll == r.op = "poll"
           y == PageAnswered(v)
           n == takeOrder(y, order)
           target == n.charge.order # None \/ n.charge.selection # None
           facts == \/ ~poll /\ v.charge.reconcile /\ target
                    \/ n.charge.order # None /\ n.charge.order.status = "reserved"
                    \/ n.charge.order = None /\ n.charge.selection # None
           t == [n EXCEPT !.charge.reconcile = facts]
           h == Shown(t)
           yes == TRUE
           o == currentAuthorityObserved(h, "page", order, yes, r.owner)
           f == requestFacts(o, facts, o.charge.exit)
           u == pageOrderLoaded(x, order)
<1>1. x.charge = v.charge BY CancelReads
<1>2. /\ v.charge \in ChargeState /\ Paged(v.charge) /\ r # None /\ r \in PageRead
      /\ v.charge.active /\ r.selGen = v.charge.selGen
  BY Parts DEF Known, Paged, ChargeState, Maybe
<1>3. Turns(v, y) /\ y.charge = [v.charge EXCEPT !.read = None] /\ y.main = v.main
  BY PageReadOver
<1>4. y = [x EXCEPT !.charge.read = None] BY DEF PageAnswered
<1> HIDE DEF y
<1>5. /\ y \in Shell /\ Known(y) /\ Told(y) /\ Alone(y) /\ y.api.ops = v.api.ops
      /\ y.charge.active /\ y.charge.read = None /\ y.charge.facts = v.charge.facts
      /\ y.charge.exitFailed = v.charge.exitFailed /\ y.charge.exit = v.charge.exit
      /\ y.charge.mutation = v.charge.mutation /\ y.charge.order = v.charge.order
  BY <1>2, <1>3, AloneTurns DEF Turns, ChargeState
<1>6. Agreed(y) BY <1>2, <1>3, <1>5, AgreedKept DEF OwnRead
<1>7. u = IF ~v.charge.current THEN y
          ELSE IF poll /\ v.charge.order # None /\ order # None /\ order.id # v.charge.order.id
               THEN observeAuthoritativeCurrent(y, "page", order)
          ELSE IF ~poll /\ target THEN f ELSE o
  <2>1. u = IF ~x.charge.active \/ x.charge.read.selGen # x.charge.selGen \/ ~x.charge.current THEN y
            ELSE IF poll /\ v.charge.order # None /\ order # None /\ order.id # v.charge.order.id
                 THEN observeAuthoritativeCurrent(y, "page", order)
            ELSE IF ~poll /\ target THEN f ELSE o
    BY <1>1, <1>4 DEF pageOrderLoaded
  <2> HIDE DEF u, f, o, poll, target
  <2> QED BY <1>1, <1>2, <2>1
<1>8. facts \in BOOLEAN /\ yes \in BOOLEAN OBVIOUS
<1>8a. yes = TRUE OBVIOUS
<1> HIDE DEF u, yes
<1>9. ASSUME u = observeAuthoritativeCurrent(y, "page", order), order # None
      PROVE  Agreed(u) /\ u.main.authority = order
  <2>1. isActive(order) BY <1>9 DEF Current
  <2> QED BY <1>5, <1>6, <1>9, <2>1, ObserveAgreed
<1>10. target /\ n.charge.order = None => facts OBVIOUS
<1> HIDE DEF facts, target
<1>11. /\ Turns(y, t) /\ t.charge.read = None /\ t.charge.facts = v.charge.facts
       /\ t.charge.exitFailed = v.charge.exitFailed /\ t.charge.order = n.charge.order
       /\ t.charge.mutation = v.charge.mutation
       /\ \/ t.charge.order = order
          \/ /\ order = None /\ t.charge.order = v.charge.order
             /\ v.charge.order.status \in Terminal
       /\ SameMain(t.main, y.main)
  BY <1>5, <1>8, TakeOrder
<1> HIDE DEF t, n
<1>12. t \in Shell /\ Known(t) /\ Told(t) /\ t.api.ops = v.api.ops /\ t.charge.active
  BY <1>5, <1>11 DEF Turns
<1>13. Frame(t, h) /\ Quiet(t.charge, h.charge) /\ h \in Shell /\ Known(h) /\ Told(h)
  BY <1>12, ShownSettles, ShownQuiet DEF Settles, Moves, Within
<1> HIDE DEF h
<1>14. Holds(h, o) /\ o.charge = h.charge BY <1>8, <1>13, Observed
<1>15. /\ o.main.authority \in {order, None, h.main.authority}
       /\ order # None => o.main.authority = order
       /\ /\ order = None
          /\ h.main.authority = None \/ (r.owner # 0 /\ h.main.authority.id = r.owner)
          => o.main.authority = None
       /\ o.main.stamp \in {h.main.stamp, moved(h.main.stamp)}
       /\ order # None => o.main.stamp = moved(h.main.stamp)
  <2>1. /\ o.main.authority \in {order, None, h.main.authority}
        /\ order # None \/ ("page" = "guard" /\ h.main.guard) => o.main.authority = order
        /\ /\ "page" = "page" /\ yes /\ order = None
           /\ h.main.authority = None \/ (r.owner # 0 /\ h.main.authority.id = r.owner)
           => o.main.authority = None
        /\ o.main.stamp \in {h.main.stamp, moved(h.main.stamp)}
        /\ order # None => o.main.stamp = moved(h.main.stamp)
    BY <1>8, <1>13, ObservedAuthority
  <2> QED BY <1>8a, <2>1
<1> HIDE DEF o
<1>16. /\ o \in Shell /\ Known(o) /\ Told(o) /\ o.api.ops = v.api.ops
       /\ o.charge.active /\ o.charge.read = None /\ o.charge.facts \in {None, v.charge.facts}
       /\ o.charge.exitFailed = v.charge.exitFailed
       /\ o.charge.order = t.charge.order /\ o.charge.mutation = v.charge.mutation
       /\ h.main.authority = v.main.authority /\ h.main.stamp = v.main.stamp
  BY <1>3, <1>11, <1>12, <1>13, <1>14 DEF Holds, Frame, Quiet, SameMain
<1>17. o.main.authority = Current(o.charge.order) /\ o.main.authority = order
  <2>1. CASE order # None
    BY <1>11, <1>15, <1>16, <2>1
  <2>2. CASE order = None
    <3>1. Current(o.charge.order) = None
      BY <1>11, <1>16, <2>2 DEF Current, isActive, Active, Terminal
    <3>2. v.main.authority # None => r.owner # 0 /\ v.main.authority.id = r.owner
      <4>1. v.main.authority = Current(v.charge.order) /\ r.owner = orderId(v.charge.order)
        BY <1>2 DEF Agreed, OwnRead
      <4>2. v.charge.order # None => v.charge.order.id \in 1..MaxOrder
        BY <1>2 DEF ChargeState, Maybe, Order
      <4> QED BY <4>1, <4>2, BoundAssumption DEF Current, orderId, BoundAssumption
    <3> QED BY <1>15, <1>16, <2>2, <3>1, <3>2
  <2> QED BY <2>1, <2>2
<1>18. ASSUME ~(poll /\ v.charge.order # None /\ order # None /\ order.id # v.charge.order.id)
       PROVE  Agreed(o)
  <2> DEFINE m == v.charge.mutation
  <2>1. ASSUME m # None PROVE OwnMutation(o)
    <3>1. OwnMutation(v) /\ poll /\ v.charge.order # None
      <4>1. OwnMutation(v) /\ OwnRead(v.charge) BY DEF Agreed
      <4>2. poll BY <1>2, <2>1, <4>1 DEF OwnRead, PageRead
      <4> QED BY <1>2, <4>1, <4>2 DEF OwnRead
    <3>2. ~m.superseded /\ o.charge.order # None => o.charge.order.id = m.subject
      BY <1>11, <1>16, <1>18, <2>1, <3>1 DEF OwnMutation
    <3>3. o.main.stamp # "none" /\ (m.superseded => o.main.stamp = "moved")
      BY <1>15, <1>16, <2>1, <3>1 DEF OwnMutation, moved
    <3> HIDE DEF poll
    <3> QED BY <1>16, <2>1, <3>1, <3>2, <3>3 DEF OwnMutation
  <2>2. OwnMutation(o) BY <1>16, <2>1 DEF OwnMutation
  <2> QED BY <1>16, <1>17, <2>2, CurrentTwice DEF Agreed, OwnRead
<1>19. ASSUME u = f, ~poll, target, Agreed(o)
       PROVE  /\ Agreed(u) /\ u.main.authority = o.main.authority
              /\ u.charge.mutation = o.charge.mutation
  <2>1. v.charge.facts = None /\ ~v.charge.exitFailed
    BY <1>2, <1>19 DEF Paged, PageRead
  <2>2. o.charge.exit \in BOOLEAN BY <1>16, Parts DEF ChargeState
  <2>3. o.charge.order # None \/ facts BY <1>10, <1>11, <1>16, <1>19
  <2>4. /\ o \in Shell /\ Known(o) /\ Told(o) /\ o.charge.facts = None
        /\ o.charge.read = None /\ ~o.charge.exitFailed
    BY <1>16, <2>1
  <2>5. Frame(o, f) /\ f.charge.read = None BY <1>8, <2>2, <2>3, <2>4, FactsFrame
  <2> QED BY <1>19, <2>5, AgreedFrame DEF OwnRead, Frame
<1> HIDE DEF f, poll
<1>20. Agreed(u) BY <1>6, <1>7, <1>9, <1>18, <1>19
<1>21. PageTold(v, u, order)
  <2>1. CASE u = y BY <2>1 DEF PageTold, y
  <2>2. CASE /\ u = observeAuthoritativeCurrent(y, "page", order) /\ v.charge.order # None
             /\ order # None /\ order.id # v.charge.order.id
    <3>1. u.main.authority = order BY <1>9, <2>2
    <3> QED BY <2>2, <3>1 DEF PageTold, y
  <2>3. CASE u.main.authority = o.main.authority /\ u.charge.mutation = o.charge.mutation
    BY <1>16, <1>17, <2>3 DEF PageTold
  <2> QED BY <1>7, <1>18, <1>19, <2>1, <2>2, <2>3
<1> QED BY <1>20, <1>21 DEF u

\* The window was told of the order, by the page or by a read of its own.
Tells(v, u, slot, order) ==
  CASE slot = "page" -> PageTold(v, u, order)
    [] slot = "guard" -> u.main.authority = order
    [] OTHER -> u.main.authority \in {order, v.main.authority} /\ u.main.page = v.main.page

\* A read of the current order is answered: of the page, or of the window.
LEMMA CurrentLoadedAgreed ==
  ASSUME NEW v, Accords(v), NEW slot \in CurrentRead, slot \in Slots(v),
         NEW order \in Maybe(Order), order = Current(order)
  PROVE  LET u == currentOrderLoaded(cancelSafeReads(v, {slot}), slot, order) IN
         Accords(u) /\ Tells(v, u, slot, order)
<1> DEFINE x == cancelSafeReads(v, {slot})
           y == observeAuthoritativeCurrent(x, slot, order)
           u == currentOrderLoaded(x, slot, order)
<1>1. v \in Shell /\ Known(v) /\ Told(v) /\ Alone(v) /\ Sound(v) /\ Agreed(v)
  BY SoundAlone, SoundKnown DEF Accords
<1>2. Leads(v, u) BY <1>1, CurrentLoaded
<1>3. CASE slot = "page"
  <2>1. x.charge = v.charge BY <1>1, CancelReads
  <2>2. u = pageOrderLoaded(cancelSafeReads(v, {"page"}), order)
    <3>1. x.charge.read # None BY <1>1, <1>3, <2>1 DEF Known
    <3> QED BY <1>3, <3>1 DEF currentOrderLoaded
  <2> HIDE DEF u
  <2>3. "page" \in Slots(v) BY <1>3
  <2>4. Agreed(u) /\ PageTold(v, u, order) BY <1>1, <2>2, <2>3, PageLoadedAgreed
  <2> QED BY <1>2, <1>3, <2>4 DEF Leads, Accords, Tells, u
<1>4. CASE slot \in {"guard", "reconnect"}
  <2>1. /\ x \in Shell /\ Known(x) /\ Told(x) /\ ~x.charge.active /\ x.main = v.main
        /\ slot = "guard" => Guarded(y)
        /\ Holds(x, y)
        /\ u = IF slot = "guard" THEN guardLoaded(y, order) ELSE y
    BY <1>1, <1>4, WindowRead
  <2>2. slot = "guard" => v.main.guard BY <1>1 DEF Sound, Seated
  <2> HIDE DEF x, u
  <2>3. /\ y.main.authority = Current(y.main.authority) /\ ~y.charge.active
        /\ y.main.authority \in {order, v.main.authority} /\ y.main.page = v.main.page
        /\ slot = "guard" => y.main.authority = order
    BY <1>1, <2>1, <2>2, ObserveAway DEF Agreed, Holds
  <2> HIDE DEF y
  <2>4. CASE slot = "reconnect"
    <3>1. u = y BY <2>1, <2>4
    <3>2. Tells(v, u, slot, order) BY <2>3, <2>4, <3>1 DEF Tells
    <3> QED BY <1>2, <2>3, <3>1, <3>2, AgreedAway DEF Leads, Accords, u, x
  <2>5. CASE slot = "guard"
    <3> DEFINE z == guardLoaded(y, order)
    <3>1. u = z BY <2>1, <2>5
    <3>2. /\ order = None => z.main.authority = y.main.authority /\ ~z.charge.active
          /\ order # None =>
               \E b : \E gate, commit \in BOOLEAN : LET f == requestFacts(b, gate, commit) IN
                 /\ b \in Shell /\ Known(b) /\ Told(b)
                 /\ b.charge.facts = None /\ b.charge.read = None /\ ~b.charge.exitFailed
                 /\ b.charge.order = order /\ b.main.authority = y.main.authority
                 /\ z.charge = f.charge /\ z.main.authority = f.main.authority
      BY <2>1, <2>5, GuardLoaded
    <3> HIDE DEF z
    <3>3. CASE order = None
      <4>1. u.main.authority = order BY <2>3, <2>5, <3>1, <3>2, <3>3
      <4>2. Agreed(u) BY <1>2, <2>3, <3>1, <3>2, <3>3, AgreedAway DEF Leads, u, x
      <4> QED BY <1>2, <2>5, <4>1, <4>2 DEF Leads, Accords, Tells, u, x
    <3>4. CASE order # None
      <4>1. PICK b \in Shell, gate \in BOOLEAN, commit \in BOOLEAN :
              LET f == requestFacts(b, gate, commit) IN
              /\ Known(b) /\ Told(b)
              /\ b.charge.facts = None /\ b.charge.read = None /\ ~b.charge.exitFailed
              /\ b.charge.order = order /\ b.main.authority = y.main.authority
              /\ z.charge = f.charge /\ z.main.authority = f.main.authority
        BY <3>2, <3>4
      <4> DEFINE f == requestFacts(b, gate, commit)
      <4>3. Frame(b, f) /\ f.charge.read = None BY <3>4, <4>1, FactsFrame
      <4> HIDE DEF f
      <4>4. /\ u.charge.order = order /\ u.main.authority = order /\ u.charge.read = None
        BY <2>3, <2>5, <3>1, <4>1, <4>3 DEF Frame, f
      <4>5. u.charge.mutation = None
        <5>1. v.charge.mutation = None BY <1>1, <1>4 DEF Sound, Seated, Awaited
        <5> QED BY <1>1, <1>2, <5>1 DEF Leads, Sound, Awaited, u, x
      <4>6. Agreed(u) BY <4>4, <4>5, CurrentTwice DEF Agreed, OwnRead, OwnMutation
      <4> QED BY <1>2, <2>5, <4>4, <4>6 DEF Leads, Accords, Tells, u, x
    <3> QED BY <3>3, <3>4
  <2> QED BY <1>4, <2>4, <2>5
<1> QED BY <1>3, <1>4 DEF CurrentRead

\* The read of the current order failed.
LEMMA CurrentFailedAgreed ==
  ASSUME NEW v, Accords(v), NEW slot \in CurrentRead, slot \in Slots(v)
  PROVE  Accords(currentOrderFailed(cancelSafeReads(v, {slot}), slot))
<1> DEFINE x == cancelSafeReads(v, {slot})
           u == currentOrderFailed(x, slot)
<1>1. v \in Shell /\ Known(v) /\ Told(v) /\ Sound(v) /\ Agreed(v)
  BY SoundKnown DEF Accords
<1>2. Leads(v, u) BY <1>1, CurrentFailed
<1>3. x \in Shell /\ x.charge = v.charge /\ x.main = v.main BY <1>1, CancelReads
<1>4. CASE slot = "page"
  <2>1. PICK t \in Shell :
          /\ Turns(v, t) /\ t.charge = [v.charge EXCEPT !.read = None, !.reconcile = TRUE]
          /\ t.main = v.main /\ u = Shown(t)
    <3>1. "page" \in Slots(v) BY <1>4
    <3> QED BY <1>1, <1>4, <3>1, PageFailedDone
  <2> HIDE DEF u
  <2>2. v.charge \in ChargeState BY <1>1, Parts
  <2>3. /\ t.charge.read = None /\ t.charge.active = v.charge.active
        /\ t.charge.order = v.charge.order /\ t.charge.mutation = v.charge.mutation
    BY <2>1, <2>2 DEF ChargeState
  <2>4. Known(t) /\ Told(t) /\ t.api.ops = v.api.ops BY <2>1 DEF Turns
  <2>5. Agreed(t) BY <1>1, <2>1, <2>3, <2>4, AgreedKept DEF OwnRead
  <2>6. Agreed(u) BY <2>1, <2>4, <2>5, AgreedShown
  <2> QED BY <1>2, <2>6 DEF Leads, Accords, u
<1>5. CASE slot \in {"guard", "reconnect"}
  <2>1. ~v.charge.active BY <1>1, <1>5 DEF Sound, Seated
  <2>2. /\ slot = "guard" => v.main.guard
        /\ slot = "reconnect" => v.main.reconnect # None
    BY <1>1 DEF Sound, Seated
  <2>3. x.main \in MainState BY <1>3, Parts
  <2> HIDE DEF x
  <2>4. u.charge = v.charge /\ u.main.authority \in {None, v.main.authority}
    <3>1. CASE slot = "guard"
      <4> DEFINE y == clearActiveOrder([x EXCEPT !.main.guard = FALSE], 0, TRUE)
      <4>1. u = [y EXCEPT !.main.navShown = FALSE, !.main.page = "login"]
        BY <1>3, <2>2, <3>1 DEF currentOrderFailed
      <4>2. y.main \in MainState /\ y.main.authority = None /\ y \in Shell /\ y.charge = v.charge
        BY <1>3, <2>3 DEF clearActiveOrder, Shell, MainState, moved, Maybe
      <4> HIDE DEF u, y
      <4> QED BY <4>1, <4>2 DEF Shell, MainState
    <3>2. CASE slot = "reconnect"
      <4>1. u = [x EXCEPT !.main.reconnect = None]
        BY <1>3, <2>2, <3>2 DEF currentOrderFailed
      <4> HIDE DEF u
      <4> QED BY <1>3, <2>3, <4>1 DEF Shell, MainState
    <3> QED BY <1>5, <3>1, <3>2
  <2>5. u.main.authority = Current(u.main.authority) /\ ~u.charge.active
    BY <1>1, <2>1, <2>4, CurrentTwice DEF Agreed
  <2> QED BY <1>2, <2>5, AgreedAway DEF Leads, Accords, x
<1> QED BY <1>4, <1>5 DEF CurrentRead

-----------------------------------------------------------------------------
(* Every event leaves the window and the page with the same order.         *)

\* A read of the window or of a side page that is given up frees its slot.
LEMMA SlotAgreed ==
  ASSUME NEW v, Sound(v), Agreed(v), NEW slot \in {"list", "login"}
  PROVE  LET u == cancelSafeReads(v, {slot}) IN u \in Shell /\ Known(u) /\ Agreed(u)
<1> DEFINE u == cancelSafeReads(v, {slot})
<1>1. v \in Shell /\ Known(v) BY SoundKnown
<1>2. u.charge = v.charge /\ u.main = v.main /\ u.api.ops = v.api.ops /\ u \in Shell
      /\ u.nearby = v.nearby /\ u.history = v.history /\ slot \notin Slots(u)
      /\ \A s : s # slot => (s \in Slots(u) <=> s \in Slots(v))
  BY <1>1, SlotFree
<1> HIDE DEF u
<1>3. Known(u)
  <2>1. \A s \in {"facts", "page", "history"} : s \in Slots(u) <=> s \in Slots(v) BY <1>2
  <2> QED BY <1>1, <1>2, <2>1 DEF Known
<1>4. OwnRead(u.charge) BY <1>2 DEF Agreed
<1>5. Agreed(u) BY <1>2, <1>4, AgreedKept
<1> QED BY <1>2, <1>3, <1>5 DEF u

LEMMA EasedAgreed ==
  ASSUME NEW v, Sound(v), Agreed(v), NEW u, Eased(cancelSafeReads(v, {"list"}), u)
  PROVE  Agreed(u)
BY SlotAgreed, AgreedEased

LEMMA QuietAgreed ==
  ASSUME Accords(w),
         stationSelected \/ SearchButton \/ NearbyRetryButton \/ geocodeFinished
           \/ RetryButton \/ pollTimer
  PROVE  Agreed(w)'
<1>1. w \in Shell /\ Known(w) /\ Told(w) /\ Agreed(w) BY SoundKnown DEF Accords
<1>2. ASSUME NEW x, Eased(w, x), Does(x) PROVE Agreed(w)'
  BY <1>1, <1>2, EasedShell, AgreedEased, DoesAgreed DEF Does
<1>3. CASE stationSelected BY <1>1, <1>2, <1>3, EasedRequest DEF stationSelected
<1>4. CASE SearchButton BY <1>1, <1>2, <1>4, EasedSearch DEF SearchButton
<1>5. CASE NearbyRetryButton BY <1>1, <1>2, <1>5, EasedReconnect DEF NearbyRetryButton
<1>6. CASE geocodeFinished BY <1>1, <1>2, <1>6, EasedGeocode DEF geocodeFinished
<1>7. CASE RetryButton
  <2>1. requestReconciliation(w) \in Shell BY <1>1, RequestReconciliation DEF Keeps, Within
  <2>2. Agreed(requestReconciliation(w)) BY <1>1, ReconciliationAgreed
  <2> QED BY <1>7, <2>1, <2>2, DoesAgreed DEF RetryButton, Does
<1>8. CASE pollTimer
  <2>1. requestPoll(w) \in Shell BY <1>1, RequestPoll DEF Keeps, Within
  <2>2. Agreed(requestPoll(w)) BY <1>1, PollAgreed
  <2> QED BY <1>8, <2>1, <2>2, DoesAgreed DEF pollTimer, Does
<1> QED BY <1>3, <1>4, <1>5, <1>6, <1>7, <1>8

\* An answer, a failure or a start of the history touches that page only.
LEMMA HistoryAgreed ==
  ASSUME NEW v, Agreed(v), NEW u, u.charge = v.charge,
         u.main = v.main, u.api.ops = v.api.ops
  PROVE  Agreed(u)
<1>1. OwnRead(u.charge) BY DEF Agreed
<1> QED BY <1>1, AgreedKept

LEMMA FactsFailRead ==
  ASSUME NEW v \in Shell, Known(v), Told(v), ~v.charge.exitFailed
  PROVE  factsFail(v).charge.read \in {None, v.charge.read}
<1> DEFINE y == IF v.charge.exit THEN failChargeStationDetail(v, v.charge.attempt) ELSE v
           b == y.charge.gate \/ y.charge.exit
           c == [y.charge EXCEPT !.factsFailed = b, !.gate = b, !.reconcile = b]
           z == [y EXCEPT !.charge = c, !.main = y.main]
           u == factsFail(v)
<1>1. y \in Shell /\ Known(y) /\ Told(y) BY DetailNotApplied, KeepsSelf DEF Moves
<1>2. u = IF v.charge.exit /\ (~y.charge.exit \/ y.charge.exitFailed) THEN y ELSE Shown(z)
  <2>1. [y EXCEPT !.charge.factsFailed = b, !.charge.gate = b, !.charge.reconcile = b] = z
    <3> HIDE DEF y, b
    <3> QED BY <1>1 DEF Shell
  <2> HIDE DEF z
  <2> QED BY <2>1 DEF factsFail
<1>3. y.charge.read \in {None, v.charge.read} BY DetailGentle DEF Gentle
<1> HIDE DEF y, u
<1>4. z \in Shell /\ Known(z) /\ Told(z) /\ z.charge.read = y.charge.read
  <2>1. /\ y.charge \in ChargeState /\ y.main \in MainState /\ Paged(y.charge)
        /\ y.main.blocked = y.charge.reported
    BY <1>1, Parts DEF Known, Told
  <2>2. b \in BOOLEAN BY <2>1 DEF ChargeState
  <2> HIDE DEF b
  <2>3. /\ c \in ChargeState
        /\ c.active = y.charge.active /\ c.order = y.charge.order
        /\ c.mutation = y.charge.mutation /\ c.facts = y.charge.facts /\ c.read = y.charge.read
        /\ c.selection = y.charge.selection /\ c.reported = y.charge.reported
        /\ c.selGen = y.charge.selGen /\ c.exit = y.charge.exit
        /\ c.exitFailed = y.charge.exitFailed /\ c.attempt = y.charge.attempt
    BY <2>1, <2>2 DEF ChargeState
  <2> HIDE DEF c
  <2>4. Paged(c) BY <2>1, <2>3, PagedSame
  <2>5. SameMain(y.main, y.main) BY DEF SameMain
  <2>6. Moves(y, z) BY <1>1, <2>1, <2>3, <2>4, <2>5, ChargeAlone DEF Withdrawn
  <2>7. z.charge = c BY <1>1 DEF Shell
  <2> HIDE DEF z
  <2> QED BY <2>3, <2>6, <2>7 DEF Moves
<1> HIDE DEF z
<1>5. Shown(z).charge.read \in {None, z.charge.read} BY <1>4, ShownGentle DEF Gentle
<1> QED BY <1>2, <1>3, <1>4, <1>5 DEF u

\* While facts are awaited the page does not reconcile its order.
LEMMA FactsSettled ==
  ASSUME NEW v, Known(v), "facts" \in Slots(v), Agreed(v), NEW u, Settles(v, u),
         u.charge.read \in {None, v.charge.read}
  PROVE  Agreed(u)
<1>1. v.charge.read # None => v.charge.read.op # "reconcile" BY DEF Known, Paged
<1> QED BY <1>1, AgreedRead DEF Settles, Moves, Within

LEMMA FactsFailedAgreed ==
  ASSUME NEW v \in Shell, Known(v), Told(v), "facts" \in Slots(v), Agreed(v)
  PROVE  Agreed(factsFailed(cancelSafeReads(v, {"facts"})))
<1> DEFINE c == [v.charge EXCEPT !.facts = None]
           x == cancelSafeReads(v, {"facts"})
           y == FactsOver(v, c)
           u == factsFailed(x)
<1>1. v.charge \in ChargeState /\ v.charge.facts # None /\ Paged(v.charge)
  BY Parts DEF Known
<1>2. /\ c \in ChargeState /\ c.active = v.charge.active /\ c.order = v.charge.order
      /\ c.mutation = v.charge.mutation
      /\ c.facts = None /\ c.read = v.charge.read /\ c.selGen = v.charge.selGen
      /\ c.exit = v.charge.exit /\ c.exitFailed = v.charge.exitFailed
      /\ c.attempt = v.charge.attempt /\ c.reported = v.charge.reported
      /\ c.selection = v.charge.selection
  BY <1>1, NoneFits DEF ChargeState
<1>3. ~c.exitFailed BY <1>1, <1>2 DEF Paged
<1>4. [x EXCEPT !.charge.facts = None] = y
  <2>1. x.charge = v.charge BY CancelReads
  <2> HIDE DEF x
  <2> QED BY <2>1 DEF FactsOver, x
<1>5. Settles(v, u) BY FactsFailed
<1>6. u = factsFail(y) BY <1>4 DEF factsFailed
<1> HIDE DEF c, u
<1>7. Moves(v, y) /\ y.charge = c BY <1>2, FactsEnd
<1> HIDE DEF y
<1>8. u.charge.read \in {None, v.charge.read}
  BY <1>2, <1>3, <1>6, <1>7, FactsFailRead DEF Moves
<1> QED BY <1>5, <1>8, FactsSettled DEF u

LEMMA FactsLoadedAgreed ==
  ASSUME NEW v \in Shell, Known(v), Told(v), "facts" \in Slots(v),
         NEW status \in Maybe(Status), Agreed(v)
  PROVE  Agreed(factsLoaded(cancelSafeReads(v, {"facts"}), status))
<1> DEFINE u == factsLoaded(cancelSafeReads(v, {"facts"}), status)
           g == v.charge
<1>1. PICK y, z \in Shell :
        /\ \A t \in {y, z} : Moves(v, t) /\ ~t.charge.exitFailed /\ t.charge.read = g.read
        /\ u = IF unmatched(g, status) THEN factsFail(y)
               ELSE Shown(IF g.exit THEN applyChargeStationDetail(z, g.attempt) ELSE z)
  BY FactsTaken
<1>2. Settles(v, u) BY FactsLoaded
<1> HIDE DEF u
<1>3. CASE unmatched(g, status)
  <2>1. u.charge.read \in {None, g.read} BY <1>1, <1>3, FactsFailRead DEF Moves
  <2> QED BY <1>2, <2>1, FactsSettled DEF u
<1>4. CASE ~unmatched(g, status)
  <2> DEFINE p == IF g.exit THEN applyChargeStationDetail(z, g.attempt) ELSE z
  <2>1. /\ p \in Shell /\ Known(p) /\ Told(p)
        /\ p.charge.read \in {None, z.charge.read}
    BY <1>1, DetailApplied, KeepsSelf, DetailGentle DEF Moves, Gentle
  <2>2. u = Shown(p) BY <1>1, <1>4
  <2> HIDE DEF p
  <2>3. u.charge.read \in {None, g.read} BY <1>1, <2>1, <2>2, ShownGentle DEF Gentle
  <2> QED BY <1>2, <2>3, FactsSettled DEF u
<1> QED BY <1>3, <1>4

LEMMA CurrentServer ==
  ASSUME NEW s \in ServerState PROVE s.order = Current(s.order)
BY ServerOrder DEF Current, isActive

\* Away from the page of an order the window alone knows of an order.
LEMMA AwayAccords ==
  ASSUME NEW v, Agreed(v), NEW u, Sound(u), u.main.page # "charge",
         u.main.authority \in {None, v.main.authority}
  PROVE  Agreed(u)
<1>1. ~u.charge.active BY DEF Sound, Seated
<1>2. None = Current(None) BY CurrentTwice
<1>3. u.main.authority = Current(u.main.authority) BY <1>2 DEF Agreed
<1> QED BY <1>1, <1>3, AgreedAway

LEMMA LoginAgreed ==
  ASSUME Accords(w), loginByPhone \/ handleLogin \/ handleExpiry
  PROVE  Agreed(w)'
<1>1. w \in Shell /\ Sound(w) /\ Agreed(w) /\ w.api = api BY SoundKnown, ShellOf DEF Accords
<1>2. ASSUME NEW v \in Shell PROVE Agreed(sessionReset(v)) /\ Sound(sessionReset(v))
  <2> DEFINE u == sessionReset(v)
  <2>1. Sound(u) /\ u.main.page = "login" /\ u.main.authority = None BY <1>2, SessionReset
  <2> HIDE DEF u
  <2>2. Agreed(u) BY <1>1, <2>1, AwayAccords
  <2> QED BY <2>1, <2>2 DEF u
<1>3. ASSUME NEW v \in Shell, Does(sessionReset(v)) PROVE Agreed(w)'
  BY <1>2, <1>3, SoundKnown, DoesAgreed DEF Does
<1>4. CASE Does(send(sessionReset(w), "login"))
  <2> DEFINE u == sessionReset(w)
             x == send(u, "login")
  <2>1. Sound(u) /\ u.main.page = "login" /\ ~u.api.user /\ ~u.main.guard
        /\ u.main.authority = None
    BY <1>1, SessionReset
  <2> HIDE DEF u
  <2>2. Leads(u, x) BY <2>1, LoginSent
  <2>3. x.main = u.main
    <3>1. "login" \in Read /\ u \in Shell BY <2>1, SoundKnown DEF Read
    <3> QED BY <3>1, SendRead
  <2>4. Does(x) BY <1>4 DEF u
  <2> HIDE DEF x
  <2>5. Agreed(x) BY <1>1, <2>1, <2>2, <2>3, AwayAccords DEF Leads
  <2> QED BY <2>2, <2>4, <2>5, SoundKnown, DoesAgreed DEF Leads, Does
<1>5. CASE loginByPhone BY <1>1, <1>3, <1>4, <1>5 DEF loginByPhone
<1>6. CASE handleLogin
  <2> DEFINE u == loginSucceeded(cancelSafeReads(w, {"login"}))
  <2>1. "login" \in Slots(w) BY <1>6, DueSlot DEF handleLogin
  <2>2. Leads(w, u) /\ u.main.page = "login" /\ u.main.authority = None
    BY <1>1, <2>1, LoginSucceeded
  <2>3. Does(u) BY <1>6 DEF handleLogin, answered
  <2> HIDE DEF u
  <2>4. Agreed(u) BY <1>1, <2>2, AwayAccords DEF Leads
  <2> QED BY <2>2, <2>3, <2>4, SoundKnown, DoesAgreed DEF Leads, Does
<1>7. CASE handleExpiry
  <2>1. CASE Does(sessionReset(w)) BY <1>1, <1>3, <2>1
  <2>2. CASE api.ops # <<>> /\ Does(sessionReset([w EXCEPT !.api.ops = Tail(@)]))
    <3>1. [w EXCEPT !.api.ops = Tail(@)] \in Shell
      <4> DEFINE a == [api EXCEPT !.ops = Tail(@)]
      <4>1. a \in ApiState(Slots(w))
        <5>1. api \in ApiState(Slots(w)) BY <1>1, Parts
        <5>2. Tail(api.ops) \in Seq(SentMutation) BY <2>2, <5>1 DEF ApiState
        <5> QED BY <5>1, <5>2 DEF ApiState
      <4>2. [w EXCEPT !.api.ops = Tail(@)] = [w EXCEPT !.api = a] BY <1>1 DEF Shell
      <4> HIDE DEF a
      <4> QED BY <1>1, <4>1, <4>2, Parts DEF Shell
    <3> QED BY <1>3, <2>2, <3>1
  <2> QED BY <1>7, <2>1, <2>2 DEF handleExpiry, MutationDue
<1> QED BY <1>5, <1>6, <1>7

LEMMA AnswerAgreed ==
  ASSUME Accords(w), server \in ServerState,
         handleCurrent \/ handleList \/ handleDetail \/ handleHistory \/ handleFacts
  PROVE  Agreed(w)'
<1>1. /\ w \in Shell /\ Known(w) /\ Told(w) /\ Sound(w) /\ Agreed(w)
      /\ w.api = api /\ w.charge = charge
  BY SoundKnown, ShellOf DEF Accords
<1>2. CASE handleCurrent
  <2>1. PICK slot \in CurrentRead :
          Due(slot) /\ Does(currentOrderLoaded(answered(slot), slot, server.order))
    BY <1>2 DEF handleCurrent
  <2>2. slot \in Slots(w) BY <2>1, DueSlot
  <2>3. server.order \in Maybe(Order) /\ server.order = Current(server.order)
    BY ServerOrder, CurrentServer
  <2> DEFINE u == currentOrderLoaded(cancelSafeReads(w, {slot}), slot, server.order)
  <2>4. Accords(u) BY <2>2, <2>3, CurrentLoadedAgreed
  <2>5. Does(u) BY <2>1 DEF answered
  <2> HIDE DEF u
  <2> QED BY <2>4, <2>5, SoundKnown, DoesAgreed DEF Accords, Does
<1>3. CASE handleList
  <2>1. PICK has \in BOOLEAN : Becomes(nearbyStationsLoaded(answered("list"), has), {"list"})
    BY <1>3 DEF handleList
  <2>2. Eased(answered("list"), nearbyStationsLoaded(answered("list"), has))
    BY <1>1, ListSlot, EasedLoaded DEF answered
  <2> QED BY <1>1, <2>1, <2>2, EasedAgreed, EasedShell, DoesAgreed DEF answered
<1>4. CASE handleDetail
  <2>1. PICK d \in DetailId : Does(stationDetailLoaded(cancelDetails(w, {d}), d))
    BY <1>4 DEF handleDetail
  <2> DEFINE u == stationDetailLoaded(cancelDetails(w, {d}), d)
  <2>2. Eased(w, u) BY <1>1, EasedAnswer
  <2> HIDE DEF u
  <2>3. Agreed(u) /\ u \in Shell BY <1>1, <2>2, EasedShell, AgreedEased
  <2> QED BY <2>1, <2>3, DoesAgreed DEF Does, u
<1>5. CASE handleHistory
  <2>1. PICK more \in IF history.pending < LastPage THEN BOOLEAN ELSE {FALSE} :
          Does(orderHistoryLoaded(answered("history"), more))
    BY <1>5 DEF handleHistory
  <2> DEFINE x == cancelSafeReads(w, {"history"})
             u == orderHistoryLoaded(x, more)
  <2>2. more \in BOOLEAN /\ (more => w.history.pending < LastPage) BY <2>1, ShellOf
  <2>3. "history" \in Slots(w) BY <1>5, DueSlot DEF handleHistory
  <2>4. Holds(w, u) BY <1>1, <2>2, <2>3, HistoryAnswered
  <2>5. u.charge = w.charge /\ u.main = w.main
    <3>1. x \in Shell /\ x.charge = w.charge /\ x.main = w.main BY <1>1, SlotFree
    <3> HIDE DEF x
    <3> QED BY <3>1 DEF orderHistoryLoaded, Shell
  <2> HIDE DEF u
  <2>6. Agreed(u) BY <1>1, <2>4, <2>5, HistoryAgreed DEF Holds
  <2> QED BY <2>1, <2>4, <2>6, DoesAgreed DEF answered, u, Does, Holds
<1>6. CASE handleFacts
  <2>1. PICK st \in {None} \cup chargerStatus(charge.facts.charger) :
          Becomes(factsLoaded(answered("facts"), st), {"facts"})
    BY <1>6 DEF handleFacts
  <2>2. st \in Maybe(Status) BY <2>1 DEF chargerStatus, Status, Maybe
  <2>3. "facts" \in Slots(w) BY <1>6, DueSlot DEF handleFacts
  <2> DEFINE u == factsLoaded(cancelSafeReads(w, {"facts"}), st)
  <2>4. u \in Shell BY <1>1, <2>2, <2>3, FactsLoaded DEF Settles, Moves
  <2>5. Agreed(u) BY <1>1, <2>2, <2>3, FactsLoadedAgreed
  <2>6. Becomes(u, {"facts"}) BY <2>1 DEF answered
  <2> HIDE DEF u
  <2> QED BY <2>4, <2>5, <2>6, DoesAgreed
<1> QED BY <1>2, <1>3, <1>4, <1>5, <1>6

LEMMA ReadFailureAgreed ==
  ASSUME Accords(w), NEW slot \in DOMAIN api.reads, Does(readFailed(answered(slot), slot))
  PROVE  Agreed(w)'
<1>1. Does(readFailed(answered(slot), slot)) OBVIOUS
<1> DEFINE x == cancelSafeReads(w, {slot})
           u == readFailed(x, slot)
<1>2. /\ w \in Shell /\ Known(w) /\ Told(w) /\ slot \in Slots(w) /\ slot \in Read
      /\ Sound(w) /\ Agreed(w)
  BY <1>1, SoundKnown, ShellOf, Parts DEF Slots, Accords
<1>3. Leads(w, u) BY <1>2, ReadFailed
<1>4. Agreed(u)
  <2>1. CASE slot \in CurrentRead
    <3>1. u = currentOrderFailed(x, slot)
      <4> HIDE DEF x
      <4> QED BY <2>1 DEF readFailed, CurrentRead, x
    <3> HIDE DEF u
    <3> QED BY <1>2, <2>1, <3>1, CurrentFailedAgreed DEF Accords
  <2>2. CASE slot = "facts"
    <3>1. u = factsFailed(cancelSafeReads(w, {"facts"}))
      BY <2>2 DEF readFailed, CurrentRead
    <3> HIDE DEF u
    <3> QED BY <1>2, <2>2, <3>1, FactsFailedAgreed
  <2>3. CASE slot = "list"
    <3>1. u = nearbyStationsFailed(cancelSafeReads(w, {"list"}))
      BY <2>3 DEF readFailed, CurrentRead
    <3>2. Eased(cancelSafeReads(w, {"list"}), u) BY <1>2, <3>1, ListSlot, EasedFailed
    <3> HIDE DEF u
    <3> QED BY <1>2, <3>2, EasedAgreed
  <2>5. CASE slot = "history"
    <3>1. u = orderHistoryFailed(x) BY <2>5 DEF readFailed, CurrentRead
    <3>2. x \in Shell /\ x.charge = w.charge /\ x.main = w.main BY <1>2, SlotFree
    <3> HIDE DEF x, u
    <3>3. u.charge = w.charge /\ u.main = w.main BY <3>1, <3>2 DEF orderHistoryFailed, Shell
    <3> QED BY <1>2, <1>3, <3>3, HistoryAgreed DEF Leads, u, x
  <2>6. CASE slot = "login"
    <3>1. u = x BY <2>6 DEF readFailed, CurrentRead
    <3> HIDE DEF u
    <3> QED BY <1>2, <2>6, <3>1, SlotAgreed
  <2> QED BY <1>2, <2>1, <2>2, <2>3, <2>5, <2>6 DEF Read, CurrentRead
<1>5. Does(u) BY <1>1 DEF answered
<1> HIDE DEF u
<1> QED BY <1>3, <1>4, <1>5, SoundKnown, DoesAgreed DEF Leads, Does

LEMMA FailureAgreed ==
  ASSUME Accords(w), handleFailure
  PROVE  Agreed(w)'
<1>1. CASE \E slot \in DOMAIN api.reads : api.up /\ Does(readFailed(answered(slot), slot))
  BY <1>1, ReadFailureAgreed
<1>2. CASE \E d \in DetailId :
             DetailDue(d) /\ Does(stationDetailFailed(cancelDetails(w, {d}), d))
  <2>1. PICK d \in DetailId : Does(stationDetailFailed(cancelDetails(w, {d}), d)) BY <1>2
  <2> DEFINE u == stationDetailFailed(cancelDetails(w, {d}), d)
  <2>2. w \in Shell /\ Known(w) /\ Told(w) /\ Agreed(w) BY SoundKnown DEF Accords
  <2>3. Eased(w, u) BY <2>2, EasedAnswer
  <2> HIDE DEF u
  <2>4. Agreed(u) /\ u \in Shell BY <2>2, <2>3, EasedShell, AgreedEased
  <2> QED BY <2>1, <2>4, DoesAgreed DEF Does, u
<1> QED BY <1>1, <1>2 DEF handleFailure

\* A page of the window is turned; only that of an order may be entered again.
LEMMA ResumesAgreed ==
  ASSUME NEW v, Agreed(v), NEW order, order = Current(order), order = v.main.authority,
         NEW u, Resumes(v, u, order), u.charge.active
  PROVE  Agreed(u)
<1>1. PICK y \in Shell :
        /\ Known(y) /\ Told(y) /\ y.charge.active /\ y.charge.mutation = None
        /\ y.charge.order = order /\ y.charge.read = None
        /\ y.main.authority = v.main.authority
        /\ LET z == requestReconciliation(y) IN
           /\ u.charge = z.charge /\ u.api.ops = z.api.ops
           /\ u.main.authority = z.main.authority /\ u.main.stamp = z.main.stamp
  BY DEF Resumes
<1> DEFINE z == requestReconciliation(y)
<1>2. Agreed(y) BY <1>1 DEF Agreed, OwnRead, OwnMutation
<1>3. Agreed(z) BY <1>1, <1>2, ReconciliationAgreed
<1>4. /\ u.charge = z.charge /\ u.api.ops = z.api.ops
      /\ u.main.authority = z.main.authority /\ u.main.stamp = z.main.stamp
  BY <1>1
<1> HIDE DEF z
<1>5. OwnRead(u.charge) BY <1>3, <1>4 DEF Agreed
<1> QED BY <1>3, <1>4, <1>5, AgreedKept

LEMMA TurnAgreed ==
  ASSUME Accords(w),
         NearbyButton \/ ProfileButton \/ navigationRequested \/ navigationBack
           \/ HistoryButton \/ HistoryPageButton \/ AuthorityRetryButton
  PROVE  Agreed(w)'
<1>1. /\ w \in Shell /\ Known(w) /\ Told(w) /\ Sound(w) /\ Agreed(w)
      /\ w.main = main /\ w.charge = charge
  BY SoundKnown, ShellOf DEF Accords
<1>2. ASSUME NEW u, Leads(w, u), Agreed(u), Does(u) PROVE Agreed(w)'
  BY <1>2, SoundKnown, DoesAgreed DEF Leads, Does
<1>3. ASSUME NEW v, Away(v), v.main.authority = w.main.authority, v.api.ops = w.api.ops,
             NEW p \in {"nearby", "profile", "navigation"}, Does([v EXCEPT !.main.page = p])
      PROVE  Agreed(w)'
  <2> DEFINE u == [v EXCEPT !.main.page = p]
  <2>1. Leads(v, u) BY <1>3, Turned
  <2>2. u.main.page = p /\ u.main.authority = v.main.authority
    <3>1. v \in Shell /\ v.main \in MainState BY <1>3, Parts DEF Away, Whole
    <3> QED BY <3>1 DEF Shell, MainState
  <2>3. Does(u) BY <1>3
  <2> HIDE DEF u
  <2>4. u.main.page # "charge" BY <1>3, <2>2
  <2>5. Agreed(u) BY <1>1, <1>3, <2>1, <2>2, <2>4, AwayAccords DEF Leads
  <2> QED BY <1>2, <1>3, <2>1, <2>3, <2>5 DEF Leads
<1>4. CASE NearbyButton
  <2>1. Away(leaves(w)) /\ leaves(w).main = w.main /\ leaves(w).api.ops = w.api.ops
    BY <1>1, <1>4, Leaving DEF NearbyButton, Free
  <2> QED BY <1>3, <1>4, <2>1 DEF NearbyButton
<1>5. CASE ProfileButton
  <2>1. Away(leaves(w)) /\ leaves(w).main = w.main /\ leaves(w).api.ops = w.api.ops
    BY <1>1, <1>5, Leaving DEF ProfileButton, Free
  <2> QED BY <1>3, <1>5, <2>1 DEF ProfileButton
<1>6. CASE navigationRequested
  <2>1. Away(w) BY <1>1, <1>6, OnNearby DEF navigationRequested, At
  <2> QED BY <1>3, <1>6, <2>1 DEF navigationRequested
<1>7. CASE navigationBack
  <2>1. Away(w) BY <1>1, <1>7, OnNearby DEF navigationBack, At
  <2> QED BY <1>3, <1>7, <2>1 DEF navigationBack
<1>8. CASE HistoryButton
  <2> DEFINE u == [activateHistory(IF main.page = "charge" THEN leavePage(w) ELSE w) EXCEPT
                     !.main.page = "history"]
  <2>1. Leads(w, u) /\ u.main.authority = w.main.authority
    BY <1>1, <1>8, HistoryShown DEF HistoryButton, Free
  <2>2. u.main.page = "history" \/ u.main.page # "charge"
    <3> DEFINE t == activateHistory(IF main.page = "charge" THEN leavePage(w) ELSE w)
    <3>1. u = [t EXCEPT !.main.page = "history"] OBVIOUS
    <3>2. u \in Shell BY <2>1, SoundKnown DEF Leads
    <3> HIDE DEF t
    <3> QED BY <3>1, <3>2 DEF Shell, MainState
  <2>3. Does(u) BY <1>8 DEF HistoryButton
  <2> HIDE DEF u
  <2>4. u.main.page # "charge" BY <2>2
  <2>5. Agreed(u) BY <1>1, <2>1, <2>4, AwayAccords DEF Leads
  <2> QED BY <1>2, <2>1, <2>3, <2>5
<1>9. CASE HistoryPageButton
  <2>1. ASSUME NEW u, Does(u), Holds(w, u), u.charge = w.charge, u.main = w.main
        PROVE  Agreed(w)'
    <3>1. Agreed(u) BY <1>1, <2>1, HistoryAgreed DEF Holds
    <3> QED BY <2>1, <3>1, DoesAgreed DEF Holds, Does
  <2>2. CASE Does(refreshHistory(w)) BY <1>1, <2>1, <2>2, RefreshHistory
  <2>3. CASE history.committed # None /\ history.committed.index > 0
             /\ Does(requestPage(w, history.committed.index - 1))
    <3>1. history.committed.index - 1 \in 0..LastPage
      BY <1>1, <2>3, AuthorityType, CommittedIndex
    <3> QED BY <1>1, <2>1, <2>3, <3>1, RequestPage
  <2>4. CASE history.committed # None /\ history.committed.more
             /\ Does(requestPage(w, history.committed.index + 1))
    <3>1. history.committed.index + 1 \in 0..LastPage
      BY <1>1, <2>4, AuthorityType, CommittedIndex
    <3> QED BY <1>1, <2>1, <2>4, <3>1, RequestPage
  <2> QED BY <1>9, <2>2, <2>3, <2>4 DEF HistoryPageButton
<1>10. CASE AuthorityRetryButton
  <2> DEFINE u == requestReconnectCurrent(w)
  <2>1. /\ Leads(w, u) /\ u.charge = w.charge
        /\ u.main.authority = w.main.authority /\ u.main.stamp = w.main.stamp
    BY <1>1, RequestReconnect
  <2>2. Does(u) BY <1>10 DEF AuthorityRetryButton
  <2> HIDE DEF u
  <2>3. OwnRead(u.charge) BY <1>1, <2>1 DEF Agreed
  <2>4. Agreed(u) BY <1>1, <2>1, <2>3, AgreedKept DEF Leads
  <2> QED BY <1>2, <2>1, <2>2, <2>4
<1> QED BY <1>4, <1>5, <1>6, <1>7, <1>8, <1>9, <1>10

LEMMA OrderAgreed ==
  ASSUME Accords(w), CurrentOrderButton \/ BackButton \/ chargerSelected
  PROVE  Agreed(w)'
<1>1. /\ w \in Shell /\ Known(w) /\ Told(w) /\ Sound(w) /\ Agreed(w)
      /\ w.main = main /\ w.charge = charge
      /\ main.authority \in Maybe(Order) /\ main.authority = Current(main.authority)
  BY SoundKnown, ShellOf, AuthorityType DEF Accords, Agreed
<1>2. ASSUME NEW u, Leads(w, u), Agreed(u), Does(u) PROVE Agreed(w)'
  BY <1>2, SoundKnown, DoesAgreed DEF Leads, Does
<1>3. ASSUME NEW u, Leads(w, u), Resumes(w, u, main.authority), Does(u) PROVE Agreed(w)'
  <2>1. CASE u.charge.active
    <3>1. Agreed(u) BY <1>1, <1>3, <2>1, ResumesAgreed
    <3> QED BY <1>2, <1>3, <3>1
  <2>2. CASE ~u.charge.active
    <3>1. u.main.authority = Current(u.main.authority)
      <4>1. PICK y \in Shell :
              /\ Known(y) /\ Told(y) /\ y.main.authority = main.authority
              /\ u.main.authority = requestReconciliation(y).main.authority
        BY <1>1, <1>3 DEF Resumes
      <4>2. requestReconciliation(y).main.authority = y.main.authority
        BY <4>1, RequestReconciliation DEF Keeps, Within, Frame
      <4> QED BY <1>1, <4>1, <4>2
    <3>2. Agreed(u) BY <1>3, <2>2, <3>1, AgreedAway DEF Leads
    <3> QED BY <1>2, <1>3, <3>2
  <2> QED BY <2>1, <2>2
<1>4. CASE CurrentOrderButton
  <2> DEFINE u == [resume(enterOrder(IF main.page = "history"
                              THEN deactivateHistory(cancelReconnectCurrent(w))
                              ELSE cancelReconnectCurrent(w), main.authority)) EXCEPT
                     !.main.page = "charge"]
  <2>1. main.authority \in Order BY <1>1, <1>4 DEF CurrentOrderButton, Maybe
  <2>2. Leads(w, u) /\ Resumes(w, u, main.authority)
    BY <1>1, <1>4, <2>1, OrderShown DEF CurrentOrderButton, Free
  <2>3. Does(u) BY <1>4 DEF CurrentOrderButton
  <2> HIDE DEF u
  <2> QED BY <1>3, <2>2, <2>3
<1>5. CASE BackButton /\ isActive(main.authority)
  <2> DEFINE u == resume(enterOrder(w, main.authority))
  <2>1. main.authority \in Order BY <1>1, <1>5 DEF isActive, Maybe
  <2>2. w.main.page = "charge" /\ "back" \in w.charge.buttons /\ ~w.main.required
    BY <1>1, <1>5 DEF BackButton, At, Sound, Seated
  <2>3. Leads(w, u) /\ Resumes(w, u, main.authority) BY <1>1, <2>1, <2>2, BackToOrder
  <2>4. Does(u) BY <1>5 DEF BackButton
  <2> HIDE DEF u
  <2> QED BY <1>3, <2>3, <2>4
<1>6. CASE BackButton /\ ~isActive(main.authority)
  <2> DEFINE u == [leavePage(w) EXCEPT !.main.authority = None, !.main.remembered = None,
                                       !.main.page = "nearby"]
  <2>1. Leads(w, u) /\ u.main.page = "nearby" /\ u.main.authority = None
    BY <1>1, <1>6, BackToNearby DEF BackButton, At
  <2>2. Does(u) BY <1>6 DEF BackButton
  <2> HIDE DEF u
  <2>3. Agreed(u) BY <1>1, <2>1, AwayAccords DEF Leads
  <2> QED BY <1>2, <2>1, <2>2, <2>3
<1>7. CASE chargerSelected
  <2>1. PICK c \in Charger, st \in Status :
          LET s == [charger |-> c, status |-> st, fresh |-> TRUE, valid |-> TRUE]
              v == nextSelection(w)
          IN  IF main.authority # None \/ main.blocked THEN Does(v)
              ELSE Does([enterSelection([v EXCEPT !.main.remembered = s], s) EXCEPT
                           !.main.page = "charge"])
    BY <1>7 DEF chargerSelected
  <2> DEFINE s == [charger |-> c, status |-> st, fresh |-> TRUE, valid |-> TRUE]
             n == nextSelection(w)
             u == [enterSelection([n EXCEPT !.main.remembered = s], s) EXCEPT
                     !.main.page = "charge"]
  <2>2. s \in Selection /\ s.valid BY DEF Selection
  <2>3. CASE Does(n)
    <3>1. Keeps(w, n) BY <1>1, NextSelection
    <3>2. Gentle(w, n) BY <1>1, NextSelectionGentle
    <3> HIDE DEF n
    <3>3. Agreed(n) BY <1>1, <3>1, <3>2, AgreedGentle DEF Keeps, Within
    <3> QED BY <2>3, <3>1, <3>3, DoesAgreed DEF Keeps, Does
  <2>4. CASE main.authority = None /\ ~main.blocked /\ Does(u)
    <3> HIDE DEF s
    <3>1. w.main.page = "nearby" /\ ~w.main.required BY <1>1, <1>7 DEF chargerSelected, At
    <3>2. /\ Leads(w, u) /\ u.main.authority = w.main.authority
          /\ u.charge.order = None /\ u.charge.read = None /\ u.charge.mutation = None
      BY <1>1, <2>2, <2>4, <3>1, ChargerChosen
    <3> HIDE DEF u
    <3>3. Agreed(u) BY <1>1, <2>4, <3>2, CurrentTwice DEF Agreed, OwnRead, OwnMutation
    <3> QED BY <1>2, <2>4, <3>2, <3>3
  <2> QED BY <2>1, <2>3, <2>4
<1> QED BY <1>4, <1>5, <1>6, <1>7

-----------------------------------------------------------------------------
(* The connection. *)

LEMMA ChargeConnectionAgreed ==
  ASSUME NEW v \in Shell, Known(v), Told(v), Alone(v), NEW before \in BOOLEAN, Agreed(v)
  PROVE  Agreed(ChargeConnectionChanged(v, before))
<1> DEFINE p == [v EXCEPT !.charge.polling = FALSE]
           q == invalidateSafeReads(p)
           broken == [q EXCEPT !.charge.reconcile = TRUE, !.charge.factsFailed = FALSE]
           t == CASE ~v.api.up /\ v.charge.active -> broken
                  [] ~v.api.up /\ ~v.charge.active -> p
                  [] v.api.up /\ ~before /\ v.charge.active -> requestReconciliation(v)
                  [] OTHER -> v
<1>1. ChargeConnectionChanged(v, before) = Shown(t) BY DEF ChargeConnectionChanged
<1>2. v.charge \in ChargeState /\ v.api \in ApiState(Slots(v)) BY Parts
<1>3. v.charge.active \in BOOLEAN /\ v.api.up \in BOOLEAN BY <1>2 DEF ChargeState, ApiState
<1>4. Moves(v, p) /\ p.charge.active = v.charge.active BY PollingOff
<1>5. p.charge = [v.charge EXCEPT !.polling = FALSE] BY DEF Shell
<1> HIDE DEF p
<1>6. p \in Shell /\ Known(p) /\ Told(p) /\ Frame(v, p) BY <1>4 DEF Moves, Within
<1>7. Agreed(p)
  <2>1. OwnRead(p.charge) BY <1>2, <1>5 DEF Agreed, OwnRead, ChargeState
  <2> QED BY <1>6, <2>1, AgreedFrame
<1>8. ASSUME v.charge.active
      PROVE  broken \in Shell /\ Known(broken) /\ Told(broken) /\ Agreed(broken)
  <2>1. Alone(p) /\ p.charge.active BY <1>4, <1>6, <1>8 DEF Alone, Slots, Moves, Within, Frame
  <2>2. q = cancelOwnedSafeReads(p) BY <1>6, <2>1, InvalidateOwned
  <2> HIDE DEF q
  <2>3. Moves(p, q) /\ q.charge.read = None
    <3> DEFINE z == cancelOwnedSafeReads(p)
    <3>1. /\ Moves(p, z)
          /\ z.charge = [p.charge EXCEPT
                           !.read = None, !.facts = None, !.gate = FALSE,
                           !.attempt = IF p.charge.exit THEN 0 ELSE @, !.current = TRUE]
      BY <1>6, GiveUpOwned
    <3> HIDE DEF z
    <3>2. p.charge \in ChargeState BY <1>6, Parts
    <3>3. z.charge.read = None BY <3>1, <3>2 DEF ChargeState
    <3> QED BY <2>2, <3>1, <3>3 DEF z
  <2>4. q \in Shell /\ Known(q) /\ Told(q) /\ Frame(p, q) BY <2>3 DEF Moves, Within
  <2>5. Moves(q, broken) BY <2>3, <2>4, ReconcileOwed
  <2>6. broken.charge.read = None
    <3>1. q.charge \in ChargeState BY <2>4, Parts
    <3> QED BY <2>3, <2>4, <3>1 DEF Shell, ChargeState
  <2> HIDE DEF broken
  <2>7. Agreed(q) BY <1>7, <2>3, <2>4, AgreedFrame DEF OwnRead
  <2>8. Agreed(broken) BY <2>5, <2>6, <2>7, AgreedFrame DEF OwnRead, Moves, Within
  <2> QED BY <2>5, <2>8 DEF Moves
<1>9. LET x == requestReconciliation(v) IN x \in Shell /\ Known(x) /\ Told(x) /\ Agreed(x)
  <2> DEFINE x == requestReconciliation(v)
  <2>1. Keeps(v, x) BY RequestReconciliation
  <2>2. Agreed(x) BY ReconciliationAgreed
  <2> HIDE DEF x
  <2>3. x \in Shell /\ Known(x) /\ Told(x) BY <2>1 DEF Keeps, Within
  <2> QED BY <2>2, <2>3 DEF x
<1> HIDE DEF broken, q
<1>10. t \in Shell /\ Known(t) /\ Told(t) /\ Agreed(t)
  BY <1>3, <1>6, <1>7, <1>8, <1>9
<1> HIDE DEF t
<1> QED BY <1>1, <1>10, AgreedShown

\* The window, its pages and the lists of them are told of the connection in turn.
LEMMA ConnectionAgreed ==
  ASSUME NEW v, Linked(v), NEW before \in BOOLEAN, Agreed(v)
  PROVE  Agreed(connectionChanged(v, before))
<1> DEFINE h == HistoryConnectionChanged(v)
           c == ChargeConnectionChanged(h, before)
           n == NearbyConnectionChanged(c)
           u == connectionChanged(v, before)
<1>1. /\ v \in Shell /\ Known(v) /\ Told(v) /\ Listed(v) /\ Reported(v) /\ Withdrawn(v)
      /\ Seated(v)
  BY DEF Linked
<1>2. Holds(v, h) /\ Apace(v, h) /\ h.charge = v.charge /\ h.main = v.main
  BY <1>1, HistoryConnection
<1> HIDE DEF h
<1>3. h \in Shell /\ Known(h) /\ Told(h) /\ Reported(h) BY <1>1, <1>2 DEF Holds
<1>4. Alone(h) /\ Agreed(h)
  <2>1. Alone(v) BY <1>1 DEF Seated, Alone
  <2>2. OwnRead(h.charge) /\ h.api.ops = v.api.ops BY <1>2 DEF Agreed, Holds
  <2>3. Agreed(h) BY <1>2, <2>2, AgreedKept
  <2> QED BY <1>2, <2>1, <2>3, AloneTurns
<1>5. Settles(h, c) /\ Agreed(c) BY <1>3, <1>4, ChargeConnection, ChargeConnectionAgreed
<1> HIDE DEF c
<1>6. Keeps(h, c) /\ c \in Shell /\ Known(c) /\ Told(c) /\ Rendered(c)
  BY <1>5, SettlesKeeps DEF Settles, Moves
<1>7. Keeps(c, n) /\ n.charge = c.charge BY <1>6, NearbyConnection
<1> HIDE DEF n
<1>8. Rendered(n) BY <1>6, <1>7 DEF Keeps
<1>9. Holds(v, n) /\ Apace(v, n)
  <2>1. Holds(h, c) /\ Apace(h, c) BY <1>6, KeepsHolds
  <2>2. Holds(c, n) /\ Apace(c, n) BY <1>7, KeepsHolds
  <2>3. Holds(v, c) /\ Apace(v, c) BY <1>2, <2>1, HoldsTrans, ApaceTrans
  <2> QED BY <2>2, <2>3, HoldsTrans, ApaceTrans
<1>10. Agreed(n)
  <2>1. Frame(c, n) /\ OwnRead(n.charge) BY <1>5, <1>7 DEF Keeps, Within, Agreed
  <2> QED BY <1>5, <2>1, AgreedFrame
<1>11. u = MainConnectionChanged(n) BY DEF connectionChanged, n, c, h
<1>12. CASE ~n.api.user \/ n.main.guard \/ n.main.page = "charge" \/ n.main.blocked
  <2>1. u = n BY <1>11, <1>12 DEF MainConnectionChanged
  <2> HIDE DEF u
  <2> QED BY <2>1, <1>10 DEF u
<1>13. CASE ~(~n.api.user \/ n.main.guard \/ n.main.page = "charge" \/ n.main.blocked)
  <2>1. v.charge.mutation = None
    <3>1. v.charge.mutation # None => v.charge.active /\ v.main.page = "charge"
      BY <1>1 DEF Linked, Seated
    <3> QED BY <3>1, <1>9, <1>13 DEF Holds
  <2>2. u = requestReconnectCurrent([n EXCEPT !.main.required = TRUE, !.main.queued = TRUE])
    BY <1>11, <1>13 DEF MainConnectionChanged
  <2>3. Sound(n)
    <3>1. Whole(n) BY <1>1, <1>8, <1>9 DEF Whole, Holds
    <3>2. Seated(n) BY <1>1, <1>9 DEF Seated, Holds, Apace
    <3>3. Awaited(v) BY <2>1 DEF Linked
    <3> QED BY <3>1, <3>2, <3>3, <2>1, <1>9 DEF Sound, Awaited, Holds
  <2>4. /\ Leads(n, u) /\ u.charge = n.charge
        /\ u.main.authority = n.main.authority /\ u.main.stamp = n.main.stamp
    <3> HIDE DEF u
    <3> QED BY <2>2, <2>3, <1>13, ReadAgain
  <2> HIDE DEF u
  <2>5. Agreed(u)
    <3>1. OwnRead(u.charge) /\ u.api.ops = n.api.ops BY <1>10, <2>4 DEF Agreed, Leads
    <3> QED BY <1>10, <2>4, <3>1, AgreedKept
  <2> QED BY <2>5 DEF u
<1> QED BY <1>12, <1>13

\* The mutation is over and the order is as it was, or is the one of the window.
LEMMA EndedAgreed ==
  ASSUME NEW v, Answered(v), NEW m \in MainState, Noted(v.main, m),
         m.authority = Current(v.charge.order)
  PROVE  Agreed(endMutation(Notified(v, [v.charge EXCEPT !.current = FALSE], m)))
<1> DEFINE u == endMutation(Notified(v, [v.charge EXCEPT !.current = FALSE], m))
<1>1. PICK y : Ending(v, m, y) /\ u = Shown(y) BY EndingDone
<1> HIDE DEF u
<1>2. v.charge \in ChargeState BY AnsweredAlone
<1>3. /\ y.charge.read = None /\ y.charge.mutation = None /\ y.charge.order = v.charge.order
      /\ y.main = m
  BY <1>1, <1>2 DEF Ending, ChargeState
<1>4. Agreed(y) BY <1>3, CurrentTwice DEF Agreed, OwnRead, OwnMutation
<1> QED BY <1>1, <1>4, AgreedShown DEF Ending, u

LEMMA MutationFailedAgreed ==
  ASSUME NEW v, Answered(v), Agreed(v), NEW why
  PROVE  Agreed(mutationFailed(v, why))
<1> DEFINE m == [v.main EXCEPT !.stamp = "none"]
           e == Unsettled(v.charge)
           z == Anew(v, e, m)
           h == Shown(z)
           f == endMutation(Notified(v, [v.charge EXCEPT !.current = FALSE], m))
           u == mutationFailed(v, why)
<1>1. /\ v \in Shell /\ Known(v) /\ Told(v) /\ v.charge.active
      /\ v.charge \in ChargeState /\ v.main \in MainState
  BY AnsweredAlone
<1>2. /\ m \in MainState /\ Noted(v.main, m) /\ e \in ChargeState /\ Paged(e)
      /\ e.reported = v.charge.reported /\ e.facts = None /\ e.read = None
      /\ e.mutation = None /\ e.order = v.charge.order
      /\ Whole(h)
      /\ u = IF overtaken(v, v.charge.mutation.subject) THEN f
             ELSE IF why \in {"uncertain", "refresh"} THEN requestReconciliation(h) ELSE h
  BY MutationRefused
<1>3. m.authority = Current(v.charge.order)
  <2>1. m.authority = v.main.authority BY <1>1 DEF MainState
  <2> QED BY <1>1, <2>1 DEF Agreed
<1> HIDE DEF m, e, u
<1>5. Beside(v, z) /\ z.charge = e /\ z.main = m
  BY <1>1, <1>2, Replaced DEF Noted, Told
<1> HIDE DEF z
<1>4. Agreed(f) BY <1>2, <1>3, EndedAgreed
<1> HIDE DEF f
<1>6. Agreed(z) BY <1>2, <1>3, <1>5, CurrentTwice DEF Agreed, OwnRead, OwnMutation
<1>7. Agreed(h) /\ h \in Shell /\ Known(h) /\ Told(h)
  BY <1>2, <1>5, <1>6, AgreedShown DEF Whole, Beside
<1> HIDE DEF h
<1>8. Agreed(requestReconciliation(h)) BY <1>7, ReconciliationAgreed
<1>9. Agreed(u) BY <1>2, <1>4, <1>7, <1>8
<1> QED BY <1>9 DEF u

\* The window takes the outcome for the order that the page then shows.
LEMMA OutcomeKnown ==
  ASSUME NEW v, Answered(v), Agreed(v), NEW order \in Order,
         v.charge.mutation.op # "reserve" => order.id = v.charge.mutation.subject
  PROVE  CurrentAfter(v.main, order) =
           Current(IF overtaken(v, order.id) THEN v.charge.order ELSE order)
<1> DEFINE a == v.main.authority
           o == v.charge.order
           p == v.charge.mutation
<1>1. /\ v.charge.active /\ v.charge \in ChargeState /\ p # None
      /\ order # None
  BY AnsweredAlone, NoneAssumption DEF Answered, NoneAssumption
<1>2. a = Current(o) /\ a = Current(a) BY <1>1 DEF Agreed
<1>3. /\ v.main.stamp # "none"
      /\ p.superseded => v.main.stamp = "moved"
      /\ p.op = "reserve" <=> p.subject = 0
      /\ ~p.superseded /\ o # None => o.id = p.subject
  BY <1>1 DEF Agreed, OwnMutation
<1>4. a # None => a = o /\ isActive(o) /\ o # None
  BY <1>2, NoneAssumption DEF Current, isActive
<1>5. order.id \in 1..MaxOrder /\ MaxOrder \in Nat BY BoundAssumption DEF Order
<1>6. o # None => o.id \in 1..MaxOrder BY <1>1 DEF ChargeState, Maybe, Order
<1>7. CASE overtaken(v, order.id)
  <2>1. isActive(o) /\ o.id # order.id /\ v.main.stamp = "moved"
    BY <1>3, <1>7 DEF overtaken
  <2>2. a = o /\ a # None BY <1>2, <2>1 DEF Current, isActive
  <2>3. CurrentAfter(v.main, order) = a BY <2>1, <2>2 DEF CurrentAfter
  <2> QED BY <1>2, <1>7, <2>3
<1>8. CASE ~overtaken(v, order.id)
  <2>1. a # None => a.id = order.id
    <3> SUFFICES ASSUME a # None, a.id # order.id PROVE FALSE OBVIOUS
    <3>1. isActive(o) /\ o # None /\ o.id # order.id BY <1>4
    <3>2. ~p.superseded BY <1>8, <3>1 DEF overtaken
    <3>3. o.id = p.subject BY <1>3, <3>1, <3>2
    <3>4. p.op # "reserve" BY <1>3, <1>5, <1>6, <3>1, <3>3
    <3> QED BY <3>1, <3>3, <3>4
  <2>2. CurrentAfter(v.main, order) = IF isActive(order) THEN order ELSE None
    BY <1>3, <1>5, <2>1 DEF CurrentAfter
  <2> QED BY <1>8, <2>2 DEF Current
<1> QED BY <1>7, <1>8

LEMMA AcceptAgreed ==
  ASSUME NEW v, Answered(v), Agreed(v), NEW order \in Order,
         v.charge.mutation.op # "reserve" => order.id = v.charge.mutation.subject
  PROVE  LET u == acceptMutation(v, order) IN
         Agreed(u) /\ (overtaken(v, order.id) \/ u.main.authority = Current(order))
<1> DEFINE c == [v.charge EXCEPT !.current = FALSE]
           told(m) == Notified(v, c, m)
           u == acceptMutation(v, order)
<1>1. PICK m \in MainState :
        /\ Noted(v.main, m) /\ m.authority = CurrentAfter(v.main, order)
        /\ u = IF overtaken(v, order.id) THEN endMutation(told(m))
               ELSE requestFacts(Shown(takeOutcome(told(m), order)),
                                 takeOutcome(told(m), order).charge.reconcile,
                                 takeOutcome(told(m), order).charge.exit)
  <2> HIDE DEF u
  <2> QED BY MutationTaken DEF u
<1> DEFINE t == takeOutcome(told(m), order)
           h == Shown(t)
           f == requestFacts(h, t.charge.reconcile, t.charge.exit)
           e == endMutation(told(m))
<1>2. m.authority = Current(IF overtaken(v, order.id) THEN v.charge.order ELSE order)
  BY <1>1, OutcomeKnown
<1>3. overtaken(v, order.id) => Agreed(e) BY <1>1, <1>2, EndedAgreed
<1>4. /\ Whole(h) /\ Concludes(v, h) /\ h.charge.active /\ h.charge.order = order
      /\ h.charge.facts = None /\ h.charge.read = None /\ ~h.charge.exitFailed
      /\ h.main.authority = m.authority
      /\ t.charge.reconcile \in BOOLEAN /\ t.charge.exit \in BOOLEAN
  BY <1>1, OutcomeTaken
<1> HIDE DEF h, t, e, u, told, c
<1>5. ~overtaken(v, order.id) => Agreed(h)
  BY <1>2, <1>4, CurrentTwice DEF Agreed, OwnRead, OwnMutation, Concludes
<1>6. Frame(h, f) /\ f.charge.read = None
  <2> DEFINE r == t.charge.reconcile
             x == t.charge.exit
  <2>1. r \in BOOLEAN /\ x \in BOOLEAN BY <1>4
  <2>2. h.charge.order # None BY <1>4, NoneAssumption DEF NoneAssumption
  <2> HIDE DEF r, x
  <2> QED BY <1>4, <2>1, <2>2, FactsFrame DEF Whole, r, x
<1>7. ~overtaken(v, order.id) => Agreed(f) BY <1>5, <1>6, AgreedFrame DEF OwnRead
<1>8. u = IF overtaken(v, order.id) THEN e ELSE f BY <1>1 DEF h, t, e
<1> HIDE DEF f
<1>9. overtaken(v, order.id) \/ f.main.authority = Current(order)
  BY <1>2, <1>4, <1>6 DEF Frame
<1> QED BY <1>3, <1>7, <1>8, <1>9 DEF u

LEMMA ConnectAgreed ==
  ASSUME NEW v, Accords(v)
  PROVE  Agreed(connectionChanged(Connected(v), FALSE))
<1> DEFINE x == Connected(v)
<1>1. /\ Linked(x) /\ x.charge = v.charge /\ x.main = v.main /\ x.api.ops = v.api.ops
  BY ConnectedLinked DEF Accords
<1> HIDE DEF x
<1>2. Agreed(x) BY <1>1 DEF Accords, Agreed, OwnMutation
<1>3. FALSE \in BOOLEAN OBVIOUS
<1>4. Agreed(connectionChanged(x, FALSE)) BY <1>1, <1>2, <1>3, ConnectionAgreed
<1> QED BY <1>4 DEF x

LEMMA FailOfAgreed ==
  ASSUME NEW v, Accords(v), NEW slot \in {"login", "guard", "reconnect"}
  PROVE  Accords(failOf(v, slot))
<1>1. Sound(v) /\ Agreed(v) BY DEF Accords
<1>2. CASE slot \notin Slots(v)
  <2>1. failOf(v, slot) = v BY <1>2 DEF failOf, Slots
  <2> QED BY <2>1
<1>3. CASE slot \in Slots(v)
  <2>1. failOf(v, slot) = readFailed(cancelSafeReads(v, {slot}), slot)
    BY <1>3 DEF failOf, Slots
  <2>2. CASE slot = "login"
    <3>1. failOf(v, slot) = cancelSafeReads(v, {"login"})
      BY <2>1, <2>2 DEF readFailed, CurrentRead
    <3>2. Sound(cancelSafeReads(v, {"login"})) BY <1>1, LoginGone DEF Leads
    <3>3. "login" \in {"list", "login"} OBVIOUS
    <3>4. Agreed(cancelSafeReads(v, {"login"})) BY <1>1, <3>3, SlotAgreed
    <3> QED BY <3>1, <3>2, <3>4 DEF Accords
  <2>3. CASE slot # "login"
    <3>1. slot \in CurrentRead BY <2>3 DEF CurrentRead
    <3>2. failOf(v, slot) = currentOrderFailed(cancelSafeReads(v, {slot}), slot)
      BY <2>1, <3>1 DEF readFailed
    <3> QED BY <1>3, <3>1, <3>2, CurrentFailedAgreed
  <2> QED BY <2>2, <2>3
<1> QED BY <1>2, <1>3

\* To send the reads again changes nothing that is known.
LEMMA ResentAgreed ==
  ASSUME NEW v, v \in Shell, Agreed(v) PROVE Agreed(Resent(v))
<1> DEFINE u == Resent(v)
<1>1. v.api \in ApiState(Slots(v)) BY Parts
<1>2. u.charge = v.charge /\ u.main = v.main /\ u.api.ops = v.api.ops
  BY <1>1 DEF Resent, Shell, ApiState
<1> HIDE DEF u
<1>3. Agreed(u) BY <1>2 DEF Agreed, OwnMutation
<1> QED BY <1>3 DEF u

LEMMA LostAgreed ==
  ASSUME NEW v, Accords(v), v.api = api
  PROVE  Agreed(lost(v))
<1> DEFINE told == connectionChanged(Gone(v), TRUE)
           over == {"login"} \cup told.api.replayed
           s1 == "login"
           s2 == IF "guard" \in over THEN "guard" ELSE "login"
           s3 == IF "reconnect" \in over THEN "reconnect" ELSE "login"
           a == failOf(told, s1)
           b == failOf(a, s2)
           reads == failOf(b, s3)
           failed == IF \E i \in DOMAIN v.api.ops : v.api.ops[i].live
                     THEN mutationFailed(reads, "uncertain") ELSE reads
<1>1. lost(v) = Resent(failed) BY DEF lost, Resent, Gone
<1>2. Awaited(v) /\ Sound(v) /\ Agreed(v) BY DEF Accords, Sound
<1>3. /\ Linked(Gone(v)) /\ Gone(v).charge = v.charge /\ Gone(v).main = v.main
      /\ Gone(v).api.ops = <<>>
  BY <1>2, GoneLinked
<1>4. /\ Whole(told) /\ Seated(told) /\ told.api.ops = <<>> /\ Agreed(told)
      /\ v.charge.mutation = None => Sound(told)
      /\ v.charge.mutation # None =>
           /\ told.charge.mutation # None /\ told.charge.active /\ told.charge.mutation.fits
  <2> DEFINE g == Gone(v)
             yes == TRUE
  <2> HIDE DEF g
  <2>1. Linked(g) /\ g.charge = v.charge /\ g.main = v.main /\ g.api.ops = <<>>
    BY <1>3 DEF g
  <2>2. Agreed(g) BY <1>2, <2>1 DEF Agreed, OwnMutation
  <2>3. yes \in BOOLEAN OBVIOUS
  <2> DEFINE u == connectionChanged(g, yes)
  <2>4. told = u BY DEF g
  <2> HIDE DEF yes, told
  <2>5. /\ Whole(u) /\ Seated(u) /\ u.api.ops = g.api.ops
        /\ g.charge.mutation = None => Sound(u)
        /\ g.charge.mutation # None =>
             /\ u.charge.mutation # None /\ u.charge.active /\ u.charge.mutation.fits
    BY <2>1, <2>3, ConnectionChanged
  <2>6. Agreed(u) BY <2>1, <2>2, <2>3, ConnectionAgreed
  <2> HIDE DEF u
  <2> QED BY <2>1, <2>4, <2>5, <2>6
<1> HIDE DEF told
<1>5. /\ s1 \in {"login", "guard", "reconnect"} /\ s2 \in {"login", "guard", "reconnect"}
      /\ s3 \in {"login", "guard", "reconnect"}
  OBVIOUS
<1> HIDE DEF s1, s2, s3
<1>6. CASE v.charge.mutation = None
  <2>1. ~\E i \in DOMAIN v.api.ops : v.api.ops[i].live BY <1>2, <1>6 DEF Awaited
  <2>2. Accords(told) BY <1>4, <1>6 DEF Accords
  <2>3. Accords(a) BY <1>5, <2>2, FailOfAgreed
  <2> HIDE DEF a
  <2>4. Accords(b) BY <1>5, <2>3, FailOfAgreed
  <2> HIDE DEF b
  <2>5. Accords(reads) BY <1>5, <2>4, FailOfAgreed
  <2> HIDE DEF reads
  <2>6. failed = reads BY <2>1
  <2>7. Agreed(Resent(reads)) BY <2>5, SoundKnown, ResentAgreed DEF Accords
  <2> QED BY <1>1, <2>6, <2>7
<1>7. CASE v.charge.mutation # None
  <2>1. \E i \in DOMAIN v.api.ops : v.api.ops[i].live BY <1>2, <1>7 DEF Awaited
  <2>2. Answered(told)
    <3>1. DOMAIN told.api.ops = {} BY <1>4, <1>7
    <3> QED BY <1>4, <1>7, <3>1 DEF Answered
  <2>3. told.main.page = "charge" BY <1>4, <1>7 DEF Seated
  <2>4. \A s \in {"login", "guard", "reconnect"} : s \notin Slots(told)
    BY <1>4, <2>3 DEF Seated
  <2>5. reads = told
    <3>1. a = told BY <1>5, <2>4, FailOf
    <3> HIDE DEF a
    <3>2. b = told BY <1>5, <2>4, <3>1, FailOf
    <3> HIDE DEF b
    <3> QED BY <1>5, <2>4, <3>2, FailOf
  <2> HIDE DEF reads
  <2>6. failed = mutationFailed(told, "uncertain") BY <2>1, <2>5
  <2>7. Leads(told, failed) /\ Agreed(failed)
    BY <1>4, <2>2, <2>6, MutationFailed, MutationFailedAgreed
  <2> HIDE DEF failed
  <2>8. Agreed(Resent(failed)) BY <2>7, SoundKnown, ResentAgreed DEF Leads
  <2> QED BY <1>1, <2>8
<1> QED BY <1>6, <1>7

LEMMA LinkAgreed ==
  ASSUME Accords(w), Disconnect \/ Connect
  PROVE  Agreed(w)'
<1>1. w.api = api /\ Sound(w) BY ShellOf DEF Accords
<1>2. CASE Disconnect
  <2>1. Agreed(lost(w)) /\ lost(w) \in Shell BY <1>1, LostAgreed, LostSound, SoundKnown
  <2> QED BY <1>2, <2>1, DoesAgreed DEF Disconnect
<1>3. CASE Connect
  <2> DEFINE u == connectionChanged(Connected(w), FALSE)
  <2>1. [w EXCEPT !.api.up = TRUE, !.api.replayed = DOMAIN api.reads] = Connected(w)
    BY <1>1 DEF Connected
  <2>2. Does(u) BY <1>3, <2>1 DEF Connect
  <2>3. Agreed(u) /\ u \in Shell BY <1>1, ConnectAgreed, ConnectSound, SoundKnown DEF Leads
  <2> HIDE DEF u
  <2> QED BY <2>2, <2>3, DoesAgreed DEF Does
<1> QED BY <1>2, <1>3

LEMMA TimeoutAgreed ==
  ASSUME Accords(w), MutationTimeout
  PROVE  Agreed(w)'
<1> DEFINE v == Unawaited(w)
           u == mutationFailed(v, "uncertain")
<1>1. \E i \in DOMAIN w.api.ops : w.api.ops[i].live BY ShellOf DEF MutationTimeout
<1>2. Answered(v) BY <1>1, UnawaitedAnswered DEF Accords
<1>3. v.charge = w.charge /\ v.main = w.main BY SoundKnown, UnawaitedParts DEF Accords
<1>4. Does(u) BY DEF MutationTimeout, Unawaited
<1> HIDE DEF v
<1>5. Agreed(v) BY <1>2, <1>3 DEF Accords, Agreed, OwnMutation, Answered
<1>6. Agreed(u) BY <1>2, <1>5, MutationFailedAgreed
<1>7. Leads(v, u) BY <1>2, MutationFailed
<1> HIDE DEF u
<1> QED BY <1>4, <1>6, <1>7, SoundKnown, DoesAgreed DEF Leads, Does

\* What the server did is of the order that the page asked about.
LEMMA OutcomeSubject ==
  ASSUME NEW s \in ServerState, NEW op, NEW target, Asks(op, target), takes(s, op, target),
         op # "reserve"
  PROVE  outcome(s, op, target).id = target
<1>1. s.order # None /\ s.order.id = target BY DEF takes, Asks, Mutation
<1>2. s.order = [id |-> s.order.id, charger |-> s.order.charger, status |-> s.order.status]
  BY <1>1, ServerOrder
<1>3. outcome(s, op, target).id = s.order.id BY <1>2 DEF outcome
<1> QED BY <1>1, <1>3

LEMMA OutcomeAgreed ==
  ASSUME Accords(w), Careful(w), server \in ServerState, handleMutation
  PROVE  Agreed(w)'
<1> DEFINE m == api.ops[1]
           s == took(server, m.op, m.target)
<1>1. w \in Shell /\ w.api = api /\ w.charge = charge /\ Sound(w) /\ Agreed(w)
  BY ShellOf, SoundKnown DEF Accords
<1>2. /\ m.live => Answered(nearer)
      /\ ~m.live => Sound(nearer)
      /\ m \in SentMutation /\ nearer.api.ops = Tail(api.ops) /\ api.ops # <<>>
      /\ nearer.charge = w.charge /\ nearer.main = w.main
  <2>1. nearer = Nearer(w) BY DEF nearer, Nearer
  <2>2. nearer.charge = w.charge /\ nearer.main = w.main BY <1>1, <2>1 DEF Nearer, Shell
  <2> QED BY <1>1, <2>1, <2>2, MutationDueReads, NearerSound, NearerOps DEF handleMutation
<1>3. nearer.api.ops = <<>> BY <1>1, <1>2, TailGone
<1>4. Agreed(nearer)
  <2>1. OwnMutation(nearer)
    <3>1. \A i \in DOMAIN nearer.api.ops : ~nearer.api.ops[i].live BY <1>3
    <3>2. OwnMutation(w) BY <1>1 DEF Agreed
    <3> QED BY <1>2, <3>1, <3>2 DEF OwnMutation
  <2> QED BY <1>1, <1>2, <2>1 DEF Agreed
<1>5. IF ~m.live
      THEN server' = s /\ Becomes(nearer, {})
      ELSE \/ /\ takes(server, m.op, m.target)
              /\ server' = s
              /\ Becomes(acceptMutation(nearer, outcome(server, m.op, m.target)), {})
           \/ \E why \in {"refresh", "other"} : Does(mutationFailed(nearer, why))
           \/ server' = s /\ Becomes(mutationFailed(nearer, "uncertain"), {})
  BY DEF handleMutation
<1>6. m.live => nearer.charge.mutation.op = m.op
                /\ (m.op # "reserve" => m.target = nearer.charge.mutation.subject)
  <2>1. w.api.ops \in Seq(SentMutation) BY <1>1, Parts DEF ApiState
  <2>2. 1 \in DOMAIN w.api.ops BY <1>1, <1>2, <2>1, EmptySeq
  <2>3. m.live => w.charge.mutation # None BY <1>1, <1>2 DEF Answered
  <2> QED BY <1>1, <1>2, <2>2, <2>3 DEF Agreed, OwnMutation
<1> HIDE DEF s
<1>7. CASE ~m.live BY <1>2, <1>4, <1>5, <1>7, SoundKnown, DoesAgreed
<1>8. CASE m.live /\ takes(server, m.op, m.target)
             /\ Becomes(acceptMutation(nearer, outcome(server, m.op, m.target)), {})
  <2> DEFINE o == outcome(server, m.op, m.target)
             u == acceptMutation(nearer, o)
  <2>1. Asks(m.op, m.target) BY <1>2, SentAsks
  <2>2. o \in Order BY <1>8, <2>1, Outcome
  <2>3. m.op # "reserve" => o.id = m.target BY <1>8, <2>1, OutcomeSubject
  <2>4. Becomes(u, {}) BY <1>8
  <2> HIDE DEF o, m
  <2>5. nearer.charge.mutation.op # "reserve" => o.id = nearer.charge.mutation.subject
    BY <1>6, <1>8, <2>3
  <2>6. Answered(nearer) BY <1>2, <1>8
  <2>7. Agreed(u) BY <1>4, <2>2, <2>5, <2>6, AcceptAgreed
  <2>8. Leads(nearer, u) BY <2>2, <2>6, AcceptMutation
  <2> HIDE DEF u
  <2> QED BY <2>4, <2>7, <2>8, SoundKnown, DoesAgreed DEF Leads
<1>9. CASE m.live /\ \E why : Becomes(mutationFailed(nearer, why), {})
  <2>1. PICK why : Becomes(mutationFailed(nearer, why), {}) BY <1>9
  <2>2. Answered(nearer) BY <1>2, <1>9
  <2> DEFINE u == mutationFailed(nearer, why)
  <2>3. Agreed(u) /\ Leads(nearer, u) BY <1>4, <2>2, MutationFailedAgreed, MutationFailed
  <2> HIDE DEF u
  <2> QED BY <2>1, <2>3, SoundKnown, DoesAgreed DEF Leads, u
<1> QED BY <1>5, <1>7, <1>8, <1>9 DEF Does

\* What is asked for is of the order that the page shows, or is a first one.
LEMMA OffersOwn ==
  ASSUME NEW c \in ChargeState, NEW op \in Offers(c)
  PROVE  (op = "reserve" <=> c.order = None) /\ (op = "reserve" <=> orderId(c.order) = 0)
<1>1. c.order # None => c.order.id \in 1..MaxOrder /\ MaxOrder \in Nat
  BY BoundAssumption DEF ChargeState, Maybe, Order
<1>2. op = "reserve" <=> c.order = None BY DEF Offers
<1>3. c.order = None <=> orderId(c.order) = 0 BY <1>1 DEF orderId
<1> QED BY <1>2, <1>3

LEMMA AskedAgreed ==
  ASSUME NEW v, Accords(v), NEW op, NEW p, NEW r, NEW y, Asked(v, op, p, r, y),
         op \in Offers(v.charge), ~chargeFlowBlocked(v.charge), v.api.ops = <<>>
  PROVE  Agreed(y)
<1>1. v \in Shell /\ v.charge \in ChargeState /\ v.main \in MainState /\ Sound(v) /\ Agreed(v)
  BY SoundKnown, Parts DEF Accords
<1>2. /\ p # None /\ y.charge.mutation = p /\ y.charge.read = v.charge.read
      /\ y.charge.active = v.charge.active /\ y.charge.order = v.charge.order
      /\ y.main.authority = v.main.authority
  BY <1>1, AskedParts
<1>3. OwnRead(y.charge)
  <2>1. v.charge.read # None => v.charge.read.op # "reconcile"
    BY <1>1 DEF Agreed, OwnRead, chargeFlowBlocked
  <2> QED BY <1>1, <1>2, <2>1 DEF Agreed, OwnRead
<1>4. /\ y.main.stamp = "same" /\ ~p.superseded /\ p.op = op /\ p.subject = orderId(v.charge.order)
      /\ r.op = op /\ (op # "reserve" => r.target = v.charge.order.id)
      /\ y.api.ops = Append(v.api.ops, r)
  BY <1>1 DEF Asked, MainState
<1>5. (op = "reserve" <=> v.charge.order = None) /\ (op = "reserve" <=> p.subject = 0)
  BY <1>1, <1>4, OffersOwn
<1>6. v.charge.order # None => v.charge.order.id = p.subject BY <1>4 DEF orderId
<1>7. \A i \in DOMAIN y.api.ops : y.api.ops[i] = r BY <1>4
<1>8. OwnMutation(y) BY <1>2, <1>4, <1>5, <1>6, <1>7 DEF OwnMutation
<1> QED BY <1>1, <1>2, <1>3, <1>8 DEF Agreed

LEMMA MutationAgreed ==
  ASSUME Accords(w), Careful(w), MutationButton
  PROVE  Agreed(w)'
<1>1. PICK op \in Mutation \cap charge.buttons : Does(beginMutation(w, op))
  BY DEF MutationButton
<1> DEFINE u == beginMutation(w, op)
<1>2. w.charge = charge /\ w.api = api /\ w.main = main /\ Sound(w) /\ Agreed(w) /\ w \in Shell
  BY ShellOf, SoundKnown DEF Accords
<1>3. api.ops = <<>>
  <2>1. main.page = "charge" BY DEF MutationButton, At
  <2>2. op # "retry" BY DEF Mutation
  <2> QED BY <1>1, <1>2, <2>1, <2>2, Busy
<1>4. u \in Shell BY <1>1, <1>2, BeginMutation, SoundKnown
<1>5. CASE ~w.charge.active \/ ~w.api.up \/ chargeFlowBlocked(w.charge)
  <2>1. u = w BY <1>1, <1>2, <1>5, MutationBegun
  <2> HIDE DEF u
  <2> QED BY <1>1, <1>2, <1>4, <2>1, DoesAgreed DEF Does, u
<1>6. CASE ~(~w.charge.active \/ ~w.api.up \/ chargeFlowBlocked(w.charge))
  <2>1. op \in Offers(w.charge) BY <1>1, <1>2, <1>6, MutationBegun
  <2>2. PICK p, r, y : Asked(w, op, p, r, y) /\ u = Shown(y)
    BY <1>1, <1>2, <1>6, MutationBegun
  <2> HIDE DEF u
  <2>3. Agreed(y) BY <1>2, <1>3, <1>6, <2>1, <2>2, AskedAgreed
  <2>4. Agreed(u) BY <2>2, <2>3, AgreedShown DEF Asked
  <2> QED BY <1>1, <1>4, <2>4, DoesAgreed DEF Does, u
<1> QED BY <1>5, <1>6

LEMMA AgreedStep ==
  ASSUME IInv, Careful(w), Agreed(w), [Next]_vars
  PROVE  Agreed(w)'
<1>1. Accords(w) /\ server \in ServerState BY DEF IInv, Accords
<1>2. CASE Press
  BY <1>1, <1>2, LoginAgreed, TurnAgreed, OrderAgreed, QuietAgreed, MutationAgreed
  DEF Press
<1>3. CASE Answer
  BY <1>1, <1>3, LoginAgreed, AnswerAgreed, FailureAgreed, OutcomeAgreed, TimeoutAgreed,
     QuietAgreed
  DEF Answer
<1>4. CASE pollTimer BY <1>1, <1>4, QuietAgreed
<1>5. CASE Disconnect \/ Connect BY <1>1, <1>5, LinkAgreed
<1>6. CASE Elsewhere \/ UNCHANGED vars BY <1>6, ElsewhereSame
<1> QED BY <1>2, <1>3, <1>4, <1>5, <1>6 DEF Next

LEMMA AgreedInit == ASSUME Init PROVE Agreed(w)
<1>1. /\ charge.mutation = None /\ charge.read = None /\ ~charge.active
      /\ main.authority = None
  BY DEF Init
<1> QED BY <1>1, ShellOf, CurrentTwice DEF Agreed, OwnRead, OwnMutation

\* The page of an order, the window and the mutation that is awaited are about the same
\* order, and so are the reads of the page: the inductive invariant of the theorem below.
THEOREM AgreedAlways == Spec => []Agreed(w)
<1>1. Init => IInv /\ Careful(w) /\ Agreed(w) BY SoundInit, CarefulInit, AgreedInit
<1>2. IInv /\ Careful(w) /\ Agreed(w) /\ [Next]_vars => IInv' /\ Careful(w)' /\ Agreed(w)'
  BY IInvStep, CarefulStep, AgreedStep
<1> QED BY <1>1, <1>2, PTL DEF Spec

\* An order that ChargePage shows as under way, and that a button of it can act on, is
\* the one MainWindow takes the user back to, in the same state: through the answers of
\* the page's reads, of the window's own and of the mutations, in every order of them.
THEOREM AuthorityFollows == Spec => []AuthorityFollowsPage
<1>1. ASSUME IInv, Agreed(w) PROVE AuthorityFollowsPage
  <2> SUFFICES ASSUME charge.buttons \cap Mutation # {}, isActive(charge.order)
               PROVE  main.authority = charge.order
    BY DEF AuthorityFollowsPage
  <2>1. w.charge = charge /\ w.main = main /\ Rendered(w)
    BY <1>1, ShellOf DEF IInv, Sound, Whole
  <2>2. charge.active
    <3>1. ~charge.active => Usable(w) = {} BY <2>1 DEF Usable
    <3> QED BY <2>1, <3>1 DEF Rendered, Mutation
  <2> QED BY <1>1, <2>1, <2>2 DEF Agreed, Current
<1> QED BY <1>1, Invariant, AgreedAlways, PTL
=============================================================================
