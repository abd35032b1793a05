--------------------------- MODULE MainWindowProofs ---------------------------
(***************************************************************************)
(* What the window promises, for any chargers and any number of orders:    *)
(* every handler of ChargeFlow and of MainWindow, by the lemmas of         *)
(* ShellProofs, then every action.                                         *)
(***************************************************************************)
EXTENDS ShellProofs, WellFoundedInduction

Whole(v) ==
  /\ v \in Shell /\ Known(v) /\ Told(v) /\ Listed(v)
  /\ Reported(v) /\ Rendered(v) /\ Withdrawn(v)

\* A read that is sent waits for the mutations sent before.
Sent(v, u) ==
  \A s \in Slots(u) : \/ s \in Slots(v) /\ u.api.reads[s] = v.api.reads[s]
                      \/ u.api.reads[s] = Len(v.api.ops)

\* An order that is read changes what the pages and the window know of it, and not
\* which page is shown.
Holds(v, u) ==
  /\ u \in Shell /\ Known(u) /\ Told(u)
  /\ u.api.up = v.api.up /\ u.api.user = v.api.user /\ u.api.ops = v.api.ops
  /\ u.history.active = v.history.active
  /\ u.charge.active = v.charge.active
  /\ u.charge.mutation = None <=> v.charge.mutation = None
  /\ v.charge.mutation # None => u.charge.mutation.fits = v.charge.mutation.fits
  /\ u.main.page = v.main.page /\ u.main.guard = v.main.guard
  /\ u.main.navShown = v.main.navShown
  /\ v.main.remembered = None => u.main.remembered = None
  /\ v.charge.selection = None => u.charge.selection = None
  /\ \A s \in {"guard", "login"} : s \in Slots(u) <=> s \in Slots(v)
  /\ Sent(v, u)
  /\ Listed(v) => Listed(u)
  /\ Reported(v) => Reported(u)
  /\ Reported(v) /\ Withdrawn(v) => Withdrawn(u)
  /\ Rendered(v) => Rendered(u)

\* The read after a new connection is as it was.
Apace(v, u) ==
  /\ u.main.reconnect = v.main.reconnect /\ u.main.required = v.main.required
  /\ u.main.queued = v.main.queued
  /\ "reconnect" \in Slots(u) <=> "reconnect" \in Slots(v)

LEMMA HoldsTrans ==
  ASSUME NEW a, NEW b, NEW c, Holds(a, b), Holds(b, c) PROVE Holds(a, c)
BY DEF Holds, Sent

LEMMA ApaceTrans ==
  ASSUME NEW a, NEW b, NEW c, Apace(a, b), Apace(b, c) PROVE Apace(a, c)
BY DEF Apace

LEMMA KeepsHolds ==
  ASSUME NEW v, NEW u, Keeps(v, u) PROVE Holds(v, u) /\ Apace(v, u)
BY ReportedHeard DEF Keeps, Within, Frame, Holds, Apace, Sent

LEMMA HoldsSelf ==
  ASSUME NEW v \in Shell, Known(v), Told(v) PROVE Holds(v, v) /\ Apace(v, v)
BY DEF Holds, Apace, Sent

LEMMA HoldsWhole ==
  ASSUME NEW v, NEW u, Holds(v, u), Whole(v) PROVE Whole(u)
BY DEF Holds, Whole

-----------------------------------------------------------------------------
(* The window alone, and the history alone.                                *)

LEMMA MainSet ==
  ASSUME NEW v \in Shell, NEW m \in MainState,
         m.blocked = v.main.blocked, m.deferred = v.main.deferred,
         m.remembered \in {None, v.main.remembered}
  PROVE  LET u == [v EXCEPT !.main = m] IN
         /\ u \in Shell /\ u.main = m /\ u.api = v.api /\ u.charge = v.charge
         /\ u.nearby = v.nearby /\ u.history = v.history
         /\ Known(v) => Known(u)
         /\ Told(v) => Told(u)
         /\ Listed(v) => Listed(u)
         /\ Reported(v) => Reported(u)
         /\ Rendered(v) => Rendered(u)
         /\ Withdrawn(v) => Withdrawn(u)
<1> DEFINE u == [v EXCEPT !.main = m]
<1>1. /\ u \in Shell /\ u.main = m /\ u.api = v.api /\ u.charge = v.charge
      /\ u.nearby = v.nearby /\ u.history = v.history
  BY DEF Shell
<1> HIDE DEF u
<1>2. /\ Known(v) => Known(u)
      /\ Told(v) => Told(u)
      /\ Listed(v) => Listed(u)
  BY <1>1 DEF Known, Told, Listed, Slots
<1>3. /\ Reported(v) => Reported(u)
      /\ Rendered(v) => Rendered(u)
      /\ Withdrawn(v) => Withdrawn(u)
  BY <1>1 DEF Reported, Rendered, Usable, Withdrawn
<1> QED BY <1>1, <1>2, <1>3 DEF u

LEMMA MainHolds ==
  ASSUME NEW v \in Shell, Known(v), Told(v), NEW m \in MainState,
         m.blocked = v.main.blocked, m.deferred = v.main.deferred,
         m.remembered \in {None, v.main.remembered},
         m.page = v.main.page, m.guard = v.main.guard, m.navShown = v.main.navShown
  PROVE  Holds(v, [v EXCEPT !.main = m])
<1> DEFINE u == [v EXCEPT !.main = m]
<1>1. /\ u \in Shell /\ u.main = m /\ u.api = v.api /\ u.charge = v.charge
      /\ u.nearby = v.nearby /\ u.history = v.history
      /\ Known(u) /\ Told(u)
      /\ Listed(v) => Listed(u)
      /\ Reported(v) => Reported(u)
      /\ Rendered(v) => Rendered(u)
      /\ Withdrawn(v) => Withdrawn(u)
  BY MainSet
<1> HIDE DEF u
<1> QED BY <1>1 DEF Holds, Slots, Sent, u

LEMMA HistoryStep ==
  ASSUME NEW v \in Shell, Known(v), Told(v), NEW u \in Shell,
         u.charge = v.charge, u.nearby = v.nearby, u.main = v.main,
         u.api.up = v.api.up, u.api.user = v.api.user, u.api.ops = v.api.ops,
         \A s \in Read \ {"history"} : s \in Slots(u) <=> s \in Slots(v), Sent(v, u),
         u.history.pending # None <=> "history" \in Slots(u)
  PROVE  /\ Known(u) /\ Told(u)
         /\ Listed(v) => Listed(u)
         /\ Reported(v) => Reported(u)
         /\ Rendered(v) => Rendered(u)
         /\ Withdrawn(v) => Withdrawn(u)
         /\ u.history.active = v.history.active => Holds(v, u)
         /\ Apace(v, u)
<1>1. Known(u) /\ Told(u) /\ (Listed(v) => Listed(u))
  BY DEF Known, Told, Listed, Read, CurrentRead
<1>2. /\ Reported(v) => Reported(u)
      /\ Rendered(v) => Rendered(u)
      /\ Withdrawn(v) => Withdrawn(u)
  BY DEF Reported, Rendered, Usable, Withdrawn
<1>3. Apace(v, u) BY DEF Apace, Read, CurrentRead
<1>4. u.history.active = v.history.active => Holds(v, u)
  BY <1>1, <1>2 DEF Holds, Read, CurrentRead
<1> QED BY <1>1, <1>2, <1>3, <1>4

LEMMA HistorySlot == None \in Maybe(0..LastPage) /\ \A i \in 0..LastPage : i # None
BY BoundAssumption, NoneAssumption DEF Maybe, NoneAssumption, BoundAssumption

LEMMA RequestPage ==
  ASSUME NEW v \in Shell, Known(v), Told(v), NEW i \in 0..LastPage
  PROVE  LET u == requestPage(v, i) IN
         /\ Holds(v, u) /\ Apace(v, u) /\ u.charge = v.charge /\ u.nearby = v.nearby
         /\ u.main = v.main
<1> DEFINE x == send(v, "history")
           h == [v.history EXCEPT !.pending = i]
           u == [x EXCEPT !.history = h]
<1>1. CASE ~v.history.active \/ ~v.api.up
  BY <1>1, HoldsSelf DEF requestPage
<1>2. CASE v.history.active /\ v.api.up
  <2>1. /\ x \in Shell
        /\ x.charge = v.charge /\ x.nearby = v.nearby /\ x.history = v.history
        /\ x.main = v.main /\ x.api.up = v.api.up /\ x.api.user = v.api.user
        /\ x.api.ops = v.api.ops /\ Slots(x) = Slots(v) \cup {"history"}
        /\ x.api.reads["history"] = Len(v.api.ops)
        /\ \A s \in Slots(v) \ {"history"} : x.api.reads[s] = v.api.reads[s]
    BY SendRead DEF Read
  <2>2. v.history \in HistoryState BY Parts
  <2>3. h \in HistoryState /\ h.pending = i /\ h.active = v.history.active
    BY <2>2 DEF HistoryState, Maybe
  <2> HIDE DEF x
  <2>4. requestPage(v, i) = u
    <3>1. [x EXCEPT !.history.pending = i] = u BY <2>1 DEF Shell
    <3> HIDE DEF u
    <3> QED BY <1>2, <3>1 DEF requestPage, x
  <2> HIDE DEF h
  <2>5. /\ u \in Shell /\ u.api = x.api /\ u.charge = v.charge /\ u.nearby = v.nearby
        /\ u.main = v.main /\ u.history = h
    BY <2>1, <2>3 DEF Shell
  <2> HIDE DEF u
  <2>6. Slots(u) = Slots(v) \cup {"history"} BY <2>1, <2>5 DEF Slots
  <2>7. Holds(v, u) /\ Apace(v, u)
    <3>1. \A s \in Read \ {"history"} : s \in Slots(u) <=> s \in Slots(v) BY <2>6
    <3>2. u.history.pending # None <=> "history" \in Slots(u)
      BY <2>3, <2>5, <2>6, HistorySlot
    <3>3. Sent(v, u) BY <2>1, <2>5, <2>6 DEF Sent
    <3> QED BY <2>1, <2>3, <2>5, <3>1, <3>2, <3>3, HistoryStep
  <2> QED BY <2>4, <2>5, <2>7
<1> QED BY <1>1, <1>2

LEMMA RefreshHistory ==
  ASSUME NEW v \in Shell, Known(v), Told(v)
  PROVE  LET u == refreshHistory(v) IN
         /\ Holds(v, u) /\ Apace(v, u) /\ u.charge = v.charge /\ u.nearby = v.nearby
         /\ u.main = v.main
<1> DEFINE i == IF v.history.committed = None THEN 0 ELSE v.history.committed.index
<1>1. i \in 0..LastPage
  BY Parts, BoundAssumption DEF HistoryState, Maybe, OrderPage, BoundAssumption
<1>2. refreshHistory(v) = requestPage(v, i) BY DEF refreshHistory
<1> HIDE DEF i
<1> QED BY <1>1, <1>2, RequestPage

LEMMA HistoryOver ==
  ASSUME NEW v \in Shell, Known(v), Told(v), NEW h \in HistoryState, h.pending = None
  PROVE  LET u == [cancelSafeReads(v, {"history"}) EXCEPT !.history = h] IN
         /\ u \in Shell /\ u.charge = v.charge /\ u.nearby = v.nearby /\ u.main = v.main
         /\ u.history = h /\ Slots(u) = Slots(v) \ {"history"}
         /\ u.api.up = v.api.up /\ u.api.user = v.api.user /\ u.api.ops = v.api.ops
         /\ Known(u) /\ Told(u)
         /\ Listed(v) => Listed(u)
         /\ Reported(v) => Reported(u)
         /\ Rendered(v) => Rendered(u)
         /\ Withdrawn(v) => Withdrawn(u)
         /\ h.active = v.history.active => Holds(v, u)
         /\ Apace(v, u) /\ Sent(v, u)
<1> DEFINE x == cancelSafeReads(v, {"history"})
           u == [x EXCEPT !.history = h]
<1>1. /\ x \in Shell
      /\ x.charge = v.charge /\ x.nearby = v.nearby /\ x.history = v.history
      /\ x.main = v.main /\ x.api.up = v.api.up /\ x.api.user = v.api.user
      /\ x.api.ops = v.api.ops /\ Slots(x) = Slots(v) \ {"history"}
      /\ \A s \in Slots(x) : x.api.reads[s] = v.api.reads[s]
  BY CancelReads
<1> HIDE DEF x
<1>2. /\ u \in Shell /\ u.api = x.api /\ u.charge = v.charge /\ u.nearby = v.nearby
      /\ u.main = v.main /\ u.history = h
  BY <1>1 DEF Shell
<1> HIDE DEF u
<1>3. Slots(u) = Slots(v) \ {"history"} BY <1>1, <1>2 DEF Slots
<1>4. /\ Known(u) /\ Told(u)
      /\ Listed(v) => Listed(u)
      /\ Reported(v) => Reported(u)
      /\ Rendered(v) => Rendered(u)
      /\ Withdrawn(v) => Withdrawn(u)
      /\ h.active = v.history.active => Holds(v, u)
      /\ Apace(v, u) /\ Sent(v, u)
  <2>1. \A s \in Read \ {"history"} : s \in Slots(u) <=> s \in Slots(v) BY <1>3
  <2>2. u.history.pending # None <=> "history" \in Slots(u) BY <1>2, <1>3
  <2>3. Sent(v, u) BY <1>1, <1>2, <1>3 DEF Sent, Slots
  <2> QED BY <1>1, <1>2, <2>1, <2>2, <2>3, HistoryStep
<1> QED BY <1>1, <1>2, <1>3, <1>4 DEF u, x

\* The history is left, is entered, is answered, fails, and loses its connection.
LEMMA DeactivateHistory ==
  ASSUME NEW v \in Shell, Known(v), Told(v)
  PROVE  \E h \in HistoryState :
           /\ h.pending = None /\ ~h.active
           /\ deactivateHistory(v) = [cancelSafeReads(v, {"history"}) EXCEPT !.history = h]
<1> DEFINE h == [v.history EXCEPT !.active = FALSE, !.pending = None]
           x == [v EXCEPT !.history.active = FALSE]
           y == cancelSafeReads(x, {"history"})
           z == cancelSafeReads(v, {"history"})
<1>0. v.history \in HistoryState /\ v.api = v.api BY Parts
<1>1. h \in HistoryState /\ h.pending = None /\ ~h.active
  BY <1>0, HistorySlot DEF HistoryState
<1>2. deactivateHistory(v) = [y EXCEPT !.history.pending = None]
  BY DEF deactivateHistory, cancelHistoryRead
<1>3. [y EXCEPT !.history.pending = None] = [z EXCEPT !.history = h]
  BY <1>0 DEF cancelSafeReads, Shell, HistoryState
<1> HIDE DEF h, x, y, z
<1> QED BY <1>1, <1>2, <1>3 DEF z

LEMMA CancelHistoryRead ==
  ASSUME NEW v \in Shell, Known(v), Told(v)
  PROVE  LET u == cancelHistoryRead(v) IN
         Holds(v, u) /\ Apace(v, u) /\ u.charge = v.charge /\ u.main = v.main
<1> DEFINE h == [v.history EXCEPT !.pending = None]
           x == cancelSafeReads(v, {"history"})
           u == [x EXCEPT !.history = h]
<1>0. v.history \in HistoryState BY Parts
<1>1. h \in HistoryState /\ h.pending = None /\ h.active = v.history.active
  BY <1>0, HistorySlot DEF HistoryState
<1>2. x.history = v.history BY CancelReads
<1>3. cancelHistoryRead(v) = u
  <2> HIDE DEF x
  <2>1. [x EXCEPT !.history.pending = None] = u BY <1>2
  <2> HIDE DEF u
  <2> QED BY <2>1 DEF cancelHistoryRead, x
<1> HIDE DEF h
<1> QED BY <1>1, <1>3, HistoryOver

LEMMA HistoryConnection ==
  ASSUME NEW v \in Shell, Known(v), Told(v)
  PROVE  LET u == HistoryConnectionChanged(v) IN
         Holds(v, u) /\ Apace(v, u) /\ u.charge = v.charge /\ u.main = v.main
BY CancelHistoryRead, HoldsSelf DEF HistoryConnectionChanged

LEMMA HistoryAnswered ==
  ASSUME NEW v \in Shell, Known(v), Told(v), "history" \in Slots(v), NEW more \in BOOLEAN,
         more => v.history.pending < LastPage
  PROVE  LET x == cancelSafeReads(v, {"history"}) IN
         /\ Holds(v, orderHistoryLoaded(x, more)) /\ Apace(v, orderHistoryLoaded(x, more))
         /\ Holds(v, orderHistoryFailed(x)) /\ Apace(v, orderHistoryFailed(x))
<1> DEFINE i == v.history.pending
           p == [index |-> i, more |-> more]
           g == [v.history EXCEPT !.pending = None]
           h == [v.history EXCEPT !.pending = None, !.committed = p]
           x == cancelSafeReads(v, {"history"})
<1>0. v.history \in HistoryState /\ x.history = v.history BY Parts, CancelReads
<1>1. i \in 0..LastPage BY <1>0 DEF Known, HistoryState, Maybe
<1>2. p \in OrderPage BY <1>1 DEF OrderPage
<1>3. orderHistoryLoaded(x, more) = [x EXCEPT !.history = h]
  <2> HIDE DEF x
  <2>1. [x EXCEPT !.history.pending = None,
                  !.history.committed = [index |-> x.history.pending, more |-> more]]
          = [x EXCEPT !.history = h]
    BY <1>0
  <2> HIDE DEF h
  <2> QED BY <2>1 DEF orderHistoryLoaded
<1>4. orderHistoryFailed(x) = [x EXCEPT !.history = g]
  <2> HIDE DEF x
  <2>1. [x EXCEPT !.history.pending = None] = [x EXCEPT !.history = g] BY <1>0
  <2> HIDE DEF g
  <2> QED BY <2>1 DEF orderHistoryFailed
<1> HIDE DEF p
<1>5. h \in HistoryState /\ h.pending = None /\ h.active = v.history.active
  BY <1>0, <1>2, HistorySlot DEF HistoryState, Maybe
<1>6. g \in HistoryState /\ g.pending = None /\ g.active = v.history.active
  BY <1>0, HistorySlot DEF HistoryState
<1> HIDE DEF g, h
<1>7. Holds(v, [x EXCEPT !.history = h]) /\ Apace(v, [x EXCEPT !.history = h])
  BY <1>5, HistoryOver
<1>8. Holds(v, [x EXCEPT !.history = g]) /\ Apace(v, [x EXCEPT !.history = g])
  BY <1>6, HistoryOver
<1> HIDE DEF x
<1> QED BY <1>3, <1>4, <1>7, <1>8 DEF x

-----------------------------------------------------------------------------
(* The order that is current for the window.                               *)

LEMMA Stamps == \A s \in {"none", "same", "moved"} : moved(s) \in {"none", "same", "moved"}
BY DEF moved

LEMMA Adopt ==
  ASSUME NEW v \in Shell, Known(v), Told(v), NEW order \in Order
  PROVE  LET u == adoptActiveOrder(v, order) IN
         /\ Holds(v, u) /\ Apace(v, u) /\ u.charge = v.charge /\ u.api = v.api
         /\ u.nearby = v.nearby /\ u.history = v.history
<1> DEFINE s == moved(v.main.stamp)
           p == IF matching(v.main.remembered, order) THEN v.main.remembered ELSE None
           m == [v.main EXCEPT !.authority = order, !.stamp = s, !.remembered = p]
           u == [v EXCEPT !.main = m]
<1>1. v.main \in MainState BY Parts
<1>2. s \in {"none", "same", "moved"} BY <1>1, Stamps DEF MainState
<1>3. p \in {None, v.main.remembered} /\ p \in Maybe(Selection)
  BY <1>1, NoneFits DEF MainState
<1>4. adoptActiveOrder(v, order) = u
  <2>1. [v EXCEPT !.main.authority = order, !.main.stamp = moved(@),
                  !.main.remembered = IF matching(@, order) THEN @ ELSE None] = u
    BY <1>1 DEF Shell, MainState
  <2> HIDE DEF u
  <2> QED BY <2>1 DEF adoptActiveOrder
<1> HIDE DEF s, p
<1>5. m \in MainState BY <1>1, <1>2, <1>3 DEF MainState, Maybe
<1>6. /\ m.blocked = v.main.blocked /\ m.deferred = v.main.deferred
      /\ m.remembered \in {None, v.main.remembered}
      /\ m.page = v.main.page /\ m.guard = v.main.guard /\ m.navShown = v.main.navShown
      /\ m.reconnect = v.main.reconnect /\ m.required = v.main.required
      /\ m.queued = v.main.queued
  BY <1>1, <1>3 DEF MainState
<1> HIDE DEF m
<1>7. Holds(v, u) BY <1>5, <1>6, MainHolds
<1>8. u.main = m /\ u.charge = v.charge /\ u.api = v.api /\ u.nearby = v.nearby
      /\ u.history = v.history
  BY <1>5 DEF Shell
<1> HIDE DEF u
<1>9. Apace(v, u) BY <1>6, <1>8 DEF Apace, Slots
<1> QED BY <1>4, <1>7, <1>8, <1>9

LEMMA Clear ==
  ASSUME NEW v \in Shell, Known(v), Told(v), NEW owner, NEW force
  PROVE  LET u == clearActiveOrder(v, owner, force) IN
         /\ Holds(v, u) /\ Apace(v, u) /\ u.charge = v.charge /\ u.api = v.api
         /\ u.nearby = v.nearby /\ u.history = v.history
<1> DEFINE s == IF force \/ v.main.authority # None THEN moved(v.main.stamp) ELSE v.main.stamp
           m == [v.main EXCEPT !.authority = None, !.stamp = s]
           u == [v EXCEPT !.main = m]
<1>1. v.main \in MainState BY Parts
<1>2. s \in {"none", "same", "moved"} BY <1>1, Stamps DEF MainState
<1>4. clearActiveOrder(v, owner, force) \in {u, v}
  <2>1. [v EXCEPT !.main.authority = None,
                  !.main.stamp = IF force \/ v.main.authority # None THEN moved(@) ELSE @] = u
    BY <1>1 DEF Shell, MainState
  <2> HIDE DEF u
  <2> QED BY <2>1 DEF clearActiveOrder
<1> HIDE DEF s
<1>5. m \in MainState BY <1>1, <1>2, NoneFits DEF MainState
<1>6. /\ m.blocked = v.main.blocked /\ m.deferred = v.main.deferred
      /\ m.remembered = v.main.remembered
      /\ m.page = v.main.page /\ m.guard = v.main.guard /\ m.navShown = v.main.navShown
      /\ m.reconnect = v.main.reconnect /\ m.required = v.main.required
      /\ m.queued = v.main.queued
  BY <1>1 DEF MainState
<1> HIDE DEF m
<1>7. Holds(v, u) BY <1>5, <1>6, MainHolds
<1>8. u.main = m /\ u.charge = v.charge /\ u.api = v.api /\ u.nearby = v.nearby
      /\ u.history = v.history
  BY <1>5 DEF Shell
<1> HIDE DEF u
<1>9. Apace(v, u) BY <1>6, <1>8 DEF Apace, Slots
<1> QED BY <1>4, <1>7, <1>8, <1>9, HoldsSelf

LEMMA ReconnectStationsCharge ==
  ASSUME NEW v \in Shell, Known(v), Told(v)
  PROVE  /\ requestReconnectStations(v).charge = v.charge
         /\ requestReconnectStations(v).main = v.main
<1> DEFINE x == cancelPendingStationList(v)
           y == nextSearch(x)
           l == [kind |-> "reconnect", fresh |-> TRUE, fits |-> TRUE]
           n == [y.nearby EXCEPT !.list = l]
           z == [y EXCEPT !.nearby = n]
<1>1. x \in Shell /\ Known(x) /\ Told(x) /\ x.charge = v.charge /\ x.main = v.main
  BY GiveUpList DEF Moves
<1> HIDE DEF x
<1>2. y \in Shell /\ y.charge = v.charge /\ y.main = v.main
  BY <1>1, NextSearch DEF Moves
<1> HIDE DEF y
<1>3. y.nearby \in NearbyState /\ l \in StationList BY <1>2, Parts DEF StationList
<1> HIDE DEF l
<1>4. n \in NearbyState BY <1>3 DEF NearbyState, Maybe
<1>5. [y EXCEPT !.nearby.list = l] = z OBVIOUS
<1> HIDE DEF n
<1>6. z \in Shell /\ z.charge = v.charge /\ z.main = v.main BY <1>2, <1>4 DEF Shell
<1> HIDE DEF z
<1>7. send(z, "list").charge = v.charge /\ send(z, "list").main = v.main
  BY <1>6, SendRead DEF Read
<1>8. requestReconnectStations(v) \in {v, send(z, "list")}
  BY <1>5 DEF requestReconnectStations, x, y, l
<1> QED BY <1>7, <1>8

\* The window has read the order after a new connection.
LEMMA Resolve ==
  ASSUME NEW v \in Shell, Known(v), Told(v)
  PROVE  LET u == resolveReconnectCurrent(v) IN
         /\ Holds(v, u) /\ u.charge = v.charge
         /\ u.main.reconnect = v.main.reconnect /\ ~u.main.required
         /\ u.main.authority = v.main.authority /\ u.main.stamp = v.main.stamp
         /\ "reconnect" \in Slots(u) <=> "reconnect" \in Slots(v)
<1> DEFINE q == IF v.main.queued /\ v.api.up THEN FALSE ELSE v.main.queued
           m == [v.main EXCEPT !.required = FALSE, !.queued = q]
           x == [v EXCEPT !.main = m]
           y == IF v.nearby.foreground THEN x ELSE requestReconnectStations(x)
           u == resolveReconnectCurrent(v)
<1>1. v.main \in MainState BY Parts
<1>2. m \in MainState BY <1>1 DEF MainState
<1>3. /\ m.blocked = v.main.blocked /\ m.deferred = v.main.deferred
      /\ m.remembered = v.main.remembered
      /\ m.page = v.main.page /\ m.guard = v.main.guard /\ m.navShown = v.main.navShown
      /\ m.reconnect = v.main.reconnect /\ ~m.required
      /\ m.authority = v.main.authority /\ m.stamp = v.main.stamp
  BY <1>1 DEF MainState
<1>4. u = IF v.main.queued /\ v.api.up THEN refreshHistory(y) ELSE x
  <2> DEFINE a == [v EXCEPT !.main.required = FALSE, !.main.queued = FALSE]
             b == [a EXCEPT !.main.queued = v.main.queued]
  <2>1. CASE v.main.queued /\ v.api.up
    <3>1. a = x BY <1>1, <2>1 DEF Shell, MainState
    <3> HIDE DEF x
    <3> QED BY <2>1, <3>1 DEF resolveReconnectCurrent
  <2>2. CASE ~(v.main.queued /\ v.api.up)
    <3>1. b = x BY <1>1, <2>2 DEF Shell, MainState
    <3> HIDE DEF x
    <3> QED BY <2>2, <3>1 DEF resolveReconnectCurrent
  <2> QED BY <2>1, <2>2
<1> HIDE DEF m
<1>5. Holds(v, x) BY <1>2, <1>3, MainHolds
<1>6. x.main = m /\ x.charge = v.charge /\ x.api = v.api /\ x.nearby = v.nearby
  BY <1>2 DEF Shell
<1> HIDE DEF x, u
<1>7. x \in Shell /\ Known(x) /\ Told(x) BY <1>5 DEF Holds
<1>8. Holds(x, y) /\ Apace(x, y) /\ y.charge = x.charge /\ y.main = x.main
  BY <1>7, HoldsSelf, ReconnectStations, ReconnectStationsCharge, KeepsHolds
<1> HIDE DEF y
<1>9. Holds(y, refreshHistory(y)) /\ Apace(y, refreshHistory(y))
      /\ refreshHistory(y).charge = y.charge /\ refreshHistory(y).main = y.main
  BY <1>8, RefreshHistory DEF Holds
<1>10. Holds(v, u) BY <1>4, <1>5, <1>8, <1>9, HoldsTrans
<1>11. "reconnect" \in Slots(u) <=> "reconnect" \in Slots(v)
  BY <1>4, <1>6, <1>8, <1>9 DEF Apace, Slots
<1>12. u.charge = v.charge /\ u.main = m BY <1>4, <1>6, <1>8, <1>9
<1> QED BY <1>3, <1>10, <1>11, <1>12 DEF u

\* What a read of the current order leaves of the window's read after a connection.
Resolves(v, slot, u) ==
  IF slot = "reconnect" /\ v.main.reconnect # None
  THEN /\ u.main.reconnect = None /\ ~u.main.required
       /\ "reconnect" \in Slots(u) <=> "reconnect" \in Slots(v)
  ELSE Apace(v, u)

LEMMA Learnt ==
  ASSUME NEW v \in Shell, Known(v), Told(v), NEW order \in Maybe(Order),
         NEW guard \in BOOLEAN, NEW owned \in BOOLEAN, NEW owner
  PROVE  LET u == observed(v, order, guard, owned, owner) IN
         Holds(v, u) /\ Apace(v, u) /\ u.charge = v.charge /\ u.api = v.api
<1>1. CASE order # None
  <2>1. order \in Order BY <1>1 DEF Maybe
  <2>2. observed(v, order, guard, owned, owner) = adoptActiveOrder(v, order)
    BY <1>1 DEF observed
  <2> QED BY <2>1, <2>2, Adopt
<1>2. CASE order = None /\ guard
  BY <1>2, Clear DEF observed
<1>3. CASE order = None /\ ~guard /\ owned
  BY <1>3, Clear DEF observed
<1>4. CASE order = None /\ ~guard /\ ~owned
  BY <1>4, HoldsSelf DEF observed
<1> QED BY <1>1, <1>2, <1>3, <1>4

LEMMA Observed ==
  ASSUME NEW v \in Shell, Known(v), Told(v), NEW slot, NEW order \in Maybe(Order),
         NEW pageOwned \in BOOLEAN, NEW owner
  PROVE  LET u == currentAuthorityObserved(v, slot, order, pageOwned, owner) IN
         Holds(v, u) /\ Resolves(v, slot, u) /\ u.charge = v.charge
<1> DEFINE u == currentAuthorityObserved(v, slot, order, pageOwned, owner)
<1>1. CASE slot = "reconnect" /\ v.main.reconnect # None
  <2> DEFINE m == [v.main EXCEPT !.reconnect = None]
             x == [v EXCEPT !.main = m]
             y == observed(x, order, FALSE, TRUE, v.main.reconnect.owner)
  <2>1. v.main \in MainState BY Parts
  <2>2. /\ m \in MainState /\ m.blocked = v.main.blocked /\ m.deferred = v.main.deferred
        /\ m.remembered = v.main.remembered
        /\ m.page = v.main.page /\ m.guard = v.main.guard /\ m.navShown = v.main.navShown
        /\ m.reconnect = None
    BY <2>1, NoneFits DEF MainState
  <2>3. u = resolveReconnectCurrent(y)
    <3>1. [v EXCEPT !.main.reconnect = None] = x OBVIOUS
    <3> HIDE DEF x
    <3> QED BY <1>1, <3>1 DEF currentAuthorityObserved
  <2> HIDE DEF m, u
  <2>4. Holds(v, x) BY <2>2, MainHolds
  <2>5. x.main = m /\ x.charge = v.charge /\ x.api = v.api BY <2>2 DEF Shell
  <2> HIDE DEF x
  <2>6. Holds(x, y) /\ Apace(x, y) /\ y.charge = x.charge /\ y.api = x.api
    <3>1. x \in Shell /\ Known(x) /\ Told(x) BY <2>4 DEF Holds
    <3>2. FALSE \in BOOLEAN /\ TRUE \in BOOLEAN OBVIOUS
    <3> QED BY <3>1, <3>2, Learnt, Zenon
  <2> HIDE DEF y
  <2>7. /\ Holds(y, u) /\ u.charge = y.charge
        /\ u.main.reconnect = y.main.reconnect /\ ~u.main.required
        /\ "reconnect" \in Slots(u) <=> "reconnect" \in Slots(y)
    BY <2>3, <2>6, Resolve DEF Holds
  <2>8. Holds(v, u) BY <2>4, <2>6, <2>7, HoldsTrans
  <2>9. Slots(y) = Slots(v) BY <2>5, <2>6 DEF Slots
  <2>10. u.main.reconnect = None BY <2>2, <2>5, <2>6, <2>7 DEF Apace
  <2> QED BY <1>1, <2>5, <2>6, <2>7, <2>8, <2>9, <2>10 DEF Resolves, u
<1>2. CASE ~(slot = "reconnect" /\ v.main.reconnect # None)
  <2> DEFINE g == slot = "guard" /\ v.main.guard
  <2>1. g \in BOOLEAN OBVIOUS
  <2>2. u = observed(v, order, g, pageOwned, owner) BY <1>2 DEF currentAuthorityObserved
  <2> HIDE DEF g, u
  <2>3. Holds(v, u) /\ Apace(v, u) /\ u.charge = v.charge BY <2>1, <2>2, Learnt
  <2> QED BY <1>2, <2>3 DEF Resolves, u
<1> QED BY <1>1, <1>2

-----------------------------------------------------------------------------
(* The facts of the station.                                               *)

LEMMA FreshAttempt ==
  ASSUME NEW v PROVE freshAttempt(v) \in 1..3
<1>1. \E i \in 1..3 : /\ i # v.charge.attempt
                      /\ v.nearby.refresh # None => i # v.nearby.refresh.attempt
  <2>1. 1 \in 1..3 /\ 2 \in 1..3 /\ 3 \in 1..3 /\ 1 # 2 /\ 1 # 3 /\ 2 # 3 OBVIOUS
  <2> QED BY <2>1
<1> QED BY <1>1 DEF freshAttempt

Asking(c, f, gate, e, k) ==
  [c EXCEPT !.facts = f, !.factsFailed = FALSE, !.gate = gate, !.exit = e, !.attempt = k]

LEMMA FactsSent ==
  ASSUME NEW v \in Shell, Known(v), Told(v), v.charge.active, v.charge.facts = None,
         v.charge.read = None, ~v.charge.exitFailed, NEW f \in Facts, f.fits, NEW gate \in BOOLEAN,
         NEW e \in BOOLEAN, e => v.charge.exit, NEW k \in 0..3
  PROVE  LET u == [send(v, "facts") EXCEPT !.charge = Asking(v.charge, f, gate, e, k)]
         IN  Moves(v, u) /\ u.charge = Asking(v.charge, f, gate, e, k)
<1> DEFINE x == send(v, "facts")
           c == Asking(v.charge, f, gate, e, k)
           u == [x EXCEPT !.charge = c]
<1>1. /\ x \in Shell
      /\ x.charge = v.charge /\ x.nearby = v.nearby /\ x.history = v.history
      /\ x.main = v.main /\ x.api.up = v.api.up /\ x.api.user = v.api.user
      /\ x.api.ops = v.api.ops /\ Slots(x) = Slots(v) \cup {"facts"}
      /\ x.api.reads["facts"] = Len(v.api.ops)
      /\ \A s \in Slots(v) \ {"facts"} : x.api.reads[s] = v.api.reads[s]
  BY SendRead DEF Read
<1> HIDE DEF x
<1>2. v.charge \in ChargeState /\ Paged(v.charge) BY Parts DEF Known
<1>3. f # None BY NoneAssumption DEF NoneAssumption
<1>4. c \in ChargeState BY <1>2 DEF Asking, ChargeState, Maybe
<1>5. /\ c.facts = f /\ c.read = None /\ c.selGen = v.charge.selGen /\ c.exit = e
      /\ c.active = v.charge.active /\ c.order = v.charge.order
      /\ c.mutation = v.charge.mutation /\ c.selection = v.charge.selection
      /\ c.reported = v.charge.reported /\ c.exitFailed = v.charge.exitFailed
  BY <1>2 DEF Asking, ChargeState
<1> HIDE DEF c
<1>6. /\ u \in Shell /\ u.charge = c /\ u.nearby = v.nearby /\ u.history = v.history
      /\ u.main = v.main /\ u.api = x.api
  BY <1>1, <1>4 DEF Shell
<1> HIDE DEF u
<1>7. Slots(u) = Slots(v) \cup {"facts"} BY <1>1, <1>6 DEF Slots
<1>8. Paged(c) BY <1>2, <1>5 DEF Paged
<1>9. Moves(v, u)
  <2>1. SameMain(u.main, v.main) BY <1>6 DEF SameMain
  <2>2. u.main.blocked = u.charge.reported BY <1>5, <1>6 DEF Told
  <2>3. Withdrawn(v) => Withdrawn(u) BY <1>5, <1>6 DEF Withdrawn
  <2>4. \A s \in Read \ {"page", "facts"} : s \in Slots(u) <=> s \in Slots(v) BY <1>7
  <2>5. \A s \in Slots(u) : \/ s \in Slots(v) /\ u.api.reads[s] = v.api.reads[s]
                            \/ u.api.reads[s] = Len(v.api.ops)
    BY <1>1, <1>6, <1>7
  <2>6. /\ u.charge.facts # None <=> "facts" \in Slots(u)
        /\ u.charge.read # None <=> "page" \in Slots(u)
    BY <1>3, <1>5, <1>6, <1>7 DEF Known
  <2>7. /\ u.charge.active = v.charge.active /\ u.charge.order = v.charge.order
        /\ u.charge.mutation = v.charge.mutation /\ u.nearby = v.nearby
        /\ u.charge.selection = v.charge.selection
        /\ u.history = v.history /\ u.api.up = v.api.up /\ u.api.user = v.api.user
        /\ u.api.ops = v.api.ops /\ u \in Shell /\ Paged(u.charge)
    BY <1>1, <1>5, <1>6, <1>8
  <2> QED BY <2>1, <2>2, <2>3, <2>4, <2>5, <2>6, <2>7, OrderStep
<1> QED BY <1>6, <1>9 DEF u, c, x

\* Whether the list of the stations is read with the facts.
Origin(c) == c.selection # None /\ (c.order = None \/ matching(c.selection, c.order))

LEMMA FactsAsked ==
  ASSUME NEW v \in Shell, Known(v), Told(v), NEW gate \in BOOLEAN, NEW commit \in BOOLEAN,
         v.charge.facts = None, v.charge.read = None, ~v.charge.exitFailed, v.charge.active,
         v.charge.order # None \/ v.charge.selection # None
  PROVE  LET c == v.charge
             u == requestFacts(v, gate, commit)
         IN  \E s \in Shell, a \in 0..3 :
               /\ Moves(v, s) /\ Origin(c) \in BOOLEAN /\ (commit <=> a # 0)
               /\ s.charge = Asking(c, s.charge.facts, gate, s.charge.exit, s.charge.attempt)
               /\ s.charge.exit = (c.exit /\ (commit => Origin(c)))
               /\ s.charge.attempt = IF ~commit THEN c.attempt ELSE IF Origin(c) THEN a ELSE 0
               /\ s.charge.facts # None /\ s.charge.gate = gate /\ ~s.charge.factsFailed
               /\ s.charge.order = c.order /\ s.charge.reported = c.reported
               /\ s.charge.mutation = c.mutation /\ s.charge.reconcile = c.reconcile
               /\ u = Shown(IF Origin(c) THEN refreshAfterCharge(s, a) ELSE s)
<1> DEFINE c == v.charge
           origin == Origin(c)
           id == freshAttempt(v)
           f == [charger |-> IF c.order # None THEN c.order.charger ELSE c.selection.charger,
                 fits |-> TRUE]
           e == c.exit /\ (commit => origin)
           k == IF ~commit THEN c.attempt ELSE IF origin THEN id ELSE 0
           d == Asking(v.charge, f, gate, e, k)
           x == send(v, "facts")
           s == [x EXCEPT !.charge = d]
           a == IF commit THEN id ELSE 0
           y == IF origin THEN refreshAfterCharge(s, a) ELSE s
           u == requestFacts(v, gate, commit)
<1>a. c \in ChargeState BY Parts
<1>1. u = Shown(y)
  <2>1. sendFacts(v, gate, commit, origin, id) = s
    <3>1. x \in Shell /\ x.charge = c BY SendRead DEF Read
    <3>2. [x EXCEPT !.charge.facts = f, !.charge.factsFailed = FALSE, !.charge.gate = gate,
                    !.charge.exit = @ /\ (commit => origin),
                    !.charge.attempt = IF ~commit THEN @ ELSE IF origin THEN id ELSE 0] = s
      <4> HIDE DEF x, f, id, origin
      <4> QED BY <1>a, <3>1 DEF Asking, Shell, ChargeState
    <3> HIDE DEF s
    <3> QED BY <3>2, Zenon DEF sendFacts
  <2> HIDE DEF s
  <2> QED BY <2>1 DEF requestFacts, Origin
<1>2. id \in 1..3 BY FreshAttempt
<1>3. f \in Facts /\ f.fits
  <2>1. f.charger \in Charger BY <1>a DEF ChargeState, Maybe, Order, Selection
  <2> QED BY <2>1 DEF Facts
<1>5. origin \in BOOLEAN BY DEF matching, Origin
<1>4. e \in BOOLEAN /\ (e => c.exit)
  <2> HIDE DEF origin
  <2> QED BY <1>a, <1>5 DEF ChargeState
<1> HIDE DEF id, f
<1>6. k \in 0..3 /\ a \in 0..3 /\ (commit <=> a # 0)
  <2>1. c.attempt \in 0..3 BY <1>a DEF ChargeState
  <2>2. id \in 0..3 /\ 0 \in 0..3 /\ id # 0 BY <1>2
  <2> HIDE DEF origin
  <2> QED BY <1>5, <2>1, <2>2
<1>7. /\ d.order = c.order /\ d.reported = c.reported /\ d.mutation = c.mutation
      /\ d.reconcile = c.reconcile /\ ~d.factsFailed /\ d.exit = e /\ d.facts = f
      /\ d.gate = gate /\ d.attempt = k
  BY <1>a DEF Asking, ChargeState
<1> HIDE DEF origin, e, a
<1>8. Moves(v, s) /\ s.charge = d
  <2> HIDE DEF c, k
  <2> QED BY <1>3, <1>4, <1>6, FactsSent, Zenon DEF c
<1>9. f # None BY <1>3, NoneAssumption DEF NoneAssumption
<1>11. /\ s.charge = Asking(c, s.charge.facts, gate, s.charge.exit, s.charge.attempt)
       /\ s.charge.exit = e /\ s.charge.attempt = k /\ s.charge.facts # None
       /\ s.charge.gate = gate /\ ~s.charge.factsFailed
       /\ s.charge.order = c.order /\ s.charge.reported = c.reported
       /\ s.charge.mutation = c.mutation /\ s.charge.reconcile = c.reconcile
  <2>1. d = Asking(c, d.facts, gate, d.exit, d.attempt) BY <1>7
  <2> HIDE DEF c, k, d, s
  <2> QED BY <1>7, <1>8, <1>9, <2>1
<1> HIDE DEF d, s, u
<1>12. s \in Shell BY <1>8 DEF Moves
<1>13. k = IF ~commit THEN c.attempt ELSE IF origin THEN a ELSE 0 BY DEF a
<1> HIDE DEF k, c
<1>14. /\ Moves(v, s) /\ origin \in BOOLEAN /\ (commit <=> a # 0)
       /\ s.charge.exit = (c.exit /\ (commit => origin))
       /\ s.charge.attempt = IF ~commit THEN c.attempt ELSE IF origin THEN a ELSE 0
  BY <1>5, <1>6, <1>8, <1>11, <1>13 DEF e
<1>15. u = Shown(IF origin THEN refreshAfterCharge(s, a) ELSE s) BY <1>1
<1> HIDE DEF y
<1> QED BY <1>6, <1>11, <1>12, <1>14, <1>15 DEF u, c, origin

\* The facts are asked for by a page that was told of its block, if the list of
\* the stations is read with them.
LEMMA RequestFacts ==
  ASSUME NEW v \in Shell, Known(v), Told(v), NEW gate \in BOOLEAN, NEW commit \in BOOLEAN,
         v.charge.facts = None, v.charge.read = None, ~v.charge.exitFailed,
         v.charge.order # None \/ gate,
         v.charge.selection # None =>
           Heard(v) /\ (gate => v.charge.reconcile)
  PROVE  LET u == requestFacts(v, gate, commit) IN
         /\ Moves(v, u)
         /\ Reported(v) => Reported(u)
         /\ Heard(v) => Heard(u)
         /\ Rendered(v) => Rendered(u)
         /\ v.charge.active /\ v.charge.order # None => Reported(u) /\ Rendered(u)
<1> DEFINE c == v.charge
           u == requestFacts(v, gate, commit)
<1>1. ASSUME ~c.active \/ (c.order = None /\ c.selection = None)
      PROVE  /\ u = v
             /\ ~(c.active /\ c.order # None)
  BY <1>1 DEF requestFacts
<1>2. ASSUME c.active, c.order # None \/ c.selection # None PROVE Settles(v, u)
  <2>1. PICK s \in Shell, a \in 0..3 :
          /\ Moves(v, s) /\ Origin(c) \in BOOLEAN
          /\ s.charge.exit = (c.exit /\ (commit => Origin(c)))
          /\ s.charge.facts # None /\ s.charge.gate = gate /\ ~s.charge.factsFailed
          /\ s.charge.order = c.order /\ s.charge.reported = c.reported
          /\ s.charge.mutation = c.mutation /\ s.charge.reconcile = c.reconcile
          /\ u = Shown(IF Origin(c) THEN refreshAfterCharge(s, a) ELSE s)
    <3> HIDE DEF u
    <3> QED BY <1>2, FactsAsked DEF u
  <2> DEFINE y == IF Origin(c) THEN refreshAfterCharge(s, a) ELSE s
  <2> HIDE DEF u
  <2>2. s \in Shell /\ Known(s) /\ Told(s) BY <2>1 DEF Moves
  <2>3. Moves(s, y)
    <3>1. CASE ~Origin(c) BY <2>2, <3>1, KeepsSelf
    <3>2. CASE Origin(c)
      <4>1. c.selection # None BY <3>2 DEF Origin
      <4>2. chargeFlowBlocked(s.charge) => chargeFlowBlocked(c)
        BY <2>1, <4>1 DEF chargeFlowBlocked
      <4>3. Heard(s) BY <2>1, <4>1, <4>2 DEF Heard
      <4>4. s.charge.order # None \/ chargeFlowBlocked(s.charge)
        BY <2>1 DEF chargeFlowBlocked
      <4>5. Keeps(s, y) BY <2>2, <3>2, <4>4, RefreshAfter
      <4> QED BY <4>3, <4>5 DEF Keeps, Moves
    <3> QED BY <2>1, <3>1, <3>2
  <2>4. u = Shown(y) BY <2>1
  <2> HIDE DEF y
  <2>5. Settles(y, u) BY <2>3, <2>4, ShownSettles DEF Moves
  <2> QED BY <2>1, <2>3, <2>5, MovesTrans, SettlesAfter
<1>3. CASE ~c.active \/ (c.order = None /\ c.selection = None)
  BY <1>1, <1>3, KeepsSelf DEF u
<1>4. CASE c.active /\ (c.order # None \/ c.selection # None)
  <2>1. Settles(v, u) BY <1>2, <1>4
  <2> HIDE DEF u
  <2>2. Moves(v, u) /\ Reported(u) /\ Heard(u) /\ Rendered(u)
    BY <2>1, ReportedHeard DEF Settles
  <2> QED BY <2>2 DEF u
<1> QED BY <1>3, <1>4

\* The facts were answered or failed, and their slot is free.
FactsOver(v, c) == [cancelSafeReads(v, {"facts"}) EXCEPT !.charge = c]

LEMMA FactsEnd ==
  ASSUME NEW v \in Shell, Known(v), Told(v), NEW c \in ChargeState,
         c.active = v.charge.active, c.order = v.charge.order, c.mutation = v.charge.mutation,
         c.facts = None, c.read = v.charge.read, c.selGen = v.charge.selGen,
         c.exit = v.charge.exit, c.exitFailed = v.charge.exitFailed,
         c.attempt = v.charge.attempt, c.reported = v.charge.reported,
         c.selection = None <=> v.charge.selection = None,
         c.selection # None => c.selection.valid = v.charge.selection.valid
  PROVE  Moves(v, FactsOver(v, c)) /\ FactsOver(v, c).charge = c
<1> DEFINE x == cancelSafeReads(v, {"facts"})
           y == [x EXCEPT !.charge = c, !.main = v.main]
<1>1. v.main \in MainState /\ v.main.blocked = v.charge.reported /\ Paged(v.charge)
  BY Parts DEF Told, Known
<1>2. SameMain(v.main, v.main) BY DEF SameMain
<1>3. Paged(c) BY <1>1, PagedSame
<1>4. Moves(v, y) BY <1>1, <1>2, <1>3, FactsGone DEF Withdrawn
<1>5. x \in Shell /\ x.main = v.main BY CancelReads
<1>6. y = [x EXCEPT !.charge = c] /\ y.charge = c
  <2> HIDE DEF x
  <2> QED BY <1>5 DEF Shell
<1> HIDE DEF y
<1> QED BY <1>4, <1>6 DEF FactsOver, x

LEMMA FactsFail ==
  ASSUME NEW v \in Shell, Known(v), Told(v), ~v.charge.exitFailed
  PROVE  Settles(v, factsFail(v))
<1> DEFINE y == IF v.charge.exit THEN failChargeStationDetail(v, v.charge.attempt) ELSE v
           b == y.charge.gate \/ y.charge.exit
           c == [y.charge EXCEPT !.factsFailed = b, !.gate = b, !.reconcile = b]
           z == [y EXCEPT !.charge = c, !.main = y.main]
           u == factsFail(v)
<1>1. Moves(v, y) /\ (y.charge = v.charge \/ Settles(v, y))
  BY DetailNotApplied, KeepsSelf
<1>2. u = IF v.charge.exit /\ (~y.charge.exit \/ y.charge.exitFailed) THEN y ELSE Shown(z)
  <2>1. [y EXCEPT !.charge.factsFailed = b, !.charge.gate = b, !.charge.reconcile = b] = z
    <3>1. y \in Shell BY <1>1 DEF Moves
    <3> HIDE DEF y, b
    <3> QED BY <3>1 DEF Shell
  <2> HIDE DEF z
  <2> QED BY <2>1 DEF factsFail
<1> HIDE DEF y, u
<1>3. CASE v.charge.exit /\ (~y.charge.exit \/ y.charge.exitFailed)
  BY <1>1, <1>2, <1>3 DEF u
<1>4. CASE ~(v.charge.exit /\ (~y.charge.exit \/ y.charge.exitFailed))
  <2>1. /\ y.charge \in ChargeState /\ y.main \in MainState /\ Paged(y.charge)
        /\ y.main.blocked = y.charge.reported /\ y \in Shell /\ Known(y)
    BY <1>1, Parts DEF Moves, Known, Told
  <2>2. b \in BOOLEAN BY <2>1 DEF ChargeState
  <2> HIDE DEF b
  <2>3. /\ c \in ChargeState
        /\ c.active = y.charge.active /\ c.order = y.charge.order
        /\ c.mutation = y.charge.mutation /\ c.facts = y.charge.facts /\ c.read = y.charge.read
        /\ c.selection = y.charge.selection /\ c.reported = y.charge.reported
        /\ c.selGen = y.charge.selGen /\ c.exit = y.charge.exit
        /\ c.exitFailed = y.charge.exitFailed /\ c.attempt = y.charge.attempt
    BY <2>1, <2>2 DEF ChargeState
  <2> HIDE DEF c
  <2>4. Paged(c) BY <2>1, <2>3, PagedSame
  <2>5. SameMain(y.main, y.main) BY DEF SameMain
  <2>6. Moves(y, z) BY <2>1, <2>3, <2>4, <2>5, ChargeAlone DEF Withdrawn
  <2> HIDE DEF z
  <2>7. Settles(z, Shown(z)) BY <2>6, ShownSettles DEF Moves
  <2>8. Moves(v, z) BY <1>1, <2>6, MovesTrans
  <2> QED BY <1>2, <1>4, <2>7, <2>8, SettlesAfter DEF u
<1> QED BY <1>3, <1>4

LEMMA FactsFailed ==
  ASSUME NEW v \in Shell, Known(v), Told(v), "facts" \in Slots(v)
  PROVE  Settles(v, factsFailed(cancelSafeReads(v, {"facts"})))
<1> DEFINE c == [v.charge EXCEPT !.facts = None]
           x == cancelSafeReads(v, {"facts"})
           y == FactsOver(v, c)
<1>1. v.charge \in ChargeState /\ v.charge.facts # None /\ Paged(v.charge)
  BY Parts DEF Known
<1>2. /\ c \in ChargeState /\ c.active = v.charge.active /\ c.order = v.charge.order
      /\ c.mutation = v.charge.mutation
      /\ c.facts = None /\ c.read = v.charge.read /\ c.selGen = v.charge.selGen
      /\ c.exit = v.charge.exit /\ c.exitFailed = v.charge.exitFailed
      /\ c.attempt = v.charge.attempt /\ c.reported = v.charge.reported
      /\ c.selection = v.charge.selection
  BY <1>1, NoneFits DEF ChargeState
<1>3. ~c.exitFailed BY <1>1, <1>2 DEF Paged
<1>4. [x EXCEPT !.charge.facts = None] = y
  <2>1. x.charge = v.charge BY CancelReads
  <2> HIDE DEF x
  <2> QED BY <2>1 DEF FactsOver, x
<1> HIDE DEF c
<1>5. Moves(v, y) /\ y.charge = c BY <1>2, FactsEnd
<1> HIDE DEF y
<1>6. Settles(y, factsFail(y)) BY <1>3, <1>5, FactsFail DEF Moves
<1>7. factsFailed(x) = factsFail(y) BY <1>4 DEF factsFailed
<1> QED BY <1>5, <1>6, <1>7, SettlesAfter


\* The facts were answered: the page as it takes them, and as it goes on with them.
LEMMA FactsTaken ==
  ASSUME NEW v \in Shell, Known(v), Told(v), "facts" \in Slots(v), NEW status \in Maybe(Status)
  PROVE  LET x == cancelSafeReads(v, {"facts"})
             g == v.charge
         IN  \E y, z \in Shell :
               /\ \A t \in {y, z} : /\ Moves(v, t) /\ t.charge.facts = None
                                    /\ t.charge.exit = g.exit /\ ~t.charge.exitFailed
                                    /\ t.charge.attempt = g.attempt
                                    /\ t.charge.read = g.read
               /\ y.charge.gate = g.gate /\ y.charge.reconcile = g.reconcile
               /\ y.charge.factsFailed = g.factsFailed
               /\ ~z.charge.gate /\ z.charge.reconcile = (g.reconcile /\ ~g.gate)
               /\ ~z.charge.factsFailed
               /\ factsLoaded(x, status) =
                    IF unmatched(g, status) THEN factsFail(y)
                    ELSE Shown(IF g.exit THEN applyChargeStationDetail(z, g.attempt) ELSE z)
<1> DEFINE x == cancelSafeReads(v, {"facts"})
           g == v.charge
           matched == ~unmatched(g, status)
           found == [charger |-> g.facts.charger, status |-> status]
           a == IF matched /\ (g.order # None \/ g.selection # None) THEN found
                ELSE IF g.order # None THEN None ELSE g.associated
           s == IF matched /\ g.order = None /\ g.selection # None
                THEN [g.selection EXCEPT !.status = status] ELSE g.selection
           f == g.factsFailed /\ g.exitFailed
           r == g.reconcile /\ (g.exitFailed \/ ~g.gate)
           c == [g EXCEPT !.facts = None, !.associated = a, !.selection = s]
           d == [g EXCEPT !.facts = None, !.associated = a, !.selection = s,
                          !.factsFailed = f, !.reconcile = r, !.gate = FALSE]
           y == FactsOver(v, c)
           z == FactsOver(v, d)
           p == IF g.exit THEN applyChargeStationDetail(z, g.attempt) ELSE z
           u == factsLoaded(x, status)
<1>1. g \in ChargeState /\ g.facts # None /\ g.facts \in Facts /\ Paged(g)
  BY Parts DEF Known, ChargeState, Maybe
<1>2. matched => status \in Status BY DEF Maybe, unmatched
<1>3. a \in Maybe(Associated)
  <2>1. matched => found \in Associated BY <1>1, <1>2 DEF Associated, Facts
  <2>2. g.associated \in Maybe(Associated) BY <1>1 DEF ChargeState
  <2> HIDE DEF g, found, matched
  <2> QED BY <2>1, <2>2 DEF Maybe
<1>4. /\ s \in Maybe(Selection)
      /\ s = None <=> g.selection = None
      /\ s # None => s.valid = g.selection.valid
  <2>1. g.selection \in Maybe(Selection) BY <1>1 DEF ChargeState
  <2>2. CASE matched /\ g.order = None /\ g.selection # None
    <3>1. g.selection \in Selection BY <2>1, <2>2 DEF Maybe
    <3>2. s = [g.selection EXCEPT !.status = status] BY <2>2
    <3>3. s \in Selection /\ s.valid = g.selection.valid BY <1>2, <2>2, <3>1, <3>2 DEF Selection
    <3>4. s # None BY <3>3, NoneAssumption DEF NoneAssumption
    <3> QED BY <2>2, <3>3, <3>4 DEF Maybe
  <2>3. CASE ~(matched /\ g.order = None /\ g.selection # None)
    <3>1. s = g.selection BY <2>3
    <3> QED BY <2>1, <3>1
  <2> QED BY <2>2, <2>3
<1>5. f \in BOOLEAN /\ r \in BOOLEAN BY <1>1 DEF ChargeState
<1>6. matched \in BOOLEAN OBVIOUS
<1>7. x \in Shell /\ x.charge = g BY CancelReads
<1>8. takeFacts(x, status) = y
  <2> DEFINE t == [x EXCEPT
                     !.charge.facts = None,
                     !.charge.associated =
                       IF matched /\ (g.order # None \/ g.selection # None) THEN found
                       ELSE IF g.order # None THEN None ELSE @,
                     !.charge.selection = IF matched /\ g.order = None /\ @ # None
                                          THEN [@ EXCEPT !.status = status] ELSE @]
  <2>1. takeFacts(x, status) = t
    <3> HIDE DEF x, g
    <3> QED BY <1>7 DEF takeFacts
  <2>2. t = [x EXCEPT !.charge = c]
    <3> HIDE DEF x, matched, found, g
    <3> QED BY <1>1, <1>7 DEF Shell, ChargeState
  <2> HIDE DEF t, c
  <2> QED BY <2>1, <2>2 DEF FactsOver
<1>9. [y EXCEPT !.charge.factsFailed = @ /\ g.exitFailed,
                !.charge.reconcile = @ /\ (g.exitFailed \/ ~g.gate),
                !.charge.gate = FALSE] = z
  <2> HIDE DEF a, s, x, g
  <2>1. [[x EXCEPT !.charge = c] EXCEPT
           !.charge.factsFailed = @ /\ g.exitFailed,
           !.charge.reconcile = @ /\ (g.exitFailed \/ ~g.gate),
           !.charge.gate = FALSE] = [x EXCEPT !.charge = d]
    BY <1>1, <1>7 DEF Shell, ChargeState
  <2> QED BY <2>1 DEF FactsOver, x, g
<1>10. g.facts.fits BY <1>1 DEF Paged
<1>11. u = IF matched THEN Shown(p) ELSE factsFail(y)
  <2> HIDE DEF x, g, y, z
  <2> QED BY <1>7, <1>8, <1>9, <1>10 DEF factsLoaded
<1>16. ~f /\ r = (g.reconcile /\ ~g.gate)
  BY <1>1, <1>5 DEF Paged, ChargeState
<1> HIDE DEF matched, a, s, f, r, u
<1>12. /\ c \in ChargeState /\ c.active = g.active /\ c.order = g.order
       /\ c.mutation = g.mutation
       /\ c.facts = None /\ c.read = g.read /\ c.selGen = g.selGen
       /\ c.exit = g.exit /\ c.exitFailed = g.exitFailed
       /\ c.attempt = g.attempt /\ c.reported = g.reported /\ c.selection = s
       /\ c.gate = g.gate /\ c.reconcile = g.reconcile /\ c.factsFailed = g.factsFailed
  <2> HIDE DEF g
  <2> QED BY <1>1, <1>3, <1>4, NoneFits DEF ChargeState
<1>13. /\ d \in ChargeState /\ d.active = g.active /\ d.order = g.order
       /\ d.mutation = g.mutation
       /\ d.facts = None /\ d.read = g.read /\ d.selGen = g.selGen
       /\ d.exit = g.exit /\ d.exitFailed = g.exitFailed
       /\ d.attempt = g.attempt /\ d.reported = g.reported /\ d.selection = s
       /\ ~d.gate /\ d.reconcile = r /\ d.factsFailed = f
  <2> HIDE DEF g
  <2> QED BY <1>1, <1>3, <1>4, <1>5, NoneFits DEF ChargeState
<1> HIDE DEF c, d
<1>14. Moves(v, y) /\ y.charge = c
  BY <1>4, <1>12, FactsEnd
<1>15. Moves(v, z) /\ z.charge = d
  BY <1>4, <1>13, FactsEnd
<1> HIDE DEF y, z
<1>17. ~g.exitFailed BY <1>1 DEF Paged
<1>18. y \in Shell /\ z \in Shell BY <1>14, <1>15 DEF Moves
<1>19. u = IF unmatched(g, status) THEN factsFail(y)
           ELSE Shown(IF g.exit THEN applyChargeStationDetail(z, g.attempt) ELSE z)
  BY <1>6, <1>11 DEF matched
<1> HIDE DEF g
<1>20. /\ \A t \in {y, z} : /\ Moves(v, t) /\ t.charge.facts = None
                             /\ t.charge.exit = g.exit /\ ~t.charge.exitFailed
                             /\ t.charge.attempt = g.attempt /\ t.charge.read = g.read
       /\ y.charge.gate = g.gate /\ y.charge.reconcile = g.reconcile
       /\ y.charge.factsFailed = g.factsFailed
       /\ ~z.charge.gate /\ z.charge.reconcile = (g.reconcile /\ ~g.gate)
       /\ ~z.charge.factsFailed
  BY <1>12, <1>13, <1>14, <1>15, <1>16, <1>17
<1> QED BY <1>18, <1>19, <1>20 DEF u, g

LEMMA FactsLoaded ==
  ASSUME NEW v \in Shell, Known(v), Told(v), "facts" \in Slots(v), NEW status \in Maybe(Status)
  PROVE  Settles(v, factsLoaded(cancelSafeReads(v, {"facts"}), status))
<1> DEFINE u == factsLoaded(cancelSafeReads(v, {"facts"}), status)
<1>1. PICK y, z \in Shell :
        /\ \A t \in {y, z} : Moves(v, t) /\ ~t.charge.exitFailed
        /\ u = IF unmatched(v.charge, status) THEN factsFail(y)
               ELSE Shown(IF v.charge.exit THEN applyChargeStationDetail(z, v.charge.attempt)
                          ELSE z)
  BY FactsTaken
<1> DEFINE p == IF v.charge.exit THEN applyChargeStationDetail(z, v.charge.attempt) ELSE z
<1> HIDE DEF u
<1>2. ASSUME unmatched(v.charge, status) PROVE Settles(v, u)
  <2>1. Settles(y, factsFail(y)) BY <1>1, FactsFail DEF Moves
  <2> QED BY <1>1, <1>2, <2>1, SettlesAfter
<1>3. ASSUME ~unmatched(v.charge, status) PROVE Settles(v, u)
  <2>1. Moves(z, p) BY <1>1, DetailApplied, KeepsSelf DEF Moves
  <2>2. u = Shown(p) BY <1>1, <1>3
  <2> HIDE DEF p
  <2>3. Settles(p, Shown(p)) BY <2>1, ShownSettles DEF Moves
  <2> QED BY <1>1, <2>1, <2>2, <2>3, MovesTrans, SettlesAfter
<1> QED BY <1>2, <1>3 DEF u

-----------------------------------------------------------------------------
(* The current order of the page.                                          *)

\* The page has another order, and the window was not told of its block.
Turns(v, u) ==
  /\ u \in Shell /\ Known(u) /\ Told(u)
  /\ u.api.up = v.api.up /\ u.api.user = v.api.user /\ u.api.ops = v.api.ops
  /\ u.history.active = v.history.active
  /\ u.charge.active = v.charge.active
  /\ u.charge.mutation = None <=> v.charge.mutation = None
  /\ v.charge.mutation # None => u.charge.mutation.fits = v.charge.mutation.fits
  /\ u.main.page = v.main.page /\ u.main.guard = v.main.guard
  /\ u.main.navShown = v.main.navShown
  /\ v.main.remembered = None => u.main.remembered = None
  /\ v.charge.selection = None => u.charge.selection = None
  /\ \A s \in {"guard", "login"} : s \in Slots(u) <=> s \in Slots(v)
  /\ Sent(v, u)
  /\ Listed(v) => Listed(u)
  /\ Withdrawn(v) => Withdrawn(u)
  /\ Apace(v, u)

LEMMA TurnsTrans ==
  ASSUME NEW a, NEW b, NEW c, Turns(a, b), Turns(b, c) PROVE Turns(a, c)
BY DEF Turns, Apace, Sent

LEMMA MovesTurns ==
  ASSUME NEW v, NEW u, Moves(v, u) PROVE Turns(v, u)
BY DEF Moves, Within, Frame, Turns, Apace, Sent

LEMMA TurnsHolds ==
  ASSUME NEW v, NEW u, Turns(v, u), Reported(u), Rendered(u)
  PROVE  Holds(v, u) /\ Apace(v, u)
BY DEF Turns, Holds

LEMMA TurnsSettled ==
  ASSUME NEW a, NEW b, NEW c, Turns(a, b), Settles(b, c)
  PROVE  Turns(a, c) /\ Reported(c) /\ Rendered(c)
BY TurnsTrans, MovesTurns DEF Settles

LEMMA PageTurn ==
  ASSUME NEW v \in Shell, Known(v), Told(v), NEW u \in Shell,
         u.nearby = v.nearby, u.history = v.history, SameMain(u.main, v.main),
         u.api.up = v.api.up, u.api.user = v.api.user, u.api.ops = v.api.ops,
         \A s \in Read \ {"page", "facts"} : s \in Slots(u) <=> s \in Slots(v), Sent(v, u),
         u.charge.facts # None <=> "facts" \in Slots(u),
         u.charge.read # None <=> "page" \in Slots(u), Paged(u.charge),
         u.charge.active = v.charge.active,
         u.charge.mutation = None <=> v.charge.mutation = None,
         v.charge.mutation # None => u.charge.mutation.fits = v.charge.mutation.fits,
         v.charge.selection = None => u.charge.selection = None,
         u.main.blocked = u.charge.reported, Withdrawn(v) => Withdrawn(u)
  PROVE  Turns(v, u)
<1>1. Known(u) /\ Told(u) BY DEF Known, Told, Read, CurrentRead
<1>2. (Listed(v) => Listed(u)) /\ Apace(v, u)
  BY DEF Listed, Apace, Read, CurrentRead, SameMain
<1> QED BY <1>1, <1>2 DEF Turns, Read, CurrentRead, SameMain

\* The page, and the selection that the window remembers.
LEMMA ChargeTurn ==
  ASSUME NEW v \in Shell, Known(v), Told(v), NEW c \in ChargeState, NEW p \in Maybe(Selection),
         c.facts = v.charge.facts, c.read = v.charge.read, Paged(c),
         c.active = v.charge.active, c.reported = v.charge.reported,
         c.mutation = None <=> v.charge.mutation = None,
         v.charge.mutation # None => c.mutation.fits = v.charge.mutation.fits,
         c.selection \in {None, v.charge.selection}, p \in {None, v.main.remembered}
  PROVE  LET u == [v EXCEPT !.charge = c, !.main = [v.main EXCEPT !.remembered = p]] IN
         Turns(v, u) /\ u.charge = c /\ u.api = v.api
<1> DEFINE m == [v.main EXCEPT !.remembered = p]
           u == [v EXCEPT !.charge = c, !.main = m]
<1>1. v.main \in MainState /\ v.main.blocked = v.charge.reported BY Parts DEF Told
<1>2. /\ m \in MainState /\ SameMain(m, v.main) /\ m.blocked = v.main.blocked
      /\ m.deferred = v.main.deferred /\ m.remembered = p
  BY <1>1 DEF MainState, SameMain
<1> HIDE DEF m
<1>3. /\ u \in Shell /\ u.charge = c /\ u.main = m /\ u.api = v.api /\ u.nearby = v.nearby
      /\ u.history = v.history
  BY <1>2 DEF Shell
<1> HIDE DEF u
<1>4. Slots(u) = Slots(v) BY <1>3 DEF Slots
<1>5. Withdrawn(v) => Withdrawn(u) BY <1>2, <1>3 DEF Withdrawn
<1>6. /\ u.charge.facts # None <=> "facts" \in Slots(u)
      /\ u.charge.read # None <=> "page" \in Slots(u)
  BY <1>3, <1>4 DEF Known
<1>8. Sent(v, u) BY <1>3, <1>4 DEF Sent, Slots
<1>7. Turns(v, u) BY <1>1, <1>2, <1>3, <1>4, <1>5, <1>6, <1>8, PageTurn
<1> QED BY <1>3, <1>7 DEF u, m

\* The page that is active owns every read of the current order.
Alone(v) ==
  v.charge.active => /\ "guard" \notin Slots(v) /\ "reconnect" \notin Slots(v)
                     /\ v.main.reconnect = None

LEMMA AloneTurns ==
  ASSUME NEW v, NEW u, Alone(v)
  PROVE  /\ Turns(v, u) => Alone(u)
         /\ Holds(v, u) /\ Apace(v, u) => Alone(u)
BY DEF Alone, Turns, Holds, Apace

LEMMA InvalidateOwned ==
  ASSUME NEW v \in Shell, Alone(v), v.charge.active
  PROVE  invalidateSafeReads(v) = cancelOwnedSafeReads(v)
<1> DEFINE y == invalidateChargeReads(v)
           a == cancelSafeReads(y, {"page", "facts"})
           b == cancelSafeReads(v, {"page", "facts"})
           f(x) == [x EXCEPT
                      !.charge.read = None, !.charge.facts = None, !.charge.gate = FALSE,
                      !.charge.attempt = IF v.charge.exit THEN 0 ELSE @,
                      !.charge.current = TRUE]
<1>1. /\ "guard" \notin Slots(v) /\ "reconnect" \notin Slots(v)
      /\ v.charge \in ChargeState /\ v.api \in ApiState(Slots(v))
  BY Parts DEF Alone
<1>2. /\ y = [v EXCEPT !.api = y.api, !.charge = [v.charge EXCEPT !.current = FALSE]]
      /\ y.api = [v.api EXCEPT !.reads = [s \in Slots(v) \ CurrentRead |-> v.api.reads[s]],
                               !.replayed = v.api.replayed \ CurrentRead]
  BY <1>1 DEF invalidateChargeReads, cancelSafeReads, Shell, Slots, ApiState
<1>3. a.api = b.api
  <2>1. /\ v.api.replayed \subseteq Slots(v) BY <1>1 DEF ApiState
  <2>2. (Slots(v) \ CurrentRead) \ {"page", "facts"} = Slots(v) \ {"page", "facts"}
    BY <1>1 DEF CurrentRead
  <2>3. (v.api.replayed \ CurrentRead) \ {"page", "facts"} = v.api.replayed \ {"page", "facts"}
    BY <1>1, <2>1 DEF CurrentRead
  <2>4. y.api.reads = [s \in Slots(v) \ CurrentRead |-> v.api.reads[s]]
        /\ y.api.replayed = v.api.replayed \ CurrentRead
    BY <1>1, <1>2 DEF ApiState
  <2>5. [s \in DOMAIN y.api.reads \ {"page", "facts"} |-> y.api.reads[s]]
          = [s \in Slots(v) \ {"page", "facts"} |-> v.api.reads[s]]
    BY <2>2, <2>4
  <2> DEFINE r == [s \in Slots(v) \ {"page", "facts"} |-> v.api.reads[s]]
             q == v.api.replayed \ {"page", "facts"}
  <2>6. a.api = [y.api EXCEPT !.reads = r, !.replayed = q]
    BY <1>2, <2>3, <2>4, <2>5 DEF cancelSafeReads, Shell
  <2>7. b.api = [v.api EXCEPT !.reads = r, !.replayed = q]
    BY <1>1 DEF cancelSafeReads, Shell, Slots
  <2> HIDE DEF r, q
  <2> QED BY <1>1, <1>2, <2>6, <2>7 DEF ApiState
<1>4. f(a) = f(b)
  <2>1. b = [v EXCEPT !.api = b.api] BY DEF cancelSafeReads, Shell
  <2>2. a = [y EXCEPT !.api = b.api] BY <1>2, <1>3 DEF cancelSafeReads, Shell
  <2>3. a = [v EXCEPT !.api = b.api, !.charge = [v.charge EXCEPT !.current = FALSE]]
    BY <1>2, <2>2 DEF Shell
  <2> DEFINE k == IF v.charge.exit THEN 0 ELSE v.charge.attempt
             q == b.api
             d == [v.charge EXCEPT !.current = FALSE]
             e == [v.charge EXCEPT !.read = None, !.facts = None, !.gate = FALSE,
                                   !.attempt = k, !.current = TRUE]
             x == [v EXCEPT !.api = q, !.charge = e]
  <2>4. /\ d \in ChargeState /\ d.attempt = v.charge.attempt
        /\ e = [d EXCEPT !.read = None, !.facts = None, !.gate = FALSE,
                         !.attempt = k, !.current = TRUE]
    BY <1>1 DEF ChargeState
  <2>5. /\ f(b) = [b EXCEPT !.charge.read = None, !.charge.facts = None, !.charge.gate = FALSE,
                            !.charge.attempt = k, !.charge.current = TRUE]
        /\ f(a) = [a EXCEPT !.charge.read = None, !.charge.facts = None, !.charge.gate = FALSE,
                            !.charge.attempt = k, !.charge.current = TRUE]
    <3>1. a.charge = d /\ b.charge = v.charge
      <4> HIDE DEF a, b, d
      <4> QED BY <2>1, <2>3 DEF Shell, d
    <3> HIDE DEF a, b, d
    <3> QED BY <2>4, <3>1
  <2>6. f(b) = x
    <3>1. b = [v EXCEPT !.api = q] BY <2>1
    <3> HIDE DEF a, b, d, k, q, f
    <3> QED BY <2>5, <3>1 DEF Shell
  <2>7. f(a) = x
    <3>1. a = [v EXCEPT !.api = q, !.charge = d] BY <2>3
    <3> HIDE DEF a, b, d, k, q, f, e
    <3> QED BY <2>4, <2>5, <3>1 DEF Shell
  <2> QED BY <2>6, <2>7
<1>5. invalidateSafeReads(v) = cancelChargeRefresh(f(a))
  <2>1. y.charge.exit = v.charge.exit BY <1>1, <1>2 DEF Shell, ChargeState
  <2> HIDE DEF y
  <2> QED BY <2>1 DEF invalidateSafeReads, cancelOwnedSafeReads, y
<1>6. cancelOwnedSafeReads(v) = cancelChargeRefresh(f(b))
  BY DEF cancelOwnedSafeReads
<1> HIDE DEF f
<1> QED BY <1>4, <1>5, <1>6

LEMMA Supersede ==
  ASSUME NEW v \in Shell, Known(v), Told(v), NEW order
  PROVE  LET u == supersedeMutation(v, order) IN
         /\ Holds(v, u) /\ Turns(v, u) /\ u.api = v.api
         /\ u.charge.active = v.charge.active /\ u.charge.read = v.charge.read
         /\ u.charge.exitFailed = v.charge.exitFailed
         /\ u.main = v.main
         /\ u.charge = [v.charge EXCEPT !.mutation = u.charge.mutation]
         /\ u.charge.mutation # None <=> v.charge.mutation # None
<1> DEFINE n == [v.charge.mutation EXCEPT !.superseded = TRUE]
           c == [v.charge EXCEPT !.mutation = n]
           m == [v.main EXCEPT !.remembered = v.main.remembered]
           x == [v EXCEPT !.charge = c, !.main = m]
           u == supersedeMutation(v, order)
<1>1. v.charge \in ChargeState /\ Paged(v.charge) /\ v.main \in MainState
  BY Parts DEF Known
<1>2. v.main.remembered \in Maybe(Selection) BY <1>1 DEF MainState
<1>3. CASE v.charge.mutation = None
  <2>1. u = v BY <1>3 DEF supersedeMutation
  <2>2. v.charge = [v.charge EXCEPT !.mutation = v.charge.mutation] BY <1>1 DEF ChargeState
  <2> HIDE DEF u
  <2> QED BY <2>1, <2>2, HoldsSelf, KeepsSelf, MovesTurns DEF u
<1>4. CASE v.charge.mutation # None
  <2>1. v.charge.mutation \in PageMutation BY <1>1, <1>4 DEF ChargeState, Maybe
  <2>2. /\ n \in PageMutation /\ n \in Maybe(PageMutation) /\ n # None
        /\ n.fits = v.charge.mutation.fits
    <3>1. n \in PageMutation /\ n.fits = v.charge.mutation.fits BY <2>1 DEF PageMutation
    <3> HIDE DEF n
    <3> QED BY <3>1, NoneAssumption DEF Maybe, NoneAssumption
  <2>3. u \in {v, x}
    <3>1. [v EXCEPT !.charge.mutation.superseded = TRUE] = x BY <1>1 DEF Shell, MainState
    <3> HIDE DEF x
    <3> QED BY <3>1 DEF supersedeMutation
  <2> HIDE DEF n
  <2>4. /\ c \in ChargeState /\ c.mutation = n
        /\ c.facts = v.charge.facts /\ c.read = v.charge.read /\ c.active = v.charge.active
        /\ c.reported = v.charge.reported /\ c.selection = v.charge.selection
        /\ c.order = v.charge.order /\ c.selGen = v.charge.selGen
        /\ c.exit = v.charge.exit /\ c.exitFailed = v.charge.exitFailed
        /\ c.attempt = v.charge.attempt /\ c.reconcile = v.charge.reconcile
        /\ c.factsFailed = v.charge.factsFailed /\ c.gate = v.charge.gate
        /\ c.buttons = v.charge.buttons /\ c.associated = v.charge.associated
        /\ c.noOrder = v.charge.noOrder
    BY <1>1, <2>2 DEF ChargeState
  <2>10. c = [v.charge EXCEPT !.mutation = c.mutation] BY <2>4
  <2>11. v.charge = [v.charge EXCEPT !.mutation = v.charge.mutation] BY <1>1 DEF ChargeState
  <2>12. x.main = v.main
    <3>1. m = v.main BY <1>1 DEF MainState
    <3> HIDE DEF c, m
    <3> QED BY <3>1 DEF Shell
  <2> HIDE DEF c, u
  <2>5. Paged(c) BY <1>1, <2>4, PagedSame
  <2>6. Turns(v, x) /\ x.charge = c /\ x.api = v.api
    BY <1>2, <1>4, <2>2, <2>4, <2>5, ChargeTurn
  <2> HIDE DEF x
  <2>7. /\ Reported(v) => Reported(x)
        /\ Rendered(v) => Rendered(x)
    <3>1. chargeFlowBlocked(c) = chargeFlowBlocked(v.charge)
      BY <1>4, <2>2, <2>4 DEF chargeFlowBlocked
    <3>2. Offers(c) = Offers(v.charge) BY <2>4 DEF Offers
    <3>3. Leaves(c) = Leaves(v.charge) BY <2>4 DEF Leaves
    <3>4. Usable(x) = Usable(v) BY <1>4, <2>2, <2>4, <2>6, <3>1, <3>2, <3>3 DEF Usable
    <3> QED BY <2>4, <2>6, <3>1, <3>4 DEF Reported, Rendered
  <2>8. Holds(v, x) BY <2>6, <2>7 DEF Turns, Holds
  <2>9. Holds(v, v) /\ Turns(v, v) BY HoldsSelf, KeepsSelf, MovesTurns
  <2> QED BY <1>4, <2>2, <2>3, <2>4, <2>6, <2>8, <2>9, <2>10, <2>11, <2>12 DEF u
<1> QED BY <1>3, <1>4

LEMMA TakeActive ==
  ASSUME NEW v \in Shell, Known(v), Told(v), Alone(v), v.charge.active, NEW order \in Order
  PROVE  LET u == takeActiveOrder(v, order) IN
         /\ Turns(v, u) /\ u.charge.order = order
         /\ u.charge.facts = None /\ u.charge.read = None /\ ~u.charge.exitFailed
         /\ u.charge.reconcile /\ ~u.charge.factsFailed
         /\ ~u.charge.exit /\ ~u.charge.gate /\ u.charge.mutation = v.charge.mutation
         /\ SameMain(u.main, v.main)
<1> DEFINE keeps == v.charge.selection = None \/ matching(v.charge.selection, order)
           x == cancelOwnedSafeReads(v)
           y == endExitRefresh(x)
           s == IF keeps THEN v.charge.selection ELSE None
           p == IF keeps THEN v.main.remembered ELSE None
           c == [y.charge EXCEPT
                   !.polling = FALSE, !.reconcile = TRUE, !.factsFailed = FALSE, !.gate = FALSE,
                   !.noOrder = FALSE, !.order = order, !.selGen = 0, !.associated = None,
                   !.selection = s]
           m == [y.main EXCEPT !.remembered = p]
           u == [y EXCEPT !.charge = c, !.main = m]
           d == [v.charge EXCEPT
                   !.read = None, !.facts = None, !.gate = FALSE,
                   !.attempt = IF v.charge.exit THEN 0 ELSE @, !.current = TRUE]
<1>1. v.charge \in ChargeState /\ v.main \in MainState BY Parts
<1>2. Moves(v, x) /\ x.charge = d /\ x.main = v.main BY GiveUpOwned
<1>3. /\ d.read = None /\ d.facts = None /\ d.selection = v.charge.selection
      /\ d.mutation = v.charge.mutation /\ d.active = v.charge.active
      /\ d.reported = v.charge.reported
  BY <1>1 DEF ChargeState
<1> HIDE DEF d, x
<1>4. x \in Shell /\ Known(x) /\ Told(x) BY <1>2 DEF Moves
<1>5. /\ Moves(x, y) /\ y.main = x.main
      /\ y.charge = [x.charge EXCEPT !.exit = FALSE, !.exitFailed = FALSE, !.attempt = 0]
  BY <1>4, EndRefresh
<1> HIDE DEF y
<1>6. y \in Shell /\ Known(y) /\ Told(y) BY <1>5 DEF Moves
<1>7. y.charge \in ChargeState /\ y.main \in MainState BY <1>6, Parts
<1>8. /\ y.charge.read = None /\ y.charge.facts = None
      /\ y.charge.selection = v.charge.selection /\ y.charge.mutation = v.charge.mutation
      /\ y.charge.active = v.charge.active /\ y.charge.reported = v.charge.reported
      /\ y.charge.exit = FALSE /\ y.charge.exitFailed = FALSE /\ y.charge.attempt = 0
      /\ y.main = v.main
  <2>1. x.charge \in ChargeState BY <1>4, Parts
  <2> QED BY <1>2, <1>3, <1>5, <2>1 DEF ChargeState
<1>9. /\ s \in Maybe(Selection) /\ s \in {None, y.charge.selection}
      /\ p \in Maybe(Selection) /\ p \in {None, y.main.remembered}
  BY <1>1, <1>8, NoneFits DEF ChargeState, MainState
<1>10. takeActiveOrder(v, order) = u
  <2>1. y = endExitRefresh(invalidateSafeReads(v)) BY InvalidateOwned DEF y, x
  <2>2. [y EXCEPT
           !.charge.polling = FALSE, !.charge.reconcile = TRUE,
           !.charge.factsFailed = FALSE, !.charge.gate = FALSE, !.charge.noOrder = FALSE,
           !.charge.order = order, !.charge.selGen = 0, !.charge.associated = None,
           !.charge.selection = s, !.main.remembered = p] = u
    <3> HIDE DEF s, p
    <3> QED BY <1>6 DEF Shell
  <2>3. [y EXCEPT
           !.charge.polling = FALSE, !.charge.reconcile = TRUE,
           !.charge.factsFailed = FALSE, !.charge.gate = FALSE, !.charge.noOrder = FALSE,
           !.charge.order = order, !.charge.selGen = 0, !.charge.associated = None,
           !.charge.selection = IF keeps THEN @ ELSE None,
           !.main.remembered = IF keeps THEN @ ELSE None] = u
    <3> HIDE DEF keeps, u
    <3> QED BY <1>8, <2>2
  <2> HIDE DEF u
  <2> QED BY <2>1, <2>3 DEF takeActiveOrder
<1> HIDE DEF s, p
<1>11. /\ c \in ChargeState
       /\ c.order = order /\ c.facts = None /\ c.read = None /\ ~c.exitFailed /\ c.reconcile
       /\ ~c.factsFailed /\ c.active = y.charge.active /\ c.reported = y.charge.reported
       /\ c.mutation = y.charge.mutation /\ c.selection = s /\ c.selGen = 0
       /\ ~c.exit /\ ~c.gate
  <2>1. order \in Maybe(Order) BY DEF Maybe
  <2> DEFINE a == y.charge
  <2> HIDE DEF a
  <2>2. a \in ChargeState /\ a.exitFailed = FALSE /\ a.exit = FALSE /\ a.read = None /\ a.facts = None
    BY <1>7, <1>8 DEF a
  <2>3. c = [a EXCEPT
              !.polling = FALSE, !.reconcile = TRUE, !.factsFailed = FALSE, !.gate = FALSE,
              !.noOrder = FALSE, !.order = order, !.selGen = 0, !.associated = None,
              !.selection = s]
    BY DEF a
  <2> HIDE DEF c
  <2>4. c \in ChargeState
    BY <1>9, <2>1, <2>2, <2>3, NoneFits, Small DEF ChargeState
  <2>5. /\ c.order = order /\ c.facts = None /\ c.read = None /\ ~c.exitFailed /\ c.reconcile
        /\ ~c.factsFailed /\ c.active = a.active /\ c.reported = a.reported
        /\ c.mutation = a.mutation /\ c.selection = s /\ c.selGen = 0
        /\ ~c.exit /\ ~c.gate
    BY <2>2, <2>3 DEF ChargeState
  <2> QED BY <2>4, <2>5 DEF a
<1> HIDE DEF c
<1>12. Paged(c) BY <1>11 DEF Paged
<1>13. Turns(y, u) /\ u.charge = c
  <2>1. /\ c.facts = y.charge.facts /\ c.read = y.charge.read
        /\ c.mutation = None <=> y.charge.mutation = None
        /\ y.charge.mutation # None => c.mutation.fits = y.charge.mutation.fits
        /\ c.selection \in {None, y.charge.selection} /\ p \in {None, y.main.remembered}
    BY <1>8, <1>9, <1>11
  <2> QED BY <1>6, <1>9, <1>11, <1>12, <2>1, ChargeTurn
<1>15. SameMain(u.main, v.main)
  <2>1. SameMain(m, v.main) BY <1>1, <1>8, <1>9 DEF SameMain, MainState
  <2> HIDE DEF m
  <2>2. u.main = m BY <1>6 DEF Shell
  <2> QED BY <2>1, <2>2
<1> HIDE DEF u
<1>14. Turns(v, u) BY <1>2, <1>5, <1>13, MovesTurns, TurnsTrans
<1> QED BY <1>8, <1>10, <1>11, <1>13, <1>14, <1>15

LEMMA ResolvesAround ==
  ASSUME NEW slot, NEW a, NEW b, NEW c, NEW d, Apace(a, b), Resolves(b, slot, c), Apace(c, d)
  PROVE  Resolves(a, slot, d)
BY DEF Resolves, Apace

LEMMA ApaceSelf == ASSUME NEW v PROVE Apace(v, v)
BY DEF Apace

LEMMA MovesKeeps ==
  ASSUME NEW v, NEW u, Moves(v, u), Reported(v) => Reported(u), Heard(v) => Heard(u),
         Rendered(v) => Rendered(u)
  PROVE  Keeps(v, u)
BY DEF Moves, Keeps

LEMMA ObserveCurrent ==
  ASSUME NEW v \in Shell, Known(v), Told(v), Alone(v), NEW slot, NEW order \in Maybe(Order)
  PROVE  LET u == observeAuthoritativeCurrent(v, slot, order) IN
         Holds(v, u) /\ Resolves(v, slot, u)
<1> DEFINE s == supersedeMutation(v, order)
           t == takeActiveOrder(s, order)
           h == Shown(t)
           o == currentAuthorityObserved(h, slot, order, FALSE, 0)
           f == requestFacts(o, TRUE, FALSE)
           u == observeAuthoritativeCurrent(v, slot, order)
<1>1. /\ Holds(v, s) /\ Turns(v, s) /\ s.api = v.api
      /\ s.charge.active = v.charge.active
  BY Supersede
<1>2. s \in Shell /\ Known(s) /\ Told(s) /\ Alone(s) /\ Apace(v, s)
  BY <1>1, AloneTurns DEF Turns
<1>3. CASE ~isActive(order) \/ ~v.charge.active
  <2>1. u = currentAuthorityObserved(s, slot, order, FALSE, 0)
    BY <1>3 DEF observeAuthoritativeCurrent
  <2> HIDE DEF s, u
  <2>2. Holds(s, u) /\ Resolves(s, slot, u) BY <1>2, <2>1, Observed
  <2> QED BY <1>1, <1>2, <2>2, HoldsTrans, ResolvesAround, ApaceSelf DEF u
<1>4. CASE isActive(order) /\ v.charge.active
  <2>1. u = f BY <1>4 DEF observeAuthoritativeCurrent
  <2> HIDE DEF u, s
  <2>2. order \in Order BY <1>4 DEF isActive, Maybe
  <2>3. /\ Turns(s, t) /\ t.charge.order = order
        /\ t.charge.facts = None /\ t.charge.read = None /\ ~t.charge.exitFailed
        /\ t.charge.reconcile /\ ~t.charge.factsFailed
    BY <1>1, <1>2, <1>4, <2>2, TakeActive
  <2> HIDE DEF t
  <2>4. t \in Shell /\ Known(t) /\ Told(t) BY <2>3 DEF Turns
  <2>5. /\ Settles(t, h) /\ Quiet(t.charge, h.charge) /\ h.charge.reconcile
    <3>1. chargeFlowBlocked(t.charge) BY <2>3 DEF chargeFlowBlocked
    <3> QED BY <2>3, <2>4, <3>1, ShownSettles, ShownQuiet
  <2> HIDE DEF h
  <2>6. /\ h \in Shell /\ Known(h) /\ Told(h) /\ Reported(h) /\ Rendered(h)
        /\ h.charge.order = order /\ h.charge.active
    <3>1. t.charge.active = v.charge.active BY <1>1, <2>3 DEF Turns
    <3> QED BY <1>4, <2>3, <2>5, <3>1 DEF Settles, Moves, Within, Frame
  <2>7. h.charge.facts = None /\ h.charge.read = None /\ ~h.charge.exitFailed
        /\ ~h.charge.factsFailed
    BY <2>3, <2>5 DEF Quiet
  <2>8. Holds(v, h) /\ Apace(v, h)
    BY <1>1, <2>3, <2>5, TurnsTrans, TurnsSettled, TurnsHolds
  <2>9. Holds(h, o) /\ Resolves(h, slot, o) /\ o.charge = h.charge
    <3>1. FALSE \in BOOLEAN OBVIOUS
    <3>2. h \in Shell /\ Known(h) /\ Told(h) BY <2>6
    <3> QED BY <3>1, <3>2, Observed
  <2> HIDE DEF o
  <2>10. o \in Shell /\ Known(o) /\ Told(o) /\ Reported(o)
    BY <2>6, <2>9 DEF Holds
  <2>11. Keeps(o, f)
    <3>1. TRUE \in BOOLEAN /\ FALSE \in BOOLEAN OBVIOUS
    <3>2. o.charge.order # None BY <2>2, <2>6, <2>9, NoneAssumption DEF NoneAssumption
    <3>3. /\ Moves(o, f)
          /\ Reported(o) => Reported(f)
          /\ Heard(o) => Heard(f)
          /\ Rendered(o) => Rendered(f)
      BY <2>5, <2>7, <2>9, <2>10, <3>1, <3>2, RequestFacts, ReportedHeard
    <3> QED BY <3>3, MovesKeeps
  <2>12. Holds(o, f) /\ Apace(o, f) BY <2>11, KeepsHolds
  <2> HIDE DEF f
  <2> QED BY <2>1, <2>8, <2>9, <2>12, HoldsTrans, ResolvesAround DEF u
<1> QED BY <1>3, <1>4

\* The read of the page is over.
PageAnswered(v) == [cancelSafeReads(v, {"page"}) EXCEPT !.charge.read = None]

LEMMA PageReadOver ==
  ASSUME NEW v \in Shell, Known(v), Told(v)
  PROVE  LET u == PageAnswered(v) IN
         /\ Turns(v, u) /\ u.charge = [v.charge EXCEPT !.read = None]
         /\ u.main = v.main
         /\ Reported(v) => Reported(u)
         /\ Rendered(v) => Rendered(u)
<1> DEFINE x == cancelSafeReads(v, {"page"})
           c == [v.charge EXCEPT !.read = None]
           u == [x EXCEPT !.charge = c]
<1>1. /\ x \in Shell
      /\ x.charge = v.charge /\ x.nearby = v.nearby /\ x.history = v.history
      /\ x.main = v.main /\ x.api.up = v.api.up /\ x.api.user = v.api.user
      /\ x.api.ops = v.api.ops /\ Slots(x) = Slots(v) \ {"page"}
      /\ \A s \in Slots(x) : x.api.reads[s] = v.api.reads[s]
  BY CancelReads
<1>2. v.charge \in ChargeState /\ Paged(v.charge) BY Parts DEF Known
<1>3. /\ c \in ChargeState /\ c.read = None
      /\ c.facts = v.charge.facts /\ c.active = v.charge.active
      /\ c.reported = v.charge.reported /\ c.selection = v.charge.selection
      /\ c.order = v.charge.order /\ c.selGen = v.charge.selGen
      /\ c.exit = v.charge.exit /\ c.exitFailed = v.charge.exitFailed
      /\ c.attempt = v.charge.attempt /\ c.reconcile = v.charge.reconcile
      /\ c.factsFailed = v.charge.factsFailed /\ c.gate = v.charge.gate
      /\ c.buttons = v.charge.buttons /\ c.associated = v.charge.associated
      /\ c.noOrder = v.charge.noOrder /\ c.mutation = v.charge.mutation
  BY <1>2, NoneFits DEF ChargeState
<1>4. PageAnswered(v) = u
  <2> HIDE DEF x
  <2> QED BY <1>1 DEF PageAnswered, Shell, x
<1> HIDE DEF x, c
<1>5. /\ u \in Shell /\ u.charge = c /\ u.main = v.main /\ u.api = x.api /\ u.nearby = v.nearby
      /\ u.history = v.history
  BY <1>1, <1>3 DEF Shell
<1> HIDE DEF u
<1>6. Slots(u) = Slots(v) \ {"page"} BY <1>1, <1>5 DEF Slots
<1>7. Paged(c) BY <1>2, <1>3, PagedSame
<1>8. /\ \A s \in Read \ {"page", "facts"} : s \in Slots(u) <=> s \in Slots(v)
      /\ u.charge.facts # None <=> "facts" \in Slots(u)
      /\ u.charge.read # None <=> "page" \in Slots(u)
      /\ Sent(v, u)
  BY <1>1, <1>3, <1>5, <1>6 DEF Known, Sent, Slots
<1>9. SameMain(u.main, v.main) /\ (Withdrawn(v) => Withdrawn(u))
  BY <1>3, <1>5 DEF SameMain, Withdrawn
<1>10. u.main.blocked = u.charge.reported BY <1>3, <1>5 DEF Told
<1>11. Turns(v, u) BY <1>1, <1>3, <1>5, <1>7, <1>8, <1>9, <1>10, PageTurn
<1>12. /\ Reported(v) => Reported(u)
       /\ Rendered(v) => Rendered(u)
  BY <1>1, <1>3, <1>5 DEF Reported, Rendered, Usable, chargeFlowBlocked, Offers, Leaves
<1> QED BY <1>4, <1>5, <1>11, <1>12 DEF c

LEMMA TakeOrder ==
  ASSUME NEW v \in Shell, Known(v), Told(v), v.charge.read = None,
         NEW order \in Maybe(Order), NEW facts \in BOOLEAN
  PROVE  LET u == [takeOrder(v, order) EXCEPT !.charge.reconcile = facts] IN
         /\ Turns(v, u)
         /\ u.charge.order = takeOrder(v, order).charge.order
         /\ u.charge.facts = v.charge.facts /\ u.charge.read = v.charge.read
         /\ u.charge.exitFailed = v.charge.exitFailed
         /\ u.charge.reconcile = facts /\ ~u.charge.factsFailed
         /\ u.charge.mutation = v.charge.mutation /\ u.charge.gate = v.charge.gate
         /\ u.charge.exit => v.charge.exit
         /\ \/ u.charge.order = order
            \/ /\ order = None /\ v.charge.exit /\ u.charge.order = v.charge.order
               /\ v.charge.order.status \in Terminal
         /\ SameMain(u.main, v.main)
<1> DEFINE terminal == /\ order = None /\ v.charge.exit /\ v.charge.order # None
                       /\ v.charge.order.status \in Terminal
           shown == IF terminal THEN v.charge.order ELSE order
           keeps == \/ order = None \/ v.charge.selection = None
                    \/ matching(v.charge.selection, order)
           g == IF shown # None \/ ~keeps THEN 0 ELSE v.charge.selGen
           e == v.charge.exit /\ keeps
           k == IF keeps THEN v.charge.attempt ELSE 0
           s == IF keeps THEN v.charge.selection ELSE None
           p == IF keeps THEN v.main.remembered ELSE None
           n == order = None
           d == [v.charge EXCEPT
                   !.order = shown, !.noOrder = n, !.associated = None, !.factsFailed = FALSE,
                   !.selGen = g, !.exit = e, !.attempt = k, !.selection = s]
           c == [d EXCEPT !.reconcile = facts]
           m == [v.main EXCEPT !.remembered = p]
           x == [v EXCEPT !.charge = d, !.main = m]
           u == [v EXCEPT !.charge = c, !.main = m]
<1>1. v.charge \in ChargeState /\ v.main \in MainState /\ Paged(v.charge)
  BY Parts DEF Known
<1>2. /\ shown \in Maybe(Order) /\ g \in 0..1 /\ e \in BOOLEAN /\ k \in 0..3 /\ n \in BOOLEAN
      /\ s \in Maybe(Selection) /\ s \in {None, v.charge.selection}
      /\ p \in Maybe(Selection) /\ p \in {None, v.main.remembered}
  <2>1. shown \in Maybe(Order) BY <1>1 DEF ChargeState
  <2>2. g \in 0..1 /\ k \in 0..3 BY <1>1, Small DEF ChargeState
  <2>3. s \in Maybe(Selection) /\ p \in Maybe(Selection)
    BY <1>1, NoneFits DEF ChargeState, MainState
  <2> QED BY <2>1, <2>2, <2>3
<1>3. (shown # None \/ e) => g = 0 BY <1>1 DEF Paged
<1>11. /\ e => v.charge.exit
       /\ \/ shown = order
          \/ /\ order = None /\ v.charge.exit /\ shown = v.charge.order
             /\ v.charge.order.status \in Terminal
  OBVIOUS
<1>4. takeOrder(v, order) = x
  <2>1. [v EXCEPT
           !.charge.order = shown, !.charge.noOrder = n, !.charge.associated = None,
           !.charge.factsFailed = FALSE, !.charge.selGen = g, !.charge.exit = e,
           !.charge.attempt = k, !.charge.selection = s, !.main.remembered = p] = x
    <3> HIDE DEF shown, n, g, e, k, s, p
    <3> QED BY <1>1 DEF Shell
  <2> HIDE DEF x
  <2> QED BY <2>1 DEF takeOrder
<1> HIDE DEF shown, n, g, e, k, s, p
<1>5. /\ d \in ChargeState /\ d.order = shown
  BY <1>1, <1>2, NoneFits DEF ChargeState
<1>6. /\ c.order = shown /\ c.facts = v.charge.facts /\ c.read = v.charge.read
      /\ c.exitFailed = v.charge.exitFailed /\ c.reconcile = facts /\ ~c.factsFailed
      /\ c.active = v.charge.active /\ c.reported = v.charge.reported
      /\ c.mutation = v.charge.mutation /\ c.selection = s /\ c.selGen = g /\ c.exit = e
      /\ c.attempt = k /\ c.gate = v.charge.gate
  BY <1>1 DEF ChargeState
<1>7. c \in ChargeState
  <2> HIDE DEF d
  <2> QED BY <1>5 DEF ChargeState
<1> HIDE DEF d
<1>8. [x EXCEPT !.charge.reconcile = facts] = u /\ x.charge.order = shown
  <2> HIDE DEF m
  <2> QED BY <1>5 DEF Shell
<1> HIDE DEF x, c
<1>9. Paged(c) BY <1>1, <1>3, <1>6 DEF Paged
<1>10. Turns(v, u) /\ u.charge = c
  <2>1. /\ c.mutation = None <=> v.charge.mutation = None
        /\ v.charge.mutation # None => c.mutation.fits = v.charge.mutation.fits
        /\ c.selection \in {None, v.charge.selection}
    BY <1>2, <1>6
  <2> QED BY <1>2, <1>6, <1>7, <1>9, <2>1, ChargeTurn
<1>12. SameMain(u.main, v.main)
  <2>1. SameMain(m, v.main) BY <1>1, <1>2 DEF SameMain, MainState
  <2> HIDE DEF m
  <2>2. u.main = m BY DEF Shell
  <2> QED BY <2>1, <2>2
<1> HIDE DEF u
<1> QED BY <1>4, <1>6, <1>8, <1>10, <1>11, <1>12

LEMMA PageLoaded ==
  ASSUME NEW v \in Shell, Known(v), Told(v), Alone(v), "page" \in Slots(v),
         NEW order \in Maybe(Order)
  PROVE  LET u == pageOrderLoaded(cancelSafeReads(v, {"page"}), order) IN
         Holds(v, u) /\ Apace(v, u)
<1> DEFINE x == cancelSafeReads(v, {"page"})
           r == v.charge.read
           poll == r.op = "poll"
           y == PageAnswered(v)
           n == takeOrder(y, order)
           target == n.charge.order # None \/ n.charge.selection # None
           facts == \/ ~poll /\ v.charge.reconcile /\ target
                    \/ n.charge.order # None /\ n.charge.order.status = "reserved"
                    \/ n.charge.order = None /\ n.charge.selection # None
           t == [n EXCEPT !.charge.reconcile = facts]
           h == Shown(t)
           o == currentAuthorityObserved(h, "page", order, TRUE, r.owner)
           f == requestFacts(o, facts, o.charge.exit)
           u == pageOrderLoaded(x, order)
<1>1. x.charge = v.charge BY CancelReads
<1>2. /\ v.charge \in ChargeState /\ Paged(v.charge) /\ r # None /\ r \in PageRead
      /\ v.charge.active /\ r.selGen = v.charge.selGen
  BY Parts DEF Known, Paged, ChargeState, Maybe
<1>3. /\ Turns(v, y) /\ y.charge = [v.charge EXCEPT !.read = None]
      /\ Reported(v) => Reported(y)
      /\ Rendered(v) => Rendered(y)
  BY PageReadOver
<1>4. y = [x EXCEPT !.charge.read = None] BY DEF PageAnswered
<1> HIDE DEF y
<1>5. /\ y \in Shell /\ Known(y) /\ Told(y) /\ Alone(y)
      /\ y.charge.active /\ y.charge.read = None /\ y.charge.facts = v.charge.facts
      /\ y.charge.exitFailed = v.charge.exitFailed
  BY <1>2, <1>3, AloneTurns DEF Turns, ChargeState
<1>6. Holds(v, y) /\ Apace(v, y) BY <1>3 DEF Turns, Holds
<1>7. u = IF ~v.charge.current THEN y
          ELSE IF poll /\ v.charge.order # None /\ order # None /\ order.id # v.charge.order.id
               THEN observeAuthoritativeCurrent(y, "page", order)
          ELSE IF ~poll /\ target THEN f ELSE o
  <2>1. u = IF ~x.charge.active \/ x.charge.read.selGen # x.charge.selGen \/ ~x.charge.current THEN y
            ELSE IF poll /\ v.charge.order # None /\ order # None /\ order.id # v.charge.order.id
                 THEN observeAuthoritativeCurrent(y, "page", order)
            ELSE IF ~poll /\ target THEN f ELSE o
    BY <1>1, <1>4 DEF pageOrderLoaded
  <2> HIDE DEF u, f, o, poll, target
  <2> QED BY <1>1, <1>2, <2>1
<1>8. CASE ~v.charge.current
  BY <1>6, <1>7, <1>8
<1>9. CASE /\ v.charge.current
           /\ poll /\ v.charge.order # None /\ order # None /\ order.id # v.charge.order.id
  <2>1. u = observeAuthoritativeCurrent(y, "page", order) BY <1>7, <1>9
  <2> HIDE DEF u
  <2>2. Holds(y, u) /\ Apace(y, u) BY <1>5, <2>1, ObserveCurrent DEF Resolves
  <2> QED BY <1>6, <2>2, HoldsTrans, ApaceTrans DEF u
<1>10. CASE /\ v.charge.current
            /\ ~(poll /\ v.charge.order # None /\ order # None /\ order.id # v.charge.order.id)
  <2>1. u = IF ~poll /\ target THEN f ELSE o BY <1>7, <1>10
  <2>2. facts \in BOOLEAN OBVIOUS
  <2>3. facts => n.charge.order # None \/ n.charge.selection # None OBVIOUS
  <2>4. target /\ ~facts => n.charge.order # None OBVIOUS
  <2>5. ~poll => v.charge.facts = None /\ ~v.charge.exitFailed
    <3>1. ~poll => r.op = "reconcile" BY <1>2 DEF PageRead
    <3> QED BY <1>2, <3>1 DEF Paged
  <2> HIDE DEF u, facts
  <2>6. /\ Turns(y, t)
        /\ t.charge.order = n.charge.order
        /\ t.charge.facts = v.charge.facts /\ t.charge.read = None
        /\ t.charge.exitFailed = v.charge.exitFailed
        /\ t.charge.reconcile = facts /\ ~t.charge.factsFailed
    BY <1>5, <2>2, TakeOrder
  <2> HIDE DEF t, n, target, poll
  <2>7. t \in Shell /\ Known(t) /\ Told(t) BY <2>6 DEF Turns
  <2>8. /\ Settles(t, h) /\ Quiet(t.charge, h.charge)
        /\ facts => h.charge.reconcile
    <3>1. facts => chargeFlowBlocked(t.charge) BY <2>6 DEF chargeFlowBlocked
    <3> QED BY <2>6, <2>7, <3>1, ShownSettles, ShownQuiet
  <2> HIDE DEF h
  <2>9. /\ h \in Shell /\ Known(h) /\ Told(h) /\ Reported(h) /\ Rendered(h)
        /\ h.charge.order = n.charge.order
    BY <2>6, <2>8 DEF Settles, Moves, Within, Frame
  <2>10. Holds(v, h) /\ Apace(v, h)
    BY <1>3, <2>6, <2>8, TurnsTrans, TurnsSettled, TurnsHolds
  <2>11. Holds(h, o) /\ Apace(h, o) /\ o.charge = h.charge
    <3>1. TRUE \in BOOLEAN OBVIOUS
    <3>2. h \in Shell /\ Known(h) /\ Told(h) BY <2>9
    <3>3. Holds(h, o) /\ Resolves(h, "page", o) /\ o.charge = h.charge
      BY <3>1, <3>2, Observed
    <3> QED BY <3>3 DEF Resolves
  <2> HIDE DEF o
  <2>12. o \in Shell /\ Known(o) /\ Told(o) /\ Reported(o)
    BY <2>9, <2>11 DEF Holds
  <2>13. CASE ~poll /\ target
    <3>1. o.charge.exit \in BOOLEAN BY <2>12, Parts DEF ChargeState
    <3>2. /\ o.charge.facts = None /\ o.charge.read = None /\ ~o.charge.exitFailed
          /\ ~o.charge.factsFailed
      BY <2>5, <2>6, <2>8, <2>11, <2>13 DEF Quiet
    <3>3. o.charge.order # None \/ facts BY <2>4, <2>9, <2>11, <2>13
    <3>4. /\ Moves(o, f)
          /\ Reported(o) => Reported(f)
          /\ Heard(o) => Heard(f)
          /\ Rendered(o) => Rendered(f)
      BY <2>2, <2>8, <2>11, <2>12, <3>1, <3>2, <3>3, RequestFacts, ReportedHeard
    <3> HIDE DEF f
    <3>5. Holds(o, f) /\ Apace(o, f) BY <3>4, MovesKeeps, KeepsHolds
    <3> QED BY <2>1, <2>10, <2>11, <2>13, <3>5, HoldsTrans, ApaceTrans DEF u
  <2>14. CASE ~(~poll /\ target)
    <3> HIDE DEF f
    <3> QED BY <2>1, <2>10, <2>11, <2>14, HoldsTrans, ApaceTrans DEF u
  <2> QED BY <2>13, <2>14
<1> QED BY <1>8, <1>9, <1>10

-----------------------------------------------------------------------------
(* The page of an order is entered, left, or has an outcome: it gives up   *)
(* its reads, whatever it was and whatever it becomes.                     *)

LEMMA RefreshGone ==
  ASSUME NEW x \in Shell, NEW y \in Shell, y.api = x.api, y.nearby = x.nearby,
         y.history = x.history
  PROVE  LET a == cancelChargeRefresh(x)
             b == cancelChargeRefresh(y)
         IN  /\ a = [api |-> a.api, charge |-> x.charge, nearby |-> a.nearby,
                     history |-> x.history, main |-> x.main]
             /\ b = [api |-> a.api, charge |-> y.charge, nearby |-> a.nearby,
                     history |-> x.history, main |-> y.main]
<1> DEFINE q(z) == [api |-> [z.api EXCEPT
                               !.reads = [s \in DOMAIN z.api.reads \ {"list"} |-> z.api.reads[s]],
                               !.replayed = z.api.replayed \ {"list"}],
                    charge |-> z.charge,
                    nearby |-> [z.nearby EXCEPT
                                  !.list = None,
                                  !.search = IF z.nearby.foreground THEN z.nearby.search
                                             ELSE z.api.up],
                    history |-> z.history, main |-> z.main]
           p(z) == IF z.nearby.list # None /\ z.nearby.list.kind = "charge" THEN q(z) ELSE z
           g(z) == [api |-> p(z).api, charge |-> z.charge,
                    nearby |-> [p(z).nearby EXCEPT !.refresh = None],
                    history |-> z.history, main |-> z.main]
<1>1. ASSUME NEW z \in Shell PROVE cancelChargeRefresh(z) = g(z)
  <2>1. cancelPendingStationList(z) = q(z)
    <3> DEFINE a == [z.api EXCEPT
                       !.reads = [s \in DOMAIN z.api.reads \ {"list"} |-> z.api.reads[s]],
                       !.replayed = z.api.replayed \ {"list"}]
               k == [z EXCEPT !.api = a]
    <3>1. cancelSafeReads(z, {"list"}) = k BY <1>1 DEF cancelSafeReads, Shell
    <3>2. a.up = z.api.up /\ z.api.up \in BOOLEAN BY <1>1, Parts DEF ApiState
    <3>3. z.nearby \in NearbyState BY <1>1, Parts
    <3> HIDE DEF a
    <3>4. /\ z.nearby.foreground =>
               [k EXCEPT !.nearby.list = None] =
                 [api |-> a, charge |-> z.charge,
                  nearby |-> [z.nearby EXCEPT !.list = None, !.search = z.nearby.search],
                  history |-> z.history, main |-> z.main]
          /\ setSearchPending([k EXCEPT !.nearby.list = None], FALSE) =
               [api |-> a, charge |-> z.charge,
                nearby |-> [z.nearby EXCEPT !.list = None, !.search = z.api.up],
                history |-> z.history, main |-> z.main]
      <4> DEFINE n == z.nearby
                 l == [n EXCEPT !.list = None]
                 c == z.charge
                 h == z.history
                 m == z.main
                 j == [k EXCEPT !.nearby.list = None]
      <4>1. k = [api |-> a, charge |-> c, nearby |-> n, history |-> h, main |-> m]
        BY <1>1 DEF Shell
      <4>2. [n EXCEPT !.list = None, !.search = n.search] = l
            /\ [n EXCEPT !.list = None, !.search = z.api.up] = [l EXCEPT !.search = z.api.up]
        BY <3>3 DEF NearbyState
      <4> HIDE DEF k, c, h, m, n
      <4>3. j = [api |-> a, charge |-> c, nearby |-> l, history |-> h, main |-> m]
        BY <4>1
      <4> HIDE DEF l, j
      <4>4. setSearchPending(j, FALSE) = [api |-> a, charge |-> c,
                                          nearby |-> [l EXCEPT !.search = z.api.up],
                                          history |-> h, main |-> m]
        <5> DEFINE b == j.api.up /\ ~FALSE
        <5>1. b = z.api.up BY <3>2, <4>3
        <5>2. setSearchPending(j, FALSE) = [j EXCEPT !.nearby.search = b]
          BY DEF setSearchPending
        <5> HIDE DEF b
        <5> QED BY <4>3, <5>1, <5>2
      <4> QED BY <4>2, <4>3, <4>4 DEF j, c, h, m, n
    <3> HIDE DEF k
    <3> QED BY <3>1, <3>4 DEF cancelPendingStationList, a
  <2> HIDE DEF q
  <2>2. p(z) = [api |-> p(z).api, charge |-> z.charge, nearby |-> p(z).nearby,
                history |-> z.history, main |-> z.main]
    BY <1>1 DEF Shell, q
  <2>3. cancelChargeRefresh(z) = resetChargeRefresh(p(z))
    BY <2>1 DEF cancelChargeRefresh
  <2> HIDE DEF p
  <2> QED BY <2>2, <2>3 DEF resetChargeRefresh
<1>2. p(x).api = p(y).api /\ p(x).nearby = p(y).nearby OBVIOUS
<1> HIDE DEF p
<1> QED BY <1>1, <1>2

With(v, d, m) == [v EXCEPT !.charge = d, !.main = m]

\* The page and the window are others, and the page awaits nothing.
Anew(v, e, n) == With(cancelOwnedSafeReads(v), e, n)

LEMMA OwnedParts ==
  ASSUME NEW v \in Shell, NEW d \in ChargeState, NEW m \in MainState, NEW e, NEW n
  PROVE  Anew(With(v, d, m), e, n) = Anew(v, e, n)
<1> DEFINE c(z) == [z.charge EXCEPT
                      !.read = None, !.facts = None, !.gate = FALSE,
                      !.attempt = IF z.charge.exit THEN 0 ELSE z.charge.attempt,
                      !.current = TRUE]
           k(z) == [cancelSafeReads(z, {"page", "facts"}) EXCEPT !.charge = c(z)]
           u == [v EXCEPT !.charge = d, !.main = m]
<1>1. ASSUME NEW z \in Shell
      PROVE  /\ cancelOwnedSafeReads(z) = cancelChargeRefresh(k(z)) /\ k(z) \in Shell
             /\ k(z).api = cancelSafeReads(z, {"page", "facts"}).api
             /\ k(z).nearby = z.nearby /\ k(z).history = z.history
  <2> DEFINE y == cancelSafeReads(z, {"page", "facts"})
             a == z.charge
             f == c(z)
             i == IF a.exit THEN 0 ELSE a.attempt
  <2>1. /\ y \in Shell /\ y.charge = a /\ y.nearby = z.nearby /\ y.history = z.history
    BY <1>1, CancelReads
  <2>2. a \in ChargeState BY <1>1, Parts
  <2>3. i \in 0..3 BY <2>2, Small DEF ChargeState
  <2>4. f \in ChargeState
    <3> HIDE DEF a, i
    <3>1. f = [a EXCEPT !.read = None, !.facts = None, !.gate = FALSE, !.attempt = i,
                        !.current = TRUE]
      BY DEF a, i
    <3> HIDE DEF f
    <3> QED BY <2>2, <2>3, <3>1, NoneFits DEF ChargeState
  <2>5. [y EXCEPT !.charge.read = None, !.charge.facts = None, !.charge.gate = FALSE,
                  !.charge.attempt = i, !.charge.current = TRUE] = k(z)
    <3> DEFINE g == [a EXCEPT !.read = None, !.facts = None, !.gate = FALSE, !.attempt = i,
                              !.current = TRUE]
    <3>1. k(z) = [y EXCEPT !.charge = g] OBVIOUS
    <3> HIDE DEF y, a, i, k
    <3> QED BY <2>1, <3>1 DEF Shell
  <2>6. cancelOwnedSafeReads(z) = cancelChargeRefresh(k(z))
    <3>1. cancelOwnedSafeReads(z) =
            cancelChargeRefresh(
              [y EXCEPT !.charge.read = None, !.charge.facts = None, !.charge.gate = FALSE,
                        !.charge.attempt = IF a.exit THEN 0 ELSE @, !.charge.current = TRUE])
      BY DEF cancelOwnedSafeReads
    <3>2. [y EXCEPT !.charge.read = None, !.charge.facts = None, !.charge.gate = FALSE,
                    !.charge.attempt = IF a.exit THEN 0 ELSE @, !.charge.current = TRUE]
            = [y EXCEPT !.charge.read = None, !.charge.facts = None, !.charge.gate = FALSE,
                        !.charge.attempt = i, !.charge.current = TRUE]
      <4> HIDE DEF y, a
      <4> QED BY <2>1, <2>2 DEF Shell, ChargeState
    <3> HIDE DEF y, a, i, k
    <3> QED BY <2>5, <3>1, <3>2
  <2> HIDE DEF y, f, a
  <2>7. k(z) = [y EXCEPT !.charge = f] BY DEF y, f, a
  <2> HIDE DEF k
  <2> QED BY <2>1, <2>4, <2>6, <2>7 DEF Shell, y
<1>2. /\ u \in Shell /\ u.api = v.api /\ u.nearby = v.nearby /\ u.history = v.history
  BY DEF Shell
<1> HIDE DEF u
<1>3. cancelSafeReads(u, {"page", "facts"}).api = cancelSafeReads(v, {"page", "facts"}).api
  BY <1>2 DEF cancelSafeReads, Shell
<1> DEFINE a == cancelChargeRefresh(k(v))
           b == cancelChargeRefresh(k(u))
<1>4. /\ a = [api |-> a.api, charge |-> k(v).charge, nearby |-> a.nearby,
              history |-> k(v).history, main |-> k(v).main]
      /\ b = [api |-> a.api, charge |-> k(u).charge, nearby |-> a.nearby,
              history |-> k(v).history, main |-> k(u).main]
  <2> HIDE DEF k
  <2> QED BY <1>1, <1>2, <1>3, RefreshGone
<1>5. cancelOwnedSafeReads(v) = a /\ cancelOwnedSafeReads(u) = b BY <1>1, <1>2
<1> HIDE DEF a, b, k
<1>6. [b EXCEPT !.charge = e, !.main = n] = [a EXCEPT !.charge = e, !.main = n]
  <2> DEFINE p == a.api
             q == a.nearby
             r == k(v).history
             s == k(v).charge
             t == k(u).charge
             f == k(v).main
             g == k(u).main
  <2>1. /\ a = [api |-> p, charge |-> s, nearby |-> q, history |-> r, main |-> f]
        /\ b = [api |-> p, charge |-> t, nearby |-> q, history |-> r, main |-> g]
    BY <1>4
  <2> HIDE DEF p, q, r, s, t, f, g
  <2> DEFINE x == [a EXCEPT !.charge = e]
             y == [b EXCEPT !.charge = e]
  <2>2. /\ [a EXCEPT !.charge = e, !.main = n] = [x EXCEPT !.main = n]
        /\ [b EXCEPT !.charge = e, !.main = n] = [y EXCEPT !.main = n]
    OBVIOUS
  <2>3. /\ x = [api |-> p, charge |-> e, nearby |-> q, history |-> r, main |-> f]
        /\ y = [api |-> p, charge |-> e, nearby |-> q, history |-> r, main |-> g]
    BY <2>1
  <2> HIDE DEF x, y
  <2>4. [x EXCEPT !.main = n] = [y EXCEPT !.main = n] BY <2>3
  <2> QED BY <2>2, <2>4
<1> QED BY <1>5, <1>6 DEF u, With, Anew

\* What the page of an order leaves alone, whatever becomes of it.
Beside(v, u) ==
  /\ u \in Shell /\ Known(u) /\ Told(u) /\ u.history = v.history
  /\ u.api.up = v.api.up /\ u.api.user = v.api.user /\ u.api.ops = v.api.ops
  /\ \A s \in {"guard", "login", "reconnect", "history"} : s \in Slots(u) <=> s \in Slots(v)
  /\ Sent(v, u)
  /\ Listed(v) => Listed(u)

LEMMA BesideTrans ==
  ASSUME NEW a, NEW b, NEW c, Beside(a, b), Beside(b, c) PROVE Beside(a, c)
BY DEF Beside, Sent

LEMMA MovesBeside ==
  ASSUME NEW v, NEW u, Moves(v, u) PROVE Beside(v, u)
BY DEF Moves, Within, Frame, Beside, Sent

LEMMA Replaced ==
  ASSUME NEW v \in Shell, Known(v), Told(v), NEW e \in ChargeState, e.facts = None,
         e.read = None, Paged(e), NEW n \in MainState, n.blocked = e.reported
  PROVE  LET u == Anew(v, e, n) IN Beside(v, u) /\ u.charge = e /\ u.main = n
<1> DEFINE x == cancelOwnedSafeReads(v)
           u == [x EXCEPT !.charge = e, !.main = n]
<1>1. Moves(v, x) /\ x.charge.facts = None /\ x.charge.read = None
  <2>1. v.charge \in ChargeState BY Parts
  <2>2. Moves(v, x)
        /\ x.charge = [v.charge EXCEPT
                         !.read = None, !.facts = None, !.gate = FALSE,
                         !.attempt = IF v.charge.exit THEN 0 ELSE @, !.current = TRUE]
    BY GiveUpOwned
  <2> HIDE DEF x
  <2> QED BY <2>1, <2>2 DEF ChargeState
<1>2. u = Anew(v, e, n) BY DEF Anew, With
<1> HIDE DEF x
<1>3. x \in Shell /\ Known(x) /\ Beside(v, x) BY <1>1, MovesBeside DEF Moves
<1>4. /\ u \in Shell /\ u.charge = e /\ u.main = n /\ u.api = x.api /\ u.nearby = x.nearby
      /\ u.history = x.history
  BY <1>3 DEF Shell
<1> HIDE DEF u
<1>5. Slots(u) = Slots(x) BY <1>4 DEF Slots
<1>6. Known(u) /\ Told(u) BY <1>1, <1>3, <1>4, <1>5 DEF Known, Told
<1>7. Beside(x, u) BY <1>4, <1>5, <1>6 DEF Beside, Sent, Listed
<1> QED BY <1>2, <1>3, <1>4, <1>7, BesideTrans

GivenUp(c) ==
  [c EXCEPT !.read = None, !.facts = None, !.gate = FALSE,
            !.attempt = IF c.exit THEN 0 ELSE c.attempt, !.current = TRUE]

LEMMA OwnedRecord ==
  ASSUME NEW v \in Shell, NEW z \in Shell, z.api = v.api, z.nearby = v.nearby,
         z.history = v.history
  PROVE  LET x == cancelOwnedSafeReads(z) IN
         /\ x = [api |-> x.api, charge |-> GivenUp(z.charge), nearby |-> x.nearby,
                 history |-> z.history, main |-> z.main]
         /\ GivenUp(z.charge) \in ChargeState
         /\ \A e, n : With(x, e, n) = Anew(v, e, n)
<1> DEFINE y == cancelSafeReads(z, {"page", "facts"})
           a == z.charge
           g == GivenUp(a)
           k == [y EXCEPT !.charge = g]
           x == cancelOwnedSafeReads(z)
<1>1. y \in Shell /\ y.charge = a /\ y.nearby = z.nearby /\ y.history = z.history /\ y.main = z.main
  BY CancelReads
<1>2. a \in ChargeState BY Parts
<1>3. g \in ChargeState
  <2> DEFINE i == IF a.exit THEN 0 ELSE a.attempt
  <2>1. i \in 0..3 BY <1>2, Small DEF ChargeState
  <2>2. g = [a EXCEPT !.read = None, !.facts = None, !.gate = FALSE, !.attempt = i,
                      !.current = TRUE]
    BY DEF GivenUp
  <2> HIDE DEF g, i, a
  <2> QED BY <1>2, <2>1, <2>2, NoneFits DEF ChargeState
<1>4. x = cancelChargeRefresh(k)
  <2>1. x = cancelChargeRefresh(
              [y EXCEPT !.charge.read = None, !.charge.facts = None, !.charge.gate = FALSE,
                        !.charge.attempt = IF a.exit THEN 0 ELSE @, !.charge.current = TRUE])
    BY DEF cancelOwnedSafeReads
  <2>2. [y EXCEPT !.charge.read = None, !.charge.facts = None, !.charge.gate = FALSE,
                  !.charge.attempt = IF a.exit THEN 0 ELSE @, !.charge.current = TRUE] = k
    <3> HIDE DEF y, a
    <3> QED BY <1>1, <1>2 DEF Shell, ChargeState, GivenUp
  <2> HIDE DEF x, y, a, k
  <2> QED BY <2>1, <2>2
<1> HIDE DEF y, g, a, x
<1>5. /\ k \in Shell /\ k.charge = g /\ k.nearby = z.nearby /\ k.history = z.history
      /\ k.main = z.main
  BY <1>1, <1>3 DEF Shell
<1> HIDE DEF k
<1>6. x = [api |-> x.api, charge |-> g, nearby |-> x.nearby, history |-> z.history,
           main |-> z.main]
  BY <1>4, <1>5, RefreshGone
<1>7. \A e, n : With(x, e, n) = Anew(v, e, n)
  <2> TAKE e, n
  <2>1. z = With(v, z.charge, z.main) BY DEF Shell, With
  <2>2. z.charge \in ChargeState /\ z.main \in MainState BY Parts
  <2>3. Anew(With(v, z.charge, z.main), e, n) = Anew(v, e, n)
    BY <2>2, OwnedParts
  <2> QED BY <2>1, <2>3 DEF Anew, x
<1> QED BY <1>3, <1>6, <1>7 DEF x, g, a

LEMMA WithRecord ==
  ASSUME NEW x, NEW a, NEW c, NEW b, NEW h, NEW m, NEW d, NEW n,
         x = [api |-> a, charge |-> c, nearby |-> b, history |-> h, main |-> m]
  PROVE  With(x, d, n) = [api |-> a, charge |-> d, nearby |-> b, history |-> h, main |-> n]
<1> DEFINE y == [x EXCEPT !.charge = d]
<1>1. With(x, d, n) = [y EXCEPT !.main = n] BY DEF With
<1>2. y = [api |-> a, charge |-> d, nearby |-> b, history |-> h, main |-> m] OBVIOUS
<1> HIDE DEF y
<1>3. [y EXCEPT !.main = n] = [api |-> a, charge |-> d, nearby |-> b, history |-> h, main |-> n]
  BY <1>2
<1> QED BY <1>1, <1>3

LEMMA AnewAgain ==
  ASSUME NEW v \in Shell, NEW d, NEW m, NEW e, NEW n
  PROVE  LET u == Anew(v, d, m) IN
         /\ u.charge = d /\ u.main = m
         /\ u = [api |-> u.api, charge |-> d, nearby |-> u.nearby, history |-> v.history,
                 main |-> m]
         /\ With(u, e, n) = Anew(v, e, n)
<1> DEFINE x == cancelOwnedSafeReads(v)
           a == x.api
           b == x.nearby
           c == GivenUp(v.charge)
           u == Anew(v, d, m)
<1>1. x = [api |-> a, charge |-> c, nearby |-> b, history |-> v.history, main |-> v.main]
  BY OwnedRecord
<1>2. u = With(x, d, m) /\ Anew(v, e, n) = With(x, e, n) BY DEF Anew
<1> HIDE DEF x, a, b, c, u
<1>3. /\ u = [api |-> a, charge |-> d, nearby |-> b, history |-> v.history, main |-> m]
      /\ With(x, e, n) = [api |-> a, charge |-> e, nearby |-> b, history |-> v.history, main |-> n]
  BY <1>1, <1>2, WithRecord
<1>4. With(u, e, n) = [api |-> a, charge |-> e, nearby |-> b, history |-> v.history, main |-> n]
  BY <1>3, WithRecord
<1>5. u.charge = d /\ u.main = m /\ u.api = a /\ u.nearby = b BY <1>3
<1> QED BY <1>2, <1>3, <1>4, <1>5 DEF u

Begun(c, g) ==
  [c EXCEPT !.mutation = unfit(c.mutation), !.selGen = g,
            !.read = None, !.facts = None, !.gate = FALSE, !.attempt = 0, !.current = TRUE,
            !.active = TRUE, !.reconcile = FALSE, !.factsFailed = FALSE, !.exit = FALSE,
            !.exitFailed = FALSE, !.noOrder = FALSE, !.polling = FALSE]

LEMMA NextPage ==
  ASSUME NEW v \in Shell
  PROVE  LET m == unfit(v.charge.mutation) IN
         /\ m \in Maybe(PageMutation) /\ (m = None <=> v.charge.mutation = None)
         /\ nextPage(v) = [v EXCEPT !.charge = [v.charge EXCEPT !.mutation = m]]
<1>1. v.charge.mutation \in Maybe(PageMutation) BY Parts DEF ChargeState
<1>2. ASSUME NEW x \in PageMutation
      PROVE  unfit(x) \in PageMutation /\ unfit(x) # None
  <2>1. x # None BY NoneAssumption DEF NoneAssumption
  <2>2. unfit(x) = [x EXCEPT !.fits = FALSE] BY <2>1 DEF unfit
  <2> DEFINE y == [x EXCEPT !.fits = FALSE]
  <2>3. y \in PageMutation BY DEF PageMutation
  <2> HIDE DEF y
  <2> QED BY <2>2, <2>3, NoneAssumption DEF NoneAssumption, y
<1>3. unfit(None) = None BY DEF unfit
<1>4. nextPage(v) = [v EXCEPT !.charge = [v.charge EXCEPT !.mutation = unfit(v.charge.mutation)]]
  <2> DEFINE m == unfit(v.charge.mutation)
  <2>1. nextPage(v) = [v EXCEPT !.charge.mutation = m]
    BY DEF nextPage, unfit, Shell, ChargeState
  <2> HIDE DEF m
  <2> QED BY <2>1 DEF m, Shell
<1> QED BY <1>1, <1>2, <1>3, <1>4, NoneFits DEF Maybe

LEMMA BeginPage ==
  ASSUME NEW v \in Shell, NEW g \in 0..1
  PROVE  LET d == Begun(v.charge, g) IN
         /\ beginPage(v, g) = Anew(v, d, v.main)
         /\ d \in ChargeState
         /\ d.active /\ d.read = None /\ d.facts = None /\ ~d.gate /\ d.attempt = 0
         /\ ~d.reconcile /\ ~d.factsFailed /\ ~d.exit /\ ~d.exitFailed /\ d.selGen = g
         /\ d.mutation = None <=> v.charge.mutation = None
         /\ d.order = v.charge.order /\ d.selection = v.charge.selection
         /\ d.reported = v.charge.reported /\ d.associated = v.charge.associated
<1> DEFINE f == unfit(v.charge.mutation)
           c == [v.charge EXCEPT !.mutation = f, !.selGen = g]
           y == [v EXCEPT !.charge = c]
           x == cancelOwnedSafeReads(y)
           k == GivenUp(c)
           d == Begun(v.charge, g)
           e == [k EXCEPT !.active = TRUE, !.reconcile = FALSE, !.factsFailed = FALSE,
                          !.exit = FALSE, !.exitFailed = FALSE, !.attempt = 0,
                          !.noOrder = FALSE, !.polling = FALSE]
<1>1. v.charge \in ChargeState BY Parts
<1>2. /\ f \in Maybe(PageMutation) /\ (f = None <=> v.charge.mutation = None)
      /\ nextPage(v) = [v EXCEPT !.charge = [v.charge EXCEPT !.mutation = f]]
  BY NextPage
<1> HIDE DEF f
<1>3. [nextPage(v) EXCEPT !.charge.selGen = g] = y BY <1>1, <1>2 DEF Shell
<1>4. c \in ChargeState BY <1>1, <1>2 DEF ChargeState
<1>5. d = e
  <2>1. d = [v.charge EXCEPT
               !.mutation = f, !.selGen = g,
               !.read = None, !.facts = None, !.gate = FALSE, !.attempt = 0, !.current = TRUE,
               !.active = TRUE, !.reconcile = FALSE, !.factsFailed = FALSE, !.exit = FALSE,
               !.exitFailed = FALSE, !.noOrder = FALSE, !.polling = FALSE]
    BY DEF Begun, f
  <2> DEFINE a == v.charge
             i == IF c.exit THEN 0 ELSE c.attempt
  <2>2. k = [c EXCEPT !.read = None, !.facts = None, !.gate = FALSE, !.attempt = i,
                      !.current = TRUE]
    BY DEF GivenUp
  <2> HIDE DEF i, k
  <2> QED BY <1>1, <2>1, <2>2 DEF ChargeState
<1>6. e \in ChargeState
  <2> HIDE DEF c, k
  <2>1. k \in ChargeState
    <3>1. y \in Shell /\ y.charge = c BY <1>4 DEF Shell
    <3> HIDE DEF y
    <3> QED BY <3>1, OwnedRecord DEF k
  <2> QED BY <2>1, Small DEF ChargeState
<1>7. /\ d.active /\ d.read = None /\ d.facts = None /\ ~d.gate /\ d.attempt = 0
      /\ ~d.reconcile /\ ~d.factsFailed /\ ~d.exit /\ ~d.exitFailed /\ d.selGen = g
      /\ d.mutation = f
      /\ d.order = v.charge.order /\ d.selection = v.charge.selection
      /\ d.reported = v.charge.reported /\ d.associated = v.charge.associated
  BY <1>1 DEF Begun, ChargeState, f
<1>8. beginPage(v, g) = Anew(v, d, v.main)
  <2>1. y \in Shell /\ y.api = v.api /\ y.nearby = v.nearby /\ y.history = v.history
        /\ y.charge = c /\ y.main = v.main
    BY <1>4 DEF Shell
  <2> HIDE DEF y, c
  <2>2. /\ x = [api |-> x.api, charge |-> k, nearby |-> x.nearby, history |-> y.history,
                main |-> y.main]
        /\ With(x, e, v.main) = Anew(v, e, v.main)
    <3> HIDE DEF x, e, k
    <3>1. LET z == cancelOwnedSafeReads(y) IN
          /\ z = [api |-> z.api, charge |-> GivenUp(y.charge), nearby |-> z.nearby,
                  history |-> y.history, main |-> y.main]
          /\ \A a, n : With(z, a, n) = Anew(v, a, n)
      BY <2>1, OwnedRecord
    <3> QED BY <2>1, <3>1 DEF x, k
  <2>3. beginPage(v, g) = [x EXCEPT !.charge.active = TRUE, !.charge.reconcile = FALSE,
                                    !.charge.factsFailed = FALSE, !.charge.exit = FALSE,
                                    !.charge.exitFailed = FALSE, !.charge.attempt = 0,
                                    !.charge.noOrder = FALSE, !.charge.polling = FALSE]
    BY <1>3 DEF beginPage
  <2> HIDE DEF x, k
  <2>4. x.charge = k /\ x.main = v.main BY <2>1, <2>2
  <2>5. [x EXCEPT !.charge.active = TRUE, !.charge.reconcile = FALSE,
                  !.charge.factsFailed = FALSE, !.charge.exit = FALSE,
                  !.charge.exitFailed = FALSE, !.charge.attempt = 0,
                  !.charge.noOrder = FALSE, !.charge.polling = FALSE]
          = With(x, e, v.main)
    BY <2>2, <2>4 DEF With
  <2> QED BY <1>5, <2>2, <2>3, <2>5
<1> QED BY <1>2, <1>5, <1>6, <1>7, <1>8

\* The page is entered for an order or for a selection, and awaits nothing yet.
Enters(v, u) ==
  /\ Beside(v, u) /\ u.main = v.main /\ Rendered(u) /\ u.charge.active
  /\ u.charge.facts = None /\ u.charge.read = None /\ ~u.charge.exitFailed
  /\ ~u.charge.reconcile /\ ~u.charge.factsFailed /\ ~u.charge.exit
  /\ u.charge.mutation = None <=> v.charge.mutation = None
  /\ u.charge.reported = v.charge.reported
  /\ v.charge.mutation = None => ~chargeFlowBlocked(u.charge)

PageFor(v, g, s, order, a) ==
  [beginPage(v, g) EXCEPT !.charge.selection = s, !.charge.order = order,
                          !.charge.associated = a]

LEMMA Entered ==
  ASSUME NEW v \in Shell, Known(v), Told(v), NEW g \in 0..1, NEW s \in Maybe(Selection),
         NEW order \in Maybe(Order), NEW a \in Maybe(Associated), order # None => g = 0
  PROVE  LET u == render(PageFor(v, g, s, order, a)) IN
         /\ Enters(v, u)
         /\ u.charge.selection = s /\ u.charge.order = order
<1> DEFINE d == Begun(v.charge, g)
           c == [d EXCEPT !.selection = s, !.order = order, !.associated = a]
           z == Anew(v, d, v.main)
           y == PageFor(v, g, s, order, a)
           u == render(y)
<1>1. /\ beginPage(v, g) = z /\ d \in ChargeState
      /\ d.active /\ d.read = None /\ d.facts = None /\ ~d.gate /\ d.attempt = 0
      /\ ~d.reconcile /\ ~d.factsFailed /\ ~d.exit /\ ~d.exitFailed /\ d.selGen = g
      /\ d.mutation = None <=> v.charge.mutation = None
      /\ d.reported = v.charge.reported
  BY BeginPage
<1> HIDE DEF d
<1>2. /\ c \in ChargeState /\ c.selection = s /\ c.order = order
      /\ c.active /\ c.read = None /\ c.facts = None /\ ~c.gate
      /\ ~c.reconcile /\ ~c.factsFailed /\ ~c.exit /\ ~c.exitFailed /\ c.selGen = g
      /\ c.mutation = d.mutation /\ c.reported = v.charge.reported
  <2>1. c \in ChargeState BY <1>1 DEF ChargeState
  <2> QED BY <1>1, <2>1 DEF ChargeState
<1>3. y = Anew(v, c, v.main)
  <2>1. /\ z.charge = d /\ z.main = v.main
        /\ z = [api |-> z.api, charge |-> d, nearby |-> z.nearby, history |-> v.history,
                main |-> v.main]
        /\ With(z, c, v.main) = Anew(v, c, v.main)
    <3> HIDE DEF c
    <3> QED BY AnewAgain
  <2>2. y = [z EXCEPT !.charge.selection = s, !.charge.order = order, !.charge.associated = a]
    BY <1>1 DEF PageFor
  <2> HIDE DEF z, y
  <2>3. y = With(z, c, v.main) BY <2>1, <2>2 DEF With
  <2> QED BY <2>1, <2>3
<1> HIDE DEF c, y
<1>4. Paged(c) BY <1>2 DEF Paged
<1>5. Beside(v, y) /\ y.charge = c /\ y.main = v.main
  <2>1. v.main \in MainState /\ v.main.blocked = c.reported BY <1>2, Parts DEF Told
  <2>2. c \in ChargeState /\ c.facts = None /\ c.read = None BY <1>2
  <2> QED BY <1>3, <1>4, <2>1, <2>2, Replaced
<1>6. y \in Shell /\ Known(y) /\ Told(y) BY <1>5 DEF Beside
<1>7. /\ Rendered(u) /\ u.main = y.main /\ Moves(y, u) /\ SameOrder(u.charge, c)
  BY <1>5, <1>6, Render, RenderSame, RenderKeeps
<1> HIDE DEF u
<1>8. Beside(v, u) BY <1>5, <1>7, MovesBeside, BesideTrans
<1>9. v.charge.mutation = None => ~chargeFlowBlocked(u.charge)
  BY <1>1, <1>2, <1>7 DEF SameOrder, chargeFlowBlocked
<1> QED BY <1>1, <1>2, <1>5, <1>7, <1>8, <1>9 DEF Enters, SameOrder, u, y

LEMMA EnterOrder ==
  ASSUME NEW v \in Shell, Known(v), Told(v), NEW order \in Order
  PROVE  LET u == enterOrder(v, order) IN
         /\ Enters(v, u) /\ u.charge.order = order
         /\ u.charge.selection \in {None, v.main.remembered}
         /\ Withdrawn(v) => Withdrawn(u)
<1> DEFINE kept == IF matching(v.main.remembered, order) THEN v.main.remembered ELSE None
           a == IF kept = None THEN None ELSE [charger |-> kept.charger, status |-> kept.status]
           y == PageFor(v, 0, kept, order, a)
           u == enterOrder(v, order)
<1>1. u = render(y) BY DEF enterOrder, PageFor
<1>2. kept \in Maybe(Selection) /\ kept \in {None, v.main.remembered}
  BY Parts, NoneFits DEF MainState
<1> HIDE DEF kept
<1>3. a \in Maybe(Associated) BY <1>2, NoneFits DEF Maybe, Selection, Associated
<1>4. order \in Maybe(Order) /\ 0 \in 0..1 BY Small DEF Maybe
<1> HIDE DEF a
<1>5. Enters(v, render(y)) /\ render(y).charge.selection = kept /\ render(y).charge.order = order
  <2>1. order # None => 0 = 0 OBVIOUS
  <2> QED BY <1>2, <1>3, <1>4, <2>1, Entered
<1> HIDE DEF y, u
<1>6. Withdrawn(v) => Withdrawn(u) BY <1>1, <1>2, <1>5 DEF Enters, Withdrawn
<1> QED BY <1>1, <1>2, <1>5, <1>6 DEF u

LEMMA EnterSelection ==
  ASSUME NEW v \in Shell, Known(v), Told(v), ~chargeFlowBlocked(v.charge), NEW s \in Selection
  PROVE  LET u == enterSelection(v, s) IN
         /\ Enters(v, u) /\ u.charge.order = None /\ u.charge.selection = s
<1> DEFINE a == [charger |-> s.charger, status |-> s.status]
           y == PageFor(v, 1, s, None, a)
<1>1. enterSelection(v, s) = render(y) BY DEF enterSelection, PageFor
<1>2. a \in Maybe(Associated) BY DEF Maybe, Selection, Associated
<1>3. s \in Maybe(Selection) /\ None \in Maybe(Order) /\ 1 \in 0..1
  BY NoneFits, Small DEF Maybe
<1> HIDE DEF a
<1>4. Enters(v, render(y)) /\ render(y).charge.selection = s /\ render(y).charge.order = None
  BY <1>2, <1>3, Entered
<1> QED BY <1>1, <1>4

LEMMA Resume ==
  ASSUME NEW v \in Shell, Known(v), Told(v), v.charge.order # None
  PROVE  \E y : /\ Enters(v, y) /\ y.charge.selection = v.charge.selection
                /\ y.charge.order = v.charge.order
                /\ Keeps(y, resume(v)) /\ resume(v) = requestReconciliation(y)
<1> DEFINE c == v.charge
           d == Begun(c, 0)
           z == beginPage(v, 0)
           y == PageFor(v, 0, c.selection, c.order, c.associated)
<1>1. c \in ChargeState /\ 0 \in 0..1 BY Parts, Small
<1>2. z = y
  <2>1. z = Anew(v, d, v.main) /\ d \in ChargeState
        /\ d.order = c.order /\ d.selection = c.selection /\ d.associated = c.associated
    BY <1>1, BeginPage
  <2>2. z.charge = d
        /\ z = [api |-> z.api, charge |-> d, nearby |-> z.nearby, history |-> v.history,
                main |-> v.main]
    BY <2>1, AnewAgain
  <2> HIDE DEF z, d, c
  <2>3. [z EXCEPT !.charge.selection = c.selection, !.charge.order = c.order,
                  !.charge.associated = c.associated] = z
    <3>1. [d EXCEPT !.selection = c.selection, !.order = c.order,
                    !.associated = c.associated] = d
      BY <2>1 DEF ChargeState
    <3>2. [z EXCEPT !.charge.selection = c.selection, !.charge.order = c.order,
                    !.charge.associated = c.associated]
            = [z EXCEPT !.charge = [d EXCEPT !.selection = c.selection, !.order = c.order,
                                             !.associated = c.associated]]
      BY <2>2
    <3>3. [z EXCEPT !.charge = d] = z BY <2>2
    <3> QED BY <3>1, <3>2, <3>3
  <2> QED BY <2>3 DEF PageFor, z
<1>3. resume(v) = requestReconciliation(render(y)) BY <1>2 DEF resume
<1>4. Enters(v, render(y)) /\ render(y).charge.selection = c.selection
      /\ render(y).charge.order = c.order
  <2>1. /\ c.selection \in Maybe(Selection) /\ c.order \in Maybe(Order)
        /\ c.associated \in Maybe(Associated)
    BY <1>1 DEF ChargeState
  <2> HIDE DEF c
  <2> QED BY <1>1, <2>1, Entered
<1> HIDE DEF y, z
<1>5. Keeps(render(y), resume(v))
  BY <1>3, <1>4, RequestReconciliation DEF Enters, Beside
<1> WITNESS render(y)
<1> QED BY <1>3, <1>4, <1>5

\* The page is left: it keeps what it shows and awaits nothing.
LEMMA LeavePage ==
  ASSUME NEW v \in Shell, Known(v), Told(v)
  PROVE  LET u == leavePage(v) IN
         /\ Beside(v, u) /\ u.main = v.main /\ (Rendered(v) => Rendered(u))
         /\ ~u.charge.active /\ u.charge.reported = v.charge.reported
         /\ u.charge.mutation = None <=> v.charge.mutation = None
         /\ u.charge.order = v.charge.order /\ u.charge.selection = v.charge.selection
         /\ Withdrawn(v) => Withdrawn(u)
         /\ ~chargeFlowBlocked(v.charge) => ~chargeFlowBlocked(u.charge)
<1> DEFINE f == unfit(v.charge.mutation)
           c == [v.charge EXCEPT !.mutation = f, !.active = FALSE]
           z == [v EXCEPT !.charge = c]
           x == cancelOwnedSafeReads(z)
           k == GivenUp(c)
           e == [k EXCEPT !.polling = FALSE]
           y == Anew(v, e, v.main)
           u == leavePage(v)
<1>1. v.charge \in ChargeState /\ v.main \in MainState /\ Paged(v.charge)
      /\ v.main.blocked = v.charge.reported
  BY Parts DEF Known, Told
<1>2. CASE ~v.charge.active
  <2>1. u = v BY <1>2 DEF leavePage
  <2>2. Beside(v, v) BY DEF Beside, Sent
  <2> QED BY <1>2, <2>1, <2>2
<1>3. CASE v.charge.active
  <2>1. /\ f \in Maybe(PageMutation) /\ (f = None <=> v.charge.mutation = None)
        /\ nextPage(v) = [v EXCEPT !.charge = [v.charge EXCEPT !.mutation = f]]
    BY NextPage
  <2> HIDE DEF f
  <2>2. [nextPage(v) EXCEPT !.charge.active = FALSE] = z BY <1>1, <2>1 DEF Shell
  <2>3. /\ c \in ChargeState /\ c.order = v.charge.order /\ c.selection = v.charge.selection
        /\ c.mutation = f /\ ~c.active /\ c.reported = v.charge.reported
        /\ c.exit = v.charge.exit /\ c.exitFailed = v.charge.exitFailed
        /\ c.attempt = v.charge.attempt /\ c.selGen = v.charge.selGen
        /\ c.reconcile = v.charge.reconcile /\ c.factsFailed = v.charge.factsFailed
    BY <1>1, <2>1 DEF ChargeState
  <2> HIDE DEF c
  <2>4. /\ z \in Shell /\ z.api = v.api /\ z.nearby = v.nearby /\ z.history = v.history
        /\ z.charge = c /\ z.main = v.main
    BY <2>3 DEF Shell
  <2> HIDE DEF z
  <2>5. /\ x = [api |-> x.api, charge |-> k, nearby |-> x.nearby, history |-> v.history,
                main |-> v.main]
        /\ With(x, e, v.main) = Anew(v, e, v.main) /\ k \in ChargeState
    <3> HIDE DEF x, e, k
    <3>1. LET q == cancelOwnedSafeReads(z) IN
          /\ q = [api |-> q.api, charge |-> GivenUp(z.charge), nearby |-> q.nearby,
                  history |-> z.history, main |-> z.main]
          /\ GivenUp(z.charge) \in ChargeState
          /\ \A a, n : With(q, a, n) = Anew(v, a, n)
      BY <2>4, OwnedRecord
    <3> QED BY <2>4, <3>1 DEF x, k
  <2>6. /\ e \in ChargeState /\ e.order = c.order /\ e.selection = c.selection
        /\ e.mutation = f /\ ~e.active /\ e.reported = c.reported
        /\ e.exit = c.exit /\ e.exitFailed = c.exitFailed /\ e.selGen = c.selGen
        /\ e.reconcile = c.reconcile /\ e.factsFailed = c.factsFailed
        /\ e.facts = None /\ e.read = None
    <3>1. /\ k.order = c.order /\ k.selection = c.selection
          /\ k.mutation = f /\ ~k.active /\ k.reported = c.reported
          /\ k.exit = c.exit /\ k.exitFailed = c.exitFailed /\ k.selGen = c.selGen
          /\ k.reconcile = c.reconcile /\ k.factsFailed = c.factsFailed
          /\ k.facts = None /\ k.read = None
      BY <2>3 DEF GivenUp, ChargeState
    <3> HIDE DEF k
    <3> QED BY <2>5, <3>1 DEF ChargeState
  <2>7. u = render(y)
    <3>1. u = render([x EXCEPT !.charge.polling = FALSE]) BY <1>3, <2>2 DEF leavePage
    <3> HIDE DEF x, k, y, u
    <3>2. x.charge = k /\ x.main = v.main BY <2>5
    <3>3. [x EXCEPT !.charge.polling = FALSE] = [x EXCEPT !.charge = e] BY <3>2
    <3> HIDE DEF e
    <3>4. [x EXCEPT !.charge = e]
            = [api |-> x.api, charge |-> e, nearby |-> x.nearby, history |-> v.history,
               main |-> v.main]
      BY <2>5
    <3>5. With(x, e, v.main)
            = [api |-> x.api, charge |-> e, nearby |-> x.nearby, history |-> v.history,
               main |-> v.main]
      BY <2>5, WithRecord
    <3> QED BY <2>5, <3>1, <3>3, <3>4, <3>5 DEF y
  <2> HIDE DEF e, x, k
  <2>8. Paged(e) BY <1>1, <2>3, <2>6 DEF Paged
  <2>9. Beside(v, y) /\ y.charge = e /\ y.main = v.main
    <3>1. v.main.blocked = e.reported BY <1>1, <2>3, <2>6
    <3> QED BY <1>1, <2>6, <2>8, <3>1, Replaced
  <2> HIDE DEF y
  <2>10. y \in Shell /\ Known(y) /\ Told(y) BY <2>9 DEF Beside
  <2>11. /\ Rendered(u) /\ u.main = y.main /\ Moves(y, u) /\ SameOrder(u.charge, e)
    BY <2>7, <2>9, <2>10, Render, RenderSame, RenderKeeps
  <2> HIDE DEF u
  <2>12. Beside(v, u) BY <2>9, <2>11, MovesBeside, BesideTrans
  <2>13. /\ ~u.charge.active /\ u.charge.reported = v.charge.reported
         /\ u.charge.mutation = f
         /\ u.charge.order = v.charge.order /\ u.charge.selection = v.charge.selection
         /\ u.main = v.main
    BY <2>3, <2>6, <2>9, <2>11 DEF SameOrder
  <2>14. Withdrawn(v) => Withdrawn(u) BY <2>13 DEF Withdrawn
  <2>15. ~chargeFlowBlocked(v.charge) => ~chargeFlowBlocked(u.charge)
    BY <2>1, <2>3, <2>6, <2>11 DEF SameOrder, chargeFlowBlocked
  <2> QED BY <2>1, <2>11, <2>12, <2>13, <2>14, <2>15 DEF u
<1> QED BY <1>2, <1>3

-----------------------------------------------------------------------------
(* What the window keeps between two events.                               *)

\* Each page is active while it is the one on show, and the reads of the window
\* are the ones it waits for.
Seated(v) ==
  /\ v.charge.active <=> v.main.page = "charge"
  /\ v.history.active <=> v.main.page = "history"
  /\ v.main.navShown <=> v.main.page # "login"
  /\ v.main.page = "login" => v.main.remembered = None /\ v.charge.selection = None
  /\ v.main.guard => v.main.page = "login" /\ ~v.main.required
  /\ v.main.guard <=> "guard" \in Slots(v)
  /\ v.main.reconnect # None <=> "reconnect" \in Slots(v)
  /\ v.main.reconnect # None => v.api.user /\ v.main.required /\ ~v.main.guard
  /\ v.main.required => v.main.page # "charge"
  /\ "login" \in Slots(v) => v.main.page = "login" /\ ~v.api.user /\ ~v.main.guard

\* One mutation is awaited, by the page that is on show.
Awaited(v) ==
  /\ v.charge.mutation # None => v.charge.active /\ v.charge.mutation.fits
  /\ v.charge.mutation # None <=> \E i \in DOMAIN v.api.ops : v.api.ops[i].live
  /\ \A i, j \in DOMAIN v.api.ops : v.api.ops[i].live /\ v.api.ops[j].live => i = j

Sound(v) == Whole(v) /\ Seated(v) /\ Awaited(v)

\* A handler leaves the window sound, and the mutations on their way as they were.
Leads(v, u) == Sound(u) /\ u.api.ops = v.api.ops

LEMMA HoldsSound ==
  ASSUME NEW v, NEW u, Holds(v, u), Apace(v, u), Sound(v) PROVE Sound(u)
<1>1. Whole(v) /\ Seated(v) /\ Awaited(v) BY DEF Sound
<1>2. Whole(u) BY <1>1, HoldsWhole
<1>3. Seated(u) BY <1>1 DEF Seated, Holds, Apace
<1>4. Awaited(u) BY <1>1 DEF Awaited, Holds
<1> QED BY <1>2, <1>3, <1>4 DEF Sound

LEMMA HoldsLeads ==
  ASSUME NEW v, NEW u, Holds(v, u), Apace(v, u), Sound(v) PROVE Leads(v, u)
<1>1. Sound(u) BY HoldsSound
<1> QED BY <1>1 DEF Leads, Holds

LEMMA SoundAlone ==
  ASSUME NEW v, Sound(v) PROVE Alone(v)
BY DEF Sound, Seated, Alone

\* A read is answered, or has failed.
LEMMA SlotFree ==
  ASSUME NEW v \in Shell, NEW slot
  PROVE  LET u == cancelSafeReads(v, {slot}) IN
         /\ u \in Shell /\ u.charge = v.charge /\ u.nearby = v.nearby
         /\ u.history = v.history /\ u.main = v.main /\ u.api.up = v.api.up
         /\ u.api.user = v.api.user /\ u.api.ops = v.api.ops /\ slot \notin Slots(u)
         /\ \A s : s # slot => (s \in Slots(u) <=> s \in Slots(v))
         /\ Sent(v, u)
<1> DEFINE u == cancelSafeReads(v, {slot})
<1>1. /\ u \in Shell /\ u.charge = v.charge /\ u.nearby = v.nearby
      /\ u.history = v.history /\ u.main = v.main /\ u.api.up = v.api.up
      /\ u.api.user = v.api.user /\ u.api.ops = v.api.ops /\ Slots(u) = Slots(v) \ {slot}
      /\ \A s \in Slots(u) : u.api.reads[s] = v.api.reads[s]
  BY CancelReads
<1> HIDE DEF u
<1> QED BY <1>1 DEF Sent, u

LEMMA SlotKnown ==
  ASSUME NEW v \in Shell, Known(v), Told(v),
         NEW slot \in {"guard", "login", "reconnect", "list"}
  PROVE  LET u == cancelSafeReads(v, {slot}) IN
         /\ Known(u) /\ Told(u)
         /\ slot # "list" => (Listed(v) => Listed(u))
         /\ Reported(v) => Reported(u)
         /\ Withdrawn(v) => Withdrawn(u)
         /\ Rendered(v) => Rendered(u)
<1> DEFINE u == cancelSafeReads(v, {slot})
<1>1. /\ u \in Shell /\ u.charge = v.charge /\ u.nearby = v.nearby
      /\ u.history = v.history /\ u.main = v.main /\ u.api.up = v.api.up
      /\ u.api.user = v.api.user /\ u.api.ops = v.api.ops /\ slot \notin Slots(u)
      /\ \A s : s # slot => (s \in Slots(u) <=> s \in Slots(v))
      /\ Sent(v, u)
  BY SlotFree
<1> HIDE DEF u
<1>2. Known(u) /\ Told(u) BY <1>1 DEF Known, Told
<1>3. slot # "list" => (Listed(v) => Listed(u)) BY <1>1 DEF Listed
<1>4. /\ Reported(v) => Reported(u)
      /\ Withdrawn(v) => Withdrawn(u)
      /\ Rendered(v) => Rendered(u)
  BY <1>1 DEF Reported, Withdrawn, Rendered, Usable
<1> QED BY <1>2, <1>3, <1>4 DEF u

\* The list of the page of stations is answered or fails.
LEMMA NearbyAnswered ==
  ASSUME NEW v \in Shell, Known(v), Told(v), NEW u,
         Keeps(cancelSafeReads(v, {"list"}), u), Listed(u)
  PROVE  Holds(v, u) /\ Apace(v, u)
<1> DEFINE x == cancelSafeReads(v, {"list"})
<1>1. /\ x \in Shell /\ x.charge = v.charge /\ x.nearby = v.nearby
      /\ x.history = v.history /\ x.main = v.main /\ x.api.up = v.api.up
      /\ x.api.user = v.api.user /\ x.api.ops = v.api.ops /\ "list" \notin Slots(x)
      /\ \A s : s # "list" => (s \in Slots(x) <=> s \in Slots(v))
      /\ Sent(v, x)
  BY SlotFree
<1>4. "list" \in {"guard", "login", "reconnect", "list"} OBVIOUS
<1>2. /\ Known(x) /\ Told(x)
      /\ Reported(v) => Reported(x)
      /\ Withdrawn(v) => Withdrawn(x)
      /\ Rendered(v) => Rendered(x)
  BY <1>4, SlotKnown
<1>3. Holds(x, u) /\ Apace(x, u) BY KeepsHolds
<1> HIDE DEF x
<1>5. Apace(v, u) BY <1>1, <1>3 DEF Apace
<1>6. Sent(v, u) BY <1>1, <1>3 DEF Holds, Sent
<1> QED BY <1>1, <1>2, <1>3, <1>5, <1>6 DEF Holds

-----------------------------------------------------------------------------
(* The reads of the current order: answered, and failed.                   *)

LEMMA PageFailed ==
  ASSUME NEW v \in Shell, Known(v), Told(v), "page" \in Slots(v)
  PROVE  LET u == currentOrderFailed(cancelSafeReads(v, {"page"}), "page") IN
         Holds(v, u) /\ Apace(v, u)
<1> DEFINE x == cancelSafeReads(v, {"page"})
           y == PageAnswered(v)
           a == y.charge
           c == [a EXCEPT !.reconcile = TRUE]
           p == y.main.remembered
           t == [y EXCEPT !.charge = c, !.main = [y.main EXCEPT !.remembered = p]]
           u == currentOrderFailed(x, "page")
<1>1. x.charge = v.charge BY CancelReads
<1>2. v.charge \in ChargeState /\ v.charge.read # None /\ v.charge.active
      /\ v.charge.read.selGen = v.charge.selGen
  BY Parts DEF Known, Paged
<1>3. Turns(v, y) BY PageReadOver
<1>4. y = [x EXCEPT !.charge.read = None] BY DEF PageAnswered
<1>5. u = Shown([x EXCEPT !.charge.read = None, !.charge.reconcile = TRUE])
  <2> HIDE DEF y, t, c, a, p
  <2> QED BY <1>1, <1>2 DEF currentOrderFailed
<1>6. x \in Shell BY CancelReads
<1>7. [x EXCEPT !.charge.read = None, !.charge.reconcile = TRUE]
        = [y EXCEPT !.charge.reconcile = TRUE]
  <2> HIDE DEF x
  <2> QED BY <1>4, <1>6 DEF Shell
<1> HIDE DEF x, y
<1>8. y \in Shell /\ Known(y) /\ Told(y) /\ y.charge \in ChargeState /\ y.main \in MainState
  BY <1>3, Parts DEF Turns
<1>9. [y EXCEPT !.charge.reconcile = TRUE] = t BY <1>8 DEF Shell, MainState
<1>10. a \in ChargeState /\ Paged(a) BY <1>8 DEF Known
<1>11. Turns(y, t)
  <2> HIDE DEF a
  <2>1. /\ c \in ChargeState /\ c.facts = a.facts /\ c.read = a.read /\ c.active = a.active
        /\ c.order = a.order /\ c.selGen = a.selGen /\ c.exit = a.exit
        /\ c.exitFailed = a.exitFailed /\ c.attempt = a.attempt /\ c.reported = a.reported
        /\ c.mutation = a.mutation /\ c.selection = a.selection
    BY <1>10 DEF ChargeState
  <2> HIDE DEF c
  <2>2. Paged(c) BY <1>10, <2>1, PagedSame
  <2>3. p \in Maybe(Selection) BY <1>8 DEF MainState
  <2>4. /\ c.facts = y.charge.facts /\ c.read = y.charge.read
        /\ c.active = y.charge.active /\ c.reported = y.charge.reported
        /\ c.mutation = None <=> y.charge.mutation = None
        /\ y.charge.mutation # None => c.mutation.fits = y.charge.mutation.fits
        /\ c.selection \in {None, y.charge.selection} /\ p \in {None, y.main.remembered}
    BY <2>1 DEF a
  <2> HIDE DEF p
  <2> QED BY <1>8, <2>1, <2>2, <2>3, <2>4, ChargeTurn
<1> HIDE DEF t, u
<1>12. t \in Shell /\ Known(t) /\ Told(t) BY <1>11 DEF Turns
<1>13. Settles(t, u) BY <1>5, <1>7, <1>9, <1>12, ShownSettles
<1> QED BY <1>3, <1>11, <1>13, TurnsTrans, TurnsSettled, TurnsHolds DEF u, x

\* The window alone changes.
LEMMA MainParts ==
  ASSUME NEW v \in Shell, NEW m \in MainState, m.blocked = v.main.blocked
  PROVE  LET u == [v EXCEPT !.main = m] IN
         /\ u \in Shell /\ u.main = m /\ u.api = v.api /\ u.charge = v.charge
         /\ u.nearby = v.nearby /\ u.history = v.history
         /\ Known(v) => Known(u)
         /\ Told(v) => Told(u)
         /\ Listed(v) => Listed(u)
         /\ Reported(v) => Reported(u)
         /\ Rendered(v) => Rendered(u)
<1> DEFINE u == [v EXCEPT !.main = m]
<1>1. /\ u \in Shell /\ u.main = m /\ u.api = v.api /\ u.charge = v.charge
      /\ u.nearby = v.nearby /\ u.history = v.history
  BY DEF Shell
<1> HIDE DEF u
<1>2. (Known(v) => Known(u)) /\ (Listed(v) => Listed(u)) BY <1>1 DEF Known, Listed, Slots
<1>3. (Told(v) => Told(u)) /\ (Reported(v) => Reported(u)) /\ (Rendered(v) => Rendered(u))
  BY <1>1 DEF Told, Reported, Rendered, Usable
<1> QED BY <1>1, <1>2, <1>3 DEF u

LEMMA GuardFailed ==
  ASSUME NEW v, Sound(v), "guard" \in Slots(v)
  PROVE  Leads(v, currentOrderFailed(cancelSafeReads(v, {"guard"}), "guard"))
<1> DEFINE x == cancelSafeReads(v, {"guard"})
           s == moved(v.main.stamp)
           m == [v.main EXCEPT !.guard = FALSE, !.authority = None, !.stamp = s,
                               !.navShown = FALSE, !.page = "login"]
           u == [x EXCEPT !.main = m]
<1>1. v \in Shell /\ Whole(v) /\ Seated(v) /\ Awaited(v) BY DEF Sound, Whole
<1>2. v.main \in MainState BY <1>1, Parts
<1>3. /\ x \in Shell /\ x.charge = v.charge /\ x.nearby = v.nearby
      /\ x.history = v.history /\ x.main = v.main /\ x.api.up = v.api.up
      /\ x.api.user = v.api.user /\ x.api.ops = v.api.ops /\ "guard" \notin Slots(x)
      /\ \A r : r # "guard" => (r \in Slots(x) <=> r \in Slots(v))
  BY <1>1, SlotFree
<1>4. /\ Known(x) /\ Told(x) /\ Listed(x) /\ Reported(x) /\ Withdrawn(x) /\ Rendered(x)
  <2>1. "guard" \in {"guard", "login", "reconnect", "list"} /\ "guard" # "list"
    OBVIOUS
  <2> HIDE DEF x
  <2> QED BY <1>1, <2>1, SlotKnown DEF Whole, x
<1>5. v.main.guard /\ v.main.page = "login" BY <1>1 DEF Seated
<1>6. currentOrderFailed(x, "guard") = u
  <2> HIDE DEF x, u
  <2>1. currentOrderFailed(x, "guard")
          = [clearActiveOrder([x EXCEPT !.main.guard = FALSE], 0, TRUE) EXCEPT
               !.main.navShown = FALSE, !.main.page = "login"]
    BY <1>3, <1>5 DEF currentOrderFailed
  <2>2. clearActiveOrder([x EXCEPT !.main.guard = FALSE], 0, TRUE)
          = [x EXCEPT !.main.guard = FALSE, !.main.authority = None, !.main.stamp = s]
    BY <1>2, <1>3 DEF clearActiveOrder, Shell, MainState
  <2> HIDE DEF s
  <2> QED BY <1>2, <1>3, <2>1, <2>2 DEF u, Shell, MainState
<1> HIDE DEF x
<1>7. s \in {"none", "same", "moved"} BY <1>2, Stamps DEF MainState
<1> HIDE DEF s
<1>8. m \in MainState BY <1>2, <1>7 DEF MainState, Maybe
<1>9. /\ m.guard = FALSE /\ m.navShown = FALSE /\ m.page = "login"
      /\ m.remembered = v.main.remembered /\ m.blocked = v.main.blocked
      /\ m.deferred = v.main.deferred /\ m.reconnect = v.main.reconnect
      /\ m.required = v.main.required
  BY <1>2 DEF MainState
<1> HIDE DEF m
<1>10. /\ u \in Shell /\ u.main = m /\ u.api = x.api /\ u.charge = x.charge
       /\ u.history = x.history
       /\ Known(u) /\ Told(u) /\ Listed(u) /\ Reported(u) /\ Rendered(u) /\ Withdrawn(u)
  BY <1>3, <1>4, <1>8, <1>9, MainSet
<1> HIDE DEF u
<1>11. Seated(u) BY <1>1, <1>3, <1>5, <1>9, <1>10 DEF Seated, Slots
<1>12. Awaited(u) BY <1>1, <1>3, <1>10 DEF Awaited
<1> QED BY <1>3, <1>6, <1>10, <1>11, <1>12 DEF Leads, Sound, Whole, x

LEMMA ReconnectFailed ==
  ASSUME NEW v, Sound(v), "reconnect" \in Slots(v)
  PROVE  Leads(v, currentOrderFailed(cancelSafeReads(v, {"reconnect"}), "reconnect"))
<1> DEFINE x == cancelSafeReads(v, {"reconnect"})
           m == [v.main EXCEPT !.reconnect = None]
           u == [x EXCEPT !.main = m]
<1>1. v \in Shell /\ Whole(v) /\ Seated(v) /\ Awaited(v) BY DEF Sound, Whole
<1>2. v.main \in MainState BY <1>1, Parts
<1>3. /\ x \in Shell /\ x.charge = v.charge /\ x.nearby = v.nearby
      /\ x.history = v.history /\ x.main = v.main /\ x.api.up = v.api.up
      /\ x.api.user = v.api.user /\ x.api.ops = v.api.ops /\ "reconnect" \notin Slots(x)
      /\ \A r : r # "reconnect" => (r \in Slots(x) <=> r \in Slots(v))
  BY <1>1, SlotFree
<1>4. /\ Known(x) /\ Told(x) /\ Listed(x) /\ Reported(x) /\ Withdrawn(x) /\ Rendered(x)
  <2>1. "reconnect" \in {"guard", "login", "reconnect", "list"}
        /\ "reconnect" # "list"
    OBVIOUS
  <2> HIDE DEF x
  <2> QED BY <1>1, <2>1, SlotKnown DEF Whole, x
<1>5. v.main.reconnect # None BY <1>1 DEF Seated
<1>6. currentOrderFailed(x, "reconnect") = u
  <2> HIDE DEF x, u
  <2>1. currentOrderFailed(x, "reconnect") = [x EXCEPT !.main.reconnect = None]
    BY <1>3, <1>5 DEF currentOrderFailed
  <2> QED BY <1>2, <1>3, <2>1 DEF u, Shell, MainState
<1> HIDE DEF x
<1>8. m \in MainState BY <1>2, NoneFits DEF MainState
<1>9. /\ m.guard = v.main.guard /\ m.navShown = v.main.navShown /\ m.page = v.main.page
      /\ m.remembered = v.main.remembered /\ m.blocked = v.main.blocked
      /\ m.deferred = v.main.deferred /\ m.reconnect = None
      /\ m.required = v.main.required
  BY <1>2 DEF MainState
<1> HIDE DEF m
<1>10. /\ u \in Shell /\ u.main = m /\ u.api = x.api /\ u.charge = x.charge
       /\ u.history = x.history
       /\ Known(u) /\ Told(u) /\ Listed(u) /\ Reported(u) /\ Rendered(u) /\ Withdrawn(u)
  BY <1>3, <1>4, <1>8, <1>9, MainSet
<1> HIDE DEF u
<1>11. Seated(u) BY <1>1, <1>3, <1>9, <1>10 DEF Seated, Slots
<1>12. Awaited(u) BY <1>1, <1>3, <1>10 DEF Awaited
<1> QED BY <1>3, <1>6, <1>10, <1>11, <1>12 DEF Leads, Sound, Whole, x

\* The order of the account that has logged in was read, and the page is still that
\* of the login.
Guarded(v) ==
  /\ Whole(v) /\ Awaited(v) /\ v.main.page = "login" /\ v.main.guard
  /\ ~v.charge.active /\ ~v.history.active /\ ~v.main.required
  /\ v.main.remembered = None /\ v.charge.selection = None /\ v.main.reconnect = None
  /\ {"guard", "login", "reconnect"} \cap Slots(v) = {}

LEMMA GuardLoaded ==
  ASSUME NEW v, Guarded(v), NEW order \in Maybe(Order)
  PROVE  LET u == guardLoaded(v, order) IN
         /\ Leads(v, u)
         /\ order = None => u.main.authority = v.main.authority /\ ~u.charge.active
         /\ order # None =>
              \E y : \E gate, commit \in BOOLEAN : LET z == requestFacts(y, gate, commit) IN
                /\ y \in Shell /\ Known(y) /\ Told(y)
                /\ y.charge.facts = None /\ y.charge.read = None /\ ~y.charge.exitFailed
                /\ y.charge.order = order /\ y.main.authority = v.main.authority
                /\ u.charge = z.charge /\ u.main.authority = z.main.authority
<1> DEFINE u == guardLoaded(v, order)
<1>1. /\ v \in Shell /\ Known(v) /\ Told(v) /\ Listed(v) /\ Reported(v) /\ Rendered(v)
      /\ Withdrawn(v) /\ v.main \in MainState /\ v.charge.mutation = None
  BY Parts DEF Guarded, Whole, Awaited
<1>2. CASE order = None
  <2> DEFINE m == [v.main EXCEPT !.guard = FALSE, !.navShown = TRUE, !.page = "nearby"]
             y == [v EXCEPT !.main = m]
  <2>1. u = y
    <3> HIDE DEF u, y
    <3>1. u = [[v EXCEPT !.main.guard = FALSE, !.main.navShown = TRUE]
                 EXCEPT !.main.page = IF @ = "charge" THEN @ ELSE "nearby"]
      BY <1>2 DEF u, guardLoaded
    <3>2. [v EXCEPT !.main.guard = FALSE, !.main.navShown = TRUE].main.page = "login"
      BY <1>1 DEF Shell, MainState, Guarded
    <3>3. u = [[v EXCEPT !.main.guard = FALSE, !.main.navShown = TRUE]
                 EXCEPT !.main.page = "nearby"]
      BY <3>1, <3>2
    <3> QED BY <1>1, <3>3 DEF y, Shell, MainState
  <2> HIDE DEF u
  <2>2. /\ m \in MainState /\ m.guard = FALSE /\ m.navShown = TRUE /\ m.page = "nearby"
        /\ m.remembered = v.main.remembered /\ m.blocked = v.main.blocked
        /\ m.deferred = v.main.deferred /\ m.reconnect = v.main.reconnect
        /\ m.required = v.main.required /\ m.authority = v.main.authority
    BY <1>1 DEF MainState
  <2> HIDE DEF m
  <2>3. /\ y \in Shell /\ y.main = m /\ y.api = v.api /\ y.charge = v.charge
        /\ y.history = v.history
        /\ Known(y) /\ Told(y) /\ Listed(y) /\ Reported(y) /\ Rendered(y) /\ Withdrawn(y)
    BY <1>1, <2>2, MainSet
  <2> HIDE DEF y
  <2>4. Seated(y) BY <2>2, <2>3 DEF Seated, Guarded, Slots
  <2>5. Awaited(y) BY <2>3 DEF Awaited, Guarded
  <2>6. Leads(v, y) BY <2>3, <2>4, <2>5 DEF Leads, Sound, Whole
  <2>7. y.main.authority = v.main.authority /\ ~y.charge.active
    BY <2>2, <2>3 DEF Guarded
  <2> QED BY <1>2, <2>1, <2>6, <2>7 DEF u
<1>3. CASE order # None
  <2> DEFINE m == [v.main EXCEPT !.guard = FALSE, !.navShown = TRUE]
             x == [v EXCEPT !.main = m]
             y == enterOrder(x, order)
             z == requestFacts(y, TRUE, FALSE)
             n == [z.main EXCEPT !.page = "charge"]
             t == [z EXCEPT !.main = n]
  <2>1. order \in Order BY <1>3 DEF Maybe
  <2>2. u = t
    <3>1. [[v EXCEPT !.main.guard = FALSE, !.main.navShown = TRUE]
             EXCEPT !.main.remembered = IF matching(@, order) THEN @ ELSE None] = x
      <4> DEFINE r == [v EXCEPT !.main.guard = FALSE, !.main.navShown = TRUE]
      <4>1. r = x BY <1>1 DEF Shell, MainState
      <4>2. x \in Shell /\ x.main = m /\ m \in MainState /\ m.remembered = None
        BY <1>1 DEF Shell, MainState, Guarded
      <4>3. ~matching(r.main.remembered, order) BY <4>1, <4>2 DEF matching
      <4> HIDE DEF r, x, m
      <4>4. [r EXCEPT !.main.remembered = IF matching(@, order) THEN @ ELSE None]
              = [r EXCEPT !.main.remembered = None]
        BY <4>3
      <4>5. [m EXCEPT !.remembered = None] = m BY <4>2 DEF MainState
      <4>6. [x EXCEPT !.main = m] = x BY <4>2 DEF Shell
      <4>7. [x EXCEPT !.main.remembered = None] = [x EXCEPT !.main = m] BY <4>2, <4>5
      <4> QED BY <4>1, <4>4, <4>6, <4>7 DEF r
    <3> HIDE DEF x, u
    <3>2. u = [requestFacts(enterOrder(x, order), TRUE, FALSE) EXCEPT !.main.page = "charge"]
      BY <1>3, <3>1 DEF u, guardLoaded, enterGuardOrder
    <3> HIDE DEF y, z
    <3>3. u = [z EXCEPT !.main.page = "charge"] BY <3>2 DEF y, z
    <3> QED BY <3>3
  <2> HIDE DEF u
  <2>3. /\ m \in MainState /\ m.guard = FALSE /\ m.navShown = TRUE /\ m.page = "login"
        /\ m.remembered = v.main.remembered /\ m.blocked = v.main.blocked
        /\ m.deferred = v.main.deferred /\ m.reconnect = v.main.reconnect
        /\ m.required = v.main.required /\ m.authority = v.main.authority
    BY <1>1 DEF MainState, Guarded
  <2> HIDE DEF m
  <2>4. /\ x \in Shell /\ x.main = m /\ x.api = v.api /\ x.charge = v.charge
        /\ x.history = v.history
        /\ Known(x) /\ Told(x) /\ Listed(x) /\ Reported(x) /\ Rendered(x) /\ Withdrawn(x)
    BY <1>1, <2>3, MainSet
  <2> HIDE DEF x
  <2>5. /\ Enters(x, y) /\ y.charge.order = order
        /\ y.charge.selection \in {None, x.main.remembered}
        /\ Withdrawn(y)
    BY <2>1, <2>4, EnterOrder
  <2> HIDE DEF y
  <2>6. x.main.remembered = None BY <2>3, <2>4 DEF Guarded
  <2>7. /\ y \in Shell /\ Known(y) /\ Told(y) /\ Listed(y) /\ y.charge.active
        /\ y.charge.facts = None /\ y.charge.read = None /\ ~y.charge.exitFailed
        /\ y.charge.selection = None /\ y.charge.mutation = None
        /\ y.main = m /\ y.history = v.history
    BY <1>1, <2>4, <2>5, <2>6 DEF Enters, Beside
  <2>8. Moves(y, z) /\ Reported(z) /\ Rendered(z)
    <3>1. TRUE \in BOOLEAN /\ FALSE \in BOOLEAN OBVIOUS
    <3>2. y.charge.order # None BY <1>3, <2>5
    <3> HIDE DEF z
    <3>3. /\ Moves(y, requestFacts(y, TRUE, FALSE))
          /\ y.charge.active /\ y.charge.order # None =>
               /\ Reported(requestFacts(y, TRUE, FALSE))
               /\ Rendered(requestFacts(y, TRUE, FALSE))
      BY <2>7, <3>1, <3>2, RequestFacts
    <3> QED BY <2>7, <3>2, <3>3 DEF z
  <2> HIDE DEF z
  <2>9. /\ z \in Shell /\ Known(z) /\ Told(z) /\ Listed(z) /\ Withdrawn(z)
        /\ z.main \in MainState
    BY <2>5, <2>7, <2>8, Parts DEF Moves, Within
  <2>10. /\ z.charge.active /\ z.charge.mutation = None /\ z.history = v.history
         /\ z.main.guard = FALSE /\ z.main.navShown = TRUE /\ z.main.reconnect = None
         /\ ~z.main.required /\ z.api.ops = v.api.ops
         /\ {"guard", "login", "reconnect"} \cap Slots(z) = {}
    BY <2>3, <2>4, <2>5, <2>7, <2>8
    DEF Moves, Within, Frame, Enters, Beside, Guarded, Slots
  <2>11. /\ n \in MainState /\ n.page = "charge" /\ n.blocked = z.main.blocked
         /\ n.deferred = z.main.deferred /\ n.remembered = z.main.remembered
         /\ n.guard = z.main.guard /\ n.navShown = z.main.navShown
         /\ n.reconnect = z.main.reconnect /\ n.required = z.main.required
         /\ n.authority = z.main.authority
    BY <2>9 DEF MainState
  <2> HIDE DEF n
  <2>12. /\ t \in Shell /\ t.main = n /\ t.api = z.api /\ t.charge = z.charge
         /\ t.history = z.history
         /\ Known(t) /\ Told(t) /\ Listed(t) /\ Reported(t) /\ Rendered(t) /\ Withdrawn(t)
    BY <2>8, <2>9, <2>11, MainSet
  <2> HIDE DEF t
  <2>13. Seated(t) BY <2>10, <2>11, <2>12 DEF Seated, Guarded, Slots
  <2>14. Awaited(t) BY <1>1, <2>10, <2>12 DEF Awaited, Guarded
  <2>15. Leads(v, t) BY <2>10, <2>12, <2>13, <2>14 DEF Leads, Sound, Whole
  <2>16. y.main.authority = v.main.authority BY <2>3, <2>7
  <2>17. /\ t.charge = requestFacts(y, TRUE, FALSE).charge
         /\ t.main.authority = requestFacts(y, TRUE, FALSE).main.authority
    BY <2>11, <2>12 DEF z
  <2>18. \E gate, commit \in BOOLEAN :
            /\ t.charge = requestFacts(y, gate, commit).charge
            /\ t.main.authority = requestFacts(y, gate, commit).main.authority
    <3>1. TRUE \in BOOLEAN /\ FALSE \in BOOLEAN OBVIOUS
    <3> QED BY <2>17, <3>1
  <2>19. \E b : \E gate, commit \in BOOLEAN : LET f == requestFacts(b, gate, commit) IN
           /\ b \in Shell /\ Known(b) /\ Told(b)
           /\ b.charge.facts = None /\ b.charge.read = None /\ ~b.charge.exitFailed
           /\ b.charge.order = order /\ b.main.authority = v.main.authority
           /\ t.charge = f.charge /\ t.main.authority = f.main.authority
    BY <2>5, <2>7, <2>16, <2>18
  <2> QED BY <1>3, <2>2, <2>15, <2>19 DEF u
<1> QED BY <1>2, <1>3

LEMMA WindowRead ==
  ASSUME NEW v, Sound(v), NEW slot \in {"guard", "reconnect"}, slot \in Slots(v),
         NEW order \in Maybe(Order)
  PROVE  LET x == cancelSafeReads(v, {slot})
             y == observeAuthoritativeCurrent(x, slot, order)
         IN  /\ x \in Shell /\ Known(x) /\ Told(x) /\ ~x.charge.active /\ x.main = v.main
             /\ x.api.ops = v.api.ops /\ Holds(x, y)
             /\ slot = "guard" => Guarded(y)
             /\ slot = "reconnect" => Sound(y)
             /\ currentOrderLoaded(x, slot, order) =
                  IF slot = "guard" THEN guardLoaded(y, order) ELSE y
<1> DEFINE x == cancelSafeReads(v, {slot})
           y == observeAuthoritativeCurrent(x, slot, order)
           u == currentOrderLoaded(x, slot, order)
<1>1. /\ v \in Shell /\ Known(v) /\ Told(v) /\ Whole(v) /\ Seated(v) /\ Awaited(v)
  BY DEF Sound, Whole
<1>2. /\ x \in Shell /\ x.charge = v.charge /\ x.nearby = v.nearby
      /\ x.history = v.history /\ x.main = v.main /\ x.api.up = v.api.up
      /\ x.api.user = v.api.user /\ x.api.ops = v.api.ops /\ slot \notin Slots(x)
      /\ \A s : s # slot => (s \in Slots(x) <=> s \in Slots(v))
  BY <1>1, SlotFree
<1>3. ~v.charge.active BY <1>1 DEF Seated
<1>4. Alone(x) BY <1>2, <1>3 DEF Alone
<1>5. /\ Known(x) /\ Told(x) /\ Listed(x) /\ Reported(x) /\ Withdrawn(x) /\ Rendered(x)
  <2>1. slot \in {"guard", "login", "reconnect", "list"} /\ slot # "list" OBVIOUS
  <2> HIDE DEF x
  <2> QED BY <1>1, <2>1, SlotKnown DEF Whole, x
<1>6. u = IF slot = "guard" /\ y.main.guard THEN guardLoaded(y, order) ELSE y
  <2>1. slot # "page" OBVIOUS
  <2> HIDE DEF x
  <2> QED BY <2>1 DEF currentOrderLoaded
<1> HIDE DEF x, u
<1>7. Holds(x, y) /\ Resolves(x, slot, y) BY <1>2, <1>4, <1>5, ObserveCurrent
<1> HIDE DEF y
<1>8. Whole(y) BY <1>2, <1>5, <1>7, HoldsWhole DEF Whole
<1>9. Awaited(y) BY <1>1, <1>2, <1>7 DEF Awaited, Holds
<1>10. CASE slot = "guard"
  <2>1. Apace(x, y) BY <1>7, <1>10 DEF Resolves
  <2>2. Guarded(y)
    BY <1>1, <1>2, <1>3, <1>7, <1>8, <1>9, <1>10, <2>1
    DEF Guarded, Seated, Holds, Apace
  <2>3. u = guardLoaded(y, order) BY <1>6, <1>10, <2>2 DEF Guarded
  <2> QED BY <1>2, <1>3, <1>5, <1>7, <1>10, <2>2, <2>3 DEF u, x, y
<1>11. CASE slot = "reconnect"
  <2>1. x.main.reconnect # None BY <1>1, <1>2, <1>11 DEF Seated
  <2>2. /\ y.main.reconnect = None /\ ~y.main.required
        /\ "reconnect" \notin Slots(y)
    BY <1>2, <1>7, <1>11, <2>1 DEF Resolves
  <2>3. Seated(y)
    BY <1>1, <1>2, <1>7, <1>11, <2>2 DEF Seated, Holds
  <2>4. u = y BY <1>6, <1>11
  <2>5. Sound(y) BY <1>8, <1>9, <2>3 DEF Sound
  <2> QED BY <1>2, <1>3, <1>5, <1>7, <1>11, <2>4, <2>5 DEF u, x, y
<1> QED BY <1>10, <1>11

LEMMA CurrentLoaded ==
  ASSUME NEW v, Sound(v), NEW slot \in CurrentRead, slot \in Slots(v),
         NEW order \in Maybe(Order)
  PROVE  Leads(v, currentOrderLoaded(cancelSafeReads(v, {slot}), slot, order))
<1> DEFINE x == cancelSafeReads(v, {slot})
           y == observeAuthoritativeCurrent(x, slot, order)
           u == currentOrderLoaded(x, slot, order)
<1>1. CASE slot = "page"
  <2>1. v \in Shell /\ Known(v) /\ Told(v) /\ Alone(v) BY SoundAlone DEF Sound, Whole
  <2>2. x \in Shell /\ x.charge = v.charge BY <2>1, SlotFree
  <2>3. x.charge.read # None BY <1>1, <2>1, <2>2 DEF Known
  <2>4. u = pageOrderLoaded(cancelSafeReads(v, {"page"}), order)
    BY <1>1, <2>3 DEF currentOrderLoaded
  <2> HIDE DEF u
  <2>5. "page" \in Slots(v) BY <1>1
  <2>6. Holds(v, u) /\ Apace(v, u)
    <3> HIDE DEF x, y
    <3> QED BY <2>1, <2>4, <2>5, PageLoaded
  <2> QED BY <2>6, HoldsLeads DEF u
<1>2. CASE slot \in {"guard", "reconnect"}
  <2>1. /\ x.api.ops = v.api.ops /\ Holds(x, y)
        /\ slot = "guard" => Guarded(y)
        /\ slot = "reconnect" => Sound(y)
        /\ u = IF slot = "guard" THEN guardLoaded(y, order) ELSE y
    BY <1>2, WindowRead
  <2> HIDE DEF x, y, u
  <2>2. CASE slot = "guard"
    <3>1. Leads(y, guardLoaded(y, order)) BY <2>1, <2>2, GuardLoaded
    <3> QED BY <2>1, <2>2, <3>1 DEF Leads, Holds, u, x
  <2>3. CASE slot = "reconnect"
    BY <2>1, <2>3 DEF Leads, Holds, u, x
  <2> QED BY <1>2, <2>2, <2>3
<1> QED BY <1>1, <1>2 DEF CurrentRead

LEMMA CurrentFailed ==
  ASSUME NEW v, Sound(v), NEW slot \in CurrentRead, slot \in Slots(v)
  PROVE  Leads(v, currentOrderFailed(cancelSafeReads(v, {slot}), slot))
<1>1. CASE slot = "page"
  <2>1. v \in Shell /\ Known(v) /\ Told(v) BY DEF Sound, Whole
  <2> QED BY <1>1, <2>1, PageFailed, HoldsLeads
<1>2. CASE slot = "guard" BY <1>2, GuardFailed
<1>3. CASE slot = "reconnect" BY <1>3, ReconnectFailed
<1> QED BY <1>1, <1>2, <1>3 DEF CurrentRead

-----------------------------------------------------------------------------
(* The session begins.                                                     *)

LEMMA LoginSucceeded ==
  ASSUME NEW v, Sound(v), "login" \in Slots(v)
  PROVE  LET u == loginSucceeded(cancelSafeReads(v, {"login"})) IN
         Leads(v, u) /\ u.main.page = "login" /\ u.main.authority = None
<1> DEFINE x == cancelSafeReads(v, {"login"})
           a == [x.api EXCEPT !.user = TRUE]
           y == [x EXCEPT !.api = a]
           z == send(y, "guard")
           m == [v.main EXCEPT !.remembered = None, !.deferred = FALSE, !.stamp = "none",
                               !.reconnect = None, !.required = FALSE, !.queued = FALSE,
                               !.authority = None, !.guard = TRUE]
           u == [z EXCEPT !.main = m]
<1>1. v \in Shell /\ Whole(v) /\ Seated(v) /\ Awaited(v) BY DEF Sound, Whole
<1>2. v.main \in MainState BY <1>1, Parts
<1>3. /\ x \in Shell /\ x.charge = v.charge /\ x.nearby = v.nearby
      /\ x.history = v.history /\ x.main = v.main /\ x.api.up = v.api.up
      /\ x.api.user = v.api.user /\ x.api.ops = v.api.ops /\ "login" \notin Slots(x)
      /\ \A r : r # "login" => (r \in Slots(x) <=> r \in Slots(v))
  BY <1>1, SlotFree
<1>4. /\ Known(x) /\ Told(x) /\ Listed(x) /\ Reported(x) /\ Withdrawn(x) /\ Rendered(x)
  <2>1. "login" \in {"guard", "login", "reconnect", "list"} /\ "login" # "list"
    OBVIOUS
  <2> HIDE DEF x
  <2> QED BY <1>1, <2>1, SlotKnown DEF Whole, x
<1>5. [x EXCEPT !.api.user = TRUE] = y OBVIOUS
<1>6. loginSucceeded(x)
        = [z EXCEPT !.main.remembered = None, !.main.deferred = FALSE, !.main.stamp = "none",
                    !.main.reconnect = None, !.main.required = FALSE, !.main.queued = FALSE,
                    !.main.authority = None, !.main.guard = TRUE]
  <2> HIDE DEF x, y
  <2> QED BY <1>5 DEF loginSucceeded
<1> HIDE DEF x
<1>7. /\ y \in Shell /\ y.charge = v.charge /\ y.nearby = v.nearby /\ y.history = v.history
      /\ y.main = v.main /\ y.api.user = TRUE /\ y.api.ops = v.api.ops
      /\ y.api.up = v.api.up /\ Slots(y) = Slots(x)
  <2>1. x.api \in ApiState(Slots(x)) /\ Slots(x) \in SUBSET Read BY <1>3, Parts
  <2>2. /\ a \in ApiState(Slots(x)) /\ a.user = TRUE /\ a.ops = x.api.ops /\ a.up = x.api.up
        /\ DOMAIN a.reads = Slots(x)
    BY <2>1 DEF ApiState
  <2> HIDE DEF a
  <2> QED BY <1>3, <2>1, <2>2 DEF Shell, Slots
<1> HIDE DEF y
<1>8. /\ z \in Shell
      /\ z.charge = v.charge /\ z.nearby = v.nearby /\ z.history = v.history
      /\ z.main = v.main /\ z.api.up = v.api.up /\ z.api.user = TRUE
      /\ z.api.ops = v.api.ops /\ Slots(z) = Slots(x) \cup {"guard"}
  <2>1. "guard" \in Read BY DEF Read, CurrentRead
  <2> QED BY <1>7, <2>1, SendRead
<1>9. [z EXCEPT !.main.remembered = None, !.main.deferred = FALSE, !.main.stamp = "none",
                !.main.reconnect = None, !.main.required = FALSE, !.main.queued = FALSE,
                !.main.authority = None, !.main.guard = TRUE] = u
  <2> HIDE DEF z
  <2> QED BY <1>2, <1>8 DEF Shell, MainState
<1> HIDE DEF z
<1>10. /\ m \in MainState /\ m.authority = None
       /\ m.guard /\ m.navShown = v.main.navShown /\ m.page = v.main.page
       /\ m.remembered = None /\ m.blocked = v.main.blocked
       /\ ~m.deferred /\ m.reconnect = None /\ ~m.required
  BY <1>2, NoneFits DEF MainState
<1> HIDE DEF m
<1>11. /\ Known(z) /\ Told(z) /\ Listed(z) /\ Reported(z) /\ Rendered(z)
  BY <1>3, <1>4, <1>7, <1>8 DEF Known, Told, Listed, Reported, Rendered, Usable
<1>12. /\ u \in Shell /\ u.main = m /\ u.api = z.api /\ u.charge = z.charge
       /\ u.history = z.history
       /\ Known(u) /\ Told(u) /\ Listed(u) /\ Reported(u) /\ Rendered(u)
  BY <1>8, <1>10, <1>11, MainParts
<1> HIDE DEF u
<1>13. v.main.page = "login" /\ v.charge.selection = None /\ v.main.reconnect = None
  BY <1>1 DEF Seated
<1>14. Withdrawn(u) BY <1>8, <1>10, <1>12, <1>13 DEF Withdrawn
<1>15. Seated(u) BY <1>1, <1>3, <1>8, <1>10, <1>12, <1>13 DEF Seated, Slots
<1>16. Awaited(u) BY <1>1, <1>8, <1>12 DEF Awaited
<1>17. Leads(v, u) BY <1>8, <1>12, <1>14, <1>15, <1>16 DEF Leads, Sound, Whole
<1>18. u.main.page = "login" /\ u.main.authority = None BY <1>10, <1>12, <1>13
<1> QED BY <1>6, <1>9, <1>17, <1>18 DEF x

-----------------------------------------------------------------------------
(* The pages are turned.                                                   *)

\* No page but the one of the stations and those that await nothing can be shown.
Away(v) ==
  /\ Whole(v) /\ Awaited(v) /\ ~v.charge.active /\ ~v.history.active
  /\ v.main.navShown /\ ~v.main.guard /\ {"guard", "login"} \cap Slots(v) = {}
  /\ v.main.reconnect # None <=> "reconnect" \in Slots(v)
  /\ v.main.reconnect # None => v.api.user /\ v.main.required

LEMMA Turned ==
  ASSUME NEW v, Away(v), NEW p \in {"nearby", "profile", "navigation"}
  PROVE  Leads(v, [v EXCEPT !.main.page = p])
<1> DEFINE m == [v.main EXCEPT !.page = p]
           u == [v EXCEPT !.main = m]
<1>1. v \in Shell /\ Whole(v) /\ v.main \in MainState BY Parts DEF Away, Whole
<1>2. /\ m \in MainState /\ m.guard = v.main.guard /\ m.navShown = v.main.navShown
      /\ m.page = p /\ m.remembered = v.main.remembered /\ m.blocked = v.main.blocked
      /\ m.deferred = v.main.deferred /\ m.reconnect = v.main.reconnect
      /\ m.required = v.main.required
  BY <1>1 DEF MainState
<1> HIDE DEF m
<1>3. /\ u \in Shell /\ u.main = m /\ u.api = v.api /\ u.charge = v.charge
      /\ u.history = v.history
      /\ Known(u) /\ Told(u) /\ Listed(u) /\ Reported(u) /\ Rendered(u) /\ Withdrawn(u)
  BY <1>1, <1>2, MainSet DEF Whole
<1> HIDE DEF u
<1>4. Seated(u) BY <1>2, <1>3 DEF Seated, Away, Slots
<1>5. Awaited(u) BY <1>3 DEF Awaited, Away
<1> QED BY <1>3, <1>4, <1>5 DEF Leads, Sound, Whole, u, m

\* The page on show is left while the flow is free.
LEMMA LeftPage ==
  ASSUME NEW v, Sound(v), ~v.main.blocked, v.main.navShown
  PROVE  LET u == leavePage(v) IN
         /\ Whole(u) /\ Awaited(u) /\ ~u.charge.active /\ u.charge.mutation = None
         /\ u.main = v.main /\ u.history = v.history
         /\ u.api.user = v.api.user /\ u.api.up = v.api.up /\ u.api.ops = v.api.ops
         /\ \A s \in {"guard", "login", "reconnect", "history"} :
              s \in Slots(u) <=> s \in Slots(v)
<1> DEFINE u == leavePage(v)
<1>1. /\ v \in Shell /\ Known(v) /\ Told(v) /\ Whole(v) /\ Seated(v) /\ Awaited(v)
  BY DEF Sound, Whole
<1>2. /\ Beside(v, u) /\ u.main = v.main /\ (Rendered(v) => Rendered(u))
      /\ ~u.charge.active /\ u.charge.reported = v.charge.reported
      /\ u.charge.mutation = None <=> v.charge.mutation = None
      /\ Withdrawn(v) => Withdrawn(u)
      /\ ~chargeFlowBlocked(v.charge) => ~chargeFlowBlocked(u.charge)
  BY <1>1, LeavePage
<1> HIDE DEF u
<1>3. ~v.charge.reported /\ ~chargeFlowBlocked(v.charge)
  BY <1>1 DEF Told, Reported, Whole
<1>4. v.charge.mutation = None BY <1>3 DEF chargeFlowBlocked
<1>5. Reported(u)
  <2>1. v.charge.reported \in BOOLEAN BY <1>1, Parts DEF ChargeState
  <2> QED BY <1>2, <1>3, <2>1, BlockedBoolean DEF Reported
<1>6. Whole(u) BY <1>1, <1>2, <1>5 DEF Whole, Beside
<1>7. Awaited(u) BY <1>1, <1>2, <1>4 DEF Awaited, Beside
<1> QED BY <1>2, <1>4, <1>6, <1>7 DEF Beside, u

LEMMA LeftHistory ==
  ASSUME NEW v, Sound(v)
  PROVE  LET u == deactivateHistory(v) IN
         /\ Whole(u) /\ Awaited(u) /\ ~u.history.active
         /\ u.main = v.main /\ u.charge = v.charge /\ u.api.user = v.api.user
         /\ u.api.ops = v.api.ops /\ u.api.up = v.api.up
         /\ \A s \in {"guard", "login", "reconnect"} : s \in Slots(u) <=> s \in Slots(v)
<1> DEFINE u == deactivateHistory(v)
<1>1. /\ v \in Shell /\ Known(v) /\ Told(v) /\ Whole(v) /\ Awaited(v)
  BY DEF Sound, Whole
<1>2. PICK h \in HistoryState :
        /\ h.pending = None /\ ~h.active
        /\ u = [cancelSafeReads(v, {"history"}) EXCEPT !.history = h]
  BY <1>1, DeactivateHistory
<1> HIDE DEF u
<1>3. /\ u \in Shell /\ u.charge = v.charge /\ u.nearby = v.nearby /\ u.main = v.main
      /\ u.history = h /\ Slots(u) = Slots(v) \ {"history"}
      /\ u.api.up = v.api.up /\ u.api.user = v.api.user /\ u.api.ops = v.api.ops
      /\ Known(u) /\ Told(u)
      /\ Listed(v) => Listed(u)
      /\ Reported(v) => Reported(u)
      /\ Rendered(v) => Rendered(u)
      /\ Withdrawn(v) => Withdrawn(u)
  BY <1>1, <1>2, HistoryOver
<1>4. Whole(u) BY <1>1, <1>3 DEF Whole
<1>5. Awaited(u) BY <1>1, <1>3 DEF Awaited
<1> QED BY <1>2, <1>3, <1>4, <1>5 DEF u

LEMMA Leaving ==
  ASSUME NEW v, Sound(v), ~v.main.blocked, v.main.navShown
  PROVE  Away(leaves(v)) /\ leaves(v).main = v.main /\ leaves(v).api.ops = v.api.ops
<1>1. Whole(v) /\ Seated(v) /\ Awaited(v) BY DEF Sound
<1>2. CASE v.main.page = "charge"
  <2> DEFINE u == leavePage(v)
  <2>1. leaves(v) = u BY <1>2 DEF leaves
  <2>2. /\ Whole(u) /\ Awaited(u) /\ ~u.charge.active
        /\ u.main = v.main /\ u.history = v.history
        /\ u.api.user = v.api.user /\ u.api.ops = v.api.ops
        /\ \A s \in {"guard", "login", "reconnect", "history"} :
             s \in Slots(u) <=> s \in Slots(v)
    BY LeftPage
  <2> HIDE DEF u
  <2> QED BY <1>1, <1>2, <2>1, <2>2 DEF Away, Seated
<1>3. CASE v.main.page = "history"
  <2> DEFINE u == deactivateHistory(v)
  <2>1. leaves(v) = u BY <1>3 DEF leaves
  <2>2. /\ Whole(u) /\ Awaited(u) /\ ~u.history.active
        /\ u.main = v.main /\ u.charge = v.charge /\ u.api.user = v.api.user
        /\ u.api.ops = v.api.ops
        /\ \A s \in {"guard", "login", "reconnect"} : s \in Slots(u) <=> s \in Slots(v)
    BY LeftHistory
  <2> HIDE DEF u
  <2> QED BY <1>1, <1>3, <2>1, <2>2 DEF Away, Seated
<1>4. CASE v.main.page \notin {"charge", "history"}
  <2>1. leaves(v) = v BY <1>4 DEF leaves
  <2> QED BY <1>1, <1>4, <2>1 DEF Away, Seated
<1> QED BY <1>2, <1>3, <1>4

\* A page that awaits nothing is on show.
LEMMA OnNearby ==
  ASSUME NEW v, Sound(v), v.main.page \in {"nearby", "profile", "navigation"}
  PROVE  Away(v)
BY DEF Sound, Away, Seated

\* The page is shown for the order that is current.
\* u is a page for order that asks for the order again.
Resumes(v, u, order) ==
  \E y \in Shell :
    /\ Known(y) /\ Told(y) /\ y.charge.active /\ y.charge.mutation = None
    /\ y.charge.order = order /\ y.charge.read = None
    /\ y.main.authority = v.main.authority
    /\ LET z == requestReconciliation(y) IN
       /\ u.charge = z.charge /\ u.api.ops = z.api.ops
       /\ u.main.authority = z.main.authority /\ u.main.stamp = z.main.stamp

LEMMA EnterResume ==
  ASSUME NEW v, Whole(v), v.charge.mutation = None, ~v.charge.reported, NEW order \in Order
  PROVE  LET u == resume(enterOrder(v, order)) IN
         /\ Resumes(v, u, order)
         /\ Whole(u) /\ u.charge.active /\ u.charge.mutation = None
         /\ u.history = v.history /\ u.api.up = v.api.up /\ u.api.user = v.api.user
         /\ u.api.ops = v.api.ops
         /\ u.main.page = v.main.page /\ u.main.guard = v.main.guard
         /\ u.main.navShown = v.main.navShown /\ u.main.reconnect = v.main.reconnect
         /\ u.main.required = v.main.required
         /\ \A s \in {"guard", "login", "reconnect"} : s \in Slots(u) <=> s \in Slots(v)
<1> DEFINE x == enterOrder(v, order)
           u == resume(x)
<1>1. /\ v \in Shell /\ Known(v) /\ Told(v) /\ Listed(v) /\ Withdrawn(v)
      /\ v.charge.reported = FALSE
  BY Parts DEF Whole, ChargeState
<1>2. Enters(v, x) /\ x.charge.order = order /\ Withdrawn(x) BY <1>1, EnterOrder
<1> HIDE DEF x
<1>3. /\ x \in Shell /\ Known(x) /\ Told(x) /\ Listed(x) /\ x.charge.mutation = None
      /\ x.charge.reported = FALSE
  BY <1>1, <1>2 DEF Enters, Beside
<1>4. x.charge.order # None
  <2>1. order # None BY NoneAssumption
  <2> QED BY <1>2, <2>1
<1>5. PICK y : /\ Enters(x, y) /\ y.charge.selection = x.charge.selection
               /\ y.charge.order = x.charge.order
               /\ Keeps(y, u) /\ u = requestReconciliation(y)
  BY <1>3, <1>4, Resume
<1> HIDE DEF u
<1>6. /\ y \in Shell /\ Known(y) /\ Told(y) /\ Listed(y) /\ Rendered(y)
      /\ y.charge.mutation = None /\ y.charge.reported = FALSE /\ y.charge.active
      /\ ~chargeFlowBlocked(y.charge) /\ y.main = x.main
  BY <1>3, <1>5 DEF Enters, Beside
<1>7. Reported(y) BY <1>6, BlockedBoolean DEF Reported
<1>8. Withdrawn(y) BY <1>2, <1>5, <1>6 DEF Withdrawn
<1>9. Whole(u) BY <1>5, <1>6, <1>7, <1>8, ReportedHeard DEF Whole, Keeps, Within
<1>10. /\ x.main = v.main /\ x.history = v.history /\ x.api.up = v.api.up
       /\ x.api.user = v.api.user /\ x.api.ops = v.api.ops
       /\ \A s \in {"guard", "login", "reconnect"} : s \in Slots(x) <=> s \in Slots(v)
  BY <1>2 DEF Enters, Beside
<1>11. /\ y.main = x.main /\ y.history = x.history /\ y.api.up = x.api.up
       /\ y.api.user = x.api.user /\ y.api.ops = x.api.ops
       /\ \A s \in {"guard", "login", "reconnect"} : s \in Slots(y) <=> s \in Slots(x)
  BY <1>5 DEF Enters, Beside
<1>12. /\ u.charge.active /\ u.charge.mutation = None
       /\ u.history = y.history /\ u.api.up = y.api.up /\ u.api.user = y.api.user
       /\ u.api.ops = y.api.ops
       /\ u.main.page = y.main.page /\ u.main.guard = y.main.guard
       /\ u.main.navShown = y.main.navShown /\ u.main.reconnect = y.main.reconnect
       /\ u.main.required = y.main.required
       /\ \A s \in {"guard", "login", "reconnect"} : s \in Slots(u) <=> s \in Slots(y)
  BY <1>5, <1>6 DEF Keeps, Within, Frame
<1>13. y.charge.order = order /\ y.charge.read = None /\ y.main.authority = v.main.authority
  BY <1>2, <1>5, <1>6, <1>10 DEF Enters
<1>14. Resumes(v, u, order) BY <1>5, <1>6, <1>13 DEF Resumes
<1> QED BY <1>9, <1>10, <1>11, <1>12, <1>14 DEF u, x

\* The page of an order is on show.
LEMMA Boarded ==
  ASSUME NEW v, Whole(v), Awaited(v), v.charge.active, ~v.history.active, v.main.navShown,
         ~v.main.guard, {"guard", "login", "reconnect"} \cap Slots(v) = {},
         v.main.reconnect = None, ~v.main.required
  PROVE  Leads(v, [v EXCEPT !.main.page = "charge"])
<1> DEFINE m == [v.main EXCEPT !.page = "charge"]
           u == [v EXCEPT !.main = m]
<1>1. v \in Shell /\ Whole(v) /\ v.main \in MainState BY Parts DEF Whole
<1>2. /\ m \in MainState /\ m.guard = v.main.guard /\ m.navShown = v.main.navShown
      /\ m.page = "charge" /\ m.remembered = v.main.remembered /\ m.blocked = v.main.blocked
      /\ m.deferred = v.main.deferred /\ m.reconnect = v.main.reconnect
      /\ m.required = v.main.required
  BY <1>1 DEF MainState
<1> HIDE DEF m
<1>3. /\ u \in Shell /\ u.main = m /\ u.api = v.api /\ u.charge = v.charge
      /\ u.history = v.history
      /\ Known(u) /\ Told(u) /\ Listed(u) /\ Reported(u) /\ Rendered(u) /\ Withdrawn(u)
  BY <1>1, <1>2, MainSet DEF Whole
<1> HIDE DEF u
<1>4. Seated(u) BY <1>2, <1>3 DEF Seated, Slots
<1>5. Awaited(u) BY <1>3 DEF Awaited
<1> QED BY <1>3, <1>4, <1>5 DEF Leads, Sound, Whole, u, m

LEMMA CancelReconnect ==
  ASSUME NEW v, Sound(v), ~v.main.required
  PROVE  LET u == cancelReconnectCurrent(v) IN
         /\ Leads(v, u) /\ u.main = v.main /\ u.charge = v.charge /\ u.history = v.history
<1> DEFINE x == cancelSafeReads(v, {"reconnect"})
           m == [x.main EXCEPT !.reconnect = None]
           u == [x EXCEPT !.main = m]
<1>1. v \in Shell /\ Whole(v) /\ Seated(v) /\ Awaited(v) BY DEF Leads, Sound, Whole
<1>2. v.main.reconnect = None /\ "reconnect" \notin Slots(v) BY <1>1 DEF Seated
<1>3. /\ x \in Shell /\ x.charge = v.charge /\ x.nearby = v.nearby
      /\ x.history = v.history /\ x.main = v.main /\ x.api.up = v.api.up
      /\ x.api.user = v.api.user /\ x.api.ops = v.api.ops /\ "reconnect" \notin Slots(x)
      /\ \A r : r # "reconnect" => (r \in Slots(x) <=> r \in Slots(v))
  BY <1>1, SlotFree
<1>4. /\ Known(x) /\ Told(x) /\ Listed(x) /\ Reported(x) /\ Withdrawn(x) /\ Rendered(x)
  <2>1. "reconnect" \in {"guard", "login", "reconnect", "list"}
        /\ "reconnect" # "list"
    OBVIOUS
  <2> HIDE DEF x
  <2> QED BY <1>1, <2>1, SlotKnown DEF Whole, x
<1>5. cancelReconnectCurrent(v) = u BY DEF cancelReconnectCurrent
<1> HIDE DEF x
<1>6. m = x.main BY <1>1, <1>2, <1>3, Parts DEF MainState
<1>7. u = x BY <1>3, <1>6 DEF Shell
<1>8. Seated(x) BY <1>1, <1>2, <1>3 DEF Seated
<1>9. Awaited(x) BY <1>1, <1>3 DEF Awaited
<1> QED BY <1>3, <1>4, <1>5, <1>7, <1>8, <1>9 DEF Leads, Sound, Whole

LEMMA OrderShown ==
  ASSUME NEW v, Sound(v), ~v.main.blocked, ~v.main.required, v.main.navShown,
         NEW order \in Order
  PROVE  LET u == [resume(enterOrder(IF v.main.page = "history"
                                  THEN deactivateHistory(cancelReconnectCurrent(v))
                                  ELSE cancelReconnectCurrent(v), order)) EXCEPT
                     !.main.page = "charge"]
         IN  Leads(v, u) /\ Resumes(v, u, order)
<1> DEFINE x == cancelReconnectCurrent(v)
           y == IF v.main.page = "history" THEN deactivateHistory(x) ELSE x
           z == resume(enterOrder(y, order))
<1>1. /\ Sound(x) /\ x.main = v.main /\ x.charge = v.charge /\ x.api.ops = v.api.ops
  BY CancelReconnect DEF Leads
<1> HIDE DEF x
<1>2. Whole(x) /\ Seated(x) /\ Awaited(x) BY <1>1 DEF Sound
<1>3. /\ Whole(y) /\ Awaited(y) /\ ~y.history.active /\ y.main = x.main
      /\ y.charge = x.charge /\ y.api.ops = x.api.ops
      /\ \A s \in {"guard", "login", "reconnect"} : s \in Slots(y) <=> s \in Slots(x)
  <2>1. CASE v.main.page = "history" BY <1>1, <2>1, LeftHistory
  <2>2. CASE v.main.page # "history"
    BY <1>1, <1>2, <2>2 DEF Seated
  <2> QED BY <2>1, <2>2
<1> HIDE DEF y
<1>4. ~y.charge.reported /\ ~chargeFlowBlocked(y.charge)
  BY <1>1, <1>3 DEF Told, Reported, Whole
<1>5. y.charge.mutation = None BY <1>4 DEF chargeFlowBlocked
<1>6. /\ Resumes(y, z, order)
      /\ Whole(z) /\ z.charge.active /\ z.charge.mutation = None
      /\ z.history = y.history /\ z.api.ops = y.api.ops
      /\ z.main.guard = y.main.guard
      /\ z.main.navShown = y.main.navShown /\ z.main.reconnect = y.main.reconnect
      /\ z.main.required = y.main.required
      /\ \A s \in {"guard", "login", "reconnect"} : s \in Slots(z) <=> s \in Slots(y)
  BY <1>3, <1>4, <1>5, EnterResume
<1> HIDE DEF z
<1>7. Awaited(z) BY <1>3, <1>5, <1>6 DEF Awaited
<1>8. /\ ~z.history.active /\ z.main.navShown /\ ~z.main.guard /\ ~z.main.required
      /\ z.main.reconnect = None /\ {"guard", "login", "reconnect"} \cap Slots(z) = {}
  BY <1>1, <1>2, <1>3, <1>6 DEF Seated
<1>9. Leads(z, [z EXCEPT !.main.page = "charge"]) BY <1>6, <1>7, <1>8, Boarded
<1> DEFINE u == [z EXCEPT !.main.page = "charge"]
<1>10. /\ u.charge = z.charge /\ u.api = z.api /\ u.main.authority = z.main.authority
       /\ u.main.stamp = z.main.stamp
  <2>1. z \in Shell /\ z.main \in MainState BY <1>6, Parts DEF Whole
  <2> QED BY <2>1 DEF Shell, MainState
<1> HIDE DEF u
<1>11. Resumes(v, u, order) BY <1>1, <1>3, <1>6, <1>10 DEF Resumes
<1> QED BY <1>1, <1>3, <1>6, <1>9, <1>11 DEF Leads, u, z, y, x

LEMMA OffersMutations ==
  ASSUME NEW c PROVE Offers(c) \subseteq Mutation
BY DEF Offers, Mutation

\* The way back is open only while the flow is free.
LEMMA BackFree ==
  ASSUME NEW v, Rendered(v), "back" \in v.charge.buttons
  PROVE  ~chargeFlowBlocked(v.charge)
<1>1. "back" \in Usable(v) BY DEF Rendered
<1>2. "back" \notin Offers(v.charge) BY OffersMutations DEF Mutation
<1> QED BY <1>1, <1>2 DEF Usable

LEMMA BackToOrder ==
  ASSUME NEW v, Sound(v), v.main.page = "charge", ~v.main.required,
         "back" \in v.charge.buttons, NEW order \in Order
  PROVE  LET u == resume(enterOrder(v, order)) IN Leads(v, u) /\ Resumes(v, u, order)
<1> DEFINE u == resume(enterOrder(v, order))
<1>1. Whole(v) /\ Seated(v) /\ Awaited(v) BY DEF Sound
<1>2. ~chargeFlowBlocked(v.charge) /\ ~v.charge.reported /\ v.charge.mutation = None
  <2>1. ~chargeFlowBlocked(v.charge) BY <1>1, BackFree DEF Whole
  <2>2. v.charge.reported = chargeFlowBlocked(v.charge) BY <1>1 DEF Whole, Reported
  <2>3. v.charge.mutation = None BY <2>1 DEF chargeFlowBlocked
  <2> QED BY <2>1, <2>2, <2>3
<1>3. /\ Resumes(v, u, order)
      /\ Whole(u) /\ u.charge.active /\ u.charge.mutation = None
      /\ u.history = v.history /\ u.api.up = v.api.up /\ u.api.user = v.api.user
      /\ u.api.ops = v.api.ops
      /\ u.main.page = v.main.page /\ u.main.guard = v.main.guard
      /\ u.main.navShown = v.main.navShown /\ u.main.reconnect = v.main.reconnect
      /\ u.main.required = v.main.required
      /\ \A s \in {"guard", "login", "reconnect"} : s \in Slots(u) <=> s \in Slots(v)
  BY <1>1, <1>2, EnterResume
<1> HIDE DEF u
<1>4. Seated(u) BY <1>1, <1>3 DEF Seated
<1>5. Awaited(u) BY <1>1, <1>2, <1>3 DEF Awaited
<1> QED BY <1>3, <1>4, <1>5 DEF Leads, Sound, u

LEMMA BackToNearby ==
  ASSUME NEW v, Sound(v), v.main.page = "charge", "back" \in v.charge.buttons
  PROVE  LET u == [leavePage(v) EXCEPT !.main.authority = None, !.main.remembered = None,
                                       !.main.page = "nearby"]
         IN  Leads(v, u) /\ u.main.page = "nearby" /\ u.main.authority = None
<1> DEFINE x == leavePage(v)
           m == [v.main EXCEPT !.authority = None, !.remembered = None, !.page = "nearby"]
           u == [x EXCEPT !.main = m]
<1>1. /\ v \in Shell /\ Whole(v) /\ Seated(v) /\ Awaited(v) /\ v.main.navShown
  BY DEF Sound, Whole, Seated
<1>2. ~v.main.blocked
  <2>1. ~chargeFlowBlocked(v.charge) BY <1>1, BackFree DEF Whole
  <2>2. v.main.blocked = chargeFlowBlocked(v.charge) BY <1>1 DEF Whole, Reported, Told
  <2> QED BY <2>1, <2>2
<1>3. /\ Whole(x) /\ Awaited(x) /\ ~x.charge.active
      /\ x.main = v.main /\ x.history = v.history /\ x.api.user = v.api.user
      /\ x.api.ops = v.api.ops
      /\ \A s \in {"guard", "login", "reconnect", "history"} :
           s \in Slots(x) <=> s \in Slots(v)
  BY <1>1, <1>2, LeftPage
<1> HIDE DEF x
<1>4. v.main \in MainState BY <1>1, Parts
<1>5. /\ m \in MainState /\ m.authority = None /\ m.guard = v.main.guard /\ m.navShown = v.main.navShown
      /\ m.page = "nearby" /\ m.remembered = None /\ m.blocked = v.main.blocked
      /\ m.deferred = v.main.deferred /\ m.reconnect = v.main.reconnect
      /\ m.required = v.main.required
  BY <1>4, NoneFits DEF MainState
<1>6. [x EXCEPT !.main.authority = None, !.main.remembered = None, !.main.page = "nearby"] = u
  <2>1. x \in Shell BY <1>3 DEF Whole
  <2> QED BY <1>3, <1>4, <2>1 DEF Shell, MainState
<1> HIDE DEF m
<1>7. /\ u \in Shell /\ u.main = m /\ u.api = x.api /\ u.charge = x.charge
      /\ u.history = x.history
      /\ Known(u) /\ Told(u) /\ Listed(u) /\ Reported(u) /\ Rendered(u) /\ Withdrawn(u)
  BY <1>3, <1>5, MainSet DEF Whole
<1> HIDE DEF u
<1>8. Seated(u) BY <1>1, <1>3, <1>5, <1>7 DEF Seated, Slots
<1>9. Awaited(u) BY <1>3, <1>7 DEF Awaited
<1> QED BY <1>3, <1>5, <1>6, <1>7, <1>8, <1>9 DEF Leads, Sound, Whole, x

LEMMA HistoryShown ==
  ASSUME NEW v, Sound(v), ~v.main.blocked, v.main.navShown
  PROVE  LET u == [activateHistory(IF v.main.page = "charge" THEN leavePage(v) ELSE v) EXCEPT
                     !.main.page = "history"]
         IN  Leads(v, u) /\ u.main.authority = v.main.authority
<1> DEFINE y == IF v.main.page = "charge" THEN leavePage(v) ELSE v
           h == [y.history EXCEPT !.active = TRUE]
           z == [y EXCEPT !.history = h]
           t == refreshHistory(z)
           m == [t.main EXCEPT !.page = "history"]
           u == [t EXCEPT !.main = m]
<1>1. Whole(v) /\ Seated(v) /\ Awaited(v) BY DEF Sound
<1>2. /\ Whole(y) /\ Awaited(y) /\ ~y.charge.active
      /\ y.main = v.main /\ y.api.user = v.api.user /\ y.api.ops = v.api.ops
      /\ \A s \in {"guard", "login", "reconnect"} : s \in Slots(y) <=> s \in Slots(v)
  <2>1. CASE v.main.page = "charge" BY <2>1, LeftPage
  <2>2. CASE v.main.page # "charge" BY <1>1, <2>2 DEF Seated
  <2> QED BY <2>1, <2>2
<1> HIDE DEF y
<1>3. activateHistory(y) = t BY DEF activateHistory
<1>4. y \in Shell /\ Known(y) /\ Told(y) /\ y.history \in HistoryState
  BY <1>2, Parts DEF Whole
<1>5. h \in HistoryState /\ h.pending = y.history.pending /\ h.active
  BY <1>4 DEF HistoryState
<1> HIDE DEF h
<1>6. /\ z \in Shell /\ z.charge = y.charge /\ z.nearby = y.nearby /\ z.main = y.main
      /\ z.api = y.api /\ z.history = h
  BY <1>4, <1>5 DEF Shell
<1> HIDE DEF z
<1>7. /\ Known(z) /\ Told(z) /\ Listed(z) /\ Reported(z) /\ Rendered(z) /\ Withdrawn(z)
  BY <1>2, <1>5, <1>6
  DEF Whole, Known, Told, Listed, Reported, Rendered, Usable, Withdrawn, Slots
<1>8. Holds(z, t) /\ Apace(z, t) /\ t.charge = z.charge /\ t.main = z.main
  BY <1>6, <1>7, RefreshHistory
<1> HIDE DEF t
<1>9. Whole(t) BY <1>6, <1>7, <1>8, HoldsWhole DEF Whole
<1>10. /\ ~t.charge.active /\ t.history.active /\ t.main = v.main
       /\ t.api.user = v.api.user /\ t.api.ops = v.api.ops
       /\ \A s \in {"guard", "login", "reconnect"} : s \in Slots(t) <=> s \in Slots(v)
  BY <1>2, <1>5, <1>6, <1>8 DEF Holds, Apace, Slots
<1>11. Awaited(t) BY <1>2, <1>6, <1>8 DEF Awaited, Holds
<1>12. t.main \in MainState BY <1>9, Parts DEF Whole
<1>13. /\ m \in MainState /\ m.guard = t.main.guard /\ m.navShown = t.main.navShown
       /\ m.page = "history" /\ m.remembered = t.main.remembered /\ m.blocked = t.main.blocked
       /\ m.deferred = t.main.deferred /\ m.reconnect = t.main.reconnect
       /\ m.required = t.main.required /\ m.authority = t.main.authority
  BY <1>12 DEF MainState
<1> HIDE DEF m
<1>14. /\ u \in Shell /\ u.main = m /\ u.api = t.api /\ u.charge = t.charge
       /\ u.history = t.history
       /\ Known(u) /\ Told(u) /\ Listed(u) /\ Reported(u) /\ Rendered(u) /\ Withdrawn(u)
  BY <1>9, <1>13, MainSet DEF Whole
<1> HIDE DEF u
<1>15. Seated(u) BY <1>1, <1>10, <1>13, <1>14 DEF Seated, Slots
<1>16. Awaited(u) BY <1>11, <1>14 DEF Awaited
<1>17. u.main.authority = v.main.authority BY <1>10, <1>13, <1>14
<1> QED BY <1>3, <1>10, <1>14, <1>15, <1>16, <1>17 DEF Leads, Sound, Whole, u, m, y

\* A charger was chosen, and its selection is fresh.
LEMMA ChargerChosen ==
  ASSUME NEW v, Sound(v), v.main.page = "nearby", ~v.main.blocked, ~v.main.required,
         NEW s \in Selection, s.valid
  PROVE  LET u == [enterSelection([nextSelection(v) EXCEPT !.main.remembered = s], s) EXCEPT
                     !.main.page = "charge"]
         IN  /\ Leads(v, u) /\ u.main.authority = v.main.authority
             /\ u.charge.order = None /\ u.charge.read = None /\ u.charge.mutation = None
<1> DEFINE x == nextSelection(v)
           m == [x.main EXCEPT !.remembered = s]
           y == [x EXCEPT !.main = m]
           z == enterSelection(y, s)
<1>1. /\ v \in Shell /\ Known(v) /\ Told(v) /\ Whole(v) /\ Seated(v) /\ Awaited(v)
  BY DEF Sound, Whole
<1>2. Keeps(v, x) BY <1>1, NextSelection
<1>3. Sound(x) BY <1>2, KeepsHolds, HoldsSound
<1>4. x.main.blocked = v.main.blocked
  <2>1. x.main = [v.main EXCEPT !.remembered = aged(v.main.remembered)]
    BY <1>1, NextSelection
  <2> HIDE DEF x
  <2> QED BY <1>1, <2>1, Parts DEF MainState
<1>5. /\ x.main.authority = v.main.authority
      /\ x.main.page = v.main.page /\ x.main.required = v.main.required
      /\ x.api.ops = v.api.ops
  BY <1>2 DEF Keeps, Within, Frame
<1> HIDE DEF x
<1>6. /\ x \in Shell /\ Whole(x) /\ Seated(x) /\ Awaited(x) /\ x.main \in MainState
      /\ s # None /\ s \in Maybe(Selection)
  BY <1>3, Parts, NoneAssumption DEF Sound, Whole, Maybe
<1>7. [x EXCEPT !.main.remembered = s] = y BY <1>6 DEF Shell
<1>8. /\ m \in MainState /\ m.guard = x.main.guard /\ m.navShown = x.main.navShown
      /\ m.page = x.main.page /\ m.remembered = s /\ m.blocked = x.main.blocked
      /\ m.deferred = x.main.deferred /\ m.reconnect = x.main.reconnect
      /\ m.required = x.main.required /\ m.authority = x.main.authority
  BY <1>6 DEF MainState
<1> HIDE DEF m
<1>9. /\ y \in Shell /\ y.main = m /\ y.api = x.api /\ y.charge = x.charge
      /\ y.history = x.history
      /\ Known(y) /\ Told(y) /\ Listed(y) /\ Reported(y) /\ Rendered(y)
  BY <1>6, <1>8, MainParts DEF Whole
<1> HIDE DEF y
<1>10. ~y.charge.reported /\ ~chargeFlowBlocked(y.charge)
  BY <1>4, <1>8, <1>9 DEF Told, Reported
<1>11. y.charge.mutation = None BY <1>10 DEF chargeFlowBlocked
<1>12. Enters(y, z) /\ z.charge.order = None /\ z.charge.selection = s
  BY <1>9, <1>10, EnterSelection
<1> HIDE DEF z
<1>13. /\ z \in Shell /\ Known(z) /\ Told(z) /\ Listed(z) /\ Rendered(z) /\ z.charge.active
       /\ z.main = m /\ z.history = x.history /\ z.api.ops = x.api.ops
       /\ z.charge.mutation = None /\ z.charge.order = None /\ z.charge.read = None
       /\ ~chargeFlowBlocked(z.charge)
       /\ z.charge.reported = y.charge.reported
       /\ \A r \in {"guard", "login", "reconnect"} : r \in Slots(z) <=> r \in Slots(x)
  BY <1>9, <1>11, <1>12 DEF Enters, Beside, Slots
<1>14. Reported(z)
  <2>1. y.charge.reported \in BOOLEAN BY <1>9, Parts DEF ChargeState
  <2> QED BY <1>10, <1>13, <2>1, BlockedBoolean DEF Reported
<1>15. Withdrawn(z) BY <1>6, <1>8, <1>12, <1>13 DEF Withdrawn, Whole
<1>16. Whole(z) BY <1>13, <1>14, <1>15 DEF Whole
<1>17. Awaited(z) BY <1>6, <1>9, <1>11, <1>13 DEF Awaited
<1>18. /\ ~z.history.active /\ z.main.navShown /\ ~z.main.guard /\ ~z.main.required
       /\ z.main.reconnect = None /\ {"guard", "login", "reconnect"} \cap Slots(z) = {}
  BY <1>5, <1>6, <1>8, <1>13 DEF Seated
<1>19. Leads(z, [z EXCEPT !.main.page = "charge"]) BY <1>13, <1>16, <1>17, <1>18, Boarded
<1> DEFINE u == [z EXCEPT !.main.page = "charge"]
<1>20. u.charge = z.charge /\ u.main.authority = z.main.authority
  BY <1>13, Parts DEF Shell, MainState
<1> HIDE DEF u
<1> QED BY <1>5, <1>7, <1>8, <1>13, <1>19, <1>20 DEF Leads, u, z, x

\* The order is read after a new connection.
LEMMA RequestReconnect ==
  ASSUME NEW v, Sound(v)
  PROVE  LET u == requestReconnectCurrent(v) IN
         /\ Leads(v, u) /\ u.charge = v.charge
         /\ u.main.authority = v.main.authority /\ u.main.stamp = v.main.stamp
<1> DEFINE u == requestReconnectCurrent(v)
           x == send(v, "reconnect")
           o == [owner |-> orderId(v.main.authority)]
           m == [v.main EXCEPT !.reconnect = o]
           y == [x EXCEPT !.main = m]
<1>1. v \in Shell /\ Whole(v) /\ Seated(v) /\ Awaited(v) /\ v.main \in MainState
  BY Parts DEF Sound, Whole
<1>2. CASE \/ ~v.main.required \/ ~v.api.up \/ v.main.reconnect # None \/ v.main.guard
           \/ v.main.page = "charge" \/ ~v.api.user
  BY <1>2 DEF Leads, requestReconnectCurrent
<1>3. CASE ~(\/ ~v.main.required \/ ~v.api.up \/ v.main.reconnect # None \/ v.main.guard
             \/ v.main.page = "charge" \/ ~v.api.user)
  <2>1. u = [x EXCEPT !.main.reconnect = o] BY <1>3 DEF requestReconnectCurrent
  <2>2. o \in Reconnect
    <3>1. v.main.authority \in Maybe(Order) BY <1>1 DEF MainState
    <3>2. orderId(v.main.authority) \in 0..MaxOrder
      BY <3>1, BoundAssumption DEF orderId, Maybe, Order
    <3> QED BY <3>2 DEF Reconnect
  <2>3. o \in Maybe(Reconnect) /\ o # None BY <2>2, NoneAssumption DEF Maybe
  <2> HIDE DEF o, u
  <2>4. /\ x \in Shell
        /\ x.charge = v.charge /\ x.nearby = v.nearby /\ x.history = v.history
        /\ x.main = v.main /\ x.api.up = v.api.up /\ x.api.user = v.api.user
        /\ x.api.ops = v.api.ops /\ Slots(x) = Slots(v) \cup {"reconnect"}
    <3>1. "reconnect" \in Read BY DEF Read, CurrentRead
    <3> QED BY <1>1, <3>1, SendRead
  <2>5. u = y
    <3> HIDE DEF x
    <3> QED BY <2>1, <2>4 DEF Shell
  <2> HIDE DEF x
  <2>6. /\ m \in MainState /\ m.guard = v.main.guard /\ m.navShown = v.main.navShown
        /\ m.page = v.main.page /\ m.remembered = v.main.remembered
        /\ m.blocked = v.main.blocked /\ m.deferred = v.main.deferred
        /\ m.reconnect = o /\ m.required = v.main.required
        /\ m.authority = v.main.authority /\ m.stamp = v.main.stamp
    BY <1>1, <2>3 DEF MainState
  <2> HIDE DEF m
  <2>7. /\ Known(x) /\ Told(x) /\ Listed(x) /\ Reported(x) /\ Rendered(x) /\ Withdrawn(x)
    BY <1>1, <2>4
    DEF Whole, Known, Told, Listed, Reported, Rendered, Usable, Withdrawn
  <2>8. /\ y \in Shell /\ y.main = m /\ y.api = x.api /\ y.charge = x.charge
        /\ y.history = x.history
        /\ Known(y) /\ Told(y) /\ Listed(y) /\ Reported(y) /\ Rendered(y) /\ Withdrawn(y)
    BY <2>4, <2>6, <2>7, MainSet
  <2> HIDE DEF y
  <2>9. /\ y.charge = v.charge /\ y.history = v.history /\ y.api.user = v.api.user
        /\ y.api.ops = v.api.ops /\ Slots(y) = Slots(v) \cup {"reconnect"}
    BY <2>4, <2>8 DEF Slots
  <2>10. Seated(y) BY <1>1, <1>3, <2>3, <2>6, <2>8, <2>9 DEF Seated
  <2>11. Awaited(y) BY <1>1, <2>9 DEF Awaited
  <2> QED BY <2>5, <2>6, <2>8, <2>9, <2>10, <2>11 DEF Leads, Sound, Whole, u
<1> QED BY <1>2, <1>3

-----------------------------------------------------------------------------
(* The mutations of an order.                                              *)

\* What a button of a mutation is about.
LEMMA Targets ==
  ASSUME NEW v \in Shell, NEW op \in Mutation, op \in Offers(v.charge)
  PROVE  LET t == IF op = "reserve" THEN v.charge.selection.charger ELSE v.charge.order.id
         IN  /\ [op |-> op, target |-> t, live |-> TRUE] \in SentMutation
             /\ orderId(v.charge.order) \in 0..MaxOrder
<1> DEFINE c == v.charge
           t == IF op = "reserve" THEN c.selection.charger ELSE c.order.id
<1>1. c.order \in Maybe(Order) /\ c.selection \in Maybe(Selection)
  BY Parts DEF ChargeState
<1>2. orderId(c.order) \in 0..MaxOrder
  BY <1>1, BoundAssumption DEF orderId, Maybe, Order
<1> HIDE DEF c
<1>3. CASE op = "reserve"
  <2>1. c.selection # None BY <1>3 DEF Offers, c
  <2>2. t \in Charger BY <1>1, <1>3, <2>1 DEF Maybe, Selection
  <2> HIDE DEF t
  <2> QED BY <1>2, <1>3, <2>2 DEF SentMutation, Mutation, c, t
<1>4. CASE op # "reserve"
  <2>1. c.order # None BY <1>4 DEF Offers, c
  <2>2. t \in 1..MaxOrder BY <1>1, <1>4, <2>1 DEF Maybe, Order
  <2> HIDE DEF t
  <2> QED BY <1>2, <1>4, <2>2 DEF SentMutation, Mutation, c, t
<1> QED BY <1>3, <1>4

LEMMA MutationSent ==
  ASSUME NEW v \in Shell, NEW r \in SentMutation
  PROVE  LET u == sendMutation(v, r.op, r.target) IN
         r.live => /\ u \in Shell /\ u.charge = v.charge /\ u.nearby = v.nearby
                   /\ u.history = v.history /\ u.main = v.main /\ u.api.up = v.api.up
                   /\ u.api.user = v.api.user /\ u.api.reads = v.api.reads
                   /\ u.api.ops = Append(v.api.ops, r)
<1> DEFINE u == sendMutation(v, r.op, r.target)
           q == Append(v.api.ops, r)
           a == [v.api EXCEPT !.ops = q]
<1>0. SUFFICES ASSUME r.live
               PROVE  /\ u \in Shell /\ u.charge = v.charge /\ u.nearby = v.nearby
                      /\ u.history = v.history /\ u.main = v.main /\ u.api.up = v.api.up
                      /\ u.api.user = v.api.user /\ u.api.reads = v.api.reads
                      /\ u.api.ops = Append(v.api.ops, r)
  OBVIOUS
<1>1. v.api \in ApiState(Slots(v)) /\ Slots(v) \in SUBSET Read BY Parts
<1>2. [op |-> r.op, target |-> r.target, live |-> TRUE] = r
  BY <1>0 DEF SentMutation
<1>3. q \in Seq(SentMutation) BY <1>1 DEF ApiState
<1>4. u = [v EXCEPT !.api = a] BY <1>2 DEF sendMutation
<1> HIDE DEF q
<1>5. /\ a \in ApiState(Slots(v)) /\ a.up = v.api.up /\ a.user = v.api.user
      /\ a.reads = v.api.reads /\ a.ops = q
  BY <1>1, <1>3 DEF ApiState
<1> HIDE DEF a, u
<1> QED BY <1>1, <1>4, <1>5 DEF Shell, q

\* A mutation is asked for and awaited: the page as it is before it is shown.
Asked(v, op, p, r, y) ==
  /\ p \in PageMutation /\ p.fits /\ ~p.superseded /\ p.op = op
  /\ p.subject = orderId(v.charge.order)
  /\ r \in SentMutation /\ r.live /\ r.op = op
  /\ r.target = IF op = "reserve" THEN v.charge.selection.charger ELSE v.charge.order.id
  /\ y \in Shell /\ Known(y) /\ Told(y) /\ Listed(y) /\ Withdrawn(y)
  /\ y.charge = [v.charge EXCEPT !.mutation = p]
  /\ y.main = [v.main EXCEPT !.stamp = "same"]
  /\ y.nearby = v.nearby /\ y.history = v.history
  /\ y.api.up = v.api.up /\ y.api.user = v.api.user /\ y.api.reads = v.api.reads
  /\ y.api.ops = Append(v.api.ops, r)

LEMMA MutationBegun ==
  ASSUME NEW v, Sound(v), NEW op \in Mutation, op \in v.charge.buttons
  PROVE  IF ~v.charge.active \/ ~v.api.up \/ chargeFlowBlocked(v.charge)
         THEN beginMutation(v, op) = v
         ELSE op \in Offers(v.charge)
              /\ \E p, r, y : Asked(v, op, p, r, y) /\ beginMutation(v, op) = Shown(y)
<1> DEFINE u == beginMutation(v, op)
           target == IF op = "reserve" THEN v.charge.selection.charger ELSE v.charge.order.id
           r == [op |-> op, target |-> target, live |-> TRUE]
           x == sendMutation(v, op, target)
           p == [op |-> op, subject |-> orderId(v.charge.order), superseded |-> FALSE,
                 fits |-> TRUE]
           c == [v.charge EXCEPT !.mutation = p]
           m == [v.main EXCEPT !.stamp = "same"]
           y == [x EXCEPT !.charge = c, !.main = m]
<1>1. /\ v \in Shell /\ Whole(v) /\ Seated(v) /\ Awaited(v)
      /\ v.charge \in ChargeState /\ v.main \in MainState
  BY Parts DEF Sound, Whole
<1>2. CASE ~v.charge.active \/ ~v.api.up \/ chargeFlowBlocked(v.charge)
  BY <1>2 DEF beginMutation
<1>3. CASE ~(~v.charge.active \/ ~v.api.up \/ chargeFlowBlocked(v.charge))
  <2>1. op \in Offers(v.charge)
    <3>1. op # "retry" /\ op # "back" BY DEF Mutation
    <3>2. op \in Usable(v) BY <1>1, <3>1 DEF Whole, Rendered
    <3> QED BY <3>1, <3>2 DEF Usable
  <2>2. r \in SentMutation /\ orderId(v.charge.order) \in 0..MaxOrder
    BY <1>1, <2>1, Targets
  <2>3. /\ p \in PageMutation /\ p.fits /\ ~p.superseded /\ p.op = op
        /\ p.subject = orderId(v.charge.order)
    BY <2>2 DEF PageMutation
  <2>4. p \in Maybe(PageMutation) /\ p # None BY <2>3, NoneAssumption DEF Maybe
  <2>5. u = Shown([x EXCEPT !.charge.mutation = p, !.main.stamp = "same"])
    <3> HIDE DEF x, p
    <3>1. u = Shown([sendMutation(v, op, target) EXCEPT
                       !.charge.mutation = [op |-> op, subject |-> orderId(v.charge.order),
                                            superseded |-> FALSE, fits |-> TRUE],
                       !.main.stamp = "same"])
      BY <1>3 DEF beginMutation
    <3> QED BY <3>1 DEF x, p
  <2>6. r.op = op /\ r.target = target /\ r.live OBVIOUS
  <2>7. /\ x \in Shell /\ x.charge = v.charge /\ x.nearby = v.nearby
        /\ x.history = v.history /\ x.main = v.main /\ x.api.up = v.api.up
        /\ x.api.user = v.api.user /\ x.api.reads = v.api.reads
        /\ x.api.ops = Append(v.api.ops, r)
    <3> HIDE DEF r, x, target
    <3> QED BY <1>1, <2>2, <2>6, MutationSent DEF x
  <2>8. [x EXCEPT !.charge.mutation = p, !.main.stamp = "same"] = y
    <3> HIDE DEF x, p
    <3> QED BY <2>7 DEF Shell
  <2> HIDE DEF x, u, p
  <2>9. /\ c \in ChargeState /\ c.facts = v.charge.facts /\ c.read = v.charge.read
        /\ c.active = v.charge.active /\ c.order = v.charge.order
        /\ c.selGen = v.charge.selGen /\ c.exit = v.charge.exit
        /\ c.exitFailed = v.charge.exitFailed /\ c.attempt = v.charge.attempt
        /\ c.reported = v.charge.reported /\ c.selection = v.charge.selection
    BY <1>1, <2>4 DEF ChargeState
  <2>10. /\ m \in MainState /\ m.remembered = v.main.remembered
         /\ m.blocked = v.main.blocked /\ m.deferred = v.main.deferred
    BY <1>1 DEF MainState
  <2>11. /\ y \in Shell /\ y.charge = c /\ y.main = m /\ y.nearby = v.nearby
         /\ y.history = v.history /\ y.api = x.api
    <3> HIDE DEF c, m
    <3> QED BY <2>7, <2>9, <2>10 DEF Shell
  <2> HIDE DEF y
  <2>12. Paged(c)
    <3> HIDE DEF c
    <3> QED BY <1>1, <2>9, PagedSame DEF Whole, Known
  <2>13. Known(y) /\ Told(y) /\ Listed(y) /\ Withdrawn(y)
    <3> HIDE DEF c, m
    <3> QED BY <1>1, <2>7, <2>9, <2>10, <2>11, <2>12
            DEF Whole, Known, Told, Listed, Withdrawn, Slots
  <2>14. Asked(v, op, p, r, y)
    <3> HIDE DEF r
    <3> QED BY <2>2, <2>3, <2>6, <2>7, <2>11, <2>13 DEF Asked
  <2> HIDE DEF r
  <2> QED BY <1>3, <2>1, <2>5, <2>8, <2>14 DEF u
<1> QED BY <1>2, <1>3

LEMMA AskedParts ==
  ASSUME NEW v, Sound(v), NEW op, NEW p, NEW r, NEW y, Asked(v, op, p, r, y)
  PROVE  LET c == y.charge
             m == y.main
         IN  /\ p # None /\ c.mutation = p
             /\ c.facts = v.charge.facts /\ c.read = v.charge.read
             /\ c.active = v.charge.active /\ c.order = v.charge.order
             /\ c.exit = v.charge.exit /\ c.selection = v.charge.selection
             /\ m.guard = v.main.guard /\ m.navShown = v.main.navShown
             /\ m.page = v.main.page /\ m.remembered = v.main.remembered
             /\ m.reconnect = v.main.reconnect /\ m.required = v.main.required
             /\ m.authority = v.main.authority
<1>1. v.charge \in ChargeState /\ v.main \in MainState BY Parts DEF Sound, Whole
<1>2. p # None BY NoneAssumption DEF Asked
<1> QED BY <1>1, <1>2 DEF Asked, ChargeState, MainState

LEMMA BeginMutation ==
  ASSUME NEW v, Sound(v), NEW op \in Mutation, op \in v.charge.buttons
  PROVE  Sound(beginMutation(v, op))
<1> DEFINE u == beginMutation(v, op)
<1>1. /\ v \in Shell /\ Whole(v) /\ Seated(v) /\ Awaited(v)
  BY DEF Sound, Whole
<1>2. CASE ~v.charge.active \/ ~v.api.up \/ chargeFlowBlocked(v.charge)
  BY <1>2, MutationBegun
<1>3. CASE ~(~v.charge.active \/ ~v.api.up \/ chargeFlowBlocked(v.charge))
  <2>1. PICK p, r, y : Asked(v, op, p, r, y) /\ u = Shown(y)
    BY <1>3, MutationBegun
  <2> HIDE DEF u
  <2>2. Settles(y, u) BY <2>1, ShownSettles DEF Asked
  <2>3. Whole(u) BY <2>1, <2>2 DEF Asked, Whole, Settles, Moves, Within
  <2>4. /\ p # None /\ p.fits /\ y.charge.mutation = p
        /\ y.charge.active = v.charge.active /\ y.charge.selection = v.charge.selection
        /\ y.main.guard = v.main.guard /\ y.main.navShown = v.main.navShown
        /\ y.main.page = v.main.page /\ y.main.remembered = v.main.remembered
        /\ y.main.reconnect = v.main.reconnect /\ y.main.required = v.main.required
    BY <2>1, AskedParts DEF Asked
  <2>5. /\ u.api.user = v.api.user /\ u.api.ops = Append(v.api.ops, r)
        /\ u.history = v.history /\ u.charge.active = v.charge.active
        /\ u.charge.mutation = p /\ u.main.page = v.main.page
        /\ u.main.guard = v.main.guard /\ u.main.navShown = v.main.navShown
        /\ u.main.reconnect = v.main.reconnect /\ u.main.required = v.main.required
        /\ v.main.remembered = None => u.main.remembered = None
        /\ v.charge.selection = None => u.charge.selection = None
        /\ \A s \in {"guard", "reconnect", "login"} : s \in Slots(u) <=> s \in Slots(v)
    BY <2>1, <2>2, <2>4 DEF Asked, Settles, Moves, Within, Frame, Slots
  <2>6. Seated(u) BY <1>1, <2>5 DEF Seated
  <2>7. Awaited(u)
    <3>1. v.charge.mutation = None BY <1>3 DEF chargeFlowBlocked
    <3>2. \A i \in DOMAIN v.api.ops : ~v.api.ops[i].live BY <1>1, <3>1 DEF Awaited
    <3>3. r \in SentMutation /\ r.live BY <2>1 DEF Asked
    <3>4. v.api.ops \in Seq(SentMutation) BY <1>1, Parts DEF ApiState
    <3> DEFINE q == u.api.ops
               n == Len(v.api.ops)
    <3>5. /\ n \in Nat /\ DOMAIN q = 1..n + 1 /\ q[n + 1] = r
          /\ \A i \in 1..n : q[i] = v.api.ops[i] /\ i \in DOMAIN v.api.ops
      BY <2>5, <3>3, <3>4
    <3> HIDE DEF q, n
    <3>6. \A i \in DOMAIN q : q[i].live <=> i = n + 1
      BY <3>2, <3>3, <3>5
    <3>7. n + 1 \in DOMAIN q BY <3>5
    <3>8. /\ \E i \in DOMAIN q : q[i].live
          /\ \A i, j \in DOMAIN q : q[i].live /\ q[j].live => i = j
      BY <3>6, <3>7
    <3> QED BY <1>3, <2>4, <2>5, <3>8 DEF Awaited, q
  <2> QED BY <2>3, <2>6, <2>7 DEF Sound, u
<1> QED BY <1>2, <1>3

\* What the window has of an outcome: the order that is current.
Noted(n, m) ==
  /\ m.page = n.page /\ m.guard = n.guard /\ m.navShown = n.navShown
  /\ m.reconnect = n.reconnect /\ m.required = n.required
  /\ m.blocked = n.blocked /\ m.deferred = n.deferred
  /\ m.remembered \in {None, n.remembered}

LEMMA NotedStamp ==
  ASSUME NEW n \in MainState
  PROVE  LET m == [n EXCEPT !.stamp = "none"] IN m \in MainState /\ Noted(n, m)
<1> DEFINE m == [n EXCEPT !.stamp = "none"]
<1>1. m \in MainState BY DEF MainState
<1>2. Noted(n, m) BY DEF MainState, Noted
<1> QED BY <1>1, <1>2

\* The order that is current for the window once the outcome of a mutation is known.
CurrentAfter(n, order) ==
  CASE \/ n.stamp = "none"
       \/ n.stamp = "moved" /\ n.authority # None /\ n.authority.id # order.id -> n.authority
    [] OTHER -> IF isActive(order) THEN order
                ELSE IF n.authority # None /\ (order.id = 0 \/ n.authority.id # order.id)
                     THEN n.authority ELSE None

LEMMA MutationObserved ==
  ASSUME NEW v \in Shell, NEW order \in Order
  PROVE  \E m \in MainState :
           /\ Noted(v.main, m) /\ m.authority = CurrentAfter(v.main, order)
           /\ mutationAuthorityObserved(v, order) = [v EXCEPT !.main = m]
<1> DEFINE n == v.main
           a == [n EXCEPT !.authority = order, !.stamp = moved(@),
                          !.remembered = IF matching(@, order) THEN @ ELSE None]
           b == [n EXCEPT !.authority = None,
                          !.stamp = IF n.authority # None THEN moved(@) ELSE @]
           e(m) == [m EXCEPT !.stamp = "none"]
           u == mutationAuthorityObserved(v, order)
<1>1. n \in MainState BY Parts
<1>2. moved(n.stamp) \in {"none", "same", "moved"} BY <1>1, Stamps DEF MainState
<1>3. a \in MainState /\ Noted(n, a)
  <2> DEFINE s == moved(n.stamp)
             p == IF matching(n.remembered, order) THEN n.remembered ELSE None
             q == [n EXCEPT !.authority = order, !.stamp = s, !.remembered = p]
  <2>1. a = q OBVIOUS
  <2>2. p \in Maybe(Selection) /\ p \in {None, n.remembered}
    BY <1>1, NoneFits DEF MainState
  <2>3. s \in {"none", "same", "moved"} BY <1>2
  <2> HIDE DEF a, p, s, n
  <2>4. q \in MainState BY <1>1, <2>2, <2>3 DEF MainState, Maybe
  <2>5. Noted(n, q) BY <1>1, <2>2 DEF MainState, Noted
  <2> QED BY <2>1, <2>4, <2>5
<1>4. b \in MainState /\ Noted(n, b)
  <2> DEFINE s == IF n.authority # None THEN moved(n.stamp) ELSE n.stamp
             q == [n EXCEPT !.authority = None, !.stamp = s]
  <2>1. b = q OBVIOUS
  <2>2. s \in {"none", "same", "moved"} BY <1>1, <1>2 DEF MainState
  <2> HIDE DEF b, s, n
  <2>3. q \in MainState BY <1>1, <2>2, NoneFits DEF MainState
  <2>4. Noted(n, q) BY <1>1 DEF MainState, Noted
  <2> QED BY <2>1, <2>3, <2>4
<1>5. \E m \in {n, a, b} : u = [v EXCEPT !.main = e(m)]
  <2>1. [v EXCEPT !.main.stamp = "none"] = [v EXCEPT !.main = e(n)] BY DEF Shell
  <2>2. [adoptActiveOrder(v, order) EXCEPT !.main.stamp = "none"] = [v EXCEPT !.main = e(a)]
    BY <1>1 DEF adoptActiveOrder, Shell, MainState
  <2>3. [clearActiveOrder(v, order.id, FALSE) EXCEPT !.main.stamp = "none"]
           \in {[v EXCEPT !.main = e(n)], [v EXCEPT !.main = e(b)]}
    <3>1. clearActiveOrder(v, order.id, FALSE)
            \in {v, [v EXCEPT !.main.authority = None,
                              !.main.stamp = IF FALSE \/ v.main.authority # None
                                             THEN moved(@) ELSE @]}
      BY DEF clearActiveOrder
    <3>2. [[v EXCEPT !.main.authority = None,
                     !.main.stamp = IF FALSE \/ v.main.authority # None
                                    THEN moved(@) ELSE @] EXCEPT !.main.stamp = "none"]
            = [v EXCEPT !.main = e(b)]
      BY <1>1 DEF Shell, MainState
    <3> QED BY <2>1, <3>1, <3>2
  <2> DEFINE k == {[v EXCEPT !.main = e(n)], [v EXCEPT !.main = e(a)], [v EXCEPT !.main = e(b)]}
             x == adoptActiveOrder(v, order)
             y == clearActiveOrder(v, order.id, FALSE)
  <2>4. u \in {[v EXCEPT !.main.stamp = "none"], [x EXCEPT !.main.stamp = "none"],
               [y EXCEPT !.main.stamp = "none"]}
    <3> HIDE DEF x, y
    <3> QED BY DEF mutationAuthorityObserved, x, y
  <2> HIDE DEF u, x, y
  <2>5. u \in k BY <2>1, <2>2, <2>3, <2>4 DEF x, y
  <2> HIDE DEF a, b, e, n
  <2> QED BY <2>5
<1>6. PICK m \in {n, a, b} : u = [v EXCEPT !.main = e(m)] BY <1>5
<1>10. u.main.authority = CurrentAfter(n, order)
  <2>1. adoptActiveOrder(v, order).main.authority = order
    BY <1>1 DEF adoptActiveOrder, Shell, MainState
  <2>2. clearActiveOrder(v, order.id, FALSE).main.authority
          = IF n.authority # None /\ (order.id = 0 \/ n.authority.id # order.id)
            THEN n.authority ELSE None
    BY <1>1 DEF clearActiveOrder, Shell, MainState
  <2> DEFINE x == adoptActiveOrder(v, order)
             y == clearActiveOrder(v, order.id, FALSE)
             z == CASE \/ n.stamp = "none"
                       \/ n.stamp = "moved" /\ n.authority # None /\ n.authority.id # order.id -> v
                    [] OTHER -> IF isActive(order) THEN x ELSE y
  <2>3. u = [z EXCEPT !.main.stamp = "none"] BY DEF mutationAuthorityObserved
  <2>4. z.main.authority = CurrentAfter(n, order) BY <2>1, <2>2 DEF CurrentAfter
  <2>5. z \in Shell
    <3>1. x \in Shell /\ y \in Shell
      <4>1. [v EXCEPT !.main = a] \in Shell /\ [v EXCEPT !.main = b] \in Shell
        <5> HIDE DEF a, b
        <5> QED BY <1>3, <1>4 DEF Shell
      <4>2. x = [v EXCEPT !.main = a] BY <1>1 DEF adoptActiveOrder, Shell, MainState
      <4>3. y \in {v, [v EXCEPT !.main = b]} BY <1>1 DEF clearActiveOrder, Shell, MainState
      <4> HIDE DEF x, y, a, b
      <4> QED BY <4>1, <4>2, <4>3
    <3> HIDE DEF x, y
    <3> QED BY <3>1
  <2> HIDE DEF z, u, n
  <2> QED BY <2>3, <2>4, <2>5, Parts DEF Shell, MainState
<1> HIDE DEF a, b, u
<1>7. m \in MainState /\ Noted(n, m)
  <2>1. Noted(n, n) BY DEF Noted
  <2> HIDE DEF n
  <2> QED BY <1>1, <1>3, <1>4, <1>6, <2>1
<1>8. e(m) \in MainState /\ Noted(m, e(m)) BY <1>7, NotedStamp
<1>11. u.main = e(m) BY <1>6 DEF Shell
<1> HIDE DEF e
<1>9. Noted(n, e(m)) BY <1>7, <1>8 DEF Noted
<1> QED BY <1>6, <1>8, <1>9, <1>10, <1>11 DEF u, n

\* The mutation that the page awaits has an outcome, which UserApi awaits no more.
Answered(v) ==
  /\ Whole(v) /\ Seated(v)
  /\ v.charge.mutation # None /\ v.charge.active /\ v.charge.mutation.fits
  /\ \A i \in DOMAIN v.api.ops : ~v.api.ops[i].live

\* The outcome leaves the page that asked for it on show.
Concludes(v, u) ==
  /\ u.charge.mutation = None /\ u.charge.active
  /\ u.history.active = v.history.active
  /\ u.api.user = v.api.user /\ u.api.ops = v.api.ops
  /\ u.main.page = v.main.page /\ u.main.guard = v.main.guard
  /\ u.main.navShown = v.main.navShown /\ u.main.reconnect = v.main.reconnect
  /\ u.main.required = v.main.required
  /\ \A s \in {"guard", "login", "reconnect"} : s \in Slots(u) <=> s \in Slots(v)

LEMMA Concluded ==
  ASSUME NEW v, Answered(v), NEW u, Whole(u), Concludes(v, u)
  PROVE  Leads(v, u)
<1>1. Seated(u) BY DEF Answered, Seated, Concludes
<1>2. Awaited(u) BY DEF Answered, Awaited, Concludes
<1> QED BY <1>1, <1>2 DEF Leads, Concludes, Sound

LEMMA ConcludedShown ==
  ASSUME NEW v, NEW t, NEW u, Concludes(v, t), Moves(t, u)
  PROVE  Concludes(v, u)
BY DEF Concludes, Moves, Within, Frame

LEMMA AnsweredAlone ==
  ASSUME NEW v, Answered(v)
  PROVE  /\ v \in Shell /\ Known(v) /\ Told(v) /\ Alone(v) /\ v.charge.active
         /\ v.charge \in ChargeState /\ v.main \in MainState
         /\ {"guard", "reconnect", "login"} \cap Slots(v) = {}
<1>1. v \in Shell /\ Known(v) /\ Told(v) /\ v.charge.active /\ Seated(v)
  BY DEF Answered, Whole
<1>2. /\ "guard" \notin Slots(v) /\ "reconnect" \notin Slots(v) /\ "login" \notin Slots(v)
      /\ v.main.reconnect = None
  BY <1>1 DEF Seated
<1> QED BY <1>1, <1>2, Parts DEF Alone

\* The page is told that the reads of the current order were given up.
Notified(v, d, m) == With(cancelSafeReads(v, CurrentRead), d, m)

LEMMA NotifiedParts ==
  ASSUME NEW v, Answered(v), NEW d \in ChargeState, NEW m \in MainState
  PROVE  LET t == Notified(v, d, m) IN
         /\ t \in Shell /\ t.charge = d /\ t.main = m /\ t.nearby = v.nearby
         /\ t.history = v.history /\ t.api.up = v.api.up /\ t.api.user = v.api.user
         /\ t.api.ops = v.api.ops /\ Slots(t) = Slots(v) \ {"page"}
         /\ \A s \in Slots(t) : t.api.reads[s] = v.api.reads[s]
         /\ \A e, n : Anew(t, e, n) = Anew(v, e, n)
<1> DEFINE x == cancelSafeReads(v, CurrentRead)
           t == Notified(v, d, m)
           c == [v.charge EXCEPT !.current = FALSE]
           z == [x EXCEPT !.charge = c]
<1>1. /\ v \in Shell /\ Alone(v) /\ v.charge.active /\ v.charge \in ChargeState
      /\ v.main \in MainState /\ {"guard", "reconnect", "login"} \cap Slots(v) = {}
  BY AnsweredAlone
<1>2. /\ x \in Shell /\ x.charge = v.charge /\ x.nearby = v.nearby
      /\ x.history = v.history /\ x.main = v.main /\ x.api.up = v.api.up
      /\ x.api.user = v.api.user /\ x.api.ops = v.api.ops /\ Slots(x) = Slots(v) \ CurrentRead
      /\ \A s \in Slots(x) : x.api.reads[s] = v.api.reads[s]
  BY <1>1, CancelReads
<1>3. Slots(x) = Slots(v) \ {"page"} BY <1>1, <1>2 DEF CurrentRead
<1>4. c \in ChargeState BY <1>1 DEF ChargeState
<1>5. invalidateChargeReads(v) = z
  <2>1. [x EXCEPT !.charge.current = FALSE] = z
    <3> HIDE DEF x
    <3> QED BY <1>2 DEF Shell
  <2> HIDE DEF z
  <2> QED BY <2>1 DEF invalidateChargeReads
<1>6. z = With(x, c, v.main)
  <2> HIDE DEF x, c
  <2> QED BY <1>2 DEF Shell, With
<1> HIDE DEF x, c, z
<1>7. /\ t \in Shell /\ t.charge = d /\ t.main = m /\ t.nearby = v.nearby
      /\ t.history = v.history /\ t.api = x.api
  BY <1>2 DEF Notified, With, Shell, x
<1>8. \A e, n : Anew(t, e, n) = Anew(v, e, n)
  <2> TAKE e, n
  <2>1. Anew(t, e, n) = Anew(x, e, n) BY <1>2, OwnedParts DEF Notified, x
  <2>2. Anew(With(x, c, v.main), e, n) = Anew(x, e, n) BY <1>1, <1>2, <1>4, OwnedParts
  <2>3. cancelOwnedSafeReads(v) = cancelOwnedSafeReads(z)
    BY <1>1, <1>5, InvalidateOwned DEF invalidateSafeReads
  <2> QED BY <1>6, <2>1, <2>2, <2>3 DEF Anew
<1> HIDE DEF t
<1> QED BY <1>2, <1>3, <1>7, <1>8 DEF t, Slots

LEMMA NotifiedRecord ==
  ASSUME NEW v, Answered(v)
  PROVE  LET c == [v.charge EXCEPT !.current = FALSE] IN
         c \in ChargeState /\ invalidateChargeReads(v) = Notified(v, c, v.main)
<1> DEFINE x == cancelSafeReads(v, CurrentRead)
           c == [v.charge EXCEPT !.current = FALSE]
<1>1. v \in Shell /\ v.charge \in ChargeState BY AnsweredAlone
<1>2. x \in Shell /\ x.charge = v.charge /\ x.main = v.main BY <1>1, CancelReads
<1>3. [x EXCEPT !.charge.current = FALSE] = With(x, c, v.main)
  <2> HIDE DEF x
  <2> QED BY <1>2 DEF Shell, With
<1>4. c \in ChargeState BY <1>1 DEF ChargeState
<1> HIDE DEF c
<1> QED BY <1>3, <1>4 DEF invalidateChargeReads, Notified, c

LEMMA NotifiedMain ==
  ASSUME NEW v, Answered(v), NEW d \in ChargeState, NEW n \in MainState, NEW m
  PROVE  [Notified(v, d, n) EXCEPT !.main = m] = Notified(v, d, m)
<1> DEFINE x == cancelSafeReads(v, CurrentRead)
<1>1. v \in Shell BY AnsweredAlone
<1>2. x \in Shell BY <1>1, CancelReads
<1> HIDE DEF x
<1>3. [With(x, d, n) EXCEPT !.main = m] = With(x, d, m) BY <1>2 DEF With, Shell
<1> QED BY <1>3 DEF Notified, x

\* The page takes no more notice of the outcome than that it is there.
\* The page takes no more notice of the outcome than that it is there: as it is
\* before it is shown.
Ending(v, m, y) ==
  /\ y \in Shell /\ Known(y) /\ Told(y) /\ Listed(y) /\ Withdrawn(y)
  /\ y.charge = [v.charge EXCEPT !.read = None, !.current = TRUE, !.mutation = None]
  /\ y.main = m /\ y.nearby = v.nearby /\ y.history = v.history
  /\ y.api.up = v.api.up /\ y.api.user = v.api.user /\ y.api.ops = v.api.ops
  /\ Slots(y) = Slots(v) \ {"page"} /\ \A s \in Slots(y) : y.api.reads[s] = v.api.reads[s]

LEMMA EndingDone ==
  ASSUME NEW v, Answered(v), NEW m \in MainState, Noted(v.main, m)
  PROVE  \E y : /\ Ending(v, m, y)
                /\ endMutation(Notified(v, [v.charge EXCEPT !.current = FALSE], m)) = Shown(y)
<1> DEFINE c == [v.charge EXCEPT !.current = FALSE]
           t == Notified(v, c, m)
           f == IF c.facts = None THEN None ELSE [c.facts EXCEPT !.fits = TRUE]
           e == [c EXCEPT !.read = None, !.facts = f, !.current = TRUE, !.mutation = None]
           y == [t EXCEPT !.charge = e]
           k == [v.charge EXCEPT !.read = None, !.current = TRUE, !.mutation = None]
           u == endMutation(t)
<1>1. /\ v \in Shell /\ Known(v) /\ Told(v) /\ v.charge.active /\ v.charge \in ChargeState
      /\ v.main \in MainState
      /\ Listed(v) /\ Reported(v) /\ Rendered(v) /\ Withdrawn(v)
  BY AnsweredAlone DEF Answered, Whole
<1>2. c \in ChargeState BY NotifiedRecord
<1>3. /\ t \in Shell /\ t.charge = c /\ t.main = m /\ t.nearby = v.nearby
      /\ t.history = v.history /\ t.api.up = v.api.up /\ t.api.user = v.api.user
      /\ t.api.ops = v.api.ops /\ Slots(t) = Slots(v) \ {"page"}
      /\ \A s \in Slots(t) : t.api.reads[s] = v.api.reads[s]
  <2> HIDE DEF c
  <2> QED BY <1>2, NotifiedParts
<1>4. /\ c.facts = v.charge.facts /\ c.read = v.charge.read /\ c.active = v.charge.active
      /\ c.order = v.charge.order /\ c.selGen = v.charge.selGen /\ c.exit = v.charge.exit
      /\ c.exitFailed = v.charge.exitFailed /\ c.attempt = v.charge.attempt
      /\ c.reported = v.charge.reported /\ c.selection = v.charge.selection
  BY <1>1 DEF ChargeState
<1> HIDE DEF t
<1>5. f = v.charge.facts
  <2> HIDE DEF c
  <2>1. v.charge.facts # None => v.charge.facts \in Facts /\ v.charge.facts.fits
    BY <1>1 DEF Known, Paged, ChargeState, Maybe
  <2>2. \A q \in Facts : q.fits => [q EXCEPT !.fits = TRUE] = q BY DEF Facts
  <2> QED BY <1>4, <2>1, <2>2
<1>6. u = Shown(y)
  <2> HIDE DEF c
  <2>1. [t EXCEPT !.charge.read = None,
                  !.charge.facts = IF @ = None THEN None ELSE [@ EXCEPT !.fits = TRUE],
                  !.charge.current = TRUE]
          = [t EXCEPT !.charge = [c EXCEPT !.read = None, !.facts = f, !.current = TRUE]]
    BY <1>2, <1>3 DEF Shell, ChargeState
  <2> DEFINE b == [c EXCEPT !.read = None, !.facts = f, !.current = TRUE]
             a == [t EXCEPT !.charge = b]
  <2>2. adoptMutationReadEpoch(t) = a BY <2>1 DEF adoptMutationReadEpoch
  <2>3. e = [b EXCEPT !.mutation = None]
    <3> HIDE DEF f
    <3> QED BY <1>2 DEF ChargeState
  <2> HIDE DEF b, e
  <2>4. [a EXCEPT !.charge.mutation = None] = y BY <1>3, <2>3 DEF Shell
  <2> HIDE DEF a, y, u
  <2> QED BY <2>2, <2>4 DEF endMutation, u
<1>15. e = k
  <2> HIDE DEF f
  <2> QED BY <1>1, <1>4, <1>5 DEF ChargeState
<1> HIDE DEF c
<1> HIDE DEF f, k
<1>7. e \in ChargeState
  <2>1. f \in Maybe(Facts) BY <1>1, <1>5 DEF ChargeState
  <2> QED BY <1>2, <2>1, NoneFits DEF ChargeState
<1>8. /\ e.facts = v.charge.facts /\ e.read = None /\ e.active = v.charge.active
      /\ e.order = v.charge.order /\ e.selGen = v.charge.selGen /\ e.exit = v.charge.exit
      /\ e.exitFailed = v.charge.exitFailed /\ e.attempt = v.charge.attempt
      /\ e.reported = v.charge.reported /\ e.selection = v.charge.selection
      /\ e.mutation = None
  BY <1>2, <1>4, <1>5 DEF ChargeState
<1> HIDE DEF e
<1>9. /\ y \in Shell /\ y.charge = e /\ y.main = m /\ y.nearby = v.nearby
      /\ y.history = v.history /\ y.api = t.api
  BY <1>3, <1>7 DEF Shell
<1> HIDE DEF y
<1>10. Slots(y) = Slots(v) \ {"page"} BY <1>3, <1>9 DEF Slots
<1>11. Paged(e)
  <2>1. Paged(v.charge) BY <1>1 DEF Known
  <2> QED BY <1>8, <2>1, PagedSame
<1>12. Known(y) BY <1>1, <1>8, <1>9, <1>10, <1>11 DEF Known
<1>13. Told(y) /\ Listed(y) /\ Withdrawn(y)
  BY <1>1, <1>8, <1>9, <1>10 DEF Told, Listed, Withdrawn, Noted
<1>14. /\ y.api.up = v.api.up /\ y.api.user = v.api.user /\ y.api.ops = v.api.ops
       /\ \A s \in Slots(y) : y.api.reads[s] = v.api.reads[s]
  BY <1>3, <1>9 DEF Slots
<1>16. Ending(v, m, y)
  BY <1>3, <1>9, <1>10, <1>12, <1>13, <1>14, <1>15 DEF Ending, k
<1> QED BY <1>6, <1>16 DEF u, t, c

LEMMA MutationEnded ==
  ASSUME NEW v, Answered(v), NEW m \in MainState, Noted(v.main, m)
  PROVE  Leads(v, endMutation(Notified(v, [v.charge EXCEPT !.current = FALSE], m)))
<1> DEFINE u == endMutation(Notified(v, [v.charge EXCEPT !.current = FALSE], m))
<1>1. PICK y : Ending(v, m, y) /\ u = Shown(y) BY EndingDone
<1> HIDE DEF u
<1>2. Settles(y, u) BY <1>1, ShownSettles DEF Ending
<1>3. Whole(u) BY <1>1, <1>2 DEF Whole, Settles, Moves, Within, Ending
<1>4. Concludes(v, y)
  <2>1. v.charge \in ChargeState /\ v.charge.active BY AnsweredAlone
  <2>2. y.charge.mutation = None /\ y.charge.active BY <1>1, <2>1 DEF Ending, ChargeState
  <2> QED BY <1>1, <2>2 DEF Concludes, Noted, Ending, Slots
<1>5. Concludes(v, u) BY <1>2, <1>4, ConcludedShown DEF Settles
<1> QED BY <1>3, <1>5, Concluded DEF u

\* The page takes the outcome, and awaits nothing.
LEMMA OutcomeShown ==
  ASSUME NEW v, Answered(v), NEW m \in MainState, Noted(v.main, m),
         NEW e \in ChargeState, e.facts = None, e.read = None, Paged(e),
         e.active, e.mutation = None, e.reported = v.charge.reported,
         e.selection = v.charge.selection
  PROVE  LET h == Shown(Anew(v, e, m)) IN
         /\ Whole(h) /\ Concludes(v, h) /\ h.charge.active /\ h.charge.order = e.order
         /\ h.charge.facts = None /\ h.charge.read = None
         /\ h.charge.exitFailed = e.exitFailed /\ h.main.authority = m.authority
         /\ e.reconcile => h.charge.reconcile
<1> DEFINE y == Anew(v, e, m)
           h == Shown(y)
<1>1. /\ v \in Shell /\ Known(v) /\ Told(v) /\ v.charge.active /\ Listed(v) /\ Withdrawn(v)
  BY AnsweredAlone DEF Answered, Whole
<1>2. m.blocked = e.reported BY <1>1 DEF Noted, Told
<1>3. Beside(v, y) /\ y.charge = e /\ y.main = m BY <1>1, <1>2, Replaced
<1> HIDE DEF y
<1>4. y \in Shell /\ Known(y) /\ Told(y) /\ Listed(y) BY <1>1, <1>3 DEF Beside
<1>5. Withdrawn(y) BY <1>1, <1>3 DEF Withdrawn, Noted
<1>6. Settles(y, h) /\ Quiet(y.charge, h.charge)
  BY <1>4, ShownSettles, ShownQuiet
<1>7. chargeFlowBlocked(e) => h.charge.reconcile = e.reconcile
  BY <1>3, <1>4, ShownQuiet
<1> HIDE DEF h
<1>8. Whole(h) BY <1>4, <1>5, <1>6 DEF Whole, Settles, Moves, Within
<1>9. Concludes(v, y) BY <1>1, <1>3 DEF Concludes, Noted, Beside
<1>10. Concludes(v, h) BY <1>6, <1>9, ConcludedShown DEF Settles
<1>11. h.charge.order = e.order /\ h.main.authority = m.authority
  BY <1>3, <1>6 DEF Settles, Moves, Within, Frame
<1>12. /\ h.charge.facts = None /\ h.charge.read = None
       /\ h.charge.exitFailed = e.exitFailed
  BY <1>3, <1>6 DEF Quiet
<1>13. e.reconcile => h.charge.reconcile BY <1>7 DEF chargeFlowBlocked
<1> QED BY <1>8, <1>10, <1>11, <1>12, <1>13 DEF h, y, Concludes

LEMMA OutcomeTaken ==
  ASSUME NEW v, Answered(v), NEW m \in MainState, Noted(v.main, m), NEW order \in Order
  PROVE  LET t == takeOutcome(Notified(v, [v.charge EXCEPT !.current = FALSE], m), order)
             h == Shown(t)
         IN  /\ Whole(h) /\ Concludes(v, h) /\ h.charge.active /\ h.charge.order = order
             /\ h.charge.facts = None /\ h.charge.read = None /\ ~h.charge.exitFailed
             /\ h.main.authority = m.authority
             /\ t.charge.reconcile => h.charge.reconcile
             /\ t.charge.reconcile \in BOOLEAN /\ t.charge.exit \in BOOLEAN
<1> DEFINE c == [v.charge EXCEPT !.current = FALSE]
           n == Notified(v, c, m)
           x == cancelOwnedSafeReads(n)
           g == GivenUp(c)
           exits == order.status \in Terminal /\ matching(c.selection, order)
           reserved == c.mutation.op = "reserve" /\ order.status = "reserved"
           k == exits \/ reserved
           e == [g EXCEPT
                   !.polling = FALSE, !.order = order, !.noOrder = FALSE,
                   !.selGen = 0, !.associated = None,
                   !.exit = exits, !.exitFailed = FALSE, !.attempt = 0,
                   !.reconcile = k, !.mutation = None]
           t == takeOutcome(n, order)
<1>1. v \in Shell /\ v.charge.active /\ v.charge \in ChargeState
  BY AnsweredAlone
<1>2. c \in ChargeState BY NotifiedRecord
<1>3. /\ n \in Shell /\ n.charge = c /\ n.main = m
      /\ \A d, b : Anew(n, d, b) = Anew(v, d, b)
  <2> HIDE DEF c
  <2> QED BY <1>2, NotifiedParts
<1>4. /\ c.active = v.charge.active /\ c.reported = v.charge.reported
      /\ c.selection = v.charge.selection
  BY <1>1 DEF ChargeState
<1> HIDE DEF n, c
<1>5. /\ x = [api |-> x.api, charge |-> g, nearby |-> x.nearby, history |-> n.history,
              main |-> m]
      /\ g \in ChargeState
      /\ \A d, b : With(x, d, b) = Anew(n, d, b)
  BY <1>3, OwnedRecord
<1>6. /\ g.active = v.charge.active /\ g.reported = v.charge.reported
      /\ g.selection = v.charge.selection /\ g.facts = None /\ g.read = None
  BY <1>2, <1>4 DEF GivenUp, ChargeState
<1> HIDE DEF g, x
<1>7. exits \in BOOLEAN /\ reserved \in BOOLEAN /\ k \in BOOLEAN BY DEF matching
<1>8. t = With(x, e, m)
  <2>1. t = [x EXCEPT
               !.charge.polling = FALSE, !.charge.order = order, !.charge.noOrder = FALSE,
               !.charge.selGen = 0, !.charge.associated = None,
               !.charge.exit = exits, !.charge.exitFailed = FALSE, !.charge.attempt = 0,
               !.charge.reconcile = k, !.charge.mutation = None]
    BY <1>3 DEF takeOutcome, x
  <2> HIDE DEF t, exits, k
  <2>2. x.charge = g /\ x.main = m BY <1>5
  <2> DEFINE a == x.api
             b == x.nearby
             i == n.history
  <2>5. x = [api |-> a, charge |-> g, nearby |-> b, history |-> i, main |-> m] BY <1>5
  <2> HIDE DEF a, b, i
  <2> DEFINE d == [g EXCEPT !.polling = FALSE, !.order = order, !.noOrder = FALSE,
                            !.selGen = 0, !.associated = None]
             z == [x EXCEPT !.charge = d]
  <2>6. [x EXCEPT !.charge.polling = FALSE, !.charge.order = order, !.charge.noOrder = FALSE,
                  !.charge.selGen = 0, !.charge.associated = None] = z
    BY <2>5
  <2>7. z.charge = d /\ e = [d EXCEPT !.exit = exits, !.exitFailed = FALSE, !.attempt = 0,
                                      !.reconcile = k, !.mutation = None]
    BY <2>5
  <2>8. z = [api |-> a, charge |-> d, nearby |-> b, history |-> i, main |-> m] BY <2>5
  <2>9. t = [z EXCEPT
               !.charge.exit = exits, !.charge.exitFailed = FALSE, !.charge.attempt = 0,
               !.charge.reconcile = k, !.charge.mutation = None]
    <3> HIDE DEF z
    <3> QED BY <2>1, <2>6
  <2> HIDE DEF d, z, e
  <2>10. [z EXCEPT
            !.charge.exit = exits, !.charge.exitFailed = FALSE, !.charge.attempt = 0,
            !.charge.reconcile = k, !.charge.mutation = None] = [z EXCEPT !.charge = e]
    BY <2>7, <2>8
  <2> DEFINE q == [api |-> a, charge |-> e, nearby |-> b, history |-> i, main |-> m]
  <2>11. [z EXCEPT !.charge = e] = q BY <2>8
  <2>12. [x EXCEPT !.charge = e] = q BY <2>5
  <2>3. t = [x EXCEPT !.charge = e]
    <3> HIDE DEF q
    <3> QED BY <2>9, <2>10, <2>11, <2>12
  <2>4. [x EXCEPT !.charge = e] = With(x, e, m)
    <3>1. [q EXCEPT !.main = m] = q OBVIOUS
    <3> HIDE DEF q
    <3> QED BY <2>12, <3>1, Zenon DEF With
  <2> QED BY <2>3, <2>4
<1> HIDE DEF exits, reserved, k, t
<1>9. e \in ChargeState
  <2>1. order \in Maybe(Order) BY DEF Maybe
  <2> QED BY <1>5, <1>7, <2>1, NoneFits, Small DEF ChargeState
<1>10. /\ e.active /\ e.reported = v.charge.reported /\ e.selection = v.charge.selection
       /\ e.facts = None /\ e.read = None /\ e.exitFailed = FALSE /\ e.mutation = None
       /\ e.order = order /\ e.selGen = 0 /\ e.attempt = 0 /\ e.reconcile \in BOOLEAN
       /\ e.exit \in BOOLEAN
  BY <1>1, <1>5, <1>6, <1>7, <1>9 DEF ChargeState
<1> HIDE DEF e
<1>11. Paged(e) BY <1>10 DEF Paged
<1>12. t = Anew(v, e, m) BY <1>3, <1>5, <1>8
<1>14. t.charge = e BY <1>5, <1>8 DEF With
<1> QED BY <1>9, <1>10, <1>11, <1>12, <1>14, OutcomeShown DEF t, n, c

\* The page takes the outcome of its mutation, unless it shows another order.
LEMMA MutationTaken ==
  ASSUME NEW v, Answered(v), NEW order \in Order
  PROVE  \E m \in MainState :
           /\ Noted(v.main, m) /\ m.authority = CurrentAfter(v.main, order)
           /\ LET told == Notified(v, [v.charge EXCEPT !.current = FALSE], m)
                  t == takeOutcome(told, order)
              IN  acceptMutation(v, order) =
                    IF overtaken(v, order.id) THEN endMutation(told)
                    ELSE requestFacts(Shown(t), t.charge.reconcile, t.charge.exit)
<1> DEFINE c == [v.charge EXCEPT !.current = FALSE]
           n == invalidateChargeReads(v)
           told == mutationAuthorityObserved(n, order)
           t == takeOutcome(told, order)
           u == acceptMutation(v, order)
<1>1. v \in Shell /\ v.charge \in ChargeState /\ v.main \in MainState BY AnsweredAlone
<1>2. c \in ChargeState /\ n = Notified(v, c, v.main) BY NotifiedRecord
<1>3. n \in Shell /\ n.main = v.main
  <2> HIDE DEF c, n
  <2> QED BY <1>1, <1>2, NotifiedParts
<1> HIDE DEF n
<1>4. PICK m \in MainState :
        /\ Noted(v.main, m) /\ m.authority = CurrentAfter(v.main, order)
        /\ told = [n EXCEPT !.main = m]
  BY <1>3, MutationObserved
<1>5. told = Notified(v, c, m)
  <2> HIDE DEF told, c
  <2> QED BY <1>1, <1>2, <1>4, NotifiedMain
<1>6. u = IF overtaken(v, order.id) THEN endMutation(told)
          ELSE requestFacts(Shown(t), t.charge.reconcile, t.charge.exit)
  <2>1. v.charge.active /\ v.charge.mutation.fits BY DEF Answered
  <2> HIDE DEF told
  <2> QED BY <2>1 DEF acceptMutation, told, n
<1> HIDE DEF told, u, c
<1> QED BY <1>4, <1>5, <1>6 DEF u, c

LEMMA AcceptMutation ==
  ASSUME NEW v, Answered(v), NEW order \in Order
  PROVE  Leads(v, acceptMutation(v, order))
<1> DEFINE c == [v.charge EXCEPT !.current = FALSE]
           told(m) == Notified(v, c, m)
           u == acceptMutation(v, order)
<1>1. PICK m \in MainState :
        /\ Noted(v.main, m)
        /\ u = IF overtaken(v, order.id) THEN endMutation(told(m))
               ELSE requestFacts(Shown(takeOutcome(told(m), order)),
                                 takeOutcome(told(m), order).charge.reconcile,
                                 takeOutcome(told(m), order).charge.exit)
  <2> HIDE DEF u
  <2> QED BY MutationTaken DEF u
<1> DEFINE t == takeOutcome(told(m), order)
           h == Shown(t)
           f == requestFacts(h, t.charge.reconcile, t.charge.exit)
<1>6. u \in {endMutation(told(m)), f}
  <2> HIDE DEF u, told
  <2> QED BY <1>1
<1> HIDE DEF u
<1>7. Leads(v, endMutation(told(m))) BY <1>1, MutationEnded
<1>8. /\ Whole(h) /\ Concludes(v, h) /\ h.charge.active /\ h.charge.order = order
      /\ h.charge.facts = None /\ h.charge.read = None /\ ~h.charge.exitFailed
      /\ t.charge.reconcile => h.charge.reconcile
      /\ t.charge.reconcile \in BOOLEAN /\ t.charge.exit \in BOOLEAN
  BY <1>1, OutcomeTaken
<1> HIDE DEF told
<1>9. Leads(v, f)
  <2> HIDE DEF h
  <2>1. h.charge.order # None BY <1>8, NoneAssumption DEF NoneAssumption
  <2>2. h \in Shell /\ Known(h) /\ Told(h) /\ Heard(h) /\ Listed(h) /\ Withdrawn(h)
    BY <1>8, ReportedHeard DEF Whole
  <2> DEFINE r == t.charge.reconcile
             e == t.charge.exit
  <2>3. r \in BOOLEAN /\ e \in BOOLEAN /\ (r => h.charge.reconcile) BY <1>8
  <2> HIDE DEF r, e, t
  <2>4. Moves(h, f) /\ Reported(f) /\ Rendered(f)
    BY <1>8, <2>1, <2>2, <2>3, RequestFacts DEF r, e
  <2> HIDE DEF f
  <2>5. Whole(f) BY <2>2, <2>4 DEF Whole, Moves, Within
  <2> QED BY <1>8, <2>4, <2>5, Concluded, ConcludedShown
<1> QED BY <1>6, <1>7, <1>9 DEF u

\* The page awaits nothing, and its order is to be read again.
Unsettled(g) ==
  [GivenUp([[g EXCEPT !.current = FALSE] EXCEPT !.reconcile = TRUE]) EXCEPT
     !.polling = FALSE, !.mutation = None]

LEMMA MutationRefused ==
  ASSUME NEW v, Answered(v), NEW why
  PROVE  LET m == [v.main EXCEPT !.stamp = "none"]
             e == Unsettled(v.charge)
             h == Shown(Anew(v, e, m))
         IN  /\ m \in MainState /\ Noted(v.main, m) /\ e \in ChargeState /\ Paged(e)
             /\ e.active /\ e.reported = v.charge.reported
             /\ e.selection = v.charge.selection /\ e.facts = None /\ e.read = None
             /\ e.reconcile = TRUE /\ e.mutation = None
             /\ e.order = v.charge.order /\ e.exit = v.charge.exit
             /\ e.exitFailed = v.charge.exitFailed
             /\ Whole(h) /\ Concludes(v, h)
             /\ mutationFailed(v, why) =
                  IF overtaken(v, v.charge.mutation.subject)
                  THEN endMutation(Notified(v, [v.charge EXCEPT !.current = FALSE], m))
                  ELSE IF why \in {"uncertain", "refresh"} THEN requestReconciliation(h) ELSE h
<1> DEFINE c == [v.charge EXCEPT !.current = FALSE]
           m == [v.main EXCEPT !.stamp = "none"]
           n == invalidateChargeReads(v)
           told == [n EXCEPT !.main.stamp = "none"]
           z == [told EXCEPT !.charge.reconcile = TRUE]
           x == cancelOwnedSafeReads(z)
           y == [x EXCEPT !.charge.polling = FALSE, !.charge.mutation = None]
           h == Shown(y)
           u == mutationFailed(v, why)
           d == [c EXCEPT !.reconcile = TRUE]
           g == GivenUp(d)
           e == [g EXCEPT !.polling = FALSE, !.mutation = None]
<1>1. /\ v \in Shell /\ v.charge \in ChargeState /\ v.main \in MainState /\ v.charge.active
  BY AnsweredAlone
<1>2. c \in ChargeState /\ n = Notified(v, c, v.main) BY NotifiedRecord
<1>3. n \in Shell /\ n.main = v.main
  <2> HIDE DEF c, n
  <2> QED BY <1>1, <1>2, NotifiedParts
<1>4. m \in MainState /\ Noted(v.main, m) BY <1>1, NotedStamp
<1>5. told = Notified(v, c, m)
  <2>1. told = [n EXCEPT !.main = m]
    <3> HIDE DEF n
    <3> QED BY <1>3 DEF Shell
  <2> HIDE DEF told, c, m, n
  <2> QED BY <1>1, <1>2, <2>1, NotifiedMain
<1>6. u = IF overtaken(v, v.charge.mutation.subject) THEN endMutation(told)
          ELSE IF why \in {"uncertain", "refresh"} THEN requestReconciliation(h) ELSE h
  <2>1. v.charge.active /\ v.charge.mutation.fits BY DEF Answered
  <2> HIDE DEF told, h
  <2> QED BY <2>1 DEF mutationFailed, told, n, h, y, x, z
<1> HIDE DEF n, m
<1>8. /\ told \in Shell /\ told.charge = c /\ told.main = m /\ told.nearby = v.nearby
      /\ told.history = v.history
      /\ \A a, b : Anew(told, a, b) = Anew(v, a, b)
  <2> HIDE DEF c, told
  <2> QED BY <1>2, <1>4, <1>5, NotifiedParts
<1>9. /\ c.active /\ c.reported = v.charge.reported /\ c.selection = v.charge.selection
      /\ c.order = v.charge.order /\ c.selGen = v.charge.selGen /\ c.exit = v.charge.exit
      /\ c.exitFailed = v.charge.exitFailed /\ c.attempt = v.charge.attempt
  BY <1>1 DEF ChargeState
<1> HIDE DEF told, c, u
<1>10. /\ d \in ChargeState /\ d.active /\ d.reported = v.charge.reported
       /\ d.selection = v.charge.selection /\ d.reconcile = TRUE
       /\ d.order = v.charge.order /\ d.selGen = v.charge.selGen /\ d.exit = v.charge.exit
       /\ d.exitFailed = v.charge.exitFailed /\ d.attempt = v.charge.attempt
  BY <1>2, <1>9 DEF ChargeState
<1>11. /\ z \in Shell /\ z.charge = d /\ z.main = m /\ z.api = told.api
       /\ z.nearby = told.nearby /\ z.history = told.history
  BY <1>8, <1>10 DEF Shell, ChargeState
<1> HIDE DEF z, d
<1>12. /\ x = [api |-> x.api, charge |-> g, nearby |-> x.nearby, history |-> z.history,
               main |-> m]
       /\ g \in ChargeState
       /\ \A a, b : With(x, a, b) = Anew(told, a, b)
  BY <1>8, <1>11, OwnedRecord
<1>13. /\ g.active /\ g.reported = v.charge.reported /\ g.selection = v.charge.selection
       /\ g.facts = None /\ g.read = None /\ g.reconcile = TRUE
       /\ g.order = v.charge.order /\ g.selGen = v.charge.selGen /\ g.exit = v.charge.exit
       /\ g.exitFailed = v.charge.exitFailed /\ g.attempt \in {0, v.charge.attempt}
  BY <1>10 DEF GivenUp, ChargeState
<1> HIDE DEF g, x
<1>14. /\ e \in ChargeState /\ e.active /\ e.reported = v.charge.reported
       /\ e.selection = v.charge.selection /\ e.facts = None /\ e.read = None
       /\ e.reconcile = TRUE /\ e.mutation = None
       /\ e.order = v.charge.order /\ e.selGen = v.charge.selGen /\ e.exit = v.charge.exit
       /\ e.exitFailed = v.charge.exitFailed /\ e.attempt \in {0, v.charge.attempt}
  BY <1>12, <1>13, NoneFits DEF ChargeState
<1>15. y = With(x, e, m)
  <2> DEFINE a == x.api
             b == x.nearby
             i == z.history
             q == [api |-> a, charge |-> e, nearby |-> b, history |-> i, main |-> m]
  <2>1. x = [api |-> a, charge |-> g, nearby |-> b, history |-> i, main |-> m] BY <1>12
  <2> HIDE DEF a, b, i
  <2>2. y = [x EXCEPT !.charge = e]
    <3> HIDE DEF q
    <3> QED BY <2>1
  <2>3. [x EXCEPT !.charge = e] = q
    <3> HIDE DEF e
    <3> QED BY <2>1
  <2>4. [q EXCEPT !.main = m] = q OBVIOUS
  <2> HIDE DEF q, y, e
  <2> QED BY <2>2, <2>3, <2>4, Zenon DEF With
<1> HIDE DEF e, y
<1>16. y = Anew(v, e, m) BY <1>8, <1>12, <1>15
<1>17. Paged(e)
  <2>1. Paged(v.charge) BY DEF Answered, Whole, Known
  <2> QED BY <1>1, <1>14, <2>1, PagedSame
<1>18. Whole(h) /\ Concludes(v, h) BY <1>4, <1>14, <1>16, <1>17, OutcomeShown
<1> HIDE DEF h
<1> QED BY <1>4, <1>5, <1>6, <1>14, <1>16, <1>17, <1>18 DEF u, h, e, g, d, c, m, Unsettled

LEMMA MutationFailed ==
  ASSUME NEW v, Answered(v), NEW why
  PROVE  Leads(v, mutationFailed(v, why))
<1> DEFINE m == [v.main EXCEPT !.stamp = "none"]
           told == Notified(v, [v.charge EXCEPT !.current = FALSE], m)
           h == Shown(Anew(v, Unsettled(v.charge), m))
           r == requestReconciliation(h)
           u == mutationFailed(v, why)
<1>1. /\ m \in MainState /\ Noted(v.main, m) /\ Whole(h) /\ Concludes(v, h)
      /\ u = IF overtaken(v, v.charge.mutation.subject) THEN endMutation(told)
             ELSE IF why \in {"uncertain", "refresh"} THEN r ELSE h
  <2> HIDE DEF u
  <2> QED BY MutationRefused DEF u
<1>2. Leads(v, endMutation(told))
  <2> HIDE DEF m
  <2> QED BY <1>1, MutationEnded
<1> HIDE DEF h, told, u
<1>3. Leads(v, h) BY <1>1, Concluded
<1>4. Keeps(h, r) BY <1>1, RequestReconciliation DEF Whole
<1> HIDE DEF r
<1>5. Leads(h, r) BY <1>3, <1>4, KeepsHolds, HoldsLeads DEF Leads
<1>6. Leads(v, r) BY <1>3, <1>5 DEF Leads
<1> QED BY <1>1, <1>2, <1>3, <1>6 DEF u

\* The mutations on their way and the order of the reads after them.
OnTheirWay(v, q, r) == [v EXCEPT !.api.ops = q, !.api.reads = r]

LEMMA OpsSet ==
  ASSUME NEW v, Whole(v), Seated(v), NEW q \in Seq(SentMutation), NEW r \in [Slots(v) -> Nat]
  PROVE  LET u == OnTheirWay(v, q, r) IN
         /\ Whole(u) /\ Seated(u) /\ u.charge = v.charge /\ u.main = v.main
         /\ u.history = v.history /\ u.nearby = v.nearby
         /\ u.api.ops = q /\ u.api.reads = r /\ u.api.up = v.api.up /\ u.api.user = v.api.user
<1> DEFINE a == [v.api EXCEPT !.ops = q, !.reads = r]
           u == [v EXCEPT !.api = a]
<1>1. v \in Shell /\ Slots(v) \subseteq Read /\ v.api \in ApiState(Slots(v))
  BY Parts DEF Whole
<1>2. a \in ApiState(Slots(v)) BY <1>1 DEF ApiState
<1>3. /\ a.ops = q /\ a.reads = r /\ a.up = v.api.up /\ a.user = v.api.user
      /\ DOMAIN a.reads = Slots(v)
  BY <1>1, <1>2 DEF ApiState
<1>4. [v EXCEPT !.api.ops = q, !.api.reads = r] = u BY <1>1 DEF Shell, ApiState
<1> HIDE DEF a
<1>5. u \in Shell
  <2>1. v.charge \in ChargeState /\ v.nearby \in NearbyState /\ v.history \in HistoryState
        /\ v.main \in MainState
    BY <1>1, Parts
  <2>2. u = [api |-> a, charge |-> v.charge, nearby |-> v.nearby, history |-> v.history,
             main |-> v.main]
    BY <1>1 DEF Shell
  <2> HIDE DEF u
  <2> QED BY <1>1, <1>2, <2>1, <2>2, Built
<1>6. /\ u.api = a /\ u.charge = v.charge /\ u.main = v.main /\ u.nearby = v.nearby
      /\ u.history = v.history
  BY <1>1 DEF Shell
<1> HIDE DEF u
<1>7. Slots(u) = Slots(v) BY <1>3, <1>6 DEF Slots
<1>8. Whole(u)
  BY <1>3, <1>5, <1>6, <1>7
  DEF Whole, Known, Told, Listed, Reported, Rendered, Usable, Withdrawn
<1>9. Seated(u) BY <1>3, <1>6, <1>7 DEF Seated
<1> QED BY <1>3, <1>4, <1>6, <1>8, <1>9 DEF OnTheirWay

\* The first of the mutations was taken by the server.
Nearer(v) == [v EXCEPT !.api.ops = Tail(@), !.api.reads = [s \in DOMAIN @ |-> @[s] - 1]]

LEMMA TailLive ==
  ASSUME NEW q \in Seq(SentMutation), q # <<>>
  PROVE  /\ Tail(q) \in Seq(SentMutation)
         /\ 1 \in DOMAIN q /\ q[1] \in SentMutation
         /\ \A i \in DOMAIN Tail(q) :
              i + 1 \in DOMAIN q /\ Tail(q)[i] = q[i + 1] /\ i \in Nat /\ i > 0
         /\ \A i \in DOMAIN q : i # 1 => i - 1 \in DOMAIN Tail(q) /\ Tail(q)[i - 1] = q[i]
<1>1. /\ Len(q) \in Nat /\ Len(q) > 0 /\ DOMAIN q = 1..Len(q)
      /\ Tail(q) \in Seq(SentMutation) /\ Len(Tail(q)) = Len(q) - 1
      /\ \A i \in 1..Len(q) - 1 : Tail(q)[i] = q[i + 1]
  OBVIOUS
<1>2. DOMAIN Tail(q) = 1..Len(q) - 1 BY <1>1
<1>3. 1 \in DOMAIN q /\ q[1] \in SentMutation BY <1>1
<1>4. ASSUME NEW i \in DOMAIN Tail(q)
      PROVE  i + 1 \in DOMAIN q /\ Tail(q)[i] = q[i + 1] /\ i \in Nat /\ i > 0
  BY <1>1, <1>2
<1>5. ASSUME NEW i \in DOMAIN q, i # 1
      PROVE  i - 1 \in DOMAIN Tail(q) /\ Tail(q)[i - 1] = q[i]
  <2>1. i - 1 \in 1..Len(q) - 1 /\ i \in Nat BY <1>1, <1>5
  <2>2. Tail(q)[i - 1] = q[(i - 1) + 1] BY <1>1, <2>1
  <2> QED BY <1>2, <2>1, <2>2
<1> QED BY <1>1, <1>3, <1>4, <1>5

LEMMA NearerSound ==
  ASSUME NEW v, Sound(v), v.api.ops # <<>>, \A s \in Slots(v) : v.api.reads[s] # 0
  PROVE  /\ v.api.ops[1].live => Answered(Nearer(v))
         /\ ~v.api.ops[1].live => Sound(Nearer(v))
         /\ v.api.ops[1] \in SentMutation
<1> DEFINE q == Tail(v.api.ops)
           r == [s \in Slots(v) |-> v.api.reads[s] - 1]
           u == Nearer(v)
<1>1. /\ v \in Shell /\ Whole(v) /\ Seated(v) /\ Awaited(v) /\ v.api \in ApiState(Slots(v))
  BY Parts DEF Sound, Whole
<1>2. v.api.reads \in [Slots(v) -> Nat] /\ v.api.ops \in Seq(SentMutation)
  BY <1>1 DEF ApiState
<1>3. /\ q \in Seq(SentMutation) /\ 1 \in DOMAIN v.api.ops /\ v.api.ops[1] \in SentMutation
      /\ \A i \in DOMAIN q :
           i + 1 \in DOMAIN v.api.ops /\ q[i] = v.api.ops[i + 1] /\ i \in Nat /\ i > 0
      /\ \A i \in DOMAIN v.api.ops : i # 1 => i - 1 \in DOMAIN q /\ q[i - 1] = v.api.ops[i]
  BY <1>2, TailLive
<1>4. r \in [Slots(v) -> Nat] BY <1>2
<1>5. u = [v EXCEPT !.api.ops = q, !.api.reads = r]
  <2>1. [s \in DOMAIN v.api.reads |-> v.api.reads[s] - 1] = r BY DEF Slots
  <2> HIDE DEF r
  <2> QED BY <1>1, <2>1 DEF Nearer, Shell, ApiState
<1> HIDE DEF r
<1>6. /\ Whole(u) /\ Seated(u) /\ u.charge = v.charge /\ u.api.ops = q
  <2> DEFINE z == OnTheirWay(v, q, r)
  <2> HIDE DEF q, u
  <2>1. Whole(z) /\ Seated(z) /\ z.charge = v.charge /\ z.api.ops = q
    BY <1>1, <1>3, <1>4, OpsSet
  <2>2. u = z BY <1>5 DEF OnTheirWay
  <2> HIDE DEF z
  <2> QED BY <2>1, <2>2
<1> HIDE DEF u, q
<1>7. ASSUME v.api.ops[1].live PROVE Answered(u)
  <2>1. v.charge.mutation # None /\ v.charge.active /\ v.charge.mutation.fits
    BY <1>1, <1>3, <1>7 DEF Awaited
  <2>2. ASSUME NEW i \in DOMAIN q, q[i].live PROVE FALSE
    <3>1. i + 1 = 1 /\ i \in Nat /\ i > 0 BY <1>1, <1>3, <1>7, <2>2 DEF Awaited
    <3> QED BY <3>1
  <2> QED BY <1>6, <2>1, <2>2 DEF Answered
<1>8. ASSUME ~v.api.ops[1].live PROVE Sound(u)
  <2>1. \A i \in DOMAIN v.api.ops :
          v.api.ops[i].live => i - 1 \in DOMAIN q /\ q[i - 1].live
    BY <1>3, <1>8
  <2>2. \A i \in DOMAIN q : q[i].live => i + 1 \in DOMAIN v.api.ops /\ v.api.ops[i + 1].live
    BY <1>3
  <2>3. (\E i \in DOMAIN v.api.ops : v.api.ops[i].live) <=> \E i \in DOMAIN q : q[i].live
    BY <2>1, <2>2
  <2>4. ASSUME NEW i \in DOMAIN q, NEW j \in DOMAIN q, q[i].live, q[j].live PROVE i = j
    <3>1. i + 1 = j + 1 /\ i \in Nat /\ j \in Nat BY <1>1, <1>3, <2>2, <2>4 DEF Awaited
    <3> QED BY <3>1
  <2>5. Awaited(u) BY <1>1, <1>6, <2>3, <2>4 DEF Awaited
  <2> QED BY <1>6, <2>5 DEF Sound
<1> QED BY <1>3, <1>7, <1>8 DEF u

\* What was asked is awaited no longer, though the server may still do it.
Unawaited(v) ==
  [v EXCEPT !.api.ops = [i \in DOMAIN @ |-> [@[i] EXCEPT !.live = FALSE]]]

LEMMA GivenUpOps ==
  ASSUME NEW q \in Seq(SentMutation)
  PROVE  LET p == [i \in DOMAIN q |-> [q[i] EXCEPT !.live = FALSE]] IN
         p \in Seq(SentMutation) /\ DOMAIN p = DOMAIN q /\ \A i \in DOMAIN p : ~p[i].live
<1> DEFINE p == [i \in DOMAIN q |-> [q[i] EXCEPT !.live = FALSE]]
<1>1. Len(q) \in Nat /\ DOMAIN q = 1..Len(q) /\ \A i \in DOMAIN q : q[i] \in SentMutation
  OBVIOUS
<1>2. \A x \in SentMutation :
        [x EXCEPT !.live = FALSE] \in SentMutation /\ ~[x EXCEPT !.live = FALSE].live
  BY DEF SentMutation
<1>3. p \in [1..Len(q) -> SentMutation] BY <1>1, <1>2
<1>4. p \in Seq(SentMutation) BY <1>1, <1>3
<1> QED BY <1>1, <1>2, <1>4

LEMMA UnawaitedAnswered ==
  ASSUME NEW v, Sound(v), \E i \in DOMAIN v.api.ops : v.api.ops[i].live
  PROVE  Answered(Unawaited(v))
<1> DEFINE q == [i \in DOMAIN v.api.ops |-> [v.api.ops[i] EXCEPT !.live = FALSE]]
           r == v.api.reads
           u == Unawaited(v)
<1>1. /\ v \in Shell /\ Whole(v) /\ Seated(v) /\ Awaited(v) /\ v.api \in ApiState(Slots(v))
  BY Parts DEF Sound, Whole
<1>2. r \in [Slots(v) -> Nat] /\ v.api.ops \in Seq(SentMutation)
  BY <1>1 DEF ApiState
<1>3. q \in Seq(SentMutation) /\ \A i \in DOMAIN q : ~q[i].live BY <1>2, GivenUpOps
<1>4. u = [v EXCEPT !.api.ops = q, !.api.reads = r]
  <2>1. u = [v EXCEPT !.api.ops = q] BY DEF Unawaited
  <2> HIDE DEF q, u
  <2> QED BY <1>1, <2>1 DEF Shell, ApiState
<1> HIDE DEF q, r
<1>5. Whole(u) /\ Seated(u) /\ u.charge = v.charge /\ u.api.ops = q
  <2> DEFINE z == OnTheirWay(v, q, r)
  <2> HIDE DEF u
  <2>1. Whole(z) /\ Seated(z) /\ z.charge = v.charge /\ z.api.ops = q
    BY <1>1, <1>2, <1>3, OpsSet
  <2>2. u = z BY <1>4 DEF OnTheirWay
  <2> HIDE DEF z
  <2> QED BY <2>1, <2>2
<1> HIDE DEF u
<1> QED BY <1>1, <1>3, <1>5 DEF Answered, Awaited, u

-----------------------------------------------------------------------------
(* The connection.                                                         *)

\* Only the timer of the polls, or what blocks the flow, changes.
LEMMA PollingOff ==
  ASSUME NEW v \in Shell, Known(v), Told(v)
  PROVE  LET u == [v EXCEPT !.charge.polling = FALSE] IN
         /\ Moves(v, u) /\ u.api = v.api /\ u.charge.active = v.charge.active
<1> DEFINE c == [v.charge EXCEPT !.polling = FALSE]
           u == [v EXCEPT !.charge.polling = FALSE]
           x == [v EXCEPT !.charge = c, !.main = v.main]
<1>1. v.charge \in ChargeState /\ Paged(v.charge) /\ v.main \in MainState
  BY Parts DEF Known
<1>2. u = x BY <1>1 DEF Shell
<1>3. c \in ChargeState BY <1>1 DEF ChargeState
<1>4. /\ c.active = v.charge.active /\ c.order = v.charge.order
      /\ c.mutation = v.charge.mutation /\ c.facts = v.charge.facts /\ c.read = v.charge.read
      /\ c.selection = v.charge.selection /\ c.reported = v.charge.reported
      /\ c.exitFailed = v.charge.exitFailed /\ c.exit = v.charge.exit
      /\ c.attempt = v.charge.attempt /\ c.selGen = v.charge.selGen
  BY <1>1 DEF ChargeState
<1> HIDE DEF c, u
<1>5. Paged(c) BY <1>1, <1>4, PagedSame
<1>6. SameMain(v.main, v.main) BY DEF SameMain
<1>7. Moves(v, x)
  BY <1>1, <1>3, <1>4, <1>5, <1>6, ChargeAlone DEF Told, Withdrawn
<1>8. x.api = v.api /\ x.charge = c BY DEF Shell
<1> QED BY <1>2, <1>4, <1>7, <1>8 DEF u

LEMMA ReconcileOwed ==
  ASSUME NEW v \in Shell, Known(v), Told(v), v.charge.read = None
  PROVE  Moves(v, [v EXCEPT !.charge.reconcile = TRUE, !.charge.factsFailed = FALSE])
<1> DEFINE c == [v.charge EXCEPT !.reconcile = TRUE, !.factsFailed = FALSE]
           u == [v EXCEPT !.charge.reconcile = TRUE, !.charge.factsFailed = FALSE]
           x == [v EXCEPT !.charge = c, !.main = v.main]
<1>1. v.charge \in ChargeState /\ Paged(v.charge) /\ v.main \in MainState
  BY Parts DEF Known
<1>2. u = x BY <1>1 DEF Shell
<1>3. c \in ChargeState BY <1>1 DEF ChargeState
<1>4. /\ c.active = v.charge.active /\ c.order = v.charge.order
      /\ c.mutation = v.charge.mutation /\ c.facts = v.charge.facts /\ c.read = v.charge.read
      /\ c.selection = v.charge.selection /\ c.reported = v.charge.reported
      /\ c.exitFailed = v.charge.exitFailed /\ c.exit = v.charge.exit
      /\ c.attempt = v.charge.attempt /\ c.selGen = v.charge.selGen
  BY <1>1 DEF ChargeState
<1> HIDE DEF c, u
<1>5. Paged(c) BY <1>1, <1>4, PagedSame
<1>6. SameMain(v.main, v.main) BY DEF SameMain
<1>7. Moves(v, x)
  BY <1>1, <1>3, <1>4, <1>5, <1>6, ChargeAlone DEF Told, Withdrawn
<1> QED BY <1>2, <1>7 DEF u

LEMMA ChargeConnection ==
  ASSUME NEW v \in Shell, Known(v), Told(v), Reported(v), Alone(v), NEW before \in BOOLEAN
  PROVE  Settles(v, ChargeConnectionChanged(v, before))
<1> DEFINE p == [v EXCEPT !.charge.polling = FALSE]
           q == invalidateSafeReads(p)
           broken == [q EXCEPT !.charge.reconcile = TRUE, !.charge.factsFailed = FALSE]
           t == CASE ~v.api.up /\ v.charge.active -> broken
                  [] ~v.api.up /\ ~v.charge.active -> p
                  [] v.api.up /\ ~before /\ v.charge.active -> requestReconciliation(v)
                  [] OTHER -> v
<1>1. ChargeConnectionChanged(v, before) = Shown(t) BY DEF ChargeConnectionChanged
<1>2. v.charge \in ChargeState /\ v.api \in ApiState(Slots(v)) BY Parts
<1>3. v.charge.active \in BOOLEAN /\ v.api.up \in BOOLEAN BY <1>2 DEF ChargeState, ApiState
<1>4. Moves(v, p) /\ p.api = v.api /\ p.charge.active = v.charge.active BY PollingOff
<1> HIDE DEF p
<1>5. p \in Shell /\ Known(p) /\ Told(p) /\ p.main.reconnect = v.main.reconnect
  BY <1>4 DEF Moves, Within, Frame
<1>6. ASSUME v.charge.active PROVE Moves(v, broken)
  <2>1. Alone(p) /\ p.charge.active BY <1>4, <1>5, <1>6 DEF Alone, Slots
  <2>2. q = cancelOwnedSafeReads(p) BY <1>5, <2>1, InvalidateOwned
  <2> HIDE DEF q
  <2>3. Moves(p, q) /\ q.charge.read = None
    <3> DEFINE z == cancelOwnedSafeReads(p)
    <3>1. /\ Moves(p, z)
          /\ z.charge = [p.charge EXCEPT
                           !.read = None, !.facts = None, !.gate = FALSE,
                           !.attempt = IF p.charge.exit THEN 0 ELSE @, !.current = TRUE]
      BY <1>5, GiveUpOwned
    <3> HIDE DEF z
    <3>2. p.charge \in ChargeState BY <1>5, Parts
    <3>3. z.charge.read = None BY <3>1, <3>2 DEF ChargeState
    <3> QED BY <2>2, <3>1, <3>3 DEF z
  <2>4. q \in Shell /\ Known(q) /\ Told(q) BY <2>3 DEF Moves
  <2>5. Moves(q, broken) BY <2>3, <2>4, ReconcileOwed
  <2> HIDE DEF broken
  <2>6. Moves(v, q) BY <1>4, <2>3, MovesTrans
  <2> QED BY <2>5, <2>6, MovesTrans
<1>7. Moves(v, requestReconciliation(v))
  <2> DEFINE x == requestReconciliation(v)
  <2>1. Keeps(v, x) BY RequestReconciliation
  <2> HIDE DEF x
  <2>2. Heard(v) BY ReportedHeard
  <2> QED BY <2>1, <2>2 DEF Keeps, Moves, x
<1>8. Moves(v, v) BY KeepsSelf
<1> HIDE DEF broken, q
<1>9. Moves(v, t) BY <1>3, <1>4, <1>6, <1>7, <1>8
<1> HIDE DEF t
<1>10. t \in Shell /\ Known(t) /\ Told(t) BY <1>9 DEF Moves
<1>11. Settles(t, Shown(t)) BY <1>10, ShownSettles
<1> QED BY <1>1, <1>9, <1>11, SettlesAfter

\* The connection has changed, and the pages were not told yet.
Linked(v) ==
  /\ v \in Shell /\ Known(v) /\ Told(v) /\ Listed(v) /\ Reported(v) /\ Withdrawn(v)
  /\ Seated(v)
  /\ v.charge.mutation # None => v.charge.active /\ v.charge.mutation.fits
  /\ v.charge.mutation = None => Awaited(v)

\* The order is read again by the window when no page does so.
LEMMA ReadAgain ==
  ASSUME NEW v, Sound(v), v.api.user, ~v.main.guard, v.main.page # "charge"
  PROVE  LET u == requestReconnectCurrent([v EXCEPT !.main.required = TRUE,
                                                    !.main.queued = TRUE]) IN
         /\ Leads(v, u) /\ u.charge = v.charge
         /\ u.main.authority = v.main.authority /\ u.main.stamp = v.main.stamp
<1> DEFINE m == [v.main EXCEPT !.required = TRUE, !.queued = TRUE]
           u == [v EXCEPT !.main = m]
<1>1. v \in Shell /\ Whole(v) /\ Seated(v) /\ Awaited(v) /\ v.main \in MainState
  BY Parts DEF Sound, Whole
<1>2. [v EXCEPT !.main.required = TRUE, !.main.queued = TRUE] = u BY <1>1 DEF Shell
<1>3. /\ m \in MainState /\ m.page = v.main.page /\ m.guard = v.main.guard
      /\ m.navShown = v.main.navShown /\ m.reconnect = v.main.reconnect
      /\ m.remembered = v.main.remembered /\ m.required
      /\ m.blocked = v.main.blocked /\ m.deferred = v.main.deferred
      /\ m.authority = v.main.authority /\ m.stamp = v.main.stamp
  BY <1>1 DEF MainState
<1> HIDE DEF m
<1>4. /\ u \in Shell /\ u.main = m /\ u.api = v.api /\ u.charge = v.charge
      /\ u.history = v.history
      /\ Known(v) => Known(u)
      /\ Told(v) => Told(u)
      /\ Listed(v) => Listed(u)
      /\ Reported(v) => Reported(u)
      /\ Rendered(v) => Rendered(u)
      /\ Withdrawn(v) => Withdrawn(u)
  BY <1>1, <1>3, MainSet
<1> HIDE DEF u
<1>5. Whole(u) BY <1>1, <1>4 DEF Whole
<1>6. Slots(u) = Slots(v) BY <1>4 DEF Slots
<1>7. Seated(u) BY <1>1, <1>3, <1>4, <1>6 DEF Seated
<1>8. Awaited(u) BY <1>1, <1>4 DEF Awaited
<1>9. Sound(u) BY <1>5, <1>7, <1>8 DEF Sound
<1> DEFINE x == requestReconnectCurrent(u)
<1>10. /\ Leads(u, x) /\ x.charge = u.charge
       /\ x.main.authority = u.main.authority /\ x.main.stamp = u.main.stamp
  BY <1>9, RequestReconnect
<1> HIDE DEF x
<1>11. /\ Leads(v, x) /\ x.charge = v.charge
       /\ x.main.authority = v.main.authority /\ x.main.stamp = v.main.stamp
  BY <1>3, <1>4, <1>10 DEF Leads
<1> QED BY <1>2, <1>11 DEF x

LEMMA ConnectionChanged ==
  ASSUME NEW v, Linked(v), NEW before \in BOOLEAN
  PROVE  LET u == connectionChanged(v, before) IN
         /\ Whole(u) /\ Seated(u) /\ u.api.ops = v.api.ops
         /\ v.charge.mutation = None => Sound(u)
         /\ v.charge.mutation # None =>
              /\ u.charge.mutation # None /\ u.charge.active /\ u.charge.mutation.fits
<1> DEFINE h == HistoryConnectionChanged(v)
           c == ChargeConnectionChanged(h, before)
           n == NearbyConnectionChanged(c)
           u == connectionChanged(v, before)
<1>1. /\ v \in Shell /\ Known(v) /\ Told(v) /\ Listed(v) /\ Reported(v) /\ Withdrawn(v)
      /\ Seated(v)
  BY DEF Linked
<1>2. Holds(v, h) /\ Apace(v, h) /\ h.charge = v.charge BY <1>1, HistoryConnection
<1> HIDE DEF h
<1>3. h \in Shell /\ Known(h) /\ Told(h) /\ Reported(h) BY <1>1, <1>2 DEF Holds
<1>4. Alone(h)
  <2>1. Alone(v) BY <1>1 DEF Seated, Alone
  <2> QED BY <1>2, <2>1, AloneTurns
<1>5. Settles(h, c) BY <1>3, <1>4, ChargeConnection
<1> HIDE DEF c
<1>6. Keeps(h, c) /\ c \in Shell /\ Known(c) /\ Told(c) /\ Rendered(c)
  BY <1>5, SettlesKeeps DEF Settles, Moves
<1>7. Keeps(c, n) BY <1>6, NearbyConnection
<1> HIDE DEF n
<1>8. Rendered(n) BY <1>6, <1>7 DEF Keeps
<1>9. Holds(v, n) /\ Apace(v, n)
  <2>1. Holds(h, c) /\ Apace(h, c) BY <1>6, KeepsHolds
  <2>2. Holds(c, n) /\ Apace(c, n) BY <1>7, KeepsHolds
  <2>3. Holds(v, c) /\ Apace(v, c) BY <1>2, <2>1, HoldsTrans, ApaceTrans
  <2> QED BY <2>2, <2>3, HoldsTrans, ApaceTrans
<1>10. Whole(n) BY <1>1, <1>8, <1>9 DEF Whole, Holds
<1>11. Seated(n) BY <1>1, <1>9 DEF Seated, Holds, Apace
<1>12. v.charge.mutation = None => Sound(n)
  <2>1. ASSUME v.charge.mutation = None PROVE Awaited(n)
    <3>1. Awaited(v) BY <2>1 DEF Linked
    <3> QED BY <3>1, <1>9 DEF Awaited, Holds
  <2> QED BY <1>10, <1>11, <2>1 DEF Sound
<1>13. v.charge.mutation # None =>
         /\ n.charge.mutation # None /\ n.charge.active /\ n.charge.mutation.fits
         /\ n.main.page = "charge"
  <2>1. v.charge.mutation # None =>
          v.charge.active /\ v.charge.mutation.fits /\ v.main.page = "charge"
    BY <1>1 DEF Linked, Seated
  <2> QED BY <2>1, <1>9 DEF Holds
<1>14. u = MainConnectionChanged(n) BY DEF connectionChanged, n, c, h
<1>15. CASE ~n.api.user \/ n.main.guard \/ n.main.page = "charge" \/ n.main.blocked
  <2>1. u = n BY <1>14, <1>15 DEF MainConnectionChanged
  <2> HIDE DEF u
  <2> QED BY <2>1, <1>9, <1>10, <1>11, <1>12, <1>13 DEF Holds, u
<1>16. CASE ~(~n.api.user \/ n.main.guard \/ n.main.page = "charge" \/ n.main.blocked)
  <2>1. v.charge.mutation = None BY <1>13, <1>16
  <2>2. u = requestReconnectCurrent([n EXCEPT !.main.required = TRUE, !.main.queued = TRUE])
    BY <1>14, <1>16 DEF MainConnectionChanged
  <2>3. Sound(n) BY <1>12, <2>1
  <2>4. Leads(n, u)
    <3> HIDE DEF u
    <3> QED BY <2>2, <2>3, <1>16, ReadAgain
  <2> HIDE DEF u
  <2> QED BY <1>9, <2>1, <2>4 DEF Leads, Holds, Sound, u
<1> QED BY <1>15, <1>16

LEMMA LinkSet ==
  ASSUME NEW v, Sound(v), NEW a \in ApiState(Slots(v)), a.user = v.api.user,
         v.charge.mutation = None => \A i \in DOMAIN a.ops : ~a.ops[i].live
  PROVE  LET u == [v EXCEPT !.api = a] IN
         Linked(u) /\ u.charge = v.charge /\ u.main = v.main /\ u.api = a
<1> DEFINE u == [v EXCEPT !.api = a]
<1>1. v \in Shell /\ Slots(v) \subseteq Read /\ Whole(v) /\ Seated(v) /\ Awaited(v)
  BY Parts DEF Sound, Whole
<1>2. DOMAIN a.reads = Slots(v) BY DEF ApiState
<1>3. u \in Shell
  <2>1. v.charge \in ChargeState /\ v.nearby \in NearbyState /\ v.history \in HistoryState
        /\ v.main \in MainState
    BY <1>1, Parts
  <2>2. u = [api |-> a, charge |-> v.charge, nearby |-> v.nearby, history |-> v.history,
             main |-> v.main]
    BY <1>1 DEF Shell
  <2> HIDE DEF u
  <2> QED BY <1>1, <2>1, <2>2, Built
<1>4. /\ u.api = a /\ u.charge = v.charge /\ u.main = v.main /\ u.nearby = v.nearby
      /\ u.history = v.history
  BY <1>1 DEF Shell
<1> HIDE DEF u
<1>5. Slots(u) = Slots(v) BY <1>2, <1>4 DEF Slots
<1>6. Known(u) /\ Told(u) /\ Listed(u) /\ Reported(u) /\ Withdrawn(u)
  BY <1>1, <1>4, <1>5 DEF Whole, Known, Told, Listed, Reported, Withdrawn
<1>7. Seated(u) BY <1>1, <1>4, <1>5 DEF Seated
<1>8. v.charge.mutation # None => v.charge.active /\ v.charge.mutation.fits
  BY <1>1 DEF Awaited
<1>9. v.charge.mutation = None => Awaited(u) BY <1>4 DEF Awaited
<1> QED BY <1>3, <1>4, <1>6, <1>7, <1>8, <1>9 DEF Linked, u

\* A new connection: what the pages kept is sent again.
Connected(v) == [v EXCEPT !.api.up = TRUE, !.api.replayed = DOMAIN v.api.reads]

LEMMA ConnectedLinked ==
  ASSUME NEW v, Sound(v)
  PROVE  LET x == Connected(v) IN
         /\ Linked(x) /\ x.charge = v.charge /\ x.main = v.main
         /\ x.api.ops = v.api.ops /\ Awaited(v)
<1> DEFINE a == [v.api EXCEPT !.up = TRUE, !.replayed = Slots(v)]
           x == Connected(v)
<1>1. v \in Shell /\ v.api \in ApiState(Slots(v)) /\ Awaited(v)
  BY Parts DEF Sound, Whole
<1>2. a \in ApiState(Slots(v)) /\ a.user = v.api.user /\ a.ops = v.api.ops
  BY <1>1 DEF ApiState
<1>3. x = [v EXCEPT !.api = a] BY <1>1 DEF Connected, Shell, ApiState, Slots
<1> HIDE DEF a
<1>4. v.charge.mutation = None => \A i \in DOMAIN a.ops : ~a.ops[i].live
  BY <1>1, <1>2 DEF Awaited
<1>5. Linked(x) /\ x.charge = v.charge /\ x.main = v.main /\ x.api = a
  BY <1>2, <1>3, <1>4, LinkSet
<1> HIDE DEF x
<1> QED BY <1>1, <1>2, <1>5 DEF x

LEMMA ConnectSound ==
  ASSUME NEW v, Sound(v)
  PROVE  Leads(v, connectionChanged(Connected(v), FALSE))
<1> DEFINE x == Connected(v)
           u == connectionChanged(x, FALSE)
<1>1. Linked(x) /\ x.charge = v.charge /\ x.api.ops = v.api.ops /\ Awaited(v)
  BY ConnectedLinked
<1> HIDE DEF x
<1>2. /\ Whole(u) /\ Seated(u) /\ u.api.ops = v.api.ops
      /\ v.charge.mutation = None => Sound(u)
      /\ v.charge.mutation # None =>
           /\ u.charge.mutation # None /\ u.charge.active /\ u.charge.mutation.fits
  <2>1. FALSE \in BOOLEAN OBVIOUS
  <2> QED BY <1>1, <2>1, ConnectionChanged
<1> HIDE DEF u
<1>3. v.charge.mutation # None => Awaited(u) BY <1>1, <1>2 DEF Awaited
<1>4. Sound(u) BY <1>2, <1>3 DEF Sound
<1> QED BY <1>2, <1>4 DEF Leads, u, x

\* The connection is gone, with what was sent over it.
Gone(v) == [v EXCEPT !.api.up = FALSE, !.api.ops = <<>>]

LEMMA GoneLinked ==
  ASSUME NEW v, Sound(v)
  PROVE  LET x == Gone(v) IN
         /\ Linked(x) /\ x.charge = v.charge /\ x.main = v.main
         /\ x.api.ops = <<>> /\ ~x.api.up
<1> DEFINE a == [v.api EXCEPT !.up = FALSE, !.ops = <<>>]
           x == Gone(v)
<1>1. v \in Shell /\ v.api \in ApiState(Slots(v))
  BY Parts DEF Sound, Whole
<1>2. /\ a \in ApiState(Slots(v)) /\ a.user = v.api.user /\ a.ops = <<>> /\ ~a.up
  <2>1. <<>> \in Seq(SentMutation) OBVIOUS
  <2> QED BY <1>1, <2>1 DEF ApiState
<1>3. x = [v EXCEPT !.api = a] BY <1>1 DEF Gone, Shell, ApiState
<1> HIDE DEF a
<1>4. v.charge.mutation = None => \A i \in DOMAIN a.ops : ~a.ops[i].live
  BY <1>2
<1>5. Linked(x) /\ x.charge = v.charge /\ x.main = v.main /\ x.api = a
  BY <1>2, <1>3, <1>4, LinkSet
<1> HIDE DEF x
<1> QED BY <1>2, <1>5 DEF x

\* The answer to a login is lost: the page of the login awaits it no more.
LEMMA LoginGone ==
  ASSUME NEW v, Sound(v)
  PROVE  Leads(v, cancelSafeReads(v, {"login"}))
<1> DEFINE u == cancelSafeReads(v, {"login"})
<1>1. v \in Shell /\ Whole(v) /\ Seated(v) /\ Awaited(v) BY DEF Sound, Whole
<1>2. "login" \in {"guard", "login", "reconnect", "list"} /\ "login" # "list"
  OBVIOUS
<1>3. /\ Known(u) /\ Told(u)
      /\ Listed(v) => Listed(u)
      /\ Reported(v) => Reported(u)
      /\ Withdrawn(v) => Withdrawn(u)
      /\ Rendered(v) => Rendered(u)
  BY <1>1, <1>2, SlotKnown DEF Whole
<1>4. /\ u \in Shell /\ u.charge = v.charge /\ u.history = v.history /\ u.main = v.main
      /\ u.api.user = v.api.user /\ u.api.ops = v.api.ops /\ "login" \notin Slots(u)
      /\ \A s : s # "login" => (s \in Slots(u) <=> s \in Slots(v))
  BY <1>1, SlotFree
<1> HIDE DEF u
<1>5. Whole(u) BY <1>1, <1>3, <1>4 DEF Whole
<1>6. Seated(u) BY <1>1, <1>4 DEF Seated
<1>7. Awaited(u) BY <1>1, <1>4 DEF Awaited
<1> QED BY <1>4, <1>5, <1>6, <1>7 DEF Leads, Sound, u

LEMMA FailOf ==
  ASSUME NEW v, NEW slot \in {"login", "guard", "reconnect"}
  PROVE  /\ slot \notin Slots(v) => failOf(v, slot) = v
         /\ Sound(v) => Leads(v, failOf(v, slot))
<1>1. ASSUME slot \notin Slots(v) PROVE failOf(v, slot) = v BY <1>1 DEF failOf, Slots
<1>2. ASSUME Sound(v), slot \in Slots(v) PROVE Leads(v, failOf(v, slot))
  <2>1. failOf(v, slot) = readFailed(cancelSafeReads(v, {slot}), slot)
    BY <1>2 DEF failOf, Slots
  <2>2. CASE slot = "login"
    <3>1. readFailed(cancelSafeReads(v, {slot}), slot) = cancelSafeReads(v, {"login"})
      BY <2>2 DEF readFailed, CurrentRead
    <3> QED BY <1>2, <2>1, <3>1, LoginGone
  <2>3. CASE slot # "login"
    <3>1. slot \in CurrentRead BY <2>3 DEF CurrentRead
    <3>2. failOf(v, slot) = currentOrderFailed(cancelSafeReads(v, {slot}), slot)
      BY <2>1, <3>1 DEF readFailed
    <3> QED BY <1>2, <3>1, <3>2, CurrentFailed
  <2> QED BY <2>2, <2>3
<1> QED BY <1>1, <1>2 DEF Leads

\* The reads that are sent again wait for nothing.
Resent(v) ==
  [v EXCEPT !.api.reads = [s \in DOMAIN @ |-> 0],
            !.api.details = [d \in DetailId |-> IF @[d] = "sent" THEN "kept" ELSE "over"]]

LEMMA ResentSound ==
  ASSUME NEW v, Sound(v) PROVE Leads(v, Resent(v))
<1> DEFINE r == [s \in Slots(v) |-> 0]
           q == v.api.ops
           f == [d \in DetailId |-> IF v.api.details[d] = "sent" THEN "kept" ELSE "over"]
           u == Resent(v)
           z == OnTheirWay(v, q, r)
           y == [z EXCEPT !.api.details = f]
<1>1. v \in Shell /\ Whole(v) /\ Seated(v) /\ Awaited(v) /\ v.api \in ApiState(Slots(v))
  BY Parts DEF Sound, Whole
<1>2. r \in [Slots(v) -> Nat] /\ q \in Seq(SentMutation) BY <1>1 DEF ApiState
<1>3. u = y
  <2>1. [s \in DOMAIN v.api.reads |-> 0] = r BY DEF Slots
  <2>2. u = [v EXCEPT !.api.reads = r, !.api.details = f] BY <1>1, <2>1 DEF Resent, Shell, ApiState
  <2> HIDE DEF r, u, f
  <2> QED BY <1>1, <2>2 DEF OnTheirWay, Shell, ApiState
<1>4. f \in [DetailId -> {"sent", "kept", "over"}] OBVIOUS
<1> HIDE DEF r, q, f
<1>5. Whole(z) /\ Seated(z) /\ z.charge = v.charge /\ z.api.ops = q
  BY <1>1, <1>2, OpsSet
<1> HIDE DEF z, u
<1>6. Awaited(z) BY <1>1, <1>5 DEF Awaited, q
<1>7. Leads(v, z) BY <1>5, <1>6 DEF Leads, Sound, q
<1>8. Keeps(z, y)
  <2>1. z \in Shell /\ Known(z) /\ Told(z) BY <1>5 DEF Whole
  <2>2. OnlyDetails(z, y) BY <1>4, <2>1, ChangeDetails
  <2> HIDE DEF y
  <2> QED BY <2>1, <2>2, DetailsKeep
<1> HIDE DEF y
<1>9. Leads(z, y)
  <2>1. Sound(z) BY <1>7 DEF Leads
  <2>2. Holds(z, y) /\ Apace(z, y) BY <1>8, KeepsHolds
  <2> QED BY <2>1, <2>2, HoldsLeads
<1> QED BY <1>3, <1>7, <1>9 DEF Leads, u

LEMMA LostSound ==
  ASSUME NEW v, Sound(v), v.api = api PROVE Sound(lost(v)) /\ lost(v).api.ops = <<>>
<1> DEFINE told == connectionChanged(Gone(v), TRUE)
           over == {"login"} \cup told.api.replayed
           s1 == "login"
           s2 == IF "guard" \in over THEN "guard" ELSE "login"
           s3 == IF "reconnect" \in over THEN "reconnect" ELSE "login"
           a == failOf(told, s1)
           b == failOf(a, s2)
           reads == failOf(b, s3)
           failed == IF \E i \in DOMAIN v.api.ops : v.api.ops[i].live
                     THEN mutationFailed(reads, "uncertain") ELSE reads
<1>1. lost(v) = Resent(failed) BY DEF lost, Resent, Gone
<1>2. Awaited(v) BY DEF Sound
<1>3. /\ Linked(Gone(v)) /\ Gone(v).charge = v.charge /\ Gone(v).api.ops = <<>>
  BY GoneLinked
<1>4. TRUE \in BOOLEAN OBVIOUS
<1>5. /\ Whole(told) /\ Seated(told) /\ told.api.ops = <<>>
      /\ v.charge.mutation = None => Sound(told)
      /\ v.charge.mutation # None =>
           /\ told.charge.mutation # None /\ told.charge.active /\ told.charge.mutation.fits
  <2> DEFINE g == Gone(v)
  <2> HIDE DEF g
  <2>1. Linked(g) /\ g.charge = v.charge /\ g.api.ops = <<>> BY <1>3 DEF g
  <2>2. LET u == connectionChanged(g, TRUE) IN
         /\ Whole(u) /\ Seated(u) /\ u.api.ops = g.api.ops
         /\ g.charge.mutation = None => Sound(u)
         /\ g.charge.mutation # None =>
              /\ u.charge.mutation # None /\ u.charge.active /\ u.charge.mutation.fits
    BY <1>4, <2>1, ConnectionChanged
  <2>3. told = connectionChanged(g, TRUE) BY DEF g
  <2> HIDE DEF told
  <2> QED BY <2>1, <2>2, <2>3
<1> HIDE DEF told
<1>6. /\ s1 \in {"login", "guard", "reconnect"} /\ s2 \in {"login", "guard", "reconnect"}
      /\ s3 \in {"login", "guard", "reconnect"}
  OBVIOUS
<1> HIDE DEF s1, s2, s3
<1>7. CASE v.charge.mutation = None
  <2>1. ~\E i \in DOMAIN v.api.ops : v.api.ops[i].live BY <1>2, <1>7 DEF Awaited
  <2>2. Sound(told) BY <1>5, <1>7
  <2>3. Leads(told, a) BY <1>6, <2>2, FailOf
  <2> HIDE DEF a
  <2>4. Leads(a, b) BY <1>6, <2>3, FailOf DEF Leads
  <2> HIDE DEF b
  <2>5. Leads(b, reads) BY <1>6, <2>4, FailOf DEF Leads
  <2> HIDE DEF reads
  <2>6. failed = reads BY <2>1
  <2>7. Leads(reads, Resent(reads)) BY <2>5, ResentSound DEF Leads
  <2> QED BY <1>1, <1>5, <2>3, <2>4, <2>5, <2>6, <2>7 DEF Leads
<1>8. CASE v.charge.mutation # None
  <2>1. \E i \in DOMAIN v.api.ops : v.api.ops[i].live BY <1>2, <1>8 DEF Awaited
  <2>2. Answered(told)
    <3>1. DOMAIN told.api.ops = {} BY <1>5, <1>8
    <3> QED BY <1>5, <1>8, <3>1 DEF Answered
  <2>3. told.main.page = "charge" BY <1>5, <1>8 DEF Seated
  <2>4. \A s \in {"login", "guard", "reconnect"} : s \notin Slots(told)
    BY <1>5, <2>3 DEF Seated
  <2>5. reads = told
    <3>1. a = told BY <1>6, <2>4, FailOf
    <3> HIDE DEF a
    <3>2. b = told BY <1>6, <2>4, <3>1, FailOf
    <3> HIDE DEF b
    <3> QED BY <1>6, <2>4, <3>2, FailOf
  <2> HIDE DEF reads
  <2>6. failed = mutationFailed(told, "uncertain") BY <2>1, <2>5
  <2>7. Leads(told, failed) BY <2>2, <2>6, MutationFailed
  <2> HIDE DEF failed
  <2>8. Leads(failed, Resent(failed)) BY <2>7, ResentSound DEF Leads
  <2> QED BY <1>1, <1>5, <2>7, <2>8 DEF Leads
<1> QED BY <1>7, <1>8

-----------------------------------------------------------------------------
(* The session ends.                                                       *)

LEMMA NoReads == <<>> \in [{} -> Nat] /\ DOMAIN <<>> = {}
<1>1. <<>> \in Seq(Nat) /\ Len(<<>>) = 0 OBVIOUS
<1>2. <<>> \in [1..0 -> Nat] BY <1>1
<1>3. 1..0 = {} OBVIOUS
<1> QED BY <1>2, <1>3

\* The page of stations gives up what it may, also while the reads are gone that
\* the other pages still await.
Bare(v, u) ==
  /\ u \in Shell /\ u.charge = v.charge /\ u.history = v.history /\ u.main = v.main
  /\ u.api.up = v.api.up /\ u.api.user = v.api.user /\ u.api.ops = v.api.ops
  /\ Slots(u) \subseteq Slots(v)

LEMMA BareTrans ==
  ASSUME NEW a, NEW b, NEW c, Bare(a, b), Bare(b, c) PROVE Bare(a, c)
BY DEF Bare

LEMMA BareNearby ==
  ASSUME NEW v \in Shell, NEW n \in NearbyState
  PROVE  LET u == [v EXCEPT !.nearby = n] IN Bare(v, u) /\ u.nearby = n
<1> DEFINE u == [v EXCEPT !.nearby = n]
<1>1. /\ u \in Shell /\ u.api = v.api /\ u.charge = v.charge /\ u.history = v.history
      /\ u.main = v.main /\ u.nearby = n
  BY DEF Shell
<1> HIDE DEF u
<1> QED BY <1>1 DEF Bare, Slots, u

LEMMA BareList ==
  ASSUME NEW v \in Shell
  PROVE  LET u == cancelPendingStationList(v) IN Bare(v, u) /\ u.nearby.list = None
<1> DEFINE x == cancelSafeReads(v, {"list"})
           n == [x.nearby EXCEPT !.list = None]
           y == [x EXCEPT !.nearby = n]
           k == [n EXCEPT !.search = x.api.up]
           z == [y EXCEPT !.nearby = k]
           u == cancelPendingStationList(v)
<1>1. Bare(v, x)
  <2>1. /\ x \in Shell
        /\ x.charge = v.charge /\ x.nearby = v.nearby /\ x.history = v.history
        /\ x.main = v.main /\ x.api.up = v.api.up /\ x.api.user = v.api.user
        /\ x.api.ops = v.api.ops /\ Slots(x) = Slots(v) \ {"list"}
    BY CancelReads
  <2> HIDE DEF x
  <2> QED BY <2>1 DEF Bare
<1>2. u = IF v.nearby.foreground THEN [x EXCEPT !.nearby.list = None]
          ELSE setSearchPending([x EXCEPT !.nearby.list = None], FALSE)
  BY DEF cancelPendingStationList
<1> HIDE DEF x, u
<1>3. x \in Shell BY <1>1 DEF Bare
<1>4. x.nearby \in NearbyState /\ x.api.up \in BOOLEAN BY <1>3, Parts DEF ApiState
<1>5. [x EXCEPT !.nearby.list = None] = y BY <1>3 DEF Shell
<1>6. n \in NearbyState /\ n.list = None BY <1>4, NoneFits DEF NearbyState
<1>7. k \in NearbyState /\ k.list = None BY <1>4, <1>6 DEF NearbyState
<1>8. setSearchPending(y, FALSE) = z
  <2>1. y.api = x.api /\ y.nearby = n BY <1>3 DEF Shell
  <2> DEFINE b == x.api.up
  <2>2. (y.api.up /\ ~FALSE) = b BY <1>4, <2>1
  <2>3. setSearchPending(y, FALSE) = [y EXCEPT !.nearby.search = (y.api.up /\ ~FALSE)]
    BY DEF setSearchPending
  <2> HIDE DEF b, y, n
  <2>4. [y EXCEPT !.nearby.search = b] = [y EXCEPT !.nearby = [n EXCEPT !.search = b]]
    BY <2>1
  <2> QED BY <2>2, <2>3, <2>4 DEF b
<1> HIDE DEF n, k
<1>9. Bare(x, y) /\ y.nearby = n BY <1>3, <1>6, BareNearby
<1> HIDE DEF y
<1>10. y \in Shell BY <1>9 DEF Bare
<1>11. Bare(y, z) /\ z.nearby = k BY <1>7, <1>10, BareNearby
<1> HIDE DEF z
<1>12. u \in {y, z} BY <1>2, <1>5, <1>8
<1>13. Bare(v, y) BY <1>1, <1>9, BareTrans
<1>14. Bare(v, z) BY <1>13, <1>11, BareTrans
<1> QED BY <1>6, <1>7, <1>9, <1>11, <1>12, <1>13, <1>14 DEF u

LEMMA BareRefresh ==
  ASSUME NEW v \in Shell PROVE Bare(v, cancelChargeRefresh(v))
<1> DEFINE x == IF v.nearby.list # None /\ v.nearby.list.kind = "charge"
                THEN cancelPendingStationList(v) ELSE v
           n == [x.nearby EXCEPT !.refresh = None]
           y == [x EXCEPT !.nearby = n]
<1>1. Bare(v, x)
  <2>1. Bare(v, v) BY DEF Bare
  <2> QED BY <2>1, BareList
<1>2. cancelChargeRefresh(v) = [x EXCEPT !.nearby.refresh = None]
  BY DEF cancelChargeRefresh, resetChargeRefresh
<1> HIDE DEF x
<1>3. x \in Shell BY <1>1 DEF Bare
<1>4. n \in NearbyState
  <2>1. x.nearby \in NearbyState BY <1>3, Parts
  <2> QED BY <2>1, NoneFits DEF NearbyState
<1>5. [x EXCEPT !.nearby.refresh = None] = y BY <1>3 DEF Shell
<1> HIDE DEF n
<1>6. Bare(x, y) BY <1>3, <1>4, BareNearby
<1> HIDE DEF y
<1> QED BY <1>1, <1>2, <1>5, <1>6, BareTrans

LEMMA BareDetail ==
  ASSUME NEW v \in Shell
  PROVE  LET u == cancelDetail(v) IN Bare(v, u) /\ u.nearby.list = v.nearby.list
<1> DEFINE x == cancelDetails(v, awaitedDetail(v))
           n == [x.nearby EXCEPT !.detail = None]
           y == [x EXCEPT !.nearby = n]
           u == cancelDetail(v)
<1>1. Bare(v, x) /\ x.nearby = v.nearby
  <2>1. OnlyDetails(v, x) BY CancelDetails
  <2> HIDE DEF x
  <2> QED BY <2>1 DEF Bare, OnlyDetails, Slots
<1>2. u = [x EXCEPT !.nearby.detail = None] BY DEF cancelDetail
<1> HIDE DEF x, u
<1>3. x \in Shell BY <1>1 DEF Bare
<1>4. n \in NearbyState /\ n.list = x.nearby.list
  <2>1. x.nearby \in NearbyState BY <1>3, Parts
  <2> QED BY <2>1, NoneFits DEF NearbyState
<1>5. [x EXCEPT !.nearby.detail = None] = y BY <1>3 DEF Shell
<1> HIDE DEF n
<1>6. Bare(x, y) /\ y.nearby = n BY <1>3, <1>4, BareNearby
<1> HIDE DEF y
<1> QED BY <1>1, <1>2, <1>4, <1>5, <1>6, BareTrans DEF u

LEMMA BareSearch ==
  ASSUME NEW v \in Shell, v.nearby.list = None
  PROVE  LET u == nextSearch(v) IN Bare(v, u) /\ u.nearby.list = None
<1> DEFINE l == unfit(v.nearby.list)
           r == unfit(v.nearby.refresh)
           d == unfit(v.nearby.detail)
           n == [v.nearby EXCEPT !.list = l, !.refresh = r, !.detail = d]
           u == [v EXCEPT !.nearby = n]
<1>1. v.nearby \in NearbyState BY Parts
<1>2. /\ l \in Maybe(StationList) /\ l = None /\ r \in Maybe(Refresh) /\ d \in Maybe(Detail)
  BY <1>1, AgedMaybe DEF NearbyState
<1>3. nextSearch(v) = u BY <1>1 DEF nextSearch, NearbyState, Shell
<1> HIDE DEF l, r, d
<1>4. n \in NearbyState /\ n.list = None BY <1>1, <1>2 DEF NearbyState
<1> HIDE DEF n
<1>5. Bare(v, u) /\ u.nearby = n BY <1>4, BareNearby
<1> HIDE DEF u
<1> QED BY <1>3, <1>4, <1>5

LEMMA BareControls ==
  ASSUME NEW v \in Shell
  PROVE  LET u == setDetailControlsEnabled(setSearchPending(v, FALSE), FALSE) IN
         Bare(v, u) /\ u.nearby.list = v.nearby.list
<1> DEFINE b == v.api.up /\ ~FALSE
           n == [v.nearby EXCEPT !.search = b]
           y == [v EXCEPT !.nearby = n]
           k == [n EXCEPT !.controls = FALSE]
           u == [y EXCEPT !.nearby = k]
<1>1. b \in BOOLEAN OBVIOUS
<1>2. setSearchPending(v, FALSE) = y
  <2>1. setSearchPending(v, FALSE) = [v EXCEPT !.nearby.search = b] BY DEF setSearchPending
  <2> HIDE DEF b
  <2>2. [v EXCEPT !.nearby.search = b] = y BY DEF Shell
  <2> QED BY <2>1, <2>2
<1> HIDE DEF b
<1>3. n \in NearbyState /\ n.list = v.nearby.list
  <2>1. v.nearby \in NearbyState BY Parts
  <2> QED BY <1>1, <2>1 DEF NearbyState
<1> HIDE DEF n
<1>4. Bare(v, y) /\ y.nearby = n BY <1>3, BareNearby
<1> HIDE DEF y
<1>5. y \in Shell BY <1>4 DEF Bare
<1>6. setDetailControlsEnabled(y, FALSE) = u BY <1>4, <1>5 DEF setDetailControlsEnabled, Shell
<1>7. k \in NearbyState /\ k.list = n.list BY <1>3 DEF NearbyState
<1> HIDE DEF k
<1>8. Bare(y, u) /\ u.nearby = k BY <1>5, <1>7, BareNearby
<1> HIDE DEF u
<1> QED BY <1>2, <1>3, <1>4, <1>6, <1>7, <1>8, BareTrans

LEMMA ResetNearbyBare ==
  ASSUME NEW v \in Shell, v.main.remembered = None
  PROVE  LET u == resetNearbyPage(v)
             c == [v.charge EXCEPT !.selection = aged(v.charge.selection)]
         IN  /\ u \in Shell /\ c \in ChargeState /\ u.charge = c
             /\ u.history = v.history /\ u.main = v.main /\ u.nearby.list = None
             /\ u.api.up = v.api.up /\ u.api.user = v.api.user /\ u.api.ops = v.api.ops
             /\ Slots(u) \subseteq Slots(v)
<1> DEFINE k == [v.nearby EXCEPT !.geocode = FALSE, !.foreground = FALSE]
           a == [v EXCEPT !.nearby = k]
           b == cancelChargeRefresh(a)
           x == cancelPendingStationList(b)
           d == cancelDetail(x)
           e == nextSearch(d)
           f == nextSelection(e)
           n == [f.nearby EXCEPT !.origin = FALSE, !.known = FALSE, !.shown = FALSE,
                                 !.superseded = {}]
           g == [f EXCEPT !.nearby = n]
           u == setDetailControlsEnabled(setSearchPending(g, FALSE), FALSE)
           s == aged(v.charge.selection)
           c == [v.charge EXCEPT !.selection = s]
<1>0. resetNearbyPage(v) = u
  <2> DEFINE z == [f EXCEPT !.nearby.origin = FALSE, !.nearby.known = FALSE,
                            !.nearby.shown = FALSE, !.nearby.superseded = {}]
             y == [v EXCEPT !.nearby.geocode = FALSE, !.nearby.foreground = FALSE]
  <2>1. y = a BY DEF Shell
  <2>2. resetNearbyPage(v) =
          setDetailControlsEnabled(setSearchPending(
            [nextSelection(nextSearch(cancelDetail(cancelPendingStationList(
               cancelChargeRefresh(y))))) EXCEPT
               !.nearby.origin = FALSE, !.nearby.known = FALSE,
               !.nearby.shown = FALSE, !.nearby.superseded = {}], FALSE), FALSE)
    BY Zenon DEF resetNearbyPage
  <2> HIDE DEF y, a
  <2>3. resetNearbyPage(v) = setDetailControlsEnabled(setSearchPending(z, FALSE), FALSE)
    BY <2>1, <2>2
  <2> HIDE DEF f
  <2>4. z = g OBVIOUS
  <2> HIDE DEF z, g
  <2> QED BY <2>3, <2>4
<1>1. Bare(v, a)
  <2>1. k \in NearbyState
    <3>1. v.nearby \in NearbyState BY Parts
    <3> QED BY <3>1 DEF NearbyState
  <2> HIDE DEF k
  <2> QED BY <2>1, BareNearby
<1> HIDE DEF a
<1>2. Bare(a, b) BY <1>1, BareRefresh DEF Bare
<1> HIDE DEF b
<1>3. Bare(b, x) /\ x.nearby.list = None BY <1>2, BareList DEF Bare
<1> HIDE DEF x
<1>4. Bare(x, d) /\ d.nearby.list = None BY <1>3, BareDetail DEF Bare
<1> HIDE DEF d
<1>5. Bare(d, e) /\ e.nearby.list = None BY <1>4, BareSearch DEF Bare
<1> HIDE DEF e
<1>6. Bare(v, e)
  <2>1. Bare(v, x) BY <1>1, <1>2, <1>3, BareTrans
  <2>2. Bare(x, e) BY <1>4, <1>5, BareTrans
  <2> QED BY <2>1, <2>2, BareTrans
<1>7. e \in Shell /\ e.charge = v.charge /\ e.main = v.main /\ e.history = v.history
  BY <1>6 DEF Bare
<1>8. s \in Maybe(Selection)
  <2>1. v.charge.selection \in Maybe(Selection)
    <3>1. v.charge \in ChargeState BY Parts
    <3> QED BY <3>1 DEF ChargeState
  <2> QED BY <2>1, AgedMaybe
<1>9. c \in ChargeState
  <2>1. v.charge \in ChargeState BY Parts
  <2> HIDE DEF s
  <2> QED BY <1>8, <2>1 DEF ChargeState
<1>10. /\ f \in Shell /\ f.charge = c /\ f.history = v.history /\ f.main = v.main
       /\ f.api = e.api /\ f.nearby.list = None
  <2> DEFINE l == aged(e.nearby.list)
             r == aged(e.nearby.refresh)
             t == unfit(e.nearby.detail)
             i == [e.nearby EXCEPT !.list = l, !.refresh = r, !.detail = t]
             m == [v.main EXCEPT !.remembered = None]
             y == [e EXCEPT !.charge = c, !.main = m, !.nearby = i]
  <2>1. e.nearby \in NearbyState BY <1>7, Parts
  <2>2. l \in Maybe(StationList) /\ l = None /\ r \in Maybe(Refresh) /\ t \in Maybe(Detail)
    BY <1>5, <2>1, AgedMaybe DEF NearbyState
  <2>3. aged(v.main.remembered) = None BY AgedTypes
  <2>4. f = y
    <3> DEFINE p == aged(e.main.remembered)
               o == aged(e.charge.selection)
    <3>1. p = None /\ o = s BY <1>7, <2>3
    <3>2. f = [e EXCEPT !.charge.selection = o, !.main.remembered = p,
                        !.nearby.list = l, !.nearby.refresh = r, !.nearby.detail = t]
      BY <1>7, <2>1 DEF nextSelection, NearbyState, Shell, f
    <3> HIDE DEF l, r, t, p, o, s, f
    <3> QED BY <1>7, <3>1, <3>2 DEF Shell
  <2> HIDE DEF l, r, t, f, s
  <2>5. i \in NearbyState /\ i.list = None BY <2>1, <2>2 DEF NearbyState
  <2>6. m \in MainState /\ m = v.main
    <3>1. v.main \in MainState BY Parts
    <3> QED BY <3>1 DEF MainState
  <2> HIDE DEF i, m, c
  <2> QED BY <1>7, <1>9, <2>4, <2>5, <2>6 DEF Shell
<1> HIDE DEF c, f
<1>11. Bare(f, g) /\ g.nearby = n /\ n.list = None
  <2>1. f.nearby \in NearbyState BY <1>10, Parts
  <2>2. n \in NearbyState /\ n.list = None BY <1>10, <2>1 DEF NearbyState
  <2> HIDE DEF n
  <2> QED BY <1>10, <2>2, BareNearby
<1> HIDE DEF n, g
<1>12. g \in Shell BY <1>11 DEF Bare
<1>13. Bare(g, u) /\ u.nearby.list = g.nearby.list BY <1>12, BareControls
<1> HIDE DEF u
<1>14. Bare(f, u) BY <1>11, <1>13, BareTrans
<1>15. /\ u \in Shell /\ u.charge = c /\ u.history = v.history /\ u.main = v.main
       /\ u.nearby.list = None
  BY <1>10, <1>11, <1>13, <1>14 DEF Bare
<1>16. /\ u.api.up = v.api.up /\ u.api.user = v.api.user /\ u.api.ops = v.api.ops
       /\ Slots(u) \subseteq Slots(v)
  BY <1>6, <1>10, <1>14 DEF Bare, Slots
<1> QED BY <1>0, <1>9, <1>15, <1>16 DEF c, s

LEMMA ResetHistoryBare ==
  ASSUME NEW v \in Shell
  PROVE  LET u == resetHistoryPage(v) IN
         /\ u \in Shell /\ u.charge = v.charge /\ u.main = v.main /\ u.nearby = v.nearby
         /\ u.history.pending = None /\ ~u.history.active
         /\ u.api.up = v.api.up /\ u.api.user = v.api.user /\ u.api.ops = v.api.ops
         /\ Slots(u) \subseteq Slots(v)
<1> DEFINE h == [v.history EXCEPT !.active = FALSE]
           a == [v EXCEPT !.history = h]
           x == cancelSafeReads(a, {"history"})
           k == [h EXCEPT !.pending = None, !.committed = None]
           u == [x EXCEPT !.history = k]
<1>1. v.history \in HistoryState BY Parts
<1>2. h \in HistoryState /\ ~h.active BY <1>1 DEF HistoryState
<1>3. k \in HistoryState /\ k.pending = None /\ ~k.active
  BY <1>1, <1>2, NoneFits DEF HistoryState
<1>4. [v EXCEPT !.history.active = FALSE] = a BY DEF Shell
<1> HIDE DEF h
<1>5. /\ a \in Shell /\ a.charge = v.charge /\ a.main = v.main /\ a.nearby = v.nearby
      /\ a.api = v.api /\ a.history = h
  BY <1>2 DEF Shell
<1> HIDE DEF a
<1>6. /\ x \in Shell /\ x.charge = a.charge /\ x.nearby = a.nearby /\ x.history = a.history
      /\ x.main = a.main /\ x.api.up = a.api.up /\ x.api.user = a.api.user
      /\ x.api.ops = a.api.ops /\ Slots(x) = Slots(a) \ {"history"}
  BY <1>5, CancelReads
<1>7. resetHistoryPage(v) = [[x EXCEPT !.history.pending = None] EXCEPT !.history.committed = None]
  BY <1>4 DEF resetHistoryPage, deactivateHistory, cancelHistoryRead
<1> HIDE DEF x
<1>8. [[x EXCEPT !.history.pending = None] EXCEPT !.history.committed = None] = u
  BY <1>5, <1>6 DEF Shell
<1> HIDE DEF k
<1>9. /\ u \in Shell /\ u.charge = x.charge /\ u.main = x.main /\ u.nearby = x.nearby
      /\ u.api = x.api /\ u.history = k
  BY <1>3, <1>6 DEF Shell
<1> HIDE DEF u
<1>10. Slots(u) \subseteq Slots(v) BY <1>5, <1>6, <1>9 DEF Slots
<1> QED BY <1>3, <1>5, <1>6, <1>7, <1>8, <1>9, <1>10

\* The page of an order as the session leaves it.
Cleared(g) ==
  [[g EXCEPT !.exit = FALSE, !.exitFailed = FALSE, !.attempt = 0,
             !.polling = FALSE, !.mutation = None, !.reconcile = FALSE] EXCEPT
     !.factsFailed = FALSE, !.noOrder = FALSE, !.selection = None, !.order = None,
     !.associated = None]

LEMMA ClearedParts ==
  ASSUME NEW g \in ChargeState, g.facts = None, g.read = None
  PROVE  LET e == Cleared(g) IN
         /\ e \in ChargeState /\ e.facts = None /\ e.read = None /\ e.mutation = None
         /\ e.order = None /\ e.selection = None /\ e.selGen = g.selGen
         /\ ~e.exit /\ ~e.exitFailed /\ ~e.reconcile /\ ~e.factsFailed
         /\ e.active = g.active /\ e.reported = g.reported
<1> DEFINE d == [g EXCEPT !.exit = FALSE, !.exitFailed = FALSE, !.attempt = 0,
                          !.polling = FALSE, !.mutation = None, !.reconcile = FALSE]
           e == [d EXCEPT !.factsFailed = FALSE, !.noOrder = FALSE, !.selection = None,
                          !.order = None, !.associated = None]
<1>1. Cleared(g) = e BY DEF Cleared
<1>2. d \in ChargeState BY Small, NoneFits DEF ChargeState
<1>3. /\ d.facts = g.facts /\ d.read = g.read /\ d.mutation = None /\ d.selGen = g.selGen
      /\ ~d.exit /\ ~d.exitFailed /\ ~d.reconcile
      /\ d.active = g.active /\ d.reported = g.reported
  BY DEF ChargeState
<1> HIDE DEF d
<1>4. e \in ChargeState BY <1>2, NoneFits DEF ChargeState
<1>5. /\ e.facts = d.facts /\ e.read = d.read /\ e.mutation = d.mutation
      /\ e.selGen = d.selGen
      /\ e.exit = d.exit /\ e.exitFailed = d.exitFailed /\ e.reconcile = d.reconcile
      /\ ~e.factsFailed /\ e.order = None /\ e.selection = None
      /\ e.active = d.active /\ e.reported = d.reported
  BY <1>2 DEF ChargeState
<1> HIDE DEF e
<1> QED BY <1>1, <1>3, <1>4, <1>5

ClearedFrom(x) ==
  [endExitRefresh(x) EXCEPT
     !.charge.polling = FALSE, !.charge.mutation = None, !.charge.reconcile = FALSE,
     !.charge.factsFailed = FALSE, !.charge.noOrder = FALSE,
     !.charge.selection = None, !.charge.order = None, !.charge.associated = None]

LEMMA RecordStep ==
  ASSUME NEW x, NEW a, NEW c, NEW b, NEW h, NEW m, NEW d, NEW n,
         x = [api |-> a, charge |-> c, nearby |-> b, history |-> h, main |-> m]
  PROVE  /\ [x EXCEPT !.charge = d]
               = [api |-> a, charge |-> d, nearby |-> b, history |-> h, main |-> m]
         /\ [x EXCEPT !.main = n]
               = [api |-> a, charge |-> c, nearby |-> b, history |-> h, main |-> n]
         /\ x.charge = c /\ x.main = m
OBVIOUS

LEMMA ClearedRecord ==
  ASSUME NEW x, NEW a, NEW g, NEW b, NEW h, NEW m,
         x = [api |-> a, charge |-> g, nearby |-> b, history |-> h, main |-> m]
  PROVE  ClearedFrom(x) = With(x, Cleared(g), m)
<1> DEFINE p == [g EXCEPT !.exit = FALSE, !.exitFailed = FALSE, !.attempt = 0]
           d == [p EXCEPT !.polling = FALSE, !.mutation = None, !.reconcile = FALSE]
           e == [d EXCEPT !.factsFailed = FALSE, !.noOrder = FALSE, !.selection = None,
                          !.order = None, !.associated = None]
           y == [x EXCEPT !.charge = p]
           z == [y EXCEPT !.charge = d]
           t == ClearedFrom(x)
<1>1. e = Cleared(g)
  <2>1. d = [g EXCEPT !.exit = FALSE, !.exitFailed = FALSE, !.attempt = 0,
                      !.polling = FALSE, !.mutation = None, !.reconcile = FALSE]
    OBVIOUS
  <2> HIDE DEF d
  <2> QED BY <2>1 DEF Cleared
<1>2. x = [api |-> a, charge |-> g, nearby |-> b, history |-> h, main |-> m] OBVIOUS
<1>3. endExitRefresh(x) = y
  <2> DEFINE g1 == [g EXCEPT !.exit = FALSE]
             g2 == [g1 EXCEPT !.exitFailed = FALSE]
             x1 == [x EXCEPT !.charge = g1]
             x2 == [x1 EXCEPT !.charge = g2]
  <2>1. x.charge = g BY <1>2, RecordStep
  <2>2. x1 = [api |-> a, charge |-> g1, nearby |-> b, history |-> h, main |-> m]
    <3> HIDE DEF g1
    <3> QED BY <1>2, RecordStep
  <2>3. x2 = [api |-> a, charge |-> g2, nearby |-> b, history |-> h, main |-> m]
    <3> HIDE DEF x1, g2
    <3> QED BY <2>2, RecordStep
  <2>4. endExitRefresh(x)
          = [[[x EXCEPT !.charge.exit = FALSE] EXCEPT !.charge.exitFailed = FALSE]
               EXCEPT !.charge.attempt = 0]
    BY DEF endExitRefresh
  <2>5. [x EXCEPT !.charge.exit = FALSE] = x1 BY <2>1
  <2>6. x1.charge = g1 /\ x2.charge = g2
    <3> HIDE DEF g1, g2, x1, x2
    <3> QED BY <2>2, <2>3, RecordStep
  <2> HIDE DEF x1
  <2>7. [x1 EXCEPT !.charge.exitFailed = FALSE] = x2 BY <2>6
  <2> HIDE DEF x2, g1
  <2>8. [x2 EXCEPT !.charge.attempt = 0] = [x2 EXCEPT !.charge = p]
    <3>1. p = [g2 EXCEPT !.attempt = 0] BY DEF g1
    <3> HIDE DEF p, g2
    <3> QED BY <2>6, <3>1
  <2>9. [x2 EXCEPT !.charge = p] = [api |-> a, charge |-> p, nearby |-> b, history |-> h, main |-> m]
    <3> HIDE DEF p, g2
    <3> QED BY <2>3, RecordStep
  <2>10. y = [api |-> a, charge |-> p, nearby |-> b, history |-> h, main |-> m]
    <3> HIDE DEF p, g2
    <3> QED BY <1>2, RecordStep
  <2> HIDE DEF p, g2, y
  <2> QED BY <2>4, <2>5, <2>7, <2>8, <2>9, <2>10
<1>4. y = [api |-> a, charge |-> p, nearby |-> b, history |-> h, main |-> m]
  <2> HIDE DEF p
  <2> QED BY <1>2, RecordStep
<1> HIDE DEF p, y
<1>5. [y EXCEPT !.charge.polling = FALSE, !.charge.mutation = None,
                !.charge.reconcile = FALSE] = z
  BY <1>4
<1>6. z = [api |-> a, charge |-> d, nearby |-> b, history |-> h, main |-> m] BY <1>4
<1>7. t = [z EXCEPT !.charge.factsFailed = FALSE, !.charge.noOrder = FALSE,
                    !.charge.selection = None, !.charge.order = None,
                    !.charge.associated = None]
  <2>1. t = [[y EXCEPT !.charge.polling = FALSE, !.charge.mutation = None,
                       !.charge.reconcile = FALSE] EXCEPT
               !.charge.factsFailed = FALSE, !.charge.noOrder = FALSE,
               !.charge.selection = None, !.charge.order = None,
               !.charge.associated = None]
    BY <1>3 DEF ClearedFrom
  <2> HIDE DEF z, t
  <2> QED BY <1>5, <2>1
<1> HIDE DEF d, z, t
<1>8. t = [z EXCEPT !.charge = e] BY <1>6, <1>7
<1> HIDE DEF e
<1>9. t = [api |-> a, charge |-> e, nearby |-> b, history |-> h, main |-> m] BY <1>6, <1>8
<1>10. With(x, e, m) = [api |-> a, charge |-> e, nearby |-> b, history |-> h, main |-> m]
  BY <1>2, WithRecord
<1> QED BY <1>1, <1>9, <1>10 DEF t

\* Nobody is logged in, and nothing is awaited but what the page of an order had.
LoggedOut(v) ==
  /\ v \in Shell /\ Slots(v) = {} /\ v.nearby.list = None
  /\ v.history.pending = None /\ ~v.history.active /\ ~v.api.user
  /\ \A i \in DOMAIN v.api.ops : ~v.api.ops[i].live
  /\ v.main.page = "login" /\ v.main.remembered = None /\ v.main.reconnect = None
  /\ ~v.main.guard /\ ~v.main.required /\ ~v.main.navShown
  /\ ~v.main.blocked /\ ~v.main.deferred

LEMMA ResetCharge ==
  ASSUME NEW v, LoggedOut(v)
  PROVE  LET u == resetChargePage(v) IN
         /\ Leads(v, u) /\ u.main = v.main /\ u.main.page = "login" /\ ~u.api.user /\ ~u.main.guard
         /\ u.api.up = v.api.up /\ "login" \notin Slots(u)
<1> DEFINE f == unfit(v.charge.mutation)
           c == [v.charge EXCEPT !.mutation = f, !.active = FALSE]
           z == [v EXCEPT !.charge = c]
           x == cancelOwnedSafeReads(z)
           k == GivenUp(c)
           e == Cleared(k)
           o == [e EXCEPT !.reported = FALSE]
           n == v.main
           y == Anew(v, o, n)
           u == resetChargePage(v)
<1>1. v \in Shell /\ v.charge \in ChargeState /\ n \in MainState
  BY Parts DEF LoggedOut
<1>2. /\ f \in Maybe(PageMutation)
      /\ nextPage(v) = [v EXCEPT !.charge = [v.charge EXCEPT !.mutation = f]]
  BY <1>1, NextPage
<1> HIDE DEF f, n
<1>3. [nextPage(v) EXCEPT !.charge.active = FALSE] = z BY <1>1, <1>2 DEF Shell
<1>4. c \in ChargeState /\ ~c.active BY <1>1, <1>2 DEF ChargeState
<1> HIDE DEF c
<1>5. /\ z \in Shell /\ z.api = v.api /\ z.nearby = v.nearby /\ z.history = v.history
      /\ z.charge = c /\ z.main = n
  BY <1>1, <1>4 DEF Shell, n
<1> HIDE DEF z
<1>6. /\ x = [api |-> x.api, charge |-> k, nearby |-> x.nearby, history |-> v.history,
              main |-> n]
      /\ With(x, e, n) = Anew(v, e, n) /\ k \in ChargeState
  <2> HIDE DEF x, e, k
  <2>1. LET q == cancelOwnedSafeReads(z) IN
        /\ q = [api |-> q.api, charge |-> GivenUp(z.charge), nearby |-> q.nearby,
                history |-> z.history, main |-> z.main]
        /\ GivenUp(z.charge) \in ChargeState
        /\ \A a, b : With(q, a, b) = Anew(v, a, b)
    BY <1>1, <1>5, OwnedRecord
  <2> QED BY <1>5, <2>1 DEF x, k
<1>7. ~k.active /\ k.facts = None /\ k.read = None BY <1>4 DEF GivenUp, ChargeState
<1>8. /\ e \in ChargeState /\ e.facts = None /\ e.read = None /\ e.mutation = None
      /\ e.order = None /\ e.selection = None /\ ~e.exit /\ ~e.exitFailed /\ ~e.reconcile
      /\ ~e.factsFailed /\ e.selGen = k.selGen
      /\ e.active = k.active
  <2> HIDE DEF k
  <2> QED BY <1>6, <1>7, ClearedParts
<1>9. u = Shown(Anew(v, e, n))
  <2> DEFINE t == ClearedFrom(x)
  <2>1. u = Shown(t)
    <3> HIDE DEF z
    <3> QED BY <1>3 DEF resetChargePage, ClearedFrom, x
  <2>2. t = With(x, e, n)
    <3> DEFINE a == x.api
               b == x.nearby
               h == v.history
    <3>1. x = [api |-> a, charge |-> k, nearby |-> b, history |-> h, main |-> n]
      BY <1>6
    <3> HIDE DEF x, a, b, h, k
    <3> QED BY <3>1, ClearedRecord
  <2> HIDE DEF t, x, e, u
  <2> QED BY <1>6, <2>1, <2>2
<1> HIDE DEF e, k, x
<1>10. /\ o \in ChargeState /\ o.facts = None /\ o.read = None /\ o.mutation = None
       /\ o.order = None /\ o.selection = None /\ ~o.exit /\ ~o.exitFailed /\ ~o.reconcile
       /\ ~o.factsFailed /\ ~o.active /\ ~o.reported
  BY <1>7, <1>8 DEF ChargeState
<1>11. updateChargeFlowBlock(Anew(v, e, n)) = y
  <2> DEFINE t == Anew(v, e, n)
             a == t.api
             b == t.nearby
             h == v.history
             m == [n EXCEPT !.blocked = FALSE]
  <2>1. /\ t.charge = e /\ t.main = n
        /\ t = [api |-> a, charge |-> e, nearby |-> b, history |-> h, main |-> n]
        /\ With(t, o, n) = y
    <3>1. \A i, j : /\ t.charge = e /\ t.main = n
                    /\ t = [api |-> t.api, charge |-> e, nearby |-> t.nearby,
                            history |-> v.history, main |-> n]
                    /\ With(t, i, j) = Anew(v, i, j)
      <4> HIDE DEF t
      <4> TAKE i, j
      <4> QED BY <1>1, AnewAgain DEF t
    <3> HIDE DEF t, o
    <3> QED BY <3>1
  <2>2. chargeFlowBlocked(e) = FALSE BY <1>8 DEF chargeFlowBlocked
  <2>3. e.reported \in BOOLEAN BY <1>8 DEF ChargeState
  <2>4. m = n
    <3>1. n.blocked = FALSE BY <1>1 DEF LoggedOut, MainState, n
    <3> QED BY <1>1, <3>1 DEF MainState
  <2>5. ~n.deferred BY DEF LoggedOut, n
  <2> HIDE DEF t, a, b, h
  <2>6. CASE e.reported = FALSE
    <3>1. o = e BY <1>8, <2>6 DEF ChargeState
    <3>2. updateChargeFlowBlock(t) = t
      <4> HIDE DEF o
      <4> QED BY <2>1, <2>2, <2>6 DEF updateChargeFlowBlock
    <3> HIDE DEF o
    <3>3. With(t, e, n) = t
      <4>1. With(t, e, n) = [api |-> a, charge |-> e, nearby |-> b, history |-> h, main |-> n]
        BY <2>1, WithRecord
      <4> QED BY <2>1, <4>1
    <3> QED BY <2>1, <3>1, <3>2, <3>3 DEF t
  <2>7. CASE e.reported = TRUE
    <3>1. updateChargeFlowBlock(t) = [t EXCEPT !.charge.reported = FALSE, !.main.blocked = FALSE]
      <4> HIDE DEF o, m
      <4> QED BY <2>1, <2>2, <2>5, <2>7 DEF updateChargeFlowBlock
    <3>2. [t EXCEPT !.charge.reported = FALSE, !.main.blocked = FALSE]
            = [api |-> a, charge |-> o, nearby |-> b, history |-> h, main |-> m]
      <4> DEFINE r == [t EXCEPT !.charge = o]
      <4>1. t = [api |-> a, charge |-> e, nearby |-> b, history |-> h, main |-> n] BY <2>1
      <4>2. [t EXCEPT !.charge.reported = FALSE] = r BY <2>1
      <4> HIDE DEF o, m
      <4>3. r = [api |-> a, charge |-> o, nearby |-> b, history |-> h, main |-> n]
        BY <4>1, RecordStep
      <4> HIDE DEF r
      <4>4. [t EXCEPT !.charge.reported = FALSE, !.main.blocked = FALSE]
              = [[t EXCEPT !.charge.reported = FALSE] EXCEPT !.main.blocked = FALSE]
        OBVIOUS
      <4>5. r.main = n BY <4>3, RecordStep
      <4>6. [r EXCEPT !.main.blocked = FALSE] = [r EXCEPT !.main = m] BY <4>5 DEF m
      <4>7. [r EXCEPT !.main = m]
              = [api |-> a, charge |-> o, nearby |-> b, history |-> h, main |-> m]
        BY <4>3, RecordStep
      <4> QED BY <4>2, <4>4, <4>6, <4>7
    <3> HIDE DEF o, m
    <3>3. With(t, o, n) = [api |-> a, charge |-> o, nearby |-> b, history |-> h, main |-> n]
      BY <2>1, WithRecord
    <3> QED BY <2>1, <2>4, <3>1, <3>2, <3>3 DEF t
  <2> QED BY <2>3, <2>6, <2>7
<1> HIDE DEF o
<1> DEFINE q == With(v, o, n)
<1>12. /\ q \in Shell /\ q.charge = o /\ q.main = n /\ q.api = v.api /\ q.nearby = v.nearby
       /\ q.history = v.history
  BY <1>1, <1>10 DEF Shell, With
<1>13. Anew(q, o, n) = y BY <1>1, <1>10, OwnedParts
<1> HIDE DEF q, y
<1>14. Paged(o) BY <1>10 DEF Paged
<1>15. Slots(q) = {} BY <1>12 DEF Slots, LoggedOut
<1>16. ~n.blocked /\ ~o.reported /\ n.blocked = o.reported
  <2>1. n.blocked \in BOOLEAN /\ o.reported \in BOOLEAN
    BY <1>1, <1>10 DEF MainState, ChargeState
  <2> QED BY <1>10, <2>1 DEF LoggedOut, n
<1>17. Known(q) /\ Told(q) /\ Listed(q)
  BY <1>10, <1>12, <1>14, <1>15, <1>16 DEF Known, Told, Listed, LoggedOut
<1>18. Beside(q, y) /\ y.charge = o /\ y.main = n
  <2>1. LET r == Anew(q, o, n) IN Beside(q, r) /\ r.charge = o /\ r.main = n
    BY <1>1, <1>10, <1>12, <1>14, <1>16, <1>17, Replaced
  <2> QED BY <1>13, <2>1
<1>19. /\ y \in Shell /\ Known(y) /\ Told(y) /\ Listed(y) /\ y.history = v.history
       /\ y.api.user = v.api.user /\ y.api.ops = v.api.ops /\ y.api.up = v.api.up
       /\ {"guard", "login", "reconnect"} \cap Slots(y) = {}
  BY <1>12, <1>15, <1>17, <1>18 DEF Beside
<1>20. u = render(y)
  <2>1. u = render(updateChargeFlowBlock(Anew(v, e, n))) BY <1>9 DEF Shown
  <2> HIDE DEF u
  <2> QED BY <1>11, <2>1
<1> HIDE DEF u
<1>21. /\ u \in Shell /\ Rendered(u) /\ u.api = y.api /\ u.nearby = y.nearby
       /\ u.history = y.history /\ u.main = n /\ SameOrder(u.charge, o)
       /\ Known(u) /\ Told(u)
  <2>1. Keeps(y, render(y)) BY <1>19, RenderKeeps
  <2> QED BY <2>1, <1>18, <1>19, <1>20, Render, RenderSame DEF Keeps
<1>22. Slots(u) = Slots(y) BY <1>21 DEF Slots
<1>23. Listed(u) BY <1>19, <1>21, <1>22 DEF Listed
<1>24. Reported(u)
  <2>1. chargeFlowBlocked(u.charge) = FALSE /\ u.charge.reported = o.reported
    BY <1>10, <1>21 DEF SameOrder, chargeFlowBlocked
  <2>2. o.reported = FALSE BY <1>10, <1>16 DEF ChargeState
  <2> QED BY <2>1, <2>2 DEF Reported
<1>25. Withdrawn(u)
  BY <1>10, <1>21 DEF SameOrder, Withdrawn, LoggedOut, n
<1>26. Whole(u) BY <1>21, <1>23, <1>24, <1>25 DEF Whole
<1>27. Seated(u)
  BY <1>10, <1>19, <1>21, <1>22 DEF SameOrder, Seated, LoggedOut, n
<1>28. Awaited(u)
  BY <1>10, <1>19, <1>21 DEF SameOrder, Awaited, LoggedOut
<1> QED BY <1>19, <1>21, <1>22, <1>26, <1>27, <1>28 DEF Leads, Sound, LoggedOut, n, u

\* The session ends, but for the details of stations.
Ended(v) ==
  LET z == [v EXCEPT !.api.reads = <<>>, !.api.replayed = {}, !.charge.current = FALSE,
                     !.api.ops = [i \in DOMAIN @ |-> [@[i] EXCEPT !.live = FALSE]]]
      m == [z EXCEPT !.api.user = FALSE,
                     !.main = [page |-> "login", authority |-> None, remembered |-> None,
                               guard |-> FALSE, reconnect |-> None, required |-> FALSE,
                               queued |-> FALSE, deferred |-> FALSE, blocked |-> FALSE,
                               stamp |-> "none", navShown |-> FALSE]]
  IN  resetChargePage(resetHistoryPage(resetNearbyPage(m)))

LEMMA EndedSound ==
  ASSUME NEW v \in Shell
  PROVE  LET u == Ended(v) IN
         /\ Sound(u) /\ u.main.page = "login" /\ u.main.authority = None /\ ~u.api.user /\ ~u.main.guard
         /\ u.api.up = v.api.up /\ "login" \notin Slots(u)
         /\ Len(u.api.ops) = Len(v.api.ops)
<1> DEFINE p == [i \in DOMAIN v.api.ops |-> [v.api.ops[i] EXCEPT !.live = FALSE]]
           a == [v.api EXCEPT !.reads = <<>>, !.replayed = {}, !.ops = p, !.user = FALSE]
           c == [v.charge EXCEPT !.current = FALSE]
           l == [page |-> "login", authority |-> None, remembered |-> None,
                 guard |-> FALSE, reconnect |-> None, required |-> FALSE,
                 queued |-> FALSE, deferred |-> FALSE, blocked |-> FALSE,
                 stamp |-> "none", navShown |-> FALSE]
           m == [api |-> a, charge |-> c, nearby |-> v.nearby, history |-> v.history,
                 main |-> l]
           n == resetNearbyPage(m)
           h == resetHistoryPage(n)
           u == Ended(v)
<1>1. v.charge \in ChargeState /\ v.nearby \in NearbyState /\ v.history \in HistoryState
  BY Parts
<1>2. v.api \in ApiState(Slots(v)) BY Parts
<1>3. /\ p \in Seq(SentMutation) /\ \A i \in DOMAIN p : ~p[i].live
      /\ Len(p) = Len(v.api.ops)
  <2>1. v.api.ops \in Seq(SentMutation) BY <1>2 DEF ApiState
  <2> DEFINE q == v.api.ops
  <2> HIDE DEF q
  <2>2. LET r == [i \in DOMAIN q |-> [q[i] EXCEPT !.live = FALSE]] IN
         r \in Seq(SentMutation) /\ DOMAIN r = DOMAIN q /\ \A i \in DOMAIN r : ~r[i].live
    BY <2>1, GivenUpOps DEF q
  <2>3. \A r \in Seq(SentMutation) : DOMAIN r = DOMAIN q => Len(r) = Len(q) BY <2>1
  <2> QED BY <2>2, <2>3 DEF q
<1> HIDE DEF p
<1>4. /\ a \in ApiState({}) /\ a.up = v.api.up /\ ~a.user /\ a.ops = p /\ a.reads = <<>>
  <2> DEFINE e == <<>>
  <2>1. e \in [{} -> Nat] BY NoReads
  <2> HIDE DEF e
  <2>2. LET b == [v.api EXCEPT !.reads = e, !.replayed = {}, !.ops = p, !.user = FALSE] IN
        b \in ApiState({}) /\ b.up = v.api.up /\ ~b.user /\ b.ops = p /\ b.reads = e
    BY <1>2, <1>3, <2>1 DEF ApiState
  <2> QED BY <2>2 DEF e
<1>5. c \in ChargeState BY <1>1 DEF ChargeState
<1>6. l \in MainState BY NoneFits DEF MainState
<1>7. /\ l.page = "login" /\ l.authority = None /\ l.remembered = None /\ l.reconnect = None
      /\ ~l.guard /\ ~l.required /\ ~l.navShown /\ ~l.blocked /\ ~l.deferred
  OBVIOUS
<1>8. u = resetChargePage(h)
  <2> DEFINE z == [v EXCEPT !.api.reads = <<>>, !.api.replayed = {}, !.charge.current = FALSE,
                            !.api.ops = p]
             y == [z EXCEPT !.api.user = FALSE, !.main = l]
  <2> DEFINE all == [v EXCEPT !.api.reads = <<>>, !.api.replayed = {},
                     !.charge.current = FALSE,
                     !.api.ops = [i \in DOMAIN @ |-> [@[i] EXCEPT !.live = FALSE]]]
  <2>1. all = z
    <3> DEFINE t == [v EXCEPT !.api.reads = <<>>, !.api.replayed = {},
                              !.charge.current = FALSE]
    <3>2. t.api.ops = v.api.ops BY <1>2 DEF Shell, ApiState
    <3>3. all =
            [t EXCEPT !.api.ops =
               [i \in DOMAIN t.api.ops |-> [t.api.ops[i] EXCEPT !.live = FALSE]]]
      OBVIOUS
    <3>4. z = [t EXCEPT !.api.ops = p] OBVIOUS
    <3> HIDE DEF t, z
    <3> QED BY <3>2, <3>3, <3>4 DEF p
  <2>2. y = m
    <3> DEFINE e == <<>>
               b == [v.api EXCEPT !.reads = e, !.replayed = {}, !.ops = p]
               z1 == [v EXCEPT !.api = b, !.charge = c]
    <3>1. z = z1
      <4>1. z = [v EXCEPT !.api.reads = e, !.api.replayed = {}, !.charge.current = FALSE,
                          !.api.ops = p]
        OBVIOUS
      <4> HIDE DEF e, z
      <4> QED BY <1>2, <4>1 DEF Shell, ApiState
    <3>2. z1 = [api |-> b, charge |-> c, nearby |-> v.nearby, history |-> v.history,
                main |-> v.main]
      <4> DEFINE z2 == [v EXCEPT !.api = b]
      <4> HIDE DEF b, c
      <4>1. z2 = [api |-> b, charge |-> v.charge, nearby |-> v.nearby,
                  history |-> v.history, main |-> v.main]
        BY DEF Shell
      <4>2. z1 = [z2 EXCEPT !.charge = c] OBVIOUS
      <4> HIDE DEF z1, z2
      <4> QED BY <4>1, <4>2, RecordStep
    <3>3. a = [b EXCEPT !.user = FALSE]
      <4>1. a = [v.api EXCEPT !.reads = e, !.replayed = {}, !.ops = p, !.user = FALSE]
        OBVIOUS
      <4> HIDE DEF e, a
      <4> QED BY <4>1
    <3> HIDE DEF z, z1, b, c, l, a
    <3>4. y = [z1 EXCEPT !.api.user = FALSE, !.main = l] BY <3>1
    <3>5. [z1 EXCEPT !.api.user = FALSE] = [z1 EXCEPT !.api = a]
      BY <3>2, <3>3
    <3> DEFINE z3 == [z1 EXCEPT !.api = a]
    <3>6. z3 = [api |-> a, charge |-> c, nearby |-> v.nearby, history |-> v.history,
                main |-> v.main]
      BY <3>2
    <3>7. y = [z3 EXCEPT !.main = l] BY <3>4, <3>5
    <3> HIDE DEF z3
    <3>8. [z3 EXCEPT !.main = l] = m BY <3>6, RecordStep
    <3> HIDE DEF y, m
    <3> QED BY <3>7, <3>8
  <2>3. u = resetChargePage(resetHistoryPage(resetNearbyPage(y)))
    <3>1. u = resetChargePage(resetHistoryPage(resetNearbyPage(
               [all EXCEPT !.api.user = FALSE, !.main = l])))
      BY Zenon DEF Ended
    <3> HIDE DEF z, all
    <3> QED BY <2>1, <3>1
  <2> HIDE DEF y, m, u
  <2> QED BY <2>2, <2>3
<1> HIDE DEF a, c, l
<1>9. m \in Shell
  <2>1. {} \in SUBSET Read OBVIOUS
  <2> HIDE DEF m
  <2>2. m = [api |-> a, charge |-> c, nearby |-> v.nearby, history |-> v.history,
             main |-> l]
    BY DEF m
  <2> QED BY <1>1, <1>4, <1>5, <1>6, <2>1, <2>2, Built
<1>10. /\ m.api = a /\ m.main = l OBVIOUS
<1> HIDE DEF m
<1>11. Slots(m) = {} BY <1>4, <1>10, NoReads DEF Slots
<1>12. /\ n \in Shell /\ n.main = l /\ n.nearby.list = None
       /\ n.api.user = a.user /\ n.api.ops = a.ops /\ n.api.up = a.up /\ Slots(n) \subseteq Slots(m)
  BY <1>7, <1>9, <1>10, ResetNearbyBare
<1> HIDE DEF n
<1>13. /\ h \in Shell /\ h.main = l /\ h.nearby.list = None
       /\ h.history.pending = None /\ ~h.history.active
       /\ h.api.user = a.user /\ h.api.ops = a.ops /\ h.api.up = a.up /\ Slots(h) \subseteq Slots(n)
  BY <1>12, ResetHistoryBare
<1> HIDE DEF h
<1>14. LoggedOut(h)
  BY <1>3, <1>4, <1>7, <1>11, <1>12, <1>13 DEF LoggedOut
<1> HIDE DEF u
<1>15. LET r == resetChargePage(h) IN
       /\ Leads(h, r) /\ r.main = h.main /\ r.main.page = "login" /\ ~r.api.user /\ ~r.main.guard
       /\ r.api.up = h.api.up /\ "login" \notin Slots(r)
  BY <1>14, ResetCharge
<1> QED BY <1>3, <1>4, <1>7, <1>8, <1>13, <1>15 DEF Leads, u

LEMMA SessionReset ==
  ASSUME NEW v \in Shell
  PROVE  LET u == sessionReset(v) IN
         /\ Sound(u) /\ u.main.page = "login" /\ u.main.authority = None /\ ~u.api.user /\ ~u.main.guard
         /\ u.api.up = v.api.up /\ "login" \notin Slots(u)
         /\ Len(u.api.ops) = Len(v.api.ops)
<1> DEFINE x == cancelDetails(v, DetailId)
<1>1. sessionReset(v) = Ended(x) BY Zenon DEF sessionReset, Ended, cancelAll
<1>2. x \in Shell /\ x.api.up = v.api.up /\ x.api.ops = v.api.ops
  BY CancelDetails DEF OnlyDetails
<1> HIDE DEF x
<1> QED BY <1>1, <1>2, EndedSound

\* The number is sent to be logged in with.
LEMMA LoginSent ==
  ASSUME NEW v, Sound(v), v.main.page = "login", ~v.api.user, ~v.main.guard
  PROVE  Leads(v, send(v, "login"))
<1> DEFINE u == send(v, "login")
<1>1. v \in Shell /\ Whole(v) /\ Seated(v) /\ Awaited(v) BY DEF Sound, Whole
<1>2. "login" \in Read BY DEF Read
<1>3. /\ u \in Shell
      /\ u.charge = v.charge /\ u.nearby = v.nearby /\ u.history = v.history
      /\ u.main = v.main /\ u.api.up = v.api.up /\ u.api.user = v.api.user
      /\ u.api.ops = v.api.ops /\ Slots(u) = Slots(v) \cup {"login"}
  BY <1>1, <1>2, SendRead
<1> HIDE DEF u
<1>4. Whole(u)
  BY <1>1, <1>3
  DEF Whole, Known, Told, Listed, Reported, Rendered, Usable, Withdrawn
<1>5. Seated(u) BY <1>1, <1>3 DEF Seated
<1>6. Awaited(u) BY <1>1, <1>3 DEF Awaited
<1> QED BY <1>3, <1>4, <1>5, <1>6 DEF Leads, Sound, u

-----------------------------------------------------------------------------
(* Every answer and every failure of a read.                               *)

LEMMA KeepsLeads ==
  ASSUME NEW v, NEW u, Sound(v), Keeps(v, u) PROVE Leads(v, u)
BY KeepsHolds, HoldsLeads

LEMMA SettlesLeads ==
  ASSUME NEW v, NEW u, Sound(v), Settles(v, u) PROVE Leads(v, u)
BY SettlesKeeps, KeepsLeads

LEMMA SoundKnown ==
  ASSUME NEW v, Sound(v) PROVE v \in Shell /\ Known(v) /\ Told(v)
BY DEF Sound, Whole

LEMMA ListSlot ==
  ASSUME NEW v, Sound(v)
  PROVE  LET x == cancelSafeReads(v, {"list"}) IN
         x \in Shell /\ Known(x) /\ Told(x) /\ "list" \notin Slots(x)
<1> DEFINE x == cancelSafeReads(v, {"list"})
<1>1. v \in Shell /\ Known(v) /\ Told(v) BY SoundKnown
<1>2. "list" \in {"guard", "login", "reconnect", "list"} OBVIOUS
<1>3. Known(x) /\ Told(x) BY <1>1, <1>2, SlotKnown
<1>4. x \in Shell /\ "list" \notin Slots(x) BY <1>1, SlotFree
<1> QED BY <1>3, <1>4

LEMMA NearbySound ==
  ASSUME NEW v, Sound(v), NEW u, Keeps(cancelSafeReads(v, {"list"}), u), Listed(u)
  PROVE  Leads(v, u)
<1>1. v \in Shell /\ Known(v) /\ Told(v) BY SoundKnown
<1>2. Holds(v, u) /\ Apace(v, u) BY <1>1, NearbyAnswered
<1> QED BY <1>2, HoldsLeads

LEMMA ListLoaded ==
  ASSUME NEW v, Sound(v), NEW has \in BOOLEAN
  PROVE  Leads(v, nearbyStationsLoaded(cancelSafeReads(v, {"list"}), has))
<1> DEFINE x == cancelSafeReads(v, {"list"})
           u == nearbyStationsLoaded(x, has)
<1>1. x \in Shell /\ Known(x) /\ Told(x) /\ "list" \notin Slots(x) BY ListSlot
<1>2. Keeps(x, u) /\ Listed(u)
  <2> HIDE DEF x
  <2> QED BY <1>1, StationsLoaded
<1> HIDE DEF u
<1>3. Leads(v, u) BY <1>2, NearbySound
<1> QED BY <1>3 DEF u

\* The chargers of a station are answered, or their request fails.
LEMMA ChargersLoaded ==
  ASSUME NEW v, Sound(v), NEW id
  PROVE  LET x == cancelDetails(v, {id}) IN
         Leads(v, stationDetailLoaded(x, id)) /\ Leads(v, stationDetailFailed(x, id))
<1> DEFINE x == cancelDetails(v, {id})
<1>1. v \in Shell /\ Known(v) /\ Told(v) BY SoundKnown
<1>2. Keeps(v, x) BY <1>1, CancelDetails, DetailsKeep
<1> HIDE DEF x
<1>3. x \in Shell /\ Known(x) /\ Told(x) BY <1>2 DEF Keeps
<1>4. Keeps(x, stationDetailLoaded(x, id)) /\ Keeps(x, stationDetailFailed(x, id))
  BY <1>3, DetailLoaded
<1>5. Keeps(v, stationDetailLoaded(x, id)) /\ Keeps(v, stationDetailFailed(x, id))
  BY <1>2, <1>4, KeepsTrans
<1> QED BY <1>5, KeepsLeads DEF x

LEMMA HistoryLoaded ==
  ASSUME NEW v, Sound(v), "history" \in Slots(v), NEW more \in BOOLEAN,
         more => v.history.pending < LastPage
  PROVE  Leads(v, orderHistoryLoaded(cancelSafeReads(v, {"history"}), more))
<1>1. v \in Shell /\ Known(v) /\ Told(v) BY SoundKnown
<1> QED BY <1>1, HistoryAnswered, HoldsLeads

LEMMA ReadFailed ==
  ASSUME NEW v, Sound(v), NEW slot \in Slots(v)
  PROVE  Leads(v, readFailed(cancelSafeReads(v, {slot}), slot))
<1> DEFINE u == readFailed(cancelSafeReads(v, {slot}), slot)
<1>1. v \in Shell /\ Known(v) /\ Told(v) BY SoundKnown
<1>2. slot \in Read BY <1>1, Parts
<1>3. CASE slot \in CurrentRead
  <2>1. u = currentOrderFailed(cancelSafeReads(v, {slot}), slot)
    BY <1>3 DEF readFailed, CurrentRead
  <2> HIDE DEF u
  <2>2. Leads(v, u) BY <1>3, <2>1, CurrentFailed
  <2> QED BY <2>2 DEF u
<1>4. CASE slot = "facts"
  <2>1. u = factsFailed(cancelSafeReads(v, {"facts"}))
    BY <1>4 DEF readFailed, CurrentRead
  <2>2. Settles(v, factsFailed(cancelSafeReads(v, {"facts"}))) BY <1>1, <1>4, FactsFailed
  <2> HIDE DEF u
  <2>3. Leads(v, u) BY <2>1, <2>2, SettlesLeads
  <2> QED BY <2>3 DEF u
<1>5. CASE slot = "list"
  <2> DEFINE x == cancelSafeReads(v, {"list"})
             y == nearbyStationsFailed(x)
  <2>1. u = y BY <1>5 DEF readFailed, CurrentRead
  <2>3. x \in Shell /\ Known(x) /\ Told(x) /\ "list" \notin Slots(x) BY ListSlot
  <2>4. Keeps(x, y) /\ Listed(y)
    <3> HIDE DEF x
    <3> QED BY <2>3, StationsFailed
  <2> HIDE DEF y, u
  <2>5. Leads(v, y) BY <2>4, NearbySound
  <2> QED BY <2>1, <2>5 DEF u
<1>7. CASE slot = "history"
  <2>1. u = orderHistoryFailed(cancelSafeReads(v, {"history"}))
    BY <1>7 DEF readFailed, CurrentRead
  <2>2. FALSE \in BOOLEAN OBVIOUS
  <2>3. Holds(v, u) /\ Apace(v, u)
    <3> HIDE DEF u
    <3> QED BY <1>1, <1>7, <2>1, <2>2, HistoryAnswered
  <2> HIDE DEF u
  <2>4. Leads(v, u) BY <2>3, HoldsLeads
  <2> QED BY <2>4 DEF u
<1>8. CASE slot = "login"
  <2>1. u = cancelSafeReads(v, {"login"}) BY <1>8 DEF readFailed, CurrentRead
  <2> HIDE DEF u
  <2>2. Leads(v, u) BY <2>1, LoginGone
  <2> QED BY <2>2 DEF u
<1> QED BY <1>2, <1>3, <1>4, <1>5, <1>7, <1>8 DEF Read

-----------------------------------------------------------------------------
(* Every event of the window leaves it sound.                              *)

LEMMA ShellOf ==
  /\ w.api = api /\ w.charge = charge /\ w.nearby = nearby /\ w.history = history
  /\ w.main = main
BY DEF w

\* The event is over, and the window is the shell that its handlers leave.
LEMMA BecomesSound ==
  ASSUME NEW x, Sound(x), NEW slots, Becomes(x, slots)
  PROVE  Sound(w)'
<1>1. x \in Shell
  BY DEF Sound, Whole
<1>2. x = [api |-> x.api, charge |-> x.charge, nearby |-> x.nearby, history |-> x.history,
           main |-> x.main]
  BY <1>1 DEF Shell
<1>3. w' = x
  BY <1>2 DEF w, Becomes
<1> QED
  BY <1>3

LEMMA DoesSound ==
  ASSUME NEW x, Sound(x), Does(x)
  PROVE  Sound(w)'
BY BecomesSound DEF Does

\* A handler that keeps everything.
LEMMA BecomesLeads ==
  ASSUME NEW x, Leads(w, x), NEW slots, Becomes(x, slots)
  PROVE  Sound(w)' /\ api'.ops = api.ops
BY BecomesSound, ShellOf DEF Leads, Becomes

LEMMA DoesLeads ==
  ASSUME NEW x, Leads(w, x), Does(x)
  PROVE  Sound(w)' /\ api'.ops = api.ops
BY BecomesLeads DEF Does

\* A handler that keeps everything.
LEMMA DoesKeeps ==
  ASSUME Sound(w), NEW x, Keeps(w, x), Does(x)
  PROVE  Sound(w)' /\ api'.ops = api.ops
BY KeepsLeads, DoesLeads

-----------------------------------------------------------------------------
(* The buttons.                                                            *)

LEMMA QuietEvent ==
  ASSUME Sound(w),
         stationSelected \/ SearchButton \/ NearbyRetryButton \/ geocodeFinished
           \/ RetryButton \/ pollTimer
  PROVE  Sound(w)' /\ api'.ops = api.ops
<1>1. w \in Shell /\ Known(w) /\ Told(w)
  BY SoundKnown
<1>2. CASE stationSelected
  BY <1>1, <1>2, RequestDetail, DoesKeeps DEF stationSelected
<1>3. CASE SearchButton
  BY <1>1, <1>3, SearchAddress, DoesKeeps DEF SearchButton
<1>4. CASE NearbyRetryButton
  BY <1>1, <1>4, ReconnectStations, DoesKeeps DEF NearbyRetryButton
<1>5. CASE geocodeFinished
  BY <1>1, <1>5, GeocodeOver, DoesKeeps DEF geocodeFinished
<1>6. CASE RetryButton
  BY <1>1, <1>6, RequestReconciliation, DoesKeeps DEF RetryButton
<1>7. CASE pollTimer
  BY <1>1, <1>7, RequestPoll, DoesKeeps DEF pollTimer
<1> QED
  BY <1>2, <1>3, <1>4, <1>5, <1>6, <1>7

LEMMA LoginEvent ==
  ASSUME Sound(w), loginByPhone
  PROVE  Sound(w)'
<1> DEFINE u == sessionReset(w)
<1>1. Sound(u) /\ u.main.page = "login" /\ ~u.api.user /\ ~u.main.guard
  BY SoundKnown, SessionReset
<1>2. Leads(u, send(u, "login"))
  BY <1>1, LoginSent
<1>3. Does(send(u, "login")) \/ Does(u)
  BY DEF loginByPhone
<1> QED
  BY <1>1, <1>2, <1>3, DoesSound DEF Leads

\* A page that is left makes room for one that awaits nothing.
LEMMA TurnEvent ==
  ASSUME Sound(w), NearbyButton \/ ProfileButton \/ navigationRequested \/ navigationBack
  PROVE  Sound(w)' /\ api'.ops = api.ops
<1>1. CASE NearbyButton
  <2>1. Leads(w, [leaves(w) EXCEPT !.main.page = "nearby"])
    BY <1>1, ShellOf, Leaving, Turned DEF Leads, NearbyButton, Free
  <2> QED
    BY <1>1, <2>1, DoesLeads DEF NearbyButton
<1>2. CASE ProfileButton
  <2>1. Leads(w, [leaves(w) EXCEPT !.main.page = "profile"])
    BY <1>2, ShellOf, Leaving, Turned DEF Leads, ProfileButton, Free
  <2> QED
    BY <1>2, <2>1, DoesLeads DEF ProfileButton
<1>3. CASE navigationRequested
  <2>1. Leads(w, [w EXCEPT !.main.page = "navigation"])
    BY <1>3, ShellOf, OnNearby, Turned DEF navigationRequested, At
  <2> QED
    BY <1>3, <2>1, DoesLeads DEF navigationRequested
<1>4. CASE navigationBack
  <2>1. Leads(w, [w EXCEPT !.main.page = "nearby"])
    BY <1>4, ShellOf, OnNearby, Turned DEF navigationBack, At
  <2> QED
    BY <1>4, <2>1, DoesLeads DEF navigationBack
<1> QED
  BY <1>1, <1>2, <1>3, <1>4

LEMMA AuthorityType ==
  ASSUME Sound(w)
  PROVE  main \in MainState /\ main.authority \in Maybe(Order) /\ charge \in ChargeState
         /\ history \in HistoryState
<1>1. main \in MainState /\ charge \in ChargeState /\ history \in HistoryState
  BY SoundKnown, Parts, ShellOf
<1> QED
  BY <1>1 DEF MainState

LEMMA OrderEvent ==
  ASSUME Sound(w), CurrentOrderButton \/ BackButton \/ HistoryButton
  PROVE  Sound(w)' /\ api'.ops = api.ops
<1>1. CASE CurrentOrderButton
  <2> DEFINE x == [resume(enterOrder(IF main.page = "history"
                              THEN deactivateHistory(cancelReconnectCurrent(w))
                              ELSE cancelReconnectCurrent(w), main.authority)) EXCEPT
                     !.main.page = "charge"]
  <2>1. main.authority \in Order
    BY <1>1, AuthorityType DEF CurrentOrderButton, Maybe
  <2>2. Leads(w, x)
    BY <1>1, <2>1, ShellOf, OrderShown DEF CurrentOrderButton, Free
  <2> QED
    BY <1>1, <2>2, DoesLeads DEF CurrentOrderButton
<1>2. CASE BackButton
  <2>1. At("charge") /\ "back" \in charge.buttons
    BY <1>2 DEF BackButton
  <2>2. CASE isActive(main.authority)
    <3>1. main.authority \in Order
      BY <2>2, AuthorityType DEF isActive, Maybe
    <3>2. Leads(w, resume(enterOrder(w, main.authority)))
      BY <2>1, <3>1, ShellOf, BackToOrder DEF At
    <3> QED
      BY <1>2, <2>2, <3>2, DoesLeads DEF BackButton
  <2>3. CASE ~isActive(main.authority)
    <3>1. Leads(w, [leavePage(w) EXCEPT !.main.authority = None, !.main.remembered = None,
                                     !.main.page = "nearby"])
      BY <2>1, ShellOf, BackToNearby DEF At
    <3> QED
      BY <1>2, <2>3, <3>1, DoesLeads DEF BackButton
  <2> QED
    BY <2>2, <2>3
<1>3. CASE HistoryButton
  <2>1. Leads(w, [activateHistory(IF main.page = "charge" THEN leavePage(w) ELSE w) EXCEPT
                 !.main.page = "history"])
    BY <1>3, ShellOf, HistoryShown DEF HistoryButton, Free
  <2> QED
    BY <1>3, <2>1, DoesLeads DEF HistoryButton
<1> QED
  BY <1>1, <1>2, <1>3

\* The pages of the history that can be asked for.
LEMMA CommittedIndex ==
  ASSUME NEW h \in HistoryState, h.committed # None
  PROVE  /\ h.committed.index \in 0..LastPage
         /\ h.committed.index > 0 => h.committed.index - 1 \in 0..LastPage
         /\ h.committed.more => h.committed.index + 1 \in 0..LastPage
<1>1. h.committed \in OrderPage
  BY DEF HistoryState, Maybe
<1>2. h.committed.index \in 0..LastPage /\ (h.committed.more => h.committed.index < LastPage)
  BY <1>1 DEF OrderPage
<1> QED
  BY <1>2, BoundAssumption

LEMMA HistoryPageEvent ==
  ASSUME Sound(w), HistoryPageButton
  PROVE  Sound(w)' /\ api'.ops = api.ops
<1>1. w \in Shell /\ Known(w) /\ Told(w)
  BY SoundKnown
<1>2. CASE Does(refreshHistory(w))
  BY <1>1, <1>2, RefreshHistory, HoldsLeads, DoesLeads
<1>3. CASE history.committed # None /\ history.committed.index > 0
           /\ Does(requestPage(w, history.committed.index - 1))
  <2>1. history.committed.index - 1 \in 0..LastPage
    BY <1>3, AuthorityType, CommittedIndex
  <2> QED
    BY <1>1, <1>3, <2>1, RequestPage, HoldsLeads, DoesLeads
<1>4. CASE history.committed # None /\ history.committed.more
           /\ Does(requestPage(w, history.committed.index + 1))
  <2>1. history.committed.index + 1 \in 0..LastPage
    BY <1>4, AuthorityType, CommittedIndex
  <2> QED
    BY <1>1, <1>4, <2>1, RequestPage, HoldsLeads, DoesLeads
<1> QED
  BY <1>2, <1>3, <1>4 DEF HistoryPageButton

LEMMA ChargerEvent ==
  ASSUME Sound(w), chargerSelected
  PROVE  Sound(w)' /\ api'.ops = api.ops
<1>1. PICK c \in Charger, st \in Status :
        LET s == [charger |-> c, status |-> st, fresh |-> TRUE, valid |-> TRUE]
            v == nextSelection(w)
        IN  IF main.authority # None \/ main.blocked THEN Does(v)
            ELSE Does([enterSelection([v EXCEPT !.main.remembered = s], s) EXCEPT
                         !.main.page = "charge"])
  BY DEF chargerSelected
<1> DEFINE s == [charger |-> c, status |-> st, fresh |-> TRUE, valid |-> TRUE]
<1>2. s \in Selection /\ s.valid
  BY DEF Selection
<1>3. CASE Does(nextSelection(w))
  BY <1>3, SoundKnown, NextSelection, DoesKeeps
<1>4. CASE ~main.blocked
           /\ Does([enterSelection([nextSelection(w) EXCEPT !.main.remembered = s], s) EXCEPT
                     !.main.page = "charge"])
  <2> HIDE DEF s
  <2>1. Leads(w, [enterSelection([nextSelection(w) EXCEPT !.main.remembered = s], s) EXCEPT
                 !.main.page = "charge"])
    BY <1>2, <1>4, ShellOf, ChargerChosen DEF chargerSelected, At
  <2> QED
    BY <1>4, <2>1, DoesLeads
<1> QED
  BY <1>1, <1>3, <1>4

LEMMA MutationEvent ==
  ASSUME Sound(w), MutationButton
  PROVE  Sound(w)'
<1>1. PICK op \in Mutation \cap charge.buttons : Does(beginMutation(w, op))
  BY DEF MutationButton
<1>2. Sound(beginMutation(w, op))
  BY <1>1, ShellOf, BeginMutation
<1> QED
  BY <1>1, <1>2, DoesSound

LEMMA RetryEvent ==
  ASSUME Sound(w), AuthorityRetryButton
  PROVE  Sound(w)' /\ api'.ops = api.ops
BY RequestReconnect, DoesLeads DEF AuthorityRetryButton

-----------------------------------------------------------------------------
(* The server.                                                             *)

LEMMA ServerOrder ==
  ASSUME NEW s \in ServerState
  PROVE  /\ s.order \in Maybe(Order)
         /\ s.order # None => /\ s.order.id \in 1..MaxOrder /\ s.order.charger \in Charger
                              /\ s.order.status \in Active
                              /\ s.order = [id |-> s.order.id, charger |-> s.order.charger,
                                            status |-> s.order.status]
         /\ s.made \in 0..MaxOrder /\ s.elsewhere \in 0..MaxElsewhere
<1>1. s.made \in 0..MaxOrder /\ s.elsewhere \in 0..MaxElsewhere
  BY DEF ServerState
<1>2. CASE s.order = None
  BY <1>1, <1>2 DEF Maybe
<1>3. CASE s.order # None
  <2>1. s.order \in [id : 1..MaxOrder, charger : Charger, status : Active]
    BY <1>3 DEF ServerState, Maybe
  <2>2. s.order \in Order
    BY <2>1 DEF Order
  <2> QED
    BY <1>1, <2>1, <2>2 DEF Maybe
<1> QED
  BY <1>2, <1>3

\* What is asked of the server, by this client or by another terminal.
Asks(op, target) == op \in Mutation /\ (op = "reserve" => target \in Charger)

LEMMA Outcome ==
  ASSUME NEW s \in ServerState, NEW op, NEW target, Asks(op, target), takes(s, op, target)
  PROVE  LET order == outcome(s, op, target) IN
         /\ order \in Order /\ order # None
         /\ order.status \notin Terminal =>
              order \in [id : 1..MaxOrder, charger : Charger, status : Active]
         /\ op = "reserve" => s.made + 1 \in 0..MaxOrder
<1> DEFINE order == outcome(s, op, target)
<1>1. s.made \in 0..MaxOrder /\ MaxOrder \in Nat
  BY ServerOrder, BoundAssumption
<1>2. CASE op = "reserve"
  <2>1. s.made < MaxOrder
    BY <1>2 DEF takes
  <2>2. order = [id |-> s.made + 1, charger |-> target, status |-> "reserved"]
    BY <1>2 DEF outcome
  <2>3. s.made + 1 \in 1..MaxOrder /\ s.made + 1 \in 0..MaxOrder
    BY <1>1, <2>1
  <2>4. order \in [id : 1..MaxOrder, charger : Charger, status : Active] /\ order \in Order
    BY <1>2, <2>2, <2>3 DEF Order, Active, Asks
  <2> QED
    BY <2>3, <2>4, NoneAssumption
<1>3. CASE op # "reserve"
  <2>1. s.order # None
    BY <1>3 DEF takes, Asks, Mutation
  <2> DEFINE st == CASE op = "start" -> "charging"
                     [] op = "stop" -> "stopped"
                     [] op = "settle" -> "completed"
                     [] OTHER -> "cancelled"
  <2>2. st \in Active \cup Terminal
    BY DEF Active, Terminal
  <2>3. order = [s.order EXCEPT !.status = st]
    BY <1>3 DEF outcome
  <2> HIDE DEF st
  <2>4. order = [id |-> s.order.id, charger |-> s.order.charger, status |-> st]
    BY <2>1, <2>3, ServerOrder
  <2>5. s.order.id \in 1..MaxOrder /\ s.order.charger \in Charger
    BY <2>1, ServerOrder
  <2> HIDE DEF order
  <2>6. order \in Order /\ order.status = st
    BY <2>2, <2>4, <2>5 DEF Order
  <2>7. st \in Active => order \in [id : 1..MaxOrder, charger : Charger, status : Active]
    BY <2>4, <2>5
  <2>8. st \notin Terminal => st \in Active
    BY <2>2
  <2>9. order # None
    BY <2>6, NoneAssumption
  <2> QED
    BY <1>3, <2>6, <2>7, <2>8, <2>9 DEF order
<1> QED
  BY <1>2, <1>3

LEMMA Took ==
  ASSUME NEW s \in ServerState, NEW op, NEW target, Asks(op, target)
  PROVE  took(s, op, target) \in ServerState
<1> DEFINE order == outcome(s, op, target)
<1>1. CASE ~takes(s, op, target)
  BY <1>1 DEF took
<1>2. CASE takes(s, op, target)
  <2> DEFINE o == IF order.status \in Terminal THEN None ELSE order
             k == IF op = "reserve" THEN s.made + 1 ELSE s.made
  <2>1. o \in Maybe([id : 1..MaxOrder, charger : Charger, status : Active])
    BY <1>2, Outcome DEF Maybe
  <2>2. k \in 0..MaxOrder
    BY <1>2, Outcome, ServerOrder
  <2>3. took(s, op, target) = [s EXCEPT !.order = o, !.made = k]
    BY <1>2 DEF took
  <2> HIDE DEF o, k
  <2> QED
    BY <2>1, <2>2, <2>3 DEF ServerState
<1> QED
  BY <1>1, <1>2

LEMMA TookElsewhere ==
  ASSUME NEW s \in ServerState, NEW op, NEW target
  PROVE  took(s, op, target).elsewhere = s.elsewhere
BY DEF took, ServerState

LEMMA SentAsks ==
  ASSUME NEW m \in SentMutation
  PROVE  Asks(m.op, m.target) /\ m.live \in BOOLEAN
BY DEF SentMutation, Asks

-----------------------------------------------------------------------------
(* The answers.                                                            *)

LEMMA DueSlot ==
  ASSUME NEW slot, Due(slot) PROVE slot \in Slots(w)
BY ShellOf DEF Due, Slots

LEMMA AnswerEvent ==
  ASSUME Sound(w), server \in ServerState,
         handleLogin \/ handleCurrent \/ handleList \/ handleDetail \/ handleHistory
  PROVE  Sound(w)' /\ api'.ops = api.ops
<1>1. CASE handleLogin
  BY <1>1, DueSlot, LoginSucceeded, DoesLeads DEF handleLogin, answered
<1>2. CASE handleCurrent
  <2>1. PICK slot \in CurrentRead :
          Due(slot) /\ Does(currentOrderLoaded(answered(slot), slot, server.order))
    BY <1>2 DEF handleCurrent
  <2>2. Leads(w, currentOrderLoaded(answered(slot), slot, server.order))
    BY <2>1, DueSlot, ServerOrder, CurrentLoaded DEF answered
  <2> QED
    BY <2>1, <2>2, DoesLeads
<1>3. CASE handleList
  <2>1. PICK has \in BOOLEAN : Becomes(nearbyStationsLoaded(answered("list"), has), {"list"})
    BY <1>3 DEF handleList
  <2>2. Leads(w, nearbyStationsLoaded(answered("list"), has))
    BY ListLoaded DEF answered
  <2> QED
    BY <2>1, <2>2, BecomesLeads
<1>4. CASE handleDetail
  <2>1. PICK d \in DetailId : Does(stationDetailLoaded(cancelDetails(w, {d}), d))
    BY <1>4 DEF handleDetail
  <2>2. Leads(w, stationDetailLoaded(cancelDetails(w, {d}), d))
    BY ChargersLoaded
  <2> QED
    BY <2>1, <2>2, DoesLeads
<1>5. CASE handleHistory
  <2>1. PICK more \in IF history.pending < LastPage THEN BOOLEAN ELSE {FALSE} :
          Does(orderHistoryLoaded(answered("history"), more))
    BY <1>5 DEF handleHistory
  <2>2. more \in BOOLEAN /\ (more => w.history.pending < LastPage)
    BY ShellOf
  <2>3. "history" \in Slots(w)
    BY <1>5, DueSlot DEF handleHistory
  <2>4. Leads(w, orderHistoryLoaded(answered("history"), more))
    BY <2>2, <2>3, HistoryLoaded DEF answered
  <2> QED
    BY <2>1, <2>4, DoesLeads
<1> QED
  BY <1>1, <1>2, <1>3, <1>4, <1>5

LEMMA FactsEvent ==
  ASSUME Sound(w), handleFacts
  PROVE  Sound(w)' /\ api'.ops = api.ops
<1>1. PICK st \in {None} \cup chargerStatus(charge.facts.charger) :
        Becomes(factsLoaded(answered("facts"), st), {"facts"})
  BY DEF handleFacts
<1>2. chargerStatus(charge.facts.charger) \subseteq Status
  BY DEF chargerStatus, Status
<1>3. st \in Maybe(Status)
  BY <1>1, <1>2 DEF Maybe
<1>4. w \in Shell /\ Known(w) /\ Told(w) /\ "facts" \in Slots(w)
  BY SoundKnown, DueSlot DEF handleFacts
<1>5. Settles(w, factsLoaded(answered("facts"), st))
  BY <1>3, <1>4, FactsLoaded DEF answered
<1> QED
  BY <1>1, <1>5, SettlesLeads, BecomesLeads

LEMMA FailureEvent ==
  ASSUME Sound(w), handleFailure
  PROVE  Sound(w)' /\ api'.ops = api.ops
<1>1. CASE \E slot \in DOMAIN api.reads : api.up /\ Does(readFailed(answered(slot), slot))
  <2>1. PICK slot \in DOMAIN api.reads : Does(readFailed(answered(slot), slot))
    BY <1>1
  <2>2. Leads(w, readFailed(answered(slot), slot))
    BY ShellOf, ReadFailed DEF answered, Slots
  <2> QED
    BY <2>1, <2>2, DoesLeads
<1>2. CASE \E d \in DetailId :
             DetailDue(d) /\ Does(stationDetailFailed(cancelDetails(w, {d}), d))
  <2>1. PICK d \in DetailId : Does(stationDetailFailed(cancelDetails(w, {d}), d))
    BY <1>2
  <2>2. Leads(w, stationDetailFailed(cancelDetails(w, {d}), d))
    BY ChargersLoaded
  <2> QED
    BY <2>1, <2>2, DoesLeads
<1> QED
  BY <1>1, <1>2 DEF handleFailure

LEMMA ExpiryEvent ==
  ASSUME Sound(w), handleExpiry
  PROVE  Sound(w)'
<1> DEFINE v == [w EXCEPT !.api.ops = Tail(@)]
<1>1. w \in Shell
  BY SoundKnown
<1>2. CASE Does(sessionReset(w))
  BY <1>1, <1>2, SessionReset, DoesSound
<1>3. CASE api.ops # <<>> /\ Does(sessionReset(v))
  <2> DEFINE a == [api EXCEPT !.ops = Tail(@)]
  <2>1. api \in ApiState(Slots(w)) /\ Slots(w) \subseteq Read
    BY <1>1, Parts, ShellOf
  <2>2. Tail(api.ops) \in Seq(SentMutation)
    BY <1>3, <2>1, TailLive DEF ApiState
  <2>3. a \in ApiState(Slots(w))
    BY <2>1, <2>2 DEF ApiState
  <2>4. v = [w EXCEPT !.api = a]
    BY ShellOf, <1>1 DEF Shell
  <2> HIDE DEF a
  <2>5. v \in Shell
    BY <1>1, <2>1, <2>3, <2>4 DEF Shell
  <2> HIDE DEF v
  <2> QED
    BY <1>3, <2>5, SessionReset, DoesSound
<1> QED
  BY <1>2, <1>3 DEF handleExpiry, MutationDue

LEMMA MutationDueReads ==
  ASSUME MutationDue
  PROVE  w.api.ops # <<>> /\ \A s \in Slots(w) : w.api.reads[s] # 0
BY ShellOf DEF MutationDue, Due, Slots

LEMMA BecomesApi ==
  ASSUME NEW x, NEW slots, Becomes(x, slots)
  PROVE  api' = x.api
BY DEF Becomes

LEMMA NearerOps ==
  ASSUME NEW v \in Shell
  PROVE  Nearer(v).api.ops = Tail(v.api.ops)
BY Parts DEF Nearer, Shell, ApiState

LEMMA OutcomeEvent ==
  ASSUME Sound(w), server \in ServerState, handleMutation
  PROVE  Sound(w)' /\ api'.ops = Tail(api.ops) /\ api.ops # <<>>
<1> DEFINE m == api.ops[1]
           s == took(server, m.op, m.target)
<1>1. nearer = Nearer(w)
  BY DEF nearer, Nearer
<1>2. /\ m.live => Answered(nearer)
      /\ ~m.live => Sound(nearer)
      /\ m \in SentMutation /\ nearer.api.ops = Tail(api.ops) /\ api.ops # <<>>
  BY <1>1, MutationDueReads, NearerSound, NearerOps, SoundKnown, ShellOf DEF handleMutation
<1>3. IF ~m.live
      THEN server' = s /\ Becomes(nearer, {})
      ELSE \/ /\ takes(server, m.op, m.target)
              /\ server' = s
              /\ Becomes(acceptMutation(nearer, outcome(server, m.op, m.target)), {})
           \/ \E why \in {"refresh", "other"} : Does(mutationFailed(nearer, why))
           \/ server' = s /\ Becomes(mutationFailed(nearer, "uncertain"), {})
  BY DEF handleMutation
<1> HIDE DEF m, s
<1>4. CASE ~m.live
  BY <1>2, <1>3, <1>4, BecomesSound, BecomesApi
<1>5. CASE m.live /\ takes(server, m.op, m.target)
             /\ Becomes(acceptMutation(nearer, outcome(server, m.op, m.target)), {})
  <2>1. outcome(server, m.op, m.target) \in Order
    BY <1>2, <1>5, SentAsks, Outcome
  <2>2. Leads(nearer, acceptMutation(nearer, outcome(server, m.op, m.target)))
    BY <1>2, <1>5, <2>1, AcceptMutation
  <2> QED
    BY <1>2, <1>5, <2>2, BecomesSound, BecomesApi DEF Leads
<1>6. CASE m.live /\ \E why : Becomes(mutationFailed(nearer, why), {})
  BY <1>2, <1>6, MutationFailed, BecomesSound, BecomesApi DEF Leads
<1> QED
  BY <1>3, <1>4, <1>5, <1>6 DEF Does

LEMMA TimeoutEvent ==
  ASSUME Sound(w), MutationTimeout
  PROVE  Sound(w)'
<1>1. \E i \in DOMAIN w.api.ops : w.api.ops[i].live
  BY ShellOf DEF MutationTimeout
<1>2. Leads(Unawaited(w), mutationFailed(Unawaited(w), "uncertain"))
  BY <1>1, UnawaitedAnswered, MutationFailed
<1> QED
  BY <1>2, DoesSound DEF Leads, MutationTimeout, Unawaited

LEMMA LinkEvent ==
  ASSUME Sound(w), Disconnect \/ Connect
  PROVE  Sound(w)' /\ (Disconnect => api'.ops = <<>>) /\ (Connect => api'.ops = api.ops)
<1>1. CASE Disconnect
  BY <1>1, ShellOf, LostSound, BecomesSound DEF Disconnect, Connect, Becomes
<1>2. CASE Connect
  <2>1. [w EXCEPT !.api.up = TRUE, !.api.replayed = DOMAIN api.reads] = Connected(w)
    BY ShellOf DEF Connected
  <2> QED
    BY <1>2, <2>1, ConnectSound, DoesLeads DEF Connect, Disconnect
<1> QED
  BY <1>1, <1>2

-----------------------------------------------------------------------------
(* What the server took when the connection was lost.                      *)

\* takenFirst is a function that is defined by recursion: that there is one, and of
\* which type, is shown over the numbers themselves.
LEMMA SetInduction ==
  ASSUME NEW S \in SUBSET Nat, 0 \in S, \A n \in S : n + 1 \in S
  PROVE  S = Nat
<1> DEFINE R == {p \in Nat \X Nat : p[1] < p[2]}
           T == Nat \ S
<1>1. IsWellFoundedOn(R, Nat)
  <2>1. OpToRel(<, Nat) = R
    BY Zenon DEF OpToRel
  <2> QED
    BY <2>1, NatLessThanWellFounded, Zenon
<1>2. ASSUME T # {} PROVE FALSE
  <2>1. PICK x \in T : \A y \in T : <<y, x>> \notin R
    <3> HIDE DEF R
    <3> QED
      BY <1>1, <1>2, WFMin
  <2>2. x \in Nat /\ x # 0 /\ x \notin S
    OBVIOUS
  <2>3. x - 1 \in Nat /\ x - 1 < x
    BY <2>2
  <2>4. <<x - 1, x>> \in R
    BY <2>2, <2>3
  <2>5. x - 1 \in S
    BY <2>1, <2>3, <2>4
  <2>6. (x - 1) + 1 = x
    BY <2>2
  <2>7. x \in S
    BY <2>5, <2>6
  <2> QED
    BY <2>2, <2>7
<1> QED
  BY <1>2

\* The states of the server as it takes the mutations of q one after the other.
Takes(g, q, n) ==
  \A k \in 0..n : g[k] = IF k = 0 THEN server ELSE took(g[k - 1], q[k].op, q[k].target)

LEMMA TakesExist ==
  ASSUME NEW q \in Seq(SentMutation), server \in ServerState
  PROVE  \E g \in [0..Len(q) -> ServerState] : Takes(g, q, Len(q))
<1> DEFINE S == {n \in Nat : n <= Len(q) => \E g \in [0..n -> ServerState] : Takes(g, q, n)}
<1>1. 0 \in S
  <2> DEFINE g == [k \in 0..0 |-> server]
  <2>1. g \in [0..0 -> ServerState] /\ Takes(g, q, 0)
    BY DEF Takes
  <2> QED
    BY <2>1
<1>2. ASSUME NEW n \in S PROVE n + 1 \in S
  <2> SUFFICES ASSUME n + 1 <= Len(q)
               PROVE  \E g \in [0..(n + 1) -> ServerState] : Takes(g, q, n + 1)
    OBVIOUS
  <2>1. n \in Nat /\ Len(q) \in Nat /\ n <= Len(q)
    OBVIOUS
  <2>2. PICK g \in [0..n -> ServerState] : Takes(g, q, n)
    BY <2>1
  <2>3. q[n + 1] \in SentMutation
    BY <2>1
  <2> DEFINE s == took(g[n], q[n + 1].op, q[n + 1].target)
             f == [k \in 0..(n + 1) |-> IF k = n + 1 THEN s ELSE g[k]]
  <2>4. s \in ServerState
    BY <2>1, <2>3, SentAsks, Took
  <2>5. f \in [0..(n + 1) -> ServerState]
    <3> HIDE DEF s
    <3> QED
      BY <2>1, <2>4
  <2>6. ASSUME NEW k \in 0..(n + 1)
        PROVE  f[k] = IF k = 0 THEN server ELSE took(f[k - 1], q[k].op, q[k].target)
    <3>1. CASE k = n + 1
      <4>1. k # 0 /\ k - 1 = n /\ n \in 0..(n + 1) /\ n # n + 1
        BY <2>1, <3>1
      <4>2. f[k] = s /\ f[k - 1] = g[n]
        BY <3>1, <4>1
      <4> QED
        BY <3>1, <4>1, <4>2
    <3>2. CASE k # n + 1
      <4>1. k \in 0..n /\ k \in Nat
        BY <2>1, <3>2
      <4>2. f[k] = g[k]
        BY <3>2
      <4>3. g[k] = IF k = 0 THEN server ELSE took(g[k - 1], q[k].op, q[k].target)
        BY <2>2, <4>1 DEF Takes
      <4>4. k # 0 => f[k - 1] = g[k - 1]
        BY <2>1, <4>1
      <4> QED
        BY <4>2, <4>3, <4>4
    <3> QED
      BY <3>1, <3>2
  <2>7. Takes(f, q, n + 1)
    <3> HIDE DEF f
    <3> QED
      BY <2>6 DEF Takes
  <2> QED
    BY <2>5, <2>7
<1>3. S = Nat
  <2> HIDE DEF S
  <2>1. S \in SUBSET Nat
    BY DEF S
  <2> QED
    BY <1>1, <1>2, <2>1, SetInduction
<1>4. Len(q) \in S
  BY <1>3
<1> QED
  BY <1>4

LEMMA TakesTyped ==
  ASSUME NEW q \in Seq(SentMutation), server \in ServerState, NEW g, Takes(g, q, Len(q)),
         NEW k \in 0..Len(q)
  PROVE  g[k] \in ServerState
<1> DEFINE S == {n \in Nat : n <= Len(q) => g[n] \in ServerState}
<1>1. 0 \in S
  BY DEF Takes
<1>2. ASSUME NEW n \in S PROVE n + 1 \in S
  <2> SUFFICES ASSUME n + 1 <= Len(q) PROVE g[n + 1] \in ServerState
    OBVIOUS
  <2>1. n \in Nat /\ n <= Len(q) /\ n + 1 \in 0..Len(q) /\ n + 1 # 0 /\ (n + 1) - 1 = n
    OBVIOUS
  <2>2. g[n] \in ServerState /\ q[n + 1] \in SentMutation
    BY <2>1
  <2>3. g[n + 1] = took(g[n], q[n + 1].op, q[n + 1].target)
    BY <2>1 DEF Takes
  <2> QED
    BY <2>2, <2>3, SentAsks, Took
<1>3. S = Nat
  <2> HIDE DEF S
  <2>1. S \in SUBSET Nat
    BY DEF S
  <2> QED
    BY <1>1, <1>2, <2>1, SetInduction
<1> QED
  BY <1>3

LEMMA TakenFirstTakes ==
  ASSUME server \in ServerState, api.ops \in Seq(SentMutation)
  PROVE  Takes(takenFirst, api.ops, Len(api.ops))
<1> DEFINE D == 0..Len(api.ops)
           F(f) == [i \in D |-> IF i = 0 THEN server
                                ELSE took(f[i - 1], api.ops[i].op, api.ops[i].target)]
<1>1. PICK g \in [D -> ServerState] : Takes(g, api.ops, Len(api.ops))
  BY TakesExist
<1>2. g = F(g)
  BY <1>1 DEF Takes
<1>3. takenFirst = F(takenFirst)
  <2>1. takenFirst = CHOOSE f : f = F(f)
    BY DEF takenFirst
  <2> QED
    BY <1>2, <2>1
<1>4. ASSUME NEW i \in D
      PROVE  takenFirst[i] = IF i = 0 THEN server
                             ELSE took(takenFirst[i - 1], api.ops[i].op, api.ops[i].target)
  <2> HIDE DEF takenFirst
  <2> QED
    BY <1>3
<1> QED
  BY <1>4 DEF Takes

LEMMA TakenFirst ==
  ASSUME server \in ServerState, api.ops \in Seq(SentMutation), NEW k \in 0..Len(api.ops)
  PROVE  takenFirst[k] \in ServerState
<1>1. Takes(takenFirst, api.ops, Len(api.ops))
  BY TakenFirstTakes
<1> QED
  BY <1>1, TakesTyped

-----------------------------------------------------------------------------
(* The steps.                                                              *)

\* Between two events the window is sound, and the server is what it may be.
IInv ==
  /\ Sound(w) /\ server \in ServerState /\ since \subseteq {"list", "facts"}

LEMMA WindowStep ==
  ASSUME IInv, Press \/ Answer \/ pollTimer \/ Disconnect \/ Connect
  PROVE  Sound(w)'
<1>1. CASE Press
  BY <1>1, QuietEvent, LoginEvent, TurnEvent, OrderEvent, HistoryPageEvent, ChargerEvent,
     MutationEvent, RetryEvent DEF IInv, Press
<1>2. CASE Answer
  BY <1>2, QuietEvent, AnswerEvent, FactsEvent, FailureEvent, ExpiryEvent, OutcomeEvent,
     TimeoutEvent DEF IInv, Answer
<1>3. CASE pollTimer \/ Disconnect \/ Connect
  BY <1>3, QuietEvent, LinkEvent DEF IInv
<1> QED
  BY <1>1, <1>2, <1>3

LEMMA PressLeavesServer ==
  ASSUME Press \/ pollTimer
  PROVE  server' = server /\ \E x : Becomes(x, {})
<1>1. CASE pollTimer
  BY <1>1 DEF pollTimer, Does
<1>2. CASE loginByPhone \/ NearbyButton \/ CurrentOrderButton \/ HistoryButton \/ ProfileButton
             \/ HistoryPageButton \/ AuthorityRetryButton
  BY <1>2 DEF loginByPhone, NearbyButton, CurrentOrderButton, HistoryButton, ProfileButton,
              HistoryPageButton, AuthorityRetryButton, Does
<1>3. CASE stationSelected \/ navigationRequested \/ navigationBack \/ SearchButton
             \/ NearbyRetryButton \/ MutationButton \/ RetryButton
  BY <1>3 DEF stationSelected, navigationRequested, navigationBack, SearchButton,
              NearbyRetryButton, MutationButton, RetryButton, Does
<1>4. CASE BackButton
  <2>1. \E x : Does(x)
    BY <1>4 DEF BackButton
  <2> QED
    BY <2>1 DEF Does
<1>5. CASE chargerSelected
  <2>1. \E x : Does(x)
    BY <1>5 DEF chargerSelected
  <2> QED
    BY <2>1 DEF Does
<1> QED
  BY <1>1, <1>2, <1>3, <1>4, <1>5 DEF Press

\* An answer to a read may be one of those that a settled order waits for.
LEMMA AnswerLeavesServer ==
  ASSUME Answer
  PROVE  /\ \E x : \E slots \in SUBSET {"list", "facts"} : Becomes(x, slots)
         /\ server' = server \/ handleMutation
<1>1. \A x : Does(x) => server' = server /\ Becomes(x, {})
  BY DEF Does
<1>2. CASE handleLogin \/ handleCurrent \/ handleDetail \/ handleHistory \/ handleFailure
             \/ MutationTimeout \/ geocodeFinished
  <2>1. \E x : Does(x)
    BY <1>2 DEF handleLogin, handleCurrent, handleDetail, handleHistory, handleFailure,
                MutationTimeout, geocodeFinished
  <2> QED
    BY <1>1, <2>1
<1>3. CASE handleExpiry
  <2>1. \E x : Does(x)
    BY <1>3 DEF handleExpiry
  <2> QED
    BY <1>1, <2>1
<1>4. CASE handleList
  BY <1>4 DEF handleList
<1>5. CASE handleFacts
  BY <1>5 DEF handleFacts
<1>6. CASE handleMutation
  <2>1. \E x : Becomes(x, {})
    BY <1>1, <1>6 DEF handleMutation
  <2> QED
    BY <1>6, <2>1
<1> QED
  BY <1>2, <1>3, <1>4, <1>5, <1>6 DEF Answer

LEMMA ServerStep ==
  ASSUME IInv, Next
  PROVE  (server \in ServerState)'
<1>1. server \in ServerState /\ api.ops \in Seq(SentMutation)
  <2>1. api \in ApiState(Slots(w))
    BY SoundKnown, Parts, ShellOf DEF IInv
  <2> QED
    BY <2>1 DEF IInv, ApiState
<1>2. CASE server' = server
  BY <1>1, <1>2
<1>3. CASE handleMutation
  <2> DEFINE m == api.ops[1]
  <2>1. m \in SentMutation
    BY <1>3, MutationDueReads, NearerSound, ShellOf DEF IInv, handleMutation
  <2>2. server' = server \/ server' = took(server, m.op, m.target)
    BY <1>3 DEF handleMutation, Does
  <2> QED
    BY <1>1, <2>1, <2>2, SentAsks, Took
<1>4. CASE Disconnect
  BY <1>1, <1>4, TakenFirst DEF Disconnect
<1>5. CASE Elsewhere
  <2> DEFINE over == [server EXCEPT !.order = None]
             onward == {took(server, op, server.order.id) : op \in Mutation \ {"reserve"}}
  <2>1. PICK c \in Charger :
          \E s \in {took(server, "reserve", c), took(over, "reserve", c), over}
                   \cup (IF server.order = None THEN {} ELSE onward) :
            s # server /\ server' = [s EXCEPT !.elsewhere = @ + 1]
    BY <1>5 DEF Elsewhere
  <2>2. PICK s \in {took(server, "reserve", c), took(over, "reserve", c), over} \cup onward :
          server' = [s EXCEPT !.elsewhere = @ + 1]
    BY <2>1
  <2>3. over \in ServerState
    BY <1>1 DEF ServerState, Maybe
  <2>4. s \in ServerState
    BY <1>1, <2>2, <2>3, Took DEF Asks, Mutation
  <2>5. s.elsewhere = server.elsewhere
    <3>1. over.elsewhere = server.elsewhere
      BY <1>1 DEF ServerState
    <3>2. took(server, "reserve", c).elsewhere = server.elsewhere
      BY <1>1, TookElsewhere
    <3>3. took(over, "reserve", c).elsewhere = server.elsewhere
      BY <2>3, <3>1, TookElsewhere
    <3>4. CASE s \in onward
      <4>1. PICK op \in Mutation : s = took(server, op, server.order.id)
        BY <3>4
      <4> QED
        BY <1>1, <4>1, TookElsewhere
    <3>5. CASE s \in {took(server, "reserve", c), took(over, "reserve", c), over}
      BY <3>1, <3>2, <3>3, <3>5, Zenon
    <3>6. s \in onward \/ s \in {took(server, "reserve", c), took(over, "reserve", c), over}
      BY <2>2, Zenon
    <3> QED
      BY <3>4, <3>5, <3>6, Zenon
  <2>6. s.elsewhere + 1 \in 0..MaxElsewhere
    <3>1. server.elsewhere < MaxElsewhere
      BY <1>5 DEF Elsewhere
    <3>2. server.elsewhere \in 0..MaxElsewhere /\ MaxElsewhere \in Nat
      BY <1>1, ServerOrder, BoundAssumption
    <3>3. server.elsewhere + 1 \in 0..MaxElsewhere
      BY <3>1, <3>2
    <3> QED
      BY <2>5, <3>3
  <2> QED
    BY <2>2, <2>4, <2>6 DEF ServerState
<1>6. CASE Connect
  BY <1>2, <1>6 DEF Connect, Does
<1> QED
  BY <1>2, <1>3, <1>4, <1>5, <1>6, PressLeavesServer, AnswerLeavesServer DEF Next

LEMMA SinceStep ==
  ASSUME IInv, Next
  PROVE  (since \subseteq {"list", "facts"})'
<1>1. ASSUME NEW x, NEW slots \in SUBSET {"list", "facts"}, Becomes(x, slots)
      PROVE  since' \subseteq {"list", "facts"}
  BY <1>1 DEF IInv, Becomes
<1>2. CASE Disconnect \/ Connect
  <2>1. \E x : Becomes(x, {})
    BY <1>2 DEF Disconnect, Connect, Does
  <2> QED
    BY <1>1, <2>1
<1>3. CASE Elsewhere
  BY <1>3 DEF IInv, Elsewhere
<1> QED
  BY <1>1, <1>2, <1>3, PressLeavesServer, AnswerLeavesServer DEF Next

LEMMA SoundInit ==
  ASSUME Init
  PROVE  IInv
<1> DEFINE a == [up |-> FALSE, user |-> FALSE, reads |-> <<>>, replayed |-> {}, ops |-> <<>>,
                 details |-> [d \in DetailId |-> "over"]]
<1>1. api = a /\ a \in ApiState({}) /\ DOMAIN a.reads = {} /\ a.ops = <<>>
      /\ a.user = FALSE /\ a.up = FALSE
  BY NoReads DEF Init, ApiState
<1> HIDE DEF a
<1>2. /\ charge \in ChargeState /\ ~charge.active /\ charge.order = None
      /\ charge.selection = None /\ charge.read = None /\ charge.mutation = None
      /\ charge.facts = None /\ charge.selGen = 0 /\ ~charge.reconcile /\ ~charge.factsFailed
      /\ ~charge.exit /\ ~charge.exitFailed /\ charge.reported = FALSE
      /\ charge.buttons = {}
  BY NoneFits, Small DEF Init, ChargeState
<1>3. nearby \in NearbyState /\ nearby.list = None
  BY NoneFits DEF Init, NearbyState
<1>4. history \in HistoryState /\ history.pending = None /\ ~history.active
  BY NoneFits DEF Init, HistoryState
<1>5. /\ main \in MainState /\ main.page = "login" /\ main.remembered = None /\ ~main.guard
      /\ main.reconnect = None /\ ~main.required /\ ~main.deferred /\ main.blocked = FALSE
      /\ ~main.navShown
  BY NoneFits DEF Init, MainState
<1>6. w \in Shell
  BY <1>1, <1>2, <1>3, <1>4, <1>5, Built DEF w
<1>7. Slots(w) = {} /\ w.api.ops = <<>> /\ w.api.user = FALSE
  BY <1>1, ShellOf DEF Slots
<1>8. ~chargeFlowBlocked(charge)
  BY <1>2 DEF chargeFlowBlocked
<1>9. Known(w) /\ Told(w) /\ Listed(w) /\ Withdrawn(w)
  BY <1>2, <1>3, <1>4, <1>5, <1>7, ShellOf DEF Known, Paged, Told, Listed, Withdrawn
<1>10. Reported(w)
  BY <1>2, <1>8, BlockedBoolean, ShellOf DEF Reported
<1>11. Rendered(w)
  BY <1>2, ShellOf DEF Rendered, Usable
<1>12. Seated(w)
  BY <1>2, <1>4, <1>5, <1>7, ShellOf DEF Seated
<1>13. Awaited(w)
  BY <1>2, <1>7, ShellOf DEF Awaited
<1>14. server \in ServerState /\ since \subseteq {"list", "facts"}
  <2>1. PICK order \in {None} \cup [id : {1}, charger : Charger, status : Active] :
          server = [order |-> order, made |-> IF order = None THEN 0 ELSE 1, elsewhere |-> 0]
    BY DEF Init
  <2>2. 1 \in 1..MaxOrder /\ 0 \in 0..MaxOrder /\ 1 \in 0..MaxOrder /\ 0 \in 0..MaxElsewhere
    BY BoundAssumption
  <2>3. order \in Maybe([id : 1..MaxOrder, charger : Charger, status : Active])
    BY <2>2 DEF Maybe
  <2>4. server \in ServerState
    BY <2>1, <2>2, <2>3 DEF ServerState
  <2> QED
    BY <2>4 DEF Init
<1> QED
  BY <1>6, <1>9, <1>10, <1>11, <1>12, <1>13, <1>14 DEF IInv, Sound, Whole

LEMMA IInvStep ==
  ASSUME IInv, [Next]_vars
  PROVE  IInv'
<1>1. CASE UNCHANGED vars
  <2>1. w' = w /\ server' = server /\ since' = since
    BY <1>1 DEF vars, w
  <2>2. Sound(w') /\ server' \in ServerState /\ since' \subseteq {"list", "facts"}
    BY <2>1 DEF IInv
  <2> QED
    BY <2>2 DEF IInv
<1>2. CASE Next
  <2>1. CASE Elsewhere
    <3>1. w' = w
      BY <2>1 DEF Elsewhere, w
    <3>2. Sound(w')
      BY <3>1 DEF IInv
    <3> QED
      BY <1>2, <3>2, ServerStep, SinceStep DEF IInv
  <2>2. CASE ~Elsewhere
    <3>1. Press \/ Answer \/ pollTimer \/ Disconnect \/ Connect
      BY <1>2, <2>2 DEF Next
    <3>2. Sound(w)'
      BY <3>1, WindowStep
    <3> QED
      BY <1>2, <3>2, ServerStep, SinceStep DEF IInv
  <2> QED
    BY <2>1, <2>2
<1> QED
  BY <1>1, <1>2

\* The window is sound between any two events: the inductive invariant that the
\* properties below follow from.
THEOREM Invariant == Spec => []IInv
<1>1. Init => IInv
  BY SoundInit
<1>2. IInv /\ [Next]_vars => IInv'
  BY IInvStep
<1> QED
  BY <1>1, <1>2, PTL DEF Spec

-----------------------------------------------------------------------------
(* What follows.                                                           *)

\* Every part of the window and of the server has its type, for any chargers, any
\* number of orders, of moves of other terminals and of pages of the history.
THEOREM TypeCorrect == Spec => []TypeOK
<1>1. ASSUME IInv PROVE TypeOK
  <2>1. /\ DOMAIN api.reads \subseteq Read /\ api \in ApiState(DOMAIN api.reads)
        /\ charge \in ChargeState /\ nearby \in NearbyState /\ history \in HistoryState
        /\ main \in MainState
    BY <1>1, SoundKnown, Parts, ShellOf DEF IInv, Slots
  <2> QED
    BY <1>1, <2>1 DEF IInv, TypeOK
<1> QED
  BY <1>1, Invariant, PTL

\* No page waits for a read that nobody will answer, and no read with one owner is
\* under way that its owner has forgotten: MainWindow's guard and its read after a
\* connection, the page of an order with its order, its facts and its mutation, the
\* list of the stations and the history, through every cancel, answer, failure, loss
\* of the connection and end of the session.  Requests for the chargers of a station
\* are left out: NearbyPage leaves some of those behind.
THEOREM ReadsOwned == Spec => []NoOrphanRead
<1>1. ASSUME IInv PROVE NoOrphanRead
  <2>1. Known(w) /\ Listed(w) /\ Seated(w) /\ Awaited(w)
    BY <1>1 DEF IInv, Sound, Whole
  <2>2. /\ main.guard <=> "guard" \in DOMAIN api.reads
        /\ main.reconnect # None <=> "reconnect" \in DOMAIN api.reads
        /\ history.active <=> main.page = "history"
    BY <2>1, ShellOf DEF Seated, Slots
  <2>3. /\ charge.read # None <=> "page" \in DOMAIN api.reads
        /\ charge.facts # None <=> "facts" \in DOMAIN api.reads
        /\ history.pending # None <=> "history" \in DOMAIN api.reads
    BY <2>1, ShellOf DEF Known, Slots
  <2>4. nearby.list # None <=> "list" \in DOMAIN api.reads
    BY <2>1, ShellOf DEF Listed, Slots
  <2>5. charge.mutation # None <=> \E i \in DOMAIN api.ops : api.ops[i].live
    BY <2>1, ShellOf DEF Awaited
  <2> QED
    BY <2>2, <2>3, <2>4, <2>5 DEF NoOrphanRead
<1> QED
  BY <1>1, Invariant, PTL

\* MainWindow disables its navigation while and only while ChargePage has a mutation,
\* a reconciliation, facts or a refresh that it must wait for: no handler changes one
\* of them without chargeFlowBlockedChanged.
THEOREM BlockKnown == Spec => []BlockReported
<1>1. ASSUME IInv PROVE BlockReported
  <2>1. Told(w) /\ Reported(w)
    BY <1>1 DEF IInv, Sound, Whole
  <2> QED
    BY <2>1, ShellOf DEF Told, Reported, BlockReported
<1> QED
  BY <1>1, Invariant, PTL

\* The page that asked for a mutation is on show, for the same order, until the
\* mutation has an outcome or the session has ended.
THEOREM MutationOnItsPage == Spec => []MutationKeepsPage
<1>1. ASSUME IInv PROVE MutationKeepsPage
  <2>1. Seated(w) /\ Awaited(w)
    BY <1>1 DEF IInv, Sound
  <2>2. charge.mutation # None => charge.active /\ charge.mutation.fits
    BY <2>1, ShellOf DEF Awaited
  <2>3. charge.active <=> main.page = "charge"
    BY <2>1, ShellOf DEF Seated
  <2> QED
    BY <2>2, <2>3 DEF MutationKeepsPage
<1> QED
  BY <1>1, Invariant, PTL
=============================================================================
