----------------------------- MODULE RecoveryProofs -----------------------------
(***************************************************************************)
(* What the window recovers from, for any chargers and any number of       *)
(* orders: an answer about the order that was given up or went astray,     *)
(* while no other terminal acts, and a search whose address or list never  *)
(* came.                                                                   *)
(***************************************************************************)
EXTENDS OrderProofs

(***************************************************************************)
(* The order of the server: what the page of an order offers acts on the   *)
(* order that the server has, while no other terminal acts.                *)
(***************************************************************************)
\* The page is to read its order again, and waits for nothing else.
Owed(c) == c.active /\ c.reconcile /\ ~c.exit /\ c.facts = None /\ c.mutation = None

\* The window knows the order of the server, or is still to read it.
Informed(v, order) ==
  v.main.authority = order \/ Owed(v.charge) \/ v.main.page = "login"

\* While a mutation is awaited the order is still the one the window knows; when its
\* answer was given up, the page is to read the order after it.
Knows(v, order) ==
  /\ Informed(v, order)
  /\ v.charge.mutation # None => ~v.charge.mutation.superseded /\ v.main.authority = order
  /\ v.api.ops # <<>> /\ v.main.page # "login" => v.charge.mutation # None \/ Owed(v.charge)

LEMMA KnowsFrame ==
  ASSUME NEW v, NEW u, NEW order, Frame(v, u), Knows(v, order),
         Owed(v.charge) => Owed(u.charge)
  PROVE  Knows(u, order)
BY DEF Knows, Informed, Frame

LEMMA OwedGentle ==
  ASSUME NEW v, NEW u, Frame(v, u), Gentle(v, u), Owed(v.charge)
  PROVE  Owed(u.charge)
<1>1. Held(v.charge) BY DEF Owed, Held, chargeFlowBlocked
<1> QED BY <1>1 DEF Owed, Gentle, Fixed, Frame

LEMMA KnowsGentle ==
  ASSUME NEW v, NEW u, NEW order, Frame(v, u), Gentle(v, u), Knows(v, order)
  PROVE  Knows(u, order)
BY OwedGentle, KnowsFrame

LEMMA KnowsEased ==
  ASSUME NEW v, NEW u, NEW order, Eased(v, u), Knows(v, order)
  PROVE  Knows(u, order)
BY KnowsGentle DEF Eased, Keeps, Within

LEMMA KnowsShown ==
  ASSUME NEW v \in Shell, Known(v), Told(v), NEW order, Knows(v, order)
  PROVE  Knows(Shown(v), order)
<1> DEFINE u == Shown(v)
<1>1. Settles(v, u) /\ Gentle(v, u) BY ShownSettles, ShownGentle
<1> HIDE DEF u
<1>2. Frame(v, u) BY <1>1 DEF Settles, Moves, Within
<1>3. Knows(u, order) BY <1>1, <1>2, KnowsGentle
<1> QED BY <1>3 DEF u

\* What the page and the window know is the same, and so are the mutations.
LEMMA KnowsSame ==
  ASSUME NEW v, NEW u, NEW order, Knows(v, order), u.charge = v.charge,
         u.main.authority = v.main.authority, u.main.page = v.main.page,
         u.api.ops = v.api.ops
  PROVE  Knows(u, order)
BY DEF Knows, Informed

LEMMA KnowsIdle ==
  ASSUME NEW u, Sound(u), u.api.ops = <<>>, NEW order, Informed(u, order)
  PROVE  Knows(u, order)
<1>1. DOMAIN u.api.ops = {} OBVIOUS
<1>2. u.charge.mutation = None BY <1>1 DEF Sound, Awaited
<1> QED BY <1>2 DEF Knows

LEMMA KnowsLogin ==
  ASSUME NEW u, Sound(u), u.main.page = "login", NEW order
  PROVE  Knows(u, order)
<1>1. u.charge.mutation = None BY DEF Sound, Seated, Awaited
<1> QED BY <1>1 DEF Knows, Informed

LEMMA KnowsOwed ==
  ASSUME NEW u, Owed(u.charge), NEW order
  PROVE  Knows(u, order)
BY DEF Knows, Informed, Owed

LEMMA BecomesKnows ==
  ASSUME NEW x \in Shell, NEW slots, Becomes(x, slots), Knows(x, server'.order)
  PROVE  Knows(w, server.order)'
<1>1. x = [api |-> x.api, charge |-> x.charge, nearby |-> x.nearby, history |-> x.history,
           main |-> x.main]
  BY DEF Shell
<1>2. w' = x BY <1>1 DEF w, Becomes
<1> QED BY <1>2

\* The order of the server stays the same.
LEMMA DoesKnows ==
  ASSUME NEW x \in Shell, Does(x), Knows(x, server.order)
  PROVE  Knows(w, server.order)'
BY BecomesKnows DEF Does

-----------------------------------------------------------------------------
(* What was read is answered.                                              *)

\* The current order is read: it is the one of the server, or the page was to wait for
\* a mutation first.
LEMMA CurrentKnows ==
  ASSUME NEW v, Accords(v), Careful(v), NEW slot \in CurrentRead, slot \in Slots(v),
         v.api.reads[slot] = 0,
         NEW order \in Maybe(Order), order = Current(order), Knows(v, order)
  PROVE  LET u == currentOrderLoaded(cancelSafeReads(v, {slot}), slot, order) IN
         u \in Shell /\ Knows(u, order)
<1> DEFINE u == currentOrderLoaded(cancelSafeReads(v, {slot}), slot, order)
<1>1. Accords(u) /\ Tells(v, u, slot, order) BY CurrentLoadedAgreed
<1>2. v \in Shell /\ Known(v) /\ Told(v) /\ Sound(v) /\ Agreed(v) /\ Alone(v)
  BY SoundKnown, SoundAlone DEF Accords
<1>3. u.api.ops = v.api.ops BY <1>2, CurrentLoaded DEF Leads
<1>4. PageAnswered(v).charge = [v.charge EXCEPT !.read = None] /\ PageAnswered(v).main = v.main
  BY <1>2, PageReadOver
<1> HIDE DEF u
<1>5. u \in Shell /\ Sound(u) BY <1>1, SoundKnown DEF Accords
<1>6. v.charge \in ChargeState BY <1>2, Parts
<1>7. ASSUME slot = "page", u = PageAnswered(v)
      PROVE  /\ u.main = v.main /\ u.charge.mutation = v.charge.mutation
             /\ Owed(v.charge) => Owed(u.charge)
  BY <1>4, <1>6, <1>7 DEF ChargeState, Owed
<1>8. ASSUME v.api.ops = <<>> PROVE Knows(u, order)
  <2>1. ASSUME slot = "page" PROVE Informed(u, order)
    <3>1. u = PageAnswered(v) => Informed(u, order) BY <1>7, <2>1 DEF Knows, Informed
    <3>2. u.main.authority = order => Informed(u, order) BY DEF Informed
    <3> QED BY <1>1, <2>1, <3>1, <3>2 DEF Tells, PageTold
  <2>2. ASSUME slot = "guard" PROVE Informed(u, order) BY <1>1, <2>2 DEF Tells, Informed
  <2>3. ASSUME slot = "reconnect" PROVE Informed(u, order)
    <3>1. ~v.charge.active BY <1>2, <2>3 DEF Alone
    <3>2. u.main.authority \in {order, v.main.authority} /\ u.main.page = v.main.page
      BY <1>1, <2>3 DEF Tells
    <3> QED BY <3>1, <3>2 DEF Knows, Informed, Owed
  <2>4. Informed(u, order) BY <2>1, <2>2, <2>3 DEF CurrentRead
  <2> QED BY <1>3, <1>5, <1>8, <2>4, KnowsIdle
<1>9. ASSUME v.api.ops # <<>> PROVE Knows(u, order)
  <2>1. slot = "page" BY <1>2, <1>9, Busy DEF CurrentRead
  <2>2. v.charge.active /\ v.charge.read # None BY <1>2, <2>1 DEF Known, Paged
  <2>3. v.charge.mutation # None /\ ~v.charge.mutation.superseded
    BY <1>9, <2>1, <2>2 DEF Careful, Late
  <2>4. v.main.authority = order /\ v.main.authority = Current(v.charge.order)
    BY <1>2, <2>2, <2>3 DEF Knows, Agreed
  <2>5. order # None => v.charge.order = order BY <2>4, NoneAssumption DEF Current
  <2>6. u.main.authority = order /\ u.charge.mutation = v.charge.mutation
    <3>1. u = PageAnswered(v) => u.main = v.main /\ u.charge.mutation = v.charge.mutation
      BY <1>7, <2>1
    <3> QED BY <1>1, <2>1, <2>4, <2>5, <3>1 DEF Tells, PageTold
  <2> QED BY <1>5, <2>3, <2>6 DEF Knows, Informed
<1> QED BY <1>5, <1>8, <1>9 DEF u

LEMMA QuietKnows ==
  ASSUME Sound(w), Knows(w, server.order),
         stationSelected \/ SearchButton \/ NearbyRetryButton \/ geocodeFinished
           \/ RetryButton \/ pollTimer
  PROVE  Knows(w, server.order)'
<1>1. w \in Shell /\ Known(w) /\ Told(w) BY SoundKnown
<1>2. ASSUME NEW x, Eased(w, x), Does(x) PROVE Knows(w, server.order)'
  BY <1>2, EasedShell, KnowsEased, DoesKnows
<1>3. CASE stationSelected BY <1>1, <1>2, <1>3, EasedRequest DEF stationSelected
<1>4. CASE SearchButton BY <1>1, <1>2, <1>4, EasedSearch DEF SearchButton
<1>5. CASE NearbyRetryButton BY <1>1, <1>2, <1>5, EasedReconnect DEF NearbyRetryButton
<1>6. CASE geocodeFinished BY <1>1, <1>2, <1>6, EasedGeocode DEF geocodeFinished
<1>7. CASE RetryButton
  <2> DEFINE u == requestReconciliation(w)
  <2>1. Keeps(w, u) /\ (u = w \/ Reconciling(w, u))
    BY <1>1, RequestReconciliation, ReconciliationDone
  <2>2. Does(u) BY <1>7 DEF RetryButton
  <2> HIDE DEF u
  <2>3. Frame(w, u) /\ u \in Shell BY <2>1 DEF Keeps, Within
  <2>4. Owed(w.charge) => Owed(u.charge) BY <2>1, <2>3 DEF Owed, Reconciling, Frame
  <2> QED BY <2>2, <2>3, <2>4, KnowsFrame, DoesKnows
<1>8. CASE pollTimer
  <2> DEFINE u == requestPoll(w)
             z == loadCurrentOrder(w, "poll")
  <2>1. Keeps(w, u) BY <1>1, RequestPoll
  <2>2. Owed(w.charge) => Owed(u.charge)
    <3>1. u = w \/ u = z BY DEF requestPoll
    <3>2. z.charge = [w.charge EXCEPT !.read = z.charge.read] BY <1>1, LoadedRecord
    <3>3. w.charge \in ChargeState BY <1>1, Parts
    <3> HIDE DEF z, u
    <3> QED BY <3>1, <3>2, <3>3 DEF Owed, ChargeState
  <2>3. Does(u) BY <1>8 DEF pollTimer
  <2> HIDE DEF u
  <2> QED BY <2>1, <2>2, <2>3, KnowsFrame, DoesKnows DEF Keeps, Within
<1> QED BY <1>3, <1>4, <1>5, <1>6, <1>7, <1>8

LEMMA AnswerKnows ==
  ASSUME Accords(w), Careful(w), server \in ServerState, Knows(w, server.order),
         server' = server,
         handleCurrent \/ handleList \/ handleDetail \/ handleHistory \/ handleFacts
  PROVE  Knows(w, server.order)'
<1>1. w \in Shell /\ Known(w) /\ Told(w) /\ Sound(w) /\ w.api = api
  BY SoundKnown, ShellOf DEF Accords
<1>2. ASSUME NEW x \in Shell, NEW slots, Becomes(x, slots), Knows(x, server.order)
      PROVE  Knows(w, server.order)'
  BY <1>2, BecomesKnows
<1>3. ASSUME NEW x, NEW slots, Becomes(x, slots), Eased(cancelSafeReads(w, {"list"}), x)
      PROVE  Knows(w, server.order)'
  <2> DEFINE y == cancelSafeReads(w, {"list"})
  <2>1. y.charge = w.charge /\ y.main = w.main /\ y.api.ops = w.api.ops BY <1>1, SlotFree
  <2> HIDE DEF y
  <2>2. Knows(y, server.order) BY <2>1, KnowsSame
  <2>3. Eased(y, x) BY <1>3 DEF y
  <2> QED BY <1>2, <1>3, <2>2, <2>3, EasedShell, KnowsEased
<1>4. CASE handleCurrent
  <2>1. PICK slot \in CurrentRead :
          Due(slot) /\ Does(currentOrderLoaded(answered(slot), slot, server.order))
    BY <1>4 DEF handleCurrent
  <2>2. slot \in Slots(w) /\ w.api.reads[slot] = 0 BY <1>1, <2>1, DueSlot DEF Due
  <2>3. server.order \in Maybe(Order) /\ server.order = Current(server.order)
    BY ServerOrder, CurrentServer
  <2> DEFINE u == currentOrderLoaded(cancelSafeReads(w, {slot}), slot, server.order)
  <2>4. u \in Shell /\ Knows(u, server.order) BY <2>2, <2>3, CurrentKnows
  <2>5. Does(u) BY <2>1 DEF answered
  <2> HIDE DEF u
  <2> QED BY <2>4, <2>5, DoesKnows
<1>5. CASE handleList
  <2>1. PICK has \in BOOLEAN : Becomes(nearbyStationsLoaded(answered("list"), has), {"list"})
    BY <1>5 DEF handleList
  <2>2. Eased(answered("list"), nearbyStationsLoaded(answered("list"), has))
    BY <1>1, ListSlot, EasedLoaded DEF answered
  <2> QED BY <1>3, <2>1, <2>2 DEF answered
<1>6. CASE handleDetail
  <2>1. PICK d \in DetailId : Does(stationDetailLoaded(cancelDetails(w, {d}), d))
    BY <1>6 DEF handleDetail
  <2> DEFINE u == stationDetailLoaded(cancelDetails(w, {d}), d)
  <2>2. Eased(w, u) BY <1>1, EasedAnswer
  <2>3. Does(u) BY <2>1
  <2> HIDE DEF u
  <2> QED BY <1>1, <2>2, <2>3, EasedShell, KnowsEased, DoesKnows
<1>7. CASE handleHistory
  <2>1. PICK more \in IF history.pending < LastPage THEN BOOLEAN ELSE {FALSE} :
          Does(orderHistoryLoaded(answered("history"), more))
    BY <1>7 DEF handleHistory
  <2> DEFINE x == cancelSafeReads(w, {"history"})
             u == orderHistoryLoaded(x, more)
  <2>2. more \in BOOLEAN /\ (more => w.history.pending < LastPage) BY <2>1, ShellOf
  <2>3. "history" \in Slots(w) BY <1>7, DueSlot DEF handleHistory
  <2>4. Holds(w, u) BY <1>1, <2>2, <2>3, HistoryAnswered
  <2>5. u.charge = w.charge /\ u.main = w.main
    <3>1. x \in Shell /\ x.charge = w.charge /\ x.main = w.main BY <1>1, SlotFree
    <3> HIDE DEF x
    <3> QED BY <3>1 DEF orderHistoryLoaded, Shell
  <2>6. Does(u) BY <2>1 DEF answered
  <2> HIDE DEF u
  <2>7. Knows(u, server.order) BY <2>4, <2>5, KnowsSame DEF Holds
  <2> QED BY <2>4, <2>6, <2>7, DoesKnows DEF Holds
<1>8. CASE handleFacts
  <2>1. PICK st \in {None} \cup chargerStatus(charge.facts.charger) :
          Becomes(factsLoaded(answered("facts"), st), {"facts"})
    BY <1>8 DEF handleFacts
  <2>2. st \in Maybe(Status) BY <2>1 DEF chargerStatus, Status, Maybe
  <2>3. "facts" \in Slots(w) /\ ~Owed(w.charge)
    BY <1>1, <1>8, DueSlot DEF handleFacts, Known, Owed
  <2> DEFINE u == factsLoaded(cancelSafeReads(w, {"facts"}), st)
  <2>4. Settles(w, u) BY <1>1, <2>2, <2>3, FactsLoaded
  <2>5. Becomes(u, {"facts"}) BY <2>1 DEF answered
  <2> HIDE DEF u
  <2>6. Frame(w, u) /\ u \in Shell BY <2>4 DEF Settles, Moves, Within
  <2> QED BY <1>2, <2>3, <2>5, <2>6, KnowsFrame
<1> QED BY <1>4, <1>5, <1>6, <1>7, <1>8

\* A read of the current order failed.
LEMMA CurrentFailedKnows ==
  ASSUME NEW v, Accords(v), NEW slot \in CurrentRead, slot \in Slots(v),
         NEW order, Knows(v, order)
  PROVE  Knows(currentOrderFailed(cancelSafeReads(v, {slot}), slot), order)
<1> DEFINE x == cancelSafeReads(v, {slot})
           u == currentOrderFailed(x, slot)
<1>1. v \in Shell /\ Known(v) /\ Told(v) /\ Sound(v) BY SoundKnown DEF Accords
<1>2. Leads(v, u) BY <1>1, CurrentFailed
<1>3. x \in Shell /\ x.charge = v.charge /\ x.main = v.main BY <1>1, CancelReads
<1>4. CASE slot = "page"
  <2>1. PICK t \in Shell :
          /\ Turns(v, t) /\ t.charge = [v.charge EXCEPT !.read = None, !.reconcile = TRUE]
          /\ t.main = v.main /\ u = Shown(t)
    <3>1. "page" \in Slots(v) BY <1>4
    <3> QED BY <1>1, <1>4, <3>1, PageFailedDone
  <2> HIDE DEF u
  <2>2. v.charge \in ChargeState BY <1>1, Parts
  <2>3. t.charge.mutation = v.charge.mutation /\ (Owed(v.charge) => Owed(t.charge))
    BY <2>1, <2>2 DEF ChargeState, Owed
  <2>4. Known(t) /\ Told(t) /\ t.api.ops = v.api.ops BY <2>1 DEF Turns
  <2>5. Knows(t, order) BY <2>1, <2>3, <2>4 DEF Knows, Informed
  <2>6. Knows(u, order) BY <2>1, <2>4, <2>5, KnowsShown
  <2> QED BY <2>6 DEF u
<1>5. CASE slot \in {"guard", "reconnect"}
  <2>1. /\ slot = "guard" => v.main.guard
        /\ slot = "reconnect" => v.main.reconnect # None
    BY <1>1 DEF Sound, Seated
  <2>2. x.main \in MainState BY <1>3, Parts
  <2> HIDE DEF x
  <2>3. CASE slot = "guard"
    <3> DEFINE y == clearActiveOrder([x EXCEPT !.main.guard = FALSE], 0, TRUE)
    <3>1. u = [y EXCEPT !.main.navShown = FALSE, !.main.page = "login"]
      BY <1>3, <2>1, <2>3 DEF currentOrderFailed
    <3>2. y.main \in MainState /\ y \in Shell
      <4> DEFINE m == [x.main EXCEPT !.guard = FALSE, !.authority = None, !.stamp = moved(@)]
      <4>1. y = [x EXCEPT !.main = m] BY <1>3, <2>2 DEF clearActiveOrder, Shell, MainState
      <4>2. m \in MainState BY <2>2 DEF MainState, moved, Maybe
      <4> HIDE DEF y, m
      <4> QED BY <1>3, <4>1, <4>2 DEF Shell
    <3> HIDE DEF u, y
    <3>3. u.main.page = "login" BY <3>1, <3>2 DEF Shell, MainState
    <3>4. Knows(u, order) BY <1>2, <3>3, KnowsLogin DEF Leads
    <3> QED BY <3>4 DEF u, x
  <2>4. CASE slot = "reconnect"
    <3>1. u = [x EXCEPT !.main.reconnect = None] BY <1>3, <2>1, <2>4 DEF currentOrderFailed
    <3> HIDE DEF u
    <3>2. u.charge = v.charge /\ u.main.authority = v.main.authority
          /\ u.main.page = v.main.page
      BY <1>3, <2>2, <3>1 DEF Shell, MainState
    <3>3. Knows(u, order) BY <1>2, <3>2, KnowsSame DEF Leads
    <3> QED BY <3>3 DEF u, x
  <2> QED BY <1>5, <2>3, <2>4
<1> QED BY <1>4, <1>5 DEF CurrentRead

LEMMA ReadFailureKnows ==
  ASSUME Accords(w), Knows(w, server.order),
         NEW slot \in DOMAIN api.reads, Does(readFailed(answered(slot), slot))
  PROVE  Knows(w, server.order)'
<1>1. Does(readFailed(answered(slot), slot)) OBVIOUS
<1> DEFINE x == cancelSafeReads(w, {slot})
           u == readFailed(x, slot)
           order == server.order
<1>2. /\ w \in Shell /\ Known(w) /\ Told(w) /\ slot \in Slots(w) /\ slot \in Read /\ Sound(w)
  BY <1>1, SoundKnown, ShellOf, Parts DEF Slots, Accords
<1>3. Leads(w, u) BY <1>2, ReadFailed
<1>4. x.charge = w.charge /\ x.main = w.main /\ x.api.ops = w.api.ops /\ x \in Shell
  BY <1>2, SlotFree
<1>5. Knows(x, order)
  <2> HIDE DEF x
  <2> QED BY <1>4, KnowsSame
<1>6. Knows(u, order)
  <2>1. CASE slot \in CurrentRead
    <3>1. u = currentOrderFailed(x, slot)
      <4> HIDE DEF x
      <4> QED BY <2>1 DEF readFailed, CurrentRead, x
    <3> HIDE DEF u
    <3> QED BY <1>2, <2>1, <3>1, CurrentFailedKnows
  <2>2. CASE slot = "facts"
    <3>1. u = factsFailed(cancelSafeReads(w, {"facts"}))
      BY <2>2 DEF readFailed, CurrentRead
    <3>2. Settles(w, u) BY <1>2, <2>2, <3>1, FactsFailed
    <3> HIDE DEF u
    <3>3. Frame(w, u) BY <3>2 DEF Settles, Moves, Within
    <3>4. ~Owed(w.charge) BY <1>2, <2>2 DEF Known, Owed
    <3> QED BY <3>3, <3>4, KnowsFrame
  <2>3. CASE slot = "list"
    <3>1. u = nearbyStationsFailed(x) BY <2>3 DEF readFailed, CurrentRead
    <3>2. Eased(x, u) BY <1>2, <2>3, <3>1, ListSlot, EasedFailed
    <3> HIDE DEF u, x
    <3> QED BY <1>5, <3>2, KnowsEased
  <2>5. CASE slot = "history"
    <3>1. u = orderHistoryFailed(x) BY <2>5 DEF readFailed, CurrentRead
    <3> HIDE DEF x, u
    <3>2. u.charge = w.charge /\ u.main = w.main BY <1>4, <3>1 DEF orderHistoryFailed, Shell
    <3> QED BY <1>3, <3>2, KnowsSame DEF Leads
  <2>6. CASE slot = "login"
    <3>1. u = x BY <2>6 DEF readFailed, CurrentRead
    <3> HIDE DEF u, x
    <3> QED BY <1>5, <3>1
  <2> QED BY <1>2, <2>1, <2>2, <2>3, <2>5, <2>6 DEF Read, CurrentRead
<1>7. Does(u) BY <1>1 DEF answered
<1> HIDE DEF u
<1> QED BY <1>3, <1>6, <1>7, SoundKnown, DoesKnows DEF Leads

LEMMA FailureKnows ==
  ASSUME Accords(w), Knows(w, server.order), handleFailure
  PROVE  Knows(w, server.order)'
<1>1. CASE \E slot \in DOMAIN api.reads : api.up /\ Does(readFailed(answered(slot), slot))
  BY <1>1, ReadFailureKnows
<1>2. CASE \E d \in DetailId :
             DetailDue(d) /\ Does(stationDetailFailed(cancelDetails(w, {d}), d))
  <2>1. PICK d \in DetailId : Does(stationDetailFailed(cancelDetails(w, {d}), d)) BY <1>2
  <2> DEFINE u == stationDetailFailed(cancelDetails(w, {d}), d)
  <2>2. w \in Shell /\ Eased(w, u) BY SoundKnown, EasedAnswer DEF Accords
  <2>3. Does(u) BY <2>1
  <2> HIDE DEF u
  <2> QED BY <2>2, <2>3, EasedShell, KnowsEased, DoesKnows
<1> QED BY <1>1, <1>2 DEF handleFailure

-----------------------------------------------------------------------------
(* The session and the pages of the window.                                *)

LEMMA LoginKnows ==
  ASSUME Sound(w), loginByPhone \/ handleLogin \/ handleExpiry
  PROVE  Knows(w, server.order)'
<1>1. w \in Shell /\ w.api = api BY SoundKnown, ShellOf
<1>2. ASSUME NEW u, Sound(u), u.main.page = "login", Does(u) PROVE Knows(w, server.order)'
  BY <1>2, SoundKnown, KnowsLogin, DoesKnows
<1>3. ASSUME NEW v \in Shell, Does(sessionReset(v)) PROVE Knows(w, server.order)'
  BY <1>2, <1>3, SessionReset
<1>4. CASE Does(send(sessionReset(w), "login"))
  <2> DEFINE u == sessionReset(w)
             x == send(u, "login")
  <2>1. Sound(u) /\ u.main.page = "login" /\ ~u.api.user /\ ~u.main.guard
    BY <1>1, SessionReset
  <2>2. Does(x) BY <1>4
  <2> HIDE DEF u
  <2>3. Sound(x) BY <2>1, LoginSent DEF Leads
  <2>4. x.main = u.main
    <3>1. "login" \in Read /\ u \in Shell BY <2>1, SoundKnown DEF Read
    <3> QED BY <3>1, SendRead
  <2> HIDE DEF x
  <2> QED BY <1>2, <2>1, <2>2, <2>3, <2>4
<1>5. CASE loginByPhone BY <1>1, <1>3, <1>4, <1>5 DEF loginByPhone
<1>6. CASE handleLogin
  <2> DEFINE u == loginSucceeded(cancelSafeReads(w, {"login"}))
  <2>1. "login" \in Slots(w) BY <1>6, DueSlot DEF handleLogin
  <2>2. Sound(u) /\ u.main.page = "login" BY <1>1, <2>1, LoginSucceeded DEF Leads
  <2>3. Does(u) BY <1>6 DEF handleLogin, answered
  <2> HIDE DEF u
  <2> QED BY <1>2, <2>2, <2>3
<1>7. CASE handleExpiry
  <2>1. CASE Does(sessionReset(w)) BY <1>1, <1>3, <2>1
  <2>2. CASE api.ops # <<>> /\ Does(sessionReset([w EXCEPT !.api.ops = Tail(@)]))
    <3>1. [w EXCEPT !.api.ops = Tail(@)] \in Shell
      <4> DEFINE a == [api EXCEPT !.ops = Tail(@)]
      <4>1. a \in ApiState(Slots(w))
        <5>1. api \in ApiState(Slots(w)) BY <1>1, Parts
        <5>2. Tail(api.ops) \in Seq(SentMutation) BY <2>2, <5>1 DEF ApiState
        <5> QED BY <5>1, <5>2 DEF ApiState
      <4>2. [w EXCEPT !.api.ops = Tail(@)] = [w EXCEPT !.api = a] BY <1>1 DEF Shell
      <4> HIDE DEF a
      <4> QED BY <1>1, <4>1, <4>2, Parts DEF Shell
    <3> QED BY <1>3, <2>2, <3>1
  <2> QED BY <1>7, <2>1, <2>2 DEF handleExpiry, MutationDue
<1> QED BY <1>5, <1>6, <1>7

\* A page that may be left waits for nothing.
LEMMA FreeKnows ==
  ASSUME NEW v, Sound(v), NEW order, Knows(v, order), v.main.page # "login",
         ~v.main.blocked \/ ~v.charge.active
  PROVE  v.main.authority = order
<1>1. Told(v) /\ Reported(v) BY DEF Sound, Whole
<1>2. ~Owed(v.charge) BY <1>1 DEF Told, Reported, Owed, chargeFlowBlocked
<1> QED BY <1>2 DEF Knows, Informed

LEMMA RequestReconnectPage ==
  ASSUME NEW v \in Shell
  PROVE  requestReconnectCurrent(v).main.page = v.main.page
<1> DEFINE u == requestReconnectCurrent(v)
           s == send(v, "reconnect")
           r == [owner |-> orderId(v.main.authority)]
<1>1. s \in Shell /\ s.main = v.main BY SendRead DEF Read, CurrentRead
<1>2. u = v \/ u = [s EXCEPT !.main.reconnect = r] BY DEF requestReconnectCurrent
<1> HIDE DEF s, r
<1>3. [s EXCEPT !.main.reconnect = r].main.page = v.main.page
  BY <1>1, Parts DEF Shell, MainState
<1> QED BY <1>2, <1>3

LEMMA TurnKnows ==
  ASSUME Accords(w), Careful(w), Knows(w, server.order),
         NearbyButton \/ ProfileButton \/ navigationRequested \/ navigationBack
           \/ HistoryButton \/ HistoryPageButton \/ AuthorityRetryButton
  PROVE  Knows(w, server.order)'
<1>1. /\ w \in Shell /\ Known(w) /\ Told(w) /\ Sound(w)
      /\ w.main = main /\ w.charge = charge /\ w.api = api
  BY SoundKnown, ShellOf DEF Accords
<1>2. ~AuthorityRetryButton => api.ops = <<>> BY <1>1, TurnCareful
<1>3. Free => main.authority = server.order /\ w.main.navShown /\ ~w.main.blocked
  BY <1>1, FreeKnows DEF Free, Sound, Seated
<1>4. At("nearby") \/ At("navigation") => main.authority = server.order
  BY <1>1, FreeKnows DEF At, Sound, Seated
<1>5. ASSUME NEW u, Leads(w, u), u.main.authority = server.order, Does(u), api.ops = <<>>
      PROVE  Knows(w, server.order)'
  BY <1>1, <1>5, SoundKnown, KnowsIdle, DoesKnows DEF Leads, Informed
<1>6. ASSUME NEW v, Away(v), v.main.authority = server.order, v.api.ops = w.api.ops,
             NEW p \in {"nearby", "profile", "navigation"}, Does([v EXCEPT !.main.page = p]),
             api.ops = <<>>
      PROVE  Knows(w, server.order)'
  <2> DEFINE u == [v EXCEPT !.main.page = p]
  <2>1. Leads(v, u) BY <1>6, Turned
  <2>2. u.main.authority = v.main.authority
    <3>1. v \in Shell /\ v.main \in MainState BY <1>6, Parts DEF Away, Whole
    <3> QED BY <3>1 DEF Shell, MainState
  <2>3. Does(u) BY <1>6
  <2> HIDE DEF u
  <2> QED BY <1>5, <1>6, <2>1, <2>2, <2>3 DEF Leads
<1>7. CASE NearbyButton
  <2>1. Away(leaves(w)) /\ leaves(w).main = w.main /\ leaves(w).api.ops = w.api.ops
    BY <1>1, <1>7, Leaving DEF NearbyButton, Free
  <2> QED BY <1>1, <1>2, <1>3, <1>6, <1>7, <2>1 DEF NearbyButton, AuthorityRetryButton, Free
<1>8. CASE ProfileButton
  <2>1. Away(leaves(w)) /\ leaves(w).main = w.main /\ leaves(w).api.ops = w.api.ops
    BY <1>1, <1>8, Leaving DEF ProfileButton, Free
  <2> QED BY <1>1, <1>2, <1>3, <1>6, <1>8, <2>1 DEF ProfileButton, AuthorityRetryButton, Free
<1>9. CASE navigationRequested
  <2>1. Away(w) BY <1>1, <1>9, OnNearby DEF navigationRequested, At
  <2> QED BY <1>1, <1>2, <1>4, <1>6, <1>9, <2>1
          DEF navigationRequested, AuthorityRetryButton, At
<1>10. CASE navigationBack
  <2>1. Away(w) BY <1>1, <1>10, OnNearby DEF navigationBack, At
  <2> QED BY <1>1, <1>2, <1>4, <1>6, <1>10, <2>1 DEF navigationBack, AuthorityRetryButton, At
<1>11. CASE HistoryButton
  <2> DEFINE u == [activateHistory(IF main.page = "charge" THEN leavePage(w) ELSE w) EXCEPT
                     !.main.page = "history"]
  <2>1. Leads(w, u) /\ u.main.authority = w.main.authority
    BY <1>1, <1>11, HistoryShown DEF HistoryButton, Free
  <2>2. Does(u) BY <1>11 DEF HistoryButton
  <2> HIDE DEF u
  <2> QED BY <1>1, <1>2, <1>3, <1>5, <1>11, <2>1, <2>2
          DEF HistoryButton, AuthorityRetryButton, Free
<1>12. CASE HistoryPageButton
  <2>1. ASSUME NEW u, Does(u), Holds(w, u), u.charge = w.charge, u.main = w.main
        PROVE  Knows(w, server.order)'
    <3>1. Knows(u, server.order) BY <2>1, KnowsSame DEF Holds
    <3> QED BY <2>1, <3>1, DoesKnows DEF Holds
  <2>2. CASE Does(refreshHistory(w)) BY <1>1, <2>1, <2>2, RefreshHistory
  <2>3. CASE history.committed # None /\ history.committed.index > 0
             /\ Does(requestPage(w, history.committed.index - 1))
    <3>1. history.committed.index - 1 \in 0..LastPage
      BY <1>1, <2>3, AuthorityType, CommittedIndex
    <3> QED BY <1>1, <2>1, <2>3, <3>1, RequestPage
  <2>4. CASE history.committed # None /\ history.committed.more
             /\ Does(requestPage(w, history.committed.index + 1))
    <3>1. history.committed.index + 1 \in 0..LastPage
      BY <1>1, <2>4, AuthorityType, CommittedIndex
    <3> QED BY <1>1, <2>1, <2>4, <3>1, RequestPage
  <2> QED BY <1>12, <2>2, <2>3, <2>4 DEF HistoryPageButton
<1>13. CASE AuthorityRetryButton
  <2> DEFINE u == requestReconnectCurrent(w)
  <2>1. /\ Leads(w, u) /\ u.charge = w.charge /\ u.main.authority = w.main.authority
        /\ u.main.page = w.main.page
    BY <1>1, RequestReconnect, RequestReconnectPage
  <2>2. Does(u) BY <1>13 DEF AuthorityRetryButton
  <2> HIDE DEF u
  <2>3. Knows(u, server.order) BY <2>1, KnowsSame DEF Leads
  <2> QED BY <2>1, <2>2, <2>3, SoundKnown, DoesKnows DEF Leads
<1> QED BY <1>7, <1>8, <1>9, <1>10, <1>11, <1>12, <1>13

LEMMA ResumesAuthority ==
  ASSUME NEW v, NEW order, NEW u, Resumes(v, u, order)
  PROVE  u.main.authority = v.main.authority
<1>1. PICK y \in Shell :
        /\ Known(y) /\ Told(y) /\ y.main.authority = v.main.authority
        /\ u.main.authority = requestReconciliation(y).main.authority
  BY DEF Resumes
<1>2. requestReconciliation(y).main.authority = y.main.authority
  BY <1>1, RequestReconciliation DEF Keeps, Within, Frame
<1> QED BY <1>1, <1>2

LEMMA OrderKnows ==
  ASSUME Accords(w), Careful(w), Knows(w, server.order),
         CurrentOrderButton \/ BackButton \/ chargerSelected
  PROVE  Knows(w, server.order)'
<1>1. /\ w \in Shell /\ Known(w) /\ Told(w) /\ Sound(w) /\ w.api = api
      /\ w.main = main /\ w.charge = charge
      /\ main.authority \in Maybe(Order) /\ main.authority = Current(main.authority)
  BY SoundKnown, ShellOf, AuthorityType DEF Accords, Agreed
<1>2. api.ops = <<>> BY <1>1, TurnCareful
<1>3. ASSUME NEW u, Leads(w, u), u.main.authority = server.order, Does(u)
      PROVE  Knows(w, server.order)'
  BY <1>1, <1>2, <1>3, SoundKnown, KnowsIdle, DoesKnows DEF Leads, Informed
<1>4. CASE CurrentOrderButton
  <2> DEFINE u == [resume(enterOrder(IF main.page = "history"
                              THEN deactivateHistory(cancelReconnectCurrent(w))
                              ELSE cancelReconnectCurrent(w), main.authority)) EXCEPT
                     !.main.page = "charge"]
  <2>1. main.authority \in Order BY <1>1, <1>4 DEF CurrentOrderButton, Maybe
  <2>2. Leads(w, u) /\ Resumes(w, u, main.authority)
    BY <1>1, <1>4, <2>1, OrderShown DEF CurrentOrderButton, Free
  <2>3. Does(u) BY <1>4 DEF CurrentOrderButton
  <2> HIDE DEF u
  <2>4. main.authority = server.order
    BY <1>1, <1>4, FreeKnows DEF CurrentOrderButton, Free, Sound, Seated
  <2> QED BY <1>1, <1>3, <2>2, <2>3, <2>4, ResumesAuthority
<1>5. BackButton => main.authority = server.order
  <2> SUFFICES ASSUME BackButton PROVE main.authority = server.order OBVIOUS
  <2>1. Rendered(w) /\ "back" \in w.charge.buttons /\ main.page = "charge"
    BY <1>1 DEF BackButton, At, Sound, Whole
  <2>2. ~Owed(w.charge) BY <2>1, BackFree DEF Owed, chargeFlowBlocked
  <2> QED BY <1>1, <2>1, <2>2 DEF Knows, Informed
<1>6. CASE BackButton /\ isActive(main.authority)
  <2> DEFINE u == resume(enterOrder(w, main.authority))
  <2>1. main.authority \in Order BY <1>1, <1>6 DEF isActive, Maybe
  <2>2. w.main.page = "charge" /\ "back" \in w.charge.buttons /\ ~w.main.required
    BY <1>1, <1>6 DEF BackButton, At, Sound, Seated
  <2>3. Leads(w, u) /\ Resumes(w, u, main.authority) BY <1>1, <2>1, <2>2, BackToOrder
  <2>4. Does(u) BY <1>6 DEF BackButton
  <2> HIDE DEF u
  <2> QED BY <1>1, <1>3, <1>5, <1>6, <2>3, <2>4, ResumesAuthority
<1>7. CASE BackButton /\ ~isActive(main.authority)
  <2> DEFINE u == [leavePage(w) EXCEPT !.main.authority = None, !.main.remembered = None,
                                       !.main.page = "nearby"]
  <2>1. Leads(w, u) /\ u.main.page = "nearby" /\ u.main.authority = None
    BY <1>1, <1>7, BackToNearby DEF BackButton, At
  <2>2. Does(u) BY <1>7 DEF BackButton
  <2> HIDE DEF u
  <2>3. main.authority = None BY <1>1, <1>7 DEF Current
  <2> QED BY <1>3, <1>5, <1>7, <2>1, <2>2, <2>3
<1>8. CASE chargerSelected
  <2>1. PICK c \in Charger, st \in Status :
          LET s == [charger |-> c, status |-> st, fresh |-> TRUE, valid |-> TRUE]
              v == nextSelection(w)
          IN  IF main.authority # None \/ main.blocked THEN Does(v)
              ELSE Does([enterSelection([v EXCEPT !.main.remembered = s], s) EXCEPT
                           !.main.page = "charge"])
    BY <1>8 DEF chargerSelected
  <2> DEFINE s == [charger |-> c, status |-> st, fresh |-> TRUE, valid |-> TRUE]
             n == nextSelection(w)
             u == [enterSelection([n EXCEPT !.main.remembered = s], s) EXCEPT
                     !.main.page = "charge"]
  <2>2. s \in Selection /\ s.valid BY DEF Selection
  <2>3. CASE Does(n)
    <3>1. Keeps(w, n) /\ Gentle(w, n) BY <1>1, NextSelection, NextSelectionGentle
    <3> HIDE DEF n
    <3>2. Knows(n, server.order) BY <3>1, KnowsGentle DEF Keeps, Within
    <3> QED BY <2>3, <3>1, <3>2, DoesKnows DEF Keeps
  <2>4. CASE main.authority = None /\ ~main.blocked /\ Does(u)
    <3> HIDE DEF s
    <3>1. w.main.page = "nearby" /\ ~w.main.required BY <1>1, <1>8 DEF chargerSelected, At
    <3>2. Leads(w, u) /\ u.main.authority = w.main.authority
      BY <1>1, <2>2, <2>4, <3>1, ChargerChosen
    <3>3. w.main.authority = server.order BY <1>1, <2>4, <3>1, FreeKnows
    <3> HIDE DEF u
    <3> QED BY <1>3, <2>4, <3>2, <3>3
  <2> QED BY <2>1, <2>3, <2>4
<1> QED BY <1>4, <1>6, <1>7, <1>8

-----------------------------------------------------------------------------
(* A mutation.                                                             *)

\* It is asked for when the window knows the order of the server.
LEMMA MutationKnows ==
  ASSUME Sound(w), Careful(w), Knows(w, server.order), MutationButton
  PROVE  Knows(w, server.order)'
<1>1. PICK op \in Mutation \cap charge.buttons : Does(beginMutation(w, op))
  BY DEF MutationButton
<1> DEFINE u == beginMutation(w, op)
<1>2. w.charge = charge /\ w.api = api /\ w.main = main /\ w \in Shell
  BY ShellOf, SoundKnown
<1>3. main.page = "charge" BY DEF MutationButton, At
<1>4. u \in Shell BY <1>1, <1>2, BeginMutation, SoundKnown
<1>5. CASE ~w.charge.active \/ ~w.api.up \/ chargeFlowBlocked(w.charge)
  <2>1. u = w BY <1>1, <1>2, <1>5, MutationBegun
  <2> HIDE DEF u
  <2> QED BY <1>1, <1>2, <1>4, <2>1, DoesKnows DEF u
<1>6. CASE ~(~w.charge.active \/ ~w.api.up \/ chargeFlowBlocked(w.charge))
  <2>1. PICK p, r, y : Asked(w, op, p, r, y) /\ u = Shown(y)
    BY <1>1, <1>2, <1>6, MutationBegun
  <2> HIDE DEF u
  <2>2. /\ p # None /\ y.charge.mutation = p /\ y.main.authority = w.main.authority
        /\ y.main.page = w.main.page
    BY <2>1, AskedParts
  <2>3. y \in Shell /\ Known(y) /\ Told(y) /\ ~p.superseded BY <2>1 DEF Asked
  <2>4. w.main.authority = server.order
    <3>1. ~Owed(w.charge) BY <1>6 DEF Owed, chargeFlowBlocked
    <3> QED BY <1>2, <1>3, <3>1 DEF Knows, Informed
  <2>5. Knows(y, server.order) BY <2>2, <2>3, <2>4 DEF Knows, Informed
  <2>6. Knows(u, server.order) BY <2>1, <2>3, <2>5, KnowsShown
  <2> QED BY <1>1, <1>4, <2>6, DoesKnows DEF u
<1> QED BY <1>5, <1>6

\* A mutation that has failed: the order of the window stays, and is read again when it
\* is not known what became of the mutation.
LEMMA RefusedKnows ==
  ASSUME NEW v, Answered(v), ~v.charge.mutation.superseded, NEW why
  PROVE  LET u == mutationFailed(v, why) IN
         /\ u.main.authority = v.main.authority
         /\ why = "uncertain" /\ ~v.charge.exit => Owed(u.charge)
<1> DEFINE m == [v.main EXCEPT !.stamp = "none"]
           e == Unsettled(v.charge)
           z == Anew(v, e, m)
           h == Shown(z)
           q == requestReconciliation(h)
           u == mutationFailed(v, why)
<1>1. v \in Shell /\ Known(v) /\ Told(v) /\ v.main \in MainState BY AnsweredAlone
<1>2. /\ m \in MainState /\ Noted(v.main, m) /\ e \in ChargeState /\ Paged(e)
      /\ e.active /\ e.reported = v.charge.reported /\ e.facts = None /\ e.read = None
      /\ e.reconcile = TRUE /\ e.mutation = None /\ e.exit = v.charge.exit
      /\ u = IF overtaken(v, v.charge.mutation.subject)
             THEN endMutation(Notified(v, [v.charge EXCEPT !.current = FALSE], m))
             ELSE IF why \in {"uncertain", "refresh"} THEN q ELSE h
  BY MutationRefused
<1>3. m.authority = v.main.authority BY <1>1 DEF MainState
<1>4. ~overtaken(v, v.charge.mutation.subject) BY DEF overtaken
<1> HIDE DEF m, e, u
<1>5. Beside(v, z) /\ z.charge = e /\ z.main = m
  BY <1>1, <1>2, Replaced DEF Noted, Told
<1> HIDE DEF z
<1>6. Settles(z, h) /\ Gentle(z, h) BY <1>5, ShownSettles, ShownGentle DEF Beside
<1> HIDE DEF h
<1>7. Frame(z, h) /\ h \in Shell /\ Known(h) /\ Told(h) BY <1>6 DEF Settles, Moves, Within
<1>8. Keeps(h, q) /\ (q = h \/ Reconciling(h, q))
  BY <1>7, RequestReconciliation, ReconciliationDone
<1> HIDE DEF q
<1>9. Frame(h, q) BY <1>8 DEF Keeps, Within
<1>10. u.main.authority = v.main.authority
  BY <1>2, <1>3, <1>4, <1>5, <1>7, <1>9 DEF Frame
<1>11. ASSUME why = "uncertain", ~v.charge.exit PROVE Owed(u.charge)
  <2>1. Owed(z.charge) BY <1>2, <1>5, <1>11 DEF Owed
  <2>2. Owed(h.charge) BY <1>6, <1>7, <2>1, OwedGentle
  <2>3. Owed(q.charge) BY <1>8, <1>9, <2>2 DEF Owed, Reconciling, Frame
  <2> QED BY <1>2, <1>4, <1>11, <2>3
<1> QED BY <1>10, <1>11 DEF u

LEMMA TimeoutKnows ==
  ASSUME Sound(w), Careful(w), Knows(w, server.order), MutationTimeout
  PROVE  Knows(w, server.order)'
<1> DEFINE v == Unawaited(w)
           u == mutationFailed(v, "uncertain")
<1>1. \E i \in DOMAIN w.api.ops : w.api.ops[i].live BY ShellOf DEF MutationTimeout
<1>2. Answered(v) BY <1>1, UnawaitedAnswered
<1>3. v.charge = w.charge BY SoundKnown, UnawaitedParts
<1>4. Does(u) BY DEF MutationTimeout, Unawaited
<1> HIDE DEF v
<1>5. ~w.charge.exit /\ ~w.charge.mutation.superseded
  <2>1. w.api.ops # <<>> BY <1>1
  <2>2. w.charge.active /\ w.charge.mutation # None BY <1>2, <1>3 DEF Answered
  <2> QED BY <2>1, <2>2 DEF Careful, Bound, Knows
<1>6. Owed(u.charge) BY <1>2, <1>3, <1>5, RefusedKnows
<1>7. Leads(v, u) BY <1>2, MutationFailed
<1> HIDE DEF u
<1> QED BY <1>4, <1>6, <1>7, SoundKnown, KnowsOwed, DoesKnows DEF Leads

\* The order that the server has after it took a mutation is the outcome, while it is not
\* over.
LEMMA TookOrder ==
  ASSUME NEW s \in ServerState, NEW op, NEW target, takes(s, op, target),
         outcome(s, op, target) \in Order
  PROVE  took(s, op, target).order = Current(outcome(s, op, target))
<1> DEFINE o == outcome(s, op, target)
<1>1. o # None /\ o.status \in Active \cup Terminal BY NoneAssumption DEF NoneAssumption, Order
<1>2. took(s, op, target).order = IF o.status \in Terminal THEN None ELSE o
  BY DEF took, ServerState
<1> HIDE DEF o
<1>3. Current(o) = IF o.status \in Terminal THEN None ELSE o
  BY <1>1 DEF Current, isActive, Active, Terminal
<1> QED BY <1>2, <1>3 DEF o

LEMMA OutcomeKnows ==
  ASSUME Accords(w), Careful(w), server \in ServerState, Knows(w, server.order),
         handleMutation
  PROVE  Knows(w, server.order)'
<1> DEFINE m == api.ops[1]
           s == took(server, m.op, m.target)
<1>1. w \in Shell /\ w.api = api /\ w.charge = charge /\ Sound(w) /\ Agreed(w)
  BY ShellOf, SoundKnown DEF Accords
<1>2. /\ m.live => Answered(nearer)
      /\ ~m.live => Sound(nearer)
      /\ m \in SentMutation /\ nearer.api.ops = Tail(api.ops) /\ api.ops # <<>>
      /\ nearer.charge = w.charge /\ nearer.main = w.main
  <2>1. nearer = Nearer(w) BY DEF nearer, Nearer
  <2>2. nearer.charge = w.charge /\ nearer.main = w.main BY <1>1, <2>1 DEF Nearer, Shell
  <2> QED BY <1>1, <2>1, <2>2, MutationDueReads, NearerSound, NearerOps DEF handleMutation
<1>3. nearer.api.ops = <<>> BY <1>1, <1>2, TailGone
<1>4. IF ~m.live
      THEN server' = s /\ Becomes(nearer, {})
      ELSE \/ /\ takes(server, m.op, m.target)
              /\ server' = s
              /\ Becomes(acceptMutation(nearer, outcome(server, m.op, m.target)), {})
           \/ \E why \in {"refresh", "other"} : Does(mutationFailed(nearer, why))
           \/ server' = s /\ Becomes(mutationFailed(nearer, "uncertain"), {})
  BY DEF handleMutation
<1>5. ASSUME m.live
      PROVE  /\ Answered(nearer) /\ ~nearer.charge.mutation.superseded
             /\ ~nearer.charge.exit /\ nearer.main.authority = server.order
             /\ nearer.charge.mutation.op = m.op
             /\ m.op # "reserve" => m.target = nearer.charge.mutation.subject
  <2>1. w.api.ops \in Seq(SentMutation) BY <1>1, Parts DEF ApiState
  <2>2. 1 \in DOMAIN w.api.ops BY <1>1, <1>2, <2>1, EmptySeq
  <2>3. w.charge.mutation # None /\ w.charge.active BY <1>2, <1>5 DEF Answered
  <2>4. ~w.charge.exit BY <1>1, <1>2, <2>3 DEF Careful, Bound
  <2>5. w.charge.mutation.op = m.op /\ (m.op # "reserve" => m.target = w.charge.mutation.subject)
    BY <1>1, <1>5, <2>2, <2>3 DEF Agreed, OwnMutation
  <2> QED BY <1>2, <1>5, <2>3, <2>4, <2>5 DEF Knows
<1>6. CASE ~m.live
  <2>1. server' = s /\ Becomes(nearer, {}) /\ Sound(nearer) BY <1>2, <1>4, <1>6
  <2>2. nearer.charge.mutation = None
    <3>1. DOMAIN nearer.api.ops = {} BY <1>3
    <3> QED BY <2>1, <3>1 DEF Sound, Awaited
  <2>3. nearer.main.page = "login" \/ Owed(nearer.charge) BY <1>1, <1>2, <2>2 DEF Knows
  <2>4. Knows(nearer, server'.order) BY <2>1, <2>3, KnowsLogin, KnowsOwed
  <2> QED BY <2>1, <2>4, SoundKnown, BecomesKnows
<1>7. CASE m.live /\ takes(server, m.op, m.target) /\ server' = s
             /\ Becomes(acceptMutation(nearer, outcome(server, m.op, m.target)), {})
  <2> DEFINE o == outcome(server, m.op, m.target)
             u == acceptMutation(nearer, o)
  <2>1. Asks(m.op, m.target) BY <1>2, SentAsks
  <2>2. o \in Order BY <1>7, <2>1, Outcome
  <2>3. m.op # "reserve" => o.id = m.target BY <1>7, <2>1, OutcomeSubject
  <2>4. server'.order = Current(o) BY <1>7, <2>2, TookOrder
  <2>5. Becomes(u, {}) BY <1>7
  <2> HIDE DEF o, m
  <2>6. nearer.charge.mutation.op # "reserve" => o.id = nearer.charge.mutation.subject
    BY <1>5, <1>7, <2>3
  <2>7. Answered(nearer) /\ ~overtaken(nearer, o.id) BY <1>5, <1>7 DEF overtaken
  <2>8. Agreed(nearer)
    <3>1. OwnMutation(nearer)
      <4>1. \A i \in DOMAIN nearer.api.ops : ~nearer.api.ops[i].live BY <1>3
      <4> QED BY <1>1, <1>2, <4>1 DEF Agreed, OwnMutation
    <3> QED BY <1>1, <1>2, <3>1 DEF Agreed
  <2>9. u.main.authority = Current(o) BY <2>2, <2>6, <2>7, <2>8, AcceptAgreed
  <2>10. Leads(nearer, u) BY <2>2, <2>7, AcceptMutation
  <2> HIDE DEF u
  <2>11. Knows(u, server'.order)
    BY <1>3, <2>4, <2>9, <2>10, KnowsIdle DEF Leads, Informed
  <2> QED BY <2>5, <2>10, <2>11, SoundKnown, BecomesKnows DEF Leads
<1>8. CASE m.live /\ \E why : Does(mutationFailed(nearer, why))
  <2>1. PICK why : Does(mutationFailed(nearer, why)) BY <1>8
  <2> DEFINE u == mutationFailed(nearer, why)
  <2>2. Leads(nearer, u) /\ u.main.authority = server.order
    BY <1>5, <1>8, MutationFailed, RefusedKnows
  <2> HIDE DEF u
  <2>3. Knows(u, server.order) BY <1>3, <2>2, KnowsIdle DEF Leads, Informed
  <2> QED BY <2>1, <2>2, <2>3, SoundKnown, DoesKnows DEF Leads, u
<1>9. CASE m.live /\ Becomes(mutationFailed(nearer, "uncertain"), {})
  <2> DEFINE u == mutationFailed(nearer, "uncertain")
  <2>1. Leads(nearer, u) /\ Owed(u.charge) BY <1>5, <1>9, MutationFailed, RefusedKnows
  <2>2. Becomes(u, {}) BY <1>9
  <2> HIDE DEF u
  <2>3. Knows(u, server'.order) BY <2>1, KnowsOwed
  <2> QED BY <2>1, <2>2, <2>3, SoundKnown, BecomesKnows DEF Leads
<1> QED BY <1>4, <1>6, <1>7, <1>8, <1>9

-----------------------------------------------------------------------------
(* The connection.                                                         *)

\* What the page of an order owes to the reader whether or not a mutation is awaited.
Owing(c) == c.active /\ c.reconcile /\ ~c.exit /\ c.facts = None

\* The page is to read its order again when the connection is lost, and still is when
\* there is a new one.
LEMMA ChargeConnectionOwing ==
  ASSUME NEW v \in Shell, Known(v), Told(v), Alone(v), NEW before \in BOOLEAN,
         v.charge.active, ~v.charge.exit, ~v.api.up \/ Owing(v.charge)
  PROVE  Owing(ChargeConnectionChanged(v, before).charge)
<1> DEFINE p == [v EXCEPT !.charge.polling = FALSE]
           q == invalidateSafeReads(p)
           broken == [q EXCEPT !.charge.reconcile = TRUE, !.charge.factsFailed = FALSE]
           t == CASE ~v.api.up /\ v.charge.active -> broken
                  [] ~v.api.up /\ ~v.charge.active -> p
                  [] v.api.up /\ ~before /\ v.charge.active -> requestReconciliation(v)
                  [] OTHER -> v
           u == Shown(t)
<1>1. ChargeConnectionChanged(v, before) = u BY DEF ChargeConnectionChanged
<1>2. v.charge \in ChargeState /\ v.api \in ApiState(Slots(v)) BY Parts
<1>3. v.charge.active \in BOOLEAN /\ v.api.up \in BOOLEAN BY <1>2 DEF ChargeState, ApiState
<1>4. Moves(v, p) /\ p.charge.active = v.charge.active BY PollingOff
<1>5. p.charge = [v.charge EXCEPT !.polling = FALSE] BY DEF Shell
<1> HIDE DEF p
<1>6. p \in Shell /\ Known(p) /\ Told(p) /\ Frame(v, p) /\ p.charge.active /\ ~p.charge.exit
  BY <1>2, <1>4, <1>5 DEF Moves, Within, ChargeState
<1>7. broken \in Shell /\ Known(broken) /\ Told(broken) /\ Owing(broken.charge)
  <2>1. Alone(p) /\ p.charge.active BY <1>4, <1>6 DEF Alone, Slots, Moves, Within, Frame
  <2>2. q = cancelOwnedSafeReads(p) BY <1>6, <2>1, InvalidateOwned
  <2> HIDE DEF q
  <2>3. Moves(p, q) /\ q.charge.read = None /\ q.charge.facts = None /\ ~q.charge.exit
    <3> DEFINE z == cancelOwnedSafeReads(p)
    <3>1. /\ Moves(p, z)
          /\ z.charge = [p.charge EXCEPT
                           !.read = None, !.facts = None, !.gate = FALSE,
                           !.attempt = IF p.charge.exit THEN 0 ELSE @, !.current = TRUE]
      BY <1>6, GiveUpOwned
    <3> HIDE DEF z
    <3>2. p.charge \in ChargeState BY <1>6, Parts
    <3>3. z.charge.read = None /\ z.charge.facts = None /\ ~z.charge.exit
      BY <1>6, <3>1, <3>2 DEF ChargeState
    <3> QED BY <2>2, <3>1, <3>3 DEF z
  <2>4. q \in Shell /\ Known(q) /\ Told(q) /\ Frame(p, q) BY <2>3 DEF Moves, Within
  <2>5. Moves(q, broken) BY <2>3, <2>4, ReconcileOwed
  <2>6. Owing(broken.charge)
    <3>1. q.charge \in ChargeState /\ q.charge.active BY <1>6, <2>4, Parts DEF Frame
    <3> QED BY <2>3, <2>4, <3>1 DEF Shell, ChargeState, Owing
  <2> QED BY <2>5, <2>6 DEF Moves
<1>8. ASSUME Owing(v.charge)
      PROVE  LET x == requestReconciliation(v) IN
             x \in Shell /\ Known(x) /\ Told(x) /\ Owing(x.charge)
  <2> DEFINE x == requestReconciliation(v)
  <2>1. Keeps(v, x) /\ (x = v \/ Reconciling(v, x))
    BY RequestReconciliation, ReconciliationDone
  <2> HIDE DEF x
  <2>2. x \in Shell /\ Known(x) /\ Told(x) /\ Frame(v, x) BY <2>1 DEF Keeps, Within
  <2>3. Owing(x.charge) BY <1>8, <2>1, <2>2 DEF Owing, Reconciling, Frame
  <2> QED BY <2>2, <2>3 DEF x
<1> HIDE DEF broken, q
<1>9. t \in Shell /\ Known(t) /\ Told(t) /\ Owing(t.charge)
  BY <1>3, <1>7, <1>8
<1> HIDE DEF t
<1>10. Settles(t, u) /\ Gentle(t, u) BY <1>9, ShownSettles, ShownGentle
<1> HIDE DEF u
<1>11. Held(t.charge) BY <1>9 DEF Owing, Held, chargeFlowBlocked
<1>12. Frame(t, u) BY <1>10 DEF Settles, Moves, Within
<1>13. Owing(u.charge) BY <1>9, <1>10, <1>11, <1>12 DEF Owing, Gentle, Fixed, Frame
<1> QED BY <1>1, <1>13

\* The window and its pages are told of the connection: the page on show, the order of
\* the window and the mutation stay.
LEMMA ConnectionKept ==
  ASSUME NEW v, Linked(v), NEW before \in BOOLEAN
  PROVE  LET u == connectionChanged(v, before) IN
         /\ u.main.page = v.main.page /\ u.main.authority = v.main.authority
         /\ u.charge.mutation = v.charge.mutation
         /\ v.charge.active /\ ~v.charge.exit /\ (~v.api.up \/ Owing(v.charge)) =>
              Owing(u.charge)
<1> DEFINE h == HistoryConnectionChanged(v)
           c == ChargeConnectionChanged(h, before)
           n == NearbyConnectionChanged(c)
           u == connectionChanged(v, before)
<1>1. /\ v \in Shell /\ Known(v) /\ Told(v) /\ Listed(v) /\ Reported(v) /\ Withdrawn(v)
      /\ Seated(v)
  BY DEF Linked
<1>2. Holds(v, h) /\ Apace(v, h) /\ h.charge = v.charge /\ h.main = v.main
  BY <1>1, HistoryConnection
<1> HIDE DEF h
<1>3. h \in Shell /\ Known(h) /\ Told(h) /\ Reported(h) /\ h.api.up = v.api.up
  BY <1>1, <1>2 DEF Holds
<1>4. Alone(h)
  <2>1. Alone(v) BY <1>1 DEF Seated, Alone
  <2> QED BY <1>2, <2>1, AloneTurns
<1>5. /\ Settles(h, c)
      /\ v.charge.active /\ ~v.charge.exit /\ (~v.api.up \/ Owing(v.charge)) =>
           Owing(c.charge)
  BY <1>2, <1>3, <1>4, ChargeConnection, ChargeConnectionOwing
<1> HIDE DEF c
<1>6. Keeps(h, c) /\ c \in Shell /\ Known(c) /\ Told(c) /\ Rendered(c) /\ Frame(h, c)
  BY <1>5, SettlesKeeps DEF Settles, Moves, Within
<1>7. Keeps(c, n) /\ n.charge = c.charge /\ Frame(c, n) BY <1>6, NearbyConnection DEF Keeps, Within
<1> HIDE DEF n
<1>8. /\ n.main.page = v.main.page /\ n.main.authority = v.main.authority
      /\ n.charge.mutation = v.charge.mutation /\ n \in Shell
  BY <1>2, <1>6, <1>7 DEF Frame, Keeps
<1>9. /\ u.main.page = n.main.page /\ u.main.authority = n.main.authority
      /\ u.charge = n.charge
  <2>1. u = MainConnectionChanged(n) BY DEF connectionChanged, n, c, h
  <2> HIDE DEF u
  <2>2. CASE ~n.api.user \/ n.main.guard \/ n.main.page = "charge" \/ n.main.blocked
    BY <2>1, <2>2 DEF MainConnectionChanged
  <2>3. CASE ~(~n.api.user \/ n.main.guard \/ n.main.page = "charge" \/ n.main.blocked)
    <3> DEFINE r == [n EXCEPT !.main.required = TRUE, !.main.queued = TRUE]
    <3>1. u = requestReconnectCurrent(r) BY <2>1, <2>3 DEF MainConnectionChanged
    <3>2. Sound(n)
      <4>1. Rendered(n) BY <1>6, <1>7 DEF Keeps
      <4>2. Holds(v, n) /\ Apace(v, n)
        <5>1. Holds(h, c) /\ Apace(h, c) BY <1>6, KeepsHolds
        <5>2. Holds(c, n) /\ Apace(c, n) BY <1>7, KeepsHolds
        <5>3. Holds(v, c) /\ Apace(v, c) BY <1>2, <5>1, HoldsTrans, ApaceTrans
        <5> QED BY <5>2, <5>3, HoldsTrans, ApaceTrans
      <4>3. v.charge.mutation = None BY <1>1, <1>8, <2>3 DEF Linked, Seated
      <4>4. Whole(n) BY <1>1, <4>1, <4>2 DEF Whole, Holds
      <4>5. Seated(n) BY <1>1, <4>2 DEF Seated, Holds, Apace
      <4>6. Awaited(v) BY <4>3 DEF Linked
      <4> QED BY <4>2, <4>4, <4>5, <4>6 DEF Sound, Awaited, Holds
    <3>3. u.charge = n.charge /\ u.main.authority = n.main.authority
      BY <2>3, <3>1, <3>2, ReadAgain
    <3>4. r \in Shell /\ r.main.page = n.main.page
      <4> DEFINE m == [n.main EXCEPT !.required = TRUE, !.queued = TRUE]
      <4>1. n.main \in MainState BY <1>8, Parts
      <4>2. /\ m \in MainState /\ m.page = n.main.page /\ m.blocked = n.main.blocked
            /\ m.deferred = n.main.deferred /\ m.remembered = n.main.remembered
        BY <4>1 DEF MainState
      <4>3. r = [n EXCEPT !.main = m] BY <1>8 DEF Shell
      <4> HIDE DEF m, r
      <4> QED BY <1>8, <4>2, <4>3, MainSet
    <3> HIDE DEF r
    <3>5. requestReconnectCurrent(r).main.page = r.main.page BY <3>4, RequestReconnectPage
    <3> QED BY <3>1, <3>3, <3>4, <3>5
  <2> QED BY <2>2, <2>3
<1> HIDE DEF u
<1>10. v.charge.active /\ ~v.charge.exit /\ (~v.api.up \/ Owing(v.charge)) => Owing(u.charge)
  BY <1>5, <1>7, <1>9
<1> QED BY <1>8, <1>9, <1>10 DEF u

LEMMA ConnectionInformed ==
  ASSUME NEW v, Linked(v), NEW before \in BOOLEAN, NEW order, Informed(v, order)
  PROVE  Informed(connectionChanged(v, before), order)
<1> DEFINE u == connectionChanged(v, before)
<1>1. /\ u.main.page = v.main.page /\ u.main.authority = v.main.authority
      /\ u.charge.mutation = v.charge.mutation
      /\ v.charge.active /\ ~v.charge.exit /\ (~v.api.up \/ Owing(v.charge)) =>
           Owing(u.charge)
  BY ConnectionKept
<1> HIDE DEF u
<1>2. Informed(u, order) BY <1>1 DEF Informed, Owed, Owing
<1> QED BY <1>2 DEF u

LEMMA FailOfKnows ==
  ASSUME NEW v, Accords(v), NEW slot \in {"login", "guard", "reconnect"},
         NEW order, Knows(v, order)
  PROVE  Knows(failOf(v, slot), order)
<1>1. CASE slot \notin Slots(v)
  <2>1. failOf(v, slot) = v BY <1>1 DEF failOf, Slots
  <2> QED BY <2>1
<1>2. CASE slot \in Slots(v)
  <2>1. failOf(v, slot) = readFailed(cancelSafeReads(v, {slot}), slot)
    BY <1>2 DEF failOf, Slots
  <2>2. CASE slot = "login"
    <3> DEFINE x == cancelSafeReads(v, {slot})
    <3>1. failOf(v, slot) = x BY <2>1, <2>2 DEF readFailed, CurrentRead
    <3>2. x.charge = v.charge /\ x.main = v.main /\ x.api.ops = v.api.ops
      BY SlotFree, SoundKnown DEF Accords
    <3> HIDE DEF x
    <3>3. Knows(x, order) BY <3>2, KnowsSame
    <3> QED BY <3>1, <3>3
  <2>3. CASE slot # "login"
    <3>1. slot \in CurrentRead BY <2>3 DEF CurrentRead
    <3>2. failOf(v, slot) = currentOrderFailed(cancelSafeReads(v, {slot}), slot)
      BY <2>1, <3>1 DEF readFailed
    <3> QED BY <1>2, <3>1, <3>2, CurrentFailedKnows
  <2> QED BY <2>2, <2>3
<1> QED BY <1>1, <1>2

LEMMA ResentKnows ==
  ASSUME NEW v, v \in Shell, NEW order, Knows(v, order) PROVE Knows(Resent(v), order)
<1> DEFINE u == Resent(v)
<1>1. v.api \in ApiState(Slots(v)) BY Parts
<1>2. u.charge = v.charge /\ u.main = v.main /\ u.api.ops = v.api.ops
  BY <1>1 DEF Resent, Shell, ApiState
<1> HIDE DEF u
<1>3. Knows(u, order) BY <1>2, KnowsSame
<1> QED BY <1>3 DEF u

\* The connection is lost: a mutation that was awaited may have been taken, and the page
\* is to read its order again.
LEMMA LostKnows ==
  ASSUME NEW v, Accords(v), v.api = api, NEW order,
         v.charge.mutation = None => Informed(v, order),
         v.charge.mutation # None =>
           v.charge.active /\ ~v.charge.exit /\ ~v.charge.mutation.superseded
  PROVE  Knows(lost(v), order)
<1> DEFINE told == connectionChanged(Gone(v), TRUE)
           over == {"login"} \cup told.api.replayed
           s1 == "login"
           s2 == IF "guard" \in over THEN "guard" ELSE "login"
           s3 == IF "reconnect" \in over THEN "reconnect" ELSE "login"
           a == failOf(told, s1)
           b == failOf(a, s2)
           reads == failOf(b, s3)
           failed == IF \E i \in DOMAIN v.api.ops : v.api.ops[i].live
                     THEN mutationFailed(reads, "uncertain") ELSE reads
<1>1. lost(v) = Resent(failed) BY DEF lost, Resent, Gone
<1>2. Awaited(v) /\ Sound(v) /\ Agreed(v) BY DEF Accords, Sound
<1>3. /\ Linked(Gone(v)) /\ Gone(v).charge = v.charge /\ Gone(v).main = v.main
      /\ Gone(v).api.ops = <<>> /\ ~Gone(v).api.up
  BY <1>2, GoneLinked
<1>4. /\ Whole(told) /\ Seated(told) /\ told.api.ops = <<>>
      /\ v.charge.mutation = None =>
           Sound(told) /\ Agreed(told) /\ Informed(told, order)
      /\ v.charge.mutation # None =>
           /\ told.charge.mutation # None /\ told.charge.active /\ told.charge.mutation.fits
           /\ ~told.charge.exit /\ ~told.charge.mutation.superseded
  <2> DEFINE g == Gone(v)
             yes == TRUE
  <2> HIDE DEF g
  <2>1. Linked(g) /\ g.charge = v.charge /\ g.main = v.main /\ g.api.ops = <<>> /\ ~g.api.up
    BY <1>3 DEF g
  <2>2. Agreed(g) BY <1>2, <2>1 DEF Agreed, OwnMutation
  <2>3. yes \in BOOLEAN OBVIOUS
  <2> DEFINE u == connectionChanged(g, yes)
  <2>4. told = u BY DEF g
  <2> HIDE DEF yes, told
  <2>5. /\ Whole(u) /\ Seated(u) /\ u.api.ops = g.api.ops
        /\ g.charge.mutation = None => Sound(u)
        /\ g.charge.mutation # None =>
             /\ u.charge.mutation # None /\ u.charge.active /\ u.charge.mutation.fits
    BY <2>1, <2>3, ConnectionChanged
  <2>6. Agreed(u) BY <2>1, <2>2, <2>3, ConnectionAgreed
  <2>7. /\ u.charge.mutation = g.charge.mutation
        /\ g.charge.active /\ ~g.charge.exit => Owing(u.charge)
    BY <2>1, <2>3, ConnectionKept
  <2>8. v.charge.mutation = None => Informed(u, order)
    <3>1. Informed(v, order) => Informed(g, order) BY <2>1 DEF Informed
    <3> QED BY <2>1, <2>3, <3>1, ConnectionInformed
  <2> HIDE DEF u
  <2> QED BY <2>1, <2>4, <2>5, <2>6, <2>7, <2>8 DEF Owing
<1> HIDE DEF told
<1>5. /\ s1 \in {"login", "guard", "reconnect"} /\ s2 \in {"login", "guard", "reconnect"}
      /\ s3 \in {"login", "guard", "reconnect"}
  OBVIOUS
<1> HIDE DEF s1, s2, s3
<1>6. CASE v.charge.mutation = None
  <2>1. ~\E i \in DOMAIN v.api.ops : v.api.ops[i].live BY <1>2, <1>6 DEF Awaited
  <2>2. Accords(told) /\ Knows(told, order) BY <1>4, <1>6, KnowsIdle DEF Accords
  <2>3. Accords(a) /\ Knows(a, order) BY <1>5, <2>2, FailOfAgreed, FailOfKnows
  <2> HIDE DEF a
  <2>4. Accords(b) /\ Knows(b, order) BY <1>5, <2>3, FailOfAgreed, FailOfKnows
  <2> HIDE DEF b
  <2>5. Accords(reads) /\ Knows(reads, order) BY <1>5, <2>4, FailOfAgreed, FailOfKnows
  <2> HIDE DEF reads
  <2>6. failed = reads BY <2>1
  <2>7. Knows(Resent(reads), order) BY <2>5, SoundKnown, ResentKnows DEF Accords
  <2> QED BY <1>1, <2>6, <2>7
<1>7. CASE v.charge.mutation # None
  <2>1. \E i \in DOMAIN v.api.ops : v.api.ops[i].live BY <1>2, <1>7 DEF Awaited
  <2>2. Answered(told)
    <3>1. DOMAIN told.api.ops = {} BY <1>4, <1>7
    <3> QED BY <1>4, <1>7, <3>1 DEF Answered
  <2>3. told.main.page = "charge" BY <1>4, <1>7 DEF Seated
  <2>4. \A s \in {"login", "guard", "reconnect"} : s \notin Slots(told)
    BY <1>4, <2>3 DEF Seated
  <2>5. reads = told
    <3>1. a = told BY <1>5, <2>4, FailOf
    <3> HIDE DEF a
    <3>2. b = told BY <1>5, <2>4, <3>1, FailOf
    <3> HIDE DEF b
    <3> QED BY <1>5, <2>4, <3>2, FailOf
  <2> HIDE DEF reads
  <2>6. failed = mutationFailed(told, "uncertain") BY <2>1, <2>5
  <2>7. Leads(told, failed) /\ Owed(failed.charge)
    BY <1>4, <1>7, <2>2, <2>6, MutationFailed, RefusedKnows
  <2> HIDE DEF failed
  <2>8. Knows(failed, order) BY <2>7, KnowsOwed
  <2>9. Knows(Resent(failed), order) BY <2>7, <2>8, SoundKnown, ResentKnows DEF Leads
  <2> QED BY <1>1, <2>9
<1> QED BY <1>6, <1>7

\* Of one mutation at most the server has taken none or that one: the moves of other
\* terminals are as many as before.
LEMMA LostServer ==
  ASSUME server \in ServerState, api.ops \in Seq(SentMutation), Len(api.ops) <= 1,
         NEW k \in 0..Len(api.ops)
  PROVE  /\ takenFirst[k].elsewhere = server.elsewhere
         /\ api.ops = <<>> => takenFirst[k] = server
<1>1. \A i \in 0..Len(api.ops) :
        takenFirst[i] = IF i = 0 THEN server
                        ELSE took(takenFirst[i - 1], api.ops[i].op, api.ops[i].target)
  BY TakenFirstTakes DEF Takes
<1>2. Len(api.ops) \in Nat /\ (api.ops = <<>> => Len(api.ops) = 0) OBVIOUS
<1> HIDE DEF takenFirst
<1>3. 0 \in 0..Len(api.ops) /\ k \in {0, 1} BY <1>2
<1>4. takenFirst[0] = server BY <1>1, <1>3
<1>5. CASE k = 0 BY <1>4, <1>5
<1>6. CASE k = 1
  <2>1. takenFirst[1] = took(takenFirst[0], api.ops[1].op, api.ops[1].target)
    <3>1. 1 \in 0..Len(api.ops) /\ 1 # 0 /\ 1 - 1 = 0 BY <1>6
    <3> QED BY <1>1, <3>1
  <2>2. takenFirst[1].elsewhere = server.elsewhere BY <1>4, <2>1, TookElsewhere
  <2>3. api.ops # <<>> BY <1>2, <1>6
  <2> QED BY <1>6, <2>2, <2>3
<1> QED BY <1>3, <1>5, <1>6

LEMMA DisconnectServer ==
  ASSUME Sound(w), Careful(w), server \in ServerState, Disconnect
  PROVE  server'.elsewhere = server.elsewhere /\ (api.ops = <<>> => server' = server)
<1>1. w.api = api /\ api.ops \in Seq(SentMutation)
  BY ShellOf, SoundKnown, Parts DEF ApiState
<1>2. PICK k \in 0..Len(api.ops) : server' = takenFirst[k] BY DEF Disconnect
<1>3. Len(api.ops) <= 1
  <2>1. CASE api.ops = <<>> BY <2>1
  <2>2. CASE api.ops # <<>>
    <3>1. Len(api.ops) = 1 BY <1>1, <2>2, Zenon DEF Careful
    <3> QED BY <3>1
  <2> QED BY <2>1, <2>2
<1> QED BY <1>1, <1>2, <1>3, LostServer

LEMMA DisconnectKnows ==
  ASSUME Accords(w), Careful(w), server \in ServerState, Knows(w, server.order), Disconnect
  PROVE  Knows(w, server.order)'
<1>1. w.api = api /\ Sound(w) BY ShellOf DEF Accords
<1>2. api.ops = <<>> => server' = server BY <1>1, DisconnectServer
<1>3. ASSUME w.charge.mutation = None PROVE Informed(w, server'.order)
  <2>1. CASE api.ops = <<>> BY <1>2, <2>1 DEF Knows
  <2>2. CASE api.ops # <<>> BY <1>1, <1>3, <2>2 DEF Knows, Informed
  <2> QED BY <2>1, <2>2
<1>4. ASSUME w.charge.mutation # None
      PROVE  w.charge.active /\ ~w.charge.exit /\ ~w.charge.mutation.superseded
  <2>1. w.charge.active /\ \E i \in DOMAIN w.api.ops : w.api.ops[i].live
    BY <1>1, <1>4 DEF Sound, Awaited
  <2>2. w.api.ops # <<>> BY <2>1
  <2> QED BY <1>4, <2>1, <2>2 DEF Careful, Bound, Knows
<1>5. Knows(lost(w), server'.order) BY <1>1, <1>3, <1>4, LostKnows
<1>6. lost(w) \in Shell BY <1>1, LostSound, SoundKnown
<1>7. Becomes(lost(w), {}) BY DEF Disconnect
<1> QED BY <1>5, <1>6, <1>7, BecomesKnows

LEMMA ConnectKnows ==
  ASSUME Accords(w), Careful(w), Knows(w, server.order), Connect
  PROVE  Knows(w, server.order)'
<1> DEFINE x == Connected(w)
           no == FALSE
<1> HIDE DEF no
<1> DEFINE u == connectionChanged(x, no)
<1>1. w.api = api /\ Sound(w) BY ShellOf DEF Accords
<1>2. w.api.ops = <<>> BY <1>1 DEF Connect, Careful
<1>3. [w EXCEPT !.api.up = TRUE, !.api.replayed = DOMAIN api.reads] = x
  BY <1>1 DEF Connected
<1>4. Does(u) BY <1>3 DEF Connect, no
<1>5. Leads(w, u) BY <1>1, ConnectSound DEF no
<1>6. Linked(x) /\ x.charge = w.charge /\ x.main = w.main BY <1>1, ConnectedLinked
<1> HIDE DEF x
<1>7. Informed(x, server.order) BY <1>6 DEF Knows, Informed
<1>8. no \in BOOLEAN BY DEF no
<1>9. Informed(u, server.order) BY <1>6, <1>7, <1>8, ConnectionInformed
<1> HIDE DEF u
<1>10. Knows(u, server.order) BY <1>2, <1>5, <1>9, KnowsIdle DEF Leads
<1> QED BY <1>4, <1>5, <1>10, SoundKnown, DoesKnows DEF Leads

-----------------------------------------------------------------------------
(* Every step, and what follows.                                           *)

\* As long as no other terminal has moved the order.
Followed == server.elsewhere = 0 => Knows(w, server.order)

\* A move of another terminal is counted for good, and nothing else counts as one.
LEMMA ElsewhereStep ==
  ASSUME server \in ServerState, Elsewhere
  PROVE  server'.elsewhere # 0
<1> DEFINE over == [server EXCEPT !.order = None]
           onward == {took(server, op, server.order.id) : op \in Mutation \ {"reserve"}}
<1>1. PICK c \in Charger :
        \E s \in {took(server, "reserve", c), took(over, "reserve", c), over}
                 \cup (IF server.order = None THEN {} ELSE onward) :
          s # server /\ server' = [s EXCEPT !.elsewhere = @ + 1]
  BY DEF Elsewhere
<1>2. PICK s \in {took(server, "reserve", c), took(over, "reserve", c), over} \cup onward :
        server' = [s EXCEPT !.elsewhere = @ + 1]
  BY <1>1
<1>3. over \in ServerState BY DEF ServerState, Maybe
<1>4. s \in ServerState BY <1>2, <1>3, Took DEF Asks, Mutation
<1>5. s.elsewhere \in 0..MaxElsewhere /\ MaxElsewhere \in Nat
  BY <1>4, BoundAssumption DEF ServerState
<1>6. server'.elsewhere = s.elsewhere + 1 BY <1>2, <1>4 DEF ServerState
<1> QED BY <1>5, <1>6

LEMMA MutationElsewhere ==
  ASSUME Accords(w), server \in ServerState, handleMutation
  PROVE  server'.elsewhere = server.elsewhere
<1> DEFINE m == api.ops[1]
<1>1. server' = server \/ server' = took(server, m.op, m.target)
  BY DEF handleMutation, Does
<1> QED BY <1>1, TookElsewhere

LEMMA FollowedStep ==
  ASSUME IInv, Careful(w), Agreed(w), Followed, [Next]_vars
  PROVE  Followed'
<1>1. Accords(w) /\ Sound(w) /\ server \in ServerState BY DEF IInv, Accords
<1>2. CASE Elsewhere BY <1>1, <1>2, ElsewhereStep DEF Followed
<1>3. ASSUME Knows(w, server.order), Next, ~Elsewhere
      PROVE  Knows(w, server.order)'
  <2>1. CASE Press
    BY <1>1, <1>3, <2>1, LoginKnows, TurnKnows, OrderKnows, QuietKnows, MutationKnows
    DEF Press
  <2>2. CASE Answer
    <3>1. CASE handleMutation BY <1>1, <1>3, <3>1, OutcomeKnows
    <3>2. CASE ~handleMutation
      <4>1. server' = server BY <2>2, <3>2, AnswerLeavesServer
      <4> QED
        BY <1>1, <1>3, <2>2, <3>2, <4>1, LoginKnows, AnswerKnows, FailureKnows, TimeoutKnows,
           QuietKnows
        DEF Answer
    <3> QED BY <3>1, <3>2
  <2>3. CASE pollTimer BY <1>1, <1>3, <2>3, QuietKnows
  <2>4. CASE Disconnect BY <1>1, <1>3, <2>4, DisconnectKnows
  <2>5. CASE Connect BY <1>1, <1>3, <2>5, ConnectKnows
  <2> QED BY <1>3, <2>1, <2>2, <2>3, <2>4, <2>5 DEF Next
<1>4. ASSUME Next, ~Elsewhere PROVE server'.elsewhere = server.elsewhere
  <2>1. CASE Press \/ pollTimer BY <2>1, PressLeavesServer
  <2>2. CASE Answer BY <1>1, <2>2, AnswerLeavesServer, MutationElsewhere
  <2>3. CASE Disconnect BY <1>1, <2>3, DisconnectServer
  <2>4. CASE Connect BY <2>4 DEF Connect, Does
  <2> QED BY <1>4, <2>1, <2>2, <2>3, <2>4 DEF Next
<1>5. CASE Next /\ ~Elsewhere BY <1>3, <1>4, <1>5 DEF Followed
<1>6. CASE UNCHANGED vars
  <2>1. w' = w /\ server' = server BY <1>6, ElsewhereSame DEF vars
  <2> QED BY <2>1 DEF Followed
<1> QED BY <1>2, <1>5, <1>6

LEMMA FollowedInit == ASSUME Init PROVE Followed
<1>1. w.main.page = "login" /\ w.charge.mutation = None BY ShellOf DEF Init
<1> QED BY <1>1 DEF Followed, Knows, Informed

\* While no other terminal acts, the window knows the order that the server has, or the
\* page of an order is still to read it, or nobody is signed in; and no mutation of an
\* older order is under way: the inductive invariant of the theorem below.
THEOREM FollowedAlways == Spec => []Followed
<1>1. Init => IInv /\ Careful(w) /\ Agreed(w) /\ Followed
  BY SoundInit, CarefulInit, AgreedInit, FollowedInit
<1>2. IInv /\ Careful(w) /\ Agreed(w) /\ Followed /\ [Next]_vars =>
        IInv' /\ Careful(w)' /\ Agreed(w)' /\ Followed'
  BY IInvStep, CarefulStep, AgreedStep, FollowedStep
<1> QED BY <1>1, <1>2, PTL DEF Spec

\* While this terminal is the only one of its account, a button of the page of an order
\* acts on the order that the server has, in the state that it has there, or makes one
\* when it has none: through answers that were computed earlier, outcomes that are not
\* known, timeouts and losses of the connection.
THEOREM CurrentActedOn == Spec => []ActsOnCurrentOrder
<1>1. ASSUME IInv, Agreed(w), Followed PROVE ActsOnCurrentOrder
  <2> SUFFICES ASSUME charge.buttons \cap Mutation # {}, server.elsewhere = 0
               PROVE  charge.order = server.order
    BY DEF ActsOnCurrentOrder
  <2>1. /\ w.charge = charge /\ w.main = main /\ Rendered(w) /\ Seated(w)
        /\ Knows(w, server.order)
    BY <1>1, ShellOf DEF IInv, Sound, Whole, Followed
  <2>2. charge.active /\ ~charge.reconcile /\ Offers(charge) # {}
    <3>1. PICK op \in Mutation : op \in Usable(w)
      BY <2>1 DEF Rendered, Mutation
    <3>2. op # "back" BY DEF Mutation
    <3> QED BY <2>1, <3>1, <3>2 DEF Usable
  <2>3. main.authority = server.order
    BY <2>1, <2>2 DEF Knows, Informed, Owed, Seated
  <2>4. charge.order = None \/ isActive(charge.order)
    BY <2>2 DEF Offers, isActive, Active
  <2>5. main.authority = Current(charge.order) BY <1>1, <2>1, <2>2 DEF Agreed
  <2> QED BY <2>3, <2>4, <2>5 DEF Current
<1> QED BY <1>1, Invariant, AgreedAlways, FollowedAlways, PTL

(***************************************************************************)
(* The search: the page of stations never loses its button, by what every  *)
(* handler of the window leaves of the list that is awaited, of the search *)
(* it may be for and of the button.                                        *)
(***************************************************************************)
\* What a handler needs to find the marks of the page of stations.
Shaped(v) ==
  /\ {"api", "nearby"} \subseteq DOMAIN v /\ "up" \in DOMAIN v.api
  /\ {"list", "foreground", "geocode", "search"} \subseteq DOMAIN v.nearby
  /\ v.nearby.list \in Maybe(StationList)

\* A list that is awaited is for the search as it is, and a search that is under way
\* awaits its address or its list.
Listing(v) ==
  LET n == v.nearby
  IN  /\ n.list # None => n.list.fits
      /\ n.foreground => n.geocode \/ n.list # None
      /\ n.foreground /\ n.list # None => n.list.kind = "foreground"

\* The search is allowed, or one is under way.
Trying(v) == LET n == v.nearby IN v.api.up => n.search \/ n.geocode \/ n.list # None

Searching(v) == Listing(v) /\ Trying(v)

\* What a handler that is not one of the search leaves.
Rests(v, u) ==
  Shaped(v) => /\ Shaped(u) /\ u.api.up = v.api.up
               /\ Listing(v) => Listing(u)
               /\ Searching(v) => Searching(u)

\* A step of the rest of the window.
Still(v, u) == Shaped(v) => Shaped(u) /\ u.api.up = v.api.up /\ u.nearby = v.nearby

LEMMA StillRests == ASSUME NEW v, NEW u, Still(v, u) PROVE Rests(v, u)
BY DEF Still, Rests, Searching, Listing, Trying

LEMMA StillTrans == ASSUME NEW a, NEW b, NEW c, Still(a, b), Still(b, c) PROVE Still(a, c)
BY DEF Still

LEMMA RestsTrans == ASSUME NEW a, NEW b, NEW c, Rests(a, b), Rests(b, c) PROVE Rests(a, c)
BY DEF Rests

LEMMA RestsSelf == ASSUME NEW v PROVE Still(v, v) /\ Rests(v, v)
BY DEF Still, Rests

-----------------------------------------------------------------------------
(* The reads, and the list and the refresh that are given up.              *)

LEMMA ReadsStill ==
  ASSUME NEW v, NEW slot
  PROVE  /\ Still(v, send(v, slot)) /\ Still(v, cancelSafeReads(v, slot))
         /\ Still(v, cancelAll(v)) /\ Still(v, invalidateChargeReads(v))
         /\ Still(v, adoptMutationReadEpoch(v)) /\ Still(v, render(v))
         /\ Still(v, cancelDetails(v, slot)) /\ Still(v, sendDetail(v, slot))
BY DEF Still, Shaped, send, cancelSafeReads, cancelAll, invalidateChargeReads,
       adoptMutationReadEpoch, render, cancelDetails, sendDetail

\* The list is given up.
LEMMA ListGivenUp ==
  ASSUME NEW v, Shaped(v)
  PROVE  LET u == cancelPendingStationList(v) IN
         /\ Shaped(u) /\ u.api.up = v.api.up /\ u.nearby.list = None
         /\ u.nearby.foreground = v.nearby.foreground
         /\ u.nearby.geocode = v.nearby.geocode
         /\ ~v.nearby.foreground => (Trying(u) /\ Listing(u))
<1> DEFINE x == cancelSafeReads(v, {"list"})
           y == [x EXCEPT !.nearby.list = None]
           u == cancelPendingStationList(v)
<1>1. Shaped(x) /\ x.api.up = v.api.up /\ x.nearby = v.nearby BY ReadsStill DEF Still
<1>2. u = IF v.nearby.foreground THEN y ELSE setSearchPending(y, FALSE)
  BY DEF cancelPendingStationList
<1> HIDE DEF x, u
<1>3. /\ Shaped(y) /\ y.api.up = v.api.up /\ y.nearby.list = None
      /\ y.nearby.foreground = v.nearby.foreground /\ y.nearby.geocode = v.nearby.geocode
  BY <1>1, NoneFits DEF Shaped
<1> HIDE DEF y
<1>4. /\ Shaped(u) /\ u.api.up = v.api.up /\ u.nearby.list = None
      /\ u.nearby.foreground = v.nearby.foreground /\ u.nearby.geocode = v.nearby.geocode
      /\ ~v.nearby.foreground => (u.api.up => u.nearby.search)
  BY <1>2, <1>3 DEF Shaped, setSearchPending
<1> QED BY <1>4 DEF u, Listing, Trying

LEMMA RefreshGivenUp ==
  ASSUME NEW v
  PROVE  LET u == cancelChargeRefresh(v) IN
         /\ Rests(v, u)
         /\ Shaped(v) => u.nearby.foreground = v.nearby.foreground
<1> DEFINE x == cancelPendingStationList(v)
           b == v.nearby.list # None /\ v.nearby.list.kind = "charge"
           y == IF b THEN x ELSE v
           u == cancelChargeRefresh(v)
<1> SUFFICES ASSUME Shaped(v)
             PROVE  Rests(v, u) /\ u.nearby.foreground = v.nearby.foreground
  BY DEF Rests
<1>1. Shaped(y) /\ y.api.up = v.api.up /\ y.nearby.foreground = v.nearby.foreground
  BY ListGivenUp
<1>2. Listing(v) /\ b => Listing(x) /\ Trying(x)
  <2>1. Listing(v) /\ b => ~v.nearby.foreground BY DEF Listing
  <2> QED BY <2>1, ListGivenUp
<1>3. Rests(v, y) BY <1>1, <1>2 DEF Rests, Searching
<1>4. u = [y EXCEPT !.nearby.refresh = None] BY DEF cancelChargeRefresh, resetChargeRefresh
<1> HIDE DEF x, y, u
<1>5. /\ Shaped(u) /\ u.api.up = y.api.up /\ u.nearby.list = y.nearby.list
      /\ u.nearby.foreground = y.nearby.foreground /\ u.nearby.geocode = y.nearby.geocode
      /\ u.nearby.search = y.nearby.search
  BY <1>1, <1>4 DEF Shaped
<1>6. Rests(y, u) BY <1>5 DEF Rests, Searching, Listing, Trying
<1>7. Rests(v, u) BY <1>3, <1>6, RestsTrans
<1> QED BY <1>1, <1>5, <1>7

\* A step that leaves the marks of the search alone.
LEMMA MarksRest ==
  ASSUME NEW v, NEW u,
         Shaped(v) => /\ Shaped(u) /\ u.api.up = v.api.up /\ u.nearby.list = v.nearby.list
                      /\ u.nearby.foreground = v.nearby.foreground
                      /\ u.nearby.geocode = v.nearby.geocode
                      /\ u.nearby.search = v.nearby.search
  PROVE  Rests(v, u)
BY DEF Rests, Searching, Listing, Trying

LEMMA OwnedGivenUp ==
  ASSUME NEW v
  PROVE  Rests(v, cancelOwnedSafeReads(v)) /\ Rests(v, invalidateSafeReads(v))
<1>1. ASSUME NEW z PROVE Rests(z, cancelOwnedSafeReads(z))
  <2> DEFINE x == cancelSafeReads(z, {"page", "facts"})
             y == [x EXCEPT !.charge.read = None, !.charge.facts = None, !.charge.gate = FALSE,
                            !.charge.attempt = IF z.charge.exit THEN 0 ELSE @,
                            !.charge.current = TRUE]
             u == cancelOwnedSafeReads(z)
  <2>1. u = cancelChargeRefresh(y) BY DEF cancelOwnedSafeReads
  <2>2. Still(z, x) BY ReadsStill
  <2> HIDE DEF x, u
  <2>3. Still(x, y) BY DEF Still, Shaped
  <2> HIDE DEF y
  <2>4. Rests(y, u) BY <2>1, RefreshGivenUp
  <2>5. Rests(z, u) BY <2>2, <2>3, <2>4, StillTrans, StillRests, RestsTrans
  <2> QED BY <2>5 DEF u
<1> DEFINE x == invalidateChargeReads(v)
<1>2. Rests(v, x) BY ReadsStill, StillRests
<1>3. invalidateSafeReads(v) = cancelOwnedSafeReads(x) BY DEF invalidateSafeReads
<1> HIDE DEF x
<1>4. Rests(v, invalidateSafeReads(v)) BY <1>1, <1>2, <1>3, RestsTrans
<1> QED BY <1>1, <1>4

-----------------------------------------------------------------------------
(* The page of an order.                                                   *)

LEMMA InvalidateRests ==
  ASSUME NEW v
  PROVE  Rests(v, invalidateSelection(v)) /\ Rests(v, applySelectionInvalidation(v))
<1>1. ASSUME NEW z PROVE Rests(z, invalidateSelection(z))
  <2> DEFINE t == [z EXCEPT !.charge.selection = None]
             s == [t EXCEPT !.charge.associated = None]
             g == cancelOwnedSafeReads(s)
             y == [g EXCEPT !.charge.selGen = 1, !.charge.noOrder = TRUE,
                            !.charge.reconcile = FALSE, !.charge.factsFailed = FALSE]
             x == [t EXCEPT !.charge.selGen = 0]
             u == invalidateSelection(z)
  <2>1. u \in {z, render(y), render(x)} BY DEF invalidateSelection
  <2>2. Still(z, x) /\ Still(z, s) BY DEF Still, Shaped
  <2> HIDE DEF u, x, s
  <2>3. Rests(s, g) BY OwnedGivenUp
  <2> HIDE DEF g
  <2>4. Still(g, y) BY DEF Still, Shaped
  <2> HIDE DEF y
  <2>5. Still(y, render(y)) /\ Still(x, render(x)) BY ReadsStill
  <2>6. Rests(z, y) BY <2>2, <2>3, <2>4, StillRests, RestsTrans
  <2>7. Rests(z, render(y)) /\ Rests(z, render(x))
    BY <2>2, <2>5, <2>6, StillTrans, StillRests, RestsTrans
  <2>8. Rests(z, u) BY <2>1, <2>7, RestsSelf
  <2> QED BY <2>8 DEF u
<1> DEFINE x == [v EXCEPT !.main.remembered = None]
<1>2. Still(v, x) BY DEF Still, Shaped
<1>3. applySelectionInvalidation(v) = invalidateSelection(x) BY DEF applySelectionInvalidation
<1> HIDE DEF x
<1>4. Rests(v, applySelectionInvalidation(v)) BY <1>1, <1>2, <1>3, StillRests, RestsTrans
<1> QED BY <1>1, <1>4

LEMMA ShownRests ==
  ASSUME NEW v
  PROVE  Rests(v, Shown(v))
<1> DEFINE b == chargeFlowBlocked(v.charge)
           x == [v EXCEPT !.charge.reported = b, !.main.blocked = b]
           y == [x EXCEPT !.main.deferred = FALSE]
           t == updateChargeFlowBlock(v)
<1>1. t \in {v, x, applySelectionInvalidation(y)} BY DEF updateChargeFlowBlock
<1>2. Shown(v) = render(t) BY DEF Shown
<1> HIDE DEF b, t
<1>3. Still(v, x) BY DEF Still, Shaped
<1> HIDE DEF x
<1>4. Still(x, y) BY DEF Still, Shaped
<1> HIDE DEF y
<1>5. Rests(v, applySelectionInvalidation(y))
  BY <1>3, <1>4, StillTrans, StillRests, InvalidateRests, RestsTrans
<1>6. Rests(v, t) BY <1>1, <1>3, <1>5, StillRests, RestsSelf
<1> QED BY <1>2, <1>6, ReadsStill, StillRests, RestsTrans

\* What a page that is shown after a quiet step leaves.
LEMMA ShownAfter ==
  ASSUME NEW v, NEW u, Rests(v, u) PROVE Rests(v, Shown(u))
BY ShownRests, RestsTrans

LEMMA RenderAfter ==
  ASSUME NEW v, NEW u, Rests(v, u) PROVE Rests(v, render(u))
BY ReadsStill, StillRests, RestsTrans

LEMMA RefreshToldRests ==
  ASSUME NEW v, NEW attempt
  PROVE  /\ Rests(v, nearbyRefreshCommitted(v, attempt))
         /\ Rests(v, nearbyRefreshFailed(v, attempt))
         /\ Rests(v, nearbyRefreshUnavailable(v, attempt))
<1> DEFINE x == cancelSafeReads(v, {"facts"})
           a == endExitRefresh(v)
           e == endExitRefresh(x)
           b == [x EXCEPT !.charge.facts = None, !.charge.gate = TRUE,
                          !.charge.factsFailed = TRUE,
                          !.charge.exitFailed = TRUE, !.charge.reconcile = TRUE]
           c == [e EXCEPT !.charge.facts = None, !.charge.gate = FALSE,
                          !.charge.factsFailed = FALSE, !.charge.reconcile = ~v.api.up,
                          !.charge.selection = None, !.charge.selGen = 0,
                          !.main.remembered = None]
<1>1. nearbyRefreshCommitted(v, attempt) \in {v, Shown(a)} BY DEF nearbyRefreshCommitted
<1>2. nearbyRefreshFailed(v, attempt) \in {v, Shown(b)} BY DEF nearbyRefreshFailed
<1>3. nearbyRefreshUnavailable(v, attempt) \in {v, Shown(c)} BY DEF nearbyRefreshUnavailable
<1>4. Still(v, x) BY ReadsStill
<1> HIDE DEF x
<1>5. Still(v, a) /\ Still(x, e) BY DEF Still, Shaped, endExitRefresh
<1>6. Still(x, b) BY DEF Still, Shaped
<1> HIDE DEF e
<1>7. Still(e, c) BY DEF Still, Shaped
<1> HIDE DEF a, b, c
<1>8. Rests(v, a) /\ Rests(v, b) /\ Rests(v, c)
  BY <1>4, <1>5, <1>6, <1>7, StillTrans, StillRests
<1> QED BY <1>1, <1>2, <1>3, <1>8, ShownAfter, RestsSelf

-----------------------------------------------------------------------------
(* The page of stations, but for its list and its searches.                *)

LEMMA GenerationRests ==
  ASSUME NEW v
  PROVE  /\ Rests(v, nextSelection(v)) /\ Rests(v, withdrawn(v))
         /\ Rests(v, invalidateNearbySelection(v))
<1> DEFINE gone(x) == IF x = None THEN None ELSE [x EXCEPT !.valid = FALSE]
           x == nextSelection(v)
           y == withdrawn(v)
           u == invalidateNearbySelection(v)
<1>1. Rests(v, x)
  <2> SUFFICES ASSUME Shaped(v) PROVE Rests(v, x) BY DEF Rests
  <2> DEFINE l == aged(v.nearby.list)
  <2>1. /\ l \in Maybe(StationList) /\ (l = None <=> v.nearby.list = None)
        /\ v.nearby.list # None => l.kind = v.nearby.list.kind /\ l.fits = v.nearby.list.fits
    BY AgedMaybe DEF Shaped, aged, Maybe, StationList
  <2>2. /\ x.nearby.list = l /\ x.api.up = v.api.up
        /\ x.nearby.foreground = v.nearby.foreground /\ x.nearby.geocode = v.nearby.geocode
        /\ x.nearby.search = v.nearby.search
        /\ {"api", "nearby"} \subseteq DOMAIN x /\ "up" \in DOMAIN x.api
        /\ {"list", "foreground", "geocode", "search"} \subseteq DOMAIN x.nearby
    BY DEF Shaped, nextSelection
  <2> HIDE DEF l, x
  <2> QED BY <2>1, <2>2 DEF Rests, Shaped, Searching, Listing, Trying
<1>2. y = [x EXCEPT !.charge.selection = gone(@), !.main.remembered = gone(@)]
  BY Zenon DEF withdrawn
<1>3. u \in {[y EXCEPT !.main.deferred = TRUE], applySelectionInvalidation(y)}
  BY DEF invalidateNearbySelection
<1> HIDE DEF x, gone, u
<1>4. Still(x, y) BY <1>2 DEF Still, Shaped
<1> HIDE DEF y
<1>5. Still(y, [y EXCEPT !.main.deferred = TRUE]) BY DEF Still, Shaped
<1>6. Rests(v, y) BY <1>1, <1>4, StillRests, RestsTrans
<1>7. Rests(v, u)
  <2>1. Rests(v, [y EXCEPT !.main.deferred = TRUE]) BY <1>5, <1>6, StillRests, RestsTrans
  <2>2. Rests(v, applySelectionInvalidation(y)) BY <1>6, InvalidateRests, RestsTrans
  <2> QED BY <1>3, <2>1, <2>2
<1> QED BY <1>1, <1>6, <1>7 DEF x, y, u

LEMMA MarkedRests ==
  ASSUME NEW v, NEW b
  PROVE  /\ Rests(v, setDetailControlsEnabled(v, b)) /\ Rests(v, resetChargeRefresh(v))
         /\ Rests(v, [v EXCEPT !.nearby.shown = b])
         /\ Rests(v, [v EXCEPT !.nearby.detail = b])
         /\ Rests(v, [v EXCEPT !.nearby.known = b])
         /\ Rests(v, [v EXCEPT !.nearby.superseded = b])
         /\ Rests(v, supersedeDetail(v)) /\ Rests(v, cancelDetail(v))
         /\ Rests(v, cancelEveryDetail(v))
<1>1. /\ Rests(v, setDetailControlsEnabled(v, b)) /\ Rests(v, resetChargeRefresh(v))
      /\ Rests(v, [v EXCEPT !.nearby.shown = b])
      /\ Rests(v, [v EXCEPT !.nearby.known = b])
  BY DEF Rests, Shaped, Searching, Listing, Trying, setDetailControlsEnabled,
         resetChargeRefresh
<1>2. ASSUME NEW z, NEW c PROVE Rests(z, [z EXCEPT !.nearby.detail = c])
  BY DEF Rests, Shaped, Searching, Listing, Trying
<1>3. ASSUME NEW z, NEW c PROVE Rests(z, [z EXCEPT !.nearby.superseded = c])
  BY DEF Rests, Shaped, Searching, Listing, Trying
<1>4. Rests(v, supersedeDetail(v))
  BY DEF supersedeDetail, Rests, Shaped, Searching, Listing, Trying
<1>5. ASSUME NEW z PROVE Rests(z, cancelDetail(z))
  <2> DEFINE t == cancelDetails(z, awaitedDetail(z))
  <2>1. Rests(z, t) BY ReadsStill, StillRests
  <2>2. cancelDetail(z) = [t EXCEPT !.nearby.detail = None] BY DEF cancelDetail
  <2> HIDE DEF t
  <2> QED BY <1>2, <2>1, <2>2, RestsTrans
<1>6. Rests(v, cancelEveryDetail(v))
  <2> DEFINE t == cancelDetails(v, v.nearby.superseded)
             y == cancelDetail(t)
  <2>1. Rests(v, t) BY ReadsStill, StillRests
  <2>2. cancelEveryDetail(v) = [y EXCEPT !.nearby.superseded = {}] BY DEF cancelEveryDetail
  <2> HIDE DEF t
  <2>3. Rests(t, y) BY <1>5
  <2> HIDE DEF y
  <2> QED BY <1>3, <2>1, <2>2, <2>3, RestsTrans
<1> QED BY <1>1, <1>2, <1>3, <1>4, <1>5, <1>6

LEMMA FinishRests ==
  ASSUME NEW v
  PROVE  /\ Rests(v, finishChargeRefreshUnavailable(v))
         /\ Rests(v, finishChargeRefreshFailed(v))
         /\ Rests(v, finishChargeRefreshIfReady(v))
         /\ Rests(v, abandonChargeRefresh(v))
<1> DEFINE x == resetChargeRefresh(v)
           g == cancelChargeRefresh(v)
           y == [x EXCEPT !.nearby.shown = TRUE]
           a == v.nearby.refresh.attempt
<1>1. finishChargeRefreshUnavailable(v) \in {v, nearbyRefreshUnavailable(x, a)}
  BY DEF finishChargeRefreshUnavailable
<1>2. finishChargeRefreshFailed(v) \in {v, nearbyRefreshFailed(g, a)}
  BY DEF finishChargeRefreshFailed
<1>3. finishChargeRefreshIfReady(v) \in {v, nearbyRefreshCommitted(y, a)}
  BY DEF finishChargeRefreshIfReady
<1>4. abandonChargeRefresh(v) \in {g, nearbyRefreshUnavailable(g, a)}
  BY DEF abandonChargeRefresh
<1>5. Rests(v, x) /\ Rests(v, g) BY MarkedRests, RefreshGivenUp
<1> HIDE DEF x, g, a
<1>6. Rests(x, y) BY MarkedRests
<1> HIDE DEF y
<1>7. /\ Rests(v, nearbyRefreshUnavailable(x, a)) /\ Rests(v, nearbyRefreshFailed(g, a))
      /\ Rests(v, nearbyRefreshCommitted(y, a)) /\ Rests(v, nearbyRefreshUnavailable(g, a))
  BY <1>5, <1>6, RefreshToldRests, RestsTrans
<1> QED BY <1>1, <1>2, <1>3, <1>4, <1>5, <1>7, RestsSelf

LEMMA DetailRests ==
  ASSUME NEW v, NEW attempt
  PROVE  /\ Rests(v, applyChargeStationDetail(v, attempt))
         /\ Rests(v, failChargeStationDetail(v, attempt))
<1> DEFINE y == [v EXCEPT !.nearby.refresh.detailApplied = TRUE]
<1>1. applyChargeStationDetail(v, attempt)
        \in {v, finishChargeRefreshUnavailable(v), finishChargeRefreshIfReady(y)}
  BY DEF applyChargeStationDetail
<1>2. failChargeStationDetail(v, attempt) \in {v, finishChargeRefreshFailed(v)}
  BY DEF failChargeStationDetail
<1>3. Rests(v, y) BY DEF Rests, Shaped, Searching, Listing, Trying
<1> HIDE DEF y
<1>4. Rests(v, finishChargeRefreshIfReady(y)) BY <1>3, FinishRests, RestsTrans
<1> QED BY <1>1, <1>2, <1>4, FinishRests, RestsSelf

-----------------------------------------------------------------------------
(* The list of stations.                                                   *)

LEMMA NextSearchMarks ==
  ASSUME NEW v, Shaped(v)
  PROVE  LET u == nextSearch(v) IN
         /\ Shaped(u) /\ u.api.up = v.api.up
         /\ v.nearby.list = None => u.nearby.list = None
         /\ u.nearby.foreground = v.nearby.foreground /\ u.nearby.geocode = v.nearby.geocode
         /\ u.nearby.search = v.nearby.search
<1> DEFINE l == unfit(v.nearby.list)
           u == nextSearch(v)
<1>1. l \in Maybe(StationList) /\ (l = None <=> v.nearby.list = None)
  BY AgedMaybe DEF Shaped
<1>2. /\ u.nearby.list = l /\ u.api.up = v.api.up
      /\ u.nearby.foreground = v.nearby.foreground /\ u.nearby.geocode = v.nearby.geocode
      /\ u.nearby.search = v.nearby.search
      /\ {"api", "nearby"} \subseteq DOMAIN u /\ "up" \in DOMAIN u.api
      /\ {"list", "foreground", "geocode", "search"} \subseteq DOMAIN u.nearby
  BY DEF Shaped, nextSearch
<1> HIDE DEF l, u
<1>3. Shaped(u) BY <1>1, <1>2 DEF Shaped
<1> QED BY <1>1, <1>2, <1>3 DEF u

LEMMA SearchSetMarks ==
  ASSUME NEW v, NEW p, Shaped(v)
  PROVE  LET u == setSearchPending(v, p) IN
         /\ Shaped(u) /\ u.api.up = v.api.up /\ u.nearby.list = v.nearby.list
         /\ u.nearby.foreground = v.nearby.foreground /\ u.nearby.geocode = v.nearby.geocode
         /\ u.nearby.search = (v.api.up /\ ~p)
         /\ Listing(v) => Listing(u)
BY DEF Shaped, setSearchPending, Listing

\* The list that is asked for is awaited: it is for the search that is under way, or
\* there is none.
LEMMA StationsAsked ==
  ASSUME NEW v, Shaped(v), NEW kind \in {"foreground", "charge"}, NEW attempt,
         kind = "charge" => ~v.nearby.foreground
  PROVE  LET u == requestNearbyStations(v, kind, attempt) IN
         Shaped(u) /\ u.api.up = v.api.up /\ Searching(u)
<1> DEFINE q == IF kind = "charge" THEN cancelChargeRefresh(v) ELSE abandonChargeRefresh(v)
           quiet == cancelPendingStationList(q)
           z == setSearchPending(quiet, TRUE)
           x == nextSearch(z)
           l == [kind |-> kind, fresh |-> TRUE, fits |-> TRUE]
           r == IF kind # "charge" THEN x.nearby.refresh
                ELSE [attempt |-> attempt, fresh |-> TRUE, fits |-> TRUE,
                      listApplied |-> FALSE, detailApplied |-> FALSE]
           n == [x.nearby EXCEPT !.list = l, !.refresh = r]
           asked == [x EXCEPT !.nearby = n]
           I(a) == IF kind = "charge" THEN invalidateNearbySelection(a) ELSE a
           K(a) == IF a.nearby.detail = None THEN a
                   ELSE setDetailControlsEnabled(supersedeDetail(I(a)), TRUE)
           U(a) == IF kind = "charge" THEN send(K(a), "list")
                   ELSE setDetailControlsEnabled(send(K(a), "list"), FALSE)
           i == I(asked)
           d == supersedeDetail(i)
           given == setDetailControlsEnabled(d, TRUE)
           k == IF asked.nearby.detail = None THEN asked ELSE given
           sent == send(k, "list")
           u == IF kind = "charge" THEN sent ELSE setDetailControlsEnabled(sent, FALSE)
<1>1. requestNearbyStations(v, kind, attempt) = u
  <2>2. requestNearbyStations(v, kind, attempt) =
          U([x EXCEPT !.nearby.list = l,
                  !.nearby.refresh =
                     IF kind # "charge" THEN @
                     ELSE [attempt |-> attempt, fresh |-> TRUE, fits |-> TRUE,
                           listApplied |-> FALSE, detailApplied |-> FALSE]])
    BY Zenon DEF requestNearbyStations
  <2>3. U(asked) = u OBVIOUS
  <2> HIDE DEF U
  <2>1. [x EXCEPT !.nearby.list = l,
                  !.nearby.refresh =
                     IF kind # "charge" THEN @
                     ELSE [attempt |-> attempt, fresh |-> TRUE, fits |-> TRUE,
                           listApplied |-> FALSE, detailApplied |-> FALSE]]
        = asked
    OBVIOUS
  <2> HIDE DEF asked, u
  <2> QED BY <2>1, <2>2, <2>3
<1>2. /\ Shaped(q) /\ q.api.up = v.api.up
      /\ kind = "charge" => q.nearby.foreground = v.nearby.foreground
  BY RefreshGivenUp, FinishRests DEF Rests
<1> HIDE DEF q
<1>3. /\ Shaped(quiet) /\ quiet.api.up = v.api.up
      /\ quiet.nearby.foreground = q.nearby.foreground
  BY <1>2, ListGivenUp
<1> HIDE DEF quiet
<1>4. /\ Shaped(z) /\ z.api.up = v.api.up /\ z.nearby.foreground = q.nearby.foreground
  BY <1>3, SearchSetMarks
<1> HIDE DEF z
<1>5. /\ Shaped(x) /\ x.api.up = v.api.up /\ x.nearby.foreground = q.nearby.foreground
  BY <1>4, NextSearchMarks
<1> HIDE DEF x, r
<1>6. /\ l \in Maybe(StationList) /\ l # None /\ l.fits /\ l.kind = kind
  <2>1. l \in StationList BY DEF StationList
  <2> QED BY <2>1, NoneAssumption DEF Maybe
<1> HIDE DEF l
<1>7. /\ Shaped(asked) /\ asked.api.up = v.api.up /\ asked.nearby.list = l
      /\ asked.nearby.foreground = x.nearby.foreground
  BY <1>5, <1>6 DEF Shaped
<1> HIDE DEF asked
<1>8. Searching(asked) BY <1>2, <1>5, <1>6, <1>7 DEF Searching, Listing, Trying
<1>9. Rests(asked, i) BY GenerationRests, RestsSelf
<1> HIDE DEF i
<1>10. Rests(i, d) BY MarkedRests
<1> HIDE DEF d
<1>11. Rests(d, given) BY MarkedRests
<1> HIDE DEF given
<1>12. Rests(asked, k) BY <1>9, <1>10, <1>11, RestsTrans, RestsSelf
<1> HIDE DEF k
<1>13. Rests(k, sent) BY ReadsStill, StillRests
<1> HIDE DEF sent
<1>14. Rests(sent, u) BY MarkedRests, RestsSelf
<1> HIDE DEF u
<1>15. Rests(asked, u) BY <1>12, <1>13, <1>14, RestsTrans
<1> QED BY <1>1, <1>7, <1>8, <1>15 DEF Rests

LEMMA RefreshAfterRests ==
  ASSUME NEW v, NEW attempt
  PROVE  Rests(v, refreshAfterCharge(v, attempt))
<1> DEFINE u == requestNearbyStations(v, "charge", attempt)
<1>1. CASE refreshAfterCharge(v, attempt) = nearbyRefreshUnavailable(v, attempt)
  BY <1>1, RefreshToldRests
<1>2. CASE ~v.nearby.foreground /\ refreshAfterCharge(v, attempt) = u
  <2>1. Shaped(v) => Shaped(u) /\ u.api.up = v.api.up /\ Searching(u)
    BY <1>2, StationsAsked
  <2> HIDE DEF u
  <2> QED BY <1>2, <2>1 DEF Rests, Searching
<1> QED BY <1>1, <1>2 DEF refreshAfterCharge

\* What a handler of the search leaves.
Seeks(v, u) == Shaped(u) /\ u.api.up = v.api.up /\ Searching(u)

\* The handlers below find a list that is awaited.
Found(v) == Shaped(v) /\ Listing(v) /\ v.nearby.list # None

LEMMA SeeksOn ==
  ASSUME NEW a, NEW b, NEW c, Seeks(a, b), Rests(b, c) PROVE Seeks(a, c)
BY DEF Seeks, Rests

LEMMA ListIgnoredSeeks ==
  ASSUME NEW v, Found(v)
  PROVE  Seeks(v, listOver(v)) /\ Seeks(v, listIgnored(v))
<1> DEFINE f == v.nearby.foreground /\ v.nearby.list.kind # "foreground"
           x == [v EXCEPT !.nearby.list = None, !.nearby.foreground = f]
           u == listOver(v)
<1>1. u = setSearchPending(x, FALSE) BY DEF listOver
<1>2. ~f BY DEF Found, Listing
<1> HIDE DEF u, f
<1>3. /\ Shaped(x) /\ x.api.up = v.api.up /\ x.nearby.list = None /\ x.nearby.foreground = f
  BY NoneFits DEF Shaped, Found
<1> HIDE DEF x
<1>4. /\ Shaped(u) /\ u.api.up = v.api.up /\ u.nearby.list = None /\ u.nearby.foreground = f
      /\ u.nearby.search = (v.api.up /\ ~FALSE)
  BY <1>1, <1>3, SearchSetMarks
<1>5. Seeks(v, u) BY <1>2, <1>4 DEF Seeks, Searching, Listing, Trying
<1>6. listIgnored(v) \in {u, finishChargeRefreshUnavailable(u)} BY DEF listIgnored, u
<1>7. Seeks(v, finishChargeRefreshUnavailable(u)) BY <1>5, FinishRests, SeeksOn
<1> QED BY <1>5, <1>6, <1>7 DEF u

\* The list of a search that another has followed was given up with it.
LEMMA StaleCharge ==
  ASSUME NEW v, Found(v), listStale(v)
  PROVE  v.nearby.list.kind = "charge" /\ ~v.nearby.foreground
BY DEF Found, Listing, listStale

LEMMA StationsFailedSeeks ==
  ASSUME NEW v, Found(v)
  PROVE  Seeks(v, nearbyStationsFailed(v))
<1> DEFINE i == listIgnored(v)
           x == listOver(v)
           y == setDetailControlsEnabled(x, TRUE)
           f == v.nearby.foreground
           z == [i EXCEPT !.nearby.foreground = f]
           u == nearbyStationsFailed(v)
<1>1. CASE listStale(v)
  <2>1. u = z BY <1>1 DEF nearbyStationsFailed
  <2>2. Seeks(v, i) BY ListIgnoredSeeks
  <2>3. ~f BY <1>1, StaleCharge
  <2> HIDE DEF i, u, f
  <2>4. /\ Shaped(z) /\ z.api.up = i.api.up /\ z.nearby.list = i.nearby.list
        /\ z.nearby.foreground = f /\ z.nearby.geocode = i.nearby.geocode
        /\ z.nearby.search = i.nearby.search
    BY <2>2 DEF Shaped, Seeks
  <2> HIDE DEF z
  <2>5. Seeks(v, z) BY <2>2, <2>3, <2>4 DEF Seeks, Searching, Listing, Trying
  <2> QED BY <2>1, <2>5 DEF u
<1>2. CASE ~listStale(v)
  <2>1. u \in {y, finishChargeRefreshFailed(y)} BY <1>2 DEF nearbyStationsFailed
  <2>2. Seeks(v, x) BY ListIgnoredSeeks
  <2> HIDE DEF x, u
  <2>3. Seeks(v, y) BY <2>2, MarkedRests, SeeksOn
  <2> HIDE DEF y
  <2>4. Seeks(v, finishChargeRefreshFailed(y)) BY <2>3, FinishRests, SeeksOn
  <2>5. Seeks(v, u) BY <2>1, <2>3, <2>4
  <2> QED BY <2>5 DEF u
<1> QED BY <1>1, <1>2

\* While the list is taken, the button waits for the end of it.
LEMMA ApplyListing ==
  ASSUME NEW v, Found(v), NEW has
  PROVE  LET u == applyStations(v, has) IN Shaped(u) /\ u.api.up = v.api.up /\ Listing(u)
<1> DEFINE kind == v.nearby.list.kind
           b == IF kind = "foreground" THEN supersedeDetail(v) ELSE v
           over == [b EXCEPT !.nearby.list = None]
           s == [over EXCEPT !.nearby.foreground = FALSE]
           n == nextSearch(s)
           i == invalidateNearbySelection(n)
           p == [i EXCEPT !.nearby.origin = TRUE, !.nearby.known = has, !.nearby.shown = FALSE]
           o == [over EXCEPT !.nearby.known = has]
           y == IF kind = "foreground" THEN p ELSE o
           l == [y EXCEPT !.nearby.refresh.listApplied = TRUE]
           j == invalidateNearbySelection(y)
           g == [j EXCEPT !.nearby.shown = FALSE]
           u == applyStations(v, has)
           Good(x) == Shaped(x) /\ x.api.up = v.api.up /\ Listing(x)
<1>0. u \in {y, finishChargeRefreshIfReady(l), finishChargeRefreshUnavailable(g)}
  BY Zenon DEF applyStations
<1> HIDE DEF u
<1>a. ASSUME NEW x, NEW z, Good(x), Rests(x, z) PROVE Good(z) BY <1>a DEF Rests
<1>1. Shaped(b) /\ b.api.up = v.api.up /\ b.nearby.foreground = v.nearby.foreground
  <2>1. ASSUME NEW x PROVE supersedeDetail(x).nearby.foreground = x.nearby.foreground
                             \/ ~Shaped(x)
    BY DEF supersedeDetail, Shaped
  <2> QED BY <2>1, MarkedRests DEF Found, Rests
<1>2. kind # "foreground" => ~v.nearby.foreground BY DEF Found, Listing
<1> HIDE DEF b, kind
<1>3. /\ Shaped(over) /\ over.api.up = v.api.up /\ over.nearby.list = None
      /\ over.nearby.foreground = v.nearby.foreground
  BY <1>1, NoneFits DEF Shaped
<1> HIDE DEF over
<1>4. kind # "foreground" => Good(over) BY <1>2, <1>3 DEF Listing
<1>5. /\ Shaped(s) /\ s.api.up = v.api.up /\ s.nearby.list = None
      /\ ~s.nearby.foreground
  BY <1>3 DEF Shaped
<1> HIDE DEF s
<1>6. Good(n)
  <2>1. /\ Shaped(n) /\ n.api.up = v.api.up /\ n.nearby.list = None /\ ~n.nearby.foreground
    BY <1>5, NextSearchMarks
  <2> HIDE DEF n
  <2> QED BY <2>1 DEF Listing
<1> HIDE DEF n
<1>7. Good(i) BY <1>6, <1>a, GenerationRests
<1> HIDE DEF i
<1>8. Rests(i, p) /\ Rests(over, o) BY DEF Rests, Shaped, Searching, Listing, Trying
<1> HIDE DEF p, o
<1>9. Good(y) BY <1>4, <1>7, <1>8, <1>a
<1> HIDE DEF y
<1>10. Rests(y, l) BY DEF Rests, Shaped, Searching, Listing, Trying
<1> HIDE DEF l
<1>11. Good(finishChargeRefreshIfReady(l)) BY <1>9, <1>10, <1>a, FinishRests, RestsTrans
<1>12. Rests(y, j) BY GenerationRests
<1> HIDE DEF j
<1>13. Rests(j, g) BY MarkedRests
<1> HIDE DEF g
<1>14. Good(finishChargeRefreshUnavailable(g))
  BY <1>9, <1>12, <1>13, <1>a, FinishRests, RestsTrans
<1> QED BY <1>0, <1>9, <1>11, <1>14 DEF u

LEMMA StationsLoadedSeeks ==
  ASSUME NEW v, Found(v), NEW has
  PROVE  Seeks(v, nearbyStationsLoaded(v, has))
<1> DEFINE x == applyStations(v, has)
           y == setSearchPending(x, FALSE)
           u == setDetailControlsEnabled(y, TRUE)
<1>1. nearbyStationsLoaded(v, has) \in {listIgnored(v), u} BY DEF nearbyStationsLoaded
<1>2. Shaped(x) /\ x.api.up = v.api.up /\ Listing(x) BY ApplyListing
<1> HIDE DEF x
<1>3. /\ Shaped(y) /\ y.api.up = v.api.up /\ Listing(y)
      /\ y.nearby.search = (x.api.up /\ ~FALSE)
  BY <1>2, SearchSetMarks
<1> HIDE DEF y
<1>4. Seeks(v, y) BY <1>2, <1>3 DEF Seeks, Searching, Trying
<1>5. Seeks(v, u) BY <1>4, MarkedRests, SeeksOn
<1> HIDE DEF u
<1> QED BY <1>1, <1>5, ListIgnoredSeeks

-----------------------------------------------------------------------------
(* The chargers of a station, and the searches.                            *)

LEMMA ChargersRest ==
  ASSUME NEW v, NEW id
  PROVE  /\ Rests(v, requestStationDetail(v, id)) /\ Rests(v, stationDetailLoaded(v, id))
         /\ Rests(v, stationDetailFailed(v, id))
<1>1. Rests(v, requestStationDetail(v, id))
  <2> DEFINE a == abandonChargeRefresh(v)
             i == invalidateNearbySelection(a)
             c == setDetailControlsEnabled(i, FALSE)
             d == [c EXCEPT !.nearby.detail = [id |-> id, fits |-> TRUE]]
             u == requestStationDetail(v, id)
  <2>1. u = sendDetail(d, id) BY DEF requestStationDetail
  <2>2. Rests(v, a) BY FinishRests
  <2> HIDE DEF a, u
  <2>3. Rests(a, i) BY GenerationRests
  <2> HIDE DEF i
  <2>4. Rests(i, c) BY MarkedRests
  <2> HIDE DEF c
  <2>5. Rests(c, d) BY MarkedRests
  <2> HIDE DEF d
  <2>6. Rests(d, u) BY <2>1, ReadsStill, StillRests
  <2>7. Rests(v, u) BY <2>2, <2>3, <2>4, <2>5, <2>6, RestsTrans
  <2> QED BY <2>7 DEF u
<1> DEFINE x == [v EXCEPT !.nearby.detail = None]
           o == [v EXCEPT !.nearby.superseded = @ \ {id}]
<1>2. Rests(v, x) BY MarkedRests
<1>a. Rests(v, o) BY MarkedRests
<1>3. Rests(v, stationDetailLoaded(v, id))
  <2> DEFINE a == abandonChargeRefresh(x)
             i == invalidateNearbySelection(a)
             s == [i EXCEPT !.nearby.shown = TRUE]
             c == setDetailControlsEnabled(s, TRUE)
             u == stationDetailLoaded(v, id)
  <2>1. u \in {o, c} BY DEF stationDetailLoaded
  <2> HIDE DEF x, o, u
  <2>2. Rests(x, a) BY FinishRests
  <2> HIDE DEF a
  <2>3. Rests(a, i) BY GenerationRests
  <2> HIDE DEF i
  <2>4. Rests(i, s) BY MarkedRests
  <2> HIDE DEF s
  <2>5. Rests(s, c) BY MarkedRests
  <2> HIDE DEF c
  <2>6. Rests(v, c) BY <1>2, <2>2, <2>3, <2>4, <2>5, RestsTrans
  <2>7. Rests(v, u) BY <1>a, <2>1, <2>6
  <2> QED BY <2>7 DEF u
<1>4. stationDetailFailed(v, id) \in {o, setDetailControlsEnabled(x, TRUE)}
  BY DEF stationDetailFailed
<1> HIDE DEF x, o
<1>5. Rests(v, setDetailControlsEnabled(x, TRUE)) BY <1>2, MarkedRests, RestsTrans
<1> QED BY <1>1, <1>3, <1>4, <1>5, <1>a

\* Whatever was under way, the address is asked for.
LEMMA SearchSeeks ==
  ASSUME NEW v, Shaped(v)
  PROVE  Seeks(v, searchCurrentAddress(v))
<1> DEFINE n == nextSearch(v)
           f == [n EXCEPT !.nearby.foreground = TRUE]
           p == setSearchPending(f, TRUE)
           c == setDetailControlsEnabled(p, FALSE)
           a == abandonChargeRefresh(c)
           q == cancelPendingStationList(a)
           d == cancelDetail(q)
           u == [d EXCEPT !.nearby.geocode = TRUE]
<1>1. searchCurrentAddress(v) = u BY Zenon DEF searchCurrentAddress
<1>2. Shaped(n) /\ n.api.up = v.api.up BY NextSearchMarks
<1> HIDE DEF n
<1>3. Shaped(f) /\ f.api.up = v.api.up BY <1>2 DEF Shaped
<1> HIDE DEF f
<1>4. Shaped(p) /\ p.api.up = v.api.up BY <1>3, SearchSetMarks
<1> HIDE DEF p
<1>5. Shaped(c) /\ c.api.up = v.api.up BY <1>4, MarkedRests DEF Rests
<1> HIDE DEF c
<1>6. Shaped(a) /\ a.api.up = v.api.up BY <1>5, FinishRests DEF Rests
<1> HIDE DEF a
<1>7. Shaped(q) /\ q.api.up = v.api.up /\ q.nearby.list = None BY <1>6, ListGivenUp
<1> HIDE DEF q
<1>8. Shaped(d) /\ d.api.up = v.api.up /\ d.nearby.list = None
  <2> DEFINE t == cancelDetails(q, awaitedDetail(q))
  <2>1. Still(q, t) BY ReadsStill
  <2>2. d = [t EXCEPT !.nearby.detail = None] BY DEF cancelDetail
  <2> HIDE DEF t, d
  <2> QED BY <1>7, <2>1, <2>2 DEF Still, Shaped
<1> HIDE DEF d
<1>9. Shaped(u) /\ u.api.up = v.api.up /\ u.nearby.list = None /\ u.nearby.geocode
  BY <1>8 DEF Shaped
<1> HIDE DEF u
<1>10. Seeks(v, u) BY <1>9 DEF Seeks, Searching, Listing, Trying
<1> QED BY <1>1, <1>10

\* The address was found, or was not.
LEMMA GeocodeSeeks ==
  ASSUME NEW v, Shaped(v), Listing(v)
  PROVE  Seeks(v, geocodeSucceeded(v)) /\ Seeks(v, geocodeFailed(v))
<1>1. Seeks(v, geocodeSucceeded(v))
  <2> DEFINE f == [v EXCEPT !.nearby.geocode = FALSE, !.nearby.foreground = TRUE]
             a == abandonChargeRefresh(f)
             q == cancelPendingStationList(a)
             d == supersedeDetail(q)
             c == setDetailControlsEnabled(d, FALSE)
             u == requestNearbyStations(c, "foreground", 0)
  <2>1. geocodeSucceeded(v) = u BY DEF geocodeSucceeded
  <2>2. Shaped(f) /\ f.api.up = v.api.up BY DEF Shaped
  <2> HIDE DEF f
  <2>3. Shaped(a) /\ a.api.up = v.api.up BY <2>2, FinishRests DEF Rests
  <2> HIDE DEF a
  <2>4. Shaped(q) /\ q.api.up = v.api.up BY <2>3, ListGivenUp
  <2> HIDE DEF q
  <2>5. Shaped(d) /\ d.api.up = v.api.up BY <2>4, MarkedRests DEF Rests
  <2> HIDE DEF d
  <2>6. Shaped(c) /\ c.api.up = v.api.up BY <2>5, MarkedRests DEF Rests
  <2> HIDE DEF c
  <2>7. Shaped(u) /\ u.api.up = c.api.up /\ Searching(u) BY <2>6, StationsAsked
  <2> HIDE DEF u
  <2> QED BY <2>1, <2>6, <2>7 DEF Seeks
<1>2. Seeks(v, geocodeFailed(v))
  <2> DEFINE f == [v EXCEPT !.nearby.geocode = FALSE, !.nearby.foreground = FALSE]
             p == setSearchPending(f, FALSE)
             u == setDetailControlsEnabled(p, v.api.up)
  <2>1. geocodeFailed(v) = u BY DEF geocodeFailed
  <2>2. /\ Shaped(f) /\ f.api.up = v.api.up /\ ~f.nearby.foreground
        /\ f.nearby.list = v.nearby.list
    BY DEF Shaped
  <2> HIDE DEF f
  <2>3. Listing(f) BY <2>2 DEF Listing
  <2>4. /\ Shaped(p) /\ p.api.up = v.api.up /\ Listing(p)
        /\ p.nearby.search = (f.api.up /\ ~FALSE)
    BY <2>2, <2>3, SearchSetMarks
  <2> HIDE DEF p
  <2>5. Seeks(v, p) BY <2>2, <2>4 DEF Seeks, Searching, Trying
  <2>6. Seeks(v, u) BY <2>5, MarkedRests, SeeksOn
  <2> QED BY <2>1, <2>6
<1> QED BY <1>1, <1>2

LEMMA ReconnectStationsRest ==
  ASSUME NEW v
  PROVE  Rests(v, requestReconnectStations(v))
<1> DEFINE q == cancelPendingStationList(v)
           n == nextSearch(q)
           l == [kind |-> "reconnect", fresh |-> TRUE, fits |-> TRUE]
           x == [n EXCEPT !.nearby.list = l]
           u == requestReconnectStations(v)
<1>1. u = v \/ (~v.nearby.foreground /\ u = send(x, "list"))
  BY Zenon DEF requestReconnectStations
<1> HIDE DEF u
<1>2. CASE u = v BY <1>2, RestsSelf DEF u
<1>3. CASE ~v.nearby.foreground /\ u = send(x, "list")
  <2> SUFFICES ASSUME Shaped(v) PROVE Seeks(v, u) BY DEF Seeks, Rests, Searching, u
  <2>1. Shaped(q) /\ q.api.up = v.api.up /\ q.nearby.foreground = v.nearby.foreground
    BY ListGivenUp
  <2> HIDE DEF q
  <2>2. Shaped(n) /\ n.api.up = v.api.up /\ n.nearby.foreground = v.nearby.foreground
    BY <2>1, NextSearchMarks
  <2> HIDE DEF n
  <2>3. l \in Maybe(StationList) /\ l # None /\ l.fits
    <3>1. l \in StationList BY DEF StationList
    <3> QED BY <3>1, NoneAssumption DEF Maybe
  <2> HIDE DEF l
  <2>4. /\ Shaped(x) /\ x.api.up = v.api.up /\ x.nearby.foreground = v.nearby.foreground
        /\ x.nearby.list = l
    BY <2>2, <2>3 DEF Shaped
  <2> HIDE DEF x
  <2>5. Seeks(v, x) BY <1>3, <2>3, <2>4 DEF Seeks, Searching, Listing, Trying
  <2> QED BY <1>3, <2>5, ReadsStill, StillRests, SeeksOn
<1> QED BY <1>1, <1>2, <1>3

-----------------------------------------------------------------------------
(* The connection and the session.                                         *)

\* The button is as it should be whatever it was before.
LEMMA ConnectionSeeks ==
  ASSUME NEW v, Shaped(v), Listing(v)
  PROVE  Seeks(v, NearbyConnectionChanged(v))
<1> DEFINE f == [v EXCEPT !.nearby.geocode = FALSE, !.nearby.foreground = FALSE]
           g == cancelChargeRefresh(f)
           q == cancelPendingStationList(g)
           d == cancelEveryDetail(q)
           c == setDetailControlsEnabled(d, TRUE)
           b == v.nearby.foreground \/ v.nearby.geocode \/ v.nearby.list # None
           on == v.nearby.controls \/ (v.nearby.list = None /\ ~v.nearby.foreground)
           p == setSearchPending(v, b)
           u == NearbyConnectionChanged(v)
<1>1. CASE ~v.api.up
  <2>1. u = setSearchPending(c, FALSE) BY <1>1, Zenon DEF NearbyConnectionChanged
  <2>2. Shaped(f) /\ f.api.up = v.api.up /\ ~f.nearby.foreground BY DEF Shaped
  <2> HIDE DEF f
  <2>3. Shaped(g) /\ g.api.up = v.api.up /\ ~g.nearby.foreground
    BY <2>2, RefreshGivenUp DEF Rests
  <2> HIDE DEF g
  <2>4. Shaped(q) /\ q.api.up = v.api.up /\ Listing(q)
    BY <2>3, ListGivenUp
  <2> HIDE DEF q
  <2>5. Shaped(d) /\ d.api.up = v.api.up /\ Listing(d) BY <2>4, MarkedRests DEF Rests
  <2> HIDE DEF d
  <2>6. Shaped(c) /\ c.api.up = v.api.up /\ Listing(c) BY <2>5, MarkedRests DEF Rests
  <2> HIDE DEF c, u
  <2>7. Shaped(u) /\ u.api.up = v.api.up /\ Listing(u) BY <2>1, <2>6, SearchSetMarks
  <2>8. Seeks(v, u) BY <1>1, <2>7 DEF Seeks, Searching, Trying
  <2> QED BY <2>8 DEF u
<1>2. CASE v.api.up
  <2>1. u = setDetailControlsEnabled(p, on) BY <1>2, Zenon DEF NearbyConnectionChanged
  <2>2. /\ Shaped(p) /\ p.api.up = v.api.up /\ p.nearby.list = v.nearby.list
        /\ p.nearby.geocode = v.nearby.geocode
        /\ p.nearby.search = (v.api.up /\ ~b) /\ Listing(p)
    BY SearchSetMarks
  <2> HIDE DEF p, on
  <2>3. Trying(p) BY <1>2, <2>2 DEF Listing, Trying
  <2>4. Seeks(v, p) BY <2>2, <2>3 DEF Seeks, Searching
  <2>5. Seeks(v, u) BY <2>1, <2>4, MarkedRests, SeeksOn
  <2> QED BY <2>5
<1> QED BY <1>1, <1>2

LEMMA ResetSeeks ==
  ASSUME NEW v, Shaped(v)
  PROVE  Seeks(v, resetNearbyPage(v))
<1> DEFINE f == [v EXCEPT !.nearby.geocode = FALSE, !.nearby.foreground = FALSE]
           g == cancelChargeRefresh(f)
           q == cancelPendingStationList(g)
           d == cancelDetail(q)
           n == nextSearch(d)
           s == nextSelection(n)
           o == [s EXCEPT !.nearby.origin = FALSE, !.nearby.known = FALSE,
                          !.nearby.shown = FALSE, !.nearby.superseded = {}]
           p == setSearchPending(o, FALSE)
           u == setDetailControlsEnabled(p, FALSE)
<1>1. resetNearbyPage(v) = u BY Zenon DEF resetNearbyPage
<1>2. Shaped(f) /\ f.api.up = v.api.up /\ ~f.nearby.foreground BY DEF Shaped
<1> HIDE DEF f
<1>3. Shaped(g) /\ g.api.up = v.api.up /\ ~g.nearby.foreground
  BY <1>2, RefreshGivenUp DEF Rests
<1> HIDE DEF g
<1>4. /\ Shaped(q) /\ q.api.up = v.api.up /\ q.nearby.list = None
      /\ ~q.nearby.foreground
  BY <1>3, ListGivenUp
<1> HIDE DEF q
<1>5. Shaped(d) /\ d.api.up = v.api.up /\ d.nearby.list = None /\ ~d.nearby.foreground
  <2> DEFINE t == cancelDetails(q, awaitedDetail(q))
  <2>1. Still(q, t) BY ReadsStill
  <2>2. d = [t EXCEPT !.nearby.detail = None] BY DEF cancelDetail
  <2> HIDE DEF t, d
  <2> QED BY <1>4, <2>1, <2>2 DEF Still, Shaped
<1> HIDE DEF d
<1>6. Shaped(n) /\ n.api.up = v.api.up /\ n.nearby.list = None /\ ~n.nearby.foreground
  BY <1>5, NextSearchMarks
<1> HIDE DEF n
<1>7. Listing(n) BY <1>6 DEF Listing
<1>8. Shaped(s) /\ s.api.up = v.api.up /\ Listing(s) BY <1>6, <1>7, GenerationRests DEF Rests
<1> HIDE DEF s
<1>9. Rests(s, o) BY DEF Rests, Shaped, Searching, Listing, Trying
<1> HIDE DEF o
<1>10. Shaped(o) /\ o.api.up = v.api.up /\ Listing(o) BY <1>8, <1>9 DEF Rests
<1>11. /\ Shaped(p) /\ p.api.up = v.api.up /\ Listing(p)
       /\ p.nearby.search = (o.api.up /\ ~FALSE)
  BY <1>10, SearchSetMarks
<1> HIDE DEF p
<1>12. Seeks(v, p) BY <1>10, <1>11 DEF Seeks, Searching, Trying
<1> QED BY <1>1, <1>12, MarkedRests, SeeksOn

-----------------------------------------------------------------------------
(* The page of an order is entered and left, and reads its order.          *)

LEMMA BeginRests ==
  ASSUME NEW v, NEW g
  PROVE  Rests(v, beginPage(v, g))
<1> DEFINE n == nextPage(v)
           s == [n EXCEPT !.charge.selGen = g]
           o == cancelOwnedSafeReads(s)
           u == beginPage(v, g)
<1>1. u = [o EXCEPT
             !.charge.active = TRUE, !.charge.reconcile = FALSE, !.charge.factsFailed = FALSE,
             !.charge.exit = FALSE, !.charge.exitFailed = FALSE, !.charge.attempt = 0,
             !.charge.noOrder = FALSE, !.charge.polling = FALSE]
  BY DEF beginPage
<1>2. Still(v, n) BY DEF Still, Shaped, nextPage
<1> HIDE DEF n, u
<1>3. Still(n, s) BY DEF Still, Shaped
<1> HIDE DEF s
<1>4. Rests(s, o) BY OwnedGivenUp
<1> HIDE DEF o
<1>5. Still(o, u) BY <1>1 DEF Still, Shaped
<1>6. Rests(v, u) BY <1>2, <1>3, <1>4, <1>5, StillRests, RestsTrans
<1> QED BY <1>6 DEF u

LEMMA EnterRests ==
  ASSUME NEW v, NEW x
  PROVE  Rests(v, enterSelection(v, x)) /\ Rests(v, enterOrder(v, x))
<1> DEFINE b == beginPage(v, 1)
           c == beginPage(v, 0)
           kept == IF matching(v.main.remembered, x) THEN v.main.remembered ELSE None
           a == IF kept = None THEN None
                ELSE [charger |-> kept.charger, status |-> kept.status]
           y == [b EXCEPT !.charge.selection = x, !.charge.order = None,
                          !.charge.associated = [charger |-> x.charger, status |-> x.status]]
           z == [c EXCEPT !.charge.selection = kept, !.charge.order = x,
                          !.charge.associated = a]
<1>1. enterSelection(v, x) \in {v, render(y)} BY DEF enterSelection
<1>2. enterOrder(v, x) = render(z) BY DEF enterOrder
<1>3. Rests(v, b) /\ Rests(v, c) BY BeginRests
<1> HIDE DEF b, c, kept, a
<1>4. Still(b, y) /\ Still(c, z) BY DEF Still, Shaped
<1> HIDE DEF y, z
<1>5. Rests(v, y) /\ Rests(v, z) BY <1>3, <1>4, StillRests, RestsTrans
<1>6. Rests(v, render(y)) /\ Rests(v, render(z)) BY <1>5, RenderAfter
<1> QED BY <1>1, <1>2, <1>6, RestsSelf

LEMMA LeaveRests ==
  ASSUME NEW v
  PROVE  Rests(v, leavePage(v))
<1> DEFINE n == nextPage(v)
           s == [n EXCEPT !.charge.active = FALSE]
           o == cancelOwnedSafeReads(s)
           y == [o EXCEPT !.charge.polling = FALSE]
<1>1. leavePage(v) \in {v, render(y)} BY DEF leavePage
<1>2. Still(v, n) BY DEF Still, Shaped, nextPage
<1> HIDE DEF n
<1>3. Still(n, s) BY DEF Still, Shaped
<1> HIDE DEF s
<1>4. Rests(s, o) BY OwnedGivenUp
<1> HIDE DEF o
<1>5. Still(o, y) BY DEF Still, Shaped
<1> HIDE DEF y
<1>6. Rests(v, y) BY <1>2, <1>3, <1>4, <1>5, StillRests, RestsTrans
<1> QED BY <1>1, <1>6, RenderAfter, RestsSelf

LEMMA LoadRests ==
  ASSUME NEW v, NEW op
  PROVE  Still(v, loadCurrentOrder(v, op)) /\ Rests(v, requestPoll(v))
<1> DEFINE s == send(v, "page")
           r == [op |-> op, selGen |-> v.charge.selGen, owner |-> orderId(v.charge.order)]
<1>1. ASSUME NEW o PROVE Still(v, loadCurrentOrder(v, o))
  <2> DEFINE t == send(v, "page")
             p == [op |-> o, selGen |-> v.charge.selGen, owner |-> orderId(v.charge.order)]
             u == [t EXCEPT !.charge.read = p]
  <2>1. loadCurrentOrder(v, o) = u BY DEF loadCurrentOrder
  <2>2. Still(v, t) BY ReadsStill
  <2> HIDE DEF t, p
  <2>3. Still(t, u) BY DEF Still, Shaped
  <2> QED BY <2>1, <2>2, <2>3, StillTrans
<1>2. requestPoll(v) \in {v, loadCurrentOrder(v, "poll")} BY DEF requestPoll
<1> QED BY <1>1, <1>2, StillRests, RestsSelf

LEMMA ReconciliationRests ==
  ASSUME NEW v
  PROVE  Rests(v, requestReconciliation(v)) /\ Rests(v, resume(v))
<1>1. ASSUME NEW z PROVE Rests(z, requestReconciliation(z))
  <2> DEFINE m == [z EXCEPT !.charge.polling = FALSE, !.charge.reconcile = TRUE,
                            !.charge.factsFailed = FALSE, !.charge.exitFailed = FALSE]
             o == cancelOwnedSafeReads(m)
             l == loadCurrentOrder(o, "reconcile")
             u == requestReconciliation(z)
  <2>1. u \in {z, Shown(l)} BY DEF requestReconciliation
  <2>2. Still(z, m) BY DEF Still, Shaped
  <2> HIDE DEF m, u
  <2>3. Rests(m, o) BY OwnedGivenUp
  <2> HIDE DEF o
  <2>4. Still(o, l) BY LoadRests
  <2> HIDE DEF l
  <2>5. Rests(z, Shown(l)) BY <2>2, <2>3, <2>4, StillRests, RestsTrans, ShownAfter
  <2>6. Rests(z, u) BY <2>1, <2>5, RestsSelf
  <2> QED BY <2>6 DEF u
<1> DEFINE r == render(beginPage(v, 0))
<1>2. resume(v) \in {v, requestReconciliation(r)} BY DEF resume
<1>3. Rests(v, r) BY BeginRests, RenderAfter
<1> HIDE DEF r
<1>4. Rests(v, requestReconciliation(r)) BY <1>1, <1>3, RestsTrans
<1> QED BY <1>1, <1>2, <1>4, RestsSelf

LEMMA ChargeConnectionRests ==
  ASSUME NEW v, NEW before
  PROVE  Rests(v, ChargeConnectionChanged(v, before))
<1> DEFINE p == [v EXCEPT !.charge.polling = FALSE]
           i == invalidateSafeReads(p)
           l == [i EXCEPT !.charge.reconcile = TRUE, !.charge.factsFailed = FALSE]
           q == requestReconciliation(v)
           u == ChargeConnectionChanged(v, before)
<1>1. u \in {Shown(l), Shown(p), Shown(q), Shown(v)} BY DEF ChargeConnectionChanged
<1>2. Still(v, p) BY DEF Still, Shaped
<1> HIDE DEF p, u
<1>3. Rests(p, i) BY OwnedGivenUp
<1> HIDE DEF i
<1>4. Still(i, l) BY DEF Still, Shaped
<1> HIDE DEF l
<1>5. Rests(v, l) /\ Rests(v, p) BY <1>2, <1>3, <1>4, StillRests, RestsTrans
<1>6. Rests(v, q) BY ReconciliationRests
<1> HIDE DEF q
<1>7. Rests(v, u) BY <1>1, <1>5, <1>6, ShownAfter, ShownRests
<1> QED BY <1>7 DEF u

LEMMA ChargeResetRests ==
  ASSUME NEW v
  PROVE  Rests(v, resetChargePage(v))
<1> DEFINE n == nextPage(v)
           s == [n EXCEPT !.charge.active = FALSE]
           o == cancelOwnedSafeReads(s)
           e == endExitRefresh(o)
           y == [e EXCEPT
                   !.charge.polling = FALSE, !.charge.mutation = None, !.charge.reconcile = FALSE,
                   !.charge.factsFailed = FALSE, !.charge.noOrder = FALSE,
                   !.charge.selection = None, !.charge.order = None, !.charge.associated = None]
<1>1. resetChargePage(v) = Shown(y) BY DEF resetChargePage
<1>2. Still(v, n) BY DEF Still, Shaped, nextPage
<1> HIDE DEF n
<1>3. Still(n, s) BY DEF Still, Shaped
<1> HIDE DEF s
<1>4. Rests(s, o) BY OwnedGivenUp
<1> HIDE DEF o
<1>5. Still(o, e) BY DEF Still, Shaped, endExitRefresh
<1> HIDE DEF e
<1>6. Still(e, y) BY DEF Still, Shaped
<1> HIDE DEF y
<1>7. Rests(v, y) BY <1>2, <1>3, <1>4, <1>5, <1>6, StillTrans, StillRests, RestsTrans
<1> QED BY <1>1, <1>7, ShownAfter

-----------------------------------------------------------------------------
(* The history, and what the window knows of the order.                    *)

LEMMA HistoryStill ==
  ASSUME NEW v, NEW i, NEW more
  PROVE  /\ Still(v, requestPage(v, i)) /\ Still(v, refreshHistory(v))
         /\ Still(v, activateHistory(v)) /\ Still(v, deactivateHistory(v))
         /\ Still(v, orderHistoryLoaded(v, more)) /\ Still(v, orderHistoryFailed(v))
         /\ Still(v, HistoryConnectionChanged(v)) /\ Still(v, resetHistoryPage(v))
         /\ Still(v, cancelHistoryRead(v))
<1>1. ASSUME NEW z, NEW k PROVE Still(z, requestPage(z, k))
  <2> DEFINE s == send(z, "history")
             u == [s EXCEPT !.history.pending = k]
  <2>1. requestPage(z, k) \in {z, u} BY DEF requestPage
  <2>2. Still(z, s) BY ReadsStill
  <2> HIDE DEF s
  <2>3. Still(s, u) BY DEF Still, Shaped
  <2> QED BY <2>1, <2>2, <2>3, StillTrans, RestsSelf
<1>2. ASSUME NEW z PROVE Still(z, refreshHistory(z)) BY <1>1 DEF refreshHistory
<1>3. Still(v, activateHistory(v))
  <2> DEFINE x == [v EXCEPT !.history.active = TRUE]
  <2>1. Still(v, x) BY DEF Still, Shaped
  <2>2. activateHistory(v) = refreshHistory(x) BY DEF activateHistory
  <2> HIDE DEF x
  <2> QED BY <1>2, <2>1, <2>2, StillTrans
<1>4. ASSUME NEW z PROVE Still(z, cancelHistoryRead(z))
  <2> DEFINE s == cancelSafeReads(z, {"history"})
             u == [s EXCEPT !.history.pending = None]
  <2>1. cancelHistoryRead(z) = u BY DEF cancelHistoryRead
  <2>2. Still(z, s) BY ReadsStill
  <2> HIDE DEF s
  <2>3. Still(s, u) BY DEF Still, Shaped
  <2> QED BY <2>1, <2>2, <2>3, StillTrans
<1>5. Still(v, deactivateHistory(v))
  <2> DEFINE x == [v EXCEPT !.history.active = FALSE]
  <2>1. Still(v, x) BY DEF Still, Shaped
  <2>2. deactivateHistory(v) = cancelHistoryRead(x) BY DEF deactivateHistory
  <2> HIDE DEF x
  <2> QED BY <1>4, <2>1, <2>2, StillTrans
<1>6. Still(v, orderHistoryLoaded(v, more)) /\ Still(v, orderHistoryFailed(v))
  BY DEF Still, Shaped, orderHistoryLoaded, orderHistoryFailed
<1>7. Still(v, HistoryConnectionChanged(v))
  BY <1>4, RestsSelf DEF HistoryConnectionChanged
<1>8. Still(v, resetHistoryPage(v))
  <2> DEFINE d == deactivateHistory(v)
             u == [d EXCEPT !.history.committed = None]
  <2>1. resetHistoryPage(v) = u BY DEF resetHistoryPage
  <2> HIDE DEF d
  <2>2. Still(d, u) BY DEF Still, Shaped
  <2> QED BY <1>5, <2>1, <2>2, StillTrans DEF d
<1> QED BY <1>1, <1>2, <1>3, <1>4, <1>5, <1>6, <1>7, <1>8

LEMMA WindowStill ==
  ASSUME NEW v, NEW order, NEW owner, NEW force
  PROVE  /\ Still(v, adoptActiveOrder(v, order)) /\ Still(v, clearActiveOrder(v, owner, force))
         /\ Still(v, requestReconnectCurrent(v)) /\ Still(v, cancelReconnectCurrent(v))
<1>1. Still(v, adoptActiveOrder(v, order)) /\ Still(v, clearActiveOrder(v, owner, force))
  BY DEF Still, Shaped, adoptActiveOrder, clearActiveOrder
<1> DEFINE s == send(v, "reconnect")
           c == cancelSafeReads(v, {"reconnect"})
           r == [owner |-> orderId(v.main.authority)]
           x == [s EXCEPT !.main.reconnect = r]
           y == [c EXCEPT !.main.reconnect = None]
<1>2. requestReconnectCurrent(v) \in {v, x} BY DEF requestReconnectCurrent
<1>3. cancelReconnectCurrent(v) = y BY DEF cancelReconnectCurrent
<1>4. Still(v, s) /\ Still(v, c) BY ReadsStill
<1> HIDE DEF s, c, r
<1>5. Still(s, x) /\ Still(c, y) BY DEF Still, Shaped
<1> HIDE DEF x, y
<1>6. Still(v, x) /\ Still(v, y) BY <1>4, <1>5, StillTrans
<1> QED BY <1>1, <1>2, <1>3, <1>6, RestsSelf

LEMMA ResolveRests ==
  ASSUME NEW v
  PROVE  Rests(v, resolveReconnectCurrent(v))
<1> DEFINE x == [v EXCEPT !.main.required = FALSE, !.main.queued = FALSE]
           r == requestReconnectStations(x)
           s == IF v.nearby.foreground THEN x ELSE r
           y == [x EXCEPT !.main.queued = v.main.queued]
           u == resolveReconnectCurrent(v)
<1>1. u \in {refreshHistory(s), y} BY DEF resolveReconnectCurrent
<1>2. Still(v, x) BY DEF Still, Shaped
<1> HIDE DEF x, u
<1>3. Still(x, y) BY DEF Still, Shaped
<1> HIDE DEF y
<1>4. Rests(x, r) BY ReconnectStationsRest
<1> HIDE DEF r
<1>5. Rests(v, s) BY <1>2, <1>4, StillRests, RestsTrans
<1> HIDE DEF s
<1>6. Rests(v, refreshHistory(s)) BY <1>5, HistoryStill, StillRests, RestsTrans
<1>7. Rests(v, u) BY <1>1, <1>2, <1>3, <1>6, StillTrans, StillRests
<1> QED BY <1>7 DEF u

LEMMA ObservedRests ==
  ASSUME NEW v, NEW slot, NEW order, NEW pageOwned, NEW owner
  PROVE  Rests(v, currentAuthorityObserved(v, slot, order, pageOwned, owner))
<1>1. ASSUME NEW z, NEW guard, NEW owned, NEW o PROVE Still(z, observed(z, order, guard, owned, o))
  BY WindowStill, RestsSelf DEF observed
<1> DEFINE x == [v EXCEPT !.main.reconnect = None]
           y == observed(x, order, FALSE, TRUE, v.main.reconnect.owner)
           z == observed(v, order, slot = "guard" /\ v.main.guard, pageOwned, owner)
           u == currentAuthorityObserved(v, slot, order, pageOwned, owner)
<1>2. u \in {resolveReconnectCurrent(y), z} BY DEF currentAuthorityObserved
<1>3. Still(v, x) BY DEF Still, Shaped
<1>4. Still(x, y) /\ Still(v, z) BY <1>1
<1> HIDE DEF x, y, z, u
<1>5. Rests(v, y) /\ Rests(v, z) BY <1>3, <1>4, StillTrans, StillRests
<1>6. Rests(v, u) BY <1>2, <1>5, ResolveRests, RestsTrans
<1> QED BY <1>6 DEF u

LEMMA OutcomeToldStill ==
  ASSUME NEW v, NEW order
  PROVE  Still(v, mutationAuthorityObserved(v, order))
<1> DEFINE a == adoptActiveOrder(v, order)
           c == clearActiveOrder(v, order.id, FALSE)
           N(x) == [x EXCEPT !.main.stamp = "none"]
           u == mutationAuthorityObserved(v, order)
<1>1. u \in {N(v), N(a), N(c)} BY DEF mutationAuthorityObserved
<1>2. ASSUME NEW x PROVE Still(x, N(x)) BY DEF Still, Shaped
<1>3. Still(v, a) /\ Still(v, c) BY WindowStill
<1> HIDE DEF a, c, N, u
<1>4. Still(v, u) BY <1>1, <1>2, <1>3, StillTrans
<1> QED BY <1>4 DEF u

-----------------------------------------------------------------------------
(* The facts of the station.                                               *)

LEMMA FactsAskedRest ==
  ASSUME NEW v, NEW gate, NEW commit
  PROVE  Rests(v, requestFacts(v, gate, commit))
<1> DEFINE c == v.charge
           origin == c.selection # None /\ (c.order = None \/ matching(c.selection, c.order))
           id == freshAttempt(v)
           t == send(v, "facts")
           s == sendFacts(v, gate, commit, origin, id)
           r == refreshAfterCharge(s, IF commit THEN id ELSE 0)
           u == requestFacts(v, gate, commit)
<1>1. u \in {v, Shown(r), Shown(s)} BY DEF requestFacts
<1>2. Still(v, t) BY ReadsStill
<1>3. Still(t, s)
  <2> DEFINE f == [charger |-> IF c.order # None THEN c.order.charger
                               ELSE c.selection.charger, fits |-> TRUE]
             e == c.exit /\ (commit => origin)
             a == IF ~commit THEN c.attempt ELSE IF origin THEN id ELSE 0
  <2>1. s = [t EXCEPT !.charge.facts = f, !.charge.factsFailed = FALSE, !.charge.gate = gate,
                      !.charge.exit = @ /\ (commit => origin),
                      !.charge.attempt = IF ~commit THEN @ ELSE IF origin THEN id ELSE 0]
    BY DEF sendFacts
  <2> HIDE DEF t, s, f, origin, id
  <2> QED BY <2>1 DEF Still, Shaped
<1> HIDE DEF t, s, u
<1>4. Rests(s, r) BY RefreshAfterRests
<1> HIDE DEF r
<1>5. Rests(v, s) /\ Rests(v, r) BY <1>2, <1>3, <1>4, StillRests, RestsTrans
<1>6. Rests(v, u) BY <1>1, <1>5, ShownAfter, RestsSelf
<1> QED BY <1>6 DEF u

LEMMA FactsFailRest ==
  ASSUME NEW v
  PROVE  Rests(v, factsFail(v)) /\ Rests(v, factsFailed(v))
<1>1. ASSUME NEW z PROVE Rests(z, factsFail(z))
  <2> DEFINE told == IF z.charge.exit THEN failChargeStationDetail(z, z.charge.attempt) ELSE z
             must == told.charge.gate \/ told.charge.exit
             x == [told EXCEPT !.charge.factsFailed = must, !.charge.gate = must,
                               !.charge.reconcile = must]
             u == factsFail(z)
  <2>1. u \in {told, Shown(x)} BY DEF factsFail
  <2>2. Rests(z, told) BY DetailRests, RestsSelf
  <2> HIDE DEF told, must, u
  <2>3. Still(told, x) BY DEF Still, Shaped
  <2> HIDE DEF x
  <2>4. Rests(z, Shown(x)) BY <2>2, <2>3, StillRests, RestsTrans, ShownAfter
  <2>5. Rests(z, u) BY <2>1, <2>2, <2>4
  <2> QED BY <2>5 DEF u
<1> DEFINE y == [v EXCEPT !.charge.facts = None]
<1>2. Still(v, y) BY DEF Still, Shaped
<1>3. factsFailed(v) = factsFail(y) BY DEF factsFailed
<1> HIDE DEF y
<1> QED BY <1>1, <1>2, <1>3, StillRests, RestsTrans

LEMMA FactsLoadedRest ==
  ASSUME NEW v, NEW status
  PROVE  Rests(v, factsLoaded(v, status))
<1> DEFINE c == v.charge
           y == takeFacts(v, status)
           z == [y EXCEPT !.charge.factsFailed = @ /\ c.exitFailed,
                          !.charge.reconcile = @ /\ (c.exitFailed \/ ~c.gate),
                          !.charge.gate = FALSE]
           a == applyChargeStationDetail(z, c.attempt)
           u == factsLoaded(v, status)
<1>1. u \in {v, factsFail(y), Shown(a), Shown(z)} BY DEF factsLoaded
<1>2. Still(v, y) BY DEF Still, Shaped, takeFacts
<1> HIDE DEF y, u
<1>3. Still(y, z) BY DEF Still, Shaped
<1> HIDE DEF z
<1>4. Rests(z, a) BY DetailRests
<1> HIDE DEF a
<1>5. Rests(v, y) /\ Rests(v, z) /\ Rests(v, a) BY <1>2, <1>3, <1>4, StillRests, RestsTrans
<1>6. Rests(v, factsFail(y)) BY <1>5, FactsFailRest, RestsTrans
<1>7. Rests(v, u) BY <1>1, <1>5, <1>6, ShownAfter, RestsSelf
<1> QED BY <1>7 DEF u

-----------------------------------------------------------------------------
(* The current order.                                                      *)

LEMMA ObserveRests ==
  ASSUME NEW v, NEW slot, NEW order
  PROVE  Rests(v, observeAuthoritativeCurrent(v, slot, order))
<1> DEFINE m == supersedeMutation(v, order)
           o == currentAuthorityObserved(m, slot, order, FALSE, 0)
           i == invalidateSafeReads(m)
           e == endExitRefresh(i)
           t == takeActiveOrder(m, order)
           s == Shown(t)
           a == currentAuthorityObserved(s, slot, order, FALSE, 0)
           u == observeAuthoritativeCurrent(v, slot, order)
<1>1. u \in {o, requestFacts(a, TRUE, FALSE)} BY DEF observeAuthoritativeCurrent
<1>2. Still(v, m) BY DEF Still, Shaped, supersedeMutation
<1>3. Rests(m, t)
  <2> DEFINE keeps == m.charge.selection = None \/ matching(m.charge.selection, order)
  <2>1. t = [e EXCEPT
               !.charge.polling = FALSE, !.charge.reconcile = TRUE,
               !.charge.factsFailed = FALSE, !.charge.gate = FALSE, !.charge.noOrder = FALSE,
               !.charge.order = order, !.charge.selGen = 0, !.charge.associated = None,
               !.charge.selection = IF keeps THEN @ ELSE None,
               !.main.remembered = IF keeps THEN @ ELSE None]
    BY Zenon DEF takeActiveOrder
  <2> HIDE DEF m, t, keeps
  <2>2. Rests(m, i) BY OwnedGivenUp
  <2> HIDE DEF i
  <2>3. Still(i, e) BY DEF Still, Shaped, endExitRefresh
  <2> HIDE DEF e
  <2>4. Still(e, t) BY <2>1 DEF Still, Shaped
  <2> QED BY <2>2, <2>3, <2>4, StillRests, RestsTrans
<1> HIDE DEF t, m, u
<1>4. Rests(v, o) BY <1>2, StillRests, ObservedRests, RestsTrans
<1>5. Rests(v, s) BY <1>2, <1>3, StillRests, RestsTrans, ShownAfter
<1> HIDE DEF s
<1>6. Rests(v, a) BY <1>5, ObservedRests, RestsTrans
<1> HIDE DEF a, o
<1>7. Rests(v, requestFacts(a, TRUE, FALSE)) BY <1>6, FactsAskedRest, RestsTrans
<1>8. Rests(v, u) BY <1>1, <1>4, <1>7
<1> QED BY <1>8 DEF u

LEMMA PageOrderRests ==
  ASSUME NEW v, NEW order
  PROVE  Rests(v, pageOrderLoaded(v, order))
<1> DEFINE c == v.charge
           r == c.read
           poll == r.op = "poll"
           x == [v EXCEPT !.charge.read = None]
           new == takeOrder(x, order)
           target == new.charge.order # None \/ new.charge.selection # None
           facts == \/ ~poll /\ c.reconcile /\ target
                    \/ new.charge.order # None /\ new.charge.order.status = "reserved"
                    \/ new.charge.order = None /\ new.charge.selection # None
           n == [new EXCEPT !.charge.reconcile = facts]
           s == Shown(n)
           read == currentAuthorityObserved(s, "page", order, TRUE, r.owner)
           f == requestFacts(read, facts, read.charge.exit)
           o == observeAuthoritativeCurrent(x, "page", order)
           u == pageOrderLoaded(v, order)
<1>1. u \in {x, o, f, read} BY Zenon DEF pageOrderLoaded
<1>2. Still(v, x) BY DEF Still, Shaped
<1> HIDE DEF x, u
<1>3. Still(x, new)
  <2> DEFINE d == x.charge
             terminal == order = None /\ d.exit /\ d.order # None /\ d.order.status \in Terminal
             shown == IF terminal THEN d.order ELSE order
             keeps == order = None \/ d.selection = None \/ matching(d.selection, order)
  <2>1. new = [x EXCEPT
         !.charge.order = shown, !.charge.noOrder = order = None, !.charge.associated = None,
         !.charge.factsFailed = FALSE,
         !.charge.selGen = IF shown # None \/ ~keeps THEN 0 ELSE @,
         !.charge.exit = @ /\ keeps, !.charge.attempt = IF keeps THEN @ ELSE 0,
         !.charge.selection = IF keeps THEN @ ELSE None,
         !.main.remembered = IF keeps THEN @ ELSE None]
    BY Zenon DEF takeOrder
  <2> HIDE DEF new, shown, keeps
  <2> QED BY <2>1 DEF Still, Shaped
<1> HIDE DEF new, facts
<1>4. Still(new, n) BY DEF Still, Shaped
<1> HIDE DEF n
<1>5. Rests(v, s) BY <1>2, <1>3, <1>4, StillTrans, StillRests, ShownAfter
<1> HIDE DEF s
<1>6. Rests(v, read) BY <1>5, ObservedRests, RestsTrans
<1> HIDE DEF read
<1>7. Rests(v, f) BY <1>6, FactsAskedRest, RestsTrans
<1>8. Rests(v, o) BY <1>2, StillRests, ObserveRests, RestsTrans
<1> HIDE DEF f, o
<1>9. Rests(v, u) BY <1>1, <1>2, <1>6, <1>7, <1>8, StillRests
<1> QED BY <1>9 DEF u

LEMMA GuardRests ==
  ASSUME NEW v, NEW order
  PROVE  Rests(v, guardLoaded(v, order))
<1> DEFINE x == [v EXCEPT !.main.guard = FALSE, !.main.navShown = TRUE]
           y == [x EXCEPT !.main.remembered = IF matching(@, order) THEN @ ELSE None]
           e == enterOrder(y, order)
           g == requestFacts(e, TRUE, FALSE)
           a == [g EXCEPT !.main.page = "charge"]
           b == [x EXCEPT !.main.page = IF @ = "charge" THEN @ ELSE "nearby"]
           u == guardLoaded(v, order)
<1>1. u \in {a, b} BY Zenon DEF guardLoaded, enterGuardOrder
<1>2. Still(v, x) BY DEF Still, Shaped
<1> HIDE DEF x, u
<1>3. Still(x, y) /\ Still(x, b) BY DEF Still, Shaped
<1> HIDE DEF y, b
<1>4. Rests(y, e) BY EnterRests
<1> HIDE DEF e
<1>5. Rests(e, g) BY FactsAskedRest
<1> HIDE DEF g
<1>6. Still(g, a) BY DEF Still, Shaped
<1> HIDE DEF a
<1>7. Rests(v, a) /\ Rests(v, b)
  BY <1>2, <1>3, <1>4, <1>5, <1>6, StillTrans, StillRests, RestsTrans
<1>8. Rests(v, u) BY <1>1, <1>7
<1> QED BY <1>8 DEF u

LEMMA CurrentRests ==
  ASSUME NEW v, NEW slot, NEW order
  PROVE  Rests(v, currentOrderLoaded(v, slot, order)) /\ Rests(v, currentOrderFailed(v, slot))
<1>1. Rests(v, currentOrderLoaded(v, slot, order))
  <2> DEFINE p == pageOrderLoaded(v, order)
             o == observeAuthoritativeCurrent(v, slot, order)
             x == IF slot = "page" /\ v.charge.read # None THEN p ELSE o
  <2>1. currentOrderLoaded(v, slot, order) \in {x, guardLoaded(x, order)}
    BY DEF currentOrderLoaded
  <2>2. Rests(v, x) BY PageOrderRests, ObserveRests
  <2> HIDE DEF x
  <2>3. Rests(v, guardLoaded(x, order)) BY <2>2, GuardRests, RestsTrans
  <2> QED BY <2>1, <2>2, <2>3
<1>2. Rests(v, currentOrderFailed(v, slot))
  <2> DEFINE x == [v EXCEPT !.charge.read = None, !.charge.reconcile = TRUE]
             g == [v EXCEPT !.main.guard = FALSE]
             k == clearActiveOrder(g, 0, TRUE)
             l == [k EXCEPT !.main.navShown = FALSE, !.main.page = "login"]
             r == [v EXCEPT !.main.reconnect = None]
             u == currentOrderFailed(v, slot)
  <2>1. u \in {v, Shown(x), l, r} BY DEF currentOrderFailed
  <2>2. Still(v, x) /\ Still(v, g) /\ Still(v, r) BY DEF Still, Shaped
  <2> HIDE DEF x, g, r, u
  <2>3. Still(g, k) BY WindowStill
  <2> HIDE DEF k
  <2>4. Still(k, l) BY DEF Still, Shaped
  <2> HIDE DEF l
  <2>5. Rests(v, l) /\ Rests(v, r) /\ Rests(v, Shown(x))
    BY <2>2, <2>3, <2>4, StillTrans, StillRests, ShownAfter
  <2>6. Rests(v, u) BY <2>1, <2>5, RestsSelf
  <2> QED BY <2>6 DEF u
<1> QED BY <1>1, <1>2

-----------------------------------------------------------------------------
(* A mutation of the order.                                                *)

LEMMA BeginMutationRests ==
  ASSUME NEW v, NEW op
  PROVE  Rests(v, beginMutation(v, op))
<1> DEFINE c == v.charge
           target == IF op = "reserve" THEN c.selection.charger ELSE c.order.id
           s == sendMutation(v, op, target)
           m == [op |-> op, subject |-> orderId(c.order), superseded |-> FALSE, fits |-> TRUE]
           x == [s EXCEPT !.charge.mutation = m, !.main.stamp = "same"]
           u == beginMutation(v, op)
<1>1. u \in {v, Shown(x)} BY DEF beginMutation
<1> HIDE DEF target, m, u
<1>2. Still(v, s) BY DEF Still, Shaped, sendMutation
<1> HIDE DEF s
<1>3. Still(s, x) BY DEF Still, Shaped
<1> HIDE DEF x
<1>4. Rests(v, u) BY <1>1, <1>2, <1>3, StillTrans, StillRests, ShownAfter, RestsSelf
<1> QED BY <1>4 DEF u

LEMMA EndMutationRests ==
  ASSUME NEW v
  PROVE  Rests(v, endMutation(v))
<1> DEFINE a == adoptMutationReadEpoch(v)
           x == [a EXCEPT !.charge.mutation = None]
<1>1. endMutation(v) = Shown(x) BY DEF endMutation
<1>2. Still(v, a) BY ReadsStill
<1> HIDE DEF a
<1>3. Still(a, x) BY DEF Still, Shaped
<1> HIDE DEF x
<1> QED BY <1>1, <1>2, <1>3, StillTrans, StillRests, ShownAfter

LEMMA AcceptRests ==
  ASSUME NEW v, NEW order
  PROVE  Rests(v, acceptMutation(v, order))
<1> DEFINE i == invalidateChargeReads(v)
           told == mutationAuthorityObserved(i, order)
           taken == takeOutcome(told, order)
           o == cancelOwnedSafeReads(told)
           s == Shown(taken)
           f == requestFacts(s, taken.charge.reconcile, taken.charge.exit)
           u == acceptMutation(v, order)
<1>1. u \in {endMutation(told), f} BY DEF acceptMutation
<1>2. Still(v, i) BY ReadsStill
<1> HIDE DEF i
<1>3. Still(i, told) BY OutcomeToldStill
<1>4. Rests(told, taken)
  <2> DEFINE exits == order.status \in Terminal /\ matching(told.charge.selection, order)
             reserved == told.charge.mutation.op = "reserve" /\ order.status = "reserved"
  <2>1. taken = [o EXCEPT
         !.charge.polling = FALSE, !.charge.order = order, !.charge.noOrder = FALSE,
         !.charge.selGen = 0, !.charge.associated = None,
         !.charge.exit = exits, !.charge.exitFailed = FALSE, !.charge.attempt = 0,
         !.charge.reconcile = exits \/ reserved, !.charge.mutation = None]
    BY Zenon DEF takeOutcome
  <2> HIDE DEF told, taken, exits, reserved
  <2>2. Rests(told, o) BY OwnedGivenUp
  <2> HIDE DEF o
  <2>3. Still(o, taken) BY <2>1 DEF Still, Shaped
  <2> QED BY <2>2, <2>3, StillRests, RestsTrans
<1> HIDE DEF told, taken, u
<1>5. Rests(v, told) /\ Rests(v, taken) BY <1>2, <1>3, <1>4, StillTrans, StillRests, RestsTrans
<1>6. Rests(v, s) BY <1>5, ShownAfter
<1> HIDE DEF s
<1>7. Rests(v, f) BY <1>6, FactsAskedRest, RestsTrans
<1> HIDE DEF f
<1>8. Rests(v, endMutation(told)) BY <1>5, EndMutationRests, RestsTrans
<1>9. Rests(v, u) BY <1>1, <1>7, <1>8
<1> QED BY <1>9 DEF u

LEMMA RefusedRests ==
  ASSUME NEW v, NEW why
  PROVE  Rests(v, mutationFailed(v, why))
<1> DEFINE i == invalidateChargeReads(v)
           told == [i EXCEPT !.main.stamp = "none"]
           r == [told EXCEPT !.charge.reconcile = TRUE]
           o == cancelOwnedSafeReads(r)
           x == [o EXCEPT !.charge.polling = FALSE, !.charge.mutation = None]
           failed == Shown(x)
           u == mutationFailed(v, why)
<1>1. u \in {endMutation(told), requestReconciliation(failed), failed} BY DEF mutationFailed
<1>2. Still(v, i) BY ReadsStill
<1> HIDE DEF i, u
<1>3. Still(i, told) BY DEF Still, Shaped
<1> HIDE DEF told
<1>4. Still(told, r) BY DEF Still, Shaped
<1> HIDE DEF r
<1>5. Rests(r, o) BY OwnedGivenUp
<1> HIDE DEF o
<1>6. Still(o, x) BY DEF Still, Shaped
<1> HIDE DEF x
<1>7. Rests(v, told) BY <1>2, <1>3, StillTrans, StillRests
<1>8. Rests(v, failed) BY <1>4, <1>5, <1>6, <1>7, StillRests, RestsTrans, ShownAfter
<1> HIDE DEF failed
<1>9. Rests(v, requestReconciliation(failed)) BY <1>8, ReconciliationRests, RestsTrans
<1>10. Rests(v, endMutation(told)) BY <1>7, EndMutationRests, RestsTrans
<1>11. Rests(v, u) BY <1>1, <1>8, <1>9, <1>10
<1> QED BY <1>11 DEF u

-----------------------------------------------------------------------------
(* The session and the connection.                                         *)

LEMMA SessionSeeks ==
  ASSUME NEW v, Shaped(v)
  PROVE  Seeks(v, sessionReset(v))
<1> DEFINE x == cancelAll(v)
           m == [x EXCEPT !.api.user = FALSE,
                     !.main = [page |-> "login", authority |-> None, remembered |-> None,
                               guard |-> FALSE, reconnect |-> None, required |-> FALSE,
                               queued |-> FALSE, deferred |-> FALSE, blocked |-> FALSE,
                               stamp |-> "none", navShown |-> FALSE]]
           n == resetNearbyPage(m)
           h == resetHistoryPage(n)
           u == resetChargePage(h)
<1>1. sessionReset(v) = u BY Zenon DEF sessionReset
<1>2. Still(v, x) BY ReadsStill
<1> HIDE DEF x
<1>3. Still(x, m) BY DEF Still, Shaped
<1> HIDE DEF m
<1>4. Shaped(m) /\ m.api.up = v.api.up BY <1>2, <1>3 DEF Still
<1>5. Seeks(m, n) BY <1>4, ResetSeeks
<1> HIDE DEF n
<1>6. Rests(n, h) BY HistoryStill, StillRests
<1> HIDE DEF h
<1>7. Rests(h, u) BY ChargeResetRests
<1> HIDE DEF u
<1>8. Seeks(m, u) BY <1>5, <1>6, <1>7, RestsTrans, SeeksOn
<1> QED BY <1>1, <1>4, <1>8 DEF Seeks

LEMMA ConnectedSeeks ==
  ASSUME NEW v, Shaped(v), Listing(v), NEW before
  PROVE  Seeks(v, connectionChanged(v, before))
<1> DEFINE h == HistoryConnectionChanged(v)
           c == ChargeConnectionChanged(h, before)
           n == NearbyConnectionChanged(c)
           r == [n EXCEPT !.main.required = TRUE, !.main.queued = TRUE]
           u == MainConnectionChanged(n)
<1>1. connectionChanged(v, before) = u BY DEF connectionChanged
<1>2. Rests(v, h) BY HistoryStill, StillRests
<1> HIDE DEF h
<1>3. Rests(h, c) BY ChargeConnectionRests
<1> HIDE DEF c
<1>4. Shaped(c) /\ c.api.up = v.api.up /\ Listing(c) BY <1>2, <1>3, RestsTrans DEF Rests
<1>5. Seeks(c, n) BY <1>4, ConnectionSeeks
<1> HIDE DEF n
<1>6. u \in {n, requestReconnectCurrent(r)} BY DEF MainConnectionChanged
<1>7. Still(n, r) BY DEF Still, Shaped
<1> HIDE DEF r
<1>8. Still(n, requestReconnectCurrent(r)) BY <1>7, WindowStill, StillTrans
<1>9. Rests(n, u) BY <1>6, <1>8, StillRests, RestsSelf
<1> HIDE DEF u
<1>10. Seeks(c, u) BY <1>5, <1>9, SeeksOn
<1> QED BY <1>1, <1>4, <1>10 DEF Seeks

LEMMA FailureRests ==
  ASSUME NEW v, NEW slot, slot # "list"
  PROVE  Rests(v, readFailed(v, slot)) /\ Rests(v, failOf(v, slot))
<1>1. ASSUME NEW z PROVE Rests(z, readFailed(z, slot))
  BY CurrentRests, FactsFailRest, ChargersRest, HistoryStill, StillRests, RestsSelf
     DEF readFailed
<1> DEFINE x == cancelSafeReads(v, {slot})
<1>2. Rests(v, x) BY ReadsStill, StillRests
<1>3. failOf(v, slot) \in {v, readFailed(x, slot)} BY DEF failOf
<1> HIDE DEF x
<1>4. Rests(v, readFailed(x, slot)) BY <1>1, <1>2, RestsTrans
<1> QED BY <1>1, <1>3, <1>4, RestsSelf

-----------------------------------------------------------------------------
(* The events.                                                             *)

LEMMA SoundShaped ==
  ASSUME Sound(w)
  PROVE  Shaped(w) /\ (nearby.list # None <=> "list" \in DOMAIN api.reads)
<1>1. /\ w \in Shell /\ Listed(w) /\ w.nearby \in NearbyState
      /\ w.api \in ApiState(Slots(w))
  BY Parts DEF Sound, Whole
<1>2. "up" \in DOMAIN w.api BY <1>1 DEF ApiState
<1>3. /\ {"list", "foreground", "geocode", "search"} \subseteq DOMAIN w.nearby
      /\ w.nearby.list \in Maybe(StationList)
  BY <1>1 DEF NearbyState
<1>4. {"api", "nearby"} \subseteq DOMAIN w BY DEF w
<1>5. Shaped(w) BY <1>2, <1>3, <1>4 DEF Shaped
<1> QED BY <1>1, <1>5, ShellOf DEF Listed, Slots

LEMMA BecomesSearching ==
  ASSUME NEW x, NEW slots, Becomes(x, slots), Searching(x)
  PROVE  Searching(w)'
BY DEF Becomes, w, Searching, Listing, Trying

\* An event that is not one of the search, and one that is.
LEMMA RestEvent ==
  ASSUME Sound(w), Searching(w), NEW x, NEW slots, Becomes(x, slots), Rests(w, x)
  PROVE  Searching(w)'
<1>1. Searching(x) BY SoundShaped DEF Rests
<1> QED BY <1>1, BecomesSearching

LEMMA SeekEvent ==
  ASSUME NEW v, NEW x, NEW slots, Becomes(x, slots), Seeks(v, x)
  PROVE  Searching(w)'
<1>1. Searching(x) BY DEF Seeks
<1> QED BY <1>1, BecomesSearching

\* The window turns a page.
LEMMA PageStill ==
  ASSUME NEW v, NEW page, NEW m, NEW p
  PROVE  /\ Still(v, [v EXCEPT !.main.page = page])
         /\ Still(v, [v EXCEPT !.main.remembered = m])
         /\ Still(v, [v EXCEPT !.main.authority = p, !.main.remembered = m,
                               !.main.page = page])
BY DEF Still, Shaped

LEMMA LeavesRest ==
  ASSUME NEW v
  PROVE  Rests(v, leaves(v))
BY LeaveRests, HistoryStill, StillRests, RestsSelf DEF leaves

LEMMA LoginSearching ==
  ASSUME Sound(w), Searching(w), loginByPhone
  PROVE  Searching(w)'
<1> DEFINE x == sessionReset(w)
           y == send(x, "login")
<1>1. Does(x) \/ Does(y) BY DEF loginByPhone
<1>2. Seeks(w, x) BY SoundShaped, SessionSeeks
<1> HIDE DEF x
<1>3. Rests(x, y) BY ReadsStill, StillRests
<1> HIDE DEF y
<1>4. Seeks(w, y) BY <1>2, <1>3, SeeksOn
<1> QED BY <1>1, <1>2, <1>4, SeekEvent DEF Does

LEMMA TurnSearching ==
  ASSUME Sound(w), Searching(w),
         NearbyButton \/ ProfileButton \/ HistoryButton \/ CurrentOrderButton
           \/ navigationRequested \/ navigationBack
  PROVE  Searching(w)'
<1> DEFINE l == leaves(w)
           p == leavePage(w)
           q == IF main.page = "charge" THEN p ELSE w
           a == activateHistory(q)
           c == cancelReconnectCurrent(w)
           d == IF main.page = "history" THEN deactivateHistory(c) ELSE c
           e == enterOrder(d, main.authority)
           r == resume(e)
           T(x, page) == [x EXCEPT !.main.page = page]
<1>1. \/ Does(T(l, "nearby")) \/ Does(T(l, "profile")) \/ Does(T(a, "history"))
      \/ Does(T(r, "charge")) \/ Does(T(w, "navigation")) \/ Does(T(w, "nearby"))
  BY DEF NearbyButton, ProfileButton, HistoryButton, CurrentOrderButton,
         navigationRequested, navigationBack
<1>2. Rests(w, l) BY LeavesRest
<1>3. Rests(w, q) BY LeaveRests, RestsSelf
<1>4. Rests(q, a) BY HistoryStill, StillRests
<1>5. Rests(w, c) BY WindowStill, StillRests
<1>6. Rests(c, d) BY HistoryStill, StillRests, RestsSelf
<1>7. Rests(d, e) BY EnterRests
<1>8. Rests(e, r) BY ReconciliationRests
<1> HIDE DEF l, q, a, c, d, e, r
<1>9. Rests(w, a) /\ Rests(w, r)
  BY <1>3, <1>4, <1>5, <1>6, <1>7, <1>8, RestsTrans
<1>10. ASSUME NEW x, NEW page, Rests(w, x) PROVE Rests(w, T(x, page))
  BY <1>10, PageStill, StillRests, RestsTrans
<1>11. /\ Rests(w, T(l, "nearby")) /\ Rests(w, T(l, "profile")) /\ Rests(w, T(a, "history"))
       /\ Rests(w, T(r, "charge")) /\ Rests(w, T(w, "navigation")) /\ Rests(w, T(w, "nearby"))
  BY <1>2, <1>9, <1>10, RestsSelf
<1> HIDE DEF T
<1> QED BY <1>1, <1>11, RestEvent DEF Does

LEMMA HistoryPageSearching ==
  ASSUME Sound(w), Searching(w), HistoryPageButton \/ handleHistory
  PROVE  Searching(w)'
<1>1. CASE HistoryPageButton
  <2>1. \/ Does(refreshHistory(w))
        \/ \E i : Does(requestPage(w, i))
    BY <1>1 DEF HistoryPageButton
  <2> QED BY <2>1, HistoryStill, StillRests, RestEvent DEF Does
<1>2. CASE handleHistory
  <2> DEFINE x == answered("history")
  <2>1. PICK more : Does(orderHistoryLoaded(x, more)) BY <1>2 DEF handleHistory
  <2>2. Still(w, x) BY ReadsStill DEF answered
  <2> HIDE DEF x
  <2>3. Rests(w, orderHistoryLoaded(x, more)) BY <2>2, HistoryStill, StillTrans, StillRests
  <2> QED BY <2>1, <2>3, RestEvent DEF Does
<1> QED BY <1>1, <1>2

LEMMA SelectSearching ==
  ASSUME Sound(w), Searching(w), chargerSelected
  PROVE  Searching(w)'
<1>1. PICK c \in Charger, st \in Status :
        LET s == [charger |-> c, status |-> st, fresh |-> TRUE, valid |-> TRUE]
            v == nextSelection(w)
        IN  IF main.authority # None \/ main.blocked THEN Does(v)
            ELSE Does([enterSelection([v EXCEPT !.main.remembered = s], s) EXCEPT
                         !.main.page = "charge"])
  BY DEF chargerSelected
<1> DEFINE s == [charger |-> c, status |-> st, fresh |-> TRUE, valid |-> TRUE]
           v == nextSelection(w)
           m == [v EXCEPT !.main.remembered = s]
           e == enterSelection(m, s)
           u == [e EXCEPT !.main.page = "charge"]
<1>2. Does(v) \/ Does(u) BY <1>1
<1>3. Rests(w, v) BY GenerationRests
<1> HIDE DEF v
<1>4. Rests(v, m) BY PageStill, StillRests
<1> HIDE DEF m
<1>5. Rests(m, e) BY EnterRests
<1> HIDE DEF e
<1>6. Rests(e, u) BY PageStill, StillRests
<1> HIDE DEF u
<1>7. Rests(w, u) BY <1>3, <1>4, <1>5, <1>6, RestsTrans
<1> QED BY <1>2, <1>3, <1>7, RestEvent DEF Does

\* The buttons that are one call.
LEMMA CallSearching ==
  ASSUME Sound(w), Searching(w),
         \/ AuthorityRetryButton \/ stationSelected \/ NearbyRetryButton
         \/ MutationButton \/ RetryButton \/ pollTimer
  PROVE  Searching(w)'
<1>1. \/ Does(requestReconnectCurrent(w)) \/ (\E d : Does(requestStationDetail(w, d)))
      \/ Does(requestReconnectStations(w)) \/ (\E op : Does(beginMutation(w, op)))
      \/ Does(requestReconciliation(w)) \/ Does(requestPoll(w))
  BY DEF AuthorityRetryButton, stationSelected, NearbyRetryButton, MutationButton,
         RetryButton, pollTimer
<1>2. /\ Rests(w, requestReconnectCurrent(w)) /\ (\A d : Rests(w, requestStationDetail(w, d)))
      /\ Rests(w, requestReconnectStations(w)) /\ (\A op : Rests(w, beginMutation(w, op)))
      /\ Rests(w, requestReconciliation(w)) /\ Rests(w, requestPoll(w))
  BY WindowStill, StillRests, ChargersRest, ReconnectStationsRest, BeginMutationRests,
     ReconciliationRests, LoadRests
<1> QED BY <1>1, <1>2, RestEvent DEF Does

LEMMA BackSearching ==
  ASSUME Sound(w), Searching(w), BackButton
  PROVE  Searching(w)'
<1> DEFINE e == enterOrder(w, main.authority)
           r == resume(e)
           l == leavePage(w)
           u == [l EXCEPT !.main.authority = None, !.main.remembered = None,
                          !.main.page = "nearby"]
<1>1. Does(r) \/ Does(u) BY DEF BackButton
<1>2. Rests(w, e) BY EnterRests
<1> HIDE DEF e
<1>3. Rests(e, r) BY ReconciliationRests
<1> HIDE DEF r
<1>4. Rests(w, l) BY LeaveRests
<1> HIDE DEF l
<1>5. Rests(l, u) BY PageStill, StillRests
<1> HIDE DEF u
<1>6. Rests(w, r) /\ Rests(w, u) BY <1>2, <1>3, <1>4, <1>5, RestsTrans
<1> QED BY <1>1, <1>6, RestEvent DEF Does

LEMMA AddressSearching ==
  ASSUME Sound(w), Searching(w), SearchButton \/ geocodeFinished
  PROVE  Searching(w)'
<1>1. \/ Does(searchCurrentAddress(w)) \/ Does(geocodeSucceeded(w)) \/ Does(geocodeFailed(w))
  BY DEF SearchButton, geocodeFinished
<1>2. Shaped(w) /\ Listing(w) BY SoundShaped DEF Searching
<1>3. /\ Seeks(w, searchCurrentAddress(w)) /\ Seeks(w, geocodeSucceeded(w))
      /\ Seeks(w, geocodeFailed(w))
  BY <1>2, SearchSeeks, GeocodeSeeks
<1> QED BY <1>1, <1>3, SeekEvent DEF Does

\* The list is awaited when it is answered, or fails.
LEMMA ListFound ==
  ASSUME Sound(w), Searching(w), "list" \in DOMAIN api.reads
  PROVE  Found(answered("list"))
<1> DEFINE x == answered("list")
<1>1. Still(w, x) BY ReadsStill DEF answered
<1> HIDE DEF x
<1>2. Shaped(x) /\ x.nearby = w.nearby BY <1>1, SoundShaped DEF Still
<1>3. w.nearby.list # None BY SoundShaped, ShellOf
<1>4. Found(x) BY <1>2, <1>3 DEF Found, Searching, Listing
<1> QED BY <1>4 DEF x

LEMMA AnswerSearching ==
  ASSUME Sound(w), Searching(w),
         handleLogin \/ handleCurrent \/ handleList \/ handleDetail \/ handleFacts
  PROVE  Searching(w)'
<1>0. ASSUME NEW slot PROVE Rests(w, answered(slot)) BY ReadsStill, StillRests DEF answered
<1>1. CASE handleLogin
  <2> DEFINE x == answered("login")
             a == [x EXCEPT !.api.user = TRUE]
             s == send(a, "guard")
             u == [s EXCEPT
                     !.main.remembered = None, !.main.deferred = FALSE, !.main.stamp = "none",
                     !.main.reconnect = None, !.main.required = FALSE, !.main.queued = FALSE,
                     !.main.authority = None, !.main.guard = TRUE]
  <2>1. Does(u) BY <1>1 DEF handleLogin, loginSucceeded
  <2>2. Rests(w, x) BY <1>0
  <2> HIDE DEF x
  <2>3. Still(x, a) BY DEF Still, Shaped
  <2> HIDE DEF a
  <2>4. Still(a, s) BY ReadsStill
  <2> HIDE DEF s
  <2>5. Still(s, u) BY DEF Still, Shaped
  <2> HIDE DEF u
  <2>6. Rests(w, u) BY <2>2, <2>3, <2>4, <2>5, StillRests, RestsTrans
  <2> QED BY <2>1, <2>6, RestEvent DEF Does
<1>2. CASE handleCurrent
  <2>1. PICK slot \in CurrentRead : Does(currentOrderLoaded(answered(slot), slot, server.order))
    BY <1>2 DEF handleCurrent
  <2>2. Rests(w, currentOrderLoaded(answered(slot), slot, server.order))
    BY <1>0, CurrentRests, RestsTrans
  <2> QED BY <2>1, <2>2, RestEvent DEF Does
<1>3. CASE handleList
  <2>1. PICK has \in BOOLEAN : Becomes(nearbyStationsLoaded(answered("list"), has), {"list"})
    BY <1>3 DEF handleList
  <2>2. "list" \in DOMAIN api.reads BY <1>3 DEF handleList, Due
  <2>3. Seeks(answered("list"), nearbyStationsLoaded(answered("list"), has))
    BY <2>2, ListFound, StationsLoadedSeeks
  <2> QED BY <2>1, <2>3, SeekEvent
<1>4. CASE handleDetail
  <2>1. PICK d \in DetailId : Does(stationDetailLoaded(cancelDetails(w, {d}), d))
    BY <1>4 DEF handleDetail
  <2>2. Rests(w, cancelDetails(w, {d})) BY ReadsStill, StillRests
  <2>3. Rests(w, stationDetailLoaded(cancelDetails(w, {d}), d))
    BY <2>2, ChargersRest, RestsTrans
  <2> QED BY <2>1, <2>3, RestEvent DEF Does
<1>5. CASE handleFacts
  <2>1. PICK st : Becomes(factsLoaded(answered("facts"), st), {"facts"})
    BY <1>5 DEF handleFacts
  <2>2. Rests(w, factsLoaded(answered("facts"), st)) BY <1>0, FactsLoadedRest, RestsTrans
  <2> QED BY <2>1, <2>2, RestEvent
<1> QED BY <1>1, <1>2, <1>3, <1>4, <1>5

LEMMA ReadFailureSearching ==
  ASSUME Sound(w), Searching(w),
         NEW slot \in DOMAIN api.reads, Does(readFailed(answered(slot), slot))
  PROVE  Searching(w)'
<1>1. Does(readFailed(answered(slot), slot)) OBVIOUS
<1> DEFINE x == answered(slot)
<1>2. CASE slot = "list"
  <2>1. readFailed(x, slot) = nearbyStationsFailed(x) BY <1>2 DEF readFailed, CurrentRead
  <2>2. Found(x) BY <1>2, ListFound
  <2> HIDE DEF x
  <2>3. Seeks(x, nearbyStationsFailed(x)) BY <2>2, StationsFailedSeeks
  <2> QED BY <1>1, <2>1, <2>3, SeekEvent DEF Does, x
<1>3. CASE slot # "list"
  <2>1. Rests(w, x) BY ReadsStill, StillRests DEF answered
  <2> HIDE DEF x
  <2>2. Rests(w, readFailed(x, slot)) BY <1>3, <2>1, FailureRests, RestsTrans
  <2> QED BY <1>1, <2>2, RestEvent DEF Does, x
<1> QED BY <1>2, <1>3

LEMMA FailureSearching ==
  ASSUME Sound(w), Searching(w), handleFailure
  PROVE  Searching(w)'
<1>1. CASE \E slot \in DOMAIN api.reads : api.up /\ Does(readFailed(answered(slot), slot))
  BY <1>1, ReadFailureSearching
<1>2. CASE \E d \in DetailId :
             DetailDue(d) /\ Does(stationDetailFailed(cancelDetails(w, {d}), d))
  <2>1. PICK d \in DetailId : Does(stationDetailFailed(cancelDetails(w, {d}), d)) BY <1>2
  <2>2. Rests(w, cancelDetails(w, {d})) BY ReadsStill, StillRests
  <2>3. Rests(w, stationDetailFailed(cancelDetails(w, {d}), d))
    BY <2>2, ChargersRest, RestsTrans
  <2> QED BY <2>1, <2>3, RestEvent DEF Does
<1> QED BY <1>1, <1>2 DEF handleFailure

LEMMA ExpirySearching ==
  ASSUME Sound(w), Searching(w), handleExpiry
  PROVE  Searching(w)'
<1> DEFINE v == [w EXCEPT !.api.ops = Tail(@)]
<1>1. Does(sessionReset(w)) \/ Does(sessionReset(v)) BY DEF handleExpiry
<1>2. Shaped(w) BY SoundShaped
<1>3. Still(w, v) BY DEF Still, Shaped
<1> HIDE DEF v
<1>4. Shaped(v) BY <1>2, <1>3 DEF Still
<1>5. Seeks(w, sessionReset(w)) /\ Seeks(v, sessionReset(v)) BY <1>2, <1>4, SessionSeeks
<1> QED BY <1>1, <1>5, SeekEvent DEF Does

LEMMA OutcomeSearching ==
  ASSUME Sound(w), Searching(w), handleMutation \/ MutationTimeout
  PROVE  Searching(w)'
<1> DEFINE g == [w EXCEPT !.api.ops = [i \in DOMAIN @ |-> [@[i] EXCEPT !.live = FALSE]]]
<1>1. \/ Becomes(nearer, {})
      \/ (\E order : Becomes(acceptMutation(nearer, order), {}))
      \/ (\E why : Becomes(mutationFailed(nearer, why), {}))
      \/ (\E why : Becomes(mutationFailed(g, why), {}))
  BY Zenon DEF handleMutation, MutationTimeout, Does
<1>2. Still(w, nearer) BY DEF Still, Shaped, nearer
<1>3. Still(w, g) BY DEF Still, Shaped
<1> HIDE DEF g
<1>4. /\ Rests(w, nearer) /\ (\A order : Rests(w, acceptMutation(nearer, order)))
      /\ (\A why : Rests(w, mutationFailed(nearer, why)))
      /\ (\A why : Rests(w, mutationFailed(g, why)))
  BY <1>2, <1>3, StillRests, AcceptRests, RefusedRests, RestsTrans
<1> QED BY <1>1, <1>4, RestEvent

LEMMA LinkSearching ==
  ASSUME Sound(w), Searching(w), Disconnect \/ Connect
  PROVE  Searching(w)'
<1>a. Shaped(w) /\ Listing(w) BY SoundShaped DEF Searching
<1>1. CASE Connect
  <2> DEFINE x == [w EXCEPT !.api.up = TRUE, !.api.replayed = DOMAIN api.reads]
  <2>1. Does(connectionChanged(x, FALSE)) BY <1>1 DEF Connect
  <2>2. Shaped(x) /\ x.nearby = w.nearby BY <1>a DEF Shaped
  <2> HIDE DEF x
  <2>3. Listing(x) BY <1>a, <2>2 DEF Listing
  <2>4. Seeks(x, connectionChanged(x, FALSE)) BY <2>2, <2>3, ConnectedSeeks
  <2> QED BY <2>1, <2>4, SeekEvent DEF Does
<1>2. CASE Disconnect
  <2> DEFINE gone == [w EXCEPT !.api.up = FALSE, !.api.ops = <<>>]
             told == connectionChanged(gone, TRUE)
             over == {"login"} \cup told.api.replayed
             f1 == failOf(told, "login")
             f2 == failOf(f1, IF "guard" \in over THEN "guard" ELSE "login")
             reads == failOf(f2, IF "reconnect" \in over THEN "reconnect" ELSE "login")
             failed == IF \E i \in DOMAIN api.ops : api.ops[i].live
                       THEN mutationFailed(reads, "uncertain") ELSE reads
             u == [failed EXCEPT !.api.reads = [s \in DOMAIN @ |-> 0],
                                 !.api.details = [i \in DetailId |->
                                                    IF @[i] = "sent" THEN "kept" ELSE "over"]]
  <2>1. Becomes(u, {})
    <3>1. lost(w) = u BY Zenon DEF lost
    <3> HIDE DEF u
    <3> QED BY <1>2, <3>1 DEF Disconnect
  <2>2. Shaped(gone) /\ gone.nearby = w.nearby BY <1>a DEF Shaped
  <2> HIDE DEF gone
  <2>3. Listing(gone) BY <1>a, <2>2 DEF Listing
  <2>4. Seeks(gone, told) BY <2>2, <2>3, ConnectedSeeks
  <2> HIDE DEF told, over
  <2>5. Rests(told, f1) BY FailureRests
  <2> HIDE DEF f1
  <2>6. Rests(f1, f2) BY FailureRests
  <2> HIDE DEF f2
  <2>7. Rests(f2, reads) BY FailureRests
  <2> HIDE DEF reads
  <2>8. Rests(reads, failed) BY RefusedRests, RestsSelf
  <2> HIDE DEF failed
  <2>9. Rests(failed, u)
    <3>1. Shaped(failed) =>
            /\ {"api", "nearby"} \subseteq DOMAIN u /\ "up" \in DOMAIN u.api
            /\ u.api.up = failed.api.up /\ u.nearby = failed.nearby
      BY DEF Shaped
    <3> HIDE DEF u
    <3>2. Still(failed, u) BY <3>1 DEF Still, Shaped
    <3> QED BY <3>2, StillRests
  <2> HIDE DEF u
  <2>10. Seeks(gone, u) BY <2>4, <2>5, <2>6, <2>7, <2>8, <2>9, RestsTrans, SeeksOn
  <2> QED BY <2>1, <2>10, SeekEvent
<1> QED BY <1>1, <1>2

-----------------------------------------------------------------------------
(* The search recovers.                                                    *)

LEMMA SearchingStep ==
  ASSUME IInv, Searching(w), [Next]_vars
  PROVE  Searching(w)'
<1>1. Sound(w) BY DEF IInv
<1>2. CASE Press
  BY <1>1, <1>2, LoginSearching, TurnSearching, HistoryPageSearching, SelectSearching,
     CallSearching, BackSearching, AddressSearching
  DEF Press
<1>3. CASE Answer
  BY <1>1, <1>3, AnswerSearching, HistoryPageSearching, FailureSearching, ExpirySearching,
     OutcomeSearching, AddressSearching
  DEF Answer
<1>4. CASE pollTimer BY <1>1, <1>4, CallSearching
<1>5. CASE Disconnect \/ Connect BY <1>1, <1>5, LinkSearching
<1>6. CASE Elsewhere \/ UNCHANGED vars
  <2>1. w' = w BY <1>6 DEF Elsewhere, vars, w
  <2>2. Searching(w') BY <2>1
  <2> QED BY <2>2
<1> QED BY <1>2, <1>3, <1>4, <1>5, <1>6 DEF Next

\* The list that is awaited is for the search as it is, a search that is under way
\* awaits its address or its list, and it is allowed to search unless one of these
\* is under way: the inductive invariant of the theorem below.
THEOREM SearchingAlways == Spec => []Searching(w)
<1>1. Init => IInv /\ Searching(w)
  BY SoundInit DEF Init, w, Searching, Listing, Trying
<1>2. IInv /\ Searching(w) /\ [Next]_vars => IInv' /\ Searching(w)'
  BY IInvStep, SearchingStep
<1> QED BY <1>1, <1>2, PTL DEF Spec

\* While the connection is up the search button is enabled, or an address or a list
\* that will enable it is awaited: no list that is superseded, given up, ignored,
\* lost with the connection or dropped with a selection or a session leaves the
\* page without its search.
THEOREM SearchAlwaysRecovers == Spec => []SearchRecovers
<1>1. ASSUME Searching(w) PROVE SearchRecovers
  BY <1>1, ShellOf DEF Searching, Trying, SearchRecovers
<1> QED BY <1>1, SearchingAlways, PTL
=================================================================================
