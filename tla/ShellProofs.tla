------------------------------ MODULE ShellProofs ------------------------------
(***************************************************************************)
(* What the operators of the shell keep, for any chargers and any number   *)
(* of orders: the types, the reads that the pages know of, the block that  *)
(* MainWindow was told of, the buttons that were last rendered, and the    *)
(* selections that were withdrawn.                                         *)
(***************************************************************************)
EXTENDS MainWindow, TLAPS

Shell ==
  [api : UNION {ApiState(S) : S \in SUBSET Read}, charge : ChargeState, nearby : NearbyState,
   history : HistoryState, main : MainState]

Slots(v) == DOMAIN v.api.reads

\* What the page of an order awaits is for the page as it is.
Paged(c) ==
  /\ c.facts # None => c.facts.fits /\ c.active
  /\ c.read # None => c.active /\ c.read.selGen = c.selGen
  /\ c.read # None /\ c.read.op = "reconcile" =>
       c.facts = None /\ ~c.exitFailed /\ (c.exit => c.attempt = 0)
  /\ c.exitFailed => c.facts = None
  /\ c.order # None \/ c.exit => c.selGen = 0

\* A page knows of the reads under way that it owns.
Listed(v) == v.nearby.list # None <=> "list" \in Slots(v)
Known(v) ==
  /\ v.charge.facts # None <=> "facts" \in Slots(v)
  /\ v.charge.read # None <=> "page" \in Slots(v)
  /\ v.history.pending # None <=> "history" \in Slots(v)
  /\ Paged(v.charge)

\* What MainWindow was told last, and that it is still so.
Told(v) == v.main.blocked = v.charge.reported
Reported(v) == v.charge.reported = chargeFlowBlocked(v.charge)
Heard(v) == chargeFlowBlocked(v.charge) => v.charge.reported

\* The buttons, but for the one that tries again, are what render() would show.
Usable(v) ==
  LET c == v.charge
      mutable == /\ v.api.up /\ c.mutation = None /\ ~c.reconcile /\ ~c.factsFailed
                 /\ ~(c.facts # None /\ c.gate)
  IN  (IF c.active /\ mutable THEN Offers(c) ELSE {})
      \cup (IF c.active /\ Leaves(c) /\ ~chargeFlowBlocked(c) THEN {"back"} ELSE {})
Rendered(v) == v.charge.buttons \ {"retry"} = Usable(v)

\* A withdrawn selection waits for the block to end.
Withdrawn(v) ==
  /\ v.charge.selection # None /\ ~v.charge.selection.valid => v.main.deferred
  /\ v.main.remembered # None /\ ~v.main.remembered.valid => v.main.deferred
  /\ v.main.deferred => v.main.blocked

-----------------------------------------------------------------------------
(* Steps of the handlers.                                                  *)

\* The pages of stations and of an order leave the rest of the window alone, and
\* the reads they send wait for the mutations sent before.
Frame(v, u) ==
  /\ u.api.up = v.api.up /\ u.api.user = v.api.user /\ u.api.ops = v.api.ops
  /\ u.history = v.history
  /\ u.charge.active = v.charge.active /\ u.charge.order = v.charge.order
  /\ u.charge.mutation = v.charge.mutation
  /\ u.main.page = v.main.page /\ u.main.authority = v.main.authority
  /\ u.main.guard = v.main.guard /\ u.main.reconnect = v.main.reconnect
  /\ u.main.required = v.main.required /\ u.main.queued = v.main.queued
  /\ u.main.stamp = v.main.stamp /\ u.main.navShown = v.main.navShown
  /\ v.main.remembered = None => u.main.remembered = None
  /\ v.charge.selection = None => u.charge.selection = None
  /\ \A s \in {"guard", "reconnect", "login", "history"} : s \in Slots(u) <=> s \in Slots(v)
  /\ \A s \in Slots(u) :
       \/ s \in Slots(v) /\ u.api.reads[s] = v.api.reads[s]
       \/ u.api.reads[s] = Len(v.api.ops)

Within(v, u) == Frame(v, u) /\ (Listed(v) => Listed(u))

Moves(v, u) ==
  /\ u \in Shell /\ Known(u) /\ Told(u) /\ Within(v, u)
  /\ Withdrawn(v) => Withdrawn(u)

Keeps(v, u) ==
  /\ u \in Shell /\ Known(u) /\ Told(u) /\ Within(v, u)
  /\ Reported(v) => Reported(u)
  /\ Heard(v) => Heard(u)
  /\ Heard(v) /\ Withdrawn(v) => Withdrawn(u)
  /\ Rendered(v) => Rendered(u)

Settles(v, u) == Moves(v, u) /\ Reported(u) /\ Rendered(u)

\* The list that the page of stations waits for is left out.
Lightly(v, u) ==
  /\ u \in Shell /\ Known(u) /\ Told(u) /\ Frame(v, u)
  /\ Reported(v) => Reported(u)
  /\ Heard(v) => Heard(u)
  /\ Heard(v) /\ Withdrawn(v) => Withdrawn(u)
  /\ Rendered(v) => Rendered(u)

LEMMA ReportedHeard == ASSUME NEW v, Reported(v) PROVE Heard(v)
BY DEF Reported, Heard

LEMMA WithinTrans ==
  ASSUME NEW a, NEW b, NEW c, Within(a, b), Within(b, c) PROVE Within(a, c)
BY DEF Within, Frame

LEMMA LightlyTrans ==
  ASSUME NEW a, NEW b, NEW c, Lightly(a, b), Lightly(b, c) PROVE Lightly(a, c)
BY DEF Lightly, Frame

LEMMA LightlyListed ==
  ASSUME NEW v, NEW u
  PROVE  /\ Keeps(v, u) => Lightly(v, u)
         /\ Lightly(v, u) /\ (Listed(v) => Listed(u)) => Keeps(v, u)
BY DEF Lightly, Keeps, Within

LEMMA KeepsTrans ==
  ASSUME NEW a, NEW b, NEW c, Keeps(a, b), Keeps(b, c) PROVE Keeps(a, c)
BY WithinTrans DEF Keeps

LEMMA MovesTrans ==
  ASSUME NEW a, NEW b, NEW c, Moves(a, b), Moves(b, c) PROVE Moves(a, c)
BY WithinTrans DEF Moves

LEMMA SettlesAfter ==
  ASSUME NEW a, NEW b, NEW c, Moves(a, b), Settles(b, c) PROVE Settles(a, c)
BY MovesTrans DEF Settles

LEMMA SettlesKeeps ==
  ASSUME NEW v, NEW u, Settles(v, u) PROVE Keeps(v, u)
BY DEF Settles, Moves, Keeps, Reported, Heard

LEMMA WithinSelf == ASSUME NEW v PROVE Within(v, v)
BY DEF Within, Frame

LEMMA KeepsSelf ==
  ASSUME NEW v \in Shell, Known(v), Told(v) PROVE Keeps(v, v) /\ Moves(v, v)
BY WithinSelf DEF Keeps, Moves

-----------------------------------------------------------------------------
(* The parts of a shell.                                                   *)

LEMMA Parts ==
  ASSUME NEW v \in Shell
  PROVE  /\ Slots(v) \subseteq Read /\ v.api \in ApiState(Slots(v))
         /\ v.charge \in ChargeState /\ v.nearby \in NearbyState /\ v.history \in HistoryState
         /\ v.main \in MainState
<1>1. v.charge \in ChargeState /\ v.nearby \in NearbyState /\ v.history \in HistoryState
      /\ v.main \in MainState /\ v.api \in UNION {ApiState(S) : S \in SUBSET Read}
  BY DEF Shell
<1>2. PICK S \in SUBSET Read : v.api \in ApiState(S) BY <1>1
<1>3. S = DOMAIN v.api.reads BY <1>2 DEF ApiState
<1> QED BY <1>1, <1>2, <1>3 DEF Slots

LEMMA Built ==
  ASSUME NEW a, NEW c \in ChargeState, NEW n \in NearbyState, NEW h \in HistoryState,
         NEW m \in MainState, NEW S \in SUBSET Read, a \in ApiState(S)
  PROVE  [api |-> a, charge |-> c, nearby |-> n, history |-> h, main |-> m] \in Shell
<1>1. a \in UNION {ApiState(T) : T \in SUBSET Read} OBVIOUS
<1> HIDE DEF ApiState, ChargeState, NearbyState, HistoryState, MainState
<1> QED BY <1>1 DEF Shell

\* A step of the page of stations alone.
LEMMA NearbyAlone ==
  ASSUME NEW v \in Shell, Known(v), Told(v), NEW n \in NearbyState,
         n.list # None <=> v.nearby.list # None
  PROVE  Keeps(v, [v EXCEPT !.nearby = n]) /\ Moves(v, [v EXCEPT !.nearby = n])
<1> DEFINE u == [v EXCEPT !.nearby = n]
<1>1. u \in Shell BY DEF Shell
<1>2. u.api = v.api /\ u.charge = v.charge /\ u.history = v.history /\ u.main = v.main /\ u.nearby = n
  BY DEF Shell
<1> HIDE DEF u
<1>3. Known(u) /\ Told(u) BY <1>2 DEF Known, Told, Slots
<1>4. Within(v, u) BY <1>2 DEF Within, Frame, Slots, Listed
<1>5. /\ Reported(v) => Reported(u)
      /\ Heard(v) => Heard(u)
      /\ Withdrawn(v) => Withdrawn(u)
      /\ Rendered(v) => Rendered(u)
  BY <1>2 DEF Reported, Heard, Withdrawn, Rendered, Usable
<1> QED BY <1>1, <1>3, <1>4, <1>5 DEF Keeps, Moves, u

LEMMA SetSearchPending ==
  ASSUME NEW v \in Shell, Known(v), Told(v), NEW p \in BOOLEAN
  PROVE  Keeps(v, setSearchPending(v, p))
<1> DEFINE n == [v.nearby EXCEPT !.search = v.api.up /\ ~p]
<1>1. n \in NearbyState /\ n.list = v.nearby.list /\ n.detail = v.nearby.detail
  BY Parts DEF NearbyState, ApiState
<1>2. setSearchPending(v, p) = [v EXCEPT !.nearby = n]
  BY DEF setSearchPending
<1> QED BY <1>1, <1>2, NearbyAlone

LEMMA SetDetailControls ==
  ASSUME NEW v \in Shell, Known(v), Told(v), NEW on \in BOOLEAN
  PROVE  Keeps(v, setDetailControlsEnabled(v, on))
<1> DEFINE n == [v.nearby EXCEPT !.controls = on]
<1>1. n \in NearbyState /\ n.list = v.nearby.list /\ n.detail = v.nearby.detail
  BY Parts DEF NearbyState
<1>2. setDetailControlsEnabled(v, on) = [v EXCEPT !.nearby = n]
  BY DEF setDetailControlsEnabled
<1> QED BY <1>1, <1>2, NearbyAlone

LEMMA ResetRefresh ==
  ASSUME NEW v \in Shell, Known(v), Told(v)
  PROVE  /\ Keeps(v, resetChargeRefresh(v)) /\ Moves(v, resetChargeRefresh(v))
         /\ resetChargeRefresh(v).charge = v.charge
<1> DEFINE n == [v.nearby EXCEPT !.refresh = None]
<1>1. n \in NearbyState /\ n.list = v.nearby.list /\ n.detail = v.nearby.detail
  BY Parts DEF NearbyState, Maybe
<1>2. resetChargeRefresh(v) = [v EXCEPT !.nearby = n]
  BY DEF resetChargeRefresh
<1>3. [v EXCEPT !.nearby = n].charge = v.charge BY DEF Shell
<1> QED BY <1>1, <1>2, <1>3, NearbyAlone

\* What cancelling reads and sending one do to the table.
LEMMA CancelReads ==
  ASSUME NEW v \in Shell, NEW slots
  PROVE  LET u == cancelSafeReads(v, slots) IN
         /\ u \in Shell
         /\ u.charge = v.charge /\ u.nearby = v.nearby /\ u.history = v.history
         /\ u.main = v.main /\ u.api.up = v.api.up /\ u.api.user = v.api.user
         /\ u.api.ops = v.api.ops /\ Slots(u) = Slots(v) \ slots
         /\ \A s \in Slots(u) : u.api.reads[s] = v.api.reads[s]
<1> DEFINE r == [s \in Slots(v) \ slots |-> v.api.reads[s]]
           a == [v.api EXCEPT !.reads = r, !.replayed = v.api.replayed \ slots]
           u == cancelSafeReads(v, slots)
<1>1. r \in [Slots(v) \ slots -> Nat] BY Parts DEF ApiState
<1>2. a \in ApiState(Slots(v) \ slots) BY <1>1, Parts DEF ApiState
<1>3. a.reads = r /\ a.up = v.api.up /\ a.user = v.api.user /\ a.ops = v.api.ops
  BY Parts DEF ApiState
<1>4. u = [v EXCEPT !.api = a] BY Parts DEF cancelSafeReads, ApiState, Slots
<1>5. Slots(v) \ slots \in SUBSET Read BY Parts
<1>6. u \in Shell /\ u.api = a /\ u.charge = v.charge /\ u.nearby = v.nearby
      /\ u.history = v.history /\ u.main = v.main
  BY <1>2, <1>4, <1>5 DEF Shell
<1> QED BY <1>1, <1>3, <1>6 DEF Slots

LEMMA SendRead ==
  ASSUME NEW v \in Shell, NEW slot \in Read
  PROVE  LET u == send(v, slot) IN
         /\ u \in Shell
         /\ u.charge = v.charge /\ u.nearby = v.nearby /\ u.history = v.history
         /\ u.main = v.main /\ u.api.up = v.api.up /\ u.api.user = v.api.user
         /\ u.api.ops = v.api.ops /\ Slots(u) = Slots(v) \cup {slot}
         /\ u.api.reads[slot] = Len(v.api.ops)
         /\ \A s \in Slots(v) \ {slot} : u.api.reads[s] = v.api.reads[s]
<1> DEFINE r == [s \in Slots(v) \cup {slot} |->
                   IF s = slot THEN Len(v.api.ops) ELSE v.api.reads[s]]
           a == [v.api EXCEPT !.reads = r, !.replayed = v.api.replayed \ {slot}]
           u == send(v, slot)
<1>0. Len(v.api.ops) \in Nat BY Parts DEF ApiState
<1>1. r \in [Slots(v) \cup {slot} -> Nat] BY <1>0, Parts DEF ApiState
<1>2. a \in ApiState(Slots(v) \cup {slot}) BY <1>1, Parts DEF ApiState
<1>3. a.reads = r /\ a.up = v.api.up /\ a.user = v.api.user /\ a.ops = v.api.ops
  BY Parts DEF ApiState
<1>4. u = [v EXCEPT !.api = a] BY Parts DEF send, ApiState, Slots
<1>5. Slots(v) \cup {slot} \in SUBSET Read BY Parts
<1>6. u \in Shell /\ u.api = a /\ u.charge = v.charge /\ u.nearby = v.nearby
      /\ u.history = v.history /\ u.main = v.main
  BY <1>2, <1>4, <1>5 DEF Shell
<1> QED BY <1>1, <1>3, <1>6 DEF Slots

-----------------------------------------------------------------------------
(* The list and the refresh of the page of stations are given up.          *)

LEMMA GiveUpList ==
  ASSUME NEW v \in Shell, Known(v), Told(v)
  PROVE  /\ Keeps(v, cancelPendingStationList(v)) /\ Moves(v, cancelPendingStationList(v))
         /\ cancelPendingStationList(v).charge = v.charge
         /\ cancelPendingStationList(v).main = v.main
         /\ Slots(cancelPendingStationList(v)) = Slots(v) \ {"list"}
         /\ Listed(cancelPendingStationList(v))
<1> DEFINE x == cancelSafeReads(v, {"list"})
           y == [x EXCEPT !.nearby.list = None]
           u == cancelPendingStationList(v)
<1>1. /\ x \in Shell /\ x.charge = v.charge /\ x.nearby = v.nearby /\ x.history = v.history
      /\ x.main = v.main /\ x.api.up = v.api.up /\ x.api.user = v.api.user
      /\ x.api.ops = v.api.ops /\ Slots(x) = Slots(v) \ {"list"}
      /\ \A s \in Slots(x) : x.api.reads[s] = v.api.reads[s]
  BY CancelReads
<1> HIDE DEF x
<1>2. /\ y \in Shell /\ y.charge = v.charge /\ y.history = v.history /\ y.main = v.main
      /\ y.api = x.api /\ y.nearby.list = None /\ y.nearby.detail = v.nearby.detail
  BY <1>1 DEF Shell, NearbyState, Maybe
<1> HIDE DEF y
<1>3. Slots(y) = Slots(v) \ {"list"} BY <1>1, <1>2 DEF Slots
<1>4. Known(y) /\ Told(y) BY <1>2, <1>3 DEF Known, Told
<1>5. Within(v, y) BY <1>1, <1>2, <1>3 DEF Within, Frame, Slots, Listed
<1>6. /\ Reported(y) = Reported(v) /\ Heard(y) = Heard(v)
      /\ Withdrawn(y) = Withdrawn(v) /\ Rendered(y) = Rendered(v)
  BY <1>1, <1>2 DEF Reported, Heard, Withdrawn, Rendered, Usable
<1>7. Keeps(v, y) /\ Moves(v, y) BY <1>2, <1>4, <1>5, <1>6 DEF Keeps, Moves
<1>8. CASE v.nearby.foreground
  <2>1. u = y BY <1>8 DEF cancelPendingStationList, x, y
  <2>2. Listed(y) BY <1>2, <1>3 DEF Listed
  <2> QED BY <2>1, <2>2, <1>2, <1>3, <1>7
<1>9. CASE ~v.nearby.foreground
  <2>1. u = setSearchPending(y, FALSE) BY <1>9 DEF cancelPendingStationList, x, y
  <2>2. Keeps(y, u) BY <1>2, <1>4, <2>1, SetSearchPending
  <2>3. u.charge = y.charge /\ u.main = y.main /\ u.api = y.api
    BY <1>2, <2>1 DEF setSearchPending, Shell
  <2>4. Withdrawn(y) => Withdrawn(u) BY <2>3 DEF Withdrawn
  <2>5. Moves(y, u) BY <2>2, <2>4 DEF Keeps, Moves
  <2>6. Listed(u) BY <1>2, <1>3, <2>2 DEF Listed, Keeps, Within
  <2> QED BY <1>2, <1>3, <1>7, <2>2, <2>3, <2>5, <2>6, KeepsTrans, MovesTrans DEF Slots
<1> QED BY <1>8, <1>9

LEMMA GiveUpRefresh ==
  ASSUME NEW v \in Shell, Known(v), Told(v)
  PROVE  /\ Keeps(v, cancelChargeRefresh(v)) /\ Moves(v, cancelChargeRefresh(v))
         /\ cancelChargeRefresh(v).charge = v.charge
         /\ cancelChargeRefresh(v).main = v.main
         /\ Slots(cancelChargeRefresh(v)) \subseteq Slots(v)
         /\ Slots(v) \subseteq Slots(cancelChargeRefresh(v)) \cup {"list"}
<1> DEFINE x == IF v.nearby.list # None /\ v.nearby.list.kind = "charge"
                THEN cancelPendingStationList(v) ELSE v
           u == cancelChargeRefresh(v)
<1>1. /\ Keeps(v, x) /\ Moves(v, x) /\ x.charge = v.charge /\ x.main = v.main
      /\ Slots(x) \subseteq Slots(v) /\ Slots(v) \subseteq Slots(x) \cup {"list"}
  BY GiveUpList, KeepsSelf
<1>2. u = resetChargeRefresh(x) BY DEF cancelChargeRefresh
<1> HIDE DEF x, u
<1>3. x \in Shell /\ Known(x) /\ Told(x) BY <1>1 DEF Moves
<1>4. Keeps(x, u) BY <1>2, <1>3, ResetRefresh
<1>5. u.charge = x.charge /\ u.main = x.main /\ u.api = x.api
  BY <1>2, <1>3 DEF resetChargeRefresh, Shell
<1>6. Moves(x, u) BY <1>4, <1>5 DEF Keeps, Moves, Withdrawn
<1> QED BY <1>1, <1>4, <1>5, <1>6, KeepsTrans, MovesTrans DEF u, Slots

LEMMA PagedSame ==
  ASSUME NEW c, NEW d, Paged(d), c.facts \in {None, d.facts}, c.read \in {None, d.read},
         c.active = d.active, c.order = d.order, c.selGen = d.selGen, c.exit => d.exit,
         c.exitFailed => d.exitFailed, c.attempt \in {0, d.attempt}
  PROVE  Paged(c)
BY DEF Paged

\* What is known when the table has already given up the reads of the page.
Apart(v) ==
  /\ v.history.pending # None <=> "history" \in Slots(v)
  /\ Paged(v.charge)

LEMMA GiveUpApart ==
  ASSUME NEW v \in Shell, Apart(v), Told(v)
  PROVE  LET u == cancelOwnedSafeReads(v) IN
         /\ Moves(v, u)
         /\ u.charge = [v.charge EXCEPT
                          !.read = None, !.facts = None, !.gate = FALSE,
                          !.attempt = IF v.charge.exit THEN 0 ELSE @, !.current = TRUE]
         /\ u.main = v.main
         /\ Slots(v) \ {"page", "facts", "list"} \subseteq Slots(u)
<1> DEFINE x == cancelSafeReads(v, {"page", "facts"})
           k == IF v.charge.exit THEN 0 ELSE v.charge.attempt
           c == [v.charge EXCEPT !.read = None, !.facts = None, !.gate = FALSE,
                                 !.attempt = k, !.current = TRUE]
           y == [x EXCEPT !.charge = c]
           u == cancelOwnedSafeReads(v)
<1>1. /\ x \in Shell /\ x.charge = v.charge /\ x.nearby = v.nearby /\ x.history = v.history
      /\ x.main = v.main /\ x.api.up = v.api.up /\ x.api.user = v.api.user
      /\ x.api.ops = v.api.ops /\ Slots(x) = Slots(v) \ {"page", "facts"}
      /\ \A s \in Slots(x) : x.api.reads[s] = v.api.reads[s]
  BY CancelReads
<1>2. /\ c \in ChargeState /\ c.read = None /\ c.facts = None
      /\ c.active = v.charge.active /\ c.order = v.charge.order /\ c.mutation = v.charge.mutation
      /\ c.selection = v.charge.selection /\ c.reported = v.charge.reported
  <2> HIDE DEF x, y, u
  <2>1. v.charge \in ChargeState BY Parts
  <2>2. k \in 0..3 BY <2>1 DEF ChargeState
  <2> HIDE DEF k
  <2>3. c \in ChargeState BY <2>1, <2>2 DEF ChargeState, Maybe
  <2> QED BY <2>3,  <2>1, <2>2 DEF ChargeState
<1>11. Paged(c)
  <2> HIDE DEF x, y, u
  <2>1. v.charge \in ChargeState BY Parts
  <2>2. /\ c.selGen = v.charge.selGen /\ c.exit = v.charge.exit
        /\ c.exitFailed = v.charge.exitFailed /\ c.attempt = k
    <3> HIDE DEF k
    <3> QED BY <2>1 DEF ChargeState
  <2>3. k \in {0, v.charge.attempt} OBVIOUS
  <2> HIDE DEF c, k
  <2> QED BY <1>2, <2>2, <2>3, PagedSame DEF Apart
<1>3. u = cancelChargeRefresh(y)
  <2> HIDE DEF x
  <2>1. y = [x EXCEPT !.charge.read = None, !.charge.facts = None, !.charge.gate = FALSE,
                      !.charge.attempt = IF v.charge.exit THEN 0 ELSE @, !.charge.current = TRUE]
    BY <1>1 DEF Shell
  <2> HIDE DEF y
  <2> QED BY <2>1 DEF cancelOwnedSafeReads, x
<1> HIDE DEF x, c
<1>4. /\ y \in Shell /\ y.charge = c /\ y.nearby = v.nearby /\ y.history = v.history
      /\ y.main = v.main /\ y.api = x.api
  BY <1>1, <1>2 DEF Shell
<1> HIDE DEF y
<1>5. Slots(y) = Slots(v) \ {"page", "facts"} BY <1>1, <1>4 DEF Slots
<1>6. Known(y) /\ Told(y) BY <1>2, <1>4, <1>5, <1>11 DEF Known, Told, Apart
<1>7. Within(v, y) BY <1>1, <1>2, <1>4, <1>5 DEF Within, Frame, Slots, Listed
<1>8. Withdrawn(y) = Withdrawn(v) BY <1>2, <1>4 DEF Withdrawn
<1>9. Moves(v, y) BY <1>4, <1>6, <1>7, <1>8 DEF Moves
<1>10. Moves(y, u) /\ u.charge = y.charge /\ u.main = y.main
       /\ Slots(y) \subseteq Slots(u) \cup {"list"}
  BY <1>3, <1>4, <1>6, GiveUpRefresh
<1> QED BY <1>4, <1>5, <1>9, <1>10, MovesTrans DEF c

LEMMA GiveUpOwned ==
  ASSUME NEW v \in Shell, Known(v), Told(v)
  PROVE  LET u == cancelOwnedSafeReads(v) IN
         /\ Moves(v, u)
         /\ u.charge = [v.charge EXCEPT
                          !.read = None, !.facts = None, !.gate = FALSE,
                          !.attempt = IF v.charge.exit THEN 0 ELSE @, !.current = TRUE]
         /\ u.main = v.main
         /\ Slots(v) \ {"page", "facts", "list"} \subseteq Slots(u)
<1>1. Apart(v) BY DEF Apart, Known
<1> QED BY <1>1, GiveUpApart

-----------------------------------------------------------------------------
(* The page of an order: what it shows and what it tells MainWindow.       *)

SameMain(m, n) ==
  /\ m.page = n.page /\ m.authority = n.authority /\ m.guard = n.guard
  /\ m.reconnect = n.reconnect /\ m.required = n.required /\ m.queued = n.queued
  /\ m.stamp = n.stamp /\ m.navShown = n.navShown
  /\ n.remembered = None => m.remembered = None

LEMMA NoneFits ==
  /\ None \in Maybe(Order) /\ None \in Maybe(Selection) /\ None \in Maybe(Associated)
  /\ None \in Maybe(PageRead) /\ None \in Maybe(PageMutation) /\ None \in Maybe(Facts)
  /\ None \in Maybe(StationList) /\ None \in Maybe(Refresh) /\ None \in Maybe(Detail)
  /\ None \in Maybe(Reconnect) /\ None \in Maybe(OrderPage) /\ None \in Maybe(0..LastPage)
BY DEF Maybe

LEMMA Small == 0 \in 0..1 /\ 1 \in 0..1 /\ 0 \in 0..3
OBVIOUS

LEMMA BlockedBoolean == ASSUME NEW c PROVE chargeFlowBlocked(c) \in BOOLEAN
BY DEF chargeFlowBlocked

\* A step that leaves the reads alone.
LEMMA ChargeStep ==
  ASSUME NEW v \in Shell, Known(v), NEW u \in Shell,
         u.api = v.api, u.history = v.history,
         u.nearby.list = None <=> v.nearby.list = None,
         u.charge.active = v.charge.active, u.charge.order = v.charge.order,
         u.charge.mutation = v.charge.mutation,
         u.charge.facts = None <=> v.charge.facts = None,
         u.charge.read = v.charge.read, Paged(u.charge),
         v.charge.selection = None => u.charge.selection = None,
         SameMain(u.main, v.main), u.main.blocked = u.charge.reported
  PROVE  Known(u) /\ Told(u) /\ Within(v, u)
<1>1. Known(u) /\ Told(u) BY DEF Known, Told, Slots
<1>2. Within(v, u) BY DEF Within, Frame, Slots, SameMain, Listed
<1> QED BY <1>1, <1>2

LEMMA ChargeAlone ==
  ASSUME NEW v \in Shell, Known(v), NEW c \in ChargeState, NEW m \in MainState,
         c.active = v.charge.active, c.order = v.charge.order, c.mutation = v.charge.mutation,
         c.facts = None <=> v.charge.facts = None, c.read = v.charge.read, Paged(c),
         v.charge.selection = None => c.selection = None,
         SameMain(m, v.main), m.blocked = c.reported,
         Withdrawn(v) => /\ c.selection # None /\ ~c.selection.valid => m.deferred
                         /\ m.remembered # None /\ ~m.remembered.valid => m.deferred
                         /\ m.deferred => m.blocked
  PROVE  Moves(v, [v EXCEPT !.charge = c, !.main = m])
<1> DEFINE u == [v EXCEPT !.charge = c, !.main = m]
<1>1. /\ u \in Shell /\ u.charge = c /\ u.main = m /\ u.api = v.api /\ u.nearby = v.nearby
      /\ u.history = v.history
  BY DEF Shell
<1> HIDE DEF u
<1>3. Known(u) /\ Told(u) /\ Within(v, u) BY <1>1, ChargeStep
<1>2. Withdrawn(v) => Withdrawn(u) BY <1>1 DEF Withdrawn
<1> QED BY <1>1, <1>2, <1>3 DEF Moves, u

LEMMA Render ==
  ASSUME NEW v \in Shell
  PROVE  LET u == render(v) IN
         /\ u \in Shell /\ Rendered(u)
         /\ u.api = v.api /\ u.nearby = v.nearby /\ u.history = v.history /\ u.main = v.main
         /\ u.charge = [v.charge EXCEPT !.buttons = u.charge.buttons,
                                        !.polling = u.charge.polling]
<1> DEFINE u == render(v)
           b == u.charge.buttons
           p == u.charge.polling
           c == [v.charge EXCEPT !.buttons = b, !.polling = p]
<1>0. v.charge \in ChargeState BY Parts
<1>1. b \in SUBSET (Mutation \cup {"back", "retry"})
  BY DEF render, Shell, ChargeState, Offers, Mutation
<1>2. p \in BOOLEAN
  BY DEF render, Shell, ChargeState
<1>3. u = [v EXCEPT !.charge = c]
  BY DEF render, Shell, ChargeState
<1>4. b \ {"retry"} = Usable(v)
  BY DEF render, Shell, ChargeState, Offers, Usable
<1>5. c \in ChargeState
  <2> HIDE DEF b, p
  <2> QED BY <1>0, <1>1, <1>2 DEF ChargeState
<1>6. /\ u \in Shell /\ u.api = v.api /\ u.nearby = v.nearby /\ u.history = v.history
      /\ u.main = v.main /\ u.charge = c
  <2> HIDE DEF c, u
  <2> QED BY <1>3, <1>5 DEF Shell
<1>7. Usable(u) = Usable(v)
  <2>1. /\ c.active = v.charge.active /\ c.mutation = v.charge.mutation
        /\ c.reconcile = v.charge.reconcile /\ c.factsFailed = v.charge.factsFailed
        /\ c.facts = v.charge.facts /\ c.gate = v.charge.gate /\ c.order = v.charge.order
        /\ c.selection = v.charge.selection /\ c.associated = v.charge.associated
        /\ c.noOrder = v.charge.noOrder /\ c.exit = v.charge.exit
    BY <1>0 DEF ChargeState
  <2> HIDE DEF c, u, b, p
  <2>2. Offers(u.charge) = Offers(v.charge) BY <1>6, <2>1 DEF Offers
  <2>3. Leaves(u.charge) = Leaves(v.charge) BY <1>6, <2>1 DEF Leaves
  <2>4. chargeFlowBlocked(u.charge) = chargeFlowBlocked(v.charge)
    BY <1>6, <2>1 DEF chargeFlowBlocked
  <2> QED BY <1>6, <2>1, <2>2, <2>3, <2>4 DEF Usable
<1>8. Rendered(u) BY <1>4, <1>7 DEF Rendered
<1> QED BY <1>6, <1>8

\* Nothing but the buttons and the timer changes.
SameOrder(c, d) ==
  /\ c.active = d.active /\ c.order = d.order /\ c.selection = d.selection
  /\ c.associated = d.associated /\ c.read = d.read /\ c.mutation = d.mutation
  /\ c.facts = d.facts /\ c.selGen = d.selGen /\ c.reconcile = d.reconcile
  /\ c.factsFailed = d.factsFailed /\ c.gate = d.gate /\ c.noOrder = d.noOrder
  /\ c.exit = d.exit /\ c.exitFailed = d.exitFailed /\ c.attempt = d.attempt
  /\ c.reported = d.reported /\ c.current = d.current

LEMMA SameBlocked ==
  ASSUME NEW c, NEW d, SameOrder(c, d)
  PROVE  chargeFlowBlocked(c) = chargeFlowBlocked(d)
BY DEF SameOrder, chargeFlowBlocked

LEMMA RenderSame ==
  ASSUME NEW v \in Shell PROVE SameOrder(render(v).charge, v.charge)
<1> DEFINE u == render(v)
<1>0. v.charge \in ChargeState BY Parts
<1>1. u.charge = [v.charge EXCEPT !.buttons = u.charge.buttons, !.polling = u.charge.polling]
  BY Render
<1> HIDE DEF u
<1> QED BY <1>0, <1>1 DEF ChargeState, SameOrder, u

LEMMA RenderKeeps ==
  ASSUME NEW v \in Shell, Known(v), Told(v)
  PROVE  Keeps(v, render(v)) /\ Moves(v, render(v))
<1> DEFINE u == render(v)
<1>1. /\ u \in Shell /\ Rendered(u) /\ SameOrder(u.charge, v.charge)
      /\ u.api = v.api /\ u.nearby = v.nearby /\ u.history = v.history /\ u.main = v.main
      /\ chargeFlowBlocked(u.charge) = chargeFlowBlocked(v.charge)
  BY Render, RenderSame, SameBlocked
<1> HIDE DEF u
<1>2. Known(u) /\ Told(u) BY <1>1 DEF Known, Told, Slots, SameOrder, Paged
<1>3. Within(v, u) BY <1>1 DEF Within, Frame, Slots, SameOrder, Listed
<1>4. /\ Reported(v) => Reported(u)
      /\ Heard(v) => Heard(u)
      /\ Withdrawn(v) => Withdrawn(u)
  BY <1>1 DEF Reported, Heard, Withdrawn, SameOrder
<1> QED BY <1>1, <1>2, <1>3, <1>4 DEF Keeps, Moves, u

\* A selection is invalidated only while the flow is free, and then forgotten.
\* The page gives up what it awaits or keeps it, and fails no more than before.
Quiet(c, d) ==
  /\ d.facts \in {None, c.facts} /\ d.read \in {None, c.read}
  /\ d.exitFailed = c.exitFailed /\ (d.factsFailed => c.factsFailed)

LEMMA QuietTrans ==
  ASSUME NEW a, NEW b, NEW c, Quiet(a, b), Quiet(b, c) PROVE Quiet(a, c)
BY DEF Quiet

LEMMA Invalidate ==
  ASSUME NEW v \in Shell, Known(v), Told(v)
  PROVE  LET u == invalidateSelection(v) IN
         /\ Keeps(v, u) /\ Moves(v, u) /\ u.main = v.main
         /\ chargeFlowBlocked(v.charge) => u = v
         /\ ~chargeFlowBlocked(v.charge) => u.charge.selection = None
         /\ ~chargeFlowBlocked(v.charge) => ~chargeFlowBlocked(u.charge)
         /\ u.charge.reported = v.charge.reported
         /\ v.charge.order # None => u.api = v.api /\ u.nearby = v.nearby
         /\ Quiet(v.charge, u.charge)
<1> DEFINE u == invalidateSelection(v)
           x == [v EXCEPT !.charge.selection = None]
           y == [x EXCEPT !.charge.associated = None]
           z == cancelOwnedSafeReads(y)
           r == [z EXCEPT !.charge.selGen = 1, !.charge.noOrder = TRUE,
                          !.charge.reconcile = FALSE, !.charge.factsFailed = FALSE]
           q == [x EXCEPT !.charge.selGen = 0]
<1>a. /\ v.charge \in ChargeState /\ v.main \in MainState
      /\ v.main.blocked = v.charge.reported /\ Paged(v.charge)
  BY Parts DEF Told, Known
<1>1. CASE chargeFlowBlocked(v.charge) \/ v.charge.selection = None
  <2>1. u = v BY <1>1 DEF invalidateSelection
  <2> QED BY <2>1, <1>1, KeepsSelf DEF Quiet
<1>2. CASE ~chargeFlowBlocked(v.charge) /\ v.charge.selection # None /\ v.charge.order # None
  <2>1. u = render(q) BY <1>2 DEF invalidateSelection
  <2> DEFINE c == [v.charge EXCEPT !.selection = None, !.selGen = 0]
  <2>2. c \in ChargeState BY <1>a, NoneFits, Small DEF ChargeState
  <2>3. q = [v EXCEPT !.charge = c, !.main = v.main] BY DEF Shell
  <2>4. /\ c.active = v.charge.active /\ c.order = v.charge.order /\ c.selection = None
        /\ c.associated = v.charge.associated /\ c.read = v.charge.read
        /\ c.mutation = v.charge.mutation /\ c.facts = v.charge.facts
        /\ c.reconcile = v.charge.reconcile /\ c.factsFailed = v.charge.factsFailed
        /\ c.gate = v.charge.gate /\ c.exit = v.charge.exit /\ c.reported = v.charge.reported
        /\ c.selGen = 0 /\ c.exitFailed = v.charge.exitFailed /\ c.attempt = v.charge.attempt
    BY <1>a DEF ChargeState
  <2> HIDE DEF c
  <2>13. Paged(c) BY <1>2, <1>a, <2>4 DEF Paged
  <2>5. q \in Shell /\ q.charge = c /\ q.main = v.main /\ q.api = v.api /\ q.nearby = v.nearby
    BY <1>a, <2>2, <2>3 DEF Shell
  <2> HIDE DEF q, x
  <2>6. Moves(v, q)
    <3>1. SameMain(v.main, v.main) BY DEF SameMain
    <3>2. Withdrawn(v) =>
            /\ v.main.remembered # None /\ ~v.main.remembered.valid => v.main.deferred
            /\ v.main.deferred => v.main.blocked
      BY DEF Withdrawn
    <3> QED BY <1>a, <2>2, <2>3, <2>4, <2>13, <3>1, <3>2, ChargeAlone
  <2>7. Known(q) /\ Told(q) BY <2>6 DEF Moves
  <2>8. /\ Moves(q, u) /\ Keeps(q, u) /\ Rendered(u) /\ SameOrder(u.charge, c)
        /\ u.main = v.main /\ u.api = v.api /\ u.nearby = v.nearby
    BY <2>1, <2>5, <2>7, Render, RenderSame, RenderKeeps
  <2>9. ~chargeFlowBlocked(u.charge)
    BY <1>2, <2>4, <2>8 DEF SameOrder, chargeFlowBlocked
  <2>10. Moves(v, u) BY <2>6, <2>8, MovesTrans
  <2>11. u.charge.selection = None /\ u.charge.reported = v.charge.reported
    BY <2>4, <2>8 DEF SameOrder
  <2>12. Keeps(v, u)
    BY <1>2, <2>8, <2>9, <2>10, <2>11, BlockedBoolean DEF Keeps, Moves, Reported, Heard
  <2>14. Quiet(v.charge, u.charge) BY <2>4, <2>8 DEF SameOrder, Quiet
  <2> HIDE DEF u
  <2> QED BY <1>2, <2>8, <2>9, <2>10, <2>11, <2>12, <2>14 DEF u
<1>3. CASE ~chargeFlowBlocked(v.charge) /\ v.charge.selection # None /\ v.charge.order = None
  <2>1. u = render(r) BY <1>3 DEF invalidateSelection
  <2> DEFINE c == [v.charge EXCEPT !.selection = None, !.associated = None]
  <2>2. c \in ChargeState BY <1>a, NoneFits, Small DEF ChargeState
  <2>3. y = [v EXCEPT !.charge = c, !.main = v.main] BY DEF Shell
  <2>4. /\ c.active = v.charge.active /\ c.order = v.charge.order /\ c.selection = None
        /\ c.read = v.charge.read
        /\ c.mutation = v.charge.mutation /\ c.facts = v.charge.facts
        /\ c.exit = v.charge.exit /\ c.reported = v.charge.reported
        /\ c.selGen = v.charge.selGen /\ c.exitFailed = v.charge.exitFailed
        /\ c.attempt = v.charge.attempt
    BY <1>a DEF ChargeState
  <2> HIDE DEF c
  <2>22. Paged(c) BY <1>a, <2>4, PagedSame
  <2>5. y \in Shell /\ y.charge = c /\ y.main = v.main
    BY <1>a, <2>2, <2>3 DEF Shell
  <2> HIDE DEF y, x
  <2>6. Moves(v, y)
    <3>1. SameMain(v.main, v.main) BY DEF SameMain
    <3>2. Withdrawn(v) =>
            /\ v.main.remembered # None /\ ~v.main.remembered.valid => v.main.deferred
            /\ v.main.deferred => v.main.blocked
      BY DEF Withdrawn
    <3> QED BY <1>a, <2>2, <2>3, <2>4, <2>22, <3>1, <3>2, ChargeAlone
  <2>7. Known(y) /\ Told(y) BY <2>6 DEF Moves
  <2> DEFINE k == IF c.exit THEN 0 ELSE c.attempt
             d == [c EXCEPT !.read = None, !.facts = None, !.gate = FALSE,
                            !.attempt = IF c.exit THEN 0 ELSE @, !.current = TRUE]
  <2>8. Moves(y, z) /\ z.charge = d /\ z.main = v.main
    BY <2>5, <2>7, GiveUpOwned
  <2>9. /\ d.active = c.active /\ d.order = c.order /\ d.selection = c.selection
        /\ d.read = None /\ d.facts = None /\ d.mutation = c.mutation
        /\ d.exit = c.exit /\ d.reported = c.reported /\ d.exitFailed = c.exitFailed
    BY <2>2 DEF ChargeState
  <2> HIDE DEF d, z
  <2>10. z \in Shell /\ Known(z) /\ Told(z) BY <2>8 DEF Moves
  <2>11. d \in ChargeState BY <2>8, <2>10, Parts
  <2> DEFINE e == [d EXCEPT !.selGen = 1, !.noOrder = TRUE, !.reconcile = FALSE,
                            !.factsFailed = FALSE]
  <2>12. /\ e \in ChargeState
         /\ e.active = d.active /\ e.order = d.order /\ e.selection = d.selection
         /\ e.read = None /\ e.facts = None /\ e.mutation = d.mutation
         /\ e.exit = d.exit /\ e.reported = d.reported /\ e.reconcile = FALSE
         /\ e.factsFailed = FALSE /\ e.exitFailed = d.exitFailed
    <3>1. e \in ChargeState BY <2>11, Small DEF ChargeState
    <3> QED BY <2>9, <2>11, <3>1 DEF ChargeState
  <2>13. r = [z EXCEPT !.charge = e, !.main = v.main] BY <2>8, <2>10 DEF Shell
  <2> HIDE DEF e
  <2>24. ~e.exit BY <1>3, <2>4, <2>9, <2>12 DEF chargeFlowBlocked
  <2>23. Paged(e) BY <1>3, <1>a, <2>4, <2>9, <2>12, <2>24 DEF Paged
  <2>14. r \in Shell /\ r.charge = e /\ r.main = v.main
    BY <1>a, <2>10, <2>12, <2>13 DEF Shell
  <2> HIDE DEF r
  <2>15. Moves(z, r)
    <3>1. SameMain(v.main, z.main) BY <2>8 DEF SameMain
    <3>2. Withdrawn(z) =>
            /\ v.main.remembered # None /\ ~v.main.remembered.valid => v.main.deferred
            /\ v.main.deferred => v.main.blocked
      BY <2>8 DEF Withdrawn
    <3>3. /\ e.active = z.charge.active /\ e.order = z.charge.order
          /\ e.mutation = z.charge.mutation /\ z.charge.facts = None /\ z.charge.read = None
          /\ e.selection = None /\ v.main.blocked = e.reported
      BY <1>a, <2>4, <2>8, <2>9, <2>12
    <3> QED BY <1>a, <2>10, <2>12, <2>13, <2>23, <3>1, <3>2, <3>3, ChargeAlone
  <2>16. Known(r) /\ Told(r) BY <2>15 DEF Moves
  <2>17. /\ Moves(r, u) /\ Rendered(u) /\ SameOrder(u.charge, e) /\ u.main = v.main
    BY <2>1, <2>14, <2>16, Render, RenderSame, RenderKeeps
  <2>18. Moves(v, u) BY <2>6, <2>8, <2>15, <2>17, MovesTrans
  <2>19. ~chargeFlowBlocked(u.charge)
    BY <1>3, <2>4, <2>9, <2>12, <2>17 DEF SameOrder, chargeFlowBlocked
  <2>20. u.charge.selection = None /\ u.charge.reported = v.charge.reported
    BY <2>4, <2>9, <2>12, <2>17 DEF SameOrder
  <2>21. Keeps(v, u)
    BY <1>3, <2>17, <2>18, <2>19, <2>20, BlockedBoolean DEF Keeps, Moves, Reported, Heard
  <2>25. Quiet(v.charge, u.charge) BY <2>4, <2>9, <2>12, <2>17 DEF SameOrder, Quiet
  <2> HIDE DEF u
  <2> QED BY <1>3, <2>25, <2>17, <2>18, <2>19, <2>20, <2>21 DEF u
<1> QED BY <1>1, <1>2, <1>3

LEMMA ApplyInvalidation ==
  ASSUME NEW v \in Shell, Known(v), Told(v)
  PROVE  LET u == applySelectionInvalidation(v) IN
         /\ Keeps(v, u) /\ Moves(v, u)
         /\ u.main = [v.main EXCEPT !.remembered = None]
         /\ chargeFlowBlocked(v.charge) => u.charge = v.charge
         /\ ~chargeFlowBlocked(v.charge) => u.charge.selection = None
         /\ ~chargeFlowBlocked(v.charge) => ~chargeFlowBlocked(u.charge)
         /\ u.charge.reported = v.charge.reported
         /\ v.charge.order # None \/ chargeFlowBlocked(v.charge) =>
              u.api = v.api /\ u.nearby = v.nearby
         /\ Quiet(v.charge, u.charge)
<1> DEFINE m == [v.main EXCEPT !.remembered = None]
           x == [v EXCEPT !.charge = v.charge, !.main = m]
           u == applySelectionInvalidation(v)
<1>a. /\ v.charge \in ChargeState /\ v.main \in MainState /\ v.main.blocked = v.charge.reported
      /\ Paged(v.charge)
  BY Parts DEF Told, Known
<1>1. /\ m \in MainState /\ SameMain(m, v.main) /\ m.blocked = v.main.blocked
      /\ m.deferred = v.main.deferred /\ m.remembered = None
  BY <1>a, NoneFits DEF MainState, SameMain
<1>2. u = invalidateSelection(x) BY DEF applySelectionInvalidation, Shell
<1> HIDE DEF m
<1>3. x \in Shell /\ x.charge = v.charge /\ x.main = m /\ x.api = v.api /\ x.nearby = v.nearby
  BY <1>a, <1>1 DEF Shell
<1>4. Moves(v, x) BY <1>a, <1>1, ChargeAlone DEF Withdrawn
<1> HIDE DEF x
<1>5. Keeps(v, x)
  BY <1>3, <1>4 DEF Keeps, Moves, Reported, Heard, Rendered, Usable
<1>6. Known(x) /\ Told(x) BY <1>4 DEF Moves
<1>7. /\ Keeps(x, u) /\ Moves(x, u) /\ u.main = x.main
      /\ chargeFlowBlocked(x.charge) => u = x
      /\ ~chargeFlowBlocked(x.charge) => u.charge.selection = None
      /\ ~chargeFlowBlocked(x.charge) => ~chargeFlowBlocked(u.charge)
      /\ u.charge.reported = x.charge.reported
      /\ x.charge.order # None => u.api = x.api /\ u.nearby = x.nearby
      /\ Quiet(x.charge, u.charge)
  BY <1>2, <1>3, <1>6, Invalidate
<1> HIDE DEF u
<1>8. Keeps(v, u) /\ Moves(v, u) BY <1>4, <1>5, <1>7, KeepsTrans, MovesTrans
<1> QED BY <1>3, <1>7, <1>8 DEF u, m

LEMMA UpdateBlock ==
  ASSUME NEW v \in Shell, Known(v), Told(v)
  PROVE  LET u == updateChargeFlowBlock(v) IN
         /\ Moves(v, u) /\ Reported(u)
         /\ Rendered(v) => Rendered(u)
         /\ Quiet(v.charge, u.charge)
         /\ chargeFlowBlocked(v.charge) =>
              u.charge.reconcile = v.charge.reconcile /\ u.api = v.api
<1> DEFINE b == chargeFlowBlocked(v.charge)
           u == updateChargeFlowBlock(v)
           c == [v.charge EXCEPT !.reported = b]
           m == [v.main EXCEPT !.blocked = b]
           n == [v.main EXCEPT !.blocked = b, !.deferred = FALSE]
           x == [v EXCEPT !.charge = c, !.main = m]
           y == [v EXCEPT !.charge = c, !.main = n]
<1>a. v.charge \in ChargeState /\ v.main \in MainState /\ v.main.blocked = v.charge.reported
      /\ b \in BOOLEAN /\ v.charge.reported \in BOOLEAN /\ Paged(v.charge)
  BY Parts, BlockedBoolean DEF Told, ChargeState, Known
<1>1. CASE b = v.charge.reported
  <2>1. u = v BY <1>1 DEF updateChargeFlowBlock
  <2>2. Reported(v) BY <1>1 DEF Reported
  <2> QED BY <2>1, <2>2, KeepsSelf DEF Quiet
<1>2. CASE b # v.charge.reported
  <2>1. u = IF ~b /\ v.main.deferred THEN applySelectionInvalidation(y) ELSE x
    BY <1>2 DEF updateChargeFlowBlock, Shell
  <2> HIDE DEF b
  <2>2. /\ c \in ChargeState
        /\ c.active = v.charge.active /\ c.order = v.charge.order /\ c.facts = v.charge.facts
        /\ c.read = v.charge.read /\ c.mutation = v.charge.mutation
        /\ c.selection = v.charge.selection /\ c.reported = b /\ c.buttons = v.charge.buttons
        /\ c.selGen = v.charge.selGen /\ c.exit = v.charge.exit
        /\ c.exitFailed = v.charge.exitFailed /\ c.attempt = v.charge.attempt
        /\ c.factsFailed = v.charge.factsFailed /\ c.reconcile = v.charge.reconcile
    BY <1>a DEF ChargeState
  <2>3. /\ m \in MainState /\ SameMain(m, v.main) /\ m.blocked = b
        /\ m.deferred = v.main.deferred /\ m.remembered = v.main.remembered
        /\ n \in MainState /\ SameMain(n, v.main) /\ n.blocked = b /\ n.deferred = FALSE
    BY <1>a DEF MainState, SameMain
  <2>4. chargeFlowBlocked(c) = b
    BY <1>a DEF ChargeState, chargeFlowBlocked, b
  <2>5. ASSUME NEW z \in Shell, z.charge = c, z.api = v.api
        PROVE  Rendered(v) => Rendered(z)
    BY <1>a, <2>5 DEF ChargeState, Rendered, Usable, Offers, Leaves, chargeFlowBlocked
  <2> HIDE DEF c, m, n
  <2>8. Paged(c) BY <1>a, <2>2, PagedSame
  <2>6. CASE ~b /\ v.main.deferred
    <3>1. /\ y \in Shell /\ y.charge = c /\ y.main = n /\ y.api = v.api /\ Known(y) /\ Told(y)
          /\ Within(v, y)
      <4>1. /\ y \in Shell /\ y.charge = c /\ y.main = n /\ y.api = v.api
            /\ y.nearby = v.nearby /\ y.history = v.history
        BY <2>2, <2>3 DEF Shell
      <4> HIDE DEF y
      <4> QED BY <2>2, <2>3, <2>8, <4>1, ChargeStep
    <3> HIDE DEF y
    <3>3. u = applySelectionInvalidation(y) BY <2>1, <2>6
    <3> HIDE DEF u
    <3>7. /\ Keeps(y, u) /\ Moves(y, u)
          /\ u.main = [y.main EXCEPT !.remembered = None]
          /\ ~chargeFlowBlocked(y.charge) => u.charge.selection = None
          /\ ~chargeFlowBlocked(y.charge) => ~chargeFlowBlocked(u.charge)
          /\ u.charge.reported = y.charge.reported /\ Quiet(y.charge, u.charge)
      BY <3>1, <3>3, ApplyInvalidation
    <3>2. /\ Keeps(y, u) /\ Moves(y, u) /\ u.main.deferred = FALSE /\ u.main.remembered = None
          /\ u.charge.selection = None /\ ~chargeFlowBlocked(u.charge)
          /\ u.charge.reported = b
      BY <2>2, <2>3, <2>4, <2>6, <3>1, <3>7 DEF MainState
    <3>4. Within(v, u) /\ Withdrawn(u) BY <3>1, <3>2, WithinTrans DEF Keeps, Withdrawn
    <3>5. Rendered(v) => Rendered(u) BY <2>5, <3>1, <3>2 DEF Keeps
    <3>6. Reported(u) BY <2>6, <3>2, <1>a, BlockedBoolean DEF Reported
    <3>8. Quiet(v.charge, u.charge) BY <2>2, <3>1, <3>7 DEF Quiet
    <3>9. ~chargeFlowBlocked(v.charge) BY <2>6 DEF b
    <3> QED BY <3>2, <3>4, <3>5, <3>6, <3>8, <3>9 DEF Moves, u
  <2>7. CASE b \/ ~v.main.deferred
    <3>1. /\ x \in Shell /\ x.charge = c /\ x.api = v.api
      <4>1. /\ x \in Shell /\ x.charge = c /\ x.main = m /\ x.api = v.api
            /\ x.nearby = v.nearby /\ x.history = v.history
        BY <2>2, <2>3 DEF Shell
      <4> HIDE DEF x
      <4> QED BY <2>2, <2>3, <2>8, <4>1, ChargeStep
    <3>2. Moves(v, x) BY <2>2, <2>3, <2>7, <2>8, ChargeAlone DEF Withdrawn
    <3>3. Reported(x) BY <2>2, <2>4, <3>1 DEF Reported
    <3>4. Rendered(v) => Rendered(x) BY <2>5, <3>1
    <3>5. u = x BY <2>1, <2>7
    <3>6. Quiet(v.charge, x.charge) /\ x.charge.reconcile = v.charge.reconcile
      BY <2>2, <3>1 DEF Quiet
    <3> QED BY <3>1, <3>2, <3>3, <3>4, <3>5, <3>6
  <2> QED BY <1>a, <2>6, <2>7
<1> QED BY <1>1, <1>2

LEMMA ShownSettles ==
  ASSUME NEW v \in Shell, Known(v), Told(v)
  PROVE  Settles(v, Shown(v))
<1> DEFINE x == updateChargeFlowBlock(v)
<1>1. Moves(v, x) /\ Reported(x) BY UpdateBlock
<1> HIDE DEF x
<1>2. x \in Shell /\ Known(x) /\ Told(x) BY <1>1 DEF Moves
<1>3. Moves(x, render(x)) /\ Keeps(x, render(x)) /\ Rendered(render(x))
  BY <1>2, RenderKeeps, Render
<1>4. Settles(v, render(x)) BY <1>1, <1>3, MovesTrans DEF Settles, Keeps
<1> QED BY <1>4 DEF Shown, x

LEMMA ShownQuiet ==
  ASSUME NEW v \in Shell, Known(v), Told(v)
  PROVE  LET u == Shown(v) IN
         /\ Quiet(v.charge, u.charge)
         /\ chargeFlowBlocked(v.charge) =>
              u.charge.reconcile = v.charge.reconcile /\ u.api = v.api
<1> DEFINE x == updateChargeFlowBlock(v)
           u == Shown(v)
<1>1. /\ x \in Shell /\ Quiet(v.charge, x.charge)
      /\ chargeFlowBlocked(v.charge) =>
           x.charge.reconcile = v.charge.reconcile /\ x.api = v.api
  BY UpdateBlock DEF Moves
<1>2. u = render(x) BY DEF Shown
<1> HIDE DEF x, u
<1>3. SameOrder(u.charge, x.charge) /\ u.api = x.api BY <1>1, <1>2, RenderSame, Render
<1>4. Quiet(x.charge, u.charge) /\ u.charge.reconcile = x.charge.reconcile
  BY <1>3 DEF Quiet, SameOrder
<1> QED BY <1>1, <1>3, <1>4, QuietTrans DEF u

-----------------------------------------------------------------------------
(* What the refresh of the page of stations came to.                       *)

LEMMA EndRefresh ==
  ASSUME NEW v \in Shell, Known(v), Told(v)
  PROVE  LET u == endExitRefresh(v) IN
         /\ Moves(v, u) /\ u.api = v.api /\ u.nearby = v.nearby /\ u.main = v.main
         /\ u.charge = [v.charge EXCEPT !.exit = FALSE, !.exitFailed = FALSE, !.attempt = 0]
<1> DEFINE c == [v.charge EXCEPT !.exit = FALSE, !.exitFailed = FALSE, !.attempt = 0]
           u == [v EXCEPT !.charge = c, !.main = v.main]
<1>a. /\ v.charge \in ChargeState /\ v.main \in MainState /\ v.main.blocked = v.charge.reported
      /\ Paged(v.charge)
  BY Parts DEF Told, Known
<1>0. c \in ChargeState BY <1>a, Small DEF ChargeState
<1>1. /\ c.active = v.charge.active /\ c.order = v.charge.order
      /\ c.mutation = v.charge.mutation /\ c.facts = v.charge.facts /\ c.read = v.charge.read
      /\ c.selection = v.charge.selection /\ c.reported = v.charge.reported
      /\ c.selGen = v.charge.selGen /\ c.exit = FALSE /\ c.exitFailed = FALSE
      /\ c.attempt = 0
  BY <1>a DEF ChargeState
<1>2. endExitRefresh(v) = u BY DEF endExitRefresh, Shell
<1> HIDE DEF c
<1>3. u.api = v.api /\ u.nearby = v.nearby /\ u.main = v.main /\ u.charge = c
  BY DEF Shell
<1>4. Moves(v, u)
  <2>1. SameMain(v.main, v.main) BY DEF SameMain
  <2>2. Paged(c) BY <1>a, <1>1, PagedSame
  <2> QED BY <1>a, <1>0, <1>1, <2>1, <2>2, ChargeAlone DEF Withdrawn
<1> HIDE DEF u
<1> QED BY <1>2, <1>3, <1>4 DEF c

LEMMA RefreshCommitted ==
  ASSUME NEW v \in Shell, Known(v), Told(v), NEW attempt
  PROVE  LET u == nearbyRefreshCommitted(v, attempt) IN
         Keeps(v, u) /\ Moves(v, u) /\ (u = v \/ Settles(v, u))
<1>1. CASE Awaits(v, attempt)
  <2> DEFINE x == endExitRefresh(v)
  <2>1. Moves(v, x) BY EndRefresh
  <2> HIDE DEF x
  <2>2. Settles(x, Shown(x)) BY <2>1, ShownSettles DEF Moves
  <2>3. Settles(v, Shown(x)) BY <2>1, <2>2, SettlesAfter
  <2>4. nearbyRefreshCommitted(v, attempt) = Shown(x) BY <1>1 DEF nearbyRefreshCommitted, x
  <2> QED BY <2>3, <2>4, SettlesKeeps DEF Settles
<1>2. CASE ~Awaits(v, attempt)
  BY <1>2, KeepsSelf DEF nearbyRefreshCommitted
<1> QED BY <1>1, <1>2

\* The facts are given up.
LEMMA FactsGone ==
  ASSUME NEW v \in Shell, Known(v), NEW c \in ChargeState, NEW m \in MainState,
         c.active = v.charge.active, c.order = v.charge.order, c.mutation = v.charge.mutation,
         c.facts = None, c.read = v.charge.read, Paged(c),
         v.charge.selection = None => c.selection = None,
         SameMain(m, v.main), m.blocked = c.reported,
         Withdrawn(v) => /\ c.selection # None /\ ~c.selection.valid => m.deferred
                         /\ m.remembered # None /\ ~m.remembered.valid => m.deferred
                         /\ m.deferred => m.blocked
  PROVE  Moves(v, [cancelSafeReads(v, {"facts"}) EXCEPT !.charge = c, !.main = m])
<1> DEFINE x == cancelSafeReads(v, {"facts"})
           u == [x EXCEPT !.charge = c, !.main = m]
<1>1. /\ x \in Shell /\ x.charge = v.charge /\ x.nearby = v.nearby /\ x.history = v.history
      /\ x.main = v.main /\ x.api.up = v.api.up /\ x.api.user = v.api.user
      /\ x.api.ops = v.api.ops /\ Slots(x) = Slots(v) \ {"facts"}
      /\ \A s \in Slots(x) : x.api.reads[s] = v.api.reads[s]
  BY CancelReads
<1> HIDE DEF x
<1>2. /\ u \in Shell /\ u.charge = c /\ u.main = m /\ u.api = x.api /\ u.nearby = v.nearby
      /\ u.history = v.history
  BY <1>1 DEF Shell
<1> HIDE DEF u
<1>3. Slots(u) = Slots(v) \ {"facts"} BY <1>1, <1>2 DEF Slots
<1>4. Known(u) /\ Told(u) BY <1>2, <1>3 DEF Known, Told
<1>5. Within(v, u) BY <1>1, <1>2, <1>3 DEF Within, Frame, Slots, SameMain, Listed
<1>6. Withdrawn(v) => Withdrawn(u) BY <1>2 DEF Withdrawn
<1> QED BY <1>2, <1>4, <1>5, <1>6 DEF Moves, u, x

LEMMA RefreshFailed ==
  ASSUME NEW v \in Shell, Known(v), Told(v), NEW attempt
  PROVE  LET u == nearbyRefreshFailed(v, attempt) IN
         Keeps(v, u) /\ Moves(v, u) /\ (u = v \/ Settles(v, u))
<1> DEFINE x == cancelSafeReads(v, {"facts"})
           c == [v.charge EXCEPT !.facts = None, !.gate = TRUE, !.factsFailed = TRUE,
                                 !.exitFailed = TRUE, !.reconcile = TRUE]
           y == [x EXCEPT !.charge = c, !.main = v.main]
<1>a. /\ v.charge \in ChargeState /\ v.main \in MainState /\ v.main.blocked = v.charge.reported
      /\ Paged(v.charge)
  BY Parts DEF Told, Known
<1>1. CASE Awaits(v, attempt)
  <2>0. c \in ChargeState BY <1>a, NoneFits DEF ChargeState
  <2>1. /\ c.active = v.charge.active /\ c.order = v.charge.order
        /\ c.mutation = v.charge.mutation /\ c.facts = None /\ c.read = v.charge.read
        /\ c.selection = v.charge.selection /\ c.reported = v.charge.reported
        /\ c.selGen = v.charge.selGen /\ c.exit = v.charge.exit
        /\ c.attempt = v.charge.attempt
    BY <1>a DEF ChargeState
  <2>2. x \in Shell /\ x.charge = v.charge /\ x.main = v.main BY CancelReads
  <2>3. y = [x EXCEPT !.charge.facts = None, !.charge.gate = TRUE, !.charge.factsFailed = TRUE,
                      !.charge.exitFailed = TRUE, !.charge.reconcile = TRUE]
    <3> HIDE DEF x
    <3> QED BY <2>2 DEF Shell
  <2> HIDE DEF c
  <2>4. Moves(v, y)
    <3>1. SameMain(v.main, v.main) BY DEF SameMain
    <3>2. Paged(c) BY <1>1, <1>a, <2>1 DEF Paged, Awaits
    <3> QED BY <1>a, <2>0, <2>1, <3>1, <3>2, FactsGone DEF Withdrawn
  <2>5. nearbyRefreshFailed(v, attempt) = Shown(y)
    <3> HIDE DEF y
    <3> QED BY <1>1, <2>3 DEF nearbyRefreshFailed, x
  <2> HIDE DEF y
  <2>6. Settles(v, Shown(y)) BY <2>4, ShownSettles, SettlesAfter DEF Moves
  <2> QED BY <2>5, <2>6, SettlesKeeps DEF Settles
<1>2. CASE ~Awaits(v, attempt)
  BY <1>2, KeepsSelf DEF nearbyRefreshFailed
<1> QED BY <1>1, <1>2

LEMMA RefreshUnavailable ==
  ASSUME NEW v \in Shell, Known(v), Told(v), NEW attempt
  PROVE  LET u == nearbyRefreshUnavailable(v, attempt) IN
         Keeps(v, u) /\ Moves(v, u) /\ (u = v \/ Settles(v, u))
<1> DEFINE x == cancelSafeReads(v, {"facts"})
           e == endExitRefresh(x)
           r == ~v.api.up
           c == [v.charge EXCEPT !.exit = FALSE, !.exitFailed = FALSE, !.attempt = 0,
                                 !.facts = None, !.gate = FALSE, !.factsFailed = FALSE,
                                 !.reconcile = r, !.selection = None, !.selGen = 0]
           m == [v.main EXCEPT !.remembered = None]
           y == [x EXCEPT !.charge = c, !.main = m]
<1>a. /\ v.charge \in ChargeState /\ v.main \in MainState /\ v.main.blocked = v.charge.reported
      /\ r \in BOOLEAN /\ Paged(v.charge)
  BY Parts DEF Told, Known
<1>1. CASE Awaits(v, attempt)
  <2>2. x \in Shell /\ x.charge = v.charge /\ x.main = v.main BY CancelReads
  <2>3. y = [e EXCEPT !.charge.facts = None, !.charge.gate = FALSE, !.charge.factsFailed = FALSE,
                      !.charge.reconcile = r, !.charge.selection = None, !.charge.selGen = 0,
                      !.main.remembered = None]
    <3> HIDE DEF x, r
    <3> QED BY <2>2 DEF Shell, endExitRefresh
  <2>5. nearbyRefreshUnavailable(v, attempt) = Shown(y)
    <3> HIDE DEF y, e
    <3> QED BY <1>1, <2>3 DEF nearbyRefreshUnavailable, e, x
  <2> HIDE DEF r
  <2>0. c \in ChargeState BY <1>a, NoneFits, Small DEF ChargeState
  <2>1. /\ c.active = v.charge.active /\ c.order = v.charge.order
        /\ c.mutation = v.charge.mutation /\ c.facts = None /\ c.read = v.charge.read
        /\ c.selection = None /\ c.reported = v.charge.reported
        /\ c.selGen = 0 /\ c.exit = FALSE /\ c.exitFailed = FALSE /\ c.attempt = 0
    BY <1>a DEF ChargeState
  <2>6. /\ m \in MainState /\ SameMain(m, v.main) /\ m.blocked = v.main.blocked
        /\ m.deferred = v.main.deferred /\ m.remembered = None
    BY <1>a, NoneFits DEF MainState, SameMain
  <2> HIDE DEF c, m
  <2>8. Paged(c) BY <1>1, <1>a, <2>1 DEF Paged, Awaits
  <2>4. Moves(v, y) BY <1>a, <2>0, <2>1, <2>6, <2>8, FactsGone DEF Withdrawn
  <2> HIDE DEF y
  <2>7. Settles(v, Shown(y)) BY <2>4, ShownSettles, SettlesAfter DEF Moves
  <2> QED BY <2>5, <2>7, SettlesKeeps DEF Settles
<1>2. CASE ~Awaits(v, attempt)
  BY <1>2, KeepsSelf DEF nearbyRefreshUnavailable
<1> QED BY <1>1, <1>2

-----------------------------------------------------------------------------
(* Generations of the page of stations.                                    *)

LEMMA AgedTypes ==
  /\ aged(None) = None /\ unfit(None) = None
  /\ \A x \in Selection :
       /\ aged(x) \in Selection /\ aged(x) # None /\ aged(x).valid = x.valid
       /\ aged(x).status = x.status /\ aged(x).charger = x.charger
  /\ \A x \in StationList :
       /\ aged(x) \in StationList /\ aged(x) # None /\ aged(x).kind = x.kind
       /\ unfit(x) \in StationList /\ unfit(x) # None /\ unfit(x).kind = x.kind
  /\ \A x \in Refresh :
       /\ aged(x) \in Refresh /\ aged(x) # None /\ aged(x).attempt = x.attempt
       /\ unfit(x) \in Refresh /\ unfit(x) # None /\ unfit(x).attempt = x.attempt
  /\ \A x \in Detail : unfit(x) \in Detail /\ unfit(x) # None
<1>1. /\ None \notin Selection /\ None \notin StationList /\ None \notin Refresh
      /\ None \notin Detail
  BY NoneAssumption DEF NoneAssumption
<1>2. aged(None) = None /\ unfit(None) = None BY DEF aged, unfit
<1>3. ASSUME NEW x \in Selection
      PROVE  /\ aged(x) \in Selection /\ aged(x) # None /\ aged(x).valid = x.valid
             /\ aged(x).status = x.status /\ aged(x).charger = x.charger
  <2>1. aged(x) = [x EXCEPT !.fresh = FALSE] BY <1>1 DEF aged
  <2>2. [x EXCEPT !.fresh = FALSE] \in Selection BY DEF Selection
  <2> QED BY <1>1, <2>1, <2>2 DEF Selection
<1>4. ASSUME NEW x \in StationList
      PROVE  /\ aged(x) \in StationList /\ aged(x) # None /\ aged(x).kind = x.kind
             /\ unfit(x) \in StationList /\ unfit(x) # None /\ unfit(x).kind = x.kind
  <2>1. aged(x) = [x EXCEPT !.fresh = FALSE] /\ unfit(x) = [x EXCEPT !.fits = FALSE]
    BY <1>1 DEF aged, unfit
  <2>2. [x EXCEPT !.fresh = FALSE] \in StationList /\ [x EXCEPT !.fits = FALSE] \in StationList
    BY DEF StationList
  <2> QED BY <1>1, <2>1, <2>2 DEF StationList
<1>5. ASSUME NEW x \in Refresh
      PROVE  /\ aged(x) \in Refresh /\ aged(x) # None /\ aged(x).attempt = x.attempt
             /\ unfit(x) \in Refresh /\ unfit(x) # None /\ unfit(x).attempt = x.attempt
  <2>1. aged(x) = [x EXCEPT !.fresh = FALSE] /\ unfit(x) = [x EXCEPT !.fits = FALSE]
    BY <1>1 DEF aged, unfit
  <2>2. [x EXCEPT !.fresh = FALSE] \in Refresh /\ [x EXCEPT !.fits = FALSE] \in Refresh
    BY DEF Refresh
  <2> QED BY <1>1, <2>1, <2>2 DEF Refresh
<1>6. ASSUME NEW x \in Detail PROVE unfit(x) \in Detail /\ unfit(x) # None
  <2>1. unfit(x) = [x EXCEPT !.fits = FALSE] BY <1>1 DEF unfit
  <2> QED BY <1>1, <2>1 DEF Detail
<1> QED BY <1>2, <1>3, <1>4, <1>5, <1>6

\* What becomes of a generation that is an optional.
LEMMA AgedMaybe ==
  /\ \A x \in Maybe(Selection) :
       /\ aged(x) \in Maybe(Selection) /\ (aged(x) = None <=> x = None)
       /\ x # None => aged(x).valid = x.valid /\ aged(x).status = x.status
                        /\ aged(x).charger = x.charger
  /\ \A x \in Maybe(StationList) :
       /\ aged(x) \in Maybe(StationList) /\ (aged(x) = None <=> x = None)
       /\ unfit(x) \in Maybe(StationList) /\ (unfit(x) = None <=> x = None)
  /\ \A x \in Maybe(Refresh) :
       /\ aged(x) \in Maybe(Refresh) /\ (aged(x) = None <=> x = None)
       /\ unfit(x) \in Maybe(Refresh) /\ (unfit(x) = None <=> x = None)
  /\ \A x \in Maybe(Detail) : unfit(x) \in Maybe(Detail) /\ (unfit(x) = None <=> x = None)
BY AgedTypes DEF Maybe

LEMMA NextSearch ==
  ASSUME NEW v \in Shell, Known(v), Told(v)
  PROVE  LET u == nextSearch(v) IN
         /\ Keeps(v, u) /\ Moves(v, u)
         /\ u.api = v.api /\ u.charge = v.charge /\ u.main = v.main
<1> DEFINE l == unfit(v.nearby.list)
           r == unfit(v.nearby.refresh)
           d == unfit(v.nearby.detail)
           n == [v.nearby EXCEPT !.list = l, !.refresh = r, !.detail = d]
           u == [v EXCEPT !.nearby = n]
<1>a. v.nearby \in NearbyState BY Parts
<1>1. /\ l \in Maybe(StationList) /\ (l = None <=> v.nearby.list = None)
      /\ r \in Maybe(Refresh) /\ d \in Maybe(Detail) /\ (d = None <=> v.nearby.detail = None)
  BY <1>a, AgedMaybe DEF NearbyState
<1>2. nextSearch(v) = u BY <1>a DEF nextSearch, NearbyState, Shell
<1> HIDE DEF l, r, d
<1>3. n \in NearbyState /\ n.list = l /\ n.detail = d BY <1>a, <1>1 DEF NearbyState
<1> HIDE DEF n
<1>4. Keeps(v, u) BY <1>1, <1>3, NearbyAlone
<1>5. u.api = v.api /\ u.charge = v.charge /\ u.main = v.main BY DEF Shell
<1> HIDE DEF u
<1>6. Moves(v, u) BY <1>4, <1>5 DEF Keeps, Moves, Withdrawn
<1> QED BY <1>2, <1>4, <1>5, <1>6

\* The generation of the selections moves on; `gone' also when they are withdrawn.
LEMMA Reselected ==
  ASSUME NEW v \in Shell, Known(v), Told(v), NEW u \in Shell,
         u.api = v.api, u.history = v.history,
         u.nearby.list = None <=> v.nearby.list = None,
         NEW s \in Maybe(Selection), s = None <=> v.charge.selection = None,
         s # None => s.status = v.charge.selection.status,
         u.charge = [v.charge EXCEPT !.selection = s],
         SameMain(u.main, v.main), u.main.blocked = v.main.blocked
  PROVE  /\ Known(u) /\ Told(u) /\ Within(v, u)
         /\ Reported(u) = Reported(v) /\ Heard(u) = Heard(v)
         /\ Rendered(v) => Rendered(u)
         /\ chargeFlowBlocked(u.charge) = chargeFlowBlocked(v.charge)
<1>a. v.charge \in ChargeState BY Parts
<1>1. /\ u.charge.active = v.charge.active /\ u.charge.order = v.charge.order
      /\ u.charge.mutation = v.charge.mutation /\ u.charge.facts = v.charge.facts
      /\ u.charge.read = v.charge.read /\ u.charge.reported = v.charge.reported
      /\ u.charge.reconcile = v.charge.reconcile /\ u.charge.factsFailed = v.charge.factsFailed
      /\ u.charge.exit = v.charge.exit /\ u.charge.gate = v.charge.gate
      /\ u.charge.associated = v.charge.associated /\ u.charge.noOrder = v.charge.noOrder
      /\ u.charge.buttons = v.charge.buttons /\ u.charge.selection = s
      /\ u.charge.selGen = v.charge.selGen /\ u.charge.exitFailed = v.charge.exitFailed
      /\ u.charge.attempt = v.charge.attempt
  BY <1>a DEF ChargeState
<1>2. u.main.blocked = u.charge.reported BY <1>1 DEF Told
<1>8. Paged(u.charge) BY <1>1, PagedSame DEF Known
<1>3. Known(u) /\ Told(u) /\ Within(v, u) BY <1>1, <1>2, <1>8, ChargeStep
<1>4. chargeFlowBlocked(u.charge) = chargeFlowBlocked(v.charge) BY <1>1 DEF chargeFlowBlocked
<1>5. Offers(u.charge) = Offers(v.charge) BY <1>1 DEF Offers
<1>6. Leaves(u.charge) = Leaves(v.charge) BY <1>1 DEF Leaves
<1>7. Usable(u) = Usable(v) BY <1>1, <1>4, <1>5, <1>6 DEF Usable
<1> QED BY <1>1, <1>3, <1>4, <1>7 DEF Reported, Heard, Rendered

LEMMA NextSelection ==
  ASSUME NEW v \in Shell, Known(v), Told(v)
  PROVE  LET u == nextSelection(v) IN
         /\ Keeps(v, u) /\ Moves(v, u) /\ u.api = v.api /\ u.history = v.history
         /\ u.charge = [v.charge EXCEPT !.selection = aged(v.charge.selection)]
         /\ u.main = [v.main EXCEPT !.remembered = aged(v.main.remembered)]
         /\ u.nearby.list = None <=> v.nearby.list = None
         /\ u.nearby.detail = None <=> v.nearby.detail = None
<1> DEFINE s == aged(v.charge.selection)
           p == aged(v.main.remembered)
           l == aged(v.nearby.list)
           r == aged(v.nearby.refresh)
           d == unfit(v.nearby.detail)
           c == [v.charge EXCEPT !.selection = s]
           m == [v.main EXCEPT !.remembered = p]
           n == [v.nearby EXCEPT !.list = l, !.refresh = r, !.detail = d]
           u == [v EXCEPT !.charge = c, !.main = m, !.nearby = n]
<1>a. v.nearby \in NearbyState /\ v.charge \in ChargeState /\ v.main \in MainState BY Parts
<1>1. /\ l \in Maybe(StationList) /\ (l = None <=> v.nearby.list = None)
      /\ r \in Maybe(Refresh) /\ d \in Maybe(Detail) /\ (d = None <=> v.nearby.detail = None)
  BY <1>a, AgedMaybe DEF NearbyState
<1>2. /\ s \in Maybe(Selection) /\ (s = None <=> v.charge.selection = None)
      /\ s # None => s.status = v.charge.selection.status
                       /\ s.valid = v.charge.selection.valid
  BY <1>a, AgedMaybe DEF ChargeState
<1>3. /\ p \in Maybe(Selection) /\ (p = None <=> v.main.remembered = None)
      /\ p # None => p.valid = v.main.remembered.valid
  BY <1>a, AgedMaybe DEF MainState
<1>4. nextSelection(v) = u
  BY <1>a DEF nextSelection, NearbyState, Shell
<1> HIDE DEF l, r, d, s, p
<1>5. n \in NearbyState /\ n.list = l /\ n.detail = d BY <1>a, <1>1 DEF NearbyState
<1>6. c \in ChargeState /\ c.selection = s BY <1>a, <1>2 DEF ChargeState
<1>7. /\ m \in MainState /\ SameMain(m, v.main) /\ m.blocked = v.main.blocked
      /\ m.deferred = v.main.deferred /\ m.remembered = p
  BY <1>a, <1>3 DEF MainState, SameMain
<1>8. c = [v.charge EXCEPT !.selection = s] /\ m = [v.main EXCEPT !.remembered = p] OBVIOUS
<1> HIDE DEF n, c, m
<1>9. /\ u \in Shell /\ u.api = v.api /\ u.history = v.history /\ u.charge = c /\ u.main = m
      /\ u.nearby = n
  BY <1>5, <1>6, <1>7 DEF Shell
<1> HIDE DEF u
<1>10. /\ Known(u) /\ Told(u) /\ Within(v, u)
       /\ Reported(u) = Reported(v) /\ Heard(u) = Heard(v)
       /\ Rendered(v) => Rendered(u)
  BY <1>1, <1>2, <1>5, <1>7, <1>8, <1>9, Reselected
<1>11. Withdrawn(v) => Withdrawn(u) BY <1>2, <1>3, <1>6, <1>7, <1>9 DEF Withdrawn
<1>12. Keeps(v, u) /\ Moves(v, u) BY <1>9, <1>10, <1>11 DEF Keeps, Moves
<1> QED BY <1>1, <1>4, <1>5, <1>8, <1>9, <1>12 DEF s, p

\* The selections are withdrawn; MainWindow has not been told yet.
LEMMA Withdraw ==
  ASSUME NEW v \in Shell, Known(v), Told(v)
  PROVE  LET u == withdrawn(v) IN
         /\ u \in Shell /\ Known(u) /\ Told(u) /\ Within(v, u)
         /\ Reported(u) = Reported(v) /\ Heard(u) = Heard(v) /\ (Rendered(v) => Rendered(u))
         /\ chargeFlowBlocked(u.charge) = chargeFlowBlocked(v.charge)
         /\ u.api = v.api
         /\ u.main.blocked = v.main.blocked /\ u.main.deferred = v.main.deferred
         /\ u.charge.reported = v.charge.reported
         /\ u.charge.selection = None <=> v.charge.selection = None
         /\ u.nearby.list = None <=> v.nearby.list = None
         /\ u.nearby.detail = None <=> v.nearby.detail = None
<1> DEFINE gone(x) == IF x = None THEN None ELSE [x EXCEPT !.valid = FALSE]
           x == nextSelection(v)
           s == gone(x.charge.selection)
           p == gone(x.main.remembered)
           c == [v.charge EXCEPT !.selection = s]
           m == [v.main EXCEPT !.remembered = p]
           u == [x EXCEPT !.charge = c, !.main = m]
<1>1. /\ Keeps(v, x) /\ x.api = v.api /\ x.history = v.history
      /\ x.charge = [v.charge EXCEPT !.selection = aged(v.charge.selection)]
      /\ x.main = [v.main EXCEPT !.remembered = aged(v.main.remembered)]
      /\ x.nearby.list = None <=> v.nearby.list = None
      /\ x.nearby.detail = None <=> v.nearby.detail = None
  BY NextSelection
<1>a. v.nearby \in NearbyState /\ v.charge \in ChargeState /\ v.main \in MainState BY Parts
<1>2. x \in Shell BY <1>1 DEF Keeps
<1>3. \A y \in Maybe(Selection) :
        /\ gone(y) \in Maybe(Selection) /\ (gone(y) = None <=> y = None)
        /\ y # None => gone(y).status = y.status
  <2>1. gone(None) = None OBVIOUS
  <2>2. ASSUME NEW y \in Selection
        PROVE  gone(y) \in Selection /\ gone(y) # None /\ y # None /\ gone(y).status = y.status
    <3>1. y # None BY NoneAssumption DEF NoneAssumption
    <3>2. gone(y) = [y EXCEPT !.valid = FALSE] BY <3>1
    <3>3. [y EXCEPT !.valid = FALSE] \in Selection BY DEF Selection
    <3>4. None \notin Selection BY NoneAssumption DEF NoneAssumption
    <3> HIDE DEF gone
    <3> QED BY <3>1, <3>2, <3>3, <3>4 DEF Selection
  <2> HIDE DEF gone
  <2> QED BY <2>1, <2>2 DEF Maybe
<1>4. withdrawn(v) = u
  <2>1. [x EXCEPT !.charge.selection = gone(@), !.main.remembered = gone(@)] = u
    <3> DEFINE q == aged(v.charge.selection)
               o == aged(v.main.remembered)
    <3>1. x.charge.selection = q /\ x.main.remembered = o
      BY <1>1, <1>a DEF ChargeState, MainState
    <3> HIDE DEF x, gone, q, o
    <3>2. [x.charge EXCEPT !.selection = s] = c BY <1>1, <1>a DEF ChargeState, q
    <3>3. [x.main EXCEPT !.remembered = p] = m BY <1>1, <1>a DEF MainState, o
    <3> HIDE DEF s, p, c, m
    <3>4. [x EXCEPT !.charge.selection = s, !.main.remembered = p] = u
      BY <1>2, <3>2, <3>3 DEF Shell
    <3> QED BY <3>4 DEF s, p
  <2> QED BY <2>1 DEF withdrawn
<1>5. /\ s \in Maybe(Selection) /\ (s = None <=> v.charge.selection = None)
      /\ s # None => s.status = v.charge.selection.status
      /\ p \in Maybe(Selection) /\ (p = None <=> v.main.remembered = None)
  <2>1. /\ x.charge.selection = aged(v.charge.selection)
        /\ x.main.remembered = aged(v.main.remembered)
    <3> HIDE DEF x
    <3> QED BY <1>1, <1>a DEF ChargeState, MainState
  <2>2. /\ v.charge.selection \in Maybe(Selection) /\ v.main.remembered \in Maybe(Selection)
    BY <1>a DEF ChargeState, MainState
  <2> HIDE DEF x, gone
  <2> QED BY <1>3, <2>1, <2>2, AgedMaybe
<1> HIDE DEF s, p, x, gone
<1>6. /\ c \in ChargeState /\ c.selection = s /\ c.reported = v.charge.reported
  BY <1>a, <1>5 DEF ChargeState
<1>7. /\ m \in MainState /\ SameMain(m, v.main) /\ m.blocked = v.main.blocked
      /\ m.deferred = v.main.deferred
  BY <1>a, <1>5 DEF MainState, SameMain
<1>8. c = [v.charge EXCEPT !.selection = s] OBVIOUS
<1> HIDE DEF c, m
<1>9. /\ u \in Shell /\ u.api = v.api /\ u.history = v.history /\ u.charge = c /\ u.main = m
      /\ u.nearby = x.nearby
  BY <1>1, <1>2, <1>6, <1>7 DEF Shell
<1> HIDE DEF u
<1>10. /\ Known(u) /\ Told(u) /\ Within(v, u)
       /\ Reported(u) = Reported(v) /\ Heard(u) = Heard(v)
       /\ Rendered(v) => Rendered(u)
       /\ chargeFlowBlocked(u.charge) = chargeFlowBlocked(v.charge)
  BY <1>1, <1>5, <1>7, <1>8, <1>9, Reselected
<1> QED BY <1>1, <1>4, <1>5, <1>6, <1>7, <1>9, <1>10

LEMMA InvalidateNearby ==
  ASSUME NEW v \in Shell, Known(v), Told(v)
  PROVE  LET u == invalidateNearbySelection(v) IN
         /\ Keeps(v, u)
         /\ v.charge.order # None \/ chargeFlowBlocked(v.charge) \/ v.main.blocked =>
              /\ u.api = v.api
              /\ u.nearby.list = None <=> v.nearby.list = None
              /\ u.nearby.detail = None <=> v.nearby.detail = None
<1> DEFINE x == withdrawn(v)
           m == [x.main EXCEPT !.deferred = TRUE]
           u == invalidateNearbySelection(v)
<1>1. /\ x \in Shell /\ Known(x) /\ Told(x) /\ Within(v, x)
      /\ Reported(x) = Reported(v) /\ Heard(x) = Heard(v) /\ (Rendered(v) => Rendered(x))
      /\ chargeFlowBlocked(x.charge) = chargeFlowBlocked(v.charge)
      /\ x.api = v.api
      /\ x.main.blocked = v.main.blocked /\ x.main.deferred = v.main.deferred
      /\ x.charge.reported = v.charge.reported
      /\ x.charge.selection = None <=> v.charge.selection = None
      /\ x.nearby.list = None <=> v.nearby.list = None
      /\ x.nearby.detail = None <=> v.nearby.detail = None
  BY Withdraw
<1>2. CASE x.main.blocked
  <2> DEFINE z == [x EXCEPT !.main = m]
  <2>1. u = z BY <1>2 DEF invalidateNearbySelection
  <2> HIDE DEF x
  <2>2. /\ m \in MainState /\ SameMain(m, x.main) /\ m.blocked = x.main.blocked
        /\ m.deferred = TRUE
    BY <1>1, Parts DEF MainState, SameMain
  <2> HIDE DEF m
  <2>3. /\ z \in Shell /\ z.api = x.api /\ z.history = x.history /\ z.charge = x.charge
        /\ z.main = m /\ z.nearby = x.nearby
    BY <1>1, <2>2 DEF Shell
  <2> HIDE DEF z
  <2>4. z.main.blocked = z.charge.reported BY <1>1, <2>2, <2>3 DEF Told
  <2>5. Known(z) /\ Told(z) /\ Within(x, z) BY <1>1, <2>2, <2>3, <2>4, ChargeStep DEF Known
  <2>6. Withdrawn(z) BY <1>2, <2>2, <2>3 DEF Withdrawn
  <2>7. Reported(z) = Reported(x) /\ Heard(z) = Heard(x) /\ Rendered(z) = Rendered(x)
    BY <2>3 DEF Reported, Heard, Rendered, Usable
  <2>8. Keeps(v, z) BY <1>1, <2>3, <2>5, <2>6, <2>7, WithinTrans DEF Keeps
  <2> QED BY <1>1, <2>1, <2>3, <2>8
<1>3. CASE ~x.main.blocked
  <2>1. u = applySelectionInvalidation(x) BY <1>3 DEF invalidateNearbySelection
  <2> HIDE DEF x, u
  <2>2. /\ Keeps(x, u)
        /\ u.main = [x.main EXCEPT !.remembered = None]
        /\ ~chargeFlowBlocked(x.charge) => u.charge.selection = None
        /\ x.charge.order # None \/ chargeFlowBlocked(x.charge) =>
             u.api = x.api /\ u.nearby = x.nearby
    BY <1>1, <2>1, ApplyInvalidation
  <2>3. Heard(v) => ~chargeFlowBlocked(x.charge)
    BY <1>1, <1>3 DEF Heard, Told
  <2>4. u.main.deferred = x.main.deferred /\ u.main.blocked = x.main.blocked
    BY <1>1, <2>2, Parts DEF MainState
  <2>5. Heard(v) /\ Withdrawn(v) => Withdrawn(u)
    BY <1>1, <2>2, <2>3, <2>4 DEF Withdrawn
  <2>6. Keeps(v, u) BY <1>1, <2>2, <2>5, WithinTrans DEF Keeps
  <2>7. x.charge.order = v.charge.order BY <1>1 DEF Within, Frame
  <2> QED BY <1>1, <1>3, <2>2, <2>6, <2>7 DEF u
<1> QED BY <1>2, <1>3

-----------------------------------------------------------------------------
(* The rest of the page of stations.                                       *)

\* A step of the page of stations and of its reads.
LEMMA NearbyStep ==
  ASSUME NEW v \in Shell, Known(v), Told(v), NEW u \in Shell,
         u.charge = v.charge, u.main = v.main, u.history = v.history,
         u.api.up = v.api.up, u.api.user = v.api.user, u.api.ops = v.api.ops,
         \A s \in Read \ {"list"} : s \in Slots(u) <=> s \in Slots(v),
         \A s \in Slots(u) : \/ s \in Slots(v) /\ u.api.reads[s] = v.api.reads[s]
                             \/ u.api.reads[s] = Len(v.api.ops)
  PROVE  /\ Lightly(v, u)
         /\ (Listed(v) => Listed(u)) => Keeps(v, u) /\ Moves(v, u)
<1>1. Known(u) /\ Told(u) BY DEF Known, Told, Read, CurrentRead
<1>2. Frame(v, u) BY DEF Frame, Read, CurrentRead
<1>3. /\ Reported(u) = Reported(v) /\ Heard(u) = Heard(v)
      /\ Withdrawn(u) = Withdrawn(v) /\ Rendered(u) = Rendered(v)
  BY DEF Reported, Heard, Withdrawn, Rendered, Usable
<1> QED BY <1>1, <1>2, <1>3 DEF Lightly, Keeps, Moves, Within

\* NearbyPage gives the reads away but for those of its own.
LEMMA NearbySet ==
  ASSUME NEW v \in Shell, Known(v), Told(v), NEW n \in NearbyState,
         n.list # None <=> v.nearby.list # None
  PROVE  LET u == [v EXCEPT !.nearby = n] IN
         /\ Keeps(v, u) /\ Moves(v, u)
         /\ u.nearby = n /\ u.charge = v.charge /\ u.main = v.main /\ u.api = v.api
         /\ u.history = v.history
<1> DEFINE u == [v EXCEPT !.nearby = n]
<1>1. Keeps(v, u) BY NearbyAlone
<1>2. /\ u.nearby = n /\ u.charge = v.charge /\ u.main = v.main /\ u.api = v.api
      /\ u.history = v.history
  BY DEF Shell
<1> HIDE DEF u
<1>3. Moves(v, u) BY <1>1, <1>2 DEF Keeps, Moves, Withdrawn
<1> QED BY <1>1, <1>2, <1>3 DEF u

\* What a change of the details under way leaves alone.
OnlyDetails(v, u) ==
  /\ u \in Shell
  /\ u.charge = v.charge /\ u.nearby = v.nearby /\ u.history = v.history /\ u.main = v.main
  /\ u.api.up = v.api.up /\ u.api.user = v.api.user /\ u.api.ops = v.api.ops
  /\ u.api.reads = v.api.reads /\ u.api.replayed = v.api.replayed

LEMMA ChangeDetails ==
  ASSUME NEW v \in Shell, NEW f \in [DetailId -> {"sent", "kept", "over"}]
  PROVE  OnlyDetails(v, [v EXCEPT !.api.details = f])
         /\ [v EXCEPT !.api.details = f].api.details = f
<1> DEFINE a == [v.api EXCEPT !.details = f]
           u == [v EXCEPT !.api = a]
<1>1. /\ a \in ApiState(Slots(v)) /\ a.up = v.api.up /\ a.user = v.api.user
      /\ a.ops = v.api.ops /\ a.reads = v.api.reads /\ a.replayed = v.api.replayed
      /\ a.details = f
  BY Parts DEF ApiState
<1>2. Slots(v) \in SUBSET Read BY Parts
<1>3. u = [v EXCEPT !.api.details = f] OBVIOUS
<1> HIDE DEF a
<1>4. /\ u \in Shell /\ u.api = a /\ u.charge = v.charge /\ u.nearby = v.nearby
      /\ u.history = v.history /\ u.main = v.main
  BY <1>1, <1>2 DEF Shell
<1> QED BY <1>1, <1>3, <1>4 DEF OnlyDetails

LEMMA CancelDetails ==
  ASSUME NEW v \in Shell, NEW ids
  PROVE  OnlyDetails(v, cancelDetails(v, ids))
<1> DEFINE f == [d \in DetailId |-> IF d \in ids THEN "over" ELSE v.api.details[d]]
<1>1. v.api.details \in [DetailId -> {"sent", "kept", "over"}] BY Parts DEF ApiState
<1>2. f \in [DetailId -> {"sent", "kept", "over"}] BY <1>1
<1>3. cancelDetails(v, ids) = [v EXCEPT !.api.details = f] BY DEF cancelDetails
<1> HIDE DEF f
<1> QED BY <1>2, <1>3, ChangeDetails

LEMMA SendDetail ==
  ASSUME NEW v \in Shell, NEW id \in DetailId
  PROVE  OnlyDetails(v, sendDetail(v, id))
<1> DEFINE f == [v.api.details EXCEPT ![id] = "sent"]
<1>1. v.api.details \in [DetailId -> {"sent", "kept", "over"}] BY Parts DEF ApiState
<1>2. f \in [DetailId -> {"sent", "kept", "over"}] BY <1>1
<1>3. sendDetail(v, id) = [v EXCEPT !.api.details = f] BY DEF sendDetail
<1> HIDE DEF f
<1> QED BY <1>2, <1>3, ChangeDetails

LEMMA DetailsKeep ==
  ASSUME NEW v \in Shell, Known(v), Told(v), NEW u, OnlyDetails(v, u)
  PROVE  /\ Keeps(v, u) /\ Moves(v, u) /\ Slots(u) = Slots(v) /\ (Listed(v) <=> Listed(u))
<1>1. Slots(u) = Slots(v) /\ (Listed(v) <=> Listed(u)) BY DEF OnlyDetails, Slots, Listed
<1>2. Keeps(v, u) /\ Moves(v, u) BY <1>1, NearbyStep DEF OnlyDetails, Slots
<1> QED BY <1>1, <1>2

\* The page waits for a detail no more.
Forgets(v, u) ==
  /\ Keeps(v, u) /\ Moves(v, u) /\ u.charge = v.charge /\ u.main = v.main
  /\ u.nearby = [v.nearby EXCEPT !.superseded = u.nearby.superseded, !.detail = None]
  /\ u.nearby.list = v.nearby.list
  /\ Slots(u) = Slots(v) /\ u.api.up = v.api.up /\ u.api.reads = v.api.reads
  /\ u.api.replayed = v.api.replayed /\ u.api.ops = v.api.ops /\ u.history = v.history

LEMMA DropDetail ==
  ASSUME NEW v \in Shell, Known(v), Told(v)
  PROVE  /\ Forgets(v, supersedeDetail(v))
         /\ Forgets(v, cancelDetail(v))
         /\ Forgets(v, cancelEveryDetail(v))
<1>1. ASSUME NEW x \in Shell, OnlyDetails(v, x), NEW s \in SUBSET DetailId
      PROVE  Forgets(v, [x EXCEPT !.nearby.superseded = s, !.nearby.detail = None])
  <2> DEFINE n == [v.nearby EXCEPT !.superseded = s, !.detail = None]
             u == [x EXCEPT !.nearby = n]
  <2>1. v.nearby \in NearbyState BY Parts
  <2>2. n \in NearbyState /\ n.list = v.nearby.list /\ n.superseded = s
    BY <2>1, NoneFits DEF NearbyState
  <2>3. Keeps(v, x) /\ Moves(v, x) /\ Slots(x) = Slots(v) BY <1>1, DetailsKeep
  <2>4. u = [x EXCEPT !.nearby.superseded = s, !.nearby.detail = None]
    BY <1>1 DEF OnlyDetails
  <2>5. n = [v.nearby EXCEPT !.superseded = n.superseded, !.detail = None] BY <2>2
  <2> HIDE DEF n
  <2>6. /\ Keeps(x, u) /\ Moves(x, u) /\ u.nearby = n /\ u.charge = x.charge
        /\ u.main = x.main /\ u.api = x.api /\ u.history = x.history
    BY <1>1, <2>2, <2>3, NearbySet DEF Keeps, OnlyDetails
  <2> HIDE DEF u
  <2>7. Keeps(v, u) /\ Moves(v, u) BY <2>3, <2>6, KeepsTrans, MovesTrans
  <2>8. Slots(u) = Slots(v) BY <2>3, <2>6 DEF Slots
  <2>9. Forgets(v, u) BY <1>1, <2>2, <2>5, <2>6, <2>7, <2>8 DEF Forgets, OnlyDetails
  <2> QED BY <2>4, <2>9
<1>2. v.nearby \in NearbyState /\ v.nearby.superseded \in SUBSET DetailId
      /\ v.nearby.detail \in Maybe(Detail)
  BY Parts DEF NearbyState
<1>3. awaitedDetail(v) \subseteq DetailId BY <1>2 DEF awaitedDetail, Maybe, Detail
<1>4. Forgets(v, supersedeDetail(v))
  <2> DEFINE s == v.nearby.superseded
                    \cup {d \in awaitedDetail(v) : v.api.details[d] # "over"}
  <2>1. s \in SUBSET DetailId BY <1>2, <1>3
  <2>2. supersedeDetail(v) = [v EXCEPT !.nearby.superseded = s, !.nearby.detail = None]
    BY DEF supersedeDetail
  <2>3. OnlyDetails(v, v) BY DEF OnlyDetails
  <2> HIDE DEF s
  <2> QED BY <1>1, <2>1, <2>2, <2>3
<1>5. ASSUME NEW x \in Shell, OnlyDetails(v, x)
      PROVE  [x EXCEPT !.nearby.superseded = v.nearby.superseded, !.nearby.detail = None]
             = [x EXCEPT !.nearby.detail = None]
  BY <1>5, <1>2 DEF OnlyDetails, NearbyState, Shell
<1>6. Forgets(v, cancelDetail(v))
  <2> DEFINE x == cancelDetails(v, awaitedDetail(v))
  <2>1. x \in Shell /\ OnlyDetails(v, x) BY CancelDetails DEF OnlyDetails
  <2>2. cancelDetail(v) = [x EXCEPT !.nearby.detail = None] BY DEF cancelDetail
  <2>3. cancelDetail(v)
        = [x EXCEPT !.nearby.superseded = v.nearby.superseded, !.nearby.detail = None]
    BY <1>5, <2>1, <2>2
  <2>4. Forgets(v, [x EXCEPT !.nearby.superseded = v.nearby.superseded,
                             !.nearby.detail = None])
    BY <1>1, <1>2, <2>1
  <2> QED BY <2>3, <2>4
<1>7. Forgets(v, cancelEveryDetail(v))
  <2> DEFINE x == cancelDetails(v, v.nearby.superseded)
             y == cancelDetails(x, awaitedDetail(x))
             z == [y EXCEPT !.nearby.detail = None]
  <2>1. x \in Shell /\ OnlyDetails(v, x) BY CancelDetails DEF OnlyDetails
  <2> HIDE DEF x
  <2>2. y \in Shell /\ OnlyDetails(x, y) BY <2>1, CancelDetails DEF OnlyDetails
  <2>3. cancelEveryDetail(v) = [z EXCEPT !.nearby.superseded = {}]
    BY DEF cancelEveryDetail, cancelDetail, x
  <2> HIDE DEF y
  <2>4. OnlyDetails(v, y) BY <2>1, <2>2 DEF OnlyDetails
  <2>5. [z EXCEPT !.nearby.superseded = {}]
        = [y EXCEPT !.nearby.superseded = {}, !.nearby.detail = None]
    <3>1. y \in Shell /\ y.nearby \in NearbyState BY <2>2, Parts
    <3> QED BY <3>1 DEF Shell, NearbyState
  <2> HIDE DEF z
  <2>6. {} \in SUBSET DetailId OBVIOUS
  <2> QED BY <1>1, <2>2, <2>3, <2>4, <2>5, <2>6
<1> QED BY <1>4, <1>6, <1>7

\* The page of stations tells the charge page what its refresh came to.
LEMMA FinishUnavailable ==
  ASSUME NEW v \in Shell, Known(v), Told(v)
  PROVE  LET u == finishChargeRefreshUnavailable(v) IN Keeps(v, u) /\ Moves(v, u)
<1> DEFINE x == resetChargeRefresh(v)
<1>1. Keeps(v, x) /\ Moves(v, x) BY ResetRefresh
<1>2. CASE v.nearby.refresh = None
  BY <1>2, KeepsSelf DEF finishChargeRefreshUnavailable
<1>3. CASE v.nearby.refresh # None
  <2> DEFINE y == nearbyRefreshUnavailable(x, v.nearby.refresh.attempt)
  <2>1. finishChargeRefreshUnavailable(v) = y BY <1>3 DEF finishChargeRefreshUnavailable
  <2> HIDE DEF x
  <2>2. Keeps(x, y) /\ Moves(x, y) BY <1>1, RefreshUnavailable DEF Keeps
  <2> HIDE DEF y
  <2> QED BY <1>1, <2>1, <2>2, KeepsTrans, MovesTrans
<1> QED BY <1>2, <1>3

LEMMA FinishFailed ==
  ASSUME NEW v \in Shell, Known(v), Told(v)
  PROVE  LET u == finishChargeRefreshFailed(v) IN
         Keeps(v, u) /\ Moves(v, u) /\ (u.charge = v.charge \/ Settles(v, u))
<1> DEFINE x == cancelChargeRefresh(v)
<1>1. Keeps(v, x) /\ Moves(v, x) /\ x.charge = v.charge BY GiveUpRefresh
<1>2. CASE v.nearby.refresh = None
  BY <1>2, KeepsSelf DEF finishChargeRefreshFailed
<1>3. CASE v.nearby.refresh # None
  <2> DEFINE y == nearbyRefreshFailed(x, v.nearby.refresh.attempt)
  <2>1. finishChargeRefreshFailed(v) = y BY <1>3 DEF finishChargeRefreshFailed
  <2> HIDE DEF x
  <2>2. Keeps(x, y) /\ Moves(x, y) /\ (y = x \/ Settles(x, y))
    BY <1>1, RefreshFailed DEF Keeps
  <2> HIDE DEF y
  <2> QED BY <1>1, <2>1, <2>2, KeepsTrans, MovesTrans, SettlesAfter
<1> QED BY <1>2, <1>3

LEMMA FinishIfReady ==
  ASSUME NEW v \in Shell, Known(v), Told(v)
  PROVE  LET u == finishChargeRefreshIfReady(v) IN Keeps(v, u) /\ Moves(v, u)
<1> DEFINE x == resetChargeRefresh(v)
           n == [x.nearby EXCEPT !.shown = TRUE]
           y == [x EXCEPT !.nearby = n]
           r == v.nearby.refresh
<1>1. Keeps(v, x) /\ Moves(v, x) BY ResetRefresh
<1>2. CASE r = None \/ ~(r.listApplied /\ r.detailApplied)
  BY <1>2, KeepsSelf DEF finishChargeRefreshIfReady
<1>3. CASE ~(r = None \/ ~(r.listApplied /\ r.detailApplied))
  <2> DEFINE z == nearbyRefreshCommitted(y, r.attempt)
  <2>4. finishChargeRefreshIfReady(v) = z
    BY <1>3 DEF finishChargeRefreshIfReady
  <2> HIDE DEF x
  <2>1. n \in NearbyState /\ n.list = x.nearby.list /\ n.detail = x.nearby.detail
    BY <1>1, Parts DEF NearbyState, Keeps
  <2> HIDE DEF n
  <2>2. Keeps(x, y) /\ Moves(x, y) BY <1>1, <2>1, NearbyAlone DEF Keeps
  <2> HIDE DEF y
  <2>3. Keeps(y, z) /\ Moves(y, z) BY <2>2, RefreshCommitted DEF Keeps
  <2> HIDE DEF z
  <2> QED BY <1>1, <2>2, <2>3, <2>4, KeepsTrans, MovesTrans
<1> QED BY <1>2, <1>3

LEMMA Abandon ==
  ASSUME NEW v \in Shell, Known(v), Told(v)
  PROVE  Keeps(v, abandonChargeRefresh(v))
<1> DEFINE x == cancelChargeRefresh(v)
<1>1. Keeps(v, x) BY GiveUpRefresh
<1>2. CASE v.nearby.refresh = None
  BY <1>1, <1>2 DEF abandonChargeRefresh
<1>3. CASE v.nearby.refresh # None
  <2> HIDE DEF x
  <2>1. Keeps(x, nearbyRefreshUnavailable(x, v.nearby.refresh.attempt))
    BY <1>1, RefreshUnavailable DEF Keeps
  <2>2. Keeps(v, nearbyRefreshUnavailable(x, v.nearby.refresh.attempt))
    BY <1>1, <2>1, KeepsTrans
  <2> QED BY <1>3, <2>2 DEF abandonChargeRefresh, x
<1> QED BY <1>2, <1>3

LEMMA SendPending ==
  ASSUME NEW v \in Shell, Known(v), Told(v)
  PROVE  /\ Lightly(v, send(v, "list"))
         /\ v.nearby.list # None => Listed(send(v, "list"))
<1> DEFINE u == send(v, "list")
<1>1. /\ u \in Shell
      /\ u.charge = v.charge /\ u.nearby = v.nearby /\ u.history = v.history
      /\ u.main = v.main /\ u.api.up = v.api.up /\ u.api.user = v.api.user
      /\ u.api.ops = v.api.ops /\ Slots(u) = Slots(v) \cup {"list"}
      /\ u.api.reads["list"] = Len(v.api.ops)
      /\ \A s \in Slots(v) \ {"list"} : u.api.reads[s] = v.api.reads[s]
  BY SendRead DEF Read
<1> HIDE DEF u
<1>2. \A s \in Read \ {"list"} : s \in Slots(u) <=> s \in Slots(v) BY <1>1
<1>3. Lightly(v, u) BY <1>1, <1>2, NearbyStep
<1>4. v.nearby.list # None => Listed(u) BY <1>1 DEF Listed
<1> QED BY <1>3, <1>4 DEF u

LEMMA Controls ==
  ASSUME NEW v \in Shell, NEW on \in BOOLEAN, Known(v), Told(v)
  PROVE  LET u == setDetailControlsEnabled(v, on) IN
         /\ Keeps(v, u) /\ u.api = v.api /\ u.charge = v.charge /\ u.main = v.main
         /\ u.nearby.list = v.nearby.list /\ u.nearby.detail = v.nearby.detail
<1>1. v.nearby \in NearbyState BY Parts
<1> QED BY <1>1, SetDetailControls DEF setDetailControlsEnabled, Shell, NearbyState

LEMMA SearchSet ==
  ASSUME NEW v \in Shell, NEW p \in BOOLEAN, Known(v), Told(v)
  PROVE  LET u == setSearchPending(v, p) IN
         /\ Keeps(v, u) /\ u.api = v.api /\ u.charge = v.charge /\ u.main = v.main
         /\ u.nearby.list = v.nearby.list /\ u.nearby.detail = v.nearby.detail
<1>1. v.nearby \in NearbyState BY Parts
<1> QED BY <1>1, SetSearchPending DEF setSearchPending, Shell, NearbyState

\* The list is asked for: what was shown is asked for anew with it.  For the charge
\* page the flow is blocked, or there is an order, so that giving up the chargers
\* on show does not give up the list.
LEMMA RequestStations ==
  ASSUME NEW v \in Shell, Known(v), Told(v),
         NEW kind \in {"foreground", "reconnect", "charge"}, NEW attempt \in 0..3,
         kind = "charge" => v.charge.order # None \/ chargeFlowBlocked(v.charge)
  PROVE  /\ Keeps(v, requestNearbyStations(v, kind, attempt))
         /\ Listed(requestNearbyStations(v, kind, attempt))
<1> DEFINE q == IF kind = "charge" THEN cancelChargeRefresh(v) ELSE abandonChargeRefresh(v)
           quiet == cancelPendingStationList(q)
           x == nextSearch(setSearchPending(quiet, TRUE))
           l == [kind |-> kind, fresh |-> TRUE, fits |-> TRUE]
           r == IF kind # "charge" THEN x.nearby.refresh
                ELSE [attempt |-> attempt, fresh |-> TRUE, fits |-> TRUE,
                      listApplied |-> FALSE, detailApplied |-> FALSE]
           n == [x.nearby EXCEPT !.list = l, !.refresh = r]
           asked == [x EXCEPT !.nearby = n]
           I(a) == IF kind = "charge" THEN invalidateNearbySelection(a) ELSE a
           K(a) == IF a.nearby.detail = None THEN a
                   ELSE setDetailControlsEnabled(supersedeDetail(I(a)), TRUE)
           U(a) == IF kind = "charge" THEN send(K(a), "list")
                   ELSE setDetailControlsEnabled(send(K(a), "list"), FALSE)
           i == I(asked)
           d == supersedeDetail(i)
           given == setDetailControlsEnabled(d, TRUE)
           k == IF asked.nearby.detail = None THEN asked ELSE given
           sent == send(k, "list")
           u == IF kind = "charge" THEN sent ELSE setDetailControlsEnabled(sent, FALSE)
<1>1. requestNearbyStations(v, kind, attempt) = u
  <2>2. requestNearbyStations(v, kind, attempt) =
          U([x EXCEPT !.nearby.list = l,
                  !.nearby.refresh =
                     IF kind # "charge" THEN @
                     ELSE [attempt |-> attempt, fresh |-> TRUE, fits |-> TRUE,
                           listApplied |-> FALSE, detailApplied |-> FALSE]])
    BY Zenon DEF requestNearbyStations
  <2>3. U(asked) = u OBVIOUS
  <2> HIDE DEF U
  <2>1. [x EXCEPT !.nearby.list = l,
                  !.nearby.refresh =
                     IF kind # "charge" THEN @
                     ELSE [attempt |-> attempt, fresh |-> TRUE, fits |-> TRUE,
                           listApplied |-> FALSE, detailApplied |-> FALSE]]
        = asked
    OBVIOUS
  <2> HIDE DEF asked, u
  <2> QED BY <2>1, <2>2, <2>3
<1>2. Keeps(v, q) /\ (kind = "charge" => q.charge = v.charge)
  BY GiveUpRefresh, Abandon
<1> HIDE DEF q
<1>3. /\ Keeps(v, quiet) /\ quiet.charge = q.charge /\ quiet \in Shell /\ Known(quiet) /\ Told(quiet)
  BY <1>2, GiveUpList, KeepsTrans DEF Keeps
<1> HIDE DEF quiet
<1>4. /\ Keeps(v, x) /\ x.charge = q.charge /\ x \in Shell /\ Known(x) /\ Told(x)
  <2> DEFINE y == setSearchPending(quiet, TRUE)
  <2>1. Keeps(quiet, y) /\ y.charge = quiet.charge BY <1>3, SearchSet
  <2> HIDE DEF y
  <2>2. Keeps(y, nextSearch(y)) /\ nextSearch(y).charge = y.charge BY <2>1, NextSearch DEF Keeps
  <2>3. x = nextSearch(y) BY DEF y
  <2> QED BY <1>3, <2>1, <2>2, <2>3, KeepsTrans DEF Keeps
<1> HIDE DEF x
<1>5. l \in StationList /\ l # None
  <2>1. l \in StationList BY DEF StationList
  <2> HIDE DEF l
  <2> QED BY <2>1, NoneAssumption DEF NoneAssumption
<1>6. r \in Maybe(Refresh)
  <2>1. x.nearby.refresh \in Maybe(Refresh) BY <1>4, Parts DEF NearbyState
  <2>2. [attempt |-> attempt, fresh |-> TRUE, fits |-> TRUE,
         listApplied |-> FALSE, detailApplied |-> FALSE] \in Refresh
    BY DEF Refresh
  <2> QED BY <2>1, <2>2 DEF Maybe
<1>7. l \in Maybe(StationList) BY <1>5 DEF Maybe
<1> HIDE DEF l, r
<1>8. n \in NearbyState /\ n.list = l /\ n.detail = x.nearby.detail
  <2>1. x.nearby \in NearbyState BY <1>4, Parts
  <2>2. n \in NearbyState BY <1>6, <1>7, <2>1 DEF NearbyState
  <2> QED BY <2>1, <2>2 DEF NearbyState
<1> HIDE DEF n
<1>9. /\ asked \in Shell /\ asked.api = x.api /\ asked.charge = x.charge /\ asked.main = x.main
      /\ asked.history = x.history /\ asked.nearby = n
  BY <1>4, <1>8 DEF Shell
<1> HIDE DEF asked
<1>10. Lightly(x, asked)
  <2>1. Slots(asked) = Slots(x) BY <1>9 DEF Slots
  <2> QED BY <1>4, <1>9, <2>1, NearbyStep DEF Slots
<1>11. /\ Lightly(v, asked) /\ asked.nearby.list # None
  BY <1>4, <1>5, <1>8, <1>9, <1>10, LightlyListed, LightlyTrans
<1>12. /\ Lightly(v, i) /\ i.nearby.list # None
  <2>1. CASE kind # "charge" BY <1>11, <2>1
  <2>2. CASE kind = "charge"
    <3>1. i = invalidateNearbySelection(asked) BY <2>2
    <3> HIDE DEF i
    <3>2. asked.charge = v.charge BY <1>2, <1>4, <1>9, <2>2
    <3>3. Keeps(asked, i) /\ (i.nearby.list = None <=> asked.nearby.list = None)
      BY <1>11, <2>2, <3>1, <3>2, InvalidateNearby DEF Lightly
    <3> QED BY <1>11, <3>3, LightlyListed, LightlyTrans
  <2> QED BY <2>1, <2>2
<1> HIDE DEF i
<1>13. /\ Keeps(i, d) /\ d.nearby.list = i.nearby.list
  BY <1>12, DropDetail DEF Lightly, Forgets
<1> HIDE DEF d
<1>14. /\ Keeps(d, given) /\ given.nearby.list = d.nearby.list
  BY <1>13, Controls DEF Keeps
<1> HIDE DEF given
<1>15. Lightly(v, k) /\ k.nearby.list # None
  BY <1>11, <1>12, <1>13, <1>14, LightlyListed, LightlyTrans
<1> HIDE DEF k
<1>16. Lightly(k, sent) /\ Listed(sent)
  BY <1>15, SendPending DEF Lightly
<1> HIDE DEF sent
<1>17. Keeps(v, sent) BY <1>15, <1>16, LightlyTrans, LightlyListed
<1>18. Keeps(v, u) /\ Listed(u)
  <2>1. CASE kind = "charge" BY <1>16, <1>17, <2>1
  <2>2. CASE kind # "charge"
    <3>1. Keeps(sent, setDetailControlsEnabled(sent, FALSE))
      BY <1>17, SetDetailControls DEF Keeps
    <3>2. u = setDetailControlsEnabled(sent, FALSE) BY <2>2
    <3> HIDE DEF u
    <3> QED BY <1>16, <1>17, <3>1, <3>2, KeepsTrans DEF Keeps, Within
  <2> QED BY <2>1, <2>2
<1> HIDE DEF u
<1> QED BY <1>1, <1>18

LEMMA RefreshAfter ==
  ASSUME NEW v \in Shell, Known(v), Told(v), NEW attempt \in 0..3,
         v.charge.order # None \/ chargeFlowBlocked(v.charge)
  PROVE  Keeps(v, refreshAfterCharge(v, attempt))
BY RequestStations, RefreshUnavailable DEF refreshAfterCharge

LEMMA DetailApplied ==
  ASSUME NEW v \in Shell, Known(v), Told(v), NEW attempt
  PROVE  LET u == applyChargeStationDetail(v, attempt) IN Keeps(v, u) /\ Moves(v, u)
<1> DEFINE r == v.nearby.refresh
           s == [r EXCEPT !.detailApplied = TRUE]
           n == [v.nearby EXCEPT !.refresh = s]
           y == [v EXCEPT !.nearby = n]
<1>1. CASE r = None \/ r.attempt # attempt
  BY <1>1, KeepsSelf DEF applyChargeStationDetail
<1>2. CASE r # None /\ r.attempt = attempt /\ ~(r.fresh /\ r.fits /\ v.nearby.origin)
  BY <1>2, FinishUnavailable DEF applyChargeStationDetail
<1>3. CASE r # None /\ r.attempt = attempt /\ r.fresh /\ r.fits /\ v.nearby.origin
  <2>1. applyChargeStationDetail(v, attempt) = finishChargeRefreshIfReady(y)
    BY <1>3 DEF applyChargeStationDetail
  <2>2. v.nearby \in NearbyState /\ r \in Refresh BY <1>3, Parts DEF NearbyState, Maybe
  <2> HIDE DEF r
  <2>3. s \in Maybe(Refresh) BY <2>2 DEF Refresh, Maybe
  <2> HIDE DEF s
  <2>4. n \in NearbyState /\ n.list = v.nearby.list /\ n.detail = v.nearby.detail
    BY <2>2, <2>3 DEF NearbyState
  <2> HIDE DEF n
  <2>5. Keeps(v, y) /\ Moves(v, y) BY <2>4, NearbyAlone
  <2> DEFINE z == finishChargeRefreshIfReady(y)
  <2> HIDE DEF y
  <2>6. Keeps(y, z) /\ Moves(y, z) BY <2>5, FinishIfReady DEF Keeps
  <2>7. applyChargeStationDetail(v, attempt) = z BY <2>1
  <2> HIDE DEF z
  <2> QED BY <2>5, <2>6, <2>7, KeepsTrans, MovesTrans
<1> QED BY <1>1, <1>2, <1>3

LEMMA DetailNotApplied ==
  ASSUME NEW v \in Shell, Known(v), Told(v), NEW attempt
  PROVE  LET u == failChargeStationDetail(v, attempt) IN
         Keeps(v, u) /\ Moves(v, u) /\ (u.charge = v.charge \/ Settles(v, u))
BY KeepsSelf, FinishFailed DEF failChargeStationDetail

\* The list that was asked for was answered: the page waits for it no more.
LEMMA ListAnswered ==
  ASSUME NEW v \in Shell, Known(v), Told(v), "list" \notin Slots(v),
         NEW n \in NearbyState, n.list = None
  PROVE  LET u == [v EXCEPT !.nearby = n] IN
         /\ Keeps(v, u) /\ Moves(v, u) /\ Listed(u) /\ u.charge = v.charge /\ u.main = v.main
         /\ u.api = v.api /\ u.nearby = n
<1> DEFINE u == [v EXCEPT !.nearby = n]
<1>5. /\ u \in Shell /\ u.charge = v.charge /\ u.main = v.main /\ u.api = v.api /\ u.nearby = n
      /\ u.history = v.history
  BY DEF Shell
<1> HIDE DEF u
<1>6. Slots(u) = Slots(v) BY <1>5 DEF Slots
<1>7. Listed(u) BY <1>5, <1>6 DEF Listed
<1>9. Keeps(v, u) /\ Moves(v, u) BY <1>5, <1>6, <1>7, NearbyStep DEF Slots
<1> QED BY <1>5, <1>7, <1>9 DEF u

LEMMA ListGone ==
  ASSUME NEW v \in Shell, Known(v), Told(v), "list" \notin Slots(v),
         NEW foreground \in BOOLEAN
  PROVE  LET u == [v EXCEPT !.nearby.list = None, !.nearby.foreground = foreground] IN
         Keeps(v, u) /\ Listed(u)
<1> DEFINE n == [v.nearby EXCEPT !.list = None, !.foreground = foreground]
           u == [v EXCEPT !.nearby = n]
<1>1. v.nearby \in NearbyState BY Parts
<1>2. n \in NearbyState BY <1>1, NoneFits DEF NearbyState
<1>3. n.list = None /\ n.detail = v.nearby.detail BY <1>1 DEF NearbyState
<1>4. u = [v EXCEPT !.nearby.list = None, !.nearby.foreground = foreground] OBVIOUS
<1> HIDE DEF n
<1>5. Keeps(v, u) /\ Listed(u) BY <1>2, <1>3, ListAnswered
<1> QED BY <1>4, <1>5

LEMMA ListOver ==
  ASSUME NEW v \in Shell, Known(v), Told(v), "list" \notin Slots(v)
  PROVE  Keeps(v, listOver(v)) /\ Listed(listOver(v))
<1> DEFINE f == v.nearby.foreground /\ v.nearby.list.kind # "foreground"
           x == [v EXCEPT !.nearby.list = None, !.nearby.foreground = f]
<1>1. f \in BOOLEAN BY Parts DEF NearbyState
<1>2. [v EXCEPT !.nearby.list = None,
                !.nearby.foreground = @ /\ v.nearby.list.kind # "foreground"] = x
  BY Parts DEF Shell, NearbyState
<1> HIDE DEF f
<1>3. Keeps(v, x) /\ Listed(x) BY <1>1, ListGone
<1> HIDE DEF x
<1>4. Keeps(x, setSearchPending(x, FALSE)) BY <1>3, SearchSet DEF Keeps
<1>5. listOver(v) = setSearchPending(x, FALSE) BY <1>2 DEF listOver
<1> QED BY <1>3, <1>4, <1>5, KeepsTrans DEF Keeps, Within

LEMMA ListIgnored ==
  ASSUME NEW v \in Shell, Known(v), Told(v), "list" \notin Slots(v)
  PROVE  Keeps(v, listIgnored(v)) /\ Listed(listIgnored(v))
<1> DEFINE x == listOver(v)
<1>1. Keeps(v, x) /\ Listed(x) BY ListOver
<1> HIDE DEF x
<1>2. Keeps(x, finishChargeRefreshUnavailable(x)) BY <1>1, FinishUnavailable DEF Keeps
<1>3. listIgnored(v) = IF v.nearby.list.kind = "charge" THEN finishChargeRefreshUnavailable(x)
                       ELSE x
  BY DEF listIgnored, x
<1> QED BY <1>1, <1>2, <1>3, KeepsTrans DEF Keeps, Within

\* A list that a search asked for is shown as one of a new origin.
LEMMA ForegroundList ==
  ASSUME NEW v \in Shell, Known(v), Told(v), "list" \notin Slots(v), NEW has \in BOOLEAN
  PROVE  LET u == [invalidateNearbySelection(
                     nextSearch([[supersedeDetail(v) EXCEPT !.nearby.list = None]
                                   EXCEPT !.nearby.foreground = FALSE]))
                     EXCEPT !.nearby.origin = TRUE, !.nearby.known = has, !.nearby.shown = FALSE]
         IN  Keeps(v, u) /\ Listed(u)
<1> DEFINE d == supersedeDetail(v)
           x == [d EXCEPT !.nearby.list = None, !.nearby.foreground = FALSE]
           y == nextSearch(x)
           i == invalidateNearbySelection(y)
           u == [i EXCEPT !.nearby.origin = TRUE, !.nearby.known = has, !.nearby.shown = FALSE]
<1>1. Keeps(v, d) /\ "list" \notin Slots(d) BY DropDetail DEF Forgets
<1>2. [[d EXCEPT !.nearby.list = None] EXCEPT !.nearby.foreground = FALSE] = x
  <2> HIDE DEF d
  <2>1. d \in Shell /\ d.nearby \in NearbyState BY <1>1, Parts DEF Keeps
  <2> QED BY <2>1 DEF Shell, NearbyState
<1> HIDE DEF d
<1>3. Keeps(d, x) /\ Listed(x) BY <1>1, ListGone DEF Keeps
<1> HIDE DEF x
<1>4. Keeps(x, y) /\ Listed(y) BY <1>3, NextSearch DEF Keeps, Within
<1> HIDE DEF y
<1>5. Keeps(y, i) /\ Listed(i) BY <1>4, InvalidateNearby DEF Keeps, Within
<1> HIDE DEF i
<1>6. Keeps(i, u) /\ Listed(u)
  <2>1. i \in Shell /\ i.nearby \in NearbyState BY <1>5, Parts DEF Keeps
  <2> DEFINE n == [i.nearby EXCEPT !.origin = TRUE, !.known = has, !.shown = FALSE]
  <2>2. n \in NearbyState BY <2>1 DEF NearbyState
  <2>3. n.list = i.nearby.list /\ n.detail = i.nearby.detail BY <2>1 DEF NearbyState
  <2>5. u = [i EXCEPT !.nearby = n] OBVIOUS
  <2> HIDE DEF n, u
  <2>4. Keeps(i, u) BY <1>5, <2>2, <2>3, <2>5, NearbySet DEF Keeps
  <2> QED BY <1>5, <2>4 DEF Keeps, Within
<1> HIDE DEF u
<1>7. Keeps(v, u) /\ Listed(u) BY <1>1, <1>3, <1>4, <1>5, <1>6, KeepsTrans
<1> QED BY <1>2, <1>7 DEF d, x, y, i, u

LEMMA ApplyStations ==
  ASSUME NEW v \in Shell, Known(v), Told(v), "list" \notin Slots(v), NEW has \in BOOLEAN
  PROVE  Keeps(v, applyStations(v, has)) /\ Listed(applyStations(v, has))
<1> DEFINE kind == v.nearby.list.kind
           u == applyStations(v, has)
<1> SUFFICES Keeps(v, u) /\ Listed(u) OBVIOUS
<1>1. CASE kind = "foreground"
  <2>1. u = [invalidateNearbySelection(
               nextSearch([[supersedeDetail(v) EXCEPT !.nearby.list = None]
                             EXCEPT !.nearby.foreground = FALSE]))
               EXCEPT !.nearby.origin = TRUE, !.nearby.known = has, !.nearby.shown = FALSE]
    BY <1>1 DEF applyStations
  <2> HIDE DEF u
  <2> QED BY <2>1, ForegroundList
<1>2. CASE kind # "foreground"
  <2> DEFINE n == [v.nearby EXCEPT !.list = None, !.known = has]
             x == [v EXCEPT !.nearby = n]
             s == [v.nearby.refresh EXCEPT !.listApplied = TRUE]
             p == [n EXCEPT !.refresh = s]
             y == [x EXCEPT !.nearby = p]
             i == invalidateNearbySelection(x)
             z == [i EXCEPT !.nearby.shown = FALSE]
  <2>1. [[v EXCEPT !.nearby.list = None] EXCEPT !.nearby.known = has] = x
    BY Parts DEF Shell, NearbyState
  <2>2. [x EXCEPT !.nearby.refresh.listApplied = TRUE] = y
    BY Parts DEF Shell, NearbyState
  <2>3. u = IF kind # "charge" \/ v.nearby.refresh = None THEN x
            ELSE IF has THEN finishChargeRefreshIfReady(y)
            ELSE finishChargeRefreshUnavailable(z)
    <3> DEFINE A == [[v EXCEPT !.nearby.list = None] EXCEPT !.nearby.known = has]
               B == [A EXCEPT !.nearby.refresh.listApplied = TRUE]
               C == [invalidateNearbySelection(A) EXCEPT !.nearby.shown = FALSE]
    <3>1. u = IF kind # "charge" \/ v.nearby.refresh = None THEN A
              ELSE IF has THEN finishChargeRefreshIfReady(B)
              ELSE finishChargeRefreshUnavailable(C)
      BY <1>2 DEF applyStations
    <3> HIDE DEF u
    <3>2. A = x BY <2>1
    <3> HIDE DEF A, x
    <3>3. B = y BY <2>2, <3>2
    <3>4. C = z BY <3>2
    <3> HIDE DEF B, C, y, z
    <3> QED BY <3>1, <3>2, <3>3, <3>4
  <2>4. v.nearby \in NearbyState BY Parts
  <2>5. n \in NearbyState /\ n.list = None /\ n.detail = v.nearby.detail
    <3>1. n \in NearbyState BY <2>4, NoneFits DEF NearbyState
    <3> QED BY <2>4, <3>1 DEF NearbyState
  <2> HIDE DEF n, u
  <2>6. Keeps(v, x) /\ Listed(x) /\ x.nearby = n BY <2>5, ListAnswered
  <2> HIDE DEF x
  <2>7. CASE kind # "charge" \/ v.nearby.refresh = None
    BY <2>3, <2>6, <2>7
  <2>8. CASE kind = "charge" /\ v.nearby.refresh # None /\ has
    <3>1. s \in Maybe(Refresh)
      <4>1. v.nearby.refresh \in Refresh BY <2>4, <2>8 DEF NearbyState, Maybe
      <4> QED BY <4>1 DEF Refresh, Maybe
    <3> HIDE DEF s
    <3>2. p \in NearbyState BY <2>5, <3>1 DEF NearbyState
    <3>3. p.list = n.list /\ p.detail = n.detail BY <2>5 DEF NearbyState
    <3> HIDE DEF p
    <3>4. Keeps(x, y) BY <2>6, <3>2, <3>3, NearbySet DEF Keeps
    <3> HIDE DEF y
    <3>5. Keeps(y, finishChargeRefreshIfReady(y)) BY <3>4, FinishIfReady DEF Keeps
    <3>6. u = finishChargeRefreshIfReady(y) BY <2>3, <2>8
    <3>7. Keeps(v, u) BY <2>6, <3>4, <3>5, <3>6, KeepsTrans
    <3> QED BY <2>6, <3>4, <3>5, <3>6, <3>7 DEF Keeps, Within
  <2>9. CASE kind = "charge" /\ v.nearby.refresh # None /\ ~has
    <3>1. Keeps(x, i) BY <2>6, InvalidateNearby DEF Keeps
    <3> DEFINE q == [i.nearby EXCEPT !.shown = FALSE]
    <3>2. i.nearby \in NearbyState BY <3>1, Parts DEF Keeps
    <3>3. q \in NearbyState BY <3>2 DEF NearbyState
    <3>4. q.list = i.nearby.list /\ q.detail = i.nearby.detail BY <3>2 DEF NearbyState
    <3>5. z = [i EXCEPT !.nearby = q] OBVIOUS
    <3> HIDE DEF i, q, z
    <3>6. Keeps(i, z) BY <3>1, <3>3, <3>4, <3>5, NearbySet DEF Keeps
    <3>7. Keeps(z, finishChargeRefreshUnavailable(z)) BY <3>6, FinishUnavailable DEF Keeps
    <3>8. u = finishChargeRefreshUnavailable(z) BY <2>3, <2>9
    <3>9. Keeps(v, u) BY <2>6, <3>1, <3>6, <3>7, <3>8, KeepsTrans
    <3> QED BY <2>6, <3>1, <3>6, <3>7, <3>8, <3>9 DEF Keeps, Within
  <2> QED BY <2>7, <2>8, <2>9
<1> QED BY <1>1, <1>2

LEMMA StationsLoaded ==
  ASSUME NEW v \in Shell, Known(v), Told(v), "list" \notin Slots(v), NEW has \in BOOLEAN
  PROVE  Keeps(v, nearbyStationsLoaded(v, has)) /\ Listed(nearbyStationsLoaded(v, has))
<1> DEFINE x == applyStations(v, has)
           y == setSearchPending(x, FALSE)
           z == setDetailControlsEnabled(y, TRUE)
<1>1. Keeps(v, x) /\ Listed(x) BY ApplyStations
<1> HIDE DEF x
<1>2. Keeps(x, y) BY <1>1, SearchSet DEF Keeps
<1> HIDE DEF y
<1>3. Keeps(y, z) BY <1>2, Controls DEF Keeps
<1> HIDE DEF z
<1>4. Keeps(v, z) /\ Listed(z) BY <1>1, <1>2, <1>3, KeepsTrans DEF Keeps, Within
<1> QED BY <1>4, ListIgnored DEF nearbyStationsLoaded, x, y, z

LEMMA StationsFailed ==
  ASSUME NEW v \in Shell, Known(v), Told(v), "list" \notin Slots(v)
  PROVE  Keeps(v, nearbyStationsFailed(v)) /\ Listed(nearbyStationsFailed(v))
<1> DEFINE x == listOver(v)
           y == setDetailControlsEnabled(x, TRUE)
           i == listIgnored(v)
           f == v.nearby.foreground
           n == [i.nearby EXCEPT !.foreground = f]
           z == [i EXCEPT !.nearby = n]
<1>1. Keeps(v, x) /\ Listed(x) BY ListOver
<1> HIDE DEF x
<1>2. Keeps(x, y) BY <1>1, Controls DEF Keeps
<1> HIDE DEF y
<1>3. Keeps(v, y) /\ Listed(y) BY <1>1, <1>2, KeepsTrans DEF Keeps, Within
<1>4. Keeps(y, finishChargeRefreshFailed(y)) BY <1>2, FinishFailed DEF Keeps
<1>5. Keeps(v, finishChargeRefreshFailed(y)) /\ Listed(finishChargeRefreshFailed(y))
  BY <1>3, <1>4, KeepsTrans DEF Keeps, Within
<1>6. Keeps(v, i) /\ Listed(i) BY ListIgnored
<1>7. z = [i EXCEPT !.nearby.foreground = v.nearby.foreground] OBVIOUS
<1>8. f \in BOOLEAN BY Parts DEF NearbyState
<1> HIDE DEF i, f
<1>9. n \in NearbyState /\ n.list = i.nearby.list /\ n.detail = i.nearby.detail
  <2>1. i.nearby \in NearbyState BY <1>6, Parts DEF Keeps
  <2>2. n \in NearbyState BY <1>8, <2>1 DEF NearbyState
  <2> QED BY <2>1, <2>2 DEF NearbyState
<1> HIDE DEF n
<1>10. Keeps(i, z) BY <1>6, <1>9, NearbySet DEF Keeps
<1> HIDE DEF z
<1>11. Keeps(v, z) /\ Listed(z) BY <1>6, <1>10, KeepsTrans DEF Keeps, Within
<1> QED BY <1>3, <1>5, <1>7, <1>11 DEF nearbyStationsFailed, x, y, i

-----------------------------------------------------------------------------
(* The chargers of a station, the searches, the connection.                *)

LEMMA RequestDetail ==
  ASSUME NEW v \in Shell, Known(v), Told(v), NEW id \in DetailId
  PROVE  Keeps(v, requestStationDetail(v, id))
<1> DEFINE a == abandonChargeRefresh(v)
           i == invalidateNearbySelection(a)
           c == setDetailControlsEnabled(i, FALSE)
           d == [id |-> id, fits |-> TRUE]
           n == [c.nearby EXCEPT !.detail = d]
           x == [c EXCEPT !.nearby = n]
<1>1. Keeps(v, a) BY Abandon
<1>2. requestStationDetail(v, id) = sendDetail(x, id) BY DEF requestStationDetail
<1> HIDE DEF a
<1>3. Keeps(a, i) BY <1>1, InvalidateNearby DEF Keeps
<1> HIDE DEF i
<1>4. Keeps(i, c) BY <1>3, Controls DEF Keeps
<1> HIDE DEF c
<1>5. d \in Detail BY DEF Detail
<1> HIDE DEF d
<1>6. d \in Maybe(Detail) BY <1>5 DEF Maybe
<1>7. n \in NearbyState /\ n.list = c.nearby.list
  <2>1. c.nearby \in NearbyState BY <1>4, Parts DEF Keeps
  <2>2. n \in NearbyState BY <1>6, <2>1 DEF NearbyState
  <2> QED BY <2>1, <2>2 DEF NearbyState
<1> HIDE DEF n
<1>8. Keeps(c, x) BY <1>4, <1>7, NearbySet DEF Keeps
<1> HIDE DEF x
<1>9. Keeps(x, sendDetail(x, id)) BY <1>8, SendDetail, DetailsKeep DEF Keeps
<1> QED BY <1>1, <1>2, <1>3, <1>4, <1>8, <1>9, KeepsTrans

\* The page takes note of an answer.
LEMMA DetailGone ==
  ASSUME NEW v \in Shell, Known(v), Told(v), NEW id
  PROVE  /\ Keeps(v, [v EXCEPT !.nearby.detail = None])
         /\ Keeps(v, [v EXCEPT !.nearby.superseded = @ \ {id}])
<1> DEFINE n == [v.nearby EXCEPT !.detail = None]
           s == v.nearby.superseded \ {id}
           m == [v.nearby EXCEPT !.superseded = s]
<1>1. v.nearby \in NearbyState BY Parts
<1>2. s \in SUBSET DetailId BY <1>1 DEF NearbyState
<1>3. [v EXCEPT !.nearby = m] = [v EXCEPT !.nearby.superseded = @ \ {id}] OBVIOUS
<1> HIDE DEF s
<1>4. n \in NearbyState /\ m \in NearbyState BY <1>1, <1>2, NoneFits DEF NearbyState
<1>5. n.list = v.nearby.list /\ m.list = v.nearby.list BY <1>1 DEF NearbyState
<1>6. [v EXCEPT !.nearby = n] = [v EXCEPT !.nearby.detail = None] OBVIOUS
<1> HIDE DEF n, m
<1>7. Keeps(v, [v EXCEPT !.nearby = n]) /\ Keeps(v, [v EXCEPT !.nearby = m])
  BY <1>4, <1>5, NearbySet
<1> QED BY <1>3, <1>6, <1>7

LEMMA DetailLoaded ==
  ASSUME NEW v \in Shell, Known(v), Told(v), NEW id
  PROVE  Keeps(v, stationDetailLoaded(v, id)) /\ Keeps(v, stationDetailFailed(v, id))
<1> DEFINE g == [v EXCEPT !.nearby.detail = None]
           s == [v EXCEPT !.nearby.superseded = @ \ {id}]
           a == abandonChargeRefresh(g)
           i == invalidateNearbySelection(a)
           n == [i.nearby EXCEPT !.shown = TRUE]
           x == [i EXCEPT !.nearby = n]
           c == setDetailControlsEnabled(x, TRUE)
<1>1. Keeps(v, g) /\ Keeps(v, s) BY DetailGone
<1>2. x = [i EXCEPT !.nearby.shown = TRUE] OBVIOUS
<1>11. stationDetailFailed(v, id) =
         IF ~detailFits(v, id) THEN s ELSE setDetailControlsEnabled(g, TRUE)
  BY DEF stationDetailFailed
<1>12. stationDetailLoaded(v, id) = IF ~detailFits(v, id) THEN s ELSE c
  BY <1>2 DEF stationDetailLoaded
<1> HIDE DEF g, s
<1>3. Keeps(g, a) BY <1>1, Abandon DEF Keeps
<1> HIDE DEF a
<1>4. Keeps(a, i) BY <1>3, InvalidateNearby DEF Keeps
<1> HIDE DEF i
<1>5. n \in NearbyState /\ n.list = i.nearby.list
  <2>1. i.nearby \in NearbyState BY <1>4, Parts DEF Keeps
  <2>2. n \in NearbyState BY <2>1 DEF NearbyState
  <2> QED BY <2>1, <2>2 DEF NearbyState
<1> HIDE DEF n
<1>6. Keeps(i, x) BY <1>4, <1>5, NearbySet DEF Keeps
<1> HIDE DEF x
<1>7. Keeps(x, c) BY <1>6, Controls DEF Keeps
<1>8. Keeps(v, c) BY <1>1, <1>3, <1>4, <1>6, <1>7, KeepsTrans
<1>9. Keeps(g, setDetailControlsEnabled(g, TRUE)) BY <1>1, Controls DEF Keeps
<1>10. Keeps(v, setDetailControlsEnabled(g, TRUE)) BY <1>1, <1>9, KeepsTrans
<1> HIDE DEF c
<1> QED BY <1>1, <1>8, <1>10, <1>11, <1>12

\* The searches: only the marks of the page are set between known steps.
LEMMA Flagged ==
  ASSUME NEW v \in Shell, Known(v), Told(v), NEW f \in BOOLEAN, NEW g \in BOOLEAN
  PROVE  LET u == [v EXCEPT !.nearby.geocode = g, !.nearby.foreground = f] IN
         /\ Keeps(v, u) /\ u.charge = v.charge /\ u.main = v.main /\ u.api = v.api
<1> DEFINE n == [v.nearby EXCEPT !.geocode = g, !.foreground = f]
           u == [v EXCEPT !.nearby = n]
<1>1. v.nearby \in NearbyState BY Parts
<1>2. n \in NearbyState BY <1>1 DEF NearbyState
<1>3. n.list = v.nearby.list /\ n.detail = v.nearby.detail BY <1>1 DEF NearbyState
<1>4. u = [v EXCEPT !.nearby.geocode = g, !.nearby.foreground = f] OBVIOUS
<1> HIDE DEF n
<1>5. Keeps(v, u) /\ u.charge = v.charge /\ u.main = v.main /\ u.api = v.api
  BY <1>2, <1>3, NearbySet
<1> HIDE DEF u
<1> QED BY <1>4, <1>5

LEMMA FlaggedOne ==
  ASSUME NEW v \in Shell, Known(v), Told(v), NEW f \in BOOLEAN
  PROVE  /\ Keeps(v, [v EXCEPT !.nearby.geocode = f])
         /\ Keeps(v, [v EXCEPT !.nearby.foreground = f])
<1>1. v.nearby \in NearbyState BY Parts
<1> DEFINE n == [v.nearby EXCEPT !.geocode = f]
           m == [v.nearby EXCEPT !.foreground = f]
<1>2. n \in NearbyState /\ m \in NearbyState BY <1>1 DEF NearbyState
<1>3. /\ n.list = v.nearby.list /\ n.detail = v.nearby.detail
      /\ m.list = v.nearby.list /\ m.detail = v.nearby.detail
  BY <1>1 DEF NearbyState
<1>4. /\ [v EXCEPT !.nearby = n] = [v EXCEPT !.nearby.geocode = f]
      /\ [v EXCEPT !.nearby = m] = [v EXCEPT !.nearby.foreground = f]
  OBVIOUS
<1> HIDE DEF n, m
<1>5. Keeps(v, [v EXCEPT !.nearby = n]) /\ Keeps(v, [v EXCEPT !.nearby = m])
  BY <1>2, <1>3, NearbySet
<1> QED BY <1>4, <1>5

LEMMA SearchAddress ==
  ASSUME NEW v \in Shell, Known(v), Told(v)
  PROVE  Keeps(v, searchCurrentAddress(v))
<1> DEFINE a == nextSearch(v)
           b == [a EXCEPT !.nearby.foreground = TRUE]
           c == setSearchPending(b, TRUE)
           d == setDetailControlsEnabled(c, FALSE)
           e == abandonChargeRefresh(d)
           f == cancelPendingStationList(e)
           g == cancelDetail(f)
           h == [g EXCEPT !.nearby.geocode = TRUE]
<1>0. searchCurrentAddress(v) = h BY DEF searchCurrentAddress
<1>1. Keeps(v, a) BY NextSearch
<1> HIDE DEF a
<1>2. Keeps(a, b) BY <1>1, FlaggedOne DEF Keeps
<1> HIDE DEF b
<1>3. Keeps(b, c) BY <1>2, SearchSet DEF Keeps
<1> HIDE DEF c
<1>4. Keeps(c, d) BY <1>3, Controls DEF Keeps
<1> HIDE DEF d
<1>5. Keeps(d, e) BY <1>4, Abandon DEF Keeps
<1> HIDE DEF e
<1>6. Keeps(e, f) BY <1>5, GiveUpList DEF Keeps
<1> HIDE DEF f
<1>7. Keeps(f, g) BY <1>6, DropDetail DEF Keeps, Forgets
<1> HIDE DEF g
<1>8. Keeps(g, h) BY <1>7, FlaggedOne DEF Keeps
<1> HIDE DEF h
<1>9. Keeps(v, d) BY <1>1, <1>2, <1>3, <1>4, KeepsTrans
<1>10. Keeps(d, h) BY <1>5, <1>6, <1>7, <1>8, KeepsTrans
<1> QED BY <1>0, <1>9, <1>10, KeepsTrans

LEMMA GeocodeOver ==
  ASSUME NEW v \in Shell, Known(v), Told(v)
  PROVE  Keeps(v, geocodeSucceeded(v)) /\ Keeps(v, geocodeFailed(v))
<1>1. Keeps(v, geocodeSucceeded(v))
  <2> DEFINE a == [v EXCEPT !.nearby.geocode = FALSE, !.nearby.foreground = TRUE]
             b == abandonChargeRefresh(a)
             c == cancelPendingStationList(b)
             d == supersedeDetail(c)
             e == setDetailControlsEnabled(d, FALSE)
             f == requestNearbyStations(e, "foreground", 0)
  <2>0. geocodeSucceeded(v) = f BY DEF geocodeSucceeded
  <2>1. Keeps(v, a) BY Flagged
  <2> HIDE DEF a
  <2>2. Keeps(a, b) BY <2>1, Abandon DEF Keeps
  <2> HIDE DEF b
  <2>3. Keeps(b, c) BY <2>2, GiveUpList DEF Keeps
  <2> HIDE DEF c
  <2>4. Keeps(c, d) BY <2>3, DropDetail DEF Keeps, Forgets
  <2> HIDE DEF d
  <2>5. Keeps(d, e) BY <2>4, Controls DEF Keeps
  <2> HIDE DEF e
  <2>6. Keeps(e, f) BY <2>5, Small, RequestStations DEF Keeps
  <2> HIDE DEF f
  <2>7. Keeps(v, c) BY <2>1, <2>2, <2>3, KeepsTrans
  <2>8. Keeps(c, f) BY <2>4, <2>5, <2>6, KeepsTrans
  <2> QED BY <2>0, <2>7, <2>8, KeepsTrans
<1>2. Keeps(v, geocodeFailed(v))
  <2> DEFINE a == [v EXCEPT !.nearby.geocode = FALSE, !.nearby.foreground = FALSE]
             b == setSearchPending(a, FALSE)
             p == v.api.up
             c == setDetailControlsEnabled(b, p)
  <2>0. geocodeFailed(v) = c BY DEF geocodeFailed
  <2>1. Keeps(v, a) BY Flagged
  <2> HIDE DEF a
  <2>2. Keeps(a, b) BY <2>1, SearchSet DEF Keeps
  <2> HIDE DEF b
  <2>3. p \in BOOLEAN BY Parts DEF ApiState
  <2> HIDE DEF p
  <2>4. Keeps(b, c) BY <2>2, <2>3, Controls DEF Keeps
  <2> HIDE DEF c
  <2> QED BY <2>0, <2>1, <2>2, <2>4, KeepsTrans
<1> QED BY <1>1, <1>2

LEMMA ReconnectStations ==
  ASSUME NEW v \in Shell, Known(v), Told(v)
  PROVE  Keeps(v, requestReconnectStations(v))
<1> DEFINE a == cancelPendingStationList(v)
           b == nextSearch(a)
           l == [kind |-> "reconnect", fresh |-> TRUE, fits |-> TRUE]
           n == [b.nearby EXCEPT !.list = l]
           x == [b EXCEPT !.nearby = n]
<1>1. CASE ~v.api.up \/ ~v.nearby.origin \/ v.nearby.refresh # None \/ v.nearby.foreground
  BY <1>1, KeepsSelf DEF requestReconnectStations
<1>2. CASE ~(~v.api.up \/ ~v.nearby.origin \/ v.nearby.refresh # None \/ v.nearby.foreground)
  <2>1. requestReconnectStations(v) = send(x, "list")
    BY <1>2 DEF requestReconnectStations
  <2>2. Keeps(v, a) BY GiveUpList
  <2> HIDE DEF a
  <2>3. Keeps(a, b) BY <2>2, NextSearch DEF Keeps
  <2> HIDE DEF b
  <2>4. b.nearby \in NearbyState /\ b \in Shell /\ Known(b) /\ Told(b)
    BY <2>3, Parts DEF Keeps
  <2>5. l \in StationList BY DEF StationList
  <2> HIDE DEF l
  <2>6. l \in Maybe(StationList) /\ l # None
    BY <2>5, NoneAssumption DEF Maybe, NoneAssumption
  <2>7. n \in NearbyState BY <2>4, <2>6 DEF NearbyState
  <2>8. n.list = l /\ n.detail = b.nearby.detail BY <2>4 DEF NearbyState
  <2> HIDE DEF n
  <2>9. /\ x \in Shell /\ x.charge = b.charge /\ x.main = b.main /\ x.api = b.api
        /\ x.nearby = n /\ x.history = b.history
    BY <2>4, <2>7 DEF Shell
  <2> HIDE DEF x
  <2>10. Slots(x) = Slots(b) BY <2>9 DEF Slots
  <2>12. Lightly(b, x) BY <2>4, <2>9, <2>10, NearbyStep DEF Slots
  <2>13. Lightly(x, send(x, "list")) /\ Listed(send(x, "list"))
    BY <2>6, <2>8, <2>9, <2>12, SendPending DEF Lightly
  <2>14. Lightly(v, x) BY <2>2, <2>3, <2>12, LightlyTrans, LightlyListed
  <2>15. Lightly(v, send(x, "list")) BY <2>13, <2>14, LightlyTrans
  <2> QED BY <2>1, <2>13, <2>15, LightlyListed
<1> QED BY <1>1, <1>2

LEMMA NearbyConnection ==
  ASSUME NEW v \in Shell, Known(v), Told(v)
  PROVE  LET u == NearbyConnectionChanged(v) IN Keeps(v, u) /\ u.charge = v.charge
<1>1. CASE v.api.up
  <2> DEFINE p == v.nearby.foreground \/ v.nearby.geocode \/ v.nearby.list # None
             q == v.nearby.controls \/ (v.nearby.list = None /\ ~v.nearby.foreground)
             a == setSearchPending(v, p)
             b == setDetailControlsEnabled(a, q)
  <2>0. NearbyConnectionChanged(v) = b BY <1>1 DEF NearbyConnectionChanged
  <2>1. p \in BOOLEAN /\ q \in BOOLEAN BY Parts DEF NearbyState
  <2> HIDE DEF p, q
  <2>2. Keeps(v, a) /\ a.charge = v.charge BY <2>1, SearchSet
  <2> HIDE DEF a
  <2>3. Keeps(a, b) /\ b.charge = a.charge BY <2>1, <2>2, Controls DEF Keeps
  <2> HIDE DEF b
  <2> QED BY <2>0, <2>2, <2>3, KeepsTrans
<1>2. CASE ~v.api.up
  <2> DEFINE a == [v EXCEPT !.nearby.geocode = FALSE, !.nearby.foreground = FALSE]
             b == cancelChargeRefresh(a)
             c == cancelPendingStationList(b)
             d == cancelEveryDetail(c)
             e == setDetailControlsEnabled(d, TRUE)
             f == setSearchPending(e, FALSE)
  <2>0. NearbyConnectionChanged(v) = f BY <1>2 DEF NearbyConnectionChanged
  <2>1. Keeps(v, a) /\ a.charge = v.charge BY Flagged
  <2> HIDE DEF a
  <2>2. Keeps(a, b) /\ b.charge = a.charge BY <2>1, GiveUpRefresh DEF Keeps
  <2> HIDE DEF b
  <2>3. Keeps(b, c) /\ c.charge = b.charge BY <2>2, GiveUpList DEF Keeps
  <2> HIDE DEF c
  <2>4. Keeps(c, d) /\ d.charge = c.charge BY <2>3, DropDetail DEF Keeps, Forgets
  <2> HIDE DEF d
  <2>5. Keeps(d, e) /\ e.charge = d.charge BY <2>4, Controls DEF Keeps
  <2> HIDE DEF e
  <2>6. Keeps(e, f) /\ f.charge = e.charge BY <2>5, SearchSet DEF Keeps
  <2> HIDE DEF f
  <2>7. Keeps(v, c) BY <2>1, <2>2, <2>3, KeepsTrans
  <2>8. Keeps(c, f) BY <2>4, <2>5, <2>6, KeepsTrans
  <2>9. f.charge = v.charge BY <2>1, <2>2, <2>3, <2>4, <2>5, <2>6
  <2> QED BY <2>0, <2>7, <2>8, <2>9, KeepsTrans
<1> QED BY <1>1, <1>2

LEMMA ResetNearby ==
  ASSUME NEW v \in Shell, Known(v), Told(v)
  PROVE  Keeps(v, resetNearbyPage(v)) /\ Listed(resetNearbyPage(v))
<1> DEFINE a == [v EXCEPT !.nearby.geocode = FALSE, !.nearby.foreground = FALSE]
           b == cancelChargeRefresh(a)
           c == cancelPendingStationList(b)
           d == cancelDetail(c)
           e == nextSearch(d)
           f == nextSelection(e)
           n == [f.nearby EXCEPT !.origin = FALSE, !.known = FALSE, !.shown = FALSE,
                                 !.superseded = {}]
           g == [f EXCEPT !.nearby = n]
           h == setSearchPending(g, FALSE)
           i == setDetailControlsEnabled(h, FALSE)
<1>0. resetNearbyPage(v) = i
  <2> DEFINE z == [f EXCEPT !.nearby.origin = FALSE, !.nearby.known = FALSE,
                            !.nearby.shown = FALSE, !.nearby.superseded = {}]
  <2>1. resetNearbyPage(v) = setDetailControlsEnabled(setSearchPending(z, FALSE), FALSE)
    BY Zenon DEF resetNearbyPage
  <2> HIDE DEF f
  <2>2. z = g OBVIOUS
  <2> HIDE DEF z, g
  <2> QED BY <2>1, <2>2
<1>1. Keeps(v, a) BY Flagged
<1> HIDE DEF a
<1>2. Keeps(a, b) BY <1>1, GiveUpRefresh DEF Keeps
<1> HIDE DEF b
<1>3. Keeps(b, c) /\ Listed(c) BY <1>2, GiveUpList DEF Keeps
<1> HIDE DEF c
<1>4. Keeps(c, d) BY <1>3, DropDetail DEF Keeps, Forgets
<1> HIDE DEF d
<1>5. Keeps(d, e) BY <1>4, NextSearch DEF Keeps
<1> HIDE DEF e
<1>6. Keeps(e, f) BY <1>5, NextSelection DEF Keeps
<1> HIDE DEF f
<1>7. n \in NearbyState /\ n.list = f.nearby.list /\ n.detail = f.nearby.detail
  <2>1. f.nearby \in NearbyState BY <1>6, Parts DEF Keeps
  <2>2. n \in NearbyState BY <2>1 DEF NearbyState
  <2> QED BY <2>1, <2>2 DEF NearbyState
<1> HIDE DEF n
<1>8. Keeps(f, g) BY <1>6, <1>7, NearbySet DEF Keeps
<1> HIDE DEF g
<1>9. Keeps(g, h) BY <1>8, SearchSet DEF Keeps
<1> HIDE DEF h
<1>10. Keeps(h, i) BY <1>9, Controls DEF Keeps
<1> HIDE DEF i
<1>11. Keeps(v, c) BY <1>1, <1>2, <1>3, KeepsTrans
<1>12. Keeps(c, f) BY <1>4, <1>5, <1>6, KeepsTrans
<1>13. Keeps(f, i) BY <1>8, <1>9, <1>10, KeepsTrans
<1>14. Keeps(c, i) BY <1>12, <1>13, KeepsTrans
<1> QED BY <1>0, <1>3, <1>11, <1>14, KeepsTrans DEF Keeps, Within

-----------------------------------------------------------------------------
(* The reads that the page of an order sends.                              *)

LEMMA OrderStep ==
  ASSUME NEW v \in Shell, Known(v), Told(v), NEW u \in Shell,
         u.nearby = v.nearby, u.history = v.history, SameMain(u.main, v.main),
         u.api.up = v.api.up, u.api.user = v.api.user, u.api.ops = v.api.ops,
         \A s \in Read \ {"page", "facts"} : s \in Slots(u) <=> s \in Slots(v),
         \A s \in Slots(u) : \/ s \in Slots(v) /\ u.api.reads[s] = v.api.reads[s]
                             \/ u.api.reads[s] = Len(v.api.ops),
         u.charge.facts # None <=> "facts" \in Slots(u),
         u.charge.read # None <=> "page" \in Slots(u), Paged(u.charge),
         u.charge.active = v.charge.active, u.charge.order = v.charge.order,
         u.charge.mutation = v.charge.mutation,
         v.charge.selection = None => u.charge.selection = None, u.main.blocked = u.charge.reported,
         Withdrawn(v) => Withdrawn(u)
  PROVE  Moves(v, u)
<1>1. Known(u) /\ Told(u) BY DEF Known, Told, Read, CurrentRead
<1>2. Within(v, u) BY DEF Within, Frame, Listed, Read, CurrentRead, SameMain
<1> QED BY <1>1, <1>2 DEF Moves

LEMMA LoadOrder ==
  ASSUME NEW v \in Shell, Known(v), Told(v), v.charge.active,
         NEW op \in {"poll", "reconcile"},
         op = "reconcile" => /\ v.charge.facts = None /\ ~v.charge.exitFailed
                             /\ v.charge.exit => v.charge.attempt = 0
  PROVE  Keeps(v, loadCurrentOrder(v, op)) /\ Moves(v, loadCurrentOrder(v, op))
<1> DEFINE x == send(v, "page")
           g == v.charge.selGen
           o == orderId(v.charge.order)
           r == [op |-> op, selGen |-> g, owner |-> o]
           c == [v.charge EXCEPT !.read = r]
           u == [x EXCEPT !.charge = c]
<1>1. /\ x \in Shell
      /\ x.charge = v.charge /\ x.nearby = v.nearby /\ x.history = v.history
      /\ x.main = v.main /\ x.api.up = v.api.up /\ x.api.user = v.api.user
      /\ x.api.ops = v.api.ops /\ Slots(x) = Slots(v) \cup {"page"}
      /\ x.api.reads["page"] = Len(v.api.ops)
      /\ \A s \in Slots(v) \ {"page"} : x.api.reads[s] = v.api.reads[s]
  BY SendRead DEF Read, CurrentRead
<1>2. loadCurrentOrder(v, op) = u
  <2> HIDE DEF x, r
  <2>1. [x EXCEPT !.charge.read = r] = u BY <1>1 DEF Shell
  <2> HIDE DEF u
  <2> QED BY <2>1 DEF loadCurrentOrder, x, r, g, o
<1> HIDE DEF x
<1>a. v.charge \in ChargeState /\ Paged(v.charge) BY Parts DEF Known
<1>3. g \in 0..1 /\ o \in 0..MaxOrder
  <2>1. v.charge.order \in Maybe(Order) BY <1>a DEF ChargeState
  <2>2. 0 \in 0..MaxOrder /\ \A y \in Order : y.id \in 0..MaxOrder
    BY BoundAssumption DEF Order, BoundAssumption
  <2> QED BY <1>a, <2>1, <2>2 DEF ChargeState, Maybe, orderId
<1> HIDE DEF g, o
<1>4. r \in PageRead BY <1>3 DEF PageRead
<1>5. r.op = op /\ r.selGen = g OBVIOUS
<1> HIDE DEF r
<1>6. r # None /\ r \in Maybe(PageRead) BY <1>4, NoneAssumption DEF NoneAssumption, Maybe
<1>7. c \in ChargeState /\ c.read = r /\ c.buttons = v.charge.buttons
  BY <1>a, <1>6 DEF ChargeState
<1>8. /\ c.active = v.charge.active /\ c.order = v.charge.order /\ c.mutation = v.charge.mutation
      /\ c.facts = v.charge.facts /\ c.selGen = g /\ c.exit = v.charge.exit
      /\ c.selection = v.charge.selection /\ c.reported = v.charge.reported
      /\ c.reconcile = v.charge.reconcile /\ c.factsFailed = v.charge.factsFailed
      /\ c.gate = v.charge.gate /\ c.associated = v.charge.associated
      /\ c.noOrder = v.charge.noOrder /\ c.exitFailed = v.charge.exitFailed
      /\ c.attempt = v.charge.attempt
  BY <1>a DEF ChargeState, g
<1> HIDE DEF c
<1>9. /\ u \in Shell /\ u.charge = c /\ u.nearby = v.nearby /\ u.history = v.history
      /\ u.main = v.main /\ u.api = x.api
  BY <1>1, <1>7 DEF Shell
<1> HIDE DEF u
<1>10. Paged(u.charge)
  <2>1. c.facts # None => c.facts.fits /\ c.active BY <1>a, <1>8 DEF Paged
  <2>2. c.active /\ c.read.selGen = c.selGen BY <1>5, <1>7, <1>8
  <2>3. c.read.op = "reconcile" =>
          c.facts = None /\ ~c.exitFailed /\ (c.exit => c.attempt = 0)
    BY <1>5, <1>7, <1>8
  <2>6. c.exitFailed => c.facts = None BY <1>a, <1>8 DEF Paged
  <2>4. c.order # None \/ c.exit => c.selGen = 0
    BY <1>a, <1>8 DEF Paged, g
  <2>5. Paged(c) BY <2>1, <2>2, <2>3, <2>4, <2>6 DEF Paged
  <2> QED BY <1>9, <2>5
<1>11. Moves(v, u)
  <2>1. Slots(u) = Slots(v) \cup {"page"} BY <1>1, <1>9 DEF Slots
  <2>2. SameMain(u.main, v.main) BY <1>9 DEF SameMain
  <2>3. u.main.blocked = u.charge.reported BY <1>8, <1>9 DEF Told
  <2>4. Withdrawn(v) => Withdrawn(u) BY <1>8, <1>9 DEF Withdrawn
  <2>5. \A s \in Read \ {"page", "facts"} : s \in Slots(u) <=> s \in Slots(v) BY <2>1
  <2>6. \A s \in Slots(u) : \/ s \in Slots(v) /\ u.api.reads[s] = v.api.reads[s]
                            \/ u.api.reads[s] = Len(v.api.ops)
    BY <1>1, <1>9, <2>1
  <2>7. /\ u.charge.facts # None <=> "facts" \in Slots(u)
        /\ u.charge.read # None <=> "page" \in Slots(u)
    BY <1>6, <1>7, <1>8, <1>9, <2>1 DEF Known
  <2>8. /\ u.charge.active = v.charge.active /\ u.charge.order = v.charge.order
        /\ u.charge.mutation = v.charge.mutation /\ u.nearby = v.nearby
        /\ u.charge.selection = v.charge.selection
        /\ u.history = v.history /\ u.api.up = v.api.up /\ u.api.user = v.api.user
        /\ u.api.ops = v.api.ops /\ u \in Shell
    BY <1>1, <1>8, <1>9
  <2> QED BY <1>10, <2>2, <2>3, <2>4, <2>5, <2>6, <2>7, <2>8, OrderStep
<1>12. chargeFlowBlocked(u.charge) = chargeFlowBlocked(v.charge)
  BY <1>8, <1>9 DEF chargeFlowBlocked
<1>13. Usable(u) = Usable(v)
  <2>1. Offers(u.charge) = Offers(v.charge) BY <1>8, <1>9 DEF Offers
  <2>2. Leaves(u.charge) = Leaves(v.charge) BY <1>8, <1>9 DEF Leaves
  <2> QED BY <1>1, <1>8, <1>9, <1>12, <2>1, <2>2 DEF Usable
<1>14. /\ Reported(v) => Reported(u)
       /\ Heard(v) => Heard(u)
       /\ Rendered(v) => Rendered(u)
  BY <1>7, <1>8, <1>9, <1>12, <1>13 DEF Reported, Heard, Rendered
<1> QED BY <1>2, <1>11, <1>14 DEF Moves, Keeps

LEMMA RequestPoll ==
  ASSUME NEW v \in Shell, Known(v), Told(v)
  PROVE  Keeps(v, requestPoll(v))
BY LoadOrder, KeepsSelf DEF requestPoll

LEMMA RequestReconciliation ==
  ASSUME NEW v \in Shell, Known(v), Told(v)
  PROVE  Keeps(v, requestReconciliation(v))
<1> DEFINE c == [v.charge EXCEPT !.polling = FALSE, !.reconcile = TRUE,
                                 !.factsFailed = FALSE, !.exitFailed = FALSE]
           x == [v EXCEPT !.charge = c, !.main = v.main]
           y == cancelOwnedSafeReads(x)
           z == loadCurrentOrder(y, "reconcile")
           u == requestReconciliation(v)
<1>1. CASE ~v.api.up \/ ~v.charge.active \/ v.charge.read # None \/ v.charge.mutation # None
  BY <1>1, KeepsSelf DEF requestReconciliation
<1>2. CASE ~(~v.api.up \/ ~v.charge.active \/ v.charge.read # None \/ v.charge.mutation # None)
  <2>1. x = [v EXCEPT !.charge.polling = FALSE, !.charge.reconcile = TRUE,
                      !.charge.factsFailed = FALSE, !.charge.exitFailed = FALSE]
    BY DEF Shell
  <2>2. u = Shown(z)
    <3> HIDE DEF x
    <3> QED BY <1>2, <2>1 DEF requestReconciliation
  <2>a. /\ v.charge \in ChargeState /\ v.main \in MainState /\ Paged(v.charge)
        /\ v.main.blocked = v.charge.reported
    BY Parts DEF Known, Told
  <2>3. c \in ChargeState BY <2>a DEF ChargeState
  <2>4. /\ c.active = v.charge.active /\ c.order = v.charge.order
        /\ c.mutation = v.charge.mutation /\ c.facts = v.charge.facts /\ c.read = v.charge.read
        /\ c.selection = v.charge.selection /\ c.reported = v.charge.reported
        /\ c.selGen = v.charge.selGen /\ c.exit = v.charge.exit /\ ~c.exitFailed
        /\ c.attempt = v.charge.attempt
    BY <2>a DEF ChargeState
  <2> HIDE DEF c
  <2>5. Moves(v, x) /\ x.charge = c
    <3>1. SameMain(v.main, v.main) BY DEF SameMain
    <3>2. Paged(c) BY <2>a, <2>4, PagedSame
    <3>3. x.charge = c BY DEF Shell
    <3> QED BY <2>a, <2>3, <2>4, <3>1, <3>2, <3>3, ChargeAlone DEF Withdrawn
  <2> HIDE DEF x
  <2>6. /\ Moves(x, y) /\ y.charge.active /\ y.charge.facts = None
        /\ ~y.charge.exitFailed /\ (y.charge.exit => y.charge.attempt = 0)
    <3>1. x.charge \in ChargeState BY <2>5, Parts DEF Moves
    <3>2. /\ Moves(x, y)
          /\ y.charge = [x.charge EXCEPT
                          !.read = None, !.facts = None, !.gate = FALSE,
                          !.attempt = IF x.charge.exit THEN 0 ELSE @, !.current = TRUE]
      BY <2>5, GiveUpOwned DEF Moves
    <3> HIDE DEF y
    <3> QED BY <1>2, <2>4, <2>5, <3>1, <3>2 DEF ChargeState
  <2> HIDE DEF y
  <2>7. Moves(y, z) BY <2>6, LoadOrder DEF Moves
  <2> HIDE DEF z
  <2>8. Settles(z, Shown(z)) BY <2>7, ShownSettles DEF Moves
  <2>9. Moves(v, z) BY <2>5, <2>6, <2>7, MovesTrans
  <2> HIDE DEF u
  <2> QED BY <2>2, <2>8, <2>9, SettlesAfter, SettlesKeeps DEF u
<1> QED BY <1>1, <1>2
=============================================================================
