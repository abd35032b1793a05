----------------------------- MODULE RefreshProofs -----------------------------
(***************************************************************************)
(* The refresh that a settled order is owed: what every handler of the     *)
(* window leaves of the refresh that the page of stations runs, of the     *)
(* page of an order that waits for it and of the selection it may be for,  *)
(* for any chargers and any number of orders.                              *)
(***************************************************************************)
EXTENDS OrderProofs

\* What a handler needs to find the marks of the two pages.
Formed(v) ==
  /\ {"api", "charge", "nearby", "main"} \subseteq DOMAIN v /\ "up" \in DOMAIN v.api
  /\ {"active", "order", "selection", "facts", "read", "mutation", "reconcile", "factsFailed",
      "gate", "exit", "exitFailed", "attempt", "current", "buttons"} \subseteq DOMAIN v.charge
  /\ {"list", "refresh"} \subseteq DOMAIN v.nearby /\ "remembered" \in DOMAIN v.main
  /\ v.nearby.list \in Maybe(StationList) /\ v.nearby.refresh \in Maybe(Refresh)
  /\ v.charge.selection \in Maybe(Selection) /\ v.main.remembered \in Maybe(Selection)
  /\ v.charge.facts \in Maybe(Facts) /\ v.charge.order \in Maybe(Order)

\* A refresh awaits its list until it has it, and is over once it has both answers.
Listens(n) ==
  n.refresh # None =>
    IF n.refresh.listApplied THEN n.list = None ELSE n.list # None /\ n.list.kind = "charge"

Ready(n) ==
  Listens(n) /\ (n.refresh # None => ~(n.refresh.listApplied /\ n.refresh.detailApplied))

\* A selection that the page of stations has withdrawn is not of its generation.
Recent(x) == x # None /\ x.fresh => x.valid

\* What is so whatever the refresh came to: it is owed to a page on show that awaits no
\* mutation and has a selection, and a poll is of an order that is not over.
Loose(v) ==
  LET c == v.charge
  IN  /\ Recent(c.selection) /\ Recent(v.main.remembered)
      /\ c.read # None /\ c.read.op = "poll" => c.order # None /\ c.order.status \notin Terminal
      /\ c.exit => c.active /\ c.mutation = None /\ c.selection # None

\* The refresh is under way: the facts of the station are awaited with it until they
\* are applied, and what is not applied is of a selection that is not withdrawn.
Waiting(v) ==
  LET c == v.charge
      r == v.nearby.refresh
  IN  /\ c.attempt # 0 /\ ~c.exitFailed /\ r # None /\ r.attempt = c.attempt
      /\ IF r.detailApplied THEN c.facts = None ELSE c.facts # None /\ c.gate
      /\ r.fresh \/ r.detailApplied => c.selection.valid

\* The refresh is not under way: the order is read again, or it can be.
Retrying(c) == c.facts = None /\ (c.reconcile \/ c.factsFailed \/ isActive(c.order))

Calm(v) ==
  Loose(v) /\ Ready(v.nearby) /\ (v.charge.exit => Waiting(v) \/ Retrying(v.charge))

\* As Calm, for a refresh that is about to end.
Hangs(v) ==
  LET c == v.charge
      r == v.nearby.refresh
  IN  /\ Loose(v)
      /\ c.exit => \/ Retrying(c)
                   \/ r # None /\ c.attempt # 0 /\ r.attempt = c.attempt

\* What holds between two events.
Sane(v) == Formed(v) /\ Calm(v) /\ v.charge.current /\ Offering(v)

-----------------------------------------------------------------------------
(* Steps of the handlers.                                                  *)

Flow(c, d) ==
  /\ d.active = c.active /\ d.order = c.order /\ d.selection = c.selection
  /\ d.facts = c.facts /\ d.read = c.read /\ d.mutation = c.mutation
  /\ d.reconcile = c.reconcile /\ d.factsFailed = c.factsFailed /\ d.gate = c.gate
  /\ d.exit = c.exit /\ d.exitFailed = c.exitFailed /\ d.attempt = c.attempt
  /\ d.current = c.current

\* What has failed can still be tried again.
Lets(v, u) == Formed(v) /\ Offering(v) => Offering(u)

\* A step that leaves the marks alone.
Mild(v, u) ==
  /\ Formed(v) => /\ Formed(u) /\ u.api.up = v.api.up /\ Flow(v.charge, u.charge)
                  /\ u.nearby.list = v.nearby.list /\ u.nearby.refresh = v.nearby.refresh
                  /\ u.main.remembered = v.main.remembered
  /\ Lets(v, u)

\* A step that makes no refresh owed.
Leans(v, u) ==
  Formed(v) => /\ Formed(u) /\ u.api.up = v.api.up
               /\ ~v.charge.exit => ~u.charge.exit
               /\ v.charge.current => u.charge.current
               /\ Loose(v) => Loose(u)

\* A step that starts no refresh and gives up none that is owed.
Minds(v, u) ==
  /\ Leans(v, u)
  /\ Formed(v) => /\ Calm(v) => Calm(u)
                  /\ Hangs(v) => Hangs(u)
                  /\ v.nearby.refresh = None => u.nearby.refresh = None

\* A handler that the page of an order was shown after, if there was a need.
Tends(v, u) == Leans(v, u) /\ Lets(v, u) /\ (Formed(v) /\ Calm(v) => Calm(u))

LEMMA CalmHangs == ASSUME NEW v, Calm(v) PROVE Hangs(v) /\ Loose(v)
BY DEF Calm, Hangs, Waiting

LEMMA MildMinds ==
  ASSUME NEW v, NEW u, Mild(v, u)
  PROVE  Leans(v, u) /\ Minds(v, u) /\ Tends(v, u) /\ Lets(v, u)
<1> SUFFICES ASSUME Formed(v) PROVE Leans(v, u) /\ Minds(v, u) /\ Tends(v, u) /\ Lets(v, u)
  BY DEF Leans, Minds, Tends, Lets
<1>1. /\ Formed(u) /\ u.api.up = v.api.up /\ Flow(v.charge, u.charge) /\ Lets(v, u)
      /\ u.nearby.list = v.nearby.list /\ u.nearby.refresh = v.nearby.refresh
      /\ u.main.remembered = v.main.remembered
  BY DEF Mild
<1>2. /\ Loose(u) <=> Loose(v)
      /\ u.charge.exit <=> v.charge.exit
      /\ u.charge.current <=> v.charge.current
  BY <1>1 DEF Loose, Flow
<1>3. Ready(u.nearby) <=> Ready(v.nearby) BY <1>1 DEF Ready, Listens
<1>4. Retrying(u.charge) <=> Retrying(v.charge) BY <1>1 DEF Retrying, Flow
<1>5. Waiting(u) <=> Waiting(v) BY <1>1 DEF Waiting, Flow
<1>6. Calm(v) => Calm(u) BY <1>2, <1>3, <1>4, <1>5 DEF Calm
<1>7. Hangs(v) => Hangs(u) BY <1>1, <1>2, <1>4 DEF Hangs, Flow
<1> QED BY <1>1, <1>2, <1>6, <1>7 DEF Leans, Minds, Tends

LEMMA MildTrans == ASSUME NEW a, NEW b, NEW c, Mild(a, b), Mild(b, c) PROVE Mild(a, c)
BY DEF Mild, Flow, Lets

LEMMA LeansTrans == ASSUME NEW a, NEW b, NEW c, Leans(a, b), Leans(b, c) PROVE Leans(a, c)
BY DEF Leans

LEMMA LetsTrans ==
  ASSUME NEW a, NEW b, NEW c, Leans(a, b), Lets(a, b), Lets(b, c) PROVE Lets(a, c)
BY DEF Leans, Lets

LEMMA MindsTrans == ASSUME NEW a, NEW b, NEW c, Minds(a, b), Minds(b, c) PROVE Minds(a, c)
<1>1. Leans(a, c) BY LeansTrans DEF Minds
<1> QED BY <1>1 DEF Minds, Leans

LEMMA TendsTrans == ASSUME NEW a, NEW b, NEW c, Tends(a, b), Tends(b, c) PROVE Tends(a, c)
<1>1. Leans(a, c) /\ Lets(a, c) BY LeansTrans, LetsTrans DEF Tends
<1> QED BY <1>1 DEF Tends, Leans

LEMMA MindsTends == ASSUME NEW v, NEW u, Minds(v, u), Lets(v, u) PROVE Tends(v, u)
BY DEF Minds, Tends

LEMMA MildSelf == ASSUME NEW v PROVE Mild(v, v)
BY DEF Mild, Flow, Lets

LEMMA MildParts ==
  ASSUME NEW v, NEW u,
         Formed(v) => /\ {"api", "charge", "nearby", "main"} \subseteq DOMAIN u
                      /\ "up" \in DOMAIN u.api /\ {"list", "refresh"} \subseteq DOMAIN u.nearby
                      /\ "remembered" \in DOMAIN u.main
                      /\ u.api.up = v.api.up /\ u.charge = v.charge
                      /\ u.nearby.list = v.nearby.list /\ u.nearby.refresh = v.nearby.refresh
                      /\ u.main.remembered = v.main.remembered
  PROVE  Mild(v, u)
BY DEF Mild, Formed, Flow, Lets, Offering

-----------------------------------------------------------------------------
(* The reads, the marks of the page of stations and the history.           *)

LEMMA ReadsMild ==
  ASSUME NEW v, NEW slot
  PROVE  /\ Mild(v, send(v, slot)) /\ Mild(v, cancelSafeReads(v, slot))
         /\ send(v, slot).charge = v.charge \/ ~Formed(v)
         /\ cancelSafeReads(v, slot).charge = v.charge \/ ~Formed(v)
<1> DEFINE x == send(v, slot)
           y == cancelSafeReads(v, slot)
<1>1. Formed(v) =>
        /\ {"api", "charge", "nearby", "main"} \subseteq DOMAIN x /\ "up" \in DOMAIN x.api
        /\ x.api.up = v.api.up /\ x.charge = v.charge /\ x.nearby = v.nearby
        /\ x.main = v.main
  BY DEF Formed, send
<1>2. Formed(v) =>
        /\ {"api", "charge", "nearby", "main"} \subseteq DOMAIN y /\ "up" \in DOMAIN y.api
        /\ y.api.up = v.api.up /\ y.charge = v.charge /\ y.nearby = v.nearby
        /\ y.main = v.main
  BY DEF Formed, cancelSafeReads
<1> HIDE DEF x, y
<1>3. Mild(v, x) /\ Mild(v, y) BY <1>1, <1>2, MildParts DEF Formed
<1> QED BY <1>1, <1>2, <1>3 DEF x, y

LEMMA MarksMild ==
  ASSUME NEW v, NEW b
  PROVE  /\ Mild(v, setSearchPending(v, b)) /\ Mild(v, setDetailControlsEnabled(v, b))
         /\ Mild(v, [v EXCEPT !.nearby.shown = b]) /\ Mild(v, [v EXCEPT !.nearby.detail = b])
         /\ Mild(v, [v EXCEPT !.nearby.known = b]) /\ Mild(v, [v EXCEPT !.nearby.origin = b])
         /\ Mild(v, [v EXCEPT !.nearby.foreground = b])
         /\ Mild(v, [v EXCEPT !.nearby.geocode = b])
<1>1. Mild(v, setSearchPending(v, b)) BY MildParts DEF Formed, setSearchPending
<1>2. Mild(v, setDetailControlsEnabled(v, b))
  BY MildParts DEF Formed, setDetailControlsEnabled
<1>3. Mild(v, [v EXCEPT !.nearby.shown = b]) BY MildParts DEF Formed
<1>4. Mild(v, [v EXCEPT !.nearby.detail = b]) BY MildParts DEF Formed
<1>5. Mild(v, [v EXCEPT !.nearby.known = b]) BY MildParts DEF Formed
<1>6. Mild(v, [v EXCEPT !.nearby.origin = b]) BY MildParts DEF Formed
<1>7. Mild(v, [v EXCEPT !.nearby.foreground = b]) BY MildParts DEF Formed
<1>8. Mild(v, [v EXCEPT !.nearby.geocode = b]) BY MildParts DEF Formed
<1> QED BY <1>1, <1>2, <1>3, <1>4, <1>5, <1>6, <1>7, <1>8

\* The details under way are no part of what is awaited here.
LEMMA DetailsMild ==
  ASSUME NEW v, NEW ids, NEW id
  PROVE  Mild(v, cancelDetails(v, ids)) /\ Mild(v, sendDetail(v, id))
<1>1. Mild(v, cancelDetails(v, ids)) BY MildParts DEF Formed, cancelDetails
<1>2. Mild(v, sendDetail(v, id)) BY MildParts DEF Formed, sendDetail
<1> QED BY <1>1, <1>2

LEMMA DropMild ==
  ASSUME NEW v
  PROVE  /\ Mild(v, supersedeDetail(v)) /\ Mild(v, cancelDetail(v))
         /\ Mild(v, cancelEveryDetail(v))
<1>1. ASSUME NEW x, NEW s PROVE Mild(x, [x EXCEPT !.nearby.superseded = s])
  BY MildParts DEF Formed
<1>2. Mild(v, supersedeDetail(v))
  <2> DEFINE a == [v EXCEPT !.nearby.superseded =
                              @ \cup {d \in awaitedDetail(v) : v.api.details[d] # "over"}]
             b == [a EXCEPT !.nearby.detail = None]
  <2>1. supersedeDetail(v) = b BY DEF supersedeDetail
  <2>2. Mild(v, a) BY <1>1
  <2> HIDE DEF a
  <2>3. Mild(a, b) BY MarksMild
  <2> HIDE DEF b
  <2> QED BY <2>1, <2>2, <2>3, MildTrans
<1>3. ASSUME NEW x PROVE Mild(x, cancelDetail(x))
  <2> DEFINE y == cancelDetails(x, awaitedDetail(x))
  <2>1. cancelDetail(x) = [y EXCEPT !.nearby.detail = None] BY DEF cancelDetail
  <2>2. Mild(x, y) BY DetailsMild
  <2> HIDE DEF y
  <2> QED BY <2>1, <2>2, MarksMild, MildTrans
<1>4. Mild(v, cancelEveryDetail(v))
  <2> DEFINE x == cancelDetails(v, v.nearby.superseded)
             y == cancelDetail(x)
  <2>1. cancelEveryDetail(v) = [y EXCEPT !.nearby.superseded = {}] BY DEF cancelEveryDetail
  <2>2. Mild(v, x) /\ Mild(x, y) BY <1>3, DetailsMild
  <2> HIDE DEF x, y
  <2> QED BY <1>1, <2>1, <2>2, MildTrans
<1> QED BY <1>2, <1>3, <1>4

-----------------------------------------------------------------------------
(* The list and the refresh of the page of stations are given up.          *)

LEMMA NextSearchMinds ==
  ASSUME NEW v
  PROVE  LET u == nextSearch(v) IN
         /\ Minds(v, u) /\ Lets(v, u)
         /\ Formed(v) => /\ u.charge = v.charge /\ u.main.remembered = v.main.remembered
                         /\ u.nearby.refresh = None <=> v.nearby.refresh = None
<1> DEFINE l == unfit(v.nearby.list)
           r == unfit(v.nearby.refresh)
           u == nextSearch(v)
<1> SUFFICES ASSUME Formed(v)
             PROVE  /\ Minds(v, u) /\ Lets(v, u)
                    /\ u.charge = v.charge /\ u.main.remembered = v.main.remembered
                    /\ u.nearby.refresh = None <=> v.nearby.refresh = None
  BY DEF Minds, Leans, Lets
<1>1. /\ l \in Maybe(StationList) /\ (l = None <=> v.nearby.list = None)
      /\ v.nearby.list # None => l.kind = v.nearby.list.kind
  BY AgedMaybe, NoneAssumption DEF Formed, unfit, Maybe, StationList
<1>2. /\ r \in Maybe(Refresh) /\ (r = None <=> v.nearby.refresh = None)
      /\ v.nearby.refresh # None =>
           /\ r.attempt = v.nearby.refresh.attempt /\ r.fresh = v.nearby.refresh.fresh
           /\ r.listApplied = v.nearby.refresh.listApplied
           /\ r.detailApplied = v.nearby.refresh.detailApplied
  BY AgedMaybe, NoneAssumption DEF Formed, unfit, Maybe, Refresh
<1>3. /\ {"api", "charge", "nearby", "main"} \subseteq DOMAIN u /\ "up" \in DOMAIN u.api
      /\ {"list", "refresh"} \subseteq DOMAIN u.nearby /\ "remembered" \in DOMAIN u.main
      /\ u.api.up = v.api.up /\ u.charge = v.charge /\ u.main.remembered = v.main.remembered
      /\ u.nearby.list = l /\ u.nearby.refresh = r
  BY DEF Formed, nextSearch
<1> HIDE DEF u, l, r
<1>4. Formed(u) BY <1>1, <1>2, <1>3 DEF Formed
<1>5. Loose(u) <=> Loose(v) BY <1>3 DEF Loose
<1>6. Ready(v.nearby) => Ready(u.nearby) BY <1>1, <1>2, <1>3 DEF Ready, Listens
<1>7. Waiting(v) => Waiting(u) BY <1>2, <1>3 DEF Waiting
<1>8. Calm(v) => Calm(u) BY <1>3, <1>5, <1>6, <1>7 DEF Calm
<1>9. Hangs(v) => Hangs(u) BY <1>2, <1>3, <1>5 DEF Hangs
<1>10. Lets(v, u) BY <1>3 DEF Lets, Offering
<1> QED BY <1>2, <1>3, <1>4, <1>5, <1>8, <1>9, <1>10 DEF Minds, Leans

\* The page of an order and the window are as they were.
LEMMA ChargeLeans ==
  ASSUME NEW v, NEW u, Formed(u), u.api.up = v.api.up, u.charge = v.charge,
         u.main.remembered = v.main.remembered
  PROVE  /\ Leans(v, u) /\ Lets(v, u)
         /\ u.nearby.refresh = None => (Hangs(u) => Calm(u))
         /\ u.nearby.refresh = None /\ v.nearby.refresh = None => Minds(v, u)
         /\ u.nearby.refresh = v.nearby.refresh => (Hangs(v) => Hangs(u))
         /\ u.nearby.refresh = None /\ (v.charge.exit => Retrying(v.charge)) =>
              (Loose(v) => Calm(u))
<1>1. Loose(u) <=> Loose(v) BY DEF Loose
<1>2. Leans(v, u) /\ Lets(v, u) BY <1>1 DEF Leans, Lets, Offering
<1>3. ASSUME u.nearby.refresh = None PROVE Ready(u.nearby) BY <1>3 DEF Ready, Listens
<1>4. ASSUME u.nearby.refresh = None, Hangs(u) PROVE Calm(u)
  BY <1>3, <1>4 DEF Hangs, Calm
<1>5. ASSUME u.nearby.refresh = v.nearby.refresh, Hangs(v) PROVE Hangs(u)
  BY <1>1, <1>5 DEF Hangs
<1>6. ASSUME u.nearby.refresh = None, v.nearby.refresh = None PROVE Minds(v, u)
  BY <1>2, <1>4, <1>5, <1>6, CalmHangs DEF Minds
<1>7. ASSUME u.nearby.refresh = None, v.charge.exit => Retrying(v.charge), Loose(v)
      PROVE  Calm(u)
  BY <1>1, <1>3, <1>7 DEF Calm
<1> QED BY <1>2, <1>4, <1>5, <1>6, <1>7

LEMMA ListDropped ==
  ASSUME NEW v, Formed(v)
  PROVE  LET u == cancelPendingStationList(v) IN
         /\ Formed(u) /\ u.api.up = v.api.up /\ u.charge = v.charge
         /\ u.main.remembered = v.main.remembered
         /\ u.nearby.list = None /\ u.nearby.refresh = v.nearby.refresh
         /\ Leans(v, u) /\ Lets(v, u)
         /\ v.nearby.refresh = None => Minds(v, u)
         /\ Hangs(v) => Hangs(u)
<1> DEFINE x == cancelSafeReads(v, {"list"})
           y == [x EXCEPT !.nearby.list = None]
           u == cancelPendingStationList(v)
<1>1. Mild(v, x) /\ x.charge = v.charge BY ReadsMild
<1>2. u = IF v.nearby.foreground THEN y ELSE setSearchPending(y, FALSE)
  BY DEF cancelPendingStationList
<1> HIDE DEF x, u
<1>3. Formed(x) /\ x.api.up = v.api.up /\ x.nearby.refresh = v.nearby.refresh
      /\ x.main.remembered = v.main.remembered
  BY <1>1 DEF Mild
<1>4. /\ Formed(y) /\ y.api.up = v.api.up /\ y.charge = v.charge
      /\ y.main.remembered = v.main.remembered
      /\ y.nearby.list = None /\ y.nearby.refresh = v.nearby.refresh
  BY <1>1, <1>3, NoneFits DEF Formed
<1> HIDE DEF y
<1> DEFINE z == setSearchPending(y, FALSE)
<1>5. z.charge = y.charge BY <1>4 DEF setSearchPending, Formed
<1>a. Mild(y, z) BY MarksMild
<1> HIDE DEF z
<1>6. /\ Formed(u) /\ u.api.up = v.api.up /\ u.charge = v.charge
      /\ u.main.remembered = v.main.remembered
      /\ u.nearby.list = None /\ u.nearby.refresh = v.nearby.refresh
  BY <1>2, <1>4, <1>5, <1>a DEF Mild, z
<1> QED BY <1>6, ChargeLeans DEF u

LEMMA RefreshDropped ==
  ASSUME NEW v, Formed(v)
  PROVE  LET u == cancelChargeRefresh(v) IN
         /\ Formed(u) /\ u.api.up = v.api.up /\ u.charge = v.charge
         /\ u.main.remembered = v.main.remembered /\ u.nearby.refresh = None
         /\ Leans(v, u) /\ Lets(v, u)
         /\ v.nearby.refresh = None => Minds(v, u)
<1> DEFINE x == cancelPendingStationList(v)
           y == IF v.nearby.list # None /\ v.nearby.list.kind = "charge" THEN x ELSE v
           u == cancelChargeRefresh(v)
<1>1. u = [y EXCEPT !.nearby.refresh = None] BY DEF cancelChargeRefresh, resetChargeRefresh
<1>2. /\ Formed(y) /\ y.api.up = v.api.up /\ y.charge = v.charge
      /\ y.main.remembered = v.main.remembered
  BY ListDropped
<1> HIDE DEF y, u
<1>3. /\ Formed(u) /\ u.api.up = v.api.up /\ u.charge = v.charge
      /\ u.main.remembered = v.main.remembered /\ u.nearby.refresh = None
  BY <1>1, <1>2, NoneFits DEF Formed
<1> QED BY <1>3, ChargeLeans DEF u

\* The page awaits nothing, and what it owes is as it was.
Emptied(v, u) ==
  LET c == v.charge
      d == u.charge
  IN  /\ Formed(u) /\ u.api.up = v.api.up /\ u.nearby.refresh = None
      /\ u.main.remembered = v.main.remembered
      /\ d.active = c.active /\ d.order = c.order /\ d.selection = c.selection
      /\ d.mutation = c.mutation /\ d.reconcile = c.reconcile
      /\ d.factsFailed = c.factsFailed /\ d.exit = c.exit /\ d.exitFailed = c.exitFailed
      /\ d.read = None /\ d.facts = None /\ ~d.gate /\ d.current

LEMMA OwnedEmptied ==
  ASSUME NEW v, Formed(v)
  PROVE  /\ Emptied(v, cancelOwnedSafeReads(v)) /\ Leans(v, cancelOwnedSafeReads(v))
         /\ Emptied(v, invalidateSafeReads(v)) /\ Leans(v, invalidateSafeReads(v))
<1>0. ASSUME NEW z, NEW u, Formed(z), Emptied(z, u) PROVE Leans(z, u)
  BY <1>0 DEF Emptied, Leans, Loose
<1>1. ASSUME NEW z, Formed(z) PROVE Emptied(z, cancelOwnedSafeReads(z))
  <2> DEFINE x == cancelSafeReads(z, {"page", "facts"})
             a == IF z.charge.exit THEN 0 ELSE x.charge.attempt
             y == [x EXCEPT !.charge.read = None, !.charge.facts = None, !.charge.gate = FALSE,
                            !.charge.attempt = a, !.charge.current = TRUE]
             u == cancelOwnedSafeReads(z)
  <2>1. u = cancelChargeRefresh(y) BY Zenon DEF cancelOwnedSafeReads
  <2>2. /\ Formed(x) /\ x.api.up = z.api.up /\ x.charge = z.charge
        /\ x.main.remembered = z.main.remembered
    BY <1>1, ReadsMild DEF Mild
  <2> HIDE DEF x, u, a
  <2>3. /\ Formed(y) /\ y.api.up = z.api.up /\ y.main.remembered = z.main.remembered
        /\ y.charge.active = z.charge.active /\ y.charge.order = z.charge.order
        /\ y.charge.selection = z.charge.selection
        /\ y.charge.mutation = z.charge.mutation /\ y.charge.reconcile = z.charge.reconcile
        /\ y.charge.factsFailed = z.charge.factsFailed /\ y.charge.exit = z.charge.exit
        /\ y.charge.exitFailed = z.charge.exitFailed
        /\ y.charge.read = None /\ y.charge.facts = None /\ ~y.charge.gate /\ y.charge.current
    BY <2>2, NoneFits DEF Formed
  <2> HIDE DEF y
  <2>4. /\ Formed(u) /\ u.api.up = y.api.up /\ u.charge = y.charge
        /\ u.main.remembered = y.main.remembered /\ u.nearby.refresh = None
    BY <2>1, <2>3, RefreshDropped
  <2>5. Emptied(z, u) BY <2>3, <2>4 DEF Emptied
  <2> QED BY <2>5 DEF u
<1> DEFINE x == invalidateChargeReads(v)
           s == cancelSafeReads(v, CurrentRead)
<1>2. invalidateSafeReads(v) = cancelOwnedSafeReads(x) BY DEF invalidateSafeReads
<1>3. x = [s EXCEPT !.charge.current = FALSE] BY DEF invalidateChargeReads
<1>4. /\ Formed(s) /\ s.api.up = v.api.up /\ s.charge = v.charge
      /\ s.main.remembered = v.main.remembered
  BY ReadsMild DEF Mild
<1> HIDE DEF x, s
<1>5. /\ Formed(x) /\ x.api.up = v.api.up /\ x.main.remembered = v.main.remembered
      /\ x.charge.active = v.charge.active /\ x.charge.order = v.charge.order
      /\ x.charge.selection = v.charge.selection
      /\ x.charge.mutation = v.charge.mutation /\ x.charge.reconcile = v.charge.reconcile
      /\ x.charge.factsFailed = v.charge.factsFailed /\ x.charge.exit = v.charge.exit
      /\ x.charge.exitFailed = v.charge.exitFailed
  BY <1>3, <1>4 DEF Formed
<1>6. Emptied(x, cancelOwnedSafeReads(x)) BY <1>1, <1>5
<1>7. Emptied(v, invalidateSafeReads(v)) BY <1>2, <1>5, <1>6 DEF Emptied
<1> QED BY <1>0, <1>1, <1>7

-----------------------------------------------------------------------------
(* The page of an order is shown.                                          *)

LEMMA RenderMild ==
  ASSUME NEW v
  PROVE  Mild(v, render(v)) /\ (Formed(v) => Offering(render(v)))
<1> DEFINE c == v.charge
           free == c.read = None /\ c.facts = None /\ c.mutation = None
           again == c.active /\ free /\ (c.reconcile \/ c.factsFailed \/ ~v.api.up)
           u == render(v)
<1> SUFFICES ASSUME Formed(v) PROVE Mild(v, u) /\ Offering(u) BY DEF Mild, Lets
<1>1. /\ {"api", "charge", "nearby", "main"} \subseteq DOMAIN u
      /\ DOMAIN u.charge = DOMAIN v.charge
      /\ u.api = v.api /\ u.nearby = v.nearby /\ u.main = v.main /\ Flow(c, u.charge)
  BY DEF render, Formed, Flow
<1>2. \E S : u.charge.buttons = S \cup (IF again THEN {"retry"} ELSE {})
  <2> DEFINE S == (IF c.active /\ /\ v.api.up /\ c.mutation = None /\ ~c.reconcile /\ ~c.factsFailed
                                  /\ ~(c.facts # None /\ c.gate) THEN Offers(c) ELSE {})
                  \cup (IF c.active /\ Leaves(c) /\ ~chargeFlowBlocked(c) THEN {"back"} ELSE {})
  <2>1. u.charge.buttons = S \cup (IF again THEN {"retry"} ELSE {}) BY DEF render, Formed
  <2> QED BY <2>1
<1> HIDE DEF u
<1>3. Offering(u) BY <1>1, <1>2 DEF Offering, Flow
<1>4. Formed(u) BY <1>1 DEF Formed, Flow
<1> QED BY <1>1, <1>3, <1>4 DEF Mild, Lets

\* A step of a page that owes no refresh, and goes on owing none.
LEMMA FreeMinds ==
  ASSUME NEW v, NEW u,
         Formed(v) => /\ Formed(u) /\ u.api.up = v.api.up
                      /\ ~v.charge.exit /\ ~u.charge.exit
                      /\ v.charge.current => u.charge.current
                      /\ Loose(v) => Loose(u)
                      /\ \/ u.nearby.refresh = None
                         \/ /\ u.nearby.refresh = v.nearby.refresh
                            /\ u.nearby.list = v.nearby.list
  PROVE  Minds(v, u)
<1>1. ASSUME Formed(v), Ready(v.nearby) PROVE Ready(u.nearby) BY <1>1 DEF Ready, Listens
<1> QED BY <1>1 DEF Minds, Leans, Calm, Hangs

LEMMA RememberedMinds ==
  ASSUME NEW v, NEW r \in Maybe(Selection), Recent(r)
  PROVE  LET u == [v EXCEPT !.main.remembered = r] IN
         /\ Minds(v, u) /\ Lets(v, u)
         /\ Formed(v) => u.charge = v.charge /\ u.nearby = v.nearby
<1> DEFINE u == [v EXCEPT !.main.remembered = r]
<1> SUFFICES ASSUME Formed(v)
             PROVE  Minds(v, u) /\ Lets(v, u) /\ u.charge = v.charge /\ u.nearby = v.nearby
  BY DEF Minds, Leans, Lets
<1>1. Formed(u) /\ u.api = v.api /\ u.charge = v.charge /\ u.nearby = v.nearby
      /\ u.main.remembered = r
  BY DEF Formed
<1> HIDE DEF u
<1>2. Loose(v) => Loose(u) BY <1>1 DEF Loose
<1>3. Lets(v, u) BY <1>1 DEF Lets, Offering
<1>4. Minds(v, u) BY <1>1, <1>2 DEF Minds, Leans, Calm, Hangs, Waiting
<1> QED BY <1>1, <1>3, <1>4

\* A page whose flow is blocked keeps its selection.
LEMMA InvalidateMinds ==
  ASSUME NEW v
  PROVE  LET u == invalidateSelection(v) IN
         /\ Minds(v, u) /\ Lets(v, u)
         /\ chargeFlowBlocked(v.charge) => u = v
         /\ Formed(v) /\ v.charge.facts = None => u.charge.facts = None
<1> DEFINE t == [v EXCEPT !.charge.selection = None]
           s == [t EXCEPT !.charge.associated = None]
           o == cancelOwnedSafeReads(s)
           y == [o EXCEPT !.charge.selGen = 1, !.charge.noOrder = TRUE,
                          !.charge.reconcile = FALSE, !.charge.factsFailed = FALSE]
           x == [t EXCEPT !.charge.selGen = 0]
           u == invalidateSelection(v)
<1>1. u = IF chargeFlowBlocked(v.charge) \/ v.charge.selection = None THEN v
          ELSE render(IF v.charge.order = None THEN y ELSE x)
  BY DEF invalidateSelection
<1>2. CASE chargeFlowBlocked(v.charge) \/ v.charge.selection = None \/ ~Formed(v)
  <2>1. Formed(v) => u = v BY <1>1, <1>2
  <2>2. Minds(v, u) /\ Lets(v, u)
    <3>1. CASE Formed(v) BY <3>1, <2>1, MildSelf, MildMinds
    <3>2. CASE ~Formed(v) BY <3>2 DEF Minds, Leans, Lets
    <3> QED BY <3>1, <3>2
  <2>3. chargeFlowBlocked(v.charge) => u = v BY <1>1
  <2> QED BY <2>1, <2>2, <2>3
<1>3. CASE ~chargeFlowBlocked(v.charge) /\ v.charge.selection # None /\ Formed(v)
  <2>1. ~v.charge.exit BY <1>3 DEF chargeFlowBlocked
  <2>2. /\ Formed(t) /\ t.api.up = v.api.up /\ ~t.charge.exit
        /\ t.charge.current = v.charge.current /\ t.charge.facts = v.charge.facts
        /\ Loose(v) => Loose(t)
        /\ t.nearby = v.nearby
    <3>1. /\ Formed(t) /\ t.api = v.api /\ ~t.charge.exit /\ t.nearby = v.nearby
          /\ t.charge.current = v.charge.current /\ t.charge.facts = v.charge.facts
          /\ t.charge.selection = None /\ t.charge.read = v.charge.read
          /\ t.charge.order = v.charge.order /\ t.main = v.main
      BY <1>3, <2>1, NoneFits DEF Formed
    <3> HIDE DEF t
    <3> QED BY <3>1 DEF Loose, Recent
  <2> HIDE DEF t
  <2>3. /\ Formed(s) /\ s.api = t.api /\ Flow(t.charge, s.charge) /\ s.main = t.main
    BY <2>2 DEF Formed, Flow
  <2>4. ~s.charge.exit /\ (Loose(v) => Loose(s)) BY <2>2, <2>3 DEF Loose, Flow
  <2> HIDE DEF s
  <2>5. Emptied(s, o) /\ Leans(s, o) BY <2>3, OwnedEmptied
  <2> HIDE DEF o
  <2>6. /\ Formed(y) /\ y.api.up = v.api.up /\ ~y.charge.exit /\ y.charge.current
        /\ y.charge.facts = None /\ y.nearby.refresh = None
        /\ Loose(o) => Loose(y)
    <3>1. /\ Formed(y) /\ y.api = o.api /\ ~y.charge.exit /\ y.nearby = o.nearby
          /\ y.charge.current = o.charge.current /\ y.charge.facts = None
          /\ y.charge.selection = o.charge.selection /\ y.charge.read = o.charge.read
          /\ y.charge.order = o.charge.order /\ y.main = o.main
      BY <2>4, <2>5 DEF Formed, Emptied
    <3> HIDE DEF y
    <3> QED BY <2>2, <2>3, <2>5, <3>1 DEF Loose, Emptied
  <2>7. Loose(v) => Loose(y) BY <2>3, <2>4, <2>5, <2>6 DEF Leans
  <2> HIDE DEF y
  <2>8. Minds(v, y) BY <2>1, <2>6, <2>7, FreeMinds
  <2>9. /\ Formed(x) /\ x.api = t.api /\ Flow(t.charge, x.charge) /\ x.main = t.main
        /\ x.nearby = t.nearby
    BY <2>2 DEF Formed, Flow
  <2> HIDE DEF x
  <2>10. Loose(t) => Loose(x) BY <2>9 DEF Loose, Flow
  <2>11. Minds(v, x) BY <2>1, <2>2, <2>9, <2>10, FreeMinds DEF Flow
  <2> DEFINE z == IF v.charge.order = None THEN y ELSE x
  <2>12. /\ Minds(v, z) /\ Formed(z)
         /\ v.charge.facts = None => z.charge.facts = None
    BY <2>2, <2>6, <2>8, <2>9, <2>11 DEF Flow
  <2>13. u = render(z) BY <1>1, <1>3
  <2> HIDE DEF z, u
  <2>14. Mild(z, u) /\ Offering(u) BY <2>12, <2>13, RenderMild
  <2>15. Minds(v, u) BY <2>12, <2>14, MildMinds, MindsTrans
  <2>16. v.charge.facts = None => u.charge.facts = None BY <2>12, <2>14 DEF Mild, Flow
  <2> QED BY <1>3, <2>14, <2>15, <2>16 DEF Lets, u
<1> QED BY <1>2, <1>3

LEMMA RecentNone == None \in Maybe(Selection) /\ Recent(None)
BY NoneFits DEF Recent

LEMMA ApplyMinds ==
  ASSUME NEW v
  PROVE  LET u == applySelectionInvalidation(v) IN
         /\ Minds(v, u) /\ Lets(v, u)
         /\ Formed(v) /\ v.charge.facts = None => u.charge.facts = None
<1> DEFINE x == [v EXCEPT !.main.remembered = None]
           u == applySelectionInvalidation(v)
<1>1. u = invalidateSelection(x) BY DEF applySelectionInvalidation
<1>2. Minds(v, x) /\ Lets(v, x) /\ (Formed(v) => x.charge = v.charge)
  BY RecentNone, RememberedMinds
<1> HIDE DEF x, u
<1>3. /\ Minds(x, u) /\ Lets(x, u)
      /\ Formed(x) /\ x.charge.facts = None => u.charge.facts = None
  BY <1>1, InvalidateMinds
<1>4. Minds(v, u) BY <1>2, <1>3, MindsTrans
<1>5. Lets(v, u) BY <1>2, <1>3, LetsTrans DEF Minds
<1>6. Formed(v) => Formed(x) BY <1>2 DEF Minds, Leans
<1> QED BY <1>2, <1>3, <1>4, <1>5, <1>6 DEF u

LEMMA ShownMinds ==
  ASSUME NEW v
  PROVE  LET u == Shown(v) IN
         /\ Minds(v, u) /\ Lets(v, u)
         /\ Formed(v) => /\ Offering(u)
                         /\ v.charge.facts = None => u.charge.facts = None
                         /\ v.charge.exit => Mild(v, u)
<1> DEFINE b == chargeFlowBlocked(v.charge)
           x == [v EXCEPT !.charge.reported = b, !.main.blocked = b]
           y == [x EXCEPT !.main.deferred = FALSE]
           t == updateChargeFlowBlock(v)
           u == Shown(v)
<1> SUFFICES ASSUME Formed(v)
             PROVE  /\ Minds(v, u) /\ Lets(v, u) /\ Offering(u)
                    /\ v.charge.facts = None => u.charge.facts = None
                    /\ v.charge.exit => Mild(v, u)
  BY DEF Minds, Leans, Lets
<1>1. t \in {v, x} \/ (~b /\ t = applySelectionInvalidation(y)) BY DEF updateChargeFlowBlock
<1>2. u = render(t) BY DEF Shown
<1>3. v.charge.exit => b BY DEF chargeFlowBlocked
<1> HIDE DEF b, t, u
<1>4. Mild(v, x) /\ Mild(x, y) BY DEF Mild, Formed, Flow, Lets, Offering
<1> HIDE DEF x, y
<1>5. Mild(v, y) BY <1>4, MildTrans
<1> DEFINE z == applySelectionInvalidation(y)
<1>6. Minds(y, z) /\ (Formed(y) /\ y.charge.facts = None => z.charge.facts = None)
  BY ApplyMinds
<1> HIDE DEF z
<1>7. Minds(v, z) /\ (v.charge.facts = None => z.charge.facts = None)
  <2>1. Minds(v, z) BY <1>5, <1>6, MildMinds, MindsTrans
  <2>2. Formed(y) /\ y.charge.facts = v.charge.facts BY <1>5 DEF Mild, Flow
  <2> QED BY <1>6, <2>1, <2>2
<1>8. v.charge.exit => t \in {v, x} BY <1>1, <1>3
<1>9. v.charge.exit => Mild(v, t) BY <1>4, <1>8, MildSelf
<1>10. Minds(v, t) /\ (v.charge.facts = None => t.charge.facts = None)
  <2>1. CASE t \in {v, x}
    <3>1. Mild(v, t) BY <1>4, <2>1, MildSelf
    <3> QED BY <3>1, MildMinds DEF Mild, Flow
  <2>2. CASE t = z BY <1>7, <2>2
  <2> QED BY <1>1, <2>1, <2>2 DEF z
<1>11. Formed(t) BY <1>10 DEF Minds, Leans
<1>12. Mild(t, u) /\ Offering(u) BY <1>2, <1>11, RenderMild
<1>13. Minds(v, u) BY <1>10, <1>12, MildMinds, MindsTrans
<1>14. v.charge.facts = None => u.charge.facts = None
  BY <1>10, <1>11, <1>12 DEF Mild, Flow
<1>15. v.charge.exit => Mild(v, u) BY <1>9, <1>12, MildTrans
<1> QED BY <1>12, <1>13, <1>14, <1>15 DEF Lets

\* What a page that is shown after a step leaves.
LEMMA ShownAfterwards ==
  ASSUME NEW v, NEW u, Leans(v, u)
  PROVE  /\ Leans(v, Shown(u)) /\ Lets(v, Shown(u))
         /\ (Formed(v) /\ Calm(v) => Calm(u)) => Tends(v, Shown(u))
<1> DEFINE s == Shown(u)
<1>1. Minds(u, s) /\ (Formed(u) => Offering(s)) BY ShownMinds
<1> HIDE DEF s
<1>2. Leans(v, s) BY <1>1, LeansTrans DEF Minds
<1>3. Lets(v, s) BY <1>1 DEF Lets, Leans
<1>4. (Formed(v) /\ Calm(v) => Calm(u)) => Tends(v, s)
  BY <1>1, <1>2, <1>3 DEF Tends, Minds, Leans
<1> QED BY <1>2, <1>3, <1>4 DEF s

LEMMA RenderedAfterwards ==
  ASSUME NEW v, NEW u, Leans(v, u)
  PROVE  /\ Leans(v, render(u)) /\ Lets(v, render(u))
         /\ (Formed(v) /\ Calm(v) => Calm(u)) => Tends(v, render(u))
<1> DEFINE s == render(u)
<1>1. Minds(u, s) /\ (Formed(u) => Offering(s)) BY RenderMild, MildMinds
<1> HIDE DEF s
<1>2. Leans(v, s) BY <1>1, LeansTrans DEF Minds
<1>3. Lets(v, s) BY <1>1 DEF Lets, Leans
<1>4. (Formed(v) /\ Calm(v) => Calm(u)) => Tends(v, s)
  BY <1>1, <1>2, <1>3 DEF Tends, Minds, Leans
<1> QED BY <1>2, <1>3, <1>4 DEF s

-----------------------------------------------------------------------------
(* The page of stations tells the page of an order what its refresh came to. *)

\* The page waits for its refresh, becomes y and shows it.
LEMMA ToldShown ==
  ASSUME NEW v, Formed(v), v.charge.exit, NEW y, Formed(y), y.api.up = v.api.up,
         y.nearby = v.nearby, v.charge.current => y.charge.current, Loose(v) => Loose(y),
         y.charge.exit => Retrying(y.charge),
         v.charge.facts = None => y.charge.facts = None
  PROVE  LET u == Shown(y) IN
         /\ Leans(v, u) /\ Lets(v, u)
         /\ Loose(v) /\ Ready(v.nearby) => Calm(u)
         /\ v.nearby.refresh = None => u.nearby.refresh = None
         /\ v.charge.facts = None => u.charge.facts = None
<1> DEFINE u == Shown(y)
<1>1. /\ Minds(y, u) /\ Offering(u)
      /\ y.charge.facts = None => u.charge.facts = None
  BY ShownMinds
<1> HIDE DEF u
<1>2. Leans(v, y) BY DEF Leans
<1>3. Leans(v, u) BY <1>1, <1>2, LeansTrans DEF Minds
<1>4. Loose(v) /\ Ready(v.nearby) => Calm(y) BY DEF Calm
<1> QED BY <1>1, <1>3, <1>4 DEF Minds, Lets, u

\* What each of the three answers does.
Informs(v, u, attempt) ==
  /\ Leans(v, u) /\ Lets(v, u)
  /\ ~Awaits(v, attempt) => u = v
  /\ Awaits(v, attempt) /\ Loose(v) /\ Ready(v.nearby) => Calm(u)
  /\ v.nearby.refresh = None => u.nearby.refresh = None
  /\ v.charge.facts = None => u.charge.facts = None

LEMMA SelfTold ==
  ASSUME NEW v, NEW attempt, ~Awaits(v, attempt) PROVE Informs(v, v, attempt)
BY MildSelf, MildMinds DEF Informs

LEMMA RefreshTold ==
  ASSUME NEW v, Formed(v), NEW attempt
  PROVE  /\ Informs(v, nearbyRefreshCommitted(v, attempt), attempt)
         /\ Informs(v, nearbyRefreshFailed(v, attempt), attempt)
         /\ Informs(v, nearbyRefreshUnavailable(v, attempt), attempt)
<1>1. CASE ~Awaits(v, attempt)
  BY <1>1, SelfTold DEF nearbyRefreshCommitted, nearbyRefreshFailed, nearbyRefreshUnavailable
<1>2. CASE Awaits(v, attempt)
  <2> DEFINE x == cancelSafeReads(v, {"facts"})
             a == endExitRefresh(v)
             e == endExitRefresh(x)
             b == [x EXCEPT !.charge.facts = None, !.charge.gate = TRUE,
                            !.charge.factsFailed = TRUE, !.charge.exitFailed = TRUE,
                            !.charge.reconcile = TRUE]
             c == [e EXCEPT !.charge.facts = None, !.charge.gate = FALSE,
                            !.charge.factsFailed = FALSE, !.charge.reconcile = ~x.api.up,
                            !.charge.selection = None, !.charge.selGen = 0,
                            !.main.remembered = None]
  <2>0. v.charge.exit BY <1>2 DEF Awaits
  <2>1. /\ Formed(x) /\ x.api.up = v.api.up /\ x.charge = v.charge /\ x.nearby = v.nearby
        /\ x.main = v.main
    <3>1. Mild(v, x) /\ x.charge = v.charge BY ReadsMild
    <3>2. x.nearby = v.nearby /\ x.main = v.main BY DEF cancelSafeReads, Formed
    <3> QED BY <3>1, <3>2 DEF Mild
  <2>2. /\ nearbyRefreshCommitted(v, attempt) = Shown(a)
        /\ nearbyRefreshFailed(v, attempt) = Shown(b)
    BY <1>2 DEF nearbyRefreshCommitted, nearbyRefreshFailed
  <2>3. nearbyRefreshUnavailable(v, attempt) = Shown(c)
    <3>1. x.api.up = v.api.up BY <2>1
    <3> QED BY <1>2, <3>1 DEF nearbyRefreshUnavailable
  <2> HIDE DEF x
  <2>4. /\ Formed(a) /\ a.api.up = v.api.up /\ a.nearby = v.nearby /\ ~a.charge.exit
        /\ a.charge.current = v.charge.current /\ (Loose(v) => Loose(a))
        /\ a.charge.facts = v.charge.facts
    <3>1. /\ Formed(a) /\ a.api = v.api /\ a.nearby = v.nearby /\ ~a.charge.exit
          /\ a.charge.current = v.charge.current /\ a.main = v.main
          /\ a.charge.facts = v.charge.facts /\ a.charge.selection = v.charge.selection
          /\ a.charge.read = v.charge.read /\ a.charge.order = v.charge.order
      BY DEF Formed, endExitRefresh
    <3> HIDE DEF a
    <3> QED BY <3>1 DEF Loose
  <2>5. /\ Formed(b) /\ b.api.up = v.api.up /\ b.nearby = v.nearby
        /\ b.charge.current = v.charge.current /\ (Loose(v) => Loose(b))
        /\ b.charge.facts = None /\ Retrying(b.charge)
    <3>1. /\ Formed(b) /\ b.api = x.api /\ b.nearby = v.nearby
          /\ b.charge.current = v.charge.current /\ b.main = v.main
          /\ b.charge.facts = None /\ b.charge.selection = v.charge.selection
          /\ b.charge.read = v.charge.read /\ b.charge.order = v.charge.order
          /\ b.charge.exit = v.charge.exit /\ b.charge.active = v.charge.active
          /\ b.charge.mutation = v.charge.mutation /\ b.charge.reconcile
      BY <2>1, NoneFits DEF Formed
    <3> HIDE DEF b
    <3> QED BY <2>1, <3>1 DEF Loose, Retrying
  <2>6. /\ Formed(e) /\ e.api = x.api /\ e.nearby = v.nearby /\ ~e.charge.exit
        /\ e.charge.current = v.charge.current
        /\ e.charge.read = v.charge.read /\ e.charge.order = v.charge.order
    BY <2>1 DEF Formed, endExitRefresh
  <2> HIDE DEF e
  <2>7. /\ Formed(c) /\ c.api.up = v.api.up /\ c.nearby = v.nearby /\ ~c.charge.exit
        /\ c.charge.current = v.charge.current /\ (Loose(v) => Loose(c))
        /\ c.charge.facts = None
    <3>1. /\ Formed(c) /\ c.api = x.api /\ c.nearby = v.nearby /\ ~c.charge.exit
          /\ c.charge.current = v.charge.current /\ c.main.remembered = None
          /\ c.charge.facts = None /\ c.charge.selection = None
          /\ c.charge.read = v.charge.read /\ c.charge.order = v.charge.order
      BY <2>6, NoneFits DEF Formed
    <3> HIDE DEF c
    <3> QED BY <2>1, <3>1 DEF Loose, Recent
  <2> HIDE DEF a, b, c
  <2>8. Informs(v, Shown(a), attempt) BY <1>2, <2>0, <2>4, ToldShown DEF Informs
  <2>9. Informs(v, Shown(b), attempt) BY <1>2, <2>0, <2>5, ToldShown DEF Informs
  <2>10. Informs(v, Shown(c), attempt) BY <1>2, <2>0, <2>7, ToldShown DEF Informs
  <2> QED BY <2>2, <2>3, <2>8, <2>9, <2>10
<1> QED BY <1>1, <1>2

\* A refresh that is over is told to the page of an order: x is v without it.
LEMMA EndsCalm ==
  ASSUME NEW v, Formed(v), NEW x, Formed(x), x.api.up = v.api.up, x.charge = v.charge,
         x.main.remembered = v.main.remembered, x.nearby.refresh = None,
         v.nearby.refresh # None, NEW u, Informs(x, u, v.nearby.refresh.attempt)
  PROVE  /\ Leans(v, u) /\ Lets(v, u)
         /\ Hangs(v) => Calm(u)
         /\ u.nearby.refresh = None
         /\ v.charge.facts = None => u.charge.facts = None
<1>1. Leans(v, x) /\ Lets(v, x) BY ChargeLeans
<1>2. Leans(v, u) BY <1>1, LeansTrans DEF Informs
<1>3. Lets(v, u) BY <1>1, LetsTrans DEF Informs
<1>4. ASSUME Hangs(v) PROVE Calm(u)
  <2>1. Loose(x) BY <1>1, <1>4 DEF Hangs, Leans
  <2>2. Ready(x.nearby) BY DEF Ready, Listens
  <2>3. CASE Awaits(x, v.nearby.refresh.attempt) BY <2>1, <2>2, <2>3 DEF Informs
  <2>4. CASE ~Awaits(x, v.nearby.refresh.attempt)
    <3>1. u = x BY <2>4 DEF Informs
    <3>2. x.charge.exit => Retrying(x.charge) BY <1>4, <2>4 DEF Hangs, Awaits
    <3> QED BY <2>1, <2>2, <3>1, <3>2 DEF Calm
  <2> QED BY <2>3, <2>4
<1> QED BY <1>2, <1>3, <1>4 DEF Informs

LEMMA RefreshReset ==
  ASSUME NEW v, Formed(v)
  PROVE  LET u == resetChargeRefresh(v) IN
         /\ Formed(u) /\ u.api.up = v.api.up /\ u.charge = v.charge
         /\ u.main.remembered = v.main.remembered /\ u.nearby.refresh = None
BY NoneFits DEF resetChargeRefresh, Formed

\* What a handler leaves that may end the refresh.
Finishes(v, u) ==
  /\ Leans(v, u) /\ Lets(v, u)
  /\ v.nearby.refresh = None => u.nearby.refresh = None
  /\ v.charge.facts = None => u.charge.facts = None

\* To give a refresh up is told to the page.
LEMMA GivenUpTold ==
  ASSUME NEW v, Formed(v)
  PROVE  /\ Finishes(v, finishChargeRefreshUnavailable(v))
         /\ Finishes(v, finishChargeRefreshFailed(v))
         /\ Finishes(v, abandonChargeRefresh(v))
         /\ Hangs(v) => /\ Calm(finishChargeRefreshUnavailable(v))
                        /\ Calm(finishChargeRefreshFailed(v))
                        /\ Calm(abandonChargeRefresh(v))
         /\ abandonChargeRefresh(v).nearby.refresh = None
         /\ finishChargeRefreshUnavailable(v).nearby.refresh = None
         /\ finishChargeRefreshFailed(v).nearby.refresh = None
<1> DEFINE x == resetChargeRefresh(v)
           y == cancelChargeRefresh(v)
           k == v.nearby.refresh.attempt
<1>1. /\ Formed(x) /\ x.api.up = v.api.up /\ x.charge = v.charge
      /\ x.main.remembered = v.main.remembered /\ x.nearby.refresh = None
  BY RefreshReset
<1>2. /\ Formed(y) /\ y.api.up = v.api.up /\ y.charge = v.charge
      /\ y.main.remembered = v.main.remembered /\ y.nearby.refresh = None
  BY RefreshDropped
<1> HIDE DEF x, y
<1>3. CASE v.nearby.refresh = None
  <2>1. /\ finishChargeRefreshUnavailable(v) = v /\ finishChargeRefreshFailed(v) = v
        /\ abandonChargeRefresh(v) = y
    BY <1>3
       DEF finishChargeRefreshUnavailable, finishChargeRefreshFailed, abandonChargeRefresh, y
  <2>2. Leans(v, y) /\ Lets(v, y) /\ Minds(v, y)
    BY <1>2, <1>3, ChargeLeans
  <2>3. Hangs(v) => Calm(v) BY <1>3, ChargeLeans
  <2>4. Hangs(y) => Calm(y) BY <1>2, ChargeLeans
  <2>5. Leans(v, v) /\ Lets(v, v) BY MildSelf, MildMinds
  <2> QED BY <1>2, <1>3, <2>1, <2>2, <2>3, <2>4, <2>5 DEF Finishes, Minds
<1>4. CASE v.nearby.refresh # None
  <2> DEFINE a == nearbyRefreshUnavailable(x, k)
             b == nearbyRefreshFailed(y, k)
             c == nearbyRefreshUnavailable(y, k)
  <2>1. /\ finishChargeRefreshUnavailable(v) = a /\ finishChargeRefreshFailed(v) = b
        /\ abandonChargeRefresh(v) = c
    BY <1>4
       DEF finishChargeRefreshUnavailable, finishChargeRefreshFailed, abandonChargeRefresh, x, y
  <2>2. Informs(x, a, k) BY <1>1, RefreshTold
  <2>3. Informs(y, b, k) /\ Informs(y, c, k) BY <1>2, RefreshTold
  <2> HIDE DEF a, b, c
  <2>4. Finishes(v, a) /\ (Hangs(v) => Calm(a)) /\ a.nearby.refresh = None
    BY <1>1, <1>4, <2>2, EndsCalm DEF Finishes
  <2>5. Finishes(v, b) /\ (Hangs(v) => Calm(b)) /\ b.nearby.refresh = None
    BY <1>2, <1>4, <2>3, EndsCalm DEF Finishes
  <2>6. Finishes(v, c) /\ (Hangs(v) => Calm(c)) /\ c.nearby.refresh = None
    BY <1>2, <1>4, <2>3, EndsCalm DEF Finishes
  <2> QED BY <1>4, <2>1, <2>4, <2>5, <2>6
<1> QED BY <1>3, <1>4

LEMMA ReadyTold ==
  ASSUME NEW v, Formed(v)
  PROVE  LET u == finishChargeRefreshIfReady(v) IN
         /\ Finishes(v, u)
         /\ Loose(v) /\ Listens(v.nearby)
              /\ (v.charge.exit => Waiting(v) \/ Retrying(v.charge)) => Calm(u)
<1> DEFINE z == resetChargeRefresh(v)
           x == [z EXCEPT !.nearby.shown = TRUE]
           r == v.nearby.refresh
           u == finishChargeRefreshIfReady(v)
<1>1. CASE r = None \/ ~(r.listApplied /\ r.detailApplied)
  <2>1. u = v BY <1>1 DEF finishChargeRefreshIfReady
  <2>2. Leans(v, v) /\ Lets(v, v) BY MildSelf, MildMinds
  <2>3. Listens(v.nearby) => Ready(v.nearby) BY <1>1 DEF Ready
  <2> QED BY <2>1, <2>2, <2>3 DEF Finishes, Calm
<1>2. CASE r # None /\ r.listApplied /\ r.detailApplied
  <2> DEFINE a == nearbyRefreshCommitted(x, r.attempt)
  <2>1. u = a BY <1>2 DEF finishChargeRefreshIfReady
  <2>2. /\ Formed(z) /\ z.api.up = v.api.up /\ z.charge = v.charge
        /\ z.main.remembered = v.main.remembered /\ z.nearby.refresh = None
    BY RefreshReset
  <2> HIDE DEF z
  <2>3. /\ Formed(x) /\ x.api.up = v.api.up /\ x.charge = v.charge
        /\ x.main.remembered = v.main.remembered /\ x.nearby.refresh = None
    BY <2>2 DEF Formed
  <2> HIDE DEF x
  <2>4. Informs(x, a, r.attempt) BY <2>3, RefreshTold
  <2> HIDE DEF a, u
  <2>5. Finishes(v, a) /\ (Hangs(v) => Calm(a))
    BY <1>2, <2>3, <2>4, EndsCalm DEF Finishes
  <2>6. Loose(v) /\ (v.charge.exit => Waiting(v) \/ Retrying(v.charge)) => Hangs(v)
    BY DEF Hangs, Waiting
  <2> QED BY <2>1, <2>5, <2>6 DEF u
<1> QED BY <1>1, <1>2

-----------------------------------------------------------------------------
(* The generation of the selection.                                        *)

LEMMA NextSelectionMinds ==
  ASSUME NEW v
  PROVE  LET u == nextSelection(v) IN
         /\ Minds(v, u) /\ Lets(v, u)
         /\ Formed(v) => /\ u.nearby.refresh = None <=> v.nearby.refresh = None
                         /\ v.nearby.refresh # None =>
                              /\ ~u.nearby.refresh.fresh
                              /\ u.nearby.refresh.attempt = v.nearby.refresh.attempt
                              /\ u.nearby.refresh.listApplied = v.nearby.refresh.listApplied
                              /\ u.nearby.refresh.detailApplied = v.nearby.refresh.detailApplied
                         /\ u.charge = [v.charge EXCEPT !.selection = aged(@)]
                         /\ u.main.remembered = aged(v.main.remembered)
                         /\ u.nearby.list = aged(v.nearby.list)
<1> DEFINE s == aged(v.charge.selection)
           m == aged(v.main.remembered)
           l == aged(v.nearby.list)
           r == aged(v.nearby.refresh)
           u == nextSelection(v)
<1> SUFFICES ASSUME Formed(v)
             PROVE  /\ Minds(v, u) /\ Lets(v, u)
                    /\ u.nearby.refresh = None <=> v.nearby.refresh = None
                    /\ v.nearby.refresh # None =>
                         /\ ~u.nearby.refresh.fresh
                         /\ u.nearby.refresh.attempt = v.nearby.refresh.attempt
                         /\ u.nearby.refresh.listApplied = v.nearby.refresh.listApplied
                         /\ u.nearby.refresh.detailApplied = v.nearby.refresh.detailApplied
                    /\ u.charge = [v.charge EXCEPT !.selection = s]
                    /\ u.main.remembered = m /\ u.nearby.list = l
  BY DEF Minds, Leans, Lets
<1>1. /\ l \in Maybe(StationList) /\ (l = None <=> v.nearby.list = None)
      /\ v.nearby.list # None => l.kind = v.nearby.list.kind
  BY AgedMaybe, NoneAssumption DEF Formed, aged, Maybe, StationList
<1>2. /\ r \in Maybe(Refresh) /\ (r = None <=> v.nearby.refresh = None)
      /\ v.nearby.refresh # None =>
           /\ r.attempt = v.nearby.refresh.attempt /\ ~r.fresh
           /\ r.listApplied = v.nearby.refresh.listApplied
           /\ r.detailApplied = v.nearby.refresh.detailApplied
  BY AgedMaybe, NoneAssumption DEF Formed, aged, Maybe, Refresh
<1>3. ASSUME NEW x \in Maybe(Selection)
      PROVE  /\ aged(x) \in Maybe(Selection) /\ (aged(x) = None <=> x = None)
             /\ x # None => ~aged(x).fresh /\ aged(x).valid = x.valid
  BY <1>3, AgedMaybe, NoneAssumption DEF aged, Maybe, Selection
<1>4. s \in Maybe(Selection) /\ (s = None <=> v.charge.selection = None)
      /\ (v.charge.selection # None => ~s.fresh /\ s.valid = v.charge.selection.valid)
  BY <1>3 DEF Formed
<1>5. m \in Maybe(Selection) /\ (m # None => ~m.fresh)
  BY <1>3 DEF Formed
<1>6. /\ {"api", "charge", "nearby", "main"} \subseteq DOMAIN u /\ "up" \in DOMAIN u.api
      /\ {"list", "refresh"} \subseteq DOMAIN u.nearby /\ "remembered" \in DOMAIN u.main
      /\ u.api = v.api /\ u.charge = [v.charge EXCEPT !.selection = s]
      /\ u.main.remembered = m
      /\ u.nearby.list = l /\ u.nearby.refresh = r
  BY DEF Formed, nextSelection
<1> HIDE DEF u, l, r, s, m
<1>7. /\ u.charge.selection = s /\ DOMAIN u.charge = DOMAIN v.charge
      /\ u.charge.active = v.charge.active /\ u.charge.order = v.charge.order
      /\ u.charge.facts = v.charge.facts /\ u.charge.read = v.charge.read
      /\ u.charge.mutation = v.charge.mutation /\ u.charge.reconcile = v.charge.reconcile
      /\ u.charge.factsFailed = v.charge.factsFailed /\ u.charge.gate = v.charge.gate
      /\ u.charge.exit = v.charge.exit /\ u.charge.exitFailed = v.charge.exitFailed
      /\ u.charge.attempt = v.charge.attempt /\ u.charge.current = v.charge.current
      /\ u.charge.buttons = v.charge.buttons
  BY <1>6 DEF Formed
<1>8. Formed(u) BY <1>1, <1>2, <1>4, <1>5, <1>6, <1>7 DEF Formed
<1>9. Loose(v) => Loose(u) BY <1>4, <1>5, <1>6, <1>7 DEF Loose, Recent
<1>10. Ready(v.nearby) => Ready(u.nearby) BY <1>1, <1>2, <1>6 DEF Ready, Listens
<1>11. Loose(v) /\ v.charge.exit /\ Waiting(v) => Waiting(u)
  BY <1>2, <1>4, <1>6, <1>7 DEF Waiting, Loose
<1>12. Retrying(v.charge) => Retrying(u.charge) BY <1>7 DEF Retrying
<1>13. Calm(v) => Calm(u) BY <1>7, <1>9, <1>10, <1>11, <1>12 DEF Calm
<1>14. Hangs(v) => Hangs(u) BY <1>2, <1>6, <1>7, <1>9, <1>12 DEF Hangs
<1>15. Lets(v, u) BY <1>6, <1>7 DEF Lets, Offering
<1> QED BY <1>2, <1>6, <1>7, <1>8, <1>9, <1>13, <1>14, <1>15 DEF Minds, Leans

\* No answer of the facts awaits its list: the selection may be withdrawn.
Early(n) == n.refresh = None \/ ~n.refresh.detailApplied

Retires(v, u) ==
  /\ Leans(v, u) /\ Lets(v, u)
  /\ Formed(v) => /\ Hangs(v) => Hangs(u)
                  /\ Early(v.nearby) /\ Calm(v) => Calm(u)
                  /\ v.nearby.refresh = None => u.nearby.refresh = None
                  /\ v.charge.facts = None => u.charge.facts = None

LEMMA WithdrawnRetires ==
  ASSUME NEW v PROVE Retires(v, withdrawn(v))
<1> DEFINE n == nextSelection(v)
           Undone(x) == IF x = None THEN None ELSE [x EXCEPT !.valid = FALSE]
           s == Undone(n.charge.selection)
           m == Undone(n.main.remembered)
           u == withdrawn(v)
<1>1. u = [n EXCEPT !.charge.selection = s, !.main.remembered = m]
  BY Zenon DEF withdrawn
<1>2. /\ Minds(v, n) /\ Lets(v, n)
      /\ Formed(v) => /\ n.nearby.refresh = None <=> v.nearby.refresh = None
                      /\ v.nearby.refresh # None =>
                           /\ ~n.nearby.refresh.fresh
                           /\ n.nearby.refresh.detailApplied = v.nearby.refresh.detailApplied
                      /\ n.charge = [v.charge EXCEPT !.selection = aged(@)]
                      /\ n.main.remembered = aged(v.main.remembered)
  BY NextSelectionMinds
<1> HIDE DEF n, u
<1> SUFFICES ASSUME Formed(v) PROVE Retires(v, u)
  BY DEF Retires, Leans, Lets, u
<1>3. Formed(n) BY <1>2 DEF Minds, Leans
<1>4. ASSUME NEW x \in Maybe(Selection)
      PROVE  /\ aged(x) \in Maybe(Selection) /\ (aged(x) = None <=> x = None)
             /\ x # None => ~aged(x).fresh
             /\ Undone(x) \in Maybe(Selection) /\ (Undone(x) = None <=> x = None)
             /\ x # None => Undone(x).fresh = x.fresh
  <2>1. /\ aged(x) \in Maybe(Selection) /\ (aged(x) = None <=> x = None)
        /\ x # None => ~aged(x).fresh
    BY <1>4, AgedMaybe, NoneAssumption DEF aged, Maybe, Selection
  <2>2. CASE x = None BY <2>1, <2>2, NoneFits
  <2>3. CASE x # None
    <3>1. x \in Selection BY <1>4, <2>3 DEF Maybe
    <3>2. Undone(x) = [x EXCEPT !.valid = FALSE] BY <2>3
    <3>3. Undone(x) \in Selection /\ Undone(x).fresh = x.fresh BY <3>1, <3>2 DEF Selection
    <3>4. Undone(x) # None BY <3>3, NoneAssumption
    <3> QED BY <2>1, <2>3, <3>3, <3>4 DEF Maybe
  <2> QED BY <2>2, <2>3
<1>5. n.charge.facts = v.charge.facts /\ n.charge.selection = aged(v.charge.selection)
      /\ n.charge.exit = v.charge.exit
  BY <1>2 DEF Formed
<1>6. s \in Maybe(Selection) /\ (s = None <=> n.charge.selection = None)
      /\ (s # None => ~s.fresh)
  <2>1. n.charge.selection \in Maybe(Selection) BY <1>3 DEF Formed
  <2>2. n.charge.selection # None => ~n.charge.selection.fresh BY <1>4, <1>5 DEF Formed
  <2> QED BY <1>4, <2>1, <2>2
<1>7. m \in Maybe(Selection) /\ (m # None => ~m.fresh)
  <2>1. n.main.remembered \in Maybe(Selection) BY <1>3 DEF Formed
  <2>2. n.main.remembered # None => ~n.main.remembered.fresh BY <1>2, <1>4 DEF Formed
  <2> QED BY <1>4, <2>1, <2>2
<1> HIDE DEF s, m, Undone
<1>8. /\ Formed(u) /\ u.api = n.api /\ u.nearby = n.nearby /\ u.main.remembered = m
      /\ u.charge.selection = s
      /\ u.charge.active = n.charge.active /\ u.charge.order = n.charge.order
      /\ u.charge.facts = n.charge.facts /\ u.charge.read = n.charge.read
      /\ u.charge.mutation = n.charge.mutation /\ u.charge.reconcile = n.charge.reconcile
      /\ u.charge.factsFailed = n.charge.factsFailed /\ u.charge.gate = n.charge.gate
      /\ u.charge.exit = n.charge.exit /\ u.charge.exitFailed = n.charge.exitFailed
      /\ u.charge.attempt = n.charge.attempt /\ u.charge.current = n.charge.current
      /\ u.charge.buttons = n.charge.buttons
  BY <1>1, <1>3, <1>6, <1>7 DEF Formed
<1>9. Loose(n) => Loose(u) BY <1>6, <1>7, <1>8 DEF Loose, Recent
<1>10. Retrying(n.charge) => Retrying(u.charge) BY <1>8 DEF Retrying
<1>11. Hangs(n) => Hangs(u) BY <1>8, <1>9, <1>10 DEF Hangs
<1>12. Early(v.nearby) /\ Waiting(n) => Waiting(u) BY <1>2, <1>8 DEF Waiting, Early
<1>13. Early(v.nearby) /\ Calm(n) => Calm(u) BY <1>8, <1>9, <1>10, <1>12 DEF Calm
<1>14. Leans(n, u) /\ Lets(n, u) BY <1>8, <1>9 DEF Leans, Lets, Offering
<1>15. Leans(v, u) BY <1>2, <1>14, LeansTrans DEF Minds
<1>16. Lets(v, u) BY <1>2, <1>14, LetsTrans DEF Minds
<1> QED BY <1>2, <1>5, <1>8, <1>11, <1>13, <1>15, <1>16 DEF Retires, Minds

LEMMA RetiresMinds ==
  ASSUME NEW a, NEW b, NEW c, Retires(a, b), Minds(b, c), Lets(b, c),
         Formed(b) /\ b.charge.facts = None => c.charge.facts = None
  PROVE  Retires(a, c)
<1>1. Leans(a, c) BY LeansTrans DEF Retires, Minds
<1>2. Lets(a, c) BY LetsTrans DEF Retires
<1> QED BY <1>1, <1>2 DEF Retires, Minds, Leans

LEMMA MildRetires ==
  ASSUME NEW v, NEW u, Mild(v, u)
  PROVE  /\ Retires(v, u)
         /\ Formed(v) /\ v.charge.facts = None => u.charge.facts = None
BY MildMinds DEF Retires, Minds, Mild, Flow

LEMMA InvalidateNearbyRetires ==
  ASSUME NEW v PROVE Retires(v, invalidateNearbySelection(v))
<1> DEFINE x == withdrawn(v)
           y == [x EXCEPT !.main.deferred = TRUE]
           z == applySelectionInvalidation(x)
           u == invalidateNearbySelection(v)
<1>1. u = IF x.main.blocked THEN y ELSE z BY Zenon DEF invalidateNearbySelection
<1>2. Retires(v, x) BY WithdrawnRetires
<1>3. /\ Minds(x, z) /\ Lets(x, z)
      /\ Formed(x) /\ x.charge.facts = None => z.charge.facts = None
  BY ApplyMinds
<1> HIDE DEF x
<1>4. Mild(x, y) BY DEF Mild, Formed, Flow, Lets, Offering
<1> HIDE DEF y, z
<1>5. Retires(v, y) BY <1>2, <1>4, MildMinds, MildRetires, RetiresMinds
<1>6. Retires(v, z) BY <1>2, <1>3, RetiresMinds
<1> QED BY <1>1, <1>5, <1>6

-----------------------------------------------------------------------------
(* The list of stations is asked for.                                      *)

LEMMA RetiresTends ==
  ASSUME NEW v, NEW u, Retires(v, u), Formed(v) => v.nearby.refresh = None
  PROVE  Tends(v, u) /\ (Formed(v) => Formed(u) /\ u.nearby.refresh = None)
BY DEF Retires, Tends, Early, Leans

\* The page of stations has no refresh, and goes on having none.
Unowing(v, u) ==
  Tends(v, u) /\ (Formed(v) => Formed(u) /\ u.nearby.refresh = None)

LEMMA AbandonTends ==
  ASSUME NEW v, Formed(v)
  PROVE  Unowing(v, abandonChargeRefresh(v))
<1>1. /\ Finishes(v, abandonChargeRefresh(v)) /\ abandonChargeRefresh(v).nearby.refresh = None
      /\ Hangs(v) => Calm(abandonChargeRefresh(v))
  BY GivenUpTold
<1> HIDE DEF Formed
<1> QED BY <1>1, CalmHangs DEF Unowing, Tends, Finishes, Leans

LEMMA UnowingTrans ==
  ASSUME NEW a, NEW b, NEW c, Unowing(a, b), Unowing(b, c) PROVE Unowing(a, c)
BY TendsTrans DEF Unowing, Tends, Leans

LEMMA MindsUnowing ==
  ASSUME NEW a, NEW b, NEW c, Unowing(a, b), Minds(b, c), Lets(b, c) PROVE Unowing(a, c)
<1>1. Tends(b, c) BY MindsTends
<1>2. Tends(a, c) BY <1>1, TendsTrans DEF Unowing
<1> QED BY <1>2 DEF Unowing, Minds, Leans

LEMMA MildUnowing ==
  ASSUME NEW a, NEW b, NEW c, Unowing(a, b), Mild(b, c) PROVE Unowing(a, c)
BY MildMinds, MindsUnowing

LEMMA RetiresUnowing ==
  ASSUME NEW a, Formed(a), NEW b, NEW c, Unowing(a, b), Retires(b, c) PROVE Unowing(a, c)
<1>1. Unowing(b, c) BY RetiresTends DEF Unowing
<1> QED BY <1>1, UnowingTrans

LEMMA DroppedUnowing ==
  ASSUME NEW a, Formed(a), NEW b, Unowing(a, b)
  PROVE  Unowing(a, cancelPendingStationList(b))
<1>1. Formed(b) /\ b.nearby.refresh = None BY DEF Unowing
<1>2. Minds(b, cancelPendingStationList(b)) /\ Lets(b, cancelPendingStationList(b))
  BY <1>1, ListDropped
<1> QED BY <1>2, MindsUnowing

\* The list is another one, and no refresh is under way.
LEMMA ListSet ==
  ASSUME NEW v, Formed(v), NEW l \in Maybe(StationList)
  PROVE  LET u == [v EXCEPT !.nearby.list = l] IN
         /\ Formed(u) /\ u.api.up = v.api.up /\ u.charge = v.charge
         /\ u.main.remembered = v.main.remembered /\ u.nearby.list = l
         /\ u.nearby.refresh = v.nearby.refresh
         /\ Leans(v, u) /\ Lets(v, u)
         /\ v.nearby.refresh = None => Minds(v, u)
         /\ Hangs(v) => Hangs(u)
<1> DEFINE u == [v EXCEPT !.nearby.list = l]
<1>1. /\ Formed(u) /\ u.api.up = v.api.up /\ u.charge = v.charge
      /\ u.main.remembered = v.main.remembered /\ u.nearby.list = l
      /\ u.nearby.refresh = v.nearby.refresh
  BY DEF Formed
<1> HIDE DEF u
<1>2. /\ Leans(v, u) /\ Lets(v, u)
      /\ v.nearby.refresh = None => Minds(v, u)
      /\ Hangs(v) => Hangs(u)
  BY <1>1, ChargeLeans
<1> QED BY <1>1, <1>2 DEF u

LEMMA ForegroundTends ==
  ASSUME NEW v, Formed(v), NEW attempt
  PROVE  Unowing(v, requestNearbyStations(v, "foreground", attempt))
<1> DEFINE mine == "foreground" = "charge"
           a == IF mine THEN cancelChargeRefresh(v) ELSE abandonChargeRefresh(v)
           q == cancelPendingStationList(a)
           s == setSearchPending(q, TRUE)
           n == nextSearch(s)
           l == [kind |-> "foreground", fresh |-> TRUE, fits |-> TRUE]
           k == [n EXCEPT !.nearby.list = l,
                          !.nearby.refresh =
                            IF "foreground" # "charge" THEN @
                            ELSE [attempt |-> attempt, fresh |-> TRUE, fits |-> TRUE,
                                  listApplied |-> FALSE, detailApplied |-> FALSE]]
           p == IF mine THEN invalidateNearbySelection(k) ELSE k
           d == supersedeDetail(p)
           g == setDetailControlsEnabled(d, TRUE)
           b == IF k.nearby.detail = None THEN k ELSE g
           e == send(b, "list")
           u == requestNearbyStations(v, "foreground", attempt)
<1>0. u = IF mine THEN e ELSE setDetailControlsEnabled(e, FALSE)
  BY Zenon DEF requestNearbyStations
<1>a. ~mine OBVIOUS
<1>b. a = abandonChargeRefresh(v) /\ p = k BY <1>a
<1>1. u = setDetailControlsEnabled(e, FALSE) BY <1>0, <1>a
<1>2. Unowing(v, a) BY <1>b, AbandonTends
<1>3. Unowing(v, q) BY <1>2, DroppedUnowing
<1> HIDE DEF q
<1>4. Unowing(v, s) BY <1>3, MarksMild, MildUnowing
<1> HIDE DEF s
<1>5. Unowing(v, n) BY <1>4, NextSearchMinds, MindsUnowing
<1> HIDE DEF n
<1>6. Formed(n) /\ n.nearby.refresh = None BY <1>5 DEF Unowing
<1>7. l \in Maybe(StationList) BY DEF Maybe, StationList
<1> HIDE DEF l
<1>8. Minds(n, k) /\ Lets(n, k)
  <2> DEFINE x == [n EXCEPT !.nearby.list = l]
  <2>1. Minds(n, x) /\ Lets(n, x) BY <1>6, <1>7, ListSet
  <2>2. k = x BY <1>6 DEF Formed
  <2> QED BY <2>1, <2>2
<1> HIDE DEF k
<1>9. Unowing(v, k) BY <1>5, <1>8, MindsUnowing
<1> HIDE DEF p, a, q
<1>10. Unowing(v, d) BY <1>9, <1>b, DropMild, MildUnowing
<1> HIDE DEF d
<1>11. Unowing(v, g) BY <1>10, MarksMild, MildUnowing
<1> HIDE DEF g
<1>12. Unowing(v, b) BY <1>9, <1>11
<1> HIDE DEF b
<1>13. Unowing(v, e) BY <1>12, ReadsMild, MildUnowing
<1> HIDE DEF e, u
<1>14. Unowing(v, u) BY <1>1, <1>13, MarksMild, MildUnowing
<1> QED BY <1>14 DEF u

\* A refresh that its page owes can be asked for.
Claims(v, attempt) ==
  LET c == v.charge
  IN  /\ Loose(v) /\ Ready(v.nearby)
      /\ c.exit => c.attempt = attempt /\ attempt # 0 /\ ~c.exitFailed /\ c.facts # None /\ c.gate

LEMMA ChargeListLeans ==
  ASSUME NEW v, Formed(v), NEW attempt \in 0..3
  PROVE  LET u == requestNearbyStations(v, "charge", attempt) IN
         /\ Leans(v, u) /\ Lets(v, u)
         /\ Claims(v, attempt) /\ (v.charge.exit => v.charge.selection.valid) => Calm(u)
<1> DEFINE a == cancelChargeRefresh(v)
           q == cancelPendingStationList(a)
           s == setSearchPending(q, TRUE)
           n == nextSearch(s)
           l == [kind |-> "charge", fresh |-> TRUE, fits |-> TRUE]
           r == [attempt |-> attempt, fresh |-> TRUE, fits |-> TRUE,
                 listApplied |-> FALSE, detailApplied |-> FALSE]
           k == [n EXCEPT !.nearby.list = l, !.nearby.refresh = r]
           i == invalidateNearbySelection(k)
           d == supersedeDetail(i)
           g == setDetailControlsEnabled(d, TRUE)
           b == IF k.nearby.detail = None THEN k ELSE g
           u == requestNearbyStations(v, "charge", attempt)
<1>1. u = send(b, "list")
  <2> HIDE DEF n, l, r
  <2> QED BY DEF requestNearbyStations, n, l, r
<1>2. /\ Formed(a) /\ a.api.up = v.api.up /\ a.charge = v.charge
      /\ a.main.remembered = v.main.remembered /\ Leans(v, a) /\ Lets(v, a)
  BY RefreshDropped
<1> HIDE DEF a
<1>3. /\ Formed(q) /\ q.api.up = a.api.up /\ q.charge = a.charge
      /\ q.main.remembered = a.main.remembered /\ Leans(a, q) /\ Lets(a, q)
  BY <1>2, ListDropped
<1> HIDE DEF q
<1>4. Mild(q, s) BY MarksMild
<1> HIDE DEF s
<1>5. /\ Minds(s, n) /\ Lets(s, n)
      /\ Formed(s) => n.charge = s.charge /\ n.main.remembered = s.main.remembered
  BY NextSearchMinds
<1> HIDE DEF n
<1>6. /\ Formed(n) /\ n.api.up = v.api.up /\ Flow(v.charge, n.charge)
      /\ n.main.remembered = v.main.remembered
  <2>1. Formed(s) /\ s.api.up = q.api.up /\ Flow(q.charge, s.charge)
        /\ s.main.remembered = q.main.remembered
    BY <1>3, <1>4 DEF Mild
  <2> QED BY <1>2, <1>3, <1>5, <2>1 DEF Minds, Leans
<1>7. Leans(v, n) /\ Lets(v, n)
  <2>1. Leans(v, q) BY <1>2, <1>3, LeansTrans
  <2>2. Lets(v, q) BY <1>2, <1>3, LetsTrans
  <2>3. Leans(q, s) /\ Lets(q, s) BY <1>4, MildMinds
  <2>4. Leans(v, s) BY <2>1, <2>3, LeansTrans
  <2>5. Lets(v, s) BY <2>1, <2>2, <2>3, LetsTrans
  <2>6. Leans(v, n) BY <1>5, <2>4, LeansTrans DEF Minds
  <2>7. Lets(v, n) BY <1>5, <2>4, <2>5, LetsTrans
  <2> QED BY <2>6, <2>7
<1>8. l \in Maybe(StationList) /\ r \in Maybe(Refresh) /\ l # None /\ r # None
  <2>1. l \in StationList BY DEF StationList
  <2>2. r \in Refresh BY DEF Refresh
  <2> HIDE DEF l, r
  <2> QED BY <2>1, <2>2, NoneAssumption DEF Maybe
<1>9. l.kind = "charge" /\ ~r.listApplied /\ ~r.detailApplied /\ r.attempt = attempt
  OBVIOUS
<1> HIDE DEF l, r
<1>10. /\ Formed(k) /\ k.api.up = n.api.up /\ k.charge = n.charge
       /\ k.main.remembered = n.main.remembered /\ k.nearby.list = l /\ k.nearby.refresh = r
  BY <1>6, <1>8 DEF Formed
<1> HIDE DEF k
<1>11. Leans(n, k) /\ Lets(n, k) BY <1>6, <1>10, ChargeLeans
<1>12. Leans(v, k) BY <1>7, <1>11, LeansTrans
<1>13. Lets(v, k) BY <1>7, <1>11, LetsTrans
<1>14. ASSUME Claims(v, attempt), v.charge.exit => v.charge.selection.valid PROVE Calm(k)
  <2>1. Loose(k) BY <1>12, <1>14 DEF Claims, Leans
  <2>2. Ready(k.nearby) BY <1>8, <1>9, <1>10 DEF Ready, Listens
  <2>3. v.charge.exit => Waiting(k) BY <1>6, <1>8, <1>9, <1>10, <1>14 DEF Claims, Waiting, Flow
  <2>4. k.charge.exit <=> v.charge.exit BY <1>6, <1>10 DEF Flow
  <2> QED BY <2>1, <2>2, <2>3, <2>4 DEF Calm
<1>15. Retires(k, i) BY InvalidateNearbyRetires
<1>16. Early(k.nearby) BY <1>9, <1>10 DEF Early
<1>17. Tends(k, i) BY <1>10, <1>15, <1>16 DEF Retires, Tends
<1> HIDE DEF i
<1>18. Tends(k, d)
  <2>1. Tends(i, d) BY DropMild, MildMinds
  <2> QED BY <1>17, <2>1, TendsTrans
<1> HIDE DEF d
<1>19. Tends(k, g)
  <2>1. Tends(d, g) BY MarksMild, MildMinds
  <2> QED BY <1>18, <2>1, TendsTrans
<1> HIDE DEF g
<1>20. Tends(k, b)
  <2>1. Tends(k, k) BY MildSelf, MildMinds
  <2> QED BY <1>19, <2>1
<1> HIDE DEF b, u
<1>21. Tends(k, u)
  <2>1. Tends(b, u) BY <1>1, ReadsMild, MildMinds
  <2> QED BY <1>20, <2>1, TendsTrans
<1>22. Leans(v, u) BY <1>12, <1>21, LeansTrans DEF Tends
<1>23. Lets(v, u) BY <1>12, <1>13, <1>21, LetsTrans DEF Tends
<1> QED BY <1>10, <1>14, <1>21, <1>22, <1>23 DEF Tends, u

LEMMA RefreshAfterLeans ==
  ASSUME NEW v, Formed(v), NEW attempt \in 0..3
  PROVE  LET u == refreshAfterCharge(v, attempt) IN
         /\ Leans(v, u) /\ Lets(v, u)
         /\ Claims(v, attempt) => Calm(u)
<1> DEFINE a == nearbyRefreshUnavailable(v, attempt)
           b == requestNearbyStations(v, "charge", attempt)
           stale == v.nearby.foreground \/ ~v.charge.selection.fresh
                      \/ ~v.nearby.origin \/ ~v.nearby.known
<1>1. refreshAfterCharge(v, attempt) = IF stale THEN a ELSE b
  BY DEF refreshAfterCharge
<1>2. Informs(v, a, attempt) BY RefreshTold
<1>3. /\ Leans(v, b) /\ Lets(v, b)
      /\ Claims(v, attempt) /\ (v.charge.exit => v.charge.selection.valid) => Calm(b)
  BY ChargeListLeans
<1>4. ~stale => v.charge.selection.fresh OBVIOUS
<1> HIDE DEF a, b, stale
<1>5. Claims(v, attempt) => Calm(a)
  <2>1. CASE Awaits(v, attempt) BY <1>2, <2>1 DEF Informs, Claims
  <2>2. CASE ~Awaits(v, attempt)
    <3>1. a = v BY <1>2, <2>2 DEF Informs
    <3>2. Claims(v, attempt) => ~v.charge.exit BY <2>2 DEF Awaits, Claims
    <3> QED BY <3>1, <3>2 DEF Claims, Calm
  <2> QED BY <2>1, <2>2
<1>6. Claims(v, attempt) /\ ~stale => (v.charge.exit => v.charge.selection.valid)
  BY <1>4 DEF Claims, Loose, Recent
<1> QED BY <1>1, <1>2, <1>3, <1>5, <1>6 DEF Informs

-----------------------------------------------------------------------------
(* The answers that the refresh awaits.                                    *)

\* The facts are there, and the refresh awaits them no longer.
LEMMA DetailTold ==
  ASSUME NEW v, Formed(v), NEW attempt
  PROVE  LET u == applyChargeStationDetail(v, attempt)
             r == v.nearby.refresh
         IN  /\ Finishes(v, u)
             /\ /\ Loose(v) /\ Ready(v.nearby)
                /\ v.charge.exit =>
                     /\ v.charge.attempt = attempt /\ attempt # 0 /\ ~v.charge.exitFailed
                     /\ r # None /\ r.attempt = attempt /\ v.charge.facts = None
                     /\ r.fresh => v.charge.selection.valid
                => Calm(u)
<1> DEFINE r == v.nearby.refresh
           u == applyChargeStationDetail(v, attempt)
           live == r.fresh /\ r.fits /\ v.nearby.origin
           y == [v EXCEPT !.nearby.refresh.detailApplied = TRUE]
           P == /\ Loose(v) /\ Ready(v.nearby)
                /\ v.charge.exit =>
                     /\ v.charge.attempt = attempt /\ attempt # 0 /\ ~v.charge.exitFailed
                     /\ r # None /\ r.attempt = attempt /\ v.charge.facts = None
                     /\ r.fresh => v.charge.selection.valid
<1>1. CASE r = None \/ r.attempt # attempt
  <2>1. u = v BY <1>1 DEF applyChargeStationDetail
  <2>2. Leans(v, v) /\ Lets(v, v) BY MildSelf, MildMinds
  <2>3. P => Calm(v) BY <1>1 DEF Calm
  <2> QED BY <2>1, <2>2, <2>3 DEF Finishes
<1>2. CASE r # None /\ r.attempt = attempt /\ ~live
  <2>1. u = finishChargeRefreshUnavailable(v) BY <1>2 DEF applyChargeStationDetail
  <2>2. P => Hangs(v) BY DEF Hangs
  <2> QED BY <2>1, <2>2, GivenUpTold
<1>3. CASE r # None /\ r.attempt = attempt /\ live
  <2>1. u = finishChargeRefreshIfReady(y) BY <1>3 DEF applyChargeStationDetail
  <2>2. /\ Formed(y) /\ y.api = v.api /\ y.charge = v.charge /\ y.main = v.main
        /\ y.nearby.list = v.nearby.list /\ y.nearby.refresh # None
        /\ y.nearby.refresh.detailApplied
        /\ y.nearby.refresh.listApplied = r.listApplied
        /\ y.nearby.refresh.attempt = r.attempt
    <3>1. r \in Refresh BY <1>3 DEF Formed, Maybe
    <3>2. [r EXCEPT !.detailApplied = TRUE] \in Refresh BY <3>1 DEF Refresh
    <3>3. [r EXCEPT !.detailApplied = TRUE] # None BY <3>2, NoneAssumption
    <3>4. y.nearby.refresh = [r EXCEPT !.detailApplied = TRUE] BY DEF Formed
    <3>5. y.nearby.refresh \in Maybe(Refresh) BY <3>2, <3>4 DEF Maybe
    <3>6. /\ y.nearby.refresh.detailApplied
          /\ y.nearby.refresh.listApplied = r.listApplied
          /\ y.nearby.refresh.attempt = r.attempt
      BY <3>1, <3>4 DEF Refresh
    <3>7. /\ y.api = v.api /\ y.charge = v.charge /\ y.main = v.main
          /\ y.nearby.list = v.nearby.list
          /\ {"api", "charge", "nearby", "main"} \subseteq DOMAIN y
          /\ {"list", "refresh"} \subseteq DOMAIN y.nearby
      BY DEF Formed
    <3> HIDE DEF y
    <3> QED BY <3>3, <3>4, <3>5, <3>6, <3>7 DEF Formed
  <2>3. live => r.fresh OBVIOUS
  <2> HIDE DEF y, u, live
  <2>4. Leans(v, y) /\ Lets(v, y) BY <2>2 DEF Leans, Lets, Offering, Loose
  <2>5. ASSUME P PROVE Calm(finishChargeRefreshIfReady(y))
    <3>1. Loose(y) BY <2>4, <2>5 DEF Leans
    <3>2. Listens(y.nearby) BY <1>3, <2>2, <2>5 DEF Ready, Listens
    <3>3. y.charge.exit => Waiting(y) BY <1>3, <2>2, <2>3, <2>5 DEF Waiting
    <3> QED BY <2>2, <3>1, <3>2, <3>3, ReadyTold
  <2>6. Finishes(y, finishChargeRefreshIfReady(y)) BY <2>2, ReadyTold
  <2> DEFINE f == finishChargeRefreshIfReady(y)
  <2> HIDE DEF f, P
  <2>7. Leans(v, f) BY <2>4, <2>6, LeansTrans DEF Finishes, f
  <2>8. Lets(v, f) BY <2>4, <2>6, LetsTrans DEF Finishes, f
  <2>9. Finishes(v, f) BY <1>3, <2>2, <2>6, <2>7, <2>8 DEF Finishes, f
  <2> QED BY <2>1, <2>5, <2>9 DEF P, u, f
<1> QED BY <1>1, <1>2, <1>3

LEMMA DetailFailTold ==
  ASSUME NEW v, Formed(v)
  PROVE  LET u == failChargeStationDetail(v, v.charge.attempt) IN
         /\ Finishes(v, u)
         /\ Ready(v.nearby) /\ Hangs(v) => Calm(u)
<1> DEFINE r == v.nearby.refresh
           u == failChargeStationDetail(v, v.charge.attempt)
<1>1. CASE r = None \/ r.attempt # v.charge.attempt
  <2>1. u = v BY <1>1 DEF failChargeStationDetail
  <2>2. Leans(v, v) /\ Lets(v, v) BY MildSelf, MildMinds
  <2>3. Ready(v.nearby) /\ Hangs(v) => Calm(v) BY <1>1 DEF Calm, Hangs
  <2> QED BY <2>1, <2>2, <2>3 DEF Finishes
<1>2. CASE r # None /\ r.attempt = v.charge.attempt
  <2>1. u = finishChargeRefreshFailed(v) BY <1>2 DEF failChargeStationDetail
  <2> QED BY <2>1, GivenUpTold
<1> QED BY <1>1, <1>2

\* The list was answered, in whatever way.
LEMMA ListOverLeans ==
  ASSUME NEW v, Formed(v)
  PROVE  LET u == listOver(v) IN
         /\ Formed(u) /\ Leans(v, u) /\ Lets(v, u)
         /\ Hangs(v) => Hangs(u)
         /\ v.nearby.refresh = None => Minds(v, u)
         /\ u.nearby.refresh = v.nearby.refresh
<1> DEFINE l == [v EXCEPT !.nearby.list = None]
           f == v.nearby.foreground /\ v.nearby.list.kind # "foreground"
           y == [l EXCEPT !.nearby.foreground = f]
           z == [v EXCEPT !.nearby.list = None,
                          !.nearby.foreground = @ /\ v.nearby.list.kind # "foreground"]
           u == listOver(v)
<1>1. /\ Formed(l) /\ Leans(v, l) /\ Lets(v, l)
      /\ Hangs(v) => Hangs(l)
      /\ v.nearby.refresh = None => Minds(v, l)
      /\ l.nearby.refresh = v.nearby.refresh
  BY NoneFits, ListSet
<1>2. y = z BY DEF Formed
<1> HIDE DEF l
<1>3. Mild(l, y) BY MarksMild
<1>4. u = setSearchPending(z, FALSE) BY DEF listOver
<1> HIDE DEF y, z, u
<1>5. Mild(y, u) BY <1>2, <1>4, MarksMild
<1>6. Mild(l, u) BY <1>3, <1>5, MildTrans
<1>7. Minds(l, u) /\ Lets(l, u) /\ Leans(l, u) BY <1>6, MildMinds
<1>8. Leans(v, u) BY <1>1, <1>7, LeansTrans
<1>9. Lets(v, u) BY <1>1, <1>7, LetsTrans
<1>10. v.nearby.refresh = None => Minds(v, u) BY <1>1, <1>7, MindsTrans
<1> QED BY <1>1, <1>6, <1>7, <1>8, <1>9, <1>10 DEF Minds, Mild, u

\* A list that is not for the page of an order goes with no refresh.
LEMMA OtherList ==
  ASSUME NEW v, Formed(v), Calm(v), v.nearby.list # None, v.nearby.list.kind # "charge"
  PROVE  v.nearby.refresh = None
BY DEF Calm, Ready, Listens

LEMMA FinishedTends ==
  ASSUME NEW v, Formed(v), NEW y, Formed(y), Leans(v, y), Lets(v, y), Calm(v) => Hangs(y)
  PROVE  /\ Tends(v, finishChargeRefreshUnavailable(y))
         /\ Tends(v, finishChargeRefreshFailed(y))
<1>1. /\ Finishes(y, finishChargeRefreshUnavailable(y))
      /\ Finishes(y, finishChargeRefreshFailed(y))
      /\ Hangs(y) => /\ Calm(finishChargeRefreshUnavailable(y))
                     /\ Calm(finishChargeRefreshFailed(y))
  BY GivenUpTold
<1> DEFINE a == finishChargeRefreshUnavailable(y)
           b == finishChargeRefreshFailed(y)
<1> HIDE DEF a, b
<1>2. Leans(v, a) /\ Leans(v, b) BY <1>1, LeansTrans DEF Finishes, a, b
<1>3. Lets(v, a) /\ Lets(v, b) BY <1>1, LetsTrans DEF Finishes, a, b
<1> QED BY <1>1, <1>2, <1>3 DEF Tends, a, b

LEMMA IgnoredTends ==
  ASSUME NEW v, Formed(v), v.nearby.list # None
  PROVE  Tends(v, listIgnored(v))
<1>1. /\ Formed(listOver(v)) /\ Leans(v, listOver(v)) /\ Lets(v, listOver(v))
      /\ Hangs(v) => Hangs(listOver(v))
      /\ v.nearby.refresh = None => Minds(v, listOver(v))
  BY ListOverLeans
<1>2. CASE v.nearby.list.kind = "charge"
  <2>1. listIgnored(v) = finishChargeRefreshUnavailable(listOver(v)) BY <1>2 DEF listIgnored
  <2> QED BY <1>1, <2>1, CalmHangs, FinishedTends
<1>3. CASE v.nearby.list.kind # "charge"
  <2>1. listIgnored(v) = listOver(v) BY <1>3 DEF listIgnored
  <2>2. Calm(v) => Minds(v, listOver(v)) BY <1>1, <1>3, OtherList
  <2> QED BY <1>1, <2>1, <2>2 DEF Tends, Minds
<1> QED BY <1>2, <1>3

LEMMA StationsTends ==
  ASSUME NEW v, Formed(v), v.nearby.list # None, NEW has
  PROVE  Tends(v, applyStations(v, has))
<1> DEFINE kind == v.nearby.list.kind
           d == supersedeDetail(v)
           o == [d EXCEPT !.nearby.list = None]
           p == [v EXCEPT !.nearby.list = None]
           f == [o EXCEPT !.nearby.foreground = FALSE]
           n == nextSearch(f)
           i == invalidateNearbySelection(n)
           x == [i EXCEPT !.nearby.origin = TRUE]
           y == [x EXCEPT !.nearby.known = has]
           z == [y EXCEPT !.nearby.shown = FALSE]
           k == [p EXCEPT !.nearby.known = has]
           u == applyStations(v, has)
<1>1. CASE kind = "foreground"
  <2>0. [i EXCEPT !.nearby.origin = TRUE, !.nearby.known = has, !.nearby.shown = FALSE] = z
    <3> HIDE DEF i
    <3> QED OBVIOUS
  <2>1. u = z
    <3>1. u = [i EXCEPT !.nearby.origin = TRUE, !.nearby.known = has, !.nearby.shown = FALSE]
      BY <1>1 DEF applyStations
    <3> QED BY <2>0, <3>1
  <2>2. Mild(v, d) BY DropMild
  <2> HIDE DEF d
  <2>3. Formed(d) BY <2>2 DEF Mild
  <2>4. Leans(d, o) /\ Lets(d, o) /\ (d.nearby.refresh = None => Minds(d, o)) /\ Formed(o)
        /\ o.nearby.refresh = d.nearby.refresh
    BY <2>3, NoneFits, ListSet
  <2> HIDE DEF o
  <2>5. Mild(o, f) BY MarksMild
  <2> HIDE DEF f
  <2>6. Minds(f, n) /\ Lets(f, n) BY NextSearchMinds
  <2> HIDE DEF n
  <2>7. Retires(n, i) BY InvalidateNearbyRetires
  <2> HIDE DEF i
  <2>8. Mild(i, x) /\ Mild(x, y) /\ Mild(y, z) BY MarksMild
  <2> HIDE DEF x, y, z
  <2>9. Leans(v, d) /\ Lets(v, d) /\ Leans(o, f) /\ Lets(o, f)
    BY <2>2, <2>5, MildMinds
  <2>10. Leans(v, o) BY <2>4, <2>9, LeansTrans
  <2>11. Leans(v, f) BY <2>9, <2>10, LeansTrans
  <2>12. Lets(v, o) BY <2>4, <2>9, LetsTrans
  <2>13. Lets(v, f) BY <2>9, <2>10, <2>12, LetsTrans
  <2>14. Leans(v, n) BY <2>6, <2>11, LeansTrans DEF Minds
  <2>15. Lets(v, n) BY <2>6, <2>11, <2>13, LetsTrans
  <2>16. Leans(v, i) BY <2>7, <2>14, LeansTrans DEF Retires
  <2>17. Lets(v, i) BY <2>7, <2>14, <2>15, LetsTrans DEF Retires
  <2>18. ASSUME Calm(v) PROVE Calm(i)
    <3>1. v.nearby.refresh = None BY <1>1, <2>18, OtherList
    <3>2. d.nearby.refresh = None BY <2>2, <3>1 DEF Mild
    <3>3. Calm(d) BY <2>2, <2>18, MildMinds DEF Minds
    <3>4. Calm(o) /\ o.nearby.refresh = None BY <2>3, <2>4, <3>2, <3>3 DEF Minds
    <3>5. Calm(f) /\ f.nearby.refresh = None /\ Formed(f)
      BY <2>4, <2>5, <3>4, MildMinds DEF Minds, Mild
    <3>6. Calm(n) /\ n.nearby.refresh = None /\ Formed(n)
      BY <2>6, <3>5 DEF Minds, Leans
    <3> QED BY <2>7, <3>6 DEF Retires, Early
  <2>19. Tends(v, i) BY <2>16, <2>17, <2>18 DEF Tends
  <2>20. Mild(i, z) BY <2>8, MildTrans
  <2>21. Tends(v, z) BY <2>19, <2>20, MildMinds, TendsTrans
  <2> QED BY <2>1, <2>21
<1>2. CASE kind # "foreground"
  <2>1. /\ Leans(v, p) /\ Lets(v, p) /\ (v.nearby.refresh = None => Minds(v, p)) /\ Formed(p)
        /\ p.nearby.refresh = v.nearby.refresh /\ (Hangs(v) => Hangs(p))
        /\ p.charge = v.charge /\ p.nearby.list = None /\ p.api.up = v.api.up
        /\ p.main.remembered = v.main.remembered
    BY NoneFits, ListSet
  <2>2. u = IF kind # "charge" \/ v.nearby.refresh = None THEN k
            ELSE IF has
                 THEN finishChargeRefreshIfReady([k EXCEPT !.nearby.refresh.listApplied = TRUE])
                 ELSE finishChargeRefreshUnavailable(
                        [invalidateNearbySelection(k) EXCEPT !.nearby.shown = FALSE])
    BY <1>2 DEF applyStations
  <2> HIDE DEF p
  <2>3. Mild(p, k) BY MarksMild
  <2>4. /\ Formed(k) /\ k.api.up = v.api.up /\ Flow(v.charge, k.charge) /\ k.nearby.list = None
        /\ k.nearby.refresh = v.nearby.refresh /\ k.main.remembered = v.main.remembered
    BY <2>1, <2>3 DEF Mild
  <2> HIDE DEF k, u
  <2>5. Leans(p, k) /\ Lets(p, k) /\ Minds(p, k) BY <2>3, MildMinds
  <2>6. Leans(v, k) BY <2>1, <2>5, LeansTrans
  <2>7. Lets(v, k) BY <2>1, <2>5, LetsTrans
  <2>8. Hangs(v) => Hangs(k) BY <2>1, <2>5 DEF Minds
  <2>9. CASE kind # "charge" \/ v.nearby.refresh = None
    <3>1. Calm(v) => v.nearby.refresh = None BY <2>9, OtherList
    <3>2. Calm(v) => Calm(k) BY <2>1, <2>5, <3>1 DEF Minds
    <3> QED BY <2>2, <2>6, <2>7, <2>9, <3>2 DEF Tends, u
  <2>10. CASE kind = "charge" /\ v.nearby.refresh # None /\ has
    <3> DEFINE r == v.nearby.refresh
               a == [k EXCEPT !.nearby.refresh.listApplied = TRUE]
               e == finishChargeRefreshIfReady(a)
    <3>1. u = e BY <2>2, <2>10
    <3>2. /\ Formed(a) /\ a.api = k.api /\ a.charge = k.charge /\ a.main = k.main
          /\ a.nearby.list = None /\ a.nearby.refresh # None
          /\ a.nearby.refresh.listApplied
          /\ a.nearby.refresh.detailApplied = r.detailApplied
          /\ a.nearby.refresh.attempt = r.attempt /\ a.nearby.refresh.fresh = r.fresh
      <4>1. r \in Refresh BY <2>10 DEF Formed, Maybe
      <4>2. [r EXCEPT !.listApplied = TRUE] \in Refresh BY <4>1 DEF Refresh
      <4>3. [r EXCEPT !.listApplied = TRUE] # None BY <4>2, NoneAssumption
      <4>4. a.nearby.refresh = [r EXCEPT !.listApplied = TRUE] BY <2>4 DEF Formed
      <4>5. a.nearby.refresh \in Maybe(Refresh) BY <4>2, <4>4 DEF Maybe
      <4>6. /\ a.nearby.refresh.listApplied
            /\ a.nearby.refresh.detailApplied = r.detailApplied
            /\ a.nearby.refresh.attempt = r.attempt /\ a.nearby.refresh.fresh = r.fresh
        BY <4>1, <4>4 DEF Refresh
      <4>7. /\ a.api = k.api /\ a.charge = k.charge /\ a.main = k.main
            /\ a.nearby.list = k.nearby.list
            /\ {"api", "charge", "nearby", "main"} \subseteq DOMAIN a
            /\ {"list", "refresh"} \subseteq DOMAIN a.nearby
        BY <2>4 DEF Formed
      <4> HIDE DEF a
      <4> QED BY <2>4, <4>3, <4>4, <4>5, <4>6, <4>7 DEF Formed
    <3> HIDE DEF a
    <3>3. Leans(k, a) /\ Lets(k, a)
      BY <3>2 DEF Leans, Lets, Offering, Loose
    <3>4. ASSUME Calm(v) PROVE Calm(e)
      <4>1. Loose(a) BY <2>4, <2>6, <3>3, <3>4 DEF Leans, Calm
      <4>2. Listens(a.nearby) BY <3>2 DEF Listens
      <4>3. Waiting(v) => Waiting(a) BY <2>4, <2>10, <3>2 DEF Waiting, Flow
      <4>4. Retrying(v.charge) => Retrying(a.charge) BY <2>4, <3>2 DEF Retrying, Flow
      <4>5. a.charge.exit <=> v.charge.exit BY <2>4, <3>2 DEF Flow
      <4> QED BY <3>2, <3>4, <4>1, <4>2, <4>3, <4>4, <4>5, ReadyTold DEF Calm
    <3>5. Finishes(a, e) BY <3>2, ReadyTold
    <3> HIDE DEF e
    <3>6. Leans(v, a) BY <2>6, <3>3, LeansTrans
    <3>7. Lets(v, a) BY <2>6, <2>7, <3>3, LetsTrans
    <3>8. Leans(v, e) BY <3>5, <3>6, LeansTrans DEF Finishes
    <3>9. Lets(v, e) BY <3>5, <3>6, <3>7, LetsTrans DEF Finishes
    <3> QED BY <3>1, <3>4, <3>8, <3>9 DEF Tends, u
  <2>11. CASE kind = "charge" /\ v.nearby.refresh # None /\ ~has
    <3> DEFINE a == invalidateNearbySelection(k)
               b == [a EXCEPT !.nearby.shown = FALSE]
    <3>1. u = finishChargeRefreshUnavailable(b) BY <2>2, <2>11
    <3>2. Retires(k, a) BY InvalidateNearbyRetires
    <3> HIDE DEF a
    <3>3. Mild(a, b) BY MarksMild
    <3> HIDE DEF b
    <3>4. Formed(a) /\ Formed(b) BY <2>4, <3>2, <3>3 DEF Retires, Leans, Mild
    <3>5. Leans(v, a) BY <2>6, <3>2, LeansTrans DEF Retires
    <3>6. Lets(v, a) BY <2>6, <2>7, <3>2, LetsTrans DEF Retires
    <3>7. Leans(a, b) /\ Lets(a, b) /\ Minds(a, b) BY <3>3, MildMinds
    <3>8. Leans(v, b) BY <3>5, <3>7, LeansTrans
    <3>9. Lets(v, b) BY <3>5, <3>6, <3>7, LetsTrans
    <3>10. Calm(v) => Hangs(b)
      BY <2>4, <2>8, <3>2, <3>4, <3>7, CalmHangs DEF Retires, Minds
    <3> QED BY <3>1, <3>4, <3>8, <3>9, <3>10, FinishedTends DEF u
  <2> QED BY <2>9, <2>10, <2>11
<1> QED BY <1>1, <1>2

LEMMA TendsMild ==
  ASSUME NEW a, NEW b, NEW c, Tends(a, b), Mild(b, c) PROVE Tends(a, c)
BY MildMinds, TendsTrans

LEMMA ListLoadedTends ==
  ASSUME NEW v, Formed(v), v.nearby.list # None, NEW has
  PROVE  Tends(v, nearbyStationsLoaded(v, has))
<1> DEFINE a == applyStations(v, has)
           s == setSearchPending(a, FALSE)
           e == setDetailControlsEnabled(s, TRUE)
<1>1. nearbyStationsLoaded(v, has) = IF listStale(v) THEN listIgnored(v) ELSE e
  BY DEF nearbyStationsLoaded
<1>2. Tends(v, a) BY StationsTends
<1> HIDE DEF a
<1>3. Tends(v, s) BY <1>2, MarksMild, TendsMild
<1> HIDE DEF s
<1>4. Tends(v, e) BY <1>3, MarksMild, TendsMild
<1> QED BY <1>1, <1>4, IgnoredTends

LEMMA ListFailedTends ==
  ASSUME NEW v, Formed(v), v.nearby.list # None
  PROVE  Tends(v, nearbyStationsFailed(v))
<1> DEFINE l == listOver(v)
           y == setDetailControlsEnabled(l, TRUE)
           i == listIgnored(v)
           j == [i EXCEPT !.nearby.foreground = v.nearby.foreground]
<1>1. nearbyStationsFailed(v) = IF listStale(v) THEN j
                                ELSE IF v.nearby.list.kind = "charge"
                                     THEN finishChargeRefreshFailed(y) ELSE y
  BY DEF nearbyStationsFailed
<1>2. Tends(v, i) BY IgnoredTends
<1>3. /\ Formed(l) /\ Leans(v, l) /\ Lets(v, l)
      /\ Hangs(v) => Hangs(l)
      /\ v.nearby.refresh = None => Minds(v, l)
  BY ListOverLeans
<1> HIDE DEF i, l
<1>4. Tends(v, j) BY <1>2, MarksMild, TendsMild
<1>5. Mild(l, y) BY MarksMild
<1> HIDE DEF y
<1>6. Leans(l, y) /\ Lets(l, y) /\ Minds(l, y) /\ Formed(y) BY <1>3, <1>5, MildMinds DEF Mild
<1>7. Leans(v, y) BY <1>3, <1>6, LeansTrans
<1>8. Lets(v, y) BY <1>3, <1>6, LetsTrans
<1>9. Calm(v) => Hangs(y) BY <1>3, <1>6, CalmHangs DEF Minds
<1>10. Tends(v, finishChargeRefreshFailed(y))
  BY <1>6, <1>7, <1>8, <1>9, FinishedTends
<1>11. CASE v.nearby.list.kind # "charge"
  <2>1. Calm(v) => Calm(y) BY <1>3, <1>6, <1>11, OtherList DEF Minds
  <2>2. Tends(v, y) BY <1>7, <1>8, <2>1 DEF Tends
  <2> QED BY <1>1, <1>4, <1>11, <2>2
<1>12. CASE v.nearby.list.kind = "charge"
  BY <1>1, <1>4, <1>10, <1>12
<1> QED BY <1>11, <1>12

-----------------------------------------------------------------------------
(* The chargers of a station, the searches and the connection.             *)

LEMMA UnowingTends ==
  ASSUME NEW v, NEW u, Unowing(v, u) PROVE Tends(v, u)
BY DEF Unowing

LEMMA DetailRequested ==
  ASSUME NEW v, Formed(v), NEW id
  PROVE  Tends(v, requestStationDetail(v, id))
<1> DEFINE a == abandonChargeRefresh(v)
           i == invalidateNearbySelection(a)
           s == setDetailControlsEnabled(i, FALSE)
           d == [s EXCEPT !.nearby.detail = [id |-> id, fits |-> TRUE]]
           u == requestStationDetail(v, id)
<1>1. u = sendDetail(d, id) BY DEF requestStationDetail
<1>2. Unowing(v, a) BY AbandonTends
<1> HIDE DEF a
<1>3. Unowing(v, i) BY <1>2, InvalidateNearbyRetires, RetiresUnowing
<1> HIDE DEF i
<1>4. Unowing(v, s) BY <1>3, MarksMild, MildUnowing
<1> HIDE DEF s
<1>5. Unowing(v, d) BY <1>4, MarksMild, MildUnowing
<1> HIDE DEF d, u
<1>6. Unowing(v, u) BY <1>1, <1>5, DetailsMild, MildUnowing
<1> QED BY <1>6, UnowingTends DEF u

LEMMA DetailAnswered ==
  ASSUME NEW v, Formed(v), NEW id
  PROVE  /\ Tends(v, stationDetailLoaded(cancelDetails(v, {id}), id))
         /\ Tends(v, stationDetailFailed(cancelDetails(v, {id}), id))
<1> DEFINE y == cancelDetails(v, {id})
           g == [y EXCEPT !.nearby.superseded = @ \ {id}]
           x == [y EXCEPT !.nearby.detail = None]
           a == abandonChargeRefresh(x)
           i == invalidateNearbySelection(a)
           s == [i EXCEPT !.nearby.shown = TRUE]
           e == setDetailControlsEnabled(s, TRUE)
           f == setDetailControlsEnabled(x, TRUE)
<1>1. stationDetailLoaded(y, id) \in {g, e} /\ stationDetailFailed(y, id) \in {g, f}
  BY DEF stationDetailLoaded, stationDetailFailed
<1>2. Mild(v, x) /\ Mild(v, g)
  <2>1. Mild(v, y) BY DetailsMild
  <2> HIDE DEF y
  <2>2. Mild(y, x) BY MarksMild
  <2>3. Mild(y, g) BY MildParts DEF Formed
  <2> HIDE DEF x, g
  <2> QED BY <2>1, <2>2, <2>3, MildTrans
<1> HIDE DEF x, g
<1>3. Formed(x) BY <1>2 DEF Mild
<1>4. Unowing(x, a) BY <1>3, AbandonTends
<1> HIDE DEF a
<1>5. Unowing(x, i) BY <1>3, <1>4, InvalidateNearbyRetires, RetiresUnowing
<1> HIDE DEF i
<1>6. Unowing(x, s) BY <1>5, MarksMild, MildUnowing
<1> HIDE DEF s
<1>7. Unowing(x, e) BY <1>6, MarksMild, MildUnowing
<1> HIDE DEF e
<1>8. Tends(v, e) BY <1>2, <1>7, MildMinds, TendsTrans DEF Unowing
<1>9. Mild(x, f) BY MarksMild
<1> HIDE DEF f, y
<1>10. Tends(v, f) BY <1>2, <1>9, MildMinds, TendsTrans
<1>11. Tends(v, g) BY <1>2, MildMinds
<1>12. Tends(v, stationDetailLoaded(y, id)) /\ Tends(v, stationDetailFailed(y, id))
  BY <1>1, <1>8, <1>10, <1>11
<1> QED BY <1>12 DEF y

LEMMA AddressTends ==
  ASSUME NEW v, Formed(v)
  PROVE  Tends(v, searchCurrentAddress(v))
<1> DEFINE n == nextSearch(v)
           f == [n EXCEPT !.nearby.foreground = TRUE]
           s == setSearchPending(f, TRUE)
           e == setDetailControlsEnabled(s, FALSE)
           a == abandonChargeRefresh(e)
           q == cancelPendingStationList(a)
           d == cancelDetail(q)
           u == searchCurrentAddress(v)
<1>1. u = [d EXCEPT !.nearby.geocode = TRUE] BY Zenon DEF searchCurrentAddress
<1>2. Minds(v, n) /\ Lets(v, n) BY NextSearchMinds
<1> HIDE DEF n
<1>3. Tends(v, n) BY <1>2, MindsTends
<1>4. Tends(v, f) BY <1>3, MarksMild, TendsMild
<1> HIDE DEF f
<1>5. Tends(v, s) BY <1>4, MarksMild, TendsMild
<1> HIDE DEF s
<1>6. Tends(v, e) BY <1>5, MarksMild, TendsMild
<1> HIDE DEF e
<1>7. Formed(e) BY <1>6 DEF Tends, Leans
<1>8. Unowing(e, a) BY <1>7, AbandonTends
<1> HIDE DEF a
<1>9. Unowing(e, q) BY <1>7, <1>8, DroppedUnowing
<1> HIDE DEF q
<1>10. Unowing(e, d) BY <1>9, DropMild, MildUnowing
<1> HIDE DEF d, u
<1>11. Unowing(e, u) BY <1>1, <1>10, MarksMild, MildUnowing
<1>12. Tends(v, u) BY <1>6, <1>11, TendsTrans DEF Unowing
<1> QED BY <1>12 DEF u

LEMMA BothMild ==
  ASSUME NEW v, NEW f, NEW g
  PROVE  Mild(v, [v EXCEPT !.nearby.geocode = f, !.nearby.foreground = g])
<1> DEFINE u == [v EXCEPT !.nearby.geocode = f, !.nearby.foreground = g]
<1>1. Formed(v) =>
        /\ {"api", "charge", "nearby", "main"} \subseteq DOMAIN u /\ "up" \in DOMAIN u.api
        /\ {"list", "refresh"} \subseteq DOMAIN u.nearby /\ "remembered" \in DOMAIN u.main
        /\ u.api.up = v.api.up /\ u.charge = v.charge
        /\ u.nearby.list = v.nearby.list /\ u.nearby.refresh = v.nearby.refresh
        /\ u.main.remembered = v.main.remembered
  BY DEF Formed
<1> HIDE DEF u
<1>2. Mild(v, u) BY <1>1, MildParts
<1> QED BY <1>2 DEF u

LEMMA GeocodeTends ==
  ASSUME NEW v, Formed(v)
  PROVE  Tends(v, geocodeSucceeded(v)) /\ Tends(v, geocodeFailed(v))
<1> DEFINE x == [v EXCEPT !.nearby.geocode = FALSE, !.nearby.foreground = TRUE]
           a == abandonChargeRefresh(x)
           q == cancelPendingStationList(a)
           d == supersedeDetail(q)
           s == setDetailControlsEnabled(d, FALSE)
           u == geocodeSucceeded(v)
           y == [v EXCEPT !.nearby.geocode = FALSE, !.nearby.foreground = FALSE]
           z == setSearchPending(y, FALSE)
           t == geocodeFailed(v)
<1>1. u = requestNearbyStations(s, "foreground", 0) BY Zenon DEF geocodeSucceeded
<1>2. t = setDetailControlsEnabled(z, v.api.up) BY DEF geocodeFailed
<1>3. Mild(v, x) /\ Mild(v, y) BY BothMild
<1> HIDE DEF x, y
<1>4. Formed(x) BY <1>3 DEF Mild
<1>5. Unowing(x, a) BY <1>4, AbandonTends
<1> HIDE DEF a
<1>6. Unowing(x, q) BY <1>4, <1>5, DroppedUnowing
<1> HIDE DEF q
<1>7. Unowing(x, d) BY <1>6, DropMild, MildUnowing
<1> HIDE DEF d
<1>8. Unowing(x, s) BY <1>7, MarksMild, MildUnowing
<1> HIDE DEF s, u
<1>9. Formed(s) BY <1>4, <1>8 DEF Unowing
<1>10. Unowing(s, u) BY <1>1, <1>9, ForegroundTends
<1>11. Unowing(x, u) BY <1>8, <1>10, UnowingTrans
<1>12. Tends(v, u) BY <1>3, <1>11, MildMinds, TendsTrans DEF Unowing
<1>13. Mild(y, z) BY MarksMild
<1> HIDE DEF z, t
<1>14. Mild(z, t) BY <1>2, MarksMild
<1>15. Tends(v, t) BY <1>3, <1>13, <1>14, MildTrans, MildMinds
<1> QED BY <1>12, <1>15 DEF u, t

LEMMA ReconnectMinds ==
  ASSUME NEW v, Formed(v)
  PROVE  LET u == requestReconnectStations(v) IN
         /\ Minds(v, u) /\ Lets(v, u) /\ u.charge = v.charge
<1> DEFINE q == cancelPendingStationList(v)
           n == nextSearch(q)
           l == [kind |-> "reconnect", fresh |-> TRUE, fits |-> TRUE]
           k == [n EXCEPT !.nearby.list = l]
           e == send(k, "list")
           u == requestReconnectStations(v)
<1>1. u = v \/ (v.nearby.refresh = None /\ u = e)
  BY Zenon DEF requestReconnectStations
<1>2. CASE u = v BY <1>2, MildSelf, MildMinds
<1>3. CASE v.nearby.refresh = None /\ u = e
  <2>1. Minds(v, q) /\ Lets(v, q) /\ q.charge = v.charge /\ Formed(q)
        /\ q.nearby.refresh = None
    BY <1>3, ListDropped
  <2> HIDE DEF q
  <2>2. /\ Minds(q, n) /\ Lets(q, n)
        /\ Formed(q) => n.charge = q.charge /\ (n.nearby.refresh = None <=> q.nearby.refresh = None)
    BY NextSearchMinds
  <2> HIDE DEF n
  <2>3. Formed(n) /\ n.nearby.refresh = None BY <2>1, <2>2 DEF Minds, Leans
  <2>4. l \in Maybe(StationList) BY DEF Maybe, StationList
  <2> HIDE DEF l
  <2>5. Minds(n, k) /\ Lets(n, k) /\ k.charge = n.charge /\ Formed(k) BY <2>3, <2>4, ListSet
  <2> HIDE DEF k
  <2>6. Mild(k, e) /\ e.charge = k.charge BY <2>5, ReadsMild
  <2> HIDE DEF e, u
  <2>7. Minds(k, e) /\ Lets(k, e) BY <2>6, MildMinds
  <2>8. Minds(v, n) BY <2>1, <2>2, MindsTrans
  <2>9. Lets(v, n) BY <2>1, <2>2, LetsTrans DEF Minds
  <2>10. Minds(v, k) BY <2>5, <2>8, MindsTrans
  <2>11. Lets(v, k) BY <2>5, <2>8, <2>9, LetsTrans DEF Minds
  <2>12. Minds(v, e) BY <2>7, <2>10, MindsTrans
  <2>13. Lets(v, e) BY <2>7, <2>10, <2>11, LetsTrans DEF Minds
  <2> QED BY <1>3, <2>1, <2>2, <2>5, <2>6, <2>12, <2>13 DEF u
<1> QED BY <1>1, <1>2, <1>3

\* The list and the refresh are given up, and what the page of an order owes is
\* read again by itself.
LEMMA NearbyCleared ==
  ASSUME NEW v, Formed(v)
  PROVE  LET x == [v EXCEPT !.nearby.geocode = FALSE, !.nearby.foreground = FALSE]
             u == cancelPendingStationList(cancelChargeRefresh(x))
         IN  /\ Leans(v, u) /\ Lets(v, u) /\ Formed(u) /\ u.nearby.refresh = None
             /\ Loose(v) /\ (v.charge.exit => Retrying(v.charge)) => Calm(u)
<1> DEFINE x == [v EXCEPT !.nearby.geocode = FALSE, !.nearby.foreground = FALSE]
           c == cancelChargeRefresh(x)
           u == cancelPendingStationList(c)
<1>1. Mild(v, x) BY BothMild
<1> HIDE DEF x
<1>2. Formed(x) /\ Flow(v.charge, x.charge) BY <1>1 DEF Mild
<1>3. /\ Formed(c) /\ c.api.up = x.api.up /\ c.charge = x.charge
      /\ c.main.remembered = x.main.remembered /\ c.nearby.refresh = None
      /\ Leans(x, c) /\ Lets(x, c)
  BY <1>2, RefreshDropped
<1> HIDE DEF c
<1>4. /\ Formed(u) /\ u.nearby.refresh = None /\ Leans(c, u) /\ Lets(c, u) /\ Minds(c, u)
  BY <1>3, ListDropped
<1> HIDE DEF u
<1>5. Leans(v, x) /\ Lets(v, x) BY <1>1, MildMinds
<1>6. Leans(v, c) BY <1>3, <1>5, LeansTrans
<1>7. Lets(v, c) BY <1>3, <1>5, LetsTrans
<1>8. Leans(v, u) BY <1>4, <1>6, LeansTrans
<1>9. Lets(v, u) BY <1>4, <1>6, <1>7, LetsTrans
<1>10. ASSUME Loose(v), v.charge.exit => Retrying(v.charge) PROVE Calm(u)
  <2>1. Loose(x) BY <1>5, <1>10 DEF Leans
  <2>2. x.charge.exit => Retrying(x.charge) BY <1>2, <1>10 DEF Flow, Retrying
  <2>3. Calm(c) BY <1>2, <1>3, <2>1, <2>2, ChargeLeans
  <2> QED BY <1>3, <1>4, <2>3 DEF Minds
<1> QED BY <1>4, <1>8, <1>9, <1>10 DEF x, c, u

LEMMA NearbyLinkLeans ==
  ASSUME NEW v, Formed(v)
  PROVE  LET u == NearbyConnectionChanged(v) IN
         /\ Leans(v, u) /\ Lets(v, u)
         /\ v.api.up => Tends(v, u)
         /\ Loose(v) /\ (v.charge.exit => Retrying(v.charge)) /\ ~v.api.up => Calm(u)
<1> DEFINE x == [v EXCEPT !.nearby.geocode = FALSE, !.nearby.foreground = FALSE]
           q == cancelPendingStationList(cancelChargeRefresh(x))
           d == cancelEveryDetail(q)
           s == setDetailControlsEnabled(d, TRUE)
           n == v.nearby
           b == n.foreground \/ n.geocode \/ n.list # None
           e == n.controls \/ (n.list = None /\ ~n.foreground)
           t == setSearchPending(v, b)
           u == NearbyConnectionChanged(v)
<1>1. u = IF ~v.api.up THEN setSearchPending(s, FALSE) ELSE setDetailControlsEnabled(t, e)
  BY Zenon DEF NearbyConnectionChanged
<1>2. CASE v.api.up
  <2> HIDE DEF b, e
  <2>1. Mild(v, t) BY MarksMild
  <2> HIDE DEF t, u
  <2>2. Mild(t, u) BY <1>1, <1>2, MarksMild
  <2>3. Mild(v, u) BY <2>1, <2>2, MildTrans
  <2> QED BY <1>2, <2>3, MildMinds DEF u
<1>3. CASE ~v.api.up
  <2>1. /\ Leans(v, q) /\ Lets(v, q) /\ Formed(q)
        /\ Loose(v) /\ (v.charge.exit => Retrying(v.charge)) => Calm(q)
    BY NearbyCleared
  <2> HIDE DEF q
  <2>2. Mild(q, d) BY DropMild
  <2> HIDE DEF d
  <2>3. Mild(d, s) BY MarksMild
  <2> HIDE DEF s, u
  <2>4. Mild(s, u) BY <1>1, <1>3, MarksMild
  <2>5. Mild(q, u) BY <2>2, <2>3, <2>4, MildTrans
  <2>6. Leans(q, u) /\ Lets(q, u) /\ Minds(q, u) BY <2>5, MildMinds
  <2>7. Leans(v, u) BY <2>1, <2>6, LeansTrans
  <2>8. Lets(v, u) BY <2>1, <2>6, LetsTrans
  <2> QED BY <1>3, <2>1, <2>6, <2>7, <2>8 DEF Minds, u
<1> QED BY <1>2, <1>3

LEMMA NearbyResetLeans ==
  ASSUME NEW v, Formed(v)
  PROVE  LET u == resetNearbyPage(v) IN
         Leans(v, u) /\ Lets(v, u) /\ Formed(u) /\ u.nearby.refresh = None
<1> DEFINE x == [v EXCEPT !.nearby.geocode = FALSE, !.nearby.foreground = FALSE]
           q == cancelPendingStationList(cancelChargeRefresh(x))
           d == cancelDetail(q)
           n == nextSearch(d)
           k == nextSelection(n)
           o == [k EXCEPT !.nearby.origin = FALSE, !.nearby.known = FALSE,
                          !.nearby.shown = FALSE, !.nearby.superseded = {}]
           s == setSearchPending(o, FALSE)
           u == resetNearbyPage(v)
<1>1. u = setDetailControlsEnabled(s, FALSE) BY Zenon DEF resetNearbyPage
<1>2. Leans(v, q) /\ Lets(v, q) /\ Formed(q) /\ q.nearby.refresh = None BY NearbyCleared
<1> HIDE DEF q
<1>3. Mild(q, d) BY DropMild
<1> HIDE DEF d
<1>4. Minds(d, n) /\ Lets(d, n) BY NextSearchMinds
<1> HIDE DEF n
<1>5. Minds(n, k) /\ Lets(n, k) BY NextSelectionMinds
<1> HIDE DEF k
<1>6. Mild(k, o)
  <2>1. Formed(k) =>
          /\ {"api", "charge", "nearby", "main"} \subseteq DOMAIN o /\ "up" \in DOMAIN o.api
          /\ {"list", "refresh"} \subseteq DOMAIN o.nearby /\ "remembered" \in DOMAIN o.main
          /\ o.api.up = k.api.up /\ o.charge = k.charge
          /\ o.nearby.list = k.nearby.list /\ o.nearby.refresh = k.nearby.refresh
          /\ o.main.remembered = k.main.remembered
    BY DEF Formed
  <2> HIDE DEF o
  <2> QED BY <2>1, MildParts
<1> HIDE DEF o
<1>7. Mild(o, s) BY MarksMild
<1> HIDE DEF s, u
<1>8. Mild(s, u) BY <1>1, MarksMild
<1>9. Mild(k, u) BY <1>6, <1>7, <1>8, MildTrans
<1>10. Minds(q, d) /\ Lets(q, d) /\ Minds(k, u) /\ Lets(k, u) BY <1>3, <1>9, MildMinds
<1>11. Minds(q, n) BY <1>4, <1>10, MindsTrans
<1>12. Lets(q, n) BY <1>4, <1>10, LetsTrans DEF Minds
<1>13. Minds(q, k) BY <1>5, <1>11, MindsTrans
<1>14. Lets(q, k) BY <1>5, <1>11, <1>12, LetsTrans DEF Minds
<1>15. Minds(q, u) BY <1>10, <1>13, MindsTrans
<1>16. Lets(q, u) BY <1>10, <1>13, <1>14, LetsTrans DEF Minds
<1>17. Leans(v, u) BY <1>2, <1>15, LeansTrans DEF Minds
<1>18. Lets(v, u) BY <1>2, <1>16, LetsTrans
<1> QED BY <1>2, <1>15, <1>17, <1>18 DEF Minds, Leans, u

-----------------------------------------------------------------------------
(* The page of an order is entered, reads its order and is left.           *)

LEMMA NextPageMarks ==
  ASSUME NEW v, Formed(v)
  PROVE  LET u == nextPage(v) IN
         /\ Formed(u) /\ u.api = v.api /\ u.nearby = v.nearby /\ u.main = v.main
         /\ u.charge = [v.charge EXCEPT !.mutation = u.charge.mutation]
         /\ v.charge.mutation = None => u.charge.mutation = None
BY DEF nextPage, Formed

\* What a page that is begun is like, whatever it was.
LEMMA PageBegun ==
  ASSUME NEW v, Formed(v), NEW g
  PROVE  LET u == beginPage(v, g)
             c == u.charge
         IN  /\ Formed(u) /\ u.api.up = v.api.up /\ u.main.remembered = v.main.remembered
             /\ u.nearby.refresh = None
             /\ c.active /\ ~c.exit /\ c.current /\ c.read = None /\ c.facts = None
             /\ c.order = v.charge.order /\ c.selection = v.charge.selection
<1> DEFINE n == nextPage(v)
           x == [n EXCEPT !.charge.selGen = g]
           o == cancelOwnedSafeReads(x)
           u == beginPage(v, g)
           c == u.charge
<1>1. u = [o EXCEPT
             !.charge.active = TRUE, !.charge.reconcile = FALSE, !.charge.factsFailed = FALSE,
             !.charge.exit = FALSE, !.charge.exitFailed = FALSE, !.charge.attempt = 0,
             !.charge.noOrder = FALSE, !.charge.polling = FALSE]
  BY Zenon DEF beginPage
<1>2. /\ Formed(n) /\ n.api = v.api /\ n.nearby = v.nearby /\ n.main = v.main
      /\ n.charge = [v.charge EXCEPT !.mutation = n.charge.mutation]
  BY NextPageMarks
<1> HIDE DEF n
<1>3. /\ Formed(x) /\ x.api = n.api /\ x.main = n.main
      /\ x.charge.order = n.charge.order /\ x.charge.selection = n.charge.selection
  BY <1>2 DEF Formed
<1> HIDE DEF x
<1>4. Emptied(x, o) BY <1>3, OwnedEmptied
<1> HIDE DEF o
<1>5. /\ Formed(o) /\ o.api.up = v.api.up /\ o.main.remembered = v.main.remembered
      /\ o.nearby.refresh = None /\ o.charge.current /\ o.charge.read = None
      /\ o.charge.facts = None /\ o.charge.order = v.charge.order
      /\ o.charge.selection = v.charge.selection
  <2>1. n.charge.order = v.charge.order /\ n.charge.selection = v.charge.selection
    BY <1>2 DEF Formed
  <2> QED BY <1>2, <1>3, <1>4, <2>1 DEF Emptied
<1> HIDE DEF u
<1>6. /\ Formed(u) /\ u.api = o.api /\ u.main = o.main /\ u.nearby = o.nearby
      /\ u.charge.active /\ ~u.charge.exit /\ u.charge.current = o.charge.current
      /\ u.charge.read = o.charge.read /\ u.charge.facts = o.charge.facts
      /\ u.charge.order = o.charge.order /\ u.charge.selection = o.charge.selection
  BY <1>1, <1>5 DEF Formed
<1> QED BY <1>5, <1>6 DEF u

\* A page that owes no refresh and awaits nothing.
Blank(v, u) ==
  /\ Formed(u) /\ u.api.up = v.api.up /\ u.nearby.refresh = None
  /\ ~u.charge.exit /\ u.charge.current /\ u.charge.read = None
  /\ Recent(v.charge.selection) /\ Recent(v.main.remembered) =>
       Recent(u.charge.selection) /\ Recent(u.main.remembered)

LEMMA FreshTends ==
  ASSUME NEW v, NEW u, Formed(v), Blank(v, u)
  PROVE  Leans(v, u) /\ (Calm(v) => Calm(u)) /\ Tends(v, render(u))
<1>1. Leans(v, u) BY DEF Blank, Leans, Loose
<1>2. Calm(v) => Calm(u) BY <1>1 DEF Blank, Calm, Leans, Ready, Listens
<1> QED BY <1>1, <1>2, RenderedAfterwards

LEMMA EnterSelectionTends ==
  ASSUME NEW v, Formed(v), NEW s \in Selection, Recent(s)
  PROVE  Tends(v, enterSelection(v, s))
<1> DEFINE b == beginPage(v, 1)
           a == [charger |-> s.charger, status |-> s.status]
           y == [b EXCEPT !.charge.selection = s, !.charge.order = None, !.charge.associated = a]
<1>1. enterSelection(v, s) \in {v, render(y)} BY Zenon DEF enterSelection
<1>2. /\ Formed(b) /\ b.api.up = v.api.up /\ b.main.remembered = v.main.remembered
      /\ b.nearby.refresh = None
      /\ ~b.charge.exit /\ b.charge.current /\ b.charge.read = None
  BY PageBegun
<1> HIDE DEF b, a
<1>3. Blank(v, y)
  <2>1. /\ Formed(y) /\ y.api = b.api /\ y.main = b.main /\ y.nearby = b.nearby
        /\ ~y.charge.exit /\ y.charge.current /\ y.charge.read = None
        /\ y.charge.selection = s
    BY <1>2 DEF Formed, Maybe
  <2> HIDE DEF y
  <2> QED BY <1>2, <2>1 DEF Blank
<1> HIDE DEF y
<1>4. Tends(v, render(y)) BY <1>3, FreshTends
<1>5. Tends(v, v) BY MildSelf, MildMinds
<1> QED BY <1>1, <1>4, <1>5

LEMMA EnterOrderTends ==
  ASSUME NEW v, Formed(v), NEW order \in Maybe(Order)
  PROVE  LET u == enterOrder(v, order) IN
         Tends(v, u) /\ ~u.charge.exit
<1> DEFINE kept == IF matching(v.main.remembered, order) THEN v.main.remembered ELSE None
           b == beginPage(v, 0)
           a == IF kept = None THEN None
                ELSE [charger |-> kept.charger, status |-> kept.status]
           y == [b EXCEPT !.charge.selection = kept, !.charge.order = order,
                          !.charge.associated = a]
<1>1. enterOrder(v, order) = render(y) BY Zenon DEF enterOrder
<1>2. /\ Formed(b) /\ b.api.up = v.api.up /\ b.main.remembered = v.main.remembered
      /\ b.nearby.refresh = None
      /\ ~b.charge.exit /\ b.charge.current /\ b.charge.read = None
  BY PageBegun
<1>3. kept \in Maybe(Selection) /\ (Recent(v.main.remembered) => Recent(kept))
  BY NoneFits DEF Formed, Recent
<1> HIDE DEF b, a, kept
<1>4. Blank(v, y)
  <2>1. /\ Formed(y) /\ y.api = b.api /\ y.main = b.main /\ y.nearby = b.nearby
        /\ ~y.charge.exit /\ y.charge.current /\ y.charge.read = None
        /\ y.charge.selection = kept
    BY <1>2, <1>3 DEF Formed
  <2> HIDE DEF y
  <2> QED BY <1>2, <1>3, <2>1 DEF Blank
<1> HIDE DEF y
<1>5. Tends(v, render(y)) BY <1>4, FreshTends
<1>6. ~render(y).charge.exit BY <1>4, RenderMild DEF Blank, Mild, Flow
<1> QED BY <1>1, <1>5, <1>6

LEMMA LeavePageTends ==
  ASSUME NEW v, Formed(v), ~v.charge.exit
  PROVE  Tends(v, leavePage(v))
<1> DEFINE n == nextPage(v)
           x == [n EXCEPT !.charge.active = FALSE]
           o == cancelOwnedSafeReads(x)
           y == [o EXCEPT !.charge.polling = FALSE]
<1>1. leavePage(v) \in {v, render(y)} BY Zenon DEF leavePage
<1>2. /\ Formed(n) /\ n.api = v.api /\ n.nearby = v.nearby /\ n.main = v.main
      /\ n.charge = [v.charge EXCEPT !.mutation = n.charge.mutation]
  BY NextPageMarks
<1> HIDE DEF n
<1>3. /\ Formed(x) /\ x.api = n.api /\ x.main = n.main
      /\ x.charge.selection = n.charge.selection /\ x.charge.exit = n.charge.exit
  BY <1>2 DEF Formed
<1>4. n.charge.selection = v.charge.selection /\ n.charge.exit = v.charge.exit
  BY <1>2 DEF Formed
<1> HIDE DEF x
<1>5. Emptied(x, o) BY <1>3, OwnedEmptied
<1> HIDE DEF o
<1>6. /\ Formed(y) /\ y.api = o.api /\ y.main = o.main /\ y.nearby = o.nearby
      /\ y.charge.exit = o.charge.exit /\ y.charge.current = o.charge.current
      /\ y.charge.read = o.charge.read /\ y.charge.selection = o.charge.selection
  BY <1>5 DEF Emptied, Formed
<1> HIDE DEF y
<1>7. Blank(v, y) BY <1>2, <1>3, <1>4, <1>5, <1>6 DEF Blank, Emptied
<1>8. Tends(v, render(y)) BY <1>7, FreshTends
<1>9. Tends(v, v) BY MildSelf, MildMinds
<1> QED BY <1>1, <1>8, <1>9

LEMMA PollTends ==
  ASSUME NEW v, Formed(v)
  PROVE  Tends(v, requestPoll(v))
<1> DEFINE s == send(v, "page")
           r == [op |-> "poll", selGen |-> v.charge.selGen, owner |-> orderId(v.charge.order)]
           y == [s EXCEPT !.charge.read = r]
<1>1. \/ requestPoll(v) = v
      \/ /\ requestPoll(v) = y /\ v.charge.read = None
         /\ v.charge.order # None /\ v.charge.order.status = "charging"
  BY DEF requestPoll, loadCurrentOrder
<1>2. CASE requestPoll(v) = v BY <1>2, MildSelf, MildMinds
<1>3. CASE /\ requestPoll(v) = y /\ v.charge.read = None
           /\ v.charge.order # None /\ v.charge.order.status = "charging"
  <2>1. Mild(v, s) /\ s.charge = v.charge BY ReadsMild
  <2>2. s.nearby = v.nearby /\ s.main = v.main BY DEF send, Formed
  <2>3. Formed(s) /\ s.api.up = v.api.up BY <2>1 DEF Mild
  <2> HIDE DEF s, r
  <2>4. /\ Formed(y) /\ y.api = s.api /\ y.nearby = s.nearby /\ y.main = s.main
        /\ y.charge = [v.charge EXCEPT !.read = r]
    BY <2>1, <2>3 DEF Formed
  <2> HIDE DEF y
  <2>5. /\ y.charge.active = v.charge.active /\ y.charge.order = v.charge.order
        /\ y.charge.selection = v.charge.selection /\ y.charge.facts = v.charge.facts
        /\ y.charge.mutation = v.charge.mutation /\ y.charge.reconcile = v.charge.reconcile
        /\ y.charge.factsFailed = v.charge.factsFailed /\ y.charge.gate = v.charge.gate
        /\ y.charge.exit = v.charge.exit /\ y.charge.exitFailed = v.charge.exitFailed
        /\ y.charge.attempt = v.charge.attempt /\ y.charge.current = v.charge.current
        /\ y.charge.buttons = v.charge.buttons
    BY <2>4 DEF Formed
  <2>6. Loose(v) => Loose(y)
    <3>1. v.charge.order.status \notin Terminal BY <1>3 DEF Terminal
    <3> QED BY <1>3, <2>2, <2>4, <2>5, <3>1 DEF Loose
  <2>7. Lets(v, y) BY <1>3, <2>3, <2>4, <2>5 DEF Lets, Offering
  <2>8. Calm(v) => Calm(y) BY <2>2, <2>4, <2>5, <2>6 DEF Calm, Waiting, Retrying
  <2> QED BY <1>3, <2>3, <2>4, <2>5, <2>6, <2>7, <2>8 DEF Tends, Leans
<1> QED BY <1>1, <1>2, <1>3

LEMMA ReconciliationTends ==
  ASSUME NEW v, Formed(v)
  PROVE  Tends(v, requestReconciliation(v))
<1> DEFINE x == [v EXCEPT !.charge.polling = FALSE, !.charge.reconcile = TRUE,
                          !.charge.factsFailed = FALSE, !.charge.exitFailed = FALSE]
           o == cancelOwnedSafeReads(x)
           s == send(o, "page")
           r == [op |-> "reconcile", selGen |-> o.charge.selGen, owner |-> orderId(o.charge.order)]
           y == [s EXCEPT !.charge.read = r]
<1>1. requestReconciliation(v) \in {v, Shown(y)}
  BY Zenon DEF requestReconciliation, loadCurrentOrder
<1>2. /\ Formed(x) /\ x.api = v.api /\ x.nearby = v.nearby /\ x.main = v.main
      /\ x.charge.active = v.charge.active /\ x.charge.selection = v.charge.selection
      /\ x.charge.mutation = v.charge.mutation /\ x.charge.reconcile
      /\ x.charge.exit = v.charge.exit
  BY DEF Formed
<1> HIDE DEF x
<1>3. Emptied(x, o) BY <1>2, OwnedEmptied
<1> HIDE DEF o
<1>4. Formed(o) BY <1>3 DEF Emptied
<1>5. Mild(o, s) /\ s.charge = o.charge BY <1>4, ReadsMild
<1>6. s.nearby = o.nearby /\ s.main = o.main BY <1>4 DEF send, Formed
<1>7. Formed(s) /\ s.api.up = o.api.up BY <1>4, <1>5 DEF Mild
<1>8. r.op # "poll" OBVIOUS
<1> HIDE DEF s, r
<1>9. /\ Formed(y) /\ y.api = s.api /\ y.nearby = s.nearby /\ y.main = s.main
      /\ y.charge = [o.charge EXCEPT !.read = r]
  BY <1>5, <1>7 DEF Formed
<1> HIDE DEF y
<1>10. /\ y.charge.active = v.charge.active /\ y.charge.selection = v.charge.selection
       /\ y.charge.mutation = v.charge.mutation /\ y.charge.reconcile
       /\ y.charge.facts = None /\ y.charge.exit = v.charge.exit /\ y.charge.current
       /\ y.charge.read = r
  BY <1>2, <1>3, <1>4, <1>9 DEF Emptied, Formed
<1>11. y.main.remembered = v.main.remembered /\ y.nearby.refresh = None /\ y.api.up = v.api.up
  BY <1>2, <1>3, <1>6, <1>7, <1>9 DEF Emptied
<1>12. Loose(v) => Loose(y) BY <1>8, <1>10, <1>11 DEF Loose
<1>13. Leans(v, y) BY <1>9, <1>10, <1>11, <1>12 DEF Leans
<1>14. Calm(v) => Calm(y) BY <1>10, <1>11, <1>12 DEF Calm, Retrying, Ready, Listens
<1>15. Tends(v, Shown(y)) BY <1>13, <1>14, ShownAfterwards
<1>16. Tends(v, v) BY MildSelf, MildMinds
<1> QED BY <1>1, <1>15, <1>16

LEMMA ResumeTends ==
  ASSUME NEW v, Formed(v)
  PROVE  Tends(v, resume(v))
<1> DEFINE b == beginPage(v, 0)
           y == render(b)
           u == requestReconciliation(y)
<1>1. resume(v) \in {v, u} BY Zenon DEF resume
<1>2. /\ Formed(b) /\ b.api.up = v.api.up /\ b.main.remembered = v.main.remembered
      /\ b.nearby.refresh = None /\ b.charge.selection = v.charge.selection
      /\ ~b.charge.exit /\ b.charge.current /\ b.charge.read = None
  BY PageBegun
<1> HIDE DEF b
<1>3. Blank(v, b) BY <1>2 DEF Blank
<1>4. Tends(v, y) BY <1>3, FreshTends
<1> HIDE DEF y
<1>5. Formed(y) BY <1>4 DEF Tends, Leans
<1>6. Tends(y, u) BY <1>5, ReconciliationTends
<1> HIDE DEF u
<1>7. Tends(v, u) BY <1>4, <1>6, TendsTrans
<1>8. Tends(v, v) BY MildSelf, MildMinds
<1> QED BY <1>1, <1>7, <1>8

LEMMA ChargeLinkTends ==
  ASSUME NEW v, Formed(v), NEW before
  PROVE  LET u == ChargeConnectionChanged(v, before) IN
         /\ Tends(v, u)
         /\ Loose(v) /\ ~v.api.up => (u.charge.exit => Retrying(u.charge))
<1> DEFINE p == [v EXCEPT !.charge.polling = FALSE]
           i == invalidateSafeReads(p)
           l == [i EXCEPT !.charge.reconcile = TRUE, !.charge.factsFailed = FALSE]
           q == requestReconciliation(v)
           t == CASE ~v.api.up /\ v.charge.active -> l
                  [] ~v.api.up /\ ~v.charge.active -> p
                  [] v.api.up /\ ~before /\ v.charge.active -> q
                  [] OTHER -> v
           u == ChargeConnectionChanged(v, before)
<1>1. u = Shown(t) BY Zenon DEF ChargeConnectionChanged
<1>2. /\ Formed(p) /\ p.api = v.api /\ p.nearby = v.nearby /\ p.main = v.main
      /\ Flow(v.charge, p.charge) /\ p.charge.buttons = v.charge.buttons
  BY DEF Formed, Flow
<1>3. /\ ~v.api.up /\ v.charge.active => t = l
      /\ ~v.api.up /\ ~v.charge.active => t = p
      /\ v.api.up => t \in {q, v}
  OBVIOUS
<1> HIDE DEF p, t
<1>4. Mild(v, p) BY <1>2 DEF Mild, Lets, Offering, Flow
<1>5. Emptied(p, i) BY <1>2, OwnedEmptied
<1> HIDE DEF i
<1>6. /\ Formed(l) /\ l.api = i.api /\ l.nearby = i.nearby /\ l.main = i.main
      /\ l.charge.active = i.charge.active /\ l.charge.selection = i.charge.selection
      /\ l.charge.mutation = i.charge.mutation /\ l.charge.reconcile
      /\ l.charge.facts = i.charge.facts /\ l.charge.exit = i.charge.exit
      /\ l.charge.current = i.charge.current /\ l.charge.read = i.charge.read
  BY <1>5 DEF Emptied, Formed
<1> HIDE DEF l
<1>7. Loose(v) => Loose(l) BY <1>2, <1>5, <1>6 DEF Loose, Emptied, Flow
<1>8. Leans(v, l) BY <1>2, <1>5, <1>6, <1>7 DEF Leans, Emptied, Flow
<1>9. Retrying(l.charge) /\ l.nearby.refresh = None BY <1>5, <1>6 DEF Retrying, Emptied
<1>10. Calm(v) => Calm(l) BY <1>7, <1>9 DEF Calm, Ready, Listens
<1>11. Tends(v, q) BY ReconciliationTends
<1> HIDE DEF q
<1>12. Leans(v, t) /\ (Calm(v) => Calm(t))
  <2>1. Leans(v, p) /\ (Calm(v) => Calm(p)) BY <1>4, MildMinds DEF Minds
  <2>2. Leans(v, v) BY MildSelf, MildMinds
  <2>3. Leans(v, q) /\ (Calm(v) => Calm(q)) BY <1>11 DEF Tends
  <2>4. t \in {l, p, q, v} BY <1>3
  <2> QED BY <1>8, <1>10, <2>1, <2>2, <2>3, <2>4
<1>13. Tends(v, u) BY <1>1, <1>12, ShownAfterwards
<1>14. ASSUME Loose(v), ~v.api.up, u.charge.exit PROVE Retrying(u.charge)
  <2>1. Formed(t) BY <1>12 DEF Leans
  <2>2. t.charge.exit
    <3>1. Leans(t, Shown(t)) BY ShownMinds DEF Minds
    <3> QED BY <1>1, <1>14, <2>1, <3>1 DEF Leans
  <2>3. Mild(t, u) BY <1>1, <2>1, <2>2, ShownMinds
  <2>4. Flow(t.charge, u.charge) BY <2>1, <2>3 DEF Mild
  <2>5. v.charge.exit BY <1>12, <2>2 DEF Leans
  <2>6. v.charge.active BY <1>14, <2>5 DEF Loose
  <2>7. t = l BY <1>3, <1>14, <2>6
  <2> QED BY <1>9, <2>4, <2>7 DEF Retrying, Flow
<1> QED BY <1>13, <1>14 DEF u

LEMMA ChargeResetSane ==
  ASSUME NEW v, Formed(v), Recent(v.main.remembered)
  PROVE  Sane(resetChargePage(v))
<1> DEFINE n == nextPage(v)
           x == [n EXCEPT !.charge.active = FALSE]
           o == cancelOwnedSafeReads(x)
           e == endExitRefresh(o)
           y == [e EXCEPT
                   !.charge.polling = FALSE, !.charge.mutation = None, !.charge.reconcile = FALSE,
                   !.charge.factsFailed = FALSE, !.charge.noOrder = FALSE,
                   !.charge.selection = None, !.charge.order = None, !.charge.associated = None]
           u == resetChargePage(v)
<1>1. u = Shown(y) BY Zenon DEF resetChargePage
<1>2. Formed(n) /\ n.main = v.main BY NextPageMarks
<1> HIDE DEF n
<1>3. Formed(x) /\ x.main = n.main BY <1>2 DEF Formed
<1> HIDE DEF x
<1>4. Emptied(x, o) BY <1>3, OwnedEmptied
<1> HIDE DEF o
<1>5. /\ Formed(e) /\ e.nearby = o.nearby /\ e.main = o.main /\ ~e.charge.exit
      /\ e.charge.read = o.charge.read /\ e.charge.current = o.charge.current
  BY <1>4 DEF Emptied, Formed, endExitRefresh
<1> HIDE DEF e
<1>6. /\ Formed(y) /\ y.nearby = e.nearby /\ y.main = e.main /\ ~y.charge.exit
      /\ y.charge.read = e.charge.read /\ y.charge.current = e.charge.current
      /\ y.charge.selection = None
  BY <1>5, NoneFits DEF Formed
<1> HIDE DEF y, u
<1>7. Loose(y) BY <1>2, <1>3, <1>4, <1>5, <1>6 DEF Loose, Recent, Emptied
<1>8. Calm(y) /\ y.charge.current
  BY <1>4, <1>5, <1>6, <1>7 DEF Calm, Emptied, Ready, Listens
<1>9. Minds(y, u) /\ Offering(u) BY <1>1, <1>6, ShownMinds
<1>10. Sane(u) BY <1>6, <1>8, <1>9 DEF Sane, Minds, Leans
<1> QED BY <1>10 DEF u

-----------------------------------------------------------------------------
(* The history, and what the window knows of the current order.            *)

\* The pages of an order and of the stations, and the marks of the window, stay.
Aside(v, u) ==
  Formed(v) => /\ {"api", "charge", "nearby", "main"} \subseteq DOMAIN u /\ "up" \in DOMAIN u.api
               /\ u.api.up = v.api.up /\ u.charge = v.charge /\ u.nearby = v.nearby
               /\ u.main = v.main

\* The page of an order stays, and no refresh starts.
Notes(v, u) == Minds(v, u) /\ (Formed(v) => u.charge = v.charge)

LEMMA AsideNotes == ASSUME NEW v, NEW u, Aside(v, u) PROVE Mild(v, u) /\ Notes(v, u)
<1>1. Mild(v, u) BY MildParts DEF Aside, Formed
<1> QED BY <1>1, MildMinds DEF Notes, Aside

LEMMA AsideTrans == ASSUME NEW a, NEW b, NEW c, Aside(a, b), Aside(b, c) PROVE Aside(a, c)
<1>1. Formed(a) => Formed(b) BY DEF Aside, Formed
<1> QED BY <1>1 DEF Aside

LEMMA AsideSelf == ASSUME NEW v PROVE Aside(v, v)
BY DEF Aside, Formed

LEMMA AsideReads ==
  ASSUME NEW v, NEW slot
  PROVE  Aside(v, send(v, slot)) /\ Aside(v, cancelSafeReads(v, slot))
<1> DEFINE x == send(v, slot)
           y == cancelSafeReads(v, slot)
<1>1. Formed(v) =>
        /\ {"api", "charge", "nearby", "main"} \subseteq DOMAIN x /\ "up" \in DOMAIN x.api
        /\ x.api.up = v.api.up /\ x.charge = v.charge /\ x.nearby = v.nearby
        /\ x.main = v.main
  BY DEF Formed, send
<1>2. Formed(v) =>
        /\ {"api", "charge", "nearby", "main"} \subseteq DOMAIN y /\ "up" \in DOMAIN y.api
        /\ y.api.up = v.api.up /\ y.charge = v.charge /\ y.nearby = v.nearby
        /\ y.main = v.main
  BY DEF Formed, cancelSafeReads
<1> HIDE DEF x, y
<1>3. Aside(v, x) /\ Aside(v, y) BY <1>1, <1>2 DEF Aside
<1> QED BY <1>3 DEF x, y

LEMMA HistorySet ==
  ASSUME NEW v, NEW b
  PROVE  /\ Aside(v, [v EXCEPT !.history.pending = b])
         /\ Aside(v, [v EXCEPT !.history.active = b])
         /\ Aside(v, [v EXCEPT !.history.committed = b])
<1>1. Aside(v, [v EXCEPT !.history.pending = b]) BY DEF Aside, Formed
<1>2. Aside(v, [v EXCEPT !.history.active = b]) BY DEF Aside, Formed
<1>3. Aside(v, [v EXCEPT !.history.committed = b]) BY DEF Aside, Formed
<1> QED BY <1>1, <1>2, <1>3

LEMMA HistoryAside ==
  ASSUME NEW v
  PROVE  /\ \A i : Aside(v, requestPage(v, i))
         /\ Aside(v, refreshHistory(v)) /\ Aside(v, activateHistory(v))
         /\ Aside(v, cancelHistoryRead(v)) /\ Aside(v, deactivateHistory(v))
         /\ \A b : Aside(v, orderHistoryLoaded(v, b))
         /\ Aside(v, orderHistoryFailed(v)) /\ Aside(v, HistoryConnectionChanged(v))
         /\ Aside(v, resetHistoryPage(v))
<1>1. ASSUME NEW x, NEW i PROVE Aside(x, requestPage(x, i))
  <2> DEFINE y == send(x, "history")
  <2>1. requestPage(x, i) = IF ~x.history.active \/ ~x.api.up THEN x
                            ELSE [y EXCEPT !.history.pending = i]
    BY DEF requestPage
  <2>2. Aside(x, y) BY AsideReads
  <2> HIDE DEF y
  <2> QED BY <2>1, <2>2, AsideSelf, HistorySet, AsideTrans
<1>2. ASSUME NEW x PROVE Aside(x, refreshHistory(x)) BY <1>1 DEF refreshHistory
<1>3. ASSUME NEW x PROVE Aside(x, cancelHistoryRead(x))
  <2> DEFINE y == cancelSafeReads(x, {"history"})
  <2>1. cancelHistoryRead(x) = [y EXCEPT !.history.pending = None] BY DEF cancelHistoryRead
  <2>2. Aside(x, y) BY AsideReads
  <2> HIDE DEF y
  <2> QED BY <2>1, <2>2, HistorySet, AsideTrans
<1>4. Aside(v, activateHistory(v)) BY <1>2, HistorySet, AsideTrans DEF activateHistory
<1>5. ASSUME NEW x PROVE Aside(x, deactivateHistory(x))
  BY <1>3, HistorySet, AsideTrans DEF deactivateHistory
<1>6. ASSUME NEW b PROVE Aside(v, orderHistoryLoaded(v, b))
  BY DEF Aside, Formed, orderHistoryLoaded
<1>7. Aside(v, orderHistoryFailed(v)) BY HistorySet DEF orderHistoryFailed
<1>8. Aside(v, HistoryConnectionChanged(v))
  BY <1>3, AsideSelf DEF HistoryConnectionChanged
<1>9. Aside(v, resetHistoryPage(v)) BY <1>5, HistorySet, AsideTrans DEF resetHistoryPage
<1> QED BY <1>1, <1>2, <1>3, <1>4, <1>5, <1>6, <1>7, <1>8, <1>9

LEMMA NotesTrans == ASSUME NEW a, NEW b, NEW c, Notes(a, b), Notes(b, c) PROVE Notes(a, c)
<1>1. Minds(a, c) BY MindsTrans DEF Notes
<1>2. Formed(a) => Formed(b) BY DEF Notes, Minds, Leans
<1> QED BY <1>1, <1>2 DEF Notes

LEMMA NotesLets ==
  ASSUME NEW v, NEW u, Notes(v, u) PROVE Leans(v, u) /\ Lets(v, u) /\ Tends(v, u)
<1>1. Leans(v, u) BY DEF Notes, Minds
<1>2. Lets(v, u) BY <1>1 DEF Notes, Leans, Lets, Offering
<1> QED BY <1>1, <1>2, MindsTends DEF Notes

\* The window may forget its selection.
LEMMA NotesParts ==
  ASSUME NEW v, NEW u,
         Formed(v) => /\ {"api", "charge", "nearby", "main"} \subseteq DOMAIN u
                      /\ "up" \in DOMAIN u.api /\ "remembered" \in DOMAIN u.main
                      /\ u.api.up = v.api.up /\ u.charge = v.charge /\ u.nearby = v.nearby
                      /\ u.main.remembered \in {None, v.main.remembered}
  PROVE  Notes(v, u)
<1> SUFFICES ASSUME Formed(v) PROVE Minds(v, u) /\ u.charge = v.charge
  BY DEF Notes, Minds, Leans
<1>1. Formed(u) BY RecentNone DEF Formed
<1>2. Loose(v) => Loose(u) BY RecentNone DEF Loose
<1>3. Ready(u.nearby) <=> Ready(v.nearby) OBVIOUS
<1>4. Waiting(u) <=> Waiting(v) BY DEF Waiting
<1>5. Calm(v) => Calm(u) BY <1>2, <1>3, <1>4 DEF Calm
<1>6. Hangs(v) => Hangs(u) BY <1>2 DEF Hangs
<1> QED BY <1>1, <1>2, <1>5, <1>6 DEF Minds, Leans

LEMMA NotesSelf == ASSUME NEW v PROVE Notes(v, v)
BY AsideSelf, AsideNotes

LEMMA WindowSet ==
  ASSUME NEW v, NEW b
  PROVE  /\ Notes(v, [v EXCEPT !.main.stamp = b]) /\ Notes(v, [v EXCEPT !.main.reconnect = b])
         /\ Notes(v, [v EXCEPT !.main.guard = b]) /\ Notes(v, [v EXCEPT !.main.page = b])
         /\ Notes(v, [v EXCEPT !.main.queued = b])
<1>1. Notes(v, [v EXCEPT !.main.stamp = b]) BY NotesParts DEF Formed
<1>2. Notes(v, [v EXCEPT !.main.reconnect = b]) BY NotesParts DEF Formed
<1>3. Notes(v, [v EXCEPT !.main.guard = b]) BY NotesParts DEF Formed
<1>4. Notes(v, [v EXCEPT !.main.page = b]) BY NotesParts DEF Formed
<1>5. Notes(v, [v EXCEPT !.main.queued = b]) BY NotesParts DEF Formed
<1> QED BY <1>1, <1>2, <1>3, <1>4, <1>5

LEMMA WindowNotes ==
  ASSUME NEW v, NEW order, NEW owner, NEW force
  PROVE  /\ Notes(v, adoptActiveOrder(v, order)) /\ Notes(v, clearActiveOrder(v, owner, force))
         /\ Notes(v, requestReconnectCurrent(v)) /\ Notes(v, cancelReconnectCurrent(v))
         /\ Notes(v, resolveReconnectCurrent(v))
<1>1. Notes(v, adoptActiveOrder(v, order))
  <2>1. Formed(v) => LET u == adoptActiveOrder(v, order) IN
                       /\ {"api", "charge", "nearby", "main"} \subseteq DOMAIN u
                       /\ "up" \in DOMAIN u.api /\ "remembered" \in DOMAIN u.main
                       /\ u.api.up = v.api.up /\ u.charge = v.charge /\ u.nearby = v.nearby
                       /\ u.main.remembered \in {None, v.main.remembered}
    BY DEF Formed, adoptActiveOrder
  <2> QED BY <2>1, NotesParts
<1>2. Notes(v, clearActiveOrder(v, owner, force))
  <2>1. Formed(v) => LET u == clearActiveOrder(v, owner, force) IN
                       /\ {"api", "charge", "nearby", "main"} \subseteq DOMAIN u
                       /\ "up" \in DOMAIN u.api /\ "remembered" \in DOMAIN u.main
                       /\ u.api.up = v.api.up /\ u.charge = v.charge /\ u.nearby = v.nearby
                       /\ u.main.remembered \in {None, v.main.remembered}
    BY DEF Formed, clearActiveOrder
  <2> QED BY <2>1, NotesParts
<1>3. Notes(v, requestReconnectCurrent(v))
  <2> DEFINE x == send(v, "reconnect")
             r == [owner |-> orderId(v.main.authority)]
             y == [x EXCEPT !.main.reconnect = r]
  <2>1. requestReconnectCurrent(v) = v \/ requestReconnectCurrent(v) = y
    BY Zenon DEF requestReconnectCurrent
  <2>2. Notes(v, x) BY AsideReads, AsideNotes
  <2> HIDE DEF x, r
  <2>3. Notes(v, y) BY <2>2, WindowSet, NotesTrans
  <2> QED BY <2>1, <2>3, NotesSelf
<1>4. Notes(v, cancelReconnectCurrent(v))
  <2> DEFINE x == cancelSafeReads(v, {"reconnect"})
  <2>1. cancelReconnectCurrent(v) = [x EXCEPT !.main.reconnect = None]
    BY DEF cancelReconnectCurrent
  <2>2. Notes(v, x) BY AsideReads, AsideNotes
  <2> HIDE DEF x
  <2> QED BY <2>1, <2>2, WindowSet, NotesTrans
<1>5. Notes(v, resolveReconnectCurrent(v))
  <2> DEFINE x == [v EXCEPT !.main.required = FALSE, !.main.queued = FALSE]
             y == IF v.nearby.foreground THEN x ELSE requestReconnectStations(x)
             q == v.main.queued
  <2>1. resolveReconnectCurrent(v)
          = IF v.main.queued /\ v.api.up THEN refreshHistory(y) ELSE [x EXCEPT !.main.queued = q]
    BY Zenon DEF resolveReconnectCurrent
  <2>a. Formed(v) => /\ {"api", "charge", "nearby", "main"} \subseteq DOMAIN x
                     /\ "up" \in DOMAIN x.api /\ "remembered" \in DOMAIN x.main
                     /\ x.api.up = v.api.up /\ x.charge = v.charge /\ x.nearby = v.nearby
                     /\ x.main.remembered = v.main.remembered
    BY DEF Formed
  <2>2. Notes(v, x)
    <3> HIDE DEF x
    <3> QED BY <2>a, NotesParts
  <2> HIDE DEF x, q
  <2>3. Notes(x, requestReconnectStations(x)) BY ReconnectMinds DEF Notes, Minds, Leans
  <2>4. Notes(v, y) BY <2>2, <2>3, NotesTrans
  <2> HIDE DEF y
  <2>5. Notes(y, refreshHistory(y)) BY HistoryAside, AsideNotes
  <2> QED BY <2>1, <2>2, <2>4, <2>5, WindowSet, NotesTrans
<1> QED BY <1>1, <1>2, <1>3, <1>4, <1>5

LEMMA ObservedNotes ==
  ASSUME NEW v, NEW order, NEW guard, NEW owned, NEW owner
  PROVE  Notes(v, observed(v, order, guard, owned, owner))
<1>1. observed(v, order, guard, owned, owner)
        \in {adoptActiveOrder(v, order), clearActiveOrder(v, 0, TRUE),
             clearActiveOrder(v, owner, FALSE), v}
  BY DEF observed
<1> QED BY <1>1, WindowNotes, NotesSelf

LEMMA AuthorityNotes ==
  ASSUME NEW v, NEW slot, NEW order, NEW owned, NEW owner
  PROVE  /\ Notes(v, currentAuthorityObserved(v, slot, order, owned, owner))
         /\ Notes(v, mutationAuthorityObserved(v, order))
<1>1. Notes(v, currentAuthorityObserved(v, slot, order, owned, owner))
  <2> DEFINE x == [v EXCEPT !.main.reconnect = None]
             o == v.main.reconnect.owner
             y == observed(x, order, FALSE, TRUE, o)
             g == slot = "guard" /\ v.main.guard
  <2>1. currentAuthorityObserved(v, slot, order, owned, owner)
          = IF slot = "reconnect" /\ v.main.reconnect # None THEN resolveReconnectCurrent(y)
            ELSE observed(v, order, g, owned, owner)
    BY Zenon DEF currentAuthorityObserved
  <2>2. Notes(v, x) BY WindowSet
  <2>3. Notes(x, y) BY ObservedNotes
  <2>4. Notes(v, observed(v, order, g, owned, owner)) BY ObservedNotes
  <2> HIDE DEF x, y, o, g
  <2>5. Notes(y, resolveReconnectCurrent(y)) BY WindowNotes
  <2> QED BY <2>1, <2>2, <2>3, <2>4, <2>5, NotesTrans
<1>2. Notes(v, mutationAuthorityObserved(v, order))
  <2> DEFINE x == IF v.main.stamp = "none"
                       \/ (v.main.stamp = "moved" /\ v.main.authority # None
                             /\ v.main.authority.id # order.id) THEN v
                  ELSE IF isActive(order) THEN adoptActiveOrder(v, order)
                  ELSE clearActiveOrder(v, order.id, FALSE)
  <2>1. mutationAuthorityObserved(v, order) = [x EXCEPT !.main.stamp = "none"]
    BY DEF mutationAuthorityObserved
  <2>2. Notes(v, x) BY WindowNotes, NotesSelf
  <2> HIDE DEF x
  <2> QED BY <2>1, <2>2, WindowSet, NotesTrans
<1> QED BY <1>1, <1>2

-----------------------------------------------------------------------------
(* The facts of the station.                                               *)

\* The facts are under way for what the page shows.
LEMMA SentFacts ==
  ASSUME NEW v, Formed(v), v.charge.order # None \/ v.charge.selection # None,
         NEW gate, NEW commit, NEW origin, NEW id
  PROVE  LET u == sendFacts(v, gate, commit, origin, id)
             c == v.charge
             d == u.charge
         IN  /\ Formed(u) /\ u.api.up = v.api.up /\ u.nearby = v.nearby
             /\ u.main.remembered = v.main.remembered
             /\ d.active = c.active /\ d.order = c.order /\ d.selection = c.selection
             /\ d.read = c.read /\ d.mutation = c.mutation /\ d.reconcile = c.reconcile
             /\ d.exitFailed = c.exitFailed /\ d.current = c.current
             /\ d.facts # None /\ d.gate = gate
             /\ d.exit <=> c.exit /\ (commit => origin)
             /\ d.attempt = IF ~commit THEN c.attempt ELSE IF origin THEN id ELSE 0
             /\ Leans(v, u)
<1> DEFINE x == send(v, "facts")
           f == [charger |-> IF v.charge.order # None THEN v.charge.order.charger
                             ELSE v.charge.selection.charger, fits |-> TRUE]
           e == v.charge.exit /\ (commit => origin)
           k == IF ~commit THEN v.charge.attempt ELSE IF origin THEN id ELSE 0
           u == [x EXCEPT !.charge.facts = f, !.charge.factsFailed = FALSE,
                          !.charge.gate = gate, !.charge.exit = e, !.charge.attempt = k]
<1>1. f \in Facts
  <2>1. v.charge.order # None => v.charge.order \in Order BY DEF Formed, Maybe
  <2>2. v.charge.selection # None => v.charge.selection \in Selection BY DEF Formed, Maybe
  <2> QED BY <2>1, <2>2 DEF Facts, Order, Selection
<1>2. f # None /\ f \in Maybe(Facts) BY <1>1, NoneAssumption DEF Maybe
<1>3. /\ Formed(x) /\ x.api.up = v.api.up /\ x.charge = v.charge /\ x.nearby = v.nearby
      /\ x.main = v.main
  BY AsideReads, AsideNotes DEF Aside, Mild
<1>4. sendFacts(v, gate, commit, origin, id) = u
  <2>1. x.charge.exit = v.charge.exit /\ x.charge.attempt = v.charge.attempt BY <1>3
  <2> QED BY <2>1 DEF sendFacts, Formed
<1> HIDE DEF x, f, k
<1>5. /\ u.api = x.api /\ u.nearby = x.nearby /\ u.main = x.main /\ DOMAIN u = DOMAIN x
      /\ DOMAIN u.charge = DOMAIN x.charge
      /\ u.charge.active = x.charge.active /\ u.charge.order = x.charge.order
      /\ u.charge.selection = x.charge.selection /\ u.charge.read = x.charge.read
      /\ u.charge.mutation = x.charge.mutation /\ u.charge.reconcile = x.charge.reconcile
      /\ u.charge.exitFailed = x.charge.exitFailed /\ u.charge.current = x.charge.current
      /\ u.charge.facts = f /\ u.charge.gate = gate /\ u.charge.exit = e
      /\ u.charge.attempt = k
  BY <1>3 DEF Formed
<1> HIDE DEF u
<1>6. Formed(u) BY <1>2, <1>3, <1>5 DEF Formed
<1>7. Loose(v) => Loose(u) BY <1>3, <1>5 DEF Loose
<1>8. Leans(v, u) BY <1>3, <1>5, <1>6, <1>7 DEF Leans
<1> QED BY <1>2, <1>3, <1>4, <1>5, <1>6, <1>8 DEF k

\* The facts are asked for, and with them the refresh that is owed.
LEMMA RequestFactsLeans ==
  ASSUME NEW v, Formed(v), NEW gate, NEW commit
  PROVE  LET u == requestFacts(v, gate, commit) IN
         /\ Leans(v, u) /\ Lets(v, u)
         /\ Calm(v) /\ (v.charge.exit => commit /\ gate /\ ~v.charge.exitFailed) => Calm(u)
<1> DEFINE c == v.charge
           origin == c.selection # None /\ (c.order = None \/ matching(c.selection, c.order))
           id == freshAttempt(v)
           s == sendFacts(v, gate, commit, origin, id)
           a == IF commit THEN id ELSE 0
           y == IF origin THEN refreshAfterCharge(s, a) ELSE s
           u == requestFacts(v, gate, commit)
<1>1. u = IF ~c.active \/ (c.order = None /\ c.selection = None) THEN v ELSE Shown(y)
  BY Zenon DEF requestFacts
<1>2. CASE ~c.active \/ (c.order = None /\ c.selection = None)
  BY <1>1, <1>2, MildSelf, MildMinds
<1>3. CASE c.active /\ (c.order # None \/ c.selection # None)
  <2>1. id \in 1..3 BY FreshAttempt
  <2>2. a \in 0..3 /\ (commit => a = id /\ a # 0) BY <2>1
  <2>3. /\ Formed(s) /\ Leans(v, s) /\ s.nearby = v.nearby
        /\ s.charge.selection = c.selection /\ s.charge.exitFailed = c.exitFailed
        /\ s.charge.facts # None /\ s.charge.gate = gate
        /\ s.charge.exit <=> c.exit /\ (commit => origin)
        /\ s.charge.attempt = IF ~commit THEN c.attempt ELSE IF origin THEN id ELSE 0
    <3> HIDE DEF id, origin
    <3> QED BY <1>3, SentFacts
  <2> HIDE DEF id, s, a, origin, u
  <2>4. ASSUME Calm(v), c.exit => commit /\ gate /\ ~c.exitFailed
        PROVE  Claims(s, a) /\ (~origin => Calm(s))
    <3>1. Loose(s) /\ Ready(s.nearby) BY <2>3, <2>4 DEF Calm, Leans
    <3>2. Claims(s, a) BY <2>2, <2>3, <2>4, <3>1 DEF Claims
    <3>3. ~origin => Calm(s) BY <2>3, <2>4, <3>1 DEF Calm
    <3> QED BY <3>2, <3>3
  <2>5. Leans(s, y) /\ Lets(s, y) /\ (Claims(s, a) /\ origin => Calm(y))
    BY <2>2, <2>3, RefreshAfterLeans, MildSelf, MildMinds
  <2>6. Calm(v) /\ (c.exit => commit /\ gate /\ ~c.exitFailed) => Calm(y)
    BY <2>4, <2>5
  <2>7. Leans(v, y) BY <2>3, <2>5, LeansTrans
  <2> HIDE DEF y
  <2>8. Leans(v, Shown(y)) /\ Lets(v, Shown(y)) BY <2>7, ShownAfterwards
  <2>9. Formed(y) BY <2>7 DEF Leans
  <2>10. Calm(y) => Calm(Shown(y)) BY <2>9, ShownMinds DEF Minds
  <2> QED BY <1>1, <1>3, <2>6, <2>8, <2>10 DEF u
<1> QED BY <1>2, <1>3

\* The page of stations has ended the refresh, or the page of an order is as it was.
LEMMA DetailFailOffers ==
  ASSUME NEW v, Formed(v), v.charge.exit
  PROVE  LET u == failChargeStationDetail(v, v.charge.attempt) IN
         Offering(u) \/ u.charge = v.charge
<1> DEFINE r == v.nearby.refresh
           k == v.charge.attempt
           x == cancelChargeRefresh(v)
           z == cancelSafeReads(x, {"facts"})
           y == [z EXCEPT !.charge.facts = None, !.charge.gate = TRUE, !.charge.factsFailed = TRUE,
                          !.charge.exitFailed = TRUE, !.charge.reconcile = TRUE]
           u == failChargeStationDetail(v, k)
<1>1. Formed(x) /\ x.charge = v.charge BY RefreshDropped
<1>2. Formed(z) /\ z.charge = v.charge
  <2> HIDE DEF x
  <2> QED BY <1>1, AsideReads, AsideNotes DEF Aside, Mild
<1>3. r # None /\ r.attempt = k =>
        u = IF ~Awaits(x, k) THEN x ELSE Shown(y)
  <2>1. r # None /\ r.attempt = k => u = nearbyRefreshFailed(x, k)
    BY Zenon DEF failChargeStationDetail, finishChargeRefreshFailed
  <2>2. nearbyRefreshFailed(x, k) = IF ~Awaits(x, k) THEN x ELSE Shown(y)
    BY Zenon DEF nearbyRefreshFailed
  <2> QED BY <2>1, <2>2
<1>4. ~(r # None /\ r.attempt = k) => u = v
  BY Zenon DEF failChargeStationDetail
<1> HIDE DEF x, z, u
<1>5. Formed(y) BY <1>2, NoneFits DEF Formed
<1> HIDE DEF y
<1>6. Offering(Shown(y)) BY <1>5, ShownMinds
<1> QED BY <1>1, <1>3, <1>4, <1>6 DEF u

\* The facts failed, or are not those of what the page shows.
LEMMA FactsFailLeans ==
  ASSUME NEW v, Formed(v), v.charge.facts = None
  PROVE  LET u == factsFail(v) IN
         /\ Leans(v, u)
         /\ ~v.charge.exitFailed \/ Offering(v) => Offering(u)
         /\ Ready(v.nearby) /\ Hangs(v) => Calm(u)
<1> DEFINE k == v.charge.attempt
           t == IF v.charge.exit THEN failChargeStationDetail(v, k) ELSE v
           must == t.charge.gate \/ t.charge.exit
           z == [t EXCEPT !.charge.factsFailed = must, !.charge.gate = must,
                          !.charge.reconcile = must]
           u == factsFail(v)
<1>1. u = IF v.charge.exit /\ (~t.charge.exit \/ t.charge.exitFailed) THEN t ELSE Shown(z)
  BY Zenon DEF factsFail
<1>2. Leans(v, t) /\ Lets(v, t) /\ t.charge.facts = None
  BY DetailFailTold, MildSelf, MildMinds DEF Finishes
<1>3. Ready(v.nearby) /\ Hangs(v) => Calm(t)
  <2>1. CASE v.charge.exit BY <2>1, DetailFailTold
  <2>2. CASE ~v.charge.exit BY <2>2 DEF Hangs, Calm
  <2> QED BY <2>1, <2>2
<1>4. v.charge.exit /\ (~t.charge.exit \/ t.charge.exitFailed)
        /\ (~v.charge.exitFailed \/ Offering(v)) => Offering(t)
  BY <1>2, DetailFailOffers DEF Lets
<1> HIDE DEF t, u
<1>5. Formed(t) BY <1>2 DEF Leans
<1>6. /\ z.api = t.api /\ z.nearby = t.nearby /\ z.main = t.main /\ DOMAIN z = DOMAIN t
      /\ DOMAIN z.charge = DOMAIN t.charge
      /\ z.charge.active = t.charge.active /\ z.charge.order = t.charge.order
      /\ z.charge.selection = t.charge.selection /\ z.charge.read = t.charge.read
      /\ z.charge.mutation = t.charge.mutation /\ z.charge.reconcile = must
      /\ z.charge.current = t.charge.current /\ z.charge.facts = t.charge.facts
      /\ z.charge.exit = t.charge.exit
  BY <1>5 DEF Formed
<1> HIDE DEF z
<1>7. Formed(z) BY <1>5, <1>6 DEF Formed
<1>8. Loose(t) => Loose(z) BY <1>6 DEF Loose
<1>9. Leans(t, z) BY <1>6, <1>7, <1>8 DEF Leans
<1>10. Calm(t) => Calm(z) BY <1>2, <1>6, <1>8 DEF Calm, Retrying
<1>11. Leans(v, Shown(z)) /\ Offering(Shown(z)) /\ (Calm(z) => Calm(Shown(z)))
  <2>1. Leans(v, z) BY <1>2, <1>9, LeansTrans
  <2> QED BY <1>7, <2>1, ShownAfterwards, ShownMinds DEF Minds
<1> QED BY <1>1, <1>2, <1>3, <1>4, <1>10, <1>11 DEF u

\* The facts are awaited no longer.
LEMMA FactsEnded ==
  ASSUME NEW v, Formed(v), v.charge.facts # None, ~v.charge.exitFailed, NEW y, Formed(y),
         y.api.up = v.api.up, y.nearby = v.nearby, y.main.remembered = v.main.remembered,
         y.charge.active = v.charge.active, y.charge.order = v.charge.order,
         y.charge.read = v.charge.read, y.charge.mutation = v.charge.mutation,
         y.charge.exit = v.charge.exit, y.charge.exitFailed = v.charge.exitFailed,
         y.charge.attempt = v.charge.attempt, y.charge.current = v.charge.current,
         y.charge.facts = None, y.charge.selection = None <=> v.charge.selection = None,
         v.charge.selection # None => y.charge.selection.fresh = v.charge.selection.fresh,
         v.charge.selection # None => y.charge.selection.valid = v.charge.selection.valid
  PROVE  Leans(v, y) /\ ~y.charge.exitFailed /\ (Calm(v) => Ready(y.nearby) /\ Hangs(y))
<1>1. Loose(v) => Loose(y) BY DEF Loose, Recent
<1>2. Calm(v) => Ready(y.nearby) BY DEF Calm
<1>3. Calm(v) => Hangs(y) BY <1>1 DEF Calm, Hangs, Waiting, Retrying
<1>4. Leans(v, y) BY <1>1 DEF Leans
<1> QED BY <1>2, <1>3, <1>4

LEMMA FactsFailedTends ==
  ASSUME NEW v, Formed(v), v.charge.facts # None, ~v.charge.exitFailed
  PROVE  LET u == factsFailed(v) IN Tends(v, u) /\ Offering(u)
<1> DEFINE y == [v EXCEPT !.charge.facts = None]
<1>1. /\ Formed(y) /\ y.api = v.api /\ y.nearby = v.nearby /\ y.main = v.main
      /\ y.charge.active = v.charge.active /\ y.charge.order = v.charge.order
      /\ y.charge.read = v.charge.read /\ y.charge.mutation = v.charge.mutation
      /\ y.charge.exit = v.charge.exit /\ y.charge.exitFailed = v.charge.exitFailed
      /\ y.charge.attempt = v.charge.attempt /\ y.charge.current = v.charge.current
      /\ y.charge.facts = None /\ y.charge.selection = v.charge.selection
  BY NoneFits DEF Formed
<1>2. factsFailed(v) = factsFail(y) BY DEF factsFailed
<1> HIDE DEF y
<1>3. Leans(v, y) /\ ~y.charge.exitFailed /\ (Calm(v) => Ready(y.nearby) /\ Hangs(y))
  BY <1>1, FactsEnded
<1> DEFINE u == factsFail(y)
<1>4. Leans(y, u) /\ Offering(u) /\ (Ready(y.nearby) /\ Hangs(y) => Calm(u))
  BY <1>1, <1>3, FactsFailLeans
<1> HIDE DEF u
<1>5. Leans(v, u) BY <1>3, <1>4, LeansTrans
<1> QED BY <1>2, <1>3, <1>4, <1>5 DEF Tends, Lets, u

\* The facts are those of what the page shows, or say that it is not as it was.
LEMMA FactsLoadedTends ==
  ASSUME NEW v, Formed(v), v.charge.facts # None, v.charge.facts.fits, ~v.charge.exitFailed,
         NEW status \in Maybe(Status)
  PROVE  LET u == factsLoaded(v, status) IN Tends(v, u) /\ Offering(u)
<1> DEFINE c == v.charge
           matched == ~unmatched(c, status)
           sel == IF matched /\ c.order = None /\ c.selection # None
                  THEN [c.selection EXCEPT !.status = status] ELSE c.selection
           x == takeFacts(v, status)
           ff == x.charge.factsFailed /\ c.exitFailed
           rc == x.charge.reconcile /\ (c.exitFailed \/ ~c.gate)
           y == [x EXCEPT !.charge.factsFailed = ff, !.charge.reconcile = rc,
                          !.charge.gate = FALSE]
           k == c.attempt
           z == IF c.exit THEN applyChargeStationDetail(y, k) ELSE y
           u == factsLoaded(v, status)
<1>1. u = IF unmatched(c, status) THEN factsFail(x) ELSE Shown(z)
  BY DEF factsLoaded
<1>2. sel \in Maybe(Selection) /\ (sel = None <=> c.selection = None)
      /\ (c.selection # None => sel.fresh = c.selection.fresh /\ sel.valid = c.selection.valid)
  <2>1. CASE ~(matched /\ c.order = None /\ c.selection # None) BY <2>1 DEF Formed
  <2>2. CASE matched /\ c.order = None /\ c.selection # None
    <3>1. status \in Status BY <2>2 DEF unmatched, Maybe
    <3>2. c.selection \in Selection BY <2>2 DEF Formed, Maybe
    <3>3. sel \in Selection BY <2>2, <3>1, <3>2 DEF Selection
    <3>4. sel # None BY <3>3, NoneAssumption
    <3>5. sel.fresh = c.selection.fresh /\ sel.valid = c.selection.valid
      BY <2>2, <3>2 DEF Selection
    <3> QED BY <2>2, <3>3, <3>4, <3>5 DEF Maybe
  <2> QED BY <2>1, <2>2
<1>3. /\ x.api = v.api /\ x.nearby = v.nearby /\ x.main = v.main /\ DOMAIN x = DOMAIN v
      /\ DOMAIN x.charge = DOMAIN v.charge
      /\ x.charge.active = c.active /\ x.charge.order = c.order
      /\ x.charge.read = c.read /\ x.charge.mutation = c.mutation
      /\ x.charge.exit = c.exit /\ x.charge.exitFailed = c.exitFailed
      /\ x.charge.attempt = c.attempt /\ x.charge.current = c.current
      /\ x.charge.facts = None /\ x.charge.selection = sel
  BY DEF takeFacts, Formed
<1> HIDE DEF x, sel, ff, rc, u
<1>4. Formed(x) BY <1>2, <1>3, NoneFits DEF Formed
<1>5. Leans(v, x) /\ ~x.charge.exitFailed /\ (Calm(v) => Ready(x.nearby) /\ Hangs(x))
  BY <1>2, <1>3, <1>4, FactsEnded
<1>6. CASE unmatched(c, status)
  <2> DEFINE f == factsFail(x)
  <2>1. Leans(x, f) /\ Offering(f) /\ (Ready(x.nearby) /\ Hangs(x) => Calm(f))
    BY <1>3, <1>4, <1>5, FactsFailLeans
  <2> HIDE DEF f
  <2>2. Leans(v, f) BY <1>5, <2>1, LeansTrans
  <2>3. Tends(v, f) /\ Offering(f) BY <1>5, <2>1, <2>2 DEF Tends, Lets
  <2> QED BY <1>1, <1>6, <2>3 DEF f, u
<1>7. CASE ~unmatched(c, status)
  <2>1. /\ y.api = v.api /\ y.nearby = v.nearby /\ y.main = v.main /\ DOMAIN y = DOMAIN v
        /\ DOMAIN y.charge = DOMAIN v.charge
        /\ y.charge.active = c.active /\ y.charge.order = c.order
        /\ y.charge.read = c.read /\ y.charge.mutation = c.mutation
        /\ y.charge.exit = c.exit /\ y.charge.exitFailed = c.exitFailed
        /\ y.charge.attempt = c.attempt /\ y.charge.current = c.current
        /\ y.charge.facts = None /\ y.charge.selection = sel
    BY <1>3, <1>4 DEF Formed
  <2> HIDE DEF y
  <2>2. Formed(y) BY <1>2, <2>1, NoneFits DEF Formed
  <2>3. Leans(v, y) BY <1>2, <2>1, <2>2, FactsEnded
  <2>4. Leans(y, z) BY <2>2, DetailTold, MildSelf, MildMinds DEF Finishes
  <2>5. ASSUME Calm(v) PROVE Calm(z)
    <3>1. Loose(y) /\ Ready(y.nearby) BY <2>1, <2>3, <2>5 DEF Calm, Leans
    <3>2. CASE c.exit
      <4>1. Waiting(v) BY <2>5, <3>2 DEF Calm, Retrying
      <4>2. c.selection # None BY <2>5, <3>2 DEF Calm, Loose
      <4>3. /\ y.charge.attempt = k /\ k # 0 /\ ~y.charge.exitFailed
            /\ y.nearby.refresh # None /\ y.nearby.refresh.attempt = k
            /\ y.charge.facts = None
            /\ y.nearby.refresh.fresh => y.charge.selection.valid
        BY <1>2, <2>1, <4>1, <4>2 DEF Waiting
      <4> QED BY <2>2, <3>1, <3>2, <4>3, DetailTold
    <3>3. CASE ~c.exit BY <2>1, <3>1, <3>3 DEF Calm
    <3> QED BY <3>2, <3>3
  <2>6. Leans(v, z) BY <2>3, <2>4, LeansTrans
  <2> HIDE DEF z
  <2>7. Tends(v, Shown(z)) BY <2>5, <2>6, ShownAfterwards
  <2>8. Offering(Shown(z)) BY <2>6, ShownMinds DEF Leans
  <2> QED BY <1>1, <1>7, <2>7, <2>8 DEF u
<1> QED BY <1>6, <1>7

-----------------------------------------------------------------------------
(* The current order.                                                      *)

\* The page takes the order that was found to be under way.
LEMMA TakenBlank ==
  ASSUME NEW v, Formed(v), NEW order \in Maybe(Order)
  PROVE  LET u == takeActiveOrder(v, order) IN Blank(v, u)
<1> DEFINE keeps == v.charge.selection = None \/ matching(v.charge.selection, order)
           b == invalidateSafeReads(v)
           e == endExitRefresh(b)
           s == IF keeps THEN e.charge.selection ELSE None
           r == IF keeps THEN e.main.remembered ELSE None
           u == [e EXCEPT
                  !.charge.polling = FALSE, !.charge.reconcile = TRUE,
                  !.charge.factsFailed = FALSE, !.charge.gate = FALSE, !.charge.noOrder = FALSE,
                  !.charge.order = order, !.charge.selGen = 0, !.charge.associated = None,
                  !.charge.selection = s, !.main.remembered = r]
<1>1. Emptied(v, b) BY OwnedEmptied
<1> HIDE DEF b
<1>2. /\ e.api = b.api /\ e.nearby = b.nearby /\ e.main = b.main /\ DOMAIN e = DOMAIN b
      /\ DOMAIN e.charge = DOMAIN b.charge
      /\ e.charge.selection = b.charge.selection /\ e.charge.read = b.charge.read
      /\ e.charge.facts = b.charge.facts /\ e.charge.current = b.charge.current
      /\ ~e.charge.exit
  BY <1>1 DEF endExitRefresh, Emptied, Formed
<1> HIDE DEF e
<1>3. takeActiveOrder(v, order) = u
  <2>1. DOMAIN e.main = DOMAIN b.main /\ "selection" \in DOMAIN e.charge
        /\ "remembered" \in DOMAIN e.main
    BY <1>1, <1>2 DEF Emptied, Formed
  <2> QED BY <2>1 DEF takeActiveOrder, e, b
<1> HIDE DEF s, r
<1>4. /\ u.api = e.api /\ u.nearby = e.nearby /\ DOMAIN u = DOMAIN e
      /\ DOMAIN u.charge = DOMAIN e.charge /\ DOMAIN u.main = DOMAIN e.main
      /\ u.charge.selection = s /\ u.main.remembered = r /\ u.charge.order = order
      /\ u.charge.read = e.charge.read /\ u.charge.facts = e.charge.facts
      /\ u.charge.current = e.charge.current /\ u.charge.exit = e.charge.exit
  <2>1. /\ {"api", "charge", "nearby", "main"} \subseteq DOMAIN e
        /\ {"order", "selection", "facts", "read", "exit", "current"} \subseteq DOMAIN e.charge
        /\ "remembered" \in DOMAIN e.main
    BY <1>1, <1>2 DEF Emptied, Formed
  <2> QED BY <2>1
<1> HIDE DEF u
<1>5. s \in Maybe(Selection) /\ r \in Maybe(Selection)
  BY <1>1, <1>2, NoneFits DEF s, r, Emptied, Formed
<1>6. Recent(v.charge.selection) /\ Recent(v.main.remembered) => Recent(s) /\ Recent(r)
  BY <1>1, <1>2, RecentNone DEF s, r, Emptied
<1>7. Formed(u) BY <1>1, <1>2, <1>4, <1>5 DEF Emptied, Formed
<1>8. Blank(v, u) BY <1>1, <1>2, <1>4, <1>6, <1>7 DEF Blank, Emptied
<1> QED BY <1>3, <1>8

\* The order was found to be under way, or not to be: by any read of it.
LEMMA ObserveTends ==
  ASSUME NEW v, Formed(v), NEW slot, NEW order \in Maybe(Order)
  PROVE  LET u == observeAuthoritativeCurrent(v, slot, order) IN
         /\ Tends(v, u)
         /\ isActive(order) /\ v.charge.active => Offering(u)
<1> DEFINE x == supersedeMutation(v, order)
           t == takeActiveOrder(x, order)
           s == Shown(t)
           o == currentAuthorityObserved(s, slot, order, FALSE, 0)
           g == requestFacts(o, TRUE, FALSE)
           a == currentAuthorityObserved(x, slot, order, FALSE, 0)
           u == observeAuthoritativeCurrent(v, slot, order)
<1>1. u = IF ~isActive(order) \/ ~v.charge.active THEN a ELSE g
  BY Zenon DEF observeAuthoritativeCurrent
<1>2. /\ Formed(x) /\ x.api = v.api /\ x.nearby = v.nearby /\ x.main = v.main
      /\ x.charge.active = v.charge.active /\ x.charge.order = v.charge.order
      /\ x.charge.selection = v.charge.selection /\ x.charge.facts = v.charge.facts
      /\ x.charge.read = v.charge.read /\ x.charge.reconcile = v.charge.reconcile
      /\ x.charge.factsFailed = v.charge.factsFailed /\ x.charge.gate = v.charge.gate
      /\ x.charge.exit = v.charge.exit /\ x.charge.exitFailed = v.charge.exitFailed
      /\ x.charge.attempt = v.charge.attempt /\ x.charge.current = v.charge.current
      /\ v.charge.mutation = None => x.charge.mutation = None
      /\ ~isActive(order) => x = v
  <2> DEFINE m == [v.charge.mutation EXCEPT !.superseded = TRUE]
             z == [v EXCEPT !.charge.mutation = m]
  <2>1. x = v \/ (x = z /\ v.charge.mutation # None /\ isActive(order))
    BY DEF supersedeMutation
  <2> HIDE DEF x, m
  <2>2. /\ Formed(z) /\ z.api = v.api /\ z.nearby = v.nearby /\ z.main = v.main
        /\ z.charge.active = v.charge.active /\ z.charge.order = v.charge.order
        /\ z.charge.selection = v.charge.selection /\ z.charge.facts = v.charge.facts
        /\ z.charge.read = v.charge.read /\ z.charge.reconcile = v.charge.reconcile
        /\ z.charge.factsFailed = v.charge.factsFailed /\ z.charge.gate = v.charge.gate
        /\ z.charge.exit = v.charge.exit /\ z.charge.exitFailed = v.charge.exitFailed
        /\ z.charge.attempt = v.charge.attempt /\ z.charge.current = v.charge.current
    BY DEF Formed
  <2> HIDE DEF z
  <2> QED BY <2>1, <2>2
<1> HIDE DEF x, u
<1>4. Loose(v) => Loose(x) BY <1>2 DEF Loose
<1>5. Leans(v, x) BY <1>2, <1>4 DEF Leans
<1>6. Calm(v) => Calm(x) BY <1>2, <1>4 DEF Calm, Waiting, Retrying
<1>7. ~isActive(order) \/ ~v.charge.active => Tends(v, x)
  <2>1. ~v.charge.active => Offering(x) BY <1>2 DEF Offering
  <2>2. ~isActive(order) => Lets(v, x) BY <1>2 DEF Lets
  <2> QED BY <1>5, <1>6, <2>1, <2>2 DEF Tends, Lets
<1>8. Tends(x, a) BY AuthorityNotes, NotesLets
<1> HIDE DEF a
<1>9. ~isActive(order) \/ ~v.charge.active => Tends(v, a) BY <1>7, <1>8, TendsTrans
<1>10. Blank(x, t) BY <1>2, TakenBlank
<1> HIDE DEF t
<1>11. Leans(x, t) /\ (Calm(x) => Calm(t)) /\ Formed(t) /\ ~t.charge.exit
  BY <1>2, <1>10, FreshTends DEF Blank
<1>12. Tends(x, s) /\ Offering(s) /\ Formed(s) /\ ~s.charge.exit
  <2>1. Tends(x, s) BY <1>11, ShownAfterwards
  <2>2. Minds(t, s) /\ Offering(s) BY <1>11, ShownMinds
  <2> QED BY <1>11, <2>1, <2>2 DEF Minds, Leans
<1> HIDE DEF s
<1>13. Tends(x, o) /\ Offering(o) /\ Formed(o) /\ ~o.charge.exit
  <2>1. Tends(s, o) BY AuthorityNotes, NotesLets
  <2> HIDE DEF o
  <2>2. Tends(x, o) BY <1>12, <2>1, TendsTrans
  <2> QED BY <1>12, <2>1, <2>2 DEF Tends, Lets, Leans
<1> HIDE DEF o
<1>14. Tends(o, g) BY <1>13, RequestFactsLeans DEF Tends
<1> HIDE DEF g
<1>15. Tends(x, g) /\ Offering(g)
  <2>1. Tends(x, g) BY <1>13, <1>14, TendsTrans
  <2> QED BY <1>13, <1>14, <2>1 DEF Tends, Lets
<1>16. Tends(v, g) BY <1>2, <1>5, <1>6, <1>15, LeansTrans DEF Tends, Lets
<1> QED BY <1>1, <1>9, <1>15, <1>16 DEF u

\* The order that the page's own read has found.
Taken(v, u, order) ==
  LET c == v.charge
      d == u.charge
      terminal == order = None /\ c.exit /\ c.order # None /\ c.order.status \in Terminal
      keeps == order = None \/ c.selection = None \/ matching(c.selection, order)
  IN  /\ Formed(u) /\ u.api.up = v.api.up /\ u.nearby = v.nearby
      /\ u.main.remembered = IF keeps THEN v.main.remembered ELSE None
      /\ d.active = c.active /\ d.order = IF terminal THEN c.order ELSE order
      /\ d.selection = IF keeps THEN c.selection ELSE None
      /\ d.facts = c.facts /\ d.read = c.read /\ d.mutation = c.mutation
      /\ d.gate = c.gate /\ (d.exit <=> c.exit /\ keeps)
      /\ d.exitFailed = c.exitFailed /\ d.attempt = IF keeps THEN c.attempt ELSE 0
      /\ d.current = c.current

LEMMA OrderTaken ==
  ASSUME NEW v, Formed(v), NEW order \in Maybe(Order)
  PROVE  Taken(v, takeOrder(v, order), order)
<1> DEFINE c == v.charge
           terminal == order = None /\ c.exit /\ c.order # None /\ c.order.status \in Terminal
           shown == IF terminal THEN c.order ELSE order
           keeps == order = None \/ c.selection = None \/ matching(c.selection, order)
           n == order = None
           g == IF shown # None \/ ~keeps THEN 0 ELSE c.selGen
           e == c.exit /\ keeps
           k == IF keeps THEN c.attempt ELSE 0
           s == IF keeps THEN c.selection ELSE None
           r == IF keeps THEN v.main.remembered ELSE None
           x == [v EXCEPT
                   !.charge.order = shown, !.charge.noOrder = n, !.charge.associated = None,
                   !.charge.factsFailed = FALSE, !.charge.selGen = g]
           u == [x EXCEPT !.charge.exit = e, !.charge.attempt = k,
                          !.charge.selection = s, !.main.remembered = r]
<1>1. takeOrder(v, order) = u BY DEF takeOrder, Formed
<1>2. /\ shown \in Maybe(Order) /\ s \in Maybe(Selection) /\ r \in Maybe(Selection)
  BY NoneFits DEF Formed
<1> HIDE DEF shown, n, g, e, k, s, r, keeps
<1>3. /\ x.api = v.api /\ x.nearby = v.nearby /\ x.main = v.main /\ DOMAIN x = DOMAIN v
      /\ DOMAIN x.charge = DOMAIN v.charge
      /\ x.charge.active = c.active /\ x.charge.order = shown
      /\ x.charge.facts = c.facts /\ x.charge.read = c.read
      /\ x.charge.mutation = c.mutation /\ x.charge.gate = c.gate
      /\ x.charge.exitFailed = c.exitFailed /\ x.charge.current = c.current
  BY DEF Formed
<1> HIDE DEF x
<1>4. /\ u.api = x.api /\ u.nearby = x.nearby /\ DOMAIN u = DOMAIN x
      /\ DOMAIN u.charge = DOMAIN x.charge /\ DOMAIN u.main = DOMAIN x.main
      /\ u.main.remembered = r /\ u.charge.selection = s
      /\ u.charge.exit = e /\ u.charge.attempt = k
      /\ u.charge.active = x.charge.active /\ u.charge.order = x.charge.order
      /\ u.charge.facts = x.charge.facts /\ u.charge.read = x.charge.read
      /\ u.charge.mutation = x.charge.mutation /\ u.charge.gate = x.charge.gate
      /\ u.charge.exitFailed = x.charge.exitFailed /\ u.charge.current = x.charge.current
  <2>1. /\ "api" \in DOMAIN x /\ "charge" \in DOMAIN x
        /\ "nearby" \in DOMAIN x /\ "main" \in DOMAIN x
    BY <1>3 DEF Formed
  <2>2. /\ "selection" \in DOMAIN x.charge /\ "exit" \in DOMAIN x.charge
        /\ "attempt" \in DOMAIN x.charge /\ "remembered" \in DOMAIN x.main
    BY <1>3 DEF Formed
  <2> DEFINE d == [x.charge EXCEPT !.exit = e, !.attempt = k, !.selection = s]
             m == [x.main EXCEPT !.remembered = r]
  <2>3. u = [x EXCEPT !.charge = d, !.main = m] BY <2>1, <2>2
  <2>4. /\ DOMAIN d = DOMAIN x.charge /\ d.selection = s /\ d.exit = e /\ d.attempt = k
        /\ d.active = x.charge.active /\ d.order = x.charge.order
        /\ d.facts = x.charge.facts /\ d.read = x.charge.read
        /\ d.mutation = x.charge.mutation /\ d.gate = x.charge.gate
        /\ d.exitFailed = x.charge.exitFailed /\ d.current = x.charge.current
    BY <2>2
  <2>5. DOMAIN m = DOMAIN x.main /\ m.remembered = r BY <2>2
  <2> HIDE DEF d, m, u
  <2>6. /\ u.api = x.api /\ u.nearby = x.nearby /\ DOMAIN u = DOMAIN x
        /\ u.charge = d /\ u.main = m
    BY <2>1, <2>3
  <2> QED BY <2>4, <2>5, <2>6
<1> HIDE DEF u
<1>5. Formed(u) BY <1>2, <1>3, <1>4 DEF Formed
<1>6. Taken(v, u, order)
  BY <1>3, <1>4, <1>5 DEF Taken, shown, keeps, terminal, e, k, s, r
<1> QED BY <1>1, <1>6

\* The page has read its order, for itself: the refresh that is owed is still under way,
\* or the order is read again, or what owed it is not on the page.
LEMMA PageLoadedTends ==
  ASSUME NEW v, Formed(v), v.charge.read # None, OwnRead(v.charge), Paged(v.charge),
         v.charge.read.op \in {"poll", "reconcile"}, v.charge.current, Calm(v),
         NEW order \in Maybe(Order), order = Current(order)
  PROVE  LET u == pageOrderLoaded(v, order) IN Tends(v, u) /\ Offering(u)
<1> DEFINE c == v.charge
           poll == c.read.op = "poll"
           x == [v EXCEPT !.charge.read = None]
           new == takeOrder(x, order)
           keeps == order = None \/ c.selection = None \/ matching(c.selection, order)
           target == new.charge.order # None \/ new.charge.selection # None
           facts == \/ ~poll /\ c.reconcile /\ target
                    \/ new.charge.order # None /\ new.charge.order.status = "reserved"
                    \/ new.charge.order = None /\ new.charge.selection # None
           y == [new EXCEPT !.charge.reconcile = facts]
           s == Shown(y)
           owner == c.read.owner
           read == currentAuthorityObserved(s, "page", order, TRUE, owner)
           e == read.charge.exit
           q == requestFacts(read, facts, e)
           o == observeAuthoritativeCurrent(x, "page", order)
           other == poll /\ c.order # None /\ order # None /\ order.id # c.order.id
           u == pageOrderLoaded(v, order)
<1>1. u = IF other THEN o ELSE IF ~poll /\ target THEN q ELSE read
  <2>1. c.active /\ c.read.selGen = c.selGen /\ c.current BY DEF Paged
  <2> QED BY <2>1, Zenon DEF pageOrderLoaded
<1>2. /\ Formed(x) /\ x.api = v.api /\ x.nearby = v.nearby /\ x.main = v.main
      /\ x.charge.active = c.active /\ x.charge.order = c.order
      /\ x.charge.selection = c.selection /\ x.charge.facts = c.facts
      /\ x.charge.read = None /\ x.charge.mutation = c.mutation
      /\ x.charge.reconcile = c.reconcile /\ x.charge.gate = c.gate
      /\ x.charge.factsFailed = c.factsFailed
      /\ x.charge.exit = c.exit /\ x.charge.exitFailed = c.exitFailed
      /\ x.charge.attempt = c.attempt /\ x.charge.current = c.current
  BY DEF Formed
<1> HIDE DEF x, u
<1>3. Leans(v, x) /\ Calm(x)
  <2>1. Loose(v) /\ Loose(x) BY <1>2 DEF Calm, Loose
  <2> QED BY <1>2, <2>1 DEF Leans, Calm, Waiting, Retrying
<1>4. CASE other
  <2>1. Tends(x, o) /\ Offering(o)
    <3>1. isActive(order) BY <1>4 DEF Current
    <3>2. x.charge.active BY <1>2 DEF Paged
    <3> QED BY <1>2, <3>1, <3>2, ObserveTends
  <2> HIDE DEF o
  <2>2. Leans(v, o) BY <1>3, <2>1, LeansTrans DEF Tends
  <2>3. Tends(v, o) BY <1>2, <1>3, <2>1, <2>2 DEF Tends, Lets
  <2> QED BY <1>1, <1>4, <2>1, <2>3 DEF o, u
<1> DEFINE terminal == order = None /\ c.exit /\ c.order # None /\ c.order.status \in Terminal
           shown == IF terminal THEN c.order ELSE order
<1>5. /\ Formed(new) /\ new.api.up = v.api.up /\ new.nearby = v.nearby
      /\ new.main.remembered = IF keeps THEN v.main.remembered ELSE None
      /\ new.charge.active = c.active /\ new.charge.order = shown
      /\ new.charge.selection = IF keeps THEN c.selection ELSE None
      /\ new.charge.facts = c.facts /\ new.charge.read = None
      /\ new.charge.mutation = c.mutation /\ new.charge.gate = c.gate
      /\ (new.charge.exit <=> c.exit /\ keeps)
      /\ new.charge.exitFailed = c.exitFailed
      /\ new.charge.attempt = IF keeps THEN c.attempt ELSE 0
      /\ new.charge.current = c.current
  <2>1. Taken(x, new, order) BY <1>2, OrderTaken
  <2> HIDE DEF new
  <2>2. /\ Formed(new) /\ new.api.up = x.api.up /\ new.nearby = x.nearby
        /\ new.charge.active = x.charge.active /\ new.charge.facts = x.charge.facts
        /\ new.charge.read = x.charge.read /\ new.charge.mutation = x.charge.mutation
        /\ new.charge.gate = x.charge.gate /\ new.charge.exitFailed = x.charge.exitFailed
        /\ new.charge.current = x.charge.current
    BY <2>1 DEF Taken
  <2>3. /\ new.charge.order =
             IF /\ order = None /\ x.charge.exit /\ x.charge.order # None
                /\ x.charge.order.status \in Terminal
             THEN x.charge.order ELSE order
        /\ new.main.remembered =
             IF order = None \/ x.charge.selection = None \/ matching(x.charge.selection, order)
             THEN x.main.remembered ELSE None
    BY <2>1, Zenon DEF Taken
  <2>4. /\ new.charge.selection =
             IF order = None \/ x.charge.selection = None \/ matching(x.charge.selection, order)
             THEN x.charge.selection ELSE None
        /\ new.charge.attempt =
             IF order = None \/ x.charge.selection = None \/ matching(x.charge.selection, order)
             THEN x.charge.attempt ELSE 0
        /\ new.charge.exit <=>
             /\ x.charge.exit
             /\ order = None \/ x.charge.selection = None \/ matching(x.charge.selection, order)
    BY <2>1, Zenon DEF Taken
  <2>5. new.charge.order = shown BY <1>2, <2>3
  <2>6. /\ new.main.remembered = IF keeps THEN v.main.remembered ELSE None
        /\ new.charge.selection = IF keeps THEN c.selection ELSE None
        /\ new.charge.attempt = IF keeps THEN c.attempt ELSE 0
        /\ new.charge.exit <=> c.exit /\ keeps
    BY <1>2, <2>3, <2>4
  <2> QED BY <1>2, <2>2, <2>5, <2>6
<1> HIDE DEF new, facts, keeps
<1>6. /\ DOMAIN y = DOMAIN new /\ DOMAIN y.charge = DOMAIN new.charge
      /\ y.api = new.api /\ y.nearby = new.nearby /\ y.main = new.main
      /\ y.charge.active = new.charge.active /\ y.charge.order = new.charge.order
      /\ y.charge.selection = new.charge.selection /\ y.charge.facts = new.charge.facts
      /\ y.charge.read = new.charge.read /\ y.charge.mutation = new.charge.mutation
      /\ y.charge.reconcile = facts /\ y.charge.gate = new.charge.gate
      /\ y.charge.exit = new.charge.exit /\ y.charge.exitFailed = new.charge.exitFailed
      /\ y.charge.attempt = new.charge.attempt /\ y.charge.current = new.charge.current
  BY <1>5 DEF Formed
<1> HIDE DEF y
<1>7. Formed(y) BY <1>5, <1>6 DEF Formed
<1>8. Loose(v) /\ Loose(y)
  <2>1. Loose(v) BY DEF Calm
  <2>2. Recent(y.charge.selection) /\ Recent(y.main.remembered)
    BY <1>5, <1>6, <2>1, RecentNone DEF Loose
  <2>3. y.charge.exit => c.exit /\ keeps BY <1>5, <1>6
  <2>4. y.charge.exit => y.charge.active /\ y.charge.mutation = None /\ y.charge.selection # None
    BY <1>5, <1>6, <2>1, <2>3 DEF Loose
  <2> QED BY <1>5, <1>6, <2>1, <2>2, <2>4 DEF Loose
<1>9. Leans(v, y) BY <1>5, <1>6, <1>7, <1>8 DEF Leans
<1>10. y.charge.exit /\ ~poll => facts /\ c.facts = None /\ ~c.exitFailed
  <2>1. y.charge.exit => c.exit /\ keeps BY <1>5, <1>6
  <2>2. y.charge.exit => target BY <1>5, <2>1, <1>8 DEF Loose
  <2>3. ~poll => c.reconcile /\ c.facts = None /\ ~c.exitFailed BY DEF OwnRead, Paged
  <2> QED BY <2>2, <2>3 DEF facts
<1>11. ~other => Calm(y)
  <2>1. Ready(y.nearby) BY <1>5, <1>6 DEF Calm
  <2>2. ASSUME y.charge.exit, ~other PROVE Waiting(y) \/ Retrying(y.charge)
    <3>1. c.exit /\ keeps BY <1>5, <1>6, <2>2
    <3>2. CASE ~poll BY <1>5, <1>6, <1>10, <2>2, <3>2 DEF Retrying
    <3>3. CASE poll
      <4>1. c.order # None /\ c.order.status \notin Terminal BY <1>8, <3>3 DEF Loose
      <4>2. new.charge.order = order BY <1>5, <4>1
      <4>3. CASE Waiting(v) BY <1>5, <1>6, <3>1, <4>3 DEF Waiting
      <4>4. CASE Retrying(c)
        <5>1. CASE order = None
          <6>1. new.charge.selection # None BY <1>5, <1>8, <3>1 DEF Loose
          <6>2. facts BY <4>2, <5>1, <6>1 DEF facts
          <6> QED BY <1>5, <1>6, <4>4, <6>2 DEF Retrying
        <5>2. CASE order # None
          <6>1. isActive(order) BY <5>2 DEF Current
          <6> QED BY <1>5, <1>6, <4>2, <4>4, <6>1 DEF Retrying
        <5> QED BY <5>1, <5>2
      <4> QED BY <3>1, <4>3, <4>4 DEF Calm
    <3> QED BY <3>2, <3>3
  <2> QED BY <1>8, <2>1, <2>2 DEF Calm
<1> HIDE DEF other, target
<1>12. ASSUME ~other
       PROVE  /\ Tends(v, read) /\ Offering(read) /\ Formed(read) /\ Calm(read)
              /\ read.charge.exit => y.charge.exit /\ read.charge.exitFailed = c.exitFailed
  <2>1. Tends(v, s) BY <1>9, <1>11, <1>12, ShownAfterwards
  <2>2. Minds(y, s) /\ Offering(s) /\ (y.charge.exit => Mild(y, s)) BY <1>7, ShownMinds
  <2> HIDE DEF s
  <2>3. Notes(s, read) BY AuthorityNotes
  <2> HIDE DEF read, owner
  <2>4. Tends(v, read) BY <2>1, <2>3, NotesLets, TendsTrans
  <2>5. Formed(s) /\ read.charge = s.charge /\ read.api.up = s.api.up
    BY <2>1, <2>3 DEF Tends, Notes, Minds, Leans
  <2>6. Offering(read) BY <2>2, <2>5 DEF Offering
  <2>7. s.charge.exit => y.charge.exit BY <1>7, <2>2 DEF Minds, Leans
  <2>8. y.charge.exit => s.charge.exitFailed = y.charge.exitFailed
    BY <1>7, <2>2 DEF Mild, Flow
  <2> QED BY <1>5, <1>6, <2>4, <2>5, <2>6, <2>7, <2>8 DEF Tends, Leans
<1> HIDE DEF read, s
<1>13. ASSUME ~other, ~poll PROVE Tends(v, q) /\ Offering(q)
  <2>1. e => e /\ facts /\ ~read.charge.exitFailed BY <1>10, <1>12, <1>13
  <2>2. Tends(read, q) BY <1>12, <1>13, <2>1, RequestFactsLeans DEF Tends
  <2> HIDE DEF q
  <2>3. Tends(v, q) BY <1>12, <1>13, <2>2, TendsTrans
  <2> QED BY <1>12, <1>13, <2>2, <2>3 DEF Tends, Lets
<1> HIDE DEF q, o
<1> QED BY <1>1, <1>4, <1>12, <1>13 DEF u

LEMMA EnterGuardTends ==
  ASSUME NEW v, Formed(v), NEW order \in Maybe(Order)
  PROVE  Tends(v, enterGuardOrder(v, order))
<1> DEFINE x == enterOrder(v, order)
           u == requestFacts(x, TRUE, FALSE)
<1>1. enterGuardOrder(v, order) = u BY DEF enterGuardOrder
<1>2. Tends(v, x) /\ ~x.charge.exit BY EnterOrderTends
<1> HIDE DEF x
<1>3. Formed(x) BY <1>2 DEF Tends, Leans
<1>4. Tends(x, u) BY <1>2, <1>3, RequestFactsLeans DEF Tends
<1> HIDE DEF u
<1> QED BY <1>1, <1>2, <1>4, TendsTrans

LEMMA GuardLoadedTends ==
  ASSUME NEW v, Formed(v), NEW order \in Maybe(Order)
  PROVE  Tends(v, guardLoaded(v, order))
<1> DEFINE x == [v EXCEPT !.main.guard = FALSE, !.main.navShown = TRUE]
           r == IF matching(x.main.remembered, order) THEN x.main.remembered ELSE None
           y == [x EXCEPT !.main.remembered = r]
           z == enterGuardOrder(y, order)
           u == [z EXCEPT !.main.page = "charge"]
           p == IF x.main.page = "charge" THEN x.main.page ELSE "nearby"
           t == [x EXCEPT !.main.page = p]
<1>1. guardLoaded(v, order) = u \/ guardLoaded(v, order) = t
  <2>1. "remembered" \in DOMAIN x.main BY DEF Formed
  <2>2. order # None => guardLoaded(v, order) = u BY <2>1 DEF guardLoaded
  <2>3. order = None => guardLoaded(v, order) = t BY DEF guardLoaded
  <2> QED BY <2>2, <2>3
<1>2. Notes(v, x)
  <2>1. /\ {"api", "charge", "nearby", "main"} \subseteq DOMAIN x
        /\ "up" \in DOMAIN x.api /\ "remembered" \in DOMAIN x.main
        /\ x.api.up = v.api.up /\ x.charge = v.charge /\ x.nearby = v.nearby
        /\ x.main.remembered = v.main.remembered
    BY DEF Formed
  <2> HIDE DEF x
  <2> QED BY <2>1, NotesParts
<1>3. Formed(x) BY <1>2 DEF Notes, Minds, Leans
<1> HIDE DEF x, p
<1>4. Notes(x, t) BY WindowSet
<1>5. Notes(x, y)
  <2>1. /\ {"api", "charge", "nearby", "main"} \subseteq DOMAIN y
        /\ "up" \in DOMAIN y.api /\ "remembered" \in DOMAIN y.main
        /\ y.api.up = x.api.up /\ y.charge = x.charge /\ y.nearby = x.nearby
        /\ y.main.remembered \in {None, x.main.remembered}
    BY <1>3 DEF Formed
  <2> HIDE DEF y
  <2> QED BY <2>1, NotesParts
<1> HIDE DEF y, t
<1>6. Formed(y) BY <1>3, <1>5 DEF Notes, Minds, Leans
<1>7. Tends(y, z) BY <1>6, EnterGuardTends
<1> HIDE DEF z
<1>8. Tends(z, u) BY WindowSet, NotesLets
<1> HIDE DEF u
<1>9. Tends(v, y) BY <1>2, <1>5, NotesTrans, NotesLets
<1>10. Tends(v, u) BY <1>7, <1>8, <1>9, TendsTrans
<1>11. Tends(v, t) BY <1>2, <1>4, NotesTrans, NotesLets
<1> QED BY <1>1, <1>10, <1>11

\* A read of the current order is answered.
LEMMA CurrentLoadedTends ==
  ASSUME NEW v, Formed(v), OwnRead(v.charge), Paged(v.charge), v.charge.current, Calm(v),
         NEW slot, slot = "page" => v.charge.read # None,
         v.charge.read # None => v.charge.read.op \in {"poll", "reconcile"},
         NEW order \in Maybe(Order), order = Current(order)
  PROVE  LET u == currentOrderLoaded(v, slot, order) IN
         Tends(v, u) /\ (slot = "page" => Offering(u))
<1> DEFINE x == IF slot = "page" /\ v.charge.read # None THEN pageOrderLoaded(v, order)
                ELSE observeAuthoritativeCurrent(v, slot, order)
           g == guardLoaded(x, order)
           u == currentOrderLoaded(v, slot, order)
<1>1. u = IF slot = "guard" /\ x.main.guard THEN g ELSE x
  BY Zenon DEF currentOrderLoaded
<1>2. Tends(v, x) /\ (slot = "page" => Offering(x))
  BY PageLoadedTends, ObserveTends
<1> HIDE DEF x, u
<1>3. Formed(x) BY <1>2 DEF Tends, Leans
<1>4. Tends(x, g) BY <1>3, GuardLoadedTends
<1> HIDE DEF g
<1> QED BY <1>1, <1>2, <1>4, TendsTrans DEF u

\* A read of the current order failed.
LEMMA CurrentFailedTends ==
  ASSUME NEW v, Formed(v), NEW slot, slot = "page" => v.charge.read # None /\ Paged(v.charge)
  PROVE  LET u == currentOrderFailed(v, slot) IN
         Tends(v, u) /\ (slot = "page" => Offering(u))
<1> DEFINE y == [v EXCEPT !.charge.read = None, !.charge.reconcile = TRUE]
           x == [v EXCEPT !.main.guard = FALSE]
           a == clearActiveOrder(x, 0, TRUE)
           g == [a EXCEPT !.main.navShown = FALSE, !.main.page = "login"]
           r == [v EXCEPT !.main.reconnect = None]
           u == currentOrderFailed(v, slot)
<1>1. CASE slot = "page"
  <2>1. u = Shown(y)
    <3>1. v.charge.read # None /\ v.charge.active /\ v.charge.read.selGen = v.charge.selGen
      BY <1>1 DEF Paged
    <3> QED BY <1>1, <3>1 DEF currentOrderFailed
  <2>2. /\ y.api = v.api /\ y.nearby = v.nearby /\ y.main = v.main /\ DOMAIN y = DOMAIN v
        /\ DOMAIN y.charge = DOMAIN v.charge
        /\ y.charge.active = v.charge.active /\ y.charge.order = v.charge.order
        /\ y.charge.selection = v.charge.selection /\ y.charge.facts = v.charge.facts
        /\ y.charge.read = None /\ y.charge.mutation = v.charge.mutation
        /\ y.charge.reconcile /\ y.charge.gate = v.charge.gate
        /\ y.charge.exit = v.charge.exit /\ y.charge.exitFailed = v.charge.exitFailed
        /\ y.charge.attempt = v.charge.attempt /\ y.charge.current = v.charge.current
    BY DEF Formed
  <2> HIDE DEF y, u
  <2>3. Formed(y) BY <2>2 DEF Formed
  <2>4. Loose(v) => Loose(y) BY <2>2 DEF Loose
  <2>5. Leans(v, y) BY <2>2, <2>3, <2>4 DEF Leans
  <2>6. Calm(v) => Calm(y) BY <2>2, <2>4 DEF Calm, Waiting, Retrying
  <2>7. Tends(v, Shown(y)) BY <2>5, <2>6, ShownAfterwards
  <2>8. Offering(Shown(y)) BY <2>3, ShownMinds
  <2> QED BY <2>1, <2>7, <2>8 DEF u
<1>2. CASE slot # "page"
  <2>1. u \in {g, r, v} BY <1>2 DEF currentOrderFailed
  <2>2. Notes(v, x) BY WindowSet
  <2>3. Notes(v, r) BY WindowSet
  <2> HIDE DEF x
  <2>4. Notes(x, a) BY WindowNotes
  <2>5. Notes(v, a) BY <2>2, <2>4, NotesTrans
  <2> HIDE DEF a, r
  <2>6. Formed(a) BY <2>5 DEF Notes, Minds, Leans
  <2>7. Notes(a, g)
    <3>1. /\ {"api", "charge", "nearby", "main"} \subseteq DOMAIN g
          /\ "up" \in DOMAIN g.api /\ "remembered" \in DOMAIN g.main
          /\ g.api.up = a.api.up /\ g.charge = a.charge /\ g.nearby = a.nearby
          /\ g.main.remembered = a.main.remembered
      BY <2>6 DEF Formed
    <3> HIDE DEF g
    <3> QED BY <3>1, NotesParts
  <2>8. Notes(v, g) BY <2>5, <2>7, NotesTrans
  <2> HIDE DEF g, u
  <2>9. Tends(v, u) BY <2>1, <2>3, <2>8, NotesSelf, NotesLets
  <2> QED BY <1>2, <2>9 DEF u
<1> QED BY <1>1, <1>2

-----------------------------------------------------------------------------
(* The mutation of an order.                                               *)

LEMMA SaneTends == ASSUME NEW v, NEW u, Sane(v), Tends(v, u) PROVE Sane(u)
BY DEF Sane, Tends, Leans, Lets

\* The two pages and the window's selection are as they were.
LEMMA SaneParts ==
  ASSUME NEW v, NEW u, Sane(v), {"api", "charge", "nearby", "main"} \subseteq DOMAIN u,
         "up" \in DOMAIN u.api, u.api.up = v.api.up, u.charge = v.charge,
         u.nearby = v.nearby, u.main = v.main
  PROVE  Sane(u)
<1>1. Formed(u) /\ Offering(u) BY DEF Sane, Formed, Offering
<1>2. Calm(u) BY DEF Sane, Calm, Loose, Waiting
<1> QED BY <1>1, <1>2 DEF Sane

LEMMA BeginTends ==
  ASSUME NEW v, Formed(v), NEW op
  PROVE  Tends(v, beginMutation(v, op))
<1> DEFINE c == v.charge
           target == IF op = "reserve" THEN c.selection.charger ELSE c.order.id
           s == sendMutation(v, op, target)
           m == [op |-> op, subject |-> orderId(c.order), superseded |-> FALSE, fits |-> TRUE]
           y == [s EXCEPT !.charge.mutation = m, !.main.stamp = "same"]
           u == beginMutation(v, op)
<1>1. u = v \/ (u = Shown(y) /\ ~c.exit)
  <2>1. u = IF ~c.active \/ ~v.api.up \/ chargeFlowBlocked(c) THEN v ELSE Shown(y)
    BY Zenon DEF beginMutation
  <2>2. c.exit => chargeFlowBlocked(c) BY DEF chargeFlowBlocked
  <2> HIDE DEF y, u
  <2> QED BY <2>1, <2>2
<1> HIDE DEF target, m, u
<1>2. /\ Formed(s) /\ s.api.up = v.api.up /\ s.charge = v.charge /\ s.nearby = v.nearby
      /\ s.main = v.main
  BY DEF sendMutation, Formed
<1> HIDE DEF s
<1>3. /\ Formed(y) /\ y.api = s.api /\ y.nearby = s.nearby
      /\ y.main.remembered = s.main.remembered
      /\ y.charge.active = c.active /\ y.charge.selection = c.selection
      /\ y.charge.read = c.read /\ y.charge.order = c.order
      /\ y.charge.exit = c.exit /\ y.charge.current = c.current
  BY <1>2 DEF Formed
<1> HIDE DEF y
<1>4. ASSUME ~c.exit PROVE Leans(v, y) /\ (Calm(v) => Calm(y))
  <2>1. Loose(v) => Loose(y) BY <1>2, <1>3, <1>4 DEF Loose
  <2>2. Leans(v, y) BY <1>2, <1>3, <2>1 DEF Leans
  <2> QED BY <1>2, <1>3, <1>4, <2>1, <2>2 DEF Calm
<1>5. ~c.exit => Tends(v, Shown(y)) BY <1>4, ShownAfterwards
<1>6. Tends(v, v) BY MildSelf, MildMinds
<1> QED BY <1>1, <1>5, <1>6 DEF u

\* What was awaited for a page that is no longer shown, or for another order, is over.
LEMMA EndSane ==
  ASSUME NEW v, Formed(v), Calm(v), ~v.charge.exit
  PROVE  Sane(endMutation(v))
<1> DEFINE f == IF v.charge.facts = None THEN None ELSE [v.charge.facts EXCEPT !.fits = TRUE]
           a == adoptMutationReadEpoch(v)
           y == [a EXCEPT !.charge.mutation = None]
<1>1. f \in Maybe(Facts) BY NoneFits DEF Formed, Maybe, Facts
<1>2. a = [v EXCEPT !.charge.read = None, !.charge.facts = f, !.charge.current = TRUE]
  BY DEF adoptMutationReadEpoch, Formed
<1> HIDE DEF a, f
<1>3. /\ Formed(a) /\ a.nearby = v.nearby /\ a.main = v.main
      /\ a.charge.selection = v.charge.selection /\ a.charge.read = None
      /\ a.charge.exit = v.charge.exit /\ a.charge.current
  BY <1>1, <1>2 DEF Formed
<1>4. /\ Formed(y) /\ y.nearby = a.nearby /\ y.main = a.main
      /\ y.charge.selection = a.charge.selection /\ y.charge.read = a.charge.read
      /\ y.charge.exit = a.charge.exit /\ y.charge.current = a.charge.current
  BY <1>3 DEF Formed
<1> HIDE DEF y
<1>5. Calm(y) /\ y.charge.current BY <1>3, <1>4 DEF Calm, Loose
<1>6. Minds(y, Shown(y)) /\ Offering(Shown(y)) BY <1>4, ShownMinds
<1>7. Sane(Shown(y)) BY <1>4, <1>5, <1>6 DEF Sane, Minds, Leans
<1> QED BY <1>7 DEF endMutation, y, a

LEMMA ReadsInvalid ==
  ASSUME NEW v, Formed(v), Calm(v)
  PROVE  LET u == invalidateChargeReads(v) IN
         /\ Formed(u) /\ Calm(u) /\ u.charge.active = v.charge.active
         /\ u.charge.mutation = v.charge.mutation /\ u.charge.exit = v.charge.exit
<1> DEFINE x == cancelSafeReads(v, CurrentRead)
           u == [x EXCEPT !.charge.current = FALSE]
<1>1. /\ Formed(x) /\ x.charge = v.charge /\ x.nearby = v.nearby /\ x.main = v.main
  BY AsideReads, AsideNotes DEF Aside, Mild
<1> HIDE DEF x
<1>2. /\ Formed(u) /\ u.nearby = x.nearby /\ u.main = x.main
      /\ u.charge.active = x.charge.active /\ u.charge.order = x.charge.order
      /\ u.charge.selection = x.charge.selection /\ u.charge.facts = x.charge.facts
      /\ u.charge.read = x.charge.read /\ u.charge.mutation = x.charge.mutation
      /\ u.charge.reconcile = x.charge.reconcile /\ u.charge.factsFailed = x.charge.factsFailed
      /\ u.charge.gate = x.charge.gate /\ u.charge.exit = x.charge.exit
      /\ u.charge.exitFailed = x.charge.exitFailed /\ u.charge.attempt = x.charge.attempt
  BY <1>1 DEF Formed
<1> HIDE DEF u
<1>3. Calm(u) BY <1>1, <1>2 DEF Calm, Loose, Waiting, Retrying
<1> QED BY <1>1, <1>2, <1>3 DEF invalidateChargeReads, u, x

\* The order is moved on; when it is over, the refresh is owed and asked for.
LEMMA AcceptSane ==
  ASSUME NEW v, Formed(v), Calm(v), ~v.charge.exit, NEW order \in Order
  PROVE  Sane(acceptMutation(v, order))
<1> DEFINE i == invalidateChargeReads(v)
           told == mutationAuthorityObserved(i, order)
           exits == order.status \in Terminal /\ matching(told.charge.selection, order)
           reserved == told.charge.mutation.op = "reserve" /\ order.status = "reserved"
           o == cancelOwnedSafeReads(told)
           r == exits \/ reserved
           y == [o EXCEPT
                   !.charge.polling = FALSE, !.charge.order = order, !.charge.noOrder = FALSE,
                   !.charge.selGen = 0, !.charge.associated = None,
                   !.charge.exit = exits, !.charge.exitFailed = FALSE, !.charge.attempt = 0,
                   !.charge.reconcile = r, !.charge.mutation = None]
           s == Shown(y)
           q == requestFacts(s, y.charge.reconcile, y.charge.exit)
           u == acceptMutation(v, order)
<1>1. u = IF ~v.charge.active \/ ~v.charge.mutation.fits \/ overtaken(v, order.id)
          THEN endMutation(told) ELSE q
  BY Zenon DEF acceptMutation, takeOutcome
<1>2. /\ Formed(i) /\ Calm(i) /\ i.charge.active = v.charge.active
      /\ i.charge.exit = v.charge.exit
  BY ReadsInvalid
<1> HIDE DEF i
<1>3. Notes(i, told) BY AuthorityNotes
<1> HIDE DEF told
<1>4. Formed(told) /\ Calm(told) /\ told.charge = i.charge BY <1>2, <1>3 DEF Notes, Minds, Leans
<1>5. Sane(endMutation(told)) BY <1>2, <1>4, EndSane
<1>6. CASE v.charge.active
  <2>1. Emptied(told, o) BY <1>4, OwnedEmptied
  <2> HIDE DEF o, r, exits
  <2>2. /\ Formed(y) /\ y.nearby = o.nearby /\ y.main = o.main
        /\ y.charge.active = o.charge.active /\ y.charge.selection = o.charge.selection
        /\ y.charge.facts = o.charge.facts /\ y.charge.read = o.charge.read
        /\ y.charge.current = o.charge.current /\ y.charge.exit = exits
        /\ y.charge.exitFailed = FALSE /\ y.charge.reconcile = r /\ y.charge.mutation = None
    <3>1. Formed(o) /\ order \in Maybe(Order) BY <2>1 DEF Emptied, Maybe
    <3> DEFINE d == [o.charge EXCEPT
                       !.polling = FALSE, !.order = order, !.noOrder = FALSE,
                       !.selGen = 0, !.associated = None, !.exit = exits, !.exitFailed = FALSE,
                       !.attempt = 0, !.reconcile = r, !.mutation = None]
    <3>2. "charge" \in DOMAIN o BY <3>1 DEF Formed
    <3>3. y = [o EXCEPT !.charge = d] BY <3>2
    <3>4. /\ DOMAIN d = DOMAIN o.charge /\ d.order = order
          /\ d.active = o.charge.active /\ d.selection = o.charge.selection
          /\ d.facts = o.charge.facts /\ d.read = o.charge.read
          /\ d.current = o.charge.current /\ d.exit = exits /\ d.exitFailed = FALSE
          /\ d.reconcile = r /\ d.mutation = None
      BY <3>1 DEF Formed
    <3> HIDE DEF d, y
    <3>5. /\ DOMAIN y = DOMAIN o /\ y.nearby = o.nearby /\ y.main = o.main /\ y.api = o.api
          /\ y.charge = d
      BY <3>2, <3>3
    <3> QED BY <3>1, <3>4, <3>5 DEF Formed
  <2> HIDE DEF y
  <2>3. exits => r /\ o.charge.selection # None BY <2>1 DEF exits, r, matching, Emptied
  <2>4. Loose(y) BY <1>2, <1>4, <1>6, <2>1, <2>2, <2>3 DEF Loose, Calm, Emptied
  <2>5. Calm(y) /\ y.charge.current
    BY <2>1, <2>2, <2>3, <2>4 DEF Calm, Retrying, Ready, Listens, Emptied
  <2>6. Minds(y, s) /\ Offering(s) /\ (y.charge.exit => Mild(y, s)) BY <2>2, ShownMinds
  <2> HIDE DEF s
  <2>7. Sane(s) BY <2>2, <2>5, <2>6 DEF Sane, Minds, Leans
  <2>8. s.charge.exit => y.charge.exit /\ y.charge.reconcile /\ ~s.charge.exitFailed
    BY <2>2, <2>3, <2>6 DEF Minds, Leans, Mild, Flow
  <2>9. Leans(s, q) /\ Lets(s, q) /\ Calm(q) BY <2>7, <2>8, RequestFactsLeans DEF Sane
  <2> HIDE DEF q
  <2>10. Sane(q) BY <2>7, <2>9 DEF Sane, Leans, Lets
  <2> QED BY <1>1, <1>5, <2>10
<1> HIDE DEF u, q
<1> QED BY <1>1, <1>5, <1>6 DEF u

\* The outcome of a mutation is not known, or is a refusal.
LEMMA MutationFailedSane ==
  ASSUME NEW v, Formed(v), Calm(v), ~v.charge.exit, NEW why
  PROVE  Sane(mutationFailed(v, why))
<1> DEFINE i == invalidateChargeReads(v)
           told == [i EXCEPT !.main.stamp = "none"]
           x == [told EXCEPT !.charge.reconcile = TRUE]
           o == cancelOwnedSafeReads(x)
           y == [o EXCEPT !.charge.polling = FALSE, !.charge.mutation = None]
           failed == Shown(y)
           u == mutationFailed(v, why)
<1>1. u \in {endMutation(told), requestReconciliation(failed), failed}
  BY Zenon DEF mutationFailed
<1>2. /\ Formed(i) /\ Calm(i) /\ i.charge.exit = v.charge.exit BY ReadsInvalid
<1> HIDE DEF i
<1>3. Notes(i, told) BY WindowSet
<1> HIDE DEF told
<1>4. Formed(told) /\ Calm(told) /\ told.charge = i.charge BY <1>2, <1>3 DEF Notes, Minds, Leans
<1>5. Sane(endMutation(told)) BY <1>2, <1>4, EndSane
<1>6. /\ Formed(x) /\ x.nearby = told.nearby /\ x.main = told.main
      /\ x.charge.selection = told.charge.selection /\ x.charge.exit = told.charge.exit
  BY <1>4 DEF Formed
<1> HIDE DEF x
<1>7. Emptied(x, o) BY <1>6, OwnedEmptied
<1> HIDE DEF o
<1>8. /\ Formed(y) /\ y.nearby = o.nearby /\ y.main = o.main
      /\ y.charge.selection = o.charge.selection /\ y.charge.exit = o.charge.exit
      /\ y.charge.read = o.charge.read /\ y.charge.current = o.charge.current
  BY <1>7 DEF Formed, Emptied
<1> HIDE DEF y
<1>9. Loose(y) BY <1>2, <1>4, <1>6, <1>7, <1>8 DEF Loose, Calm, Emptied
<1>10. Calm(y) /\ y.charge.current
  BY <1>2, <1>4, <1>6, <1>7, <1>8, <1>9 DEF Calm, Ready, Listens, Emptied
<1>11. Minds(y, failed) /\ Offering(failed) BY <1>8, ShownMinds
<1> HIDE DEF failed
<1>12. Sane(failed) BY <1>8, <1>10, <1>11 DEF Sane, Minds, Leans
<1>13. Tends(failed, requestReconciliation(failed)) BY <1>12, ReconciliationTends DEF Sane
<1>14. Sane(requestReconciliation(failed)) BY <1>12, <1>13, SaneTends
<1> HIDE DEF u
<1> QED BY <1>1, <1>5, <1>12, <1>14 DEF u

-----------------------------------------------------------------------------
(* The session and the connection.                                         *)

LEMMA SessionSane == ASSUME NEW v, Sane(v) PROVE Sane(sessionReset(v))
<1> DEFINE a == cancelAll(v)
           none == [page |-> "login", authority |-> None, remembered |-> None, guard |-> FALSE,
                    reconnect |-> None, required |-> FALSE, queued |-> FALSE,
                    deferred |-> FALSE, blocked |-> FALSE, stamp |-> "none", navShown |-> FALSE]
           m == [a EXCEPT !.api.user = FALSE, !.main = none]
           n == resetNearbyPage(m)
           h == resetHistoryPage(n)
<1>1. sessionReset(v) = resetChargePage(h) BY Zenon DEF sessionReset
<1>2. Formed(v) /\ Loose(v) BY DEF Sane, Calm
<1>3. /\ DOMAIN a = DOMAIN v /\ "up" \in DOMAIN a.api /\ a.nearby = v.nearby
      /\ DOMAIN a.charge = DOMAIN v.charge
      /\ a.charge.active = v.charge.active /\ a.charge.order = v.charge.order
      /\ a.charge.selection = v.charge.selection /\ a.charge.facts = v.charge.facts
      /\ a.charge.read = v.charge.read /\ a.charge.mutation = v.charge.mutation
      /\ a.charge.exit = v.charge.exit
  BY <1>2 DEF Formed, cancelAll, cancelDetails
<1> HIDE DEF a
<1>4. none.remembered = None /\ "remembered" \in DOMAIN none OBVIOUS
<1> HIDE DEF none
<1>5. /\ DOMAIN m = DOMAIN a /\ "up" \in DOMAIN m.api /\ m.nearby = a.nearby
      /\ m.charge = a.charge /\ m.main = none
  BY <1>2, <1>3 DEF Formed
<1> HIDE DEF m
<1>6. Formed(m) /\ Loose(m)
  <2>1. Formed(m) BY <1>2, <1>3, <1>4, <1>5, NoneFits DEF Formed
  <2>2. Loose(m) BY <1>2, <1>3, <1>4, <1>5 DEF Loose, Recent
  <2> QED BY <2>1, <2>2
<1>7. Formed(n) /\ Loose(n) BY <1>6, NearbyResetLeans DEF Leans
<1> HIDE DEF n
<1>8. Aside(n, h) BY HistoryAside
<1> HIDE DEF h
<1>9. Formed(h) /\ h.main = n.main BY <1>7, <1>8, AsideNotes DEF Aside, Mild
<1>10. Sane(resetChargePage(h)) BY <1>7, <1>9, ChargeResetSane DEF Loose
<1> QED BY <1>1, <1>10

LEMMA LoginTends == ASSUME NEW v, Formed(v) PROVE Tends(v, loginSucceeded(v))
<1> DEFINE x == [v EXCEPT !.api.user = TRUE]
           s == send(x, "guard")
           u == [s EXCEPT
                   !.main.remembered = None, !.main.deferred = FALSE, !.main.stamp = "none",
                   !.main.reconnect = None, !.main.required = FALSE, !.main.queued = FALSE,
                   !.main.authority = None, !.main.guard = TRUE]
<1>1. loginSucceeded(v) = u BY Zenon DEF loginSucceeded
<1>2. Notes(v, x)
  <2>1. /\ {"api", "charge", "nearby", "main"} \subseteq DOMAIN x
        /\ "up" \in DOMAIN x.api /\ "remembered" \in DOMAIN x.main
        /\ x.api.up = v.api.up /\ x.charge = v.charge /\ x.nearby = v.nearby
        /\ x.main.remembered = v.main.remembered
    BY DEF Formed
  <2> HIDE DEF x
  <2> QED BY <2>1, NotesParts
<1> HIDE DEF x
<1>3. Notes(x, s) BY AsideReads, AsideNotes
<1> HIDE DEF s
<1>4. Notes(v, s) BY <1>2, <1>3, NotesTrans
<1>5. Formed(s) BY <1>4 DEF Notes, Minds, Leans
<1>6. Notes(s, u)
  <2>1. /\ {"api", "charge", "nearby", "main"} \subseteq DOMAIN u
        /\ "up" \in DOMAIN u.api /\ "remembered" \in DOMAIN u.main
        /\ u.api.up = s.api.up /\ u.charge = s.charge /\ u.nearby = s.nearby
        /\ u.main.remembered = None
    BY <1>5 DEF Formed
  <2> HIDE DEF u
  <2> QED BY <2>1, NotesParts
<1> HIDE DEF u
<1>7. Tends(v, u) BY <1>4, <1>6, NotesTrans, NotesLets
<1> QED BY <1>1, <1>7

LEMMA MainLinkNotes == ASSUME NEW v PROVE Notes(v, MainConnectionChanged(v))
<1> DEFINE x == [v EXCEPT !.main.required = TRUE, !.main.queued = TRUE]
<1>1. MainConnectionChanged(v) \in {v, requestReconnectCurrent(x)}
  BY Zenon DEF MainConnectionChanged
<1>2. Formed(v) => /\ {"api", "charge", "nearby", "main"} \subseteq DOMAIN x
                   /\ "up" \in DOMAIN x.api /\ "remembered" \in DOMAIN x.main
                   /\ x.api.up = v.api.up /\ x.charge = v.charge /\ x.nearby = v.nearby
                   /\ x.main.remembered = v.main.remembered
  BY DEF Formed
<1> HIDE DEF x
<1>3. Notes(v, x) BY <1>2, NotesParts
<1>4. Notes(x, requestReconnectCurrent(x)) BY WindowNotes
<1> QED BY <1>1, <1>3, <1>4, NotesSelf, NotesTrans

\* Without a connection the refresh that is owed is given up, and can be tried again.
LEMMA LinkSane ==
  ASSUME NEW v, Formed(v), Calm(v), v.charge.current, NEW before
  PROVE  LET u == connectionChanged(v, before) IN
         Sane(u) /\ (~v.charge.exit => ~u.charge.exit)
<1> DEFINE h == HistoryConnectionChanged(v)
           c == ChargeConnectionChanged(h, before)
           n == NearbyConnectionChanged(c)
           u == MainConnectionChanged(n)
<1>1. connectionChanged(v, before) = u BY Zenon DEF connectionChanged
<1>2. Mild(v, h) BY HistoryAside, AsideNotes
<1> HIDE DEF h
<1>3. Formed(h) /\ Tends(v, h) BY <1>2, MildMinds DEF Mild
<1>4. /\ Tends(h, c) /\ Offering(c)
      /\ Loose(h) /\ ~h.api.up => (c.charge.exit => Retrying(c.charge))
  <2>1. \E t : Formed(t) /\ c = Shown(t)
    <3> DEFINE p == [h EXCEPT !.charge.polling = FALSE]
               i == invalidateSafeReads(p)
               l == [i EXCEPT !.charge.reconcile = TRUE, !.charge.factsFailed = FALSE]
               q == requestReconciliation(h)
               t == CASE ~h.api.up /\ h.charge.active -> l
                      [] ~h.api.up /\ ~h.charge.active -> p
                      [] h.api.up /\ ~before /\ h.charge.active -> q
                      [] OTHER -> h
    <3>1. c = Shown(t) BY Zenon DEF ChargeConnectionChanged
    <3>2. t \in {l, p, q, h} OBVIOUS
    <3>3. Formed(p) BY <1>3 DEF Formed
    <3> HIDE DEF p, t
    <3>4. Formed(i) BY <3>3, OwnedEmptied DEF Emptied
    <3> HIDE DEF i
    <3>5. Formed(l) BY <3>4 DEF Formed
    <3> HIDE DEF l
    <3>6. Formed(q) BY <1>3, ReconciliationTends DEF Tends, Leans
    <3> HIDE DEF q
    <3> QED BY <1>3, <3>1, <3>2, <3>3, <3>5, <3>6
  <2> QED BY <1>3, <2>1, ShownMinds, ChargeLinkTends
<1> HIDE DEF c
<1>5. Tends(v, c) /\ Formed(c) BY <1>3, <1>4, TendsTrans DEF Tends, Leans
<1>6. /\ Leans(c, n) /\ Lets(c, n) /\ (c.api.up => Tends(c, n))
      /\ Loose(c) /\ (c.charge.exit => Retrying(c.charge)) /\ ~c.api.up => Calm(n)
  BY <1>5, NearbyLinkLeans
<1> HIDE DEF n
<1>7. Calm(n)
  <2>1. CASE c.api.up BY <1>5, <1>6, <2>1 DEF Tends
  <2>2. CASE ~c.api.up
    <3>1. h.api.up = c.api.up BY <1>3, <1>4 DEF Tends, Leans
    <3>2. Calm(c) /\ Calm(h) BY <1>3, <1>5 DEF Tends
    <3> QED BY <1>4, <1>6, <2>2, <3>1, <3>2 DEF Calm
  <2> QED BY <2>1, <2>2
<1>8. Leans(v, n) BY <1>5, <1>6, LeansTrans DEF Tends
<1>9. Sane(n) /\ (~v.charge.exit => ~n.charge.exit)
  BY <1>4, <1>5, <1>6, <1>7, <1>8 DEF Sane, Leans, Lets
<1>10. Tends(n, u) BY MainLinkNotes, NotesLets
<1> HIDE DEF u
<1>11. Sane(u) BY <1>9, <1>10, SaneTends
<1>12. ~v.charge.exit => ~u.charge.exit BY <1>9, <1>10 DEF Tends, Leans, Sane
<1> QED BY <1>1, <1>11, <1>12

\* A mutation that was awaited has no answer, and nothing is owed.
LEMMA LostSane ==
  ASSUME NEW v, Sane(v),
         (\E i \in DOMAIN api.ops : api.ops[i].live) => ~v.charge.exit
  PROVE  Sane(lost(v))
<1> DEFINE gone == [v EXCEPT !.api.up = FALSE, !.api.ops = <<>>]
           told == connectionChanged(gone, TRUE)
           over == {"login"} \cup told.api.replayed
           a == failOf(told, "login")
           g == IF "guard" \in over THEN "guard" ELSE "login"
           b == failOf(a, g)
           k == IF "reconnect" \in over THEN "reconnect" ELSE "login"
           d == failOf(b, k)
           awaits == \E i \in DOMAIN api.ops : api.ops[i].live
           m == mutationFailed(d, "uncertain")
           f == IF awaits THEN m ELSE d
           u == [f EXCEPT !.api.reads = [s \in DOMAIN @ |-> 0],
                          !.api.details = [i \in DetailId |->
                                             IF @[i] = "sent" THEN "kept" ELSE "over"]]
<1>1. lost(v) = u BY Zenon DEF lost
<1>2. Formed(gone) /\ Calm(gone) /\ gone.charge = v.charge
  <2>1. /\ DOMAIN gone = DOMAIN v /\ "up" \in DOMAIN gone.api
        /\ gone.charge = v.charge /\ gone.nearby = v.nearby /\ gone.main = v.main
    BY DEF Sane, Formed
  <2> HIDE DEF gone
  <2>2. Formed(gone) BY <2>1 DEF Sane, Formed
  <2>3. Calm(gone) BY <2>1 DEF Sane, Calm, Loose, Waiting
  <2> QED BY <2>1, <2>2, <2>3
<1> HIDE DEF gone
<1>3. Sane(told) /\ (~v.charge.exit => ~told.charge.exit) BY <1>2, LinkSane DEF Sane
<1> HIDE DEF told
<1>4. ASSUME NEW x, Formed(x), NEW slot \in {"login", "guard", "reconnect"}
      PROVE  Tends(x, failOf(x, slot))
  <2> DEFINE y == cancelSafeReads(x, {slot})
  <2>1. Tends(x, y) /\ Formed(y) BY <1>4, ReadsMild, MildMinds DEF Tends, Leans
  <2> HIDE DEF y
  <2>2. Tends(y, currentOrderFailed(y, slot)) BY <1>4, <2>1, CurrentFailedTends
  <2>3. readFailed(y, slot) \in {y, currentOrderFailed(y, slot)}
    BY <1>4 DEF readFailed, CurrentRead
  <2>4. failOf(x, slot) \in {x, readFailed(y, slot)} BY DEF failOf, y
  <2> QED BY <2>1, <2>2, <2>3, <2>4, TendsTrans, MildSelf, MildMinds
<1>5. Tends(told, a) BY <1>3, <1>4 DEF Sane
<1> HIDE DEF a
<1>6. Formed(a) BY <1>3, <1>5 DEF Sane, Tends, Leans
<1>7. g \in {"login", "guard", "reconnect"} /\ k \in {"login", "guard", "reconnect"} OBVIOUS
<1> HIDE DEF g, k
<1>8. Tends(a, b) BY <1>4, <1>6, <1>7
<1> HIDE DEF b
<1>9. Formed(b) BY <1>6, <1>8 DEF Tends, Leans
<1>10. Tends(b, d) BY <1>4, <1>7, <1>9
<1> HIDE DEF d
<1>11. Tends(told, d) BY <1>5, <1>8, <1>10, TendsTrans
<1>12. Sane(d) BY <1>3, <1>11, SaneTends
<1>13. awaits => ~d.charge.exit BY <1>3, <1>11 DEF Tends, Leans, Sane
<1> HIDE DEF awaits
<1>14. awaits => Sane(m) BY <1>12, <1>13, MutationFailedSane DEF Sane
<1> HIDE DEF m
<1>15. Sane(f) BY <1>12, <1>14
<1> HIDE DEF f
<1>16. /\ {"api", "charge", "nearby", "main"} \subseteq DOMAIN u /\ "up" \in DOMAIN u.api
       /\ u.api.up = f.api.up /\ u.charge = f.charge /\ u.nearby = f.nearby /\ u.main = f.main
  BY <1>15 DEF Sane, Formed
<1> HIDE DEF u
<1>17. Sane(u) BY <1>15, <1>16, SaneParts
<1> QED BY <1>1, <1>17

-----------------------------------------------------------------------------
(* The events.                                                             *)

LEMMA BecomesSane ==
  ASSUME NEW x, NEW slots, Becomes(x, slots), Sane(x)
  PROVE  Sane(w)'
<1>1. /\ w'.api = x.api /\ w'.charge = x.charge /\ w'.nearby = x.nearby /\ w'.main = x.main
      /\ {"api", "charge", "nearby", "main"} \subseteq DOMAIN w'
  BY DEF Becomes, w
<1> DEFINE u == w'
<1> HIDE DEF u
<1>2. Sane(u) BY <1>1, SaneParts DEF u, Sane, Formed
<1> QED BY <1>2 DEF u

LEMMA TendsEvent ==
  ASSUME Sane(w), NEW x, NEW slots, Becomes(x, slots), Tends(w, x)
  PROVE  Sane(w)'
BY SaneTends, BecomesSane

\* An answer, or a mutation that was given up, is taken from what is under way.
LEMMA AnsweredSane ==
  ASSUME Sane(w), NEW slot
  PROVE  /\ Sane(answered(slot)) /\ answered(slot).charge = charge
         /\ answered(slot).nearby = nearby
<1>1. Aside(w, answered(slot)) BY AsideReads DEF answered
<1> DEFINE x == answered(slot)
<1> HIDE DEF x
<1>2. Aside(w, x) BY <1>1 DEF x
<1>3. Sane(x) BY <1>2, SaneParts DEF Aside, Sane
<1>4. x.charge = w.charge /\ x.nearby = w.nearby BY <1>2 DEF Aside, Sane
<1> QED BY <1>3, <1>4, ShellOf DEF x

\* Nothing is owed while the flow is free, or while a mutation is awaited.
LEMMA NothingOwed ==
  ASSUME Sound(w), Sane(w)
  PROVE  /\ ~main.blocked => ~charge.exit
         /\ "back" \in charge.buttons => ~charge.exit
         /\ (\E i \in DOMAIN api.ops : api.ops[i].live) => ~charge.exit
<1>1. w.charge = charge /\ w.main = main /\ w.api = api BY ShellOf
<1>2. charge.exit => chargeFlowBlocked(charge) BY DEF chargeFlowBlocked
<1>3. main.blocked = chargeFlowBlocked(charge) BY <1>1 DEF Sound, Whole, Told, Reported
<1>4. "back" \in charge.buttons => ~chargeFlowBlocked(charge)
  <2>1. Rendered(w) BY DEF Sound, Whole
  <2>2. "back" \in charge.buttons => "back" \in Usable(w) BY <1>1, <2>1 DEF Rendered
  <2>3. "back" \notin Offers(charge) BY DEF Offers
  <2> QED BY <1>1, <2>2, <2>3 DEF Usable
<1>5. (\E i \in DOMAIN api.ops : api.ops[i].live) => charge.mutation # None
  BY <1>1 DEF Sound, Awaited
<1>6. charge.mutation # None => ~charge.exit BY <1>1 DEF Sane, Calm, Loose
<1> QED BY <1>2, <1>3, <1>4, <1>5, <1>6

LEMMA PageTends ==
  ASSUME NEW v, NEW x, Tends(v, x), NEW page
  PROVE  Tends(v, [x EXCEPT !.main.page = page])
BY WindowSet, NotesLets, TendsTrans

LEMMA LeavesTends ==
  ASSUME NEW v, Formed(v), ~v.charge.exit
  PROVE  Tends(v, leaves(v))
<1>1. leaves(v) \in {leavePage(v), deactivateHistory(v), v} BY DEF leaves
<1>2. Tends(v, deactivateHistory(v)) BY HistoryAside, AsideNotes, NotesLets
<1> QED BY <1>1, <1>2, LeavePageTends, MildSelf, MildMinds

LEMMA LoginSane ==
  ASSUME Sound(w), Sane(w), loginByPhone
  PROVE  Sane(w)'
<1> DEFINE x == sessionReset(w)
           y == send(x, "login")
<1>1. Does(x) \/ Does(y) BY DEF loginByPhone
<1>2. Sane(x) BY SessionSane
<1> HIDE DEF x
<1>3. Tends(x, y) BY ReadsMild, MildMinds
<1> HIDE DEF y
<1> QED BY <1>1, <1>2, <1>3, SaneTends, BecomesSane DEF Does

LEMMA TurnSane ==
  ASSUME Sound(w), Sane(w),
         NearbyButton \/ ProfileButton \/ HistoryButton \/ CurrentOrderButton
           \/ navigationRequested \/ navigationBack
  PROVE  Sane(w)'
<1> DEFINE l == leaves(w)
           p == leavePage(w)
           q == IF main.page = "charge" THEN p ELSE w
           a == activateHistory(q)
           c == cancelReconnectCurrent(w)
           d == IF main.page = "history" THEN deactivateHistory(c) ELSE c
           e == enterOrder(d, main.authority)
           r == resume(e)
           T(x, page) == [x EXCEPT !.main.page = page]
<1>1. \/ Free /\ (Does(T(l, "nearby")) \/ Does(T(l, "profile")) \/ Does(T(a, "history")))
      \/ Does(T(r, "charge")) \/ Does(T(w, "navigation")) \/ Does(T(w, "nearby"))
  BY DEF NearbyButton, ProfileButton, HistoryButton, CurrentOrderButton,
         navigationRequested, navigationBack
<1>2. Formed(w) BY DEF Sane
<1>3. Free => ~w.charge.exit BY NothingOwed, ShellOf DEF Free
<1>4. Free => Tends(w, l) BY <1>2, <1>3, LeavesTends
<1>5. Free => Tends(w, q) BY <1>2, <1>3, LeavePageTends, MildSelf, MildMinds
<1>6. Tends(q, a) BY HistoryAside, AsideNotes, NotesLets
<1>7. Free => Tends(w, a) BY <1>5, <1>6, TendsTrans
<1>8. Notes(w, c) BY WindowNotes
<1> HIDE DEF c
<1>9. Notes(c, d) BY HistoryAside, AsideNotes, NotesSelf
<1> HIDE DEF d
<1>10. Tends(w, d) BY <1>8, <1>9, NotesTrans, NotesLets
<1>11. main.authority \in Maybe(Order) BY SoundKnown, Parts, ShellOf DEF MainState
<1>12. Formed(d) BY <1>2, <1>10 DEF Tends, Leans
<1>13. Tends(d, e) BY <1>11, <1>12, EnterOrderTends
<1> HIDE DEF e
<1>14. Formed(e) BY <1>12, <1>13 DEF Tends, Leans
<1>15. Tends(e, r) BY <1>14, ResumeTends
<1> HIDE DEF r, a, l
<1>16. Tends(w, r) BY <1>10, <1>13, <1>15, TendsTrans
<1>17. Tends(w, w) BY MildSelf, MildMinds
<1>18. /\ Free => /\ Tends(w, T(l, "nearby")) /\ Tends(w, T(l, "profile"))
                  /\ Tends(w, T(a, "history"))
       /\ Tends(w, T(r, "charge")) /\ Tends(w, T(w, "navigation")) /\ Tends(w, T(w, "nearby"))
  BY <1>4, <1>7, <1>16, <1>17, PageTends
<1> HIDE DEF T
<1> QED BY <1>1, <1>18, TendsEvent DEF Does

LEMMA HistoryPageSane ==
  ASSUME Sound(w), Sane(w), HistoryPageButton \/ handleHistory
  PROVE  Sane(w)'
<1>1. CASE HistoryPageButton
  <2>1. \/ Does(refreshHistory(w))
        \/ \E i : Does(requestPage(w, i))
    BY <1>1 DEF HistoryPageButton
  <2> QED BY <2>1, HistoryAside, AsideNotes, NotesLets, TendsEvent DEF Does
<1>2. CASE handleHistory
  <2> DEFINE x == answered("history")
  <2>1. PICK more : Does(orderHistoryLoaded(x, more)) BY <1>2 DEF handleHistory
  <2>2. Sane(x) BY AnsweredSane
  <2> HIDE DEF x
  <2>3. Tends(x, orderHistoryLoaded(x, more)) BY HistoryAside, AsideNotes, NotesLets
  <2> QED BY <2>1, <2>2, <2>3, SaneTends, BecomesSane DEF Does
<1> QED BY <1>1, <1>2

LEMMA SelectSane ==
  ASSUME Sound(w), Sane(w), chargerSelected
  PROVE  Sane(w)'
<1>1. PICK c \in Charger, st \in Status :
        LET s == [charger |-> c, status |-> st, fresh |-> TRUE, valid |-> TRUE]
            v == nextSelection(w)
        IN  IF main.authority # None \/ main.blocked THEN Does(v)
            ELSE Does([enterSelection([v EXCEPT !.main.remembered = s], s) EXCEPT
                         !.main.page = "charge"])
  BY DEF chargerSelected
<1> DEFINE s == [charger |-> c, status |-> st, fresh |-> TRUE, valid |-> TRUE]
           v == nextSelection(w)
           m == [v EXCEPT !.main.remembered = s]
           e == enterSelection(m, s)
           u == [e EXCEPT !.main.page = "charge"]
<1>2. Does(v) \/ Does(u) BY <1>1
<1>3. Tends(w, v) BY NextSelectionMinds, MindsTends
<1> HIDE DEF v
<1>4. s \in Selection /\ Recent(s) /\ s \in Maybe(Selection) BY DEF Selection, Recent, Maybe
<1> HIDE DEF s
<1>5. Tends(v, m) BY <1>4, RememberedMinds, MindsTends
<1> HIDE DEF m
<1>6. Tends(w, m) /\ Formed(m) BY <1>3, <1>5, TendsTrans DEF Sane, Tends, Leans
<1>7. Tends(m, e) BY <1>4, <1>6, EnterSelectionTends
<1> HIDE DEF e
<1>8. Tends(w, u) BY <1>6, <1>7, TendsTrans, PageTends
<1> HIDE DEF u
<1> QED BY <1>2, <1>3, <1>8, TendsEvent DEF Does

\* The buttons that are one call.
LEMMA CallSane ==
  ASSUME Sound(w), Sane(w),
         \/ AuthorityRetryButton \/ stationSelected \/ NearbyRetryButton
         \/ MutationButton \/ RetryButton \/ pollTimer \/ SearchButton \/ geocodeFinished
  PROVE  Sane(w)'
<1>1. \/ Does(requestReconnectCurrent(w)) \/ (\E d : Does(requestStationDetail(w, d)))
      \/ Does(requestReconnectStations(w)) \/ (\E op : Does(beginMutation(w, op)))
      \/ Does(requestReconciliation(w)) \/ Does(requestPoll(w))
      \/ Does(searchCurrentAddress(w)) \/ Does(geocodeSucceeded(w)) \/ Does(geocodeFailed(w))
  BY DEF AuthorityRetryButton, stationSelected, NearbyRetryButton, MutationButton,
         RetryButton, pollTimer, SearchButton, geocodeFinished
<1>2. Formed(w) BY DEF Sane
<1>3. /\ Tends(w, requestReconnectCurrent(w)) /\ (\A d : Tends(w, requestStationDetail(w, d)))
      /\ Tends(w, requestReconnectStations(w)) /\ (\A op : Tends(w, beginMutation(w, op)))
      /\ Tends(w, requestReconciliation(w)) /\ Tends(w, requestPoll(w))
  BY <1>2, WindowNotes, NotesLets, DetailRequested, ReconnectMinds, MindsTends, BeginTends,
     ReconciliationTends, PollTends
<1>4. /\ Tends(w, searchCurrentAddress(w)) /\ Tends(w, geocodeSucceeded(w))
      /\ Tends(w, geocodeFailed(w))
  BY <1>2, AddressTends, GeocodeTends
<1> QED BY <1>1, <1>3, <1>4, TendsEvent DEF Does

LEMMA BackSane ==
  ASSUME Sound(w), Sane(w), BackButton
  PROVE  Sane(w)'
<1> DEFINE e == enterOrder(w, main.authority)
           r == resume(e)
           l == leavePage(w)
           u == [l EXCEPT !.main.authority = None, !.main.remembered = None,
                          !.main.page = "nearby"]
<1>1. Does(r) \/ Does(u) BY DEF BackButton
<1>2. ~w.charge.exit BY NothingOwed, ShellOf DEF BackButton
<1>3. main.authority \in Maybe(Order) BY SoundKnown, Parts, ShellOf DEF MainState
<1>4. Tends(w, e) BY <1>3, EnterOrderTends DEF Sane
<1> HIDE DEF e
<1>5. Tends(e, r) BY <1>4, ResumeTends DEF Sane, Tends, Leans
<1> HIDE DEF r
<1>6. Tends(w, l) /\ Formed(l) BY <1>2, LeavePageTends DEF Sane, Tends, Leans
<1> HIDE DEF l
<1>7. Notes(l, u)
  <2>1. /\ {"api", "charge", "nearby", "main"} \subseteq DOMAIN u
        /\ "up" \in DOMAIN u.api /\ "remembered" \in DOMAIN u.main
        /\ u.api.up = l.api.up /\ u.charge = l.charge /\ u.nearby = l.nearby
        /\ u.main.remembered = None
    BY <1>6 DEF Formed
  <2> HIDE DEF u
  <2> QED BY <2>1, NotesParts
<1> HIDE DEF u
<1>8. Tends(w, r) /\ Tends(w, u) BY <1>4, <1>5, <1>6, <1>7, NotesLets, TendsTrans
<1> QED BY <1>1, <1>8, TendsEvent DEF Does

\* What is answered is awaited, by the page as it is.
LEMMA AwaitedParts ==
  ASSUME Sound(w)
  PROVE  /\ Paged(charge)
         /\ charge.read # None => charge.read.op \in {"poll", "reconcile"}
         /\ "page" \in DOMAIN api.reads => charge.read # None
         /\ "list" \in DOMAIN api.reads => nearby.list # None
         /\ "facts" \in DOMAIN api.reads =>
              charge.facts # None /\ charge.facts.fits /\ ~charge.exitFailed
<1>1. /\ w.charge = charge /\ w.nearby = nearby /\ w.api = api
      /\ Known(w) /\ Listed(w) /\ w.charge \in ChargeState
  BY ShellOf, SoundKnown, Parts DEF Sound, Whole
<1>2. charge.read \in Maybe(PageRead) BY <1>1 DEF ChargeState
<1>3. charge.read # None => charge.read.op \in {"poll", "reconcile"}
  BY <1>2 DEF Maybe, PageRead
<1>4. Paged(charge) BY <1>1 DEF Known
<1>5. charge.facts # None => charge.facts.fits /\ ~charge.exitFailed BY <1>4 DEF Paged
<1> QED BY <1>1, <1>3, <1>4, <1>5 DEF Known, Listed, Slots

LEMMA AnswerSane ==
  ASSUME Sound(w), Sane(w), OwnRead(charge), server \in ServerState,
         handleLogin \/ handleCurrent \/ handleList \/ handleDetail \/ handleFacts
  PROVE  Sane(w)'
<1>0. ASSUME NEW slot
      PROVE  /\ Sane(answered(slot)) /\ Formed(answered(slot))
             /\ answered(slot).charge = charge /\ answered(slot).nearby = nearby
  BY AnsweredSane DEF Sane
<1>1. CASE handleLogin
  <2>1. Does(loginSucceeded(answered("login"))) BY <1>1 DEF handleLogin
  <2>2. Tends(answered("login"), loginSucceeded(answered("login"))) BY <1>0, LoginTends
  <2> QED BY <1>0, <2>1, <2>2, SaneTends, BecomesSane DEF Does
<1>2. CASE handleCurrent
  <2>1. PICK slot \in CurrentRead :
          Due(slot) /\ Does(currentOrderLoaded(answered(slot), slot, server.order))
    BY <1>2 DEF handleCurrent
  <2> DEFINE x == answered(slot)
             o == server.order
  <2>2. o \in Maybe(Order) /\ o = Current(o) BY ServerOrder, CurrentServer
  <2>3. /\ Sane(x) /\ Formed(x) /\ Calm(x) /\ x.charge.current /\ x.charge = charge
    BY <1>0 DEF Sane
  <2>4. slot = "page" => charge.read # None BY <2>1, AwaitedParts DEF Due
  <2> HIDE DEF x, o
  <2>5. Tends(x, currentOrderLoaded(x, slot, o))
    BY <2>2, <2>3, <2>4, AwaitedParts, CurrentLoadedTends
  <2> QED BY <2>1, <2>3, <2>5, SaneTends, BecomesSane DEF Does, x, o
<1>3. CASE handleList
  <2>1. PICK has \in BOOLEAN : Becomes(nearbyStationsLoaded(answered("list"), has), {"list"})
    BY <1>3 DEF handleList
  <2>2. nearby.list # None BY <1>3, AwaitedParts DEF handleList, Due
  <2>3. Tends(answered("list"), nearbyStationsLoaded(answered("list"), has))
    BY <1>0, <2>2, ListLoadedTends
  <2> QED BY <1>0, <2>1, <2>3, SaneTends, BecomesSane
<1>4. CASE handleDetail
  <2>1. PICK d \in DetailId : Does(stationDetailLoaded(cancelDetails(w, {d}), d))
    BY <1>4 DEF handleDetail
  <2>2. Tends(w, stationDetailLoaded(cancelDetails(w, {d}), d)) BY DetailAnswered DEF Sane
  <2> QED BY <2>1, <2>2, SaneTends, BecomesSane DEF Does
<1>5. CASE handleFacts
  <2>1. PICK st \in {None} \cup chargerStatus(charge.facts.charger) :
          Becomes(factsLoaded(answered("facts"), st), {"facts"})
    BY <1>5 DEF handleFacts
  <2>2. st \in Maybe(Status) BY <2>1 DEF chargerStatus, Maybe, Status
  <2>3. charge.facts # None /\ charge.facts.fits /\ ~charge.exitFailed
    BY <1>5, AwaitedParts DEF handleFacts, Due
  <2>4. Tends(answered("facts"), factsLoaded(answered("facts"), st))
    BY <1>0, <2>2, <2>3, FactsLoadedTends
  <2> QED BY <1>0, <2>1, <2>4, SaneTends, BecomesSane
<1> QED BY <1>1, <1>2, <1>3, <1>4, <1>5

LEMMA ReadFailureSane ==
  ASSUME Sound(w), Sane(w), NEW slot \in DOMAIN api.reads,
         Does(readFailed(answered(slot), slot))
  PROVE  Sane(w)'
<1>1. Does(readFailed(answered(slot), slot)) OBVIOUS
<1> DEFINE x == answered(slot)
<1>2. Sane(x) /\ Formed(x) /\ x.charge = charge /\ x.nearby = nearby
  BY AnsweredSane DEF Sane
<1> HIDE DEF x
<1>3. Tends(x, readFailed(x, slot))
  <2>1. CASE slot \in CurrentRead
    <3>1. Tends(x, currentOrderFailed(x, slot)) BY <1>2, AwaitedParts, CurrentFailedTends
    <3>2. readFailed(x, slot) = currentOrderFailed(x, slot)
      BY <2>1 DEF readFailed, CurrentRead
    <3> QED BY <3>1, <3>2
  <2>2. CASE slot = "facts"
    <3>1. Tends(x, factsFailed(x)) BY <1>2, <2>2, AwaitedParts, FactsFailedTends
    <3> QED BY <2>2, <3>1 DEF readFailed, CurrentRead
  <2>3. CASE slot = "list"
    <3>1. Tends(x, nearbyStationsFailed(x)) BY <1>2, <2>3, AwaitedParts, ListFailedTends
    <3> QED BY <2>3, <3>1 DEF readFailed, CurrentRead
  <2>5. CASE slot = "history"
    <3>1. Tends(x, orderHistoryFailed(x)) BY HistoryAside, AsideNotes, NotesLets
    <3> QED BY <2>5, <3>1 DEF readFailed, CurrentRead
  <2>6. CASE slot \notin CurrentRead \cup {"facts", "list", "history"}
    <3>1. readFailed(x, slot) = x BY <2>6 DEF readFailed
    <3> QED BY <3>1, MildSelf, MildMinds
  <2> QED BY <2>1, <2>2, <2>3, <2>5, <2>6
<1> QED BY <1>1, <1>2, <1>3, SaneTends, BecomesSane DEF Does, x

LEMMA FailureSane ==
  ASSUME Sound(w), Sane(w), handleFailure
  PROVE  Sane(w)'
<1>1. CASE \E slot \in DOMAIN api.reads : api.up /\ Does(readFailed(answered(slot), slot))
  BY <1>1, ReadFailureSane
<1>2. CASE \E d \in DetailId :
             DetailDue(d) /\ Does(stationDetailFailed(cancelDetails(w, {d}), d))
  <2>1. PICK d \in DetailId : Does(stationDetailFailed(cancelDetails(w, {d}), d)) BY <1>2
  <2>2. Tends(w, stationDetailFailed(cancelDetails(w, {d}), d)) BY DetailAnswered DEF Sane
  <2> QED BY <2>1, <2>2, SaneTends, BecomesSane DEF Does
<1> QED BY <1>1, <1>2 DEF handleFailure

\* What is asked of the server is no part of the pages.
LEMMA AskedSane ==
  ASSUME Sane(w), NEW x, {"api", "charge", "nearby", "main"} \subseteq DOMAIN x,
         "up" \in DOMAIN x.api, x.api.up = w.api.up,
         x.charge = w.charge, x.nearby = w.nearby, x.main = w.main
  PROVE  Sane(x) /\ (~charge.exit => ~x.charge.exit)
BY SaneParts, ShellOf

LEMMA ExpirySane ==
  ASSUME Sound(w), Sane(w), handleExpiry
  PROVE  Sane(w)'
<1> DEFINE v == [w EXCEPT !.api.ops = Tail(@)]
<1>1. Does(sessionReset(w)) \/ Does(sessionReset(v)) BY DEF handleExpiry
<1>2. Sane(v) BY AskedSane DEF Sane, Formed
<1> HIDE DEF v
<1>3. Sane(sessionReset(w)) /\ Sane(sessionReset(v)) BY <1>2, SessionSane
<1> QED BY <1>1, <1>3, BecomesSane DEF Does

LEMMA OutcomeSane ==
  ASSUME Sound(w), Sane(w), server \in ServerState, handleMutation \/ MutationTimeout
  PROVE  Sane(w)'
<1> DEFINE g == [w EXCEPT !.api.ops = [i \in DOMAIN @ |-> [@[i] EXCEPT !.live = FALSE]]]
           m == api.ops[1]
           order == outcome(server, m.op, m.target)
<1>1. \/ Becomes(nearer, {})
      \/ /\ takes(server, m.op, m.target) /\ api.ops # <<>> /\ m.live
         /\ Becomes(acceptMutation(nearer, order), {})
      \/ (\E why : m.live /\ api.ops # <<>> /\ Becomes(mutationFailed(nearer, why), {}))
      \/ (\E i \in DOMAIN api.ops : api.ops[i].live) /\ Becomes(mutationFailed(g, "uncertain"), {})
  <2>1. CASE handleMutation
    BY <2>1, Zenon DEF handleMutation, MutationDue, Does
  <2>2. CASE MutationTimeout
    BY <2>2, Zenon DEF MutationTimeout, Does
  <2> QED BY <2>1, <2>2
<1>2. Sane(nearer) /\ (~charge.exit => ~nearer.charge.exit)
  <2> DEFINE x == nearer
  <2>1. /\ {"api", "charge", "nearby", "main"} \subseteq DOMAIN x
        /\ "up" \in DOMAIN x.api /\ x.api.up = w.api.up
        /\ x.charge = w.charge /\ x.nearby = w.nearby /\ x.main = w.main
    BY DEF nearer, Sane, Formed
  <2> HIDE DEF x
  <2>2. Sane(x) /\ (~charge.exit => ~x.charge.exit) BY <2>1, AskedSane
  <2> QED BY <2>2 DEF x
<1>3. Sane(g) /\ (~charge.exit => ~g.charge.exit)
  <2>1. /\ {"api", "charge", "nearby", "main"} \subseteq DOMAIN g
        /\ "up" \in DOMAIN g.api /\ g.api.up = w.api.up
        /\ g.charge = w.charge /\ g.nearby = w.nearby /\ g.main = w.main
    BY DEF Sane, Formed
  <2> HIDE DEF g
  <2> QED BY <2>1, AskedSane
<1> HIDE DEF g
<1>4. api.ops \in Seq(SentMutation) BY SoundKnown, Parts, ShellOf DEF ApiState
<1>5. api.ops # <<>> => m \in SentMutation /\ 1 \in DOMAIN api.ops BY <1>4
<1>6. api.ops # <<>> /\ m.live => ~charge.exit BY <1>5, NothingOwed
<1>7. takes(server, m.op, m.target) /\ api.ops # <<>> => order \in Order
  BY <1>5, SentAsks, Outcome
<1> HIDE DEF m, order
<1>8. CASE Becomes(nearer, {}) BY <1>2, <1>8, BecomesSane
<1>9. CASE /\ takes(server, m.op, m.target) /\ api.ops # <<>> /\ m.live
           /\ Becomes(acceptMutation(nearer, order), {})
  <2>1. Sane(acceptMutation(nearer, order)) BY <1>2, <1>6, <1>7, <1>9, AcceptSane DEF Sane
  <2> QED BY <1>9, <2>1, BecomesSane
<1>10. CASE \E why : m.live /\ api.ops # <<>> /\ Becomes(mutationFailed(nearer, why), {})
  <2>1. PICK why : m.live /\ api.ops # <<>> /\ Becomes(mutationFailed(nearer, why), {})
    BY <1>10
  <2>2. Sane(mutationFailed(nearer, why)) BY <1>2, <1>6, <2>1, MutationFailedSane DEF Sane
  <2> QED BY <2>1, <2>2, BecomesSane
<1>11. CASE (\E i \in DOMAIN api.ops : api.ops[i].live)
              /\ Becomes(mutationFailed(g, "uncertain"), {})
  <2>1. Sane(mutationFailed(g, "uncertain"))
    BY <1>3, <1>11, NothingOwed, MutationFailedSane DEF Sane
  <2> QED BY <1>11, <2>1, BecomesSane
<1> QED BY <1>1, <1>8, <1>9, <1>10, <1>11

LEMMA LinkedSane ==
  ASSUME Sound(w), Sane(w), Disconnect \/ Connect
  PROVE  Sane(w)'
<1>1. CASE Disconnect
  <2>1. Becomes(lost(w), {}) BY <1>1 DEF Disconnect
  <2>2. Sane(lost(w)) BY NothingOwed, ShellOf, LostSane
  <2> QED BY <2>1, <2>2, BecomesSane
<1>2. CASE Connect
  <2> DEFINE x == [w EXCEPT !.api.up = TRUE, !.api.replayed = DOMAIN api.reads]
  <2>1. Does(connectionChanged(x, FALSE)) BY <1>2 DEF Connect
  <2>2. /\ DOMAIN x = DOMAIN w /\ "up" \in DOMAIN x.api
        /\ x.charge = w.charge /\ x.nearby = w.nearby /\ x.main = w.main
    BY DEF Sane, Formed
  <2> HIDE DEF x
  <2>3. Formed(x) BY <2>2 DEF Sane, Formed
  <2>4. Calm(x) /\ x.charge.current BY <2>2 DEF Sane, Calm, Loose, Waiting
  <2>5. Sane(connectionChanged(x, FALSE)) BY <2>3, <2>4, LinkSane
  <2> QED BY <2>1, <2>5, BecomesSane DEF Does
<1> QED BY <1>1, <1>2

-----------------------------------------------------------------------------
(* The refresh is owed as long as something can end it.                    *)

LEMMA SaneInit == ASSUME Init PROVE Sane(w)
<1>1. /\ w.charge.exit = FALSE /\ w.charge.current = TRUE /\ w.charge.active = FALSE
      /\ w.charge.selection = None /\ w.charge.read = None
      /\ w.main.remembered = None /\ w.nearby.refresh = None
  BY DEF Init, w
<1>2. Formed(w) BY NoneFits DEF Init, w, Formed, Maybe
<1>3. Calm(w) BY <1>1 DEF Calm, Loose, Recent, Ready, Listens
<1>4. Offering(w) BY <1>1 DEF Offering
<1> QED BY <1>1, <1>2, <1>3, <1>4 DEF Sane

LEMMA SaneStep ==
  ASSUME IInv, Agreed(w), Sane(w), [Next]_vars
  PROVE  Sane(w)'
<1>1. Sound(w) /\ server \in ServerState BY DEF IInv
<1>2. OwnRead(charge) BY ShellOf DEF Agreed
<1>3. CASE Press
  BY <1>1, <1>3, LoginSane, TurnSane, HistoryPageSane, SelectSane, CallSane, BackSane
  DEF Press
<1>4. CASE Answer
  BY <1>1, <1>2, <1>4, AnswerSane, HistoryPageSane, FailureSane, ExpirySane, OutcomeSane,
     CallSane
  DEF Answer
<1>5. CASE pollTimer BY <1>1, <1>5, CallSane
<1>6. CASE Disconnect \/ Connect BY <1>1, <1>6, LinkedSane
<1>7. CASE Elsewhere \/ UNCHANGED vars
  <2>1. w' = w BY <1>7, ElsewhereSame
  <2>2. Sane(w') BY <2>1
  <2> QED BY <2>2
<1> QED BY <1>3, <1>4, <1>5, <1>6, <1>7 DEF Next

\* A refresh that is owed is under way on both pages, for the same attempt, or the
\* order is read again, or can be: the inductive invariant of the two theorems below.
THEOREM RefreshOwedAlways == Spec => []Sane(w)
<1>1. Init => IInv /\ Careful(w) /\ Agreed(w) /\ Sane(w)
  BY SoundInit, CarefulInit, AgreedInit, SaneInit
<1>2. /\ IInv /\ Careful(w) /\ Agreed(w) /\ Sane(w) /\ [Next]_vars
      => IInv' /\ Careful(w)' /\ Agreed(w)' /\ Sane(w)'
  BY IInvStep, CarefulStep, AgreedStep, SaneStep
<1> QED BY <1>1, <1>2, PTL DEF Spec

\* While the connection is up, a flow that is blocked always has a way out: the read
\* of the order, the facts, the list of the refresh or the mutation that will free it
\* is under way, or ChargePage offers to try again.
THEOREM AlwaysAWayOut == Spec => []NoDeadEnd
<1>1. ASSUME IInv, Sane(w) PROVE NoDeadEnd
  <2> SUFFICES ASSUME api.up, charge.active, chargeFlowBlocked(charge),
                      {"page", "facts"} \cap DOMAIN api.reads = {}, charge.mutation = None,
                      ~(nearby.list # None /\ nearby.list.kind = "charge"),
                      "retry" \notin charge.buttons
               PROVE  charge.exit /\ isActive(charge.order)
    BY DEF NoDeadEnd
  <2>1. w.charge = charge /\ w.nearby = nearby /\ w.api = api BY ShellOf
  <2>2. charge.read = None /\ charge.facts = None
    BY <1>1, <2>1, SoundKnown DEF IInv, Known, Slots
  <2>3. ~charge.reconcile /\ ~charge.factsFailed
    BY <1>1, <2>1, <2>2 DEF Sane, Offering
  <2>4. charge.exit BY <2>2, <2>3 DEF chargeFlowBlocked
  <2>5. ~Waiting(w)
    <3> SUFFICES ASSUME Waiting(w) PROVE FALSE OBVIOUS
    <3>1. nearby.refresh # None /\ nearby.refresh.detailApplied BY <2>1, <2>2 DEF Waiting
    <3>2. Ready(nearby) BY <1>1, <2>1 DEF Sane, Calm
    <3> QED BY <3>1, <3>2 DEF Ready, Listens
  <2>6. Retrying(charge) BY <1>1, <2>1, <2>4, <2>5 DEF Sane, Calm
  <2> QED BY <2>3, <2>4, <2>6 DEF Retrying
<1> QED BY <1>1, Invariant, RefreshOwedAlways, PTL

\* A selection that NearbyPage has withdrawn is never one to reserve by: the window
\* puts off what a blocked flow must not see, and no order of the end of the block,
\* of the facts and of the refresh opens the button before the selection is dropped.
THEOREM SelectionStands == Spec => []NoWithdrawnSelection
<1>1. ASSUME IInv, Sane(w) PROVE NoWithdrawnSelection
  <2> SUFFICES ASSUME "reserve" \in charge.buttons, ~charge.selection.valid PROVE FALSE
    BY DEF NoWithdrawnSelection
  <2>1. w.charge = charge /\ w.nearby = nearby /\ w.api = api /\ w.main = main BY ShellOf
  <2>2. Told(w) /\ Reported(w) /\ Rendered(w) /\ Withdrawn(w)
    BY <1>1 DEF IInv, Sound, Whole
  <2>3. "reserve" \in Usable(w) BY <2>1, <2>2 DEF Rendered
  <2>4. /\ charge.mutation = None /\ ~charge.reconcile /\ ~charge.factsFailed
        /\ ~(charge.facts # None /\ charge.gate) /\ "reserve" \in Offers(charge)
    BY <2>1, <2>3 DEF Usable
  <2>5. charge.order = None /\ charge.selection # None BY <2>4 DEF Offers
  <2>6. chargeFlowBlocked(charge) BY <2>1, <2>2, <2>5 DEF Withdrawn, Told, Reported
  <2>7. charge.exit BY <2>4, <2>6 DEF chargeFlowBlocked
  <2>8. ~Retrying(charge) BY <2>4, <2>5 DEF Retrying, isActive
  <2>9. Waiting(w) BY <1>1, <2>1, <2>7, <2>8 DEF Sane, Calm
  <2>10. nearby.refresh.detailApplied BY <2>1, <2>4, <2>9 DEF Waiting
  <2> QED BY <2>1, <2>9, <2>10 DEF Waiting
<1> QED BY <1>1, Invariant, RefreshOwedAlways, PTL
================================================================================
