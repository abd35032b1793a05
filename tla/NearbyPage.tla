------------------------------ MODULE NearbyPage ------------------------------
(***************************************************************************)
(* NearbyPage, apps/user-client/src/ui/NearbyPage.cpp: the search for an   *)
(* address, the list of stations, the chargers of a station, the selection *)
(* of one, and the refresh that ChargePage asks for.                       *)
(*                                                                         *)
(* There is one station; known says that the last list has it.  A list is  *)
(* asked for by a search (foreground), after a connection (reconnect) or   *)
(* for the charge page.  superseded are the ids of details that the page   *)
(* gave up without cancelling them, while they are under way.  The         *)
(* forecast is left out.                                                   *)
(***************************************************************************)
EXTENDS ChargePage

setDetailControlsEnabled(w, on) == [w EXCEPT !.nearby.controls = on]

aged(x) == IF x = None THEN None ELSE [x EXCEPT !.fresh = FALSE]

unfit(x) == IF x = None THEN None ELSE [x EXCEPT !.fits = FALSE]

\* ++selectionGeneration_
nextSelection(w) ==
  [w EXCEPT !.charge.selection = aged(@), !.main.remembered = aged(@),
            !.nearby.list = aged(@), !.nearby.refresh = aged(@), !.nearby.detail = unfit(@)]

\* ++searchGeneration_ or ++originGeneration_
nextSearch(w) ==
  [w EXCEPT !.nearby.list = unfit(@), !.nearby.refresh = unfit(@), !.nearby.detail = unfit(@)]

\* The selections that were made are withdrawn (valid is kept for a property).
withdrawn(w) ==
  LET gone(x) == IF x = None THEN None ELSE [x EXCEPT !.valid = FALSE]
  IN  [nextSelection(w) EXCEPT !.charge.selection = gone(@), !.main.remembered = gone(@)]

\* Fault: an invalidation that comes while the flow is blocked is dropped.
NearbySelectionDropped(w) ==
  LET v == withdrawn(w) IN IF v.main.blocked THEN v ELSE applySelectionInvalidation(v)

\* NearbyPage::invalidateSelection and MainWindow's answer to it.
invalidateNearbySelection(w) ==
  LET v == withdrawn(w)
  IN  IF v.main.blocked THEN [v EXCEPT !.main.deferred = TRUE]
      ELSE applySelectionInvalidation(v)

\* The id of the detail that is awaited, if there is one.
awaitedDetail(w) == IF w.nearby.detail = None THEN {} ELSE {w.nearby.detail.id}

\* The detail is not awaited any more, but its request is not given up.
supersedeDetail(w) ==
  [w EXCEPT !.nearby.superseded =
              @ \cup {d \in awaitedDetail(w) : w.api.details[d] # "over"},
            !.nearby.detail = None]

cancelDetail(w) == [cancelDetails(w, awaitedDetail(w)) EXCEPT !.nearby.detail = None]

-----------------------------------------------------------------------------
(* The refresh for the charge page.                                        *)

finishChargeRefreshUnavailable(w) ==
  IF w.nearby.refresh = None THEN w
  ELSE nearbyRefreshUnavailable(resetChargeRefresh(w), w.nearby.refresh.attempt)

finishChargeRefreshFailed(w) ==
  IF w.nearby.refresh = None THEN w
  ELSE nearbyRefreshFailed(cancelChargeRefresh(w), w.nearby.refresh.attempt)

\* Fault: the refresh is over with the first of its two answers.
CommitEarly(w) ==
  LET r == w.nearby.refresh
  IN  IF r = None \/ ~(r.listApplied \/ r.detailApplied) THEN w
      ELSE nearbyRefreshCommitted([resetChargeRefresh(w) EXCEPT !.nearby.shown = TRUE], r.attempt)

finishChargeRefreshIfReady(w) ==
  LET r == w.nearby.refresh
  IN  IF r = None \/ ~(r.listApplied /\ r.detailApplied) THEN w
      ELSE nearbyRefreshCommitted([resetChargeRefresh(w) EXCEPT !.nearby.shown = TRUE], r.attempt)

abandonChargeRefresh(w) ==
  IF w.nearby.refresh = None THEN cancelChargeRefresh(w)
  ELSE nearbyRefreshUnavailable(cancelChargeRefresh(w), w.nearby.refresh.attempt)

\* A list for the charge page (with the attempt it is for) or for a search.
requestNearbyStations(w, kind, attempt) ==
  LET quiet == cancelPendingStationList(IF kind = "charge" THEN cancelChargeRefresh(w)
                                        ELSE abandonChargeRefresh(w))
      asked == [nextSearch(setSearchPending(quiet, TRUE)) EXCEPT
                  !.nearby.list = [kind |-> kind, fresh |-> TRUE, fits |-> TRUE],
                  !.nearby.refresh =
                     IF kind # "charge" THEN @
                     ELSE [attempt |-> attempt, fresh |-> TRUE, fits |-> TRUE,
                           listApplied |-> FALSE, detailApplied |-> FALSE]]
      given == setDetailControlsEnabled(
                 supersedeDetail(IF kind = "charge" THEN invalidateNearbySelection(asked) ELSE asked),
                 TRUE)
      sent  == send(IF asked.nearby.detail = None THEN asked ELSE given, "list")
  IN  IF kind = "charge" THEN sent ELSE setDetailControlsEnabled(sent, FALSE)

\* The generation of the selection fixes the origin it was made at.
refreshAfterCharge(w, attempt) ==
  IF \/ w.nearby.foreground
     \/ ~w.charge.selection.fresh \/ ~w.nearby.origin \/ ~w.nearby.known
  THEN nearbyRefreshUnavailable(w, attempt)
  ELSE requestNearbyStations(w, "charge", attempt)

applyChargeStationDetail(w, attempt) ==
  LET r == w.nearby.refresh
  IN  IF r = None THEN w
      ELSE IF r.attempt # attempt THEN w
      ELSE IF ~(r.fresh /\ r.fits /\ w.nearby.origin)
           THEN finishChargeRefreshUnavailable(w)
           ELSE finishChargeRefreshIfReady([w EXCEPT !.nearby.refresh.detailApplied = TRUE])

failChargeStationDetail(w, attempt) ==
  IF w.nearby.refresh = None THEN w
  ELSE IF w.nearby.refresh.attempt # attempt THEN w
  ELSE finishChargeRefreshFailed(w)

-----------------------------------------------------------------------------
(* The list of stations.                                                   *)

listOver(w) ==
  setSearchPending([w EXCEPT !.nearby.list = None,
                             !.nearby.foreground = @ /\ w.nearby.list.kind # "foreground"],
                   FALSE)

\* The list is of an earlier search or its refresh of an earlier selection.
listStale(w) ==
  LET l == w.nearby.list IN ~l.fits \/ (l.kind = "charge" /\ ~l.fresh)

listIgnored(w) ==
  IF w.nearby.list.kind = "charge" THEN finishChargeRefreshUnavailable(listOver(w))
  ELSE listOver(w)

\* The list is shown; a charge refresh goes on only if it still has the station.
applyStations(w, has) ==
  LET kind == w.nearby.list.kind
      over == [(IF kind = "foreground" THEN supersedeDetail(w) ELSE w) EXCEPT !.nearby.list = None]
      v == IF kind = "foreground"
           THEN [invalidateNearbySelection(nextSearch([over EXCEPT !.nearby.foreground = FALSE]))
                   EXCEPT !.nearby.origin = TRUE, !.nearby.known = has, !.nearby.shown = FALSE]
           ELSE [over EXCEPT !.nearby.known = has]
  IN  IF kind # "charge" \/ w.nearby.refresh = None THEN v
      ELSE IF has
           THEN finishChargeRefreshIfReady([v EXCEPT !.nearby.refresh.listApplied = TRUE])
           ELSE finishChargeRefreshUnavailable(
                  [invalidateNearbySelection(v) EXCEPT !.nearby.shown = FALSE])

\* Fault: the list leaves the buttons to a detail that does not fit any more.
ListKeepsControls(w, has) ==
  IF listStale(w) THEN listIgnored(w) ELSE setSearchPending(applyStations(w, has), FALSE)

nearbyStationsLoaded(w, has) ==
  IF listStale(w) THEN listIgnored(w)
  ELSE setDetailControlsEnabled(setSearchPending(applyStations(w, has), FALSE), TRUE)

\* Fault: a search that fails keeps the page waiting for it.
ListFailureKeepsSearch(w) ==
  LET v == setDetailControlsEnabled([listOver(w) EXCEPT !.nearby.search = w.nearby.search], TRUE)
  IN  IF listStale(w) THEN listIgnored(w)
      ELSE IF w.nearby.list.kind = "charge" THEN finishChargeRefreshFailed(v) ELSE v

\* Also an answer to a search whose origin is not the one asked for.
nearbyStationsFailed(w) ==
  LET v == setDetailControlsEnabled(listOver(w), TRUE)
  IN  IF listStale(w) THEN [listIgnored(w) EXCEPT !.nearby.foreground = w.nearby.foreground]
      ELSE IF w.nearby.list.kind = "charge" THEN finishChargeRefreshFailed(v) ELSE v

-----------------------------------------------------------------------------
(* The chargers of a station, and the searches.                            *)

\* Over a detail that is still awaited: that one is neither cancelled nor superseded.
requestStationDetail(w, id) ==
  sendDetail([setDetailControlsEnabled(invalidateNearbySelection(abandonChargeRefresh(w)), FALSE)
                EXCEPT !.nearby.detail = [id |-> id, fits |-> TRUE]], id)

detailFits(w, id) == id \in awaitedDetail(w) /\ w.nearby.detail.fits

\* An answer that does not fit is left, and so is the wait for it.
stationDetailLoaded(w, id) ==
  IF ~detailFits(w, id) THEN [w EXCEPT !.nearby.superseded = @ \ {id}]
  ELSE LET v == abandonChargeRefresh([w EXCEPT !.nearby.detail = None])
       IN  setDetailControlsEnabled([invalidateNearbySelection(v) EXCEPT !.nearby.shown = TRUE],
                                    TRUE)

stationDetailFailed(w, id) ==
  IF ~detailFits(w, id) THEN [w EXCEPT !.nearby.superseded = @ \ {id}]
  ELSE setDetailControlsEnabled([w EXCEPT !.nearby.detail = None], TRUE)

searchCurrentAddress(w) ==
  LET v == setSearchPending([nextSearch(w) EXCEPT !.nearby.foreground = TRUE], TRUE)
      quiet == cancelPendingStationList(abandonChargeRefresh(setDetailControlsEnabled(v, FALSE)))
  IN  [cancelDetail(quiet) EXCEPT !.nearby.geocode = TRUE]

geocodeSucceeded(w) ==
  LET v == abandonChargeRefresh([w EXCEPT !.nearby.geocode = FALSE, !.nearby.foreground = TRUE])
  IN  requestNearbyStations(
        setDetailControlsEnabled(supersedeDetail(cancelPendingStationList(v)), FALSE),
        "foreground", 0)

geocodeFailed(w) ==
  setDetailControlsEnabled(
    setSearchPending([w EXCEPT !.nearby.geocode = FALSE, !.nearby.foreground = FALSE], FALSE),
    w.api.up)

requestReconnectStations(w) ==
  IF ~w.api.up \/ ~w.nearby.origin \/ w.nearby.refresh # None \/ w.nearby.foreground
  THEN w
  ELSE send([nextSearch(cancelPendingStationList(w)) EXCEPT
               !.nearby.list = [kind |-> "reconnect", fresh |-> TRUE, fits |-> TRUE]], "list")

-----------------------------------------------------------------------------
(* The connection and the session.                                         *)

\* Fault: the details that were superseded stay under way, and in the set.
CancelAwaitedOnly(w) == cancelDetail(w)

\* All that the page knows of: not those that requestStationDetail replaced.
cancelEveryDetail(w) ==
  [cancelDetail(cancelDetails(w, w.nearby.superseded)) EXCEPT !.nearby.superseded = {}]

NearbyConnectionChanged(w) ==
  LET n == w.nearby
      quiet == cancelPendingStationList(
                 cancelChargeRefresh([w EXCEPT !.nearby.geocode = FALSE,
                                               !.nearby.foreground = FALSE]))
  IN  IF ~w.api.up
      THEN setSearchPending(setDetailControlsEnabled(cancelEveryDetail(quiet), TRUE), FALSE)
      ELSE setDetailControlsEnabled(
             setSearchPending(w, n.foreground \/ n.geocode \/ n.list # None),
             n.controls \/ (n.list = None /\ ~n.foreground))

resetNearbyPage(w) ==
  LET quiet == cancelDetail(cancelPendingStationList(
                 cancelChargeRefresh([w EXCEPT !.nearby.geocode = FALSE,
                                               !.nearby.foreground = FALSE])))
  IN  setDetailControlsEnabled(
        setSearchPending([nextSelection(nextSearch(quiet)) EXCEPT
                            !.nearby.origin = FALSE, !.nearby.known = FALSE,
                            !.nearby.shown = FALSE, !.nearby.superseded = {}], FALSE), FALSE)
=============================================================================
