------------------------------ MODULE PageReads ------------------------------
(***************************************************************************)
(* What the pages of the user client share: the reads they have sent       *)
(* through UserApi, the charge mutation, and how the charge page and the   *)
(* page of nearby stations give up the reads they own.                     *)
(*                                                                         *)
(* The pages call each other synchronously, by calls and by signals, so a  *)
(* handler is written as an operator from a shell to a shell.  A shell is  *)
(* the record of its parts: api (UserApi and its connection), charge       *)
(* (ChargePage), nearby (NearbyPage), history (HistoryPage) and main       *)
(* (MainWindow).                                                           *)
(*                                                                         *)
(* Generations and request ids are only compared for equality, so a field  *)
(* says whether two of them are still equal: `fits' (the generations of a  *)
(* request are the page's), `fresh' (the generation of a selection is      *)
(* NearbyPage's), `current' (the page's epoch of reads is UserApi's).      *)
(***************************************************************************)
EXTENDS Naturals, Sequences, FiniteSets

CONSTANTS
  None,     \* a model value: an empty optional
  Charger,  \* the chargers of the station
  DetailId  \* the ids of the requests for the chargers of a station

CurrentRead == {"guard", "reconnect", "page"}    \* order.current, by its owner
Read == CurrentRead \cup {"login", "facts", "list", "history"}
Active == {"reserved", "charging", "stopped"}    \* stopped: charging with an end
Terminal == {"completed", "cancelled"}

-----------------------------------------------------------------------------
(* UserApi.  reads[s] is how many mutations the server takes before it; ops *)
(* are the mutations the server has not taken, `live' while one is awaited. *)
(* Each owner has one read at a time, but NearbyPage may have several for    *)
(* the chargers of a station: they have ids.  Nothing the server does changes *)
(* their answers, so their place among the mutations is not kept.            *)

send(w, slot) ==
  [w EXCEPT !.api.reads = [s \in DOMAIN @ \cup {slot} |->
                             IF s = slot THEN Len(w.api.ops) ELSE @[s]],
            !.api.replayed = @ \ {slot}]

\* A detail is kept over a loss to be sent again, once.
sendDetail(w, id) == [w EXCEPT !.api.details[id] = "sent"]

cancelDetails(w, ids) ==
  [w EXCEPT !.api.details = [d \in DetailId |-> IF d \in ids THEN "over" ELSE @[d]]]

sendMutation(w, op, target) ==
  [w EXCEPT !.api.ops = Append(@, [op |-> op, target |-> target, live |-> TRUE])]

\* Fault: a read that is given up still counts as sent again.
CancelTableOnly(w, slots) ==
  [w EXCEPT !.api.reads = [s \in DOMAIN @ \ slots |-> @[s]]]

cancelSafeReads(w, slots) ==
  [w EXCEPT !.api.reads = [s \in DOMAIN @ \ slots |-> @[s]],
            !.api.replayed = @ \ slots]

invalidateChargeReads(w) ==
  [cancelSafeReads(w, CurrentRead) EXCEPT !.charge.current = FALSE]

\* cancelRequest() of every operation: what the server has it may still do.
cancelAll(w) ==
  [cancelDetails(w, DetailId) EXCEPT
            !.api.reads = <<>>, !.api.replayed = {}, !.charge.current = FALSE,
            !.api.ops = [i \in DOMAIN @ |-> [@[i] EXCEPT !.live = FALSE]]]

-----------------------------------------------------------------------------
(* NearbyPage: the list of stations it waits for and the refresh it runs for *)
(* the charge page.                                                        *)

setSearchPending(w, pending) == [w EXCEPT !.nearby.search = w.api.up /\ ~pending]

resetChargeRefresh(w) == [w EXCEPT !.nearby.refresh = None]

cancelPendingStationList(w) ==
  LET v == [cancelSafeReads(w, {"list"}) EXCEPT !.nearby.list = None]
  IN  IF w.nearby.foreground THEN v ELSE setSearchPending(v, FALSE)

cancelChargeRefresh(w) ==
  resetChargeRefresh(IF w.nearby.list # None /\ w.nearby.list.kind = "charge"
                     THEN cancelPendingStationList(w) ELSE w)

-----------------------------------------------------------------------------
(* ChargePage: the reads it owns.                                          *)

\* chargeSafeReadsInvalidated makes NearbyPage cancel its half.
cancelOwnedSafeReads(w) ==
  cancelChargeRefresh(
    [cancelSafeReads(w, {"page", "facts"}) EXCEPT
       !.charge.read = None, !.charge.facts = None, !.charge.gate = FALSE,
       !.charge.attempt = IF w.charge.exit THEN 0 ELSE @,
       !.charge.current = TRUE])

invalidateSafeReads(w) == cancelOwnedSafeReads(invalidateChargeReads(w))

\* Fault: the epoch of the facts under way is not moved on.
AdoptReadsOnly(w) ==
  [w EXCEPT !.charge.read = None,
            !.charge.facts = IF @ = None THEN None ELSE [@ EXCEPT !.fits = @ /\ w.charge.current],
            !.charge.current = TRUE]

adoptMutationReadEpoch(w) ==
  [w EXCEPT !.charge.read = None,
            !.charge.facts = IF @ = None THEN None ELSE [@ EXCEPT !.fits = TRUE],
            !.charge.current = TRUE]
=============================================================================
