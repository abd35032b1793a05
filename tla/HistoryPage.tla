------------------------------ MODULE HistoryPage ------------------------------
(***************************************************************************)
(* HistoryPage, apps/user-client/src/ui/HistoryPage.cpp: the orders of the *)
(* account, page by page.  What is shown is the last page that was read,   *)
(* also when a later read fails; it is forgotten with the session.         *)
(*                                                                         *)
(* committed is the page that is shown and whether the account has more.   *)
(* Its generations only say that an answer is to the read it waits for,    *)
(* which is the only one that UserApi keeps.                               *)
(***************************************************************************)
EXTENDS NearbyPage

cancelHistoryRead(w) == [cancelSafeReads(w, {"history"}) EXCEPT !.history.pending = None]

requestPage(w, index) ==
  IF ~w.history.active \/ ~w.api.up THEN w
  ELSE [send(w, "history") EXCEPT !.history.pending = index]

\* Also refreshAfterReconnect.
refreshHistory(w) ==
  requestPage(w, IF w.history.committed = None THEN 0 ELSE w.history.committed.index)

activateHistory(w) == refreshHistory([w EXCEPT !.history.active = TRUE])

\* Fault: the page is left with its read under way.
DeactivateOnly(w) == [w EXCEPT !.history.active = FALSE]

deactivateHistory(w) == cancelHistoryRead([w EXCEPT !.history.active = FALSE])

orderHistoryLoaded(w, more) ==
  [w EXCEPT !.history.pending = None,
            !.history.committed = [index |-> w.history.pending, more |-> more]]

orderHistoryFailed(w) == [w EXCEPT !.history.pending = None]

HistoryConnectionChanged(w) == IF w.api.up THEN w ELSE cancelHistoryRead(w)

resetHistoryPage(w) == [deactivateHistory(w) EXCEPT !.history.committed = None]
=============================================================================
