----------------------------- MODULE MCMainWindow -----------------------------
(* MainWindow with one station: how many chargers and orders, see the cfgs.   *)
EXTENDS MainWindow, TLC

CONSTANTS c1, c2, d1, d2

OneCharger == {c1}
TwoChargers == {c1, c2}

OneDetail == {d1}
TwoDetails == {d1, d2}

\* Bound: the history has one page once there has been a search.  It shares the
\* connection and the session with the page of stations, and nothing else.
OnePageOnceSearched ==
  nearby.origin =>
    /\ history.pending \in {None, 0}
    /\ history.committed # None => history.committed.index = 0 /\ ~history.committed.more

\* Bound: two requests for chargers are under way only while no other terminal of
\* the account has acted, which the page of stations does not notice.
OneRequestOnceElsewhere ==
  server.elsewhere > 0 => Cardinality({d \in DetailId : api.details[d] # "over"}) < 2

\* The chargers of the station are alike, and so are the ids of the requests for
\* them; the run checks invariants only.
Alike == Permutations(TwoChargers) \cup Permutations(TwoDetails)
=============================================================================
