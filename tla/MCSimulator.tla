---------------------------- MODULE MCSimulator ----------------------------
(* Two chargers and two snapshots that tell them apart. *)
EXTENDS Simulator

MCSnapshot == {<<"idle", "charging">>, <<"fault", "idle">>}

\* One charger, for the liveness run.
MCSnapshotOne == {<<"idle">>}

=============================================================================
