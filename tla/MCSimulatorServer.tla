------------------------- MODULE MCSimulatorServer -------------------------
(* One charger; it has every status, or three of them for the
   run that explores everything. *)
EXTENDS SimulatorServer

MCSnapshot == [1..1 -> Status]
MCSnapshotSmall == [1..1 -> {"idle", "reserved", "fault"}]

=============================================================================
