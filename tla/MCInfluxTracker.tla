--------------------------- MODULE MCInfluxTracker ---------------------------
(* Small instances of InfluxTracker for TLC. *)
EXTENDS InfluxTracker, TLC

TrackerSymmetry == Permutations(Trackers)
=============================================================================
