----------------------------- MODULE MCPlacement -----------------------------
(***************************************************************************)
(* Four machines and a partition with two replicas: every score in which   *)
(* machines tie or not.  plan treats each partition on its own.            *)
(***************************************************************************)
EXTENDS Placement

MCScores == [Partition \X Machine -> 0 .. 1]

=============================================================================
