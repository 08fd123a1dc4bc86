-------------------------- MODULE MCPartitionNode --------------------------
(***************************************************************************)
(* Two processes over one node table and one edge table.                   *)
(***************************************************************************)
EXTENDS PartitionNode

CONSTANTS nodes, edges

MCScan == <<nodes, edges>>

=============================================================================
