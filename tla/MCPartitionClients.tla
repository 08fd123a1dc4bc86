------------------------- MODULE MCPartitionClients -------------------------
(***************************************************************************)
(* Two partitions and a pod of each.  p0 runs at first; p1 comes up on the *)
(* other address, or on p0's once p0 was deleted.  The coordinator asks    *)
(* Kubernetes, or was given addresses, one partition's twice.              *)
(***************************************************************************)
EXTENDS PartitionClients

CONSTANTS p0, p1, a0, a1

MCConfiguredFor == (p0 :> 0) @@ (p1 :> 1)
MCAnnotations == {{0}, {1}}
MCInitialPods ==
  {p0 :> [address |-> a0, annotated |-> {0}, up |-> TRUE, ready |-> TRUE]}
MCDiscoveries == {Kubernetes, <<<<0, a1>>, <<1, a1>>, <<0, a0>>>>}

=============================================================================
