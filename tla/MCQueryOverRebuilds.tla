------------------------ MODULE MCQueryOverRebuilds ------------------------
(***************************************************************************)
(* Five builds of one lake: an edge moves, an edge goes, a property of a   *)
(* node and a property of an edge change.                                  *)
(***************************************************************************)
EXTENDS QueryOverRebuilds, MCScatterGather

Base == GraphOf(NodeId, (e1 :> <<n1, n2>>) @@ (e2 :> <<n2, n3>>) @@ (e3 :> <<n1, n3>>))
EdgeMoved == GraphOf(NodeId, (e1 :> <<n1, n2>>) @@ (e2 :> <<n2, n1>>) @@ (e3 :> <<n1, n3>>))
EdgeGone == GraphOf(NodeId, (e2 :> <<n2, n3>>) @@ (e3 :> <<n3, n2>>))
NodeChanged == [Base EXCEPT !.node[n2].props[k] = 0]
EdgeChanged == [EdgeMoved EXCEPT !.edge[e1].props[k] = 1]

Builds == {Base, EdgeMoved, EdgeGone, NodeChanged, EdgeChanged}
=============================================================================
