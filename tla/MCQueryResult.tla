--------------------------- MODULE MCQueryResult ---------------------------
(***************************************************************************)
(* Small instances of QueryResult: the rows of MATCH (x)-[g]->(y) over     *)
(* three nodes on two partitions and three edges.                          *)
(***************************************************************************)
EXTENDS QueryResult

CONSTANTS n1, n2, n3, e1, e2, e3, p1, p2, r1, r2, L, T, k, x, y, g

MCOwner == (n1 :> p1) @@ (n2 :> p2) @@ (n3 :> p2)
MCHost == (r1 :> p1) @@ (r2 :> p2)

Nodes == (n1 :> 0) @@ (n2 :> 1) @@ (n3 :> Missing)

\* The graph whose edge e runs from ends[e][1] to ends[e][2], with the value
\* ends[e][3].
GraphOf(ends) ==
  [node |-> [n \in NodeId |-> [label |-> L, props |-> (k :> Nodes[n])]],
   edge |-> [e \in DOMAIN ends |->
               [type |-> T, src |-> ends[e][1], dst |-> ends[e][2],
                props |-> (k :> ends[e][3])]]]

\* e1 may move from one partition to the other, e2 may change or go away.
MCGraphs ==
  {GraphOf((e1 :> <<n1, n2, 0>>) @@ (e2 :> <<n1, n3, 1>>) @@ (e3 :> <<n2, n1, Opaque>>)),
   GraphOf((e1 :> <<n2, n2, 1>>) @@ (e2 :> <<n1, n3, 0>>) @@ (e3 :> <<n2, n1, Opaque>>)),
   GraphOf((e1 :> <<n3, n1, 0>>) @@ (e3 :> <<n2, n1, Opaque>>))}

MCMatches(h, readable) ==
  {(x :> h.edge[e].src) @@ (y :> h.edge[e].dst) @@ (g :> e) :
     e \in {f \in DOMAIN h.edge : Owner[h.edge[f].src] \in readable}}

Item(a, q) == [alias |-> a, prop |-> q]
Sort(a, dir) == [alias |-> a, prop |-> k, dir |-> dir]
Return(items, order, limit) == [items |-> items, order |-> order, limit |-> limit]

MCQueries ==
  {Return({Item(x, Whole)}, NoOrder, 2),
   Return({Item(x, k), Item(g, Whole)}, Sort(g, "asc"), NoLimit),
   Return({Item(x, k), Item(g, k)}, Sort(y, "desc"), 1),
   Return({Item(y, Whole)}, Sort(g, "desc"), 2)}

=============================================================================
