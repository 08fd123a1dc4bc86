-------------------------- MODULE MCScatterGather --------------------------
(***************************************************************************)
(* Small instances of ScatterGather: three nodes on two partitions, up to  *)
(* three edges in every arrangement, and one plan per shape of query.      *)
(***************************************************************************)
EXTENDS ScatterGather, TLC

CONSTANTS n1, n2, n3, e1, e2, e3, p1, p2, r1, r2, L, M, T, U, k, x, y, z, g

MCOwner == (n1 :> p1) @@ (n2 :> p2) @@ (n3 :> p2)
MCHost == (r1 :> p1) @@ (r2 :> p2)
MCIndexed == {<<L, k>>}

NodeTable ==
  (n1 :> [label |-> L, props |-> (k :> 0)]) @@
  (n2 :> [label |-> L, props |-> (k :> 1)]) @@
  (n3 :> [label |-> M, props |-> (k :> Missing)])

EdgeProps == (e1 :> 0) @@ (e2 :> 1) @@ (e3 :> Opaque)
EdgeTypes == (e1 :> T) @@ (e2 :> T) @@ (e3 :> U)

\* The graph with these nodes whose edge e runs from ends[e][1] to ends[e][2].
GraphOf(nodes, ends) ==
  [node |-> [n \in nodes |-> NodeTable[n]],
   edge |-> [e \in DOMAIN ends |->
               [type |-> EdgeTypes[e], src |-> ends[e][1], dst |-> ends[e][2],
                props |-> (k :> EdgeProps[e])]]]

AllGraphs == {GraphOf(NodeId, ends) : ends \in [EdgeId -> NodeId \X NodeId]}

\* The e1 edge leaves n1, the others run anywhere.
MCGraphs == {h \in AllGraphs : h.edge[e1].src = n1}

----------------------------------------------------------------------------
All(to) == [kind |-> "all", to |-> to, label |-> L]
Start(to, key) == [kind |-> "start", to |-> to, label |-> L, prop |-> k, key |-> key]
Hop(from, to, type, dir, min, max, filters, edge) ==
  [kind |-> "hop", from |-> from, to |-> to, type |-> type, dir |-> dir,
   min |-> min, max |-> max, filters |-> filters, edge |-> edge]
Anti(from, to, literal, outer) ==
  [kind |-> "anti", from |-> from, to |-> to, type |-> T, dir |-> "out",
   literal |-> literal, outer |-> outer]
Cond(op, v) == [prop |-> k, op |-> op, val |-> v]
Outer(op, alias) == [prop |-> k, op |-> op, alias |-> alias, outer |-> k]

\* MATCH (x:L)-[*1..3]->(y)
WalkPlan == <<All(x), Hop(x, y, AnyType, "out", 1, 3, {}, NoAlias)>>
\* MATCH (x:L {k: 0})-[*2..3]-(y)<--(z) WHERE y.k >= 0 AND z.k <> 1
FilterPlan == <<Start(x, 0),
                Hop(x, y, AnyType, "out", 2, 3, {Cond("gte", 0)}, NoAlias),
                Hop(y, z, T, "in", 1, 1, {Cond("ne", 1)}, NoAlias)>>
\* MATCH (x:L)<-[g]-(y)-->(z) WHERE NOT EXISTS {(z)-[a:T]->(x), a.k <= g.k}
AntiPlan == <<All(x), Hop(x, y, AnyType, "in", 1, 1, {}, g),
              Hop(y, z, AnyType, "out", 1, 1, {}, NoAlias),
              Anti(z, x, {}, {Outer("lte", g)})>>
\* MATCH (x:L)-[g]->(y) WHERE NOT EXISTS {(y)-[a:T]->(x), a.k < 1, a.k = y.k}
NodeAntiPlan == <<All(x), Hop(x, y, AnyType, "out", 1, 1, {}, g),
                  Anti(y, x, {Cond("lt", 1)}, {Outer("eq", y)})>>

MCPlans == {WalkPlan, FilterPlan, AntiPlan, NodeAntiPlan}

\* MATCH (x:L)-->(y)-->(x)
CyclePlans == {<<All(x), Hop(x, y, AnyType, "out", 1, 1, {}, NoAlias),
                 Hop(y, x, AnyType, "out", 1, 1, {}, NoAlias)>>}

=============================================================================
