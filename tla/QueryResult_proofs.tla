------------------------- MODULE QueryResult_proofs -------------------------
(***************************************************************************)
(* Proofs about QueryResult: what hydration fetches is of one version per  *)
(* id and misses nothing that no swap touched, and what is sent are the    *)
(* best rows in the order asked for.                                       *)
(***************************************************************************)
EXTENDS QueryResult, FiniteSetTheorems, SequenceTheorems, TLAPS

----------------------------------------------------------------------------
(* The inductive invariant.                                                *)

\* The ids of a kind that the rows name under an alias to hydrate.
Ids(kind) == {b[a] : b \in matched, a \in NeededAliases} \cap kind

\* The records that p's generation of g keeps.
Held(p, g) == Owned(p, g) \cup EdgeRecords(p, g)

\* If nothing was fetched of id then p once served a graph without it.
Answered(id, p) == id \in Fetched \/ \E g \in seen[route[p]] : id \notin Held(p, g)

\* A record is a row of a graph served during the hydration.
Genuine(h) ==
  \E g \in AllSeen :
    \/ h[1] \in DOMAIN g.node /\ h[2] = Wire(g.node[h[1]].props)
    \/ h[1] \in DOMAIN g.edge /\ h[2] = Wire(g.edge[h[1]].props)

Served ==
  /\ query \in Queries
  /\ route \in [Partition -> Replica \cup {NoReplica}]
  /\ \A p \in Partition : Routed(p) => Host[route[p]] = p
  /\ served \in [Replica -> Graphs]
  /\ seen \in [Replica -> SUBSET Graphs]
  /\ \A r \in Replica : served[r] \in seen[r]
  /\ swaps \in 0 .. MaxSwaps
  /\ phase \in {"nodes", "edges", "done", "failed"}
  /\ asked \subseteq Partition
  /\ \E g \in Graphs : matched = Matches(g, {p \in Partition : Routed(p)})
  /\ phase # "done" => bindings \in SetToSeqs(matched)

FetchedOnce ==
  /\ records \subseteq (NodeId \cup EdgeId) \X Props
  /\ \A h \in records : Genuine(h)
  /\ \A h, r \in records : h[1] = r[1] => h = r
  /\ phase = "nodes" => \A h \in records : h[1] \in NodeId /\ Owner[h[1]] \in asked

NothingMissed ==
  /\ phase \in {"nodes", "edges", "done"} =>
       \A n \in Ids(NodeId) :
         Routed(Owner[n]) /\ (phase = "nodes" => Owner[n] \in asked) => Answered(n, Owner[n])
  /\ phase \in {"edges", "done"} =>
       \A e \in Ids(EdgeId), p \in Partition :
         Routed(p) /\ (phase = "edges" => p \in asked) => Answered(e, p)

HydrationInv == Served /\ FetchedOnce /\ NothingMissed

----------------------------------------------------------------------------
(* The rows the walk returned.                                             *)

LEMMA LeastOf ==
  ASSUME NEW T \in SUBSET Nat, T # {}
  PROVE  \E n \in T : \A m \in T : n <= m
<1>1. PICK n \in T : \A m \in T : <<m, n>> \notin OpToRel(<, Nat)
  BY NatLessThanWellFounded, WFMin
<1>2. \A m \in T : ~ (m < n)
  BY <1>1 DEF OpToRel
<1>3. QED  BY <1>2

\* A sequence of a finite set lists every element, once.
LEMMA ListedOnce ==
  ASSUME NEW S, IsFiniteSet(S), NEW s \in SetToSeqs(S)
  PROVE  /\ Cardinality(S) \in Nat /\ s \in [1 .. Cardinality(S) -> S]
         /\ s \in Seq(S) /\ Len(s) = Cardinality(S) /\ DOMAIN s = 1 .. Cardinality(S)
         /\ IsInjective(s) /\ ToSet(s) = S
<1> DEFINE n == Cardinality(S)
<1>1. n \in Nat
  BY FS_CardinalityType
<1>2. s \in [1 .. n -> S] /\ \A i, j \in 1 .. n : i # j => s[i] # s[j]
  BY DEF SetToSeqs
<1> HIDE DEF n
<1>3. s \in Injection(1 .. n, S)
  BY <1>2 DEF Injection, IsInjective
<1>4. IsFiniteSet(1 .. n) /\ Cardinality(1 .. n) = n
  BY <1>1, FS_Interval
<1>5. s \in Surjection(1 .. n, S)
  BY <1>3, <1>4, FS_Injection DEF n
<1>6. ToSet(s) = S
  BY <1>2, <1>5 DEF ToSet, Surjection
<1>7. s \in Seq(S) /\ Len(s) = n
  BY <1>1, <1>2
<1>8. IsInjective(s)
  BY <1>3 DEF Injection
<1>9. QED  BY <1>1, <1>2, <1>6, <1>7, <1>8 DEF n

LEMMA MatchedRows ==
  ASSUME Served
  PROVE  /\ matched \in SUBSET Binding /\ IsFiniteSet(matched)
         /\ \A a \in Alias : \E kind \in {NodeId, EdgeId} :
              \A b \in matched : b[a] \in kind \cup {Unbound}
         /\ NeededAliases \in SUBSET Alias
<1>1. \E g \in Graphs : matched = Matches(g, {p \in Partition : Routed(p)})
  BY DEF Served
<1>2. {p \in Partition : Routed(p)} \in SUBSET Partition
  OBVIOUS
<1>3. query \in ReturnClause
  BY ResultAssumption DEF Served
<1>4. NeededAliases \in SUBSET Alias
  BY <1>3 DEF NeededAliases, ReturnClause, ReturnItem, OrderBy
<1>5. QED  BY <1>1, <1>2, <1>4, MatchesAssumption

\* What is asked for are the ids of either kind.
LEMMA NeededIds ==
  ASSUME Served, phase # "done"
  PROVE  Needed(FALSE) = Ids(NodeId) /\ Needed(TRUE) = Ids(EdgeId)
<1>1. /\ bindings \in Seq(matched) /\ ToSet(bindings) = matched
      /\ DOMAIN bindings \in SUBSET (Nat \ {0}) /\ \A i \in DOMAIN bindings : 1 .. i \in SUBSET DOMAIN bindings
      /\ \A i \in DOMAIN bindings : bindings[i] \in matched
  <2>1. bindings \in SetToSeqs(matched)
    BY DEF Served
  <2>2. QED  BY <2>1, MatchedRows, ListedOnce
<1>2. NodeId \cap EdgeId = {} /\ Unbound \notin NodeId /\ Unbound \notin EdgeId
  BY DataAssumption
<1>3. ASSUME NEW a \in Alias, NEW b \in matched, b[a] \in EdgeId
      PROVE  IsEdge(a)
  <2> DEFINE T == {i \in DOMAIN bindings : bindings[i][a] # Unbound}
  <2>1. T # {} /\ T \in SUBSET Nat
    BY <1>1, <1>2, <1>3 DEF ToSet
  <2>2. PICK i \in T : \A j \in T : i <= j
    BY <2>1, LeastOf
  <2>3. bindings[i][a] \in EdgeId
    BY <1>1, <1>2, <1>3, MatchedRows
  <2>4. \A j \in 1 .. i - 1 : bindings[j][a] = Unbound
    <3> TAKE j \in 1 .. i - 1
    <3>1. i \in Nat /\ j \in Nat /\ j \in 1 .. i /\ ~ (i <= j)
      BY <2>1
    <3>2. j \in DOMAIN bindings
      BY <1>1, <3>1
    <3>3. QED  BY <2>2, <3>1, <3>2
  <2>5. QED  BY <2>3, <2>4 DEF IsEdge
<1>4. ASSUME NEW a \in Alias, IsEdge(a), NEW b \in matched
      PROVE  b[a] \in EdgeId \cup {Unbound}
  BY <1>1, <1>2, <1>4, MatchedRows DEF IsEdge
<1>5. ASSUME NEW a \in Alias, NEW b \in matched, b[a] # Unbound
      PROVE  /\ IsEdge(a) <=> b[a] \in EdgeId
             /\ ~ IsEdge(a) <=> b[a] \in NodeId
  <2>1. b[a] \in EdgeId => IsEdge(a)
    BY <1>3
  <2>2. IsEdge(a) => b[a] \in EdgeId
    BY <1>4, <1>5
  <2>3. b[a] \in NodeId \cup EdgeId
    BY <1>5, MatchedRows DEF Binding
  <2>4. QED  BY <1>2, <2>1, <2>2, <2>3
<1>6. NeededAliases \in SUBSET Alias
  BY MatchedRows
<1>7. \A id : id \in Needed(FALSE) <=>
                 \E b \in matched, a \in NeededAliases : ~ IsEdge(a) /\ id = b[a] /\ id # Unbound
  BY <1>1 DEF Needed
<1>8. \A id : id \in Needed(TRUE) <=>
                 \E b \in matched, a \in NeededAliases : IsEdge(a) /\ id = b[a] /\ id # Unbound
  BY <1>1 DEF Needed
<1>9. \A kind, id : id \in Ids(kind) <=>
                 id \in kind /\ \E b \in matched, a \in NeededAliases : id = b[a]
  BY DEF Ids
<1>10. \A id : id \in Needed(FALSE) <=> id \in Ids(NodeId)
  <2>1. ASSUME NEW b \in matched, NEW a \in NeededAliases
        PROVE  ~ IsEdge(a) /\ b[a] # Unbound <=> b[a] \in NodeId
    BY <1>2, <1>5, <1>6
  <2>2. ASSUME NEW id \in Needed(FALSE) PROVE id \in Ids(NodeId)
    <3>1. PICK b \in matched, a \in NeededAliases : ~ IsEdge(a) /\ id = b[a] /\ id # Unbound
      BY <1>7
    <3>2. id \in NodeId
      BY <2>1, <3>1
    <3>3. QED  BY <1>9, <3>1, <3>2
  <2>3. ASSUME NEW id \in Ids(NodeId) PROVE id \in Needed(FALSE)
    <3>1. PICK b \in matched, a \in NeededAliases : id = b[a]
      BY <1>9
    <3>2. b[a] \in NodeId
      BY <1>9, <3>1
    <3>3. ~ IsEdge(a) /\ b[a] # Unbound
      BY <2>1, <3>2
    <3>4. QED  BY <1>7, <3>1, <3>3
  <2>4. QED  BY <2>2, <2>3
<1>11. \A id : id \in Needed(TRUE) <=> id \in Ids(EdgeId)
  <2>1. ASSUME NEW b \in matched, NEW a \in NeededAliases
        PROVE  IsEdge(a) /\ b[a] # Unbound <=> b[a] \in EdgeId
    BY <1>2, <1>5, <1>6
  <2>2. ASSUME NEW id \in Needed(TRUE) PROVE id \in Ids(EdgeId)
    <3>1. PICK b \in matched, a \in NeededAliases : IsEdge(a) /\ id = b[a] /\ id # Unbound
      BY <1>8
    <3>2. id \in EdgeId
      BY <2>1, <3>1
    <3>3. QED  BY <1>9, <3>1, <3>2
  <2>3. ASSUME NEW id \in Ids(EdgeId) PROVE id \in Needed(TRUE)
    <3>1. PICK b \in matched, a \in NeededAliases : id = b[a]
      BY <1>9
    <3>2. b[a] \in EdgeId
      BY <1>9, <3>1
    <3>3. IsEdge(a) /\ b[a] # Unbound
      BY <2>1, <3>2
    <3>4. QED  BY <1>8, <3>1, <3>3
  <2>4. QED  BY <2>2, <2>3
<1>12. QED  BY <1>10, <1>11

----------------------------------------------------------------------------
(* What one RPC brings.                                                    *)

LEMMA RouteServes ==
  ASSUME Served, NEW p \in Partition, Routed(p)
  PROVE  /\ route[p] \in Replica /\ Host[route[p]] = p
         /\ served[route[p]] \in seen[route[p]] /\ served[route[p]] \in Graphs
         /\ served[route[p]] \in AllSeen /\ IsGraph(served[route[p]])
<1>1. /\ route[p] \in Replica /\ Host[route[p]] = p
      /\ served[route[p]] \in seen[route[p]] /\ served[route[p]] \in Graphs
  BY DEF Served, Routed
<1>2. QED  BY <1>1, ResultAssumption DEF AllSeen

LEMMA WireType ==
  ASSUME NEW props \in Props
  PROVE  Wire(props) \in Props
  BY DEF Wire, Props

LEMMA NodeRecordsOf ==
  ASSUME Served, NEW p \in Partition, Routed(p), NEW ids
  PROVE  /\ \A h \in NodeProperties(Idx(p), ids) :
              /\ h = <<h[1], h[2]>> /\ h[1] \in ids /\ h[1] \in NodeId /\ Owner[h[1]] = p
              /\ h[1] \in DOMAIN served[route[p]].node
              /\ h[2] = Wire(served[route[p]].node[h[1]].props) /\ h[2] \in Props
         /\ \A n \in ids \cap Owned(p, served[route[p]]) :
              \E h \in NodeProperties(Idx(p), ids) : h[1] = n
<1> DEFINE g == served[route[p]]
<1>1. /\ Host[route[p]] = p /\ DOMAIN g.node \in SUBSET NodeId
      /\ \A n \in DOMAIN g.node : g.node[n].props \in Props
  BY RouteServes DEF IsGraph, NodeRow
<1>2. NodeProperties(Idx(p), ids) = {<<n, Wire(g.node[n].props)>> : n \in ids \cap Owned(p, g)}
  BY <1>1 DEF NodeProperties, Idx, Build
<1>3. \A n \in Owned(p, g) : /\ n \in NodeId /\ Owner[n] = p /\ n \in DOMAIN g.node
                             /\ Wire(g.node[n].props) \in Props
  BY <1>1, WireType DEF Owned
<1> HIDE DEF g
<1>4. ASSUME NEW h \in NodeProperties(Idx(p), ids)
      PROVE  /\ h = <<h[1], h[2]>> /\ h[1] \in ids /\ h[1] \in NodeId /\ Owner[h[1]] = p
             /\ h[1] \in DOMAIN g.node
             /\ h[2] = Wire(g.node[h[1]].props) /\ h[2] \in Props
  <2>1. PICK n \in ids \cap Owned(p, g) : h = <<n, Wire(g.node[n].props)>>
    BY <1>2
  <2>2. h[1] = n /\ h[2] = Wire(g.node[n].props)
    BY <2>1
  <2>3. QED  BY <1>3, <2>1, <2>2
<1>5. ASSUME NEW n \in ids \cap Owned(p, g)
      PROVE  \E h \in NodeProperties(Idx(p), ids) : h[1] = n
  <2>1. <<n, Wire(g.node[n].props)>> \in NodeProperties(Idx(p), ids)
    BY <1>2
  <2>2. <<n, Wire(g.node[n].props)>>[1] = n
    OBVIOUS
  <2>3. QED  BY <2>1, <2>2
<1>6. QED  BY <1>4, <1>5 DEF g

LEMMA EdgeRecordsOf ==
  ASSUME Served, NEW p \in Partition, Routed(p), NEW ids
  PROVE  /\ \A h \in EdgeProperties(Idx(p), ids) :
              /\ h = <<h[1], h[2]>> /\ h[1] \in ids /\ h[1] \in EdgeId
              /\ h[1] \in DOMAIN served[route[p]].edge
              /\ h[2] = Wire(served[route[p]].edge[h[1]].props) /\ h[2] \in Props
         /\ \A e \in ids \cap EdgeRecords(p, served[route[p]]) :
              \E h \in EdgeProperties(Idx(p), ids) : h[1] = e
<1> DEFINE g == served[route[p]]
<1>1. /\ Host[route[p]] = p /\ DOMAIN g.edge \in SUBSET EdgeId
      /\ \A e \in DOMAIN g.edge : g.edge[e].props \in Props
  BY RouteServes DEF IsGraph, EdgeRow
<1>2. EdgeProperties(Idx(p), ids) = {<<e, Wire(g.edge[e].props)>> : e \in ids \cap EdgeRecords(p, g)}
  BY <1>1 DEF EdgeProperties, Idx, Build
<1>3. \A e \in EdgeRecords(p, g) : /\ e \in EdgeId /\ e \in DOMAIN g.edge
                                   /\ Wire(g.edge[e].props) \in Props
  BY <1>1, WireType DEF EdgeRecords
<1> HIDE DEF g
<1>4. ASSUME NEW h \in EdgeProperties(Idx(p), ids)
      PROVE  /\ h = <<h[1], h[2]>> /\ h[1] \in ids /\ h[1] \in EdgeId
             /\ h[1] \in DOMAIN g.edge
             /\ h[2] = Wire(g.edge[h[1]].props) /\ h[2] \in Props
  <2>1. PICK e \in ids \cap EdgeRecords(p, g) : h = <<e, Wire(g.edge[e].props)>>
    BY <1>2
  <2>2. h[1] = e /\ h[2] = Wire(g.edge[e].props)
    BY <2>1
  <2>3. QED  BY <1>3, <2>1, <2>2
<1>5. ASSUME NEW e \in ids \cap EdgeRecords(p, g)
      PROVE  \E h \in EdgeProperties(Idx(p), ids) : h[1] = e
  <2>1. <<e, Wire(g.edge[e].props)>> \in EdgeProperties(Idx(p), ids)
    BY <1>2
  <2>2. <<e, Wire(g.edge[e].props)>>[1] = e
    OBVIOUS
  <2>3. QED  BY <2>1, <2>2
<1>6. QED  BY <1>4, <1>5 DEF g

----------------------------------------------------------------------------
(* The invariant holds.                                                    *)

LEMMA HydrationInit == Init => HydrationInv
<1> SUFFICES ASSUME Init PROVE HydrationInv
  OBVIOUS
<1>1. \A r \in Replica : served[r] \in Graphs /\ seen[r] = {served[r]}
  BY DEF Init
<1>2. Served
  <2>1. \E g \in Graphs : matched = Matches(g, {p \in Partition : Routed(p)})
    BY DEF Init
  <2>2. 0 \in 0 .. MaxSwaps
    BY ResultAssumption
  <2>3. served \in [Replica -> Graphs] /\ seen \in [Replica -> SUBSET Graphs]
    BY <1>1 DEF Init
  <2>4. QED  BY <1>1, <2>1, <2>2, <2>3 DEF Init, Served
<1>3. FetchedOnce /\ NothingMissed
  BY DEF Init, FetchedOnce, NothingMissed
<1>4. QED  BY <1>2, <1>3 DEF HydrationInv

\* Every step either swaps, fetches, or ends a phase.
LEMMA ServedNext ==
  ASSUME Served, [Next]_vars
  PROVE  /\ Served' /\ route' = route /\ matched' = matched /\ query' = query
         /\ \A r \in Replica : seen[r] \in SUBSET seen'[r]
<1>0. /\ query \in Queries /\ route \in [Partition -> Replica \cup {NoReplica}]
      /\ \A p \in Partition : Routed(p) => Host[route[p]] = p
      /\ \E g \in Graphs : matched = Matches(g, {p \in Partition : Routed(p)})
  BY DEF Served
<1>1. ASSUME UNCHANGED <<cluster, served, seen, swaps>>,
             asked' \subseteq Partition, phase' \in {"nodes", "edges", "done", "failed"},
             phase' # "done" => phase # "done" /\ bindings' = bindings
      PROVE  /\ Served' /\ route' = route /\ matched' = matched /\ query' = query
             /\ \A r \in Replica : seen[r] \in SUBSET seen'[r]
  BY <1>1 DEF Served, cluster, Routed
<1>2. ASSUME NEW p \in Partition, NodesRpc(p) \/ EdgesRpc(p)
      PROVE  /\ Served' /\ route' = route /\ matched' = matched /\ query' = query
             /\ \A r \in Replica : seen[r] \in SUBSET seen'[r]
  BY <1>1, <1>2 DEF NodesRpc, EdgesRpc, Served
<1>3. CASE EndNodes \/ Finish \/ RpcFails
  <2>1. CASE EndNodes
    BY <1>1, <2>1 DEF EndNodes, Served
  <2>2. CASE Finish
    BY <1>1, <2>2 DEF Finish, Served
  <2>3. CASE RpcFails
    <3>1. phase # "done"
      BY <2>3 DEF RpcFails, Pending
    <3>2. QED  BY <1>1, <2>3, <3>1 DEF RpcFails, Served
  <2>4. QED  BY <1>3, <2>1, <2>2, <2>3
<1>4. ASSUME NEW r \in Replica, NEW g \in Graphs, Swap(r, g)
      PROVE  /\ Served' /\ route' = route /\ matched' = matched /\ query' = query
             /\ \A s \in Replica : seen[s] \in SUBSET seen'[s]
  <2>1. route' = route /\ matched' = matched /\ query' = query /\ phase' = phase
        /\ bindings' = bindings /\ asked' = asked
    BY <1>4 DEF Swap, cluster
  <2>2. served' \in [Replica -> Graphs] /\ seen' \in [Replica -> SUBSET Graphs]
        /\ \A s \in Replica : served'[s] \in seen'[s] /\ seen[s] \in SUBSET seen'[s]
    BY <1>4 DEF Swap, Served
  <2>3. swaps' \in 0 .. MaxSwaps
    BY <1>4, ResultAssumption DEF Swap, Served
  <2>4. QED  BY <2>1, <2>2, <2>3 DEF Served, Routed
<1>5. CASE UNCHANGED vars
  BY <1>1, <1>5 DEF vars, cluster, Served
<1>6. QED  BY <1>2, <1>3, <1>4, <1>5 DEF Next

\* Records stay, and so do the graphs that answered.
LEMMA AnsweredStays ==
  ASSUME Served, [Next]_vars
  PROVE  /\ records \in SUBSET records'
         /\ \A id : \A p \in Partition : Routed(p) /\ Answered(id, p) => Answered(id, p)'
         /\ \A h : Genuine(h) => Genuine(h)'
         /\ \A kind : Ids(kind)' = Ids(kind)
<1>1. route' = route /\ matched' = matched /\ query' = query
      /\ \A r \in Replica : seen[r] \in SUBSET seen'[r]
  BY ServedNext
<1>2. records \in SUBSET records'
  BY DEF Next, NodesRpc, EdgesRpc, EndNodes, Finish, RpcFails, Swap, vars
<1>3. ASSUME NEW id, NEW p \in Partition, Routed(p), Answered(id, p)
      PROVE  Answered(id, p)'
  <2>1. route[p] \in Replica
    BY <1>3, RouteServes
  <2>2. Fetched \in SUBSET Fetched'
    BY <1>2 DEF Fetched
  <2>3. CASE id \in Fetched
    BY <2>2, <2>3 DEF Answered
  <2>4. CASE \E g \in seen[route[p]] : id \notin Held(p, g)
    <3>1. PICK g \in seen[route[p]] : id \notin Held(p, g)
      BY <2>4
    <3>2. g \in seen'[route'[p]]
      BY <1>1, <2>1, <3>1
    <3>3. QED  BY <3>1, <3>2 DEF Answered, Held, Owned, EdgeRecords
  <2>5. QED  BY <1>3, <2>3, <2>4 DEF Answered
<1>4. ASSUME NEW h, Genuine(h) PROVE Genuine(h)'
  <2>1. AllSeen \in SUBSET AllSeen'
    BY <1>1 DEF AllSeen
  <2>2. QED  BY <1>4, <2>1 DEF Genuine
<1>5. \A kind : Ids(kind)' = Ids(kind)
  BY <1>1 DEF Ids, NeededAliases
<1>6. QED  BY <1>2, <1>3, <1>4, <1>5

\* A fetch adds genuine records of ids that have none yet.
LEMMA FetchAdds ==
  ASSUME Served, FetchedOnce, [Next]_vars, NEW new, records' = records \cup new,
         \A h \in new : /\ h = <<h[1], h[2]>> /\ h[1] \in NodeId \cup EdgeId /\ h[2] \in Props
                        /\ h[1] \notin Fetched,
         NEW g \in AllSeen,
         \A h \in new : \/ h[1] \in DOMAIN g.node /\ h[2] = Wire(g.node[h[1]].props)
                        \/ h[1] \in DOMAIN g.edge /\ h[2] = Wire(g.edge[h[1]].props),
         \A h, r \in new : h[1] = r[1] => h[2] = r[2]
  PROVE  /\ records' \subseteq (NodeId \cup EdgeId) \X Props
         /\ \A h \in records' : Genuine(h)'
         /\ \A h, r \in records' : h[1] = r[1] => h = r
<1>1. \A h \in new : h \in (NodeId \cup EdgeId) \X Props
  <2> TAKE h \in new
  <2>1. <<h[1], h[2]>> \in (NodeId \cup EdgeId) \X Props
    OBVIOUS
  <2>2. QED  BY <2>1
<1>2. records' \subseteq (NodeId \cup EdgeId) \X Props
  BY <1>1 DEF FetchedOnce
<1>3. \A h \in new : Genuine(h)
  BY DEF Genuine
<1>4. \A h \in records' : Genuine(h)'
  BY <1>3, AnsweredStays DEF FetchedOnce
<1>5. \A h \in records : h[1] \in Fetched
  BY DEF Fetched
<1>6. \A h, r \in new : h[1] = r[1] => h = r
  <2> TAKE h, r \in new
  <2>1. h[1] = r[1] => <<h[1], h[2]>> = <<r[1], r[2]>>
    OBVIOUS
  <2>2. h = <<h[1], h[2]>> /\ r = <<r[1], r[2]>>
    OBVIOUS
  <2>3. QED  BY <2>1, <2>2
<1>7. \A h, r \in records : h[1] = r[1] => h = r
  BY DEF FetchedOnce
<1>8. ASSUME NEW h \in records', NEW r \in records', h[1] = r[1] PROVE h = r
  <2>1. CASE h \in records /\ r \in records
    BY <1>7, <1>8, <2>1
  <2>2. CASE h \in new /\ r \in new
    BY <1>6, <1>8, <2>2
  <2>3. CASE h \in records /\ r \in new
    BY <1>5, <1>8, <2>3
  <2>4. CASE h \in new /\ r \in records
    BY <1>5, <1>8, <2>4
  <2>5. QED  BY <2>1, <2>2, <2>3, <2>4
<1>9. QED  BY <1>2, <1>4, <1>8

LEMMA FetchedNext ==
  ASSUME Served, FetchedOnce, [Next]_vars
  PROVE  FetchedOnce'
<1>1. ASSUME records' = records, phase' = "nodes" => phase = "nodes" /\ asked \subseteq asked'
      PROVE  FetchedOnce'
  <2>1. \A h \in records' : Genuine(h)'
    BY <1>1, AnsweredStays DEF FetchedOnce
  <2>2. QED  BY <1>1, <2>1 DEF FetchedOnce
<1>2. ASSUME NEW p \in Partition, NodesRpc(p) PROVE FetchedOnce'
  <2>1. /\ phase = "nodes" /\ phase' = "nodes" /\ asked' = asked \cup {p} /\ p \notin asked
    BY <1>2 DEF NodesRpc, Pending
  <2>2. CASE ~ Routed(p)
    <3>1. records' = records
      BY <1>2, <2>2 DEF NodesRpc
    <3>2. QED  BY <1>1, <2>1, <3>1
  <2>3. CASE Routed(p)
    <3> DEFINE new == NodeProperties(Idx(p), {n \in Needed(FALSE) : Owner[n] = p})
               g == served[route[p]]
    <3>1. records' = records \cup new
      BY <1>2, <2>3 DEF NodesRpc
    <3>2. \A h \in new : /\ h = <<h[1], h[2]>> /\ h[1] \in NodeId /\ Owner[h[1]] = p
                         /\ h[1] \in DOMAIN g.node
                         /\ h[2] = Wire(g.node[h[1]].props) /\ h[2] \in Props
      BY <2>3, NodeRecordsOf
    <3>3. g \in AllSeen
      BY <2>3, RouteServes
    <3>4. \A h \in records : h[1] \in NodeId /\ Owner[h[1]] \in asked
      BY <2>1 DEF FetchedOnce
    <3> HIDE DEF new, g
    <3>5. \A h \in new : h[1] \notin Fetched
      BY <2>1, <3>2, <3>4 DEF Fetched
    <3>6. /\ records' \subseteq (NodeId \cup EdgeId) \X Props
          /\ \A h \in records' : Genuine(h)'
          /\ \A h, r \in records' : h[1] = r[1] => h = r
      BY <3>1, <3>2, <3>3, <3>5, FetchAdds
    <3>7. \A h \in records' : h[1] \in NodeId /\ Owner[h[1]] \in asked'
      BY <2>1, <3>1, <3>2, <3>4
    <3>8. QED  BY <3>6, <3>7 DEF FetchedOnce
  <2>4. QED  BY <2>2, <2>3
<1>3. ASSUME NEW p \in Partition, EdgesRpc(p) PROVE FetchedOnce'
  <2>1. phase' = "edges"
    BY <1>3 DEF EdgesRpc
  <2>2. CASE ~ Routed(p)
    BY <1>1, <1>3, <2>1, <2>2 DEF EdgesRpc
  <2>3. CASE Routed(p)
    <3> DEFINE new == EdgeProperties(Idx(p), Remaining)
               g == served[route[p]]
    <3>1. records' = records \cup new
      BY <1>3, <2>3 DEF EdgesRpc
    <3>2. \A h \in new : /\ h = <<h[1], h[2]>> /\ h[1] \in EdgeId /\ h[1] \in Remaining
                         /\ h[1] \in DOMAIN g.edge
                         /\ h[2] = Wire(g.edge[h[1]].props) /\ h[2] \in Props
      BY <2>3, EdgeRecordsOf
    <3>3. g \in AllSeen
      BY <2>3, RouteServes
    <3> HIDE DEF new, g
    <3>5. \A h \in new : h[1] \notin Fetched
      BY <3>2 DEF Remaining
    <3>6. /\ records' \subseteq (NodeId \cup EdgeId) \X Props
          /\ \A h \in records' : Genuine(h)'
          /\ \A h, r \in records' : h[1] = r[1] => h = r
      BY <3>1, <3>2, <3>3, <3>5, FetchAdds
    <3>7. QED  BY <2>1, <3>6 DEF FetchedOnce
  <2>4. QED  BY <2>2, <2>3
<1>4. CASE EndNodes \/ Finish \/ RpcFails
  BY <1>1, <1>4 DEF EndNodes, Finish, RpcFails
<1>5. ASSUME NEW r \in Replica, NEW g \in Graphs, Swap(r, g) PROVE FetchedOnce'
  BY <1>1, <1>5 DEF Swap
<1>6. CASE UNCHANGED vars
  BY <1>1, <1>6 DEF vars
<1>7. QED  BY <1>2, <1>3, <1>4, <1>5, <1>6 DEF Next

LEMMA MissedNext ==
  ASSUME Served, FetchedOnce, NothingMissed, [Next]_vars
  PROVE  NothingMissed'
<1>0. /\ route' = route /\ Served'
      /\ \A id : \A p \in Partition : Routed(p) /\ Answered(id, p) => Answered(id, p)'
      /\ \A kind : Ids(kind)' = Ids(kind)
      /\ \A p \in Partition : Routed(p)' <=> Routed(p)
  BY ServedNext, AnsweredStays DEF Routed
<1>01. \A n \in Ids(NodeId) : n \in NodeId /\ Owner[n] \in Partition
  BY OwnerAssumption DEF Ids
<1>1. ASSUME \A n \in Ids(NodeId) :
               phase' \in {"nodes", "edges", "done"} /\ Routed(Owner[n])
               /\ (phase' = "nodes" => Owner[n] \in asked') => Answered(n, Owner[n])',
             \A e \in Ids(EdgeId), p \in Partition :
               phase' \in {"edges", "done"} /\ Routed(p)
               /\ (phase' = "edges" => p \in asked') => Answered(e, p)'
      PROVE  NothingMissed'
  BY <1>0, <1>01, <1>1 DEF NothingMissed
<1>2. ASSUME NEW p \in Partition, NodesRpc(p) PROVE NothingMissed'
  <2>1. phase = "nodes" /\ phase' = "nodes" /\ asked' = asked \cup {p}
    BY <1>2 DEF NodesRpc
  <2>2. ASSUME NEW n \in Ids(NodeId), Routed(Owner[n]), Owner[n] \in asked'
        PROVE  Answered(n, Owner[n])'
    <3>1. CASE Owner[n] \in asked
      BY <1>0, <1>01, <2>1, <2>2, <3>1 DEF NothingMissed
    <3>2. CASE Owner[n] = p
      <4> DEFINE new == NodeProperties(Idx(p), {m \in Needed(FALSE) : Owner[m] = p})
                 g == served[route[p]]
      <4>1. records' = records \cup new
        BY <1>2, <2>2, <3>2 DEF NodesRpc
      <4>2. n \in {m \in Needed(FALSE) : Owner[m] = p}
        BY <2>1, <3>2, NeededIds
      <4>3. CASE n \in Owned(p, g)
        <5>1. \E h \in new : h[1] = n
          <6>1. Routed(p) /\ n \in {m \in Needed(FALSE) : Owner[m] = p} \cap Owned(p, g)
            BY <2>2, <3>2, <4>2, <4>3
          <6>2. \A k \in {m \in Needed(FALSE) : Owner[m] = p} \cap Owned(p, g) :
                  \E h \in new : h[1] = k
            BY <6>1, NodeRecordsOf
          <6>3. QED  BY <6>1, <6>2
        <5> HIDE DEF new
        <5>2. n \in Fetched'
          BY <4>1, <5>1 DEF Fetched
        <5>3. QED  BY <5>2 DEF Answered
      <4>4. CASE n \notin Owned(p, g)
        <5>1. IsGraph(g) /\ g \in seen[route[p]]
          BY <2>2, <3>2, RouteServes
        <5>2. n \notin EdgeRecords(p, g)
          BY <1>01, <5>1, DataAssumption DEF EdgeRecords, IsGraph
        <5>3. n \notin Held(p, g)
          BY <4>4, <5>2 DEF Held
        <5> HIDE DEF g
        <5>4. Answered(n, p)
          BY <5>1, <5>3 DEF Answered
        <5>5. QED  BY <1>0, <2>2, <3>2, <5>4
      <4>5. QED  BY <4>3, <4>4
    <3>3. QED  BY <2>1, <2>2, <3>1, <3>2
  <2>3. QED  BY <1>1, <2>1, <2>2
<1>3. CASE EndNodes
  <2>1. phase = "nodes" /\ phase' = "edges" /\ asked' = {} /\ Pending = {}
    BY <1>3 DEF EndNodes
  <2>2. ASSUME NEW n \in Ids(NodeId), Routed(Owner[n]) PROVE Answered(n, Owner[n])'
    <3>1. n \in Needed(FALSE) /\ Owner[n] \in Partition
      BY <1>01, <2>1, NeededIds
    <3>2. Owner[n] \in asked
      BY <2>1, <3>1 DEF Pending
    <3>3. QED  BY <1>0, <2>1, <2>2, <3>1, <3>2 DEF NothingMissed
  <2>3. QED  BY <1>1, <2>1, <2>2
<1>4. ASSUME NEW p \in Partition, EdgesRpc(p) PROVE NothingMissed'
  <2>1. phase = "edges" /\ phase' = "edges" /\ asked' = asked \cup {p}
    BY <1>4 DEF EdgesRpc
  <2>2. ASSUME NEW n \in Ids(NodeId), Routed(Owner[n]) PROVE Answered(n, Owner[n])'
    BY <1>0, <1>01, <2>1, <2>2 DEF NothingMissed
  <2>3. ASSUME NEW e \in Ids(EdgeId), NEW q \in Partition, Routed(q), q \in asked'
        PROVE  Answered(e, q)'
    <3>1. CASE q \in asked
      BY <1>0, <2>1, <2>3, <3>1 DEF NothingMissed
    <3>2. CASE q = p
      <4> DEFINE new == EdgeProperties(Idx(p), Remaining)
                 g == served[route[p]]
      <4>1. records' = records \cup new
        BY <1>4, <2>3, <3>2 DEF EdgesRpc
      <4>2. e \in Needed(TRUE) /\ e \in EdgeId
        <5>1. Needed(TRUE) = Ids(EdgeId)
          BY <2>1, NeededIds
        <5>2. Ids(EdgeId) \in SUBSET EdgeId
          BY DEF Ids
        <5>3. QED  BY <5>1, <5>2
      <4>3. CASE e \in Fetched
        BY <1>0, <2>3, <4>3 DEF Answered
      <4>4. CASE e \notin Fetched /\ e \in EdgeRecords(p, g)
        <5>1. \E h \in new : h[1] = e
          <6>1. Routed(p) /\ e \in Remaining \cap EdgeRecords(p, g)
            BY <2>3, <3>2, <4>2, <4>4 DEF Remaining
          <6>2. \A d \in Remaining \cap EdgeRecords(p, g) : \E h \in new : h[1] = d
            BY <6>1, EdgeRecordsOf
          <6>3. QED  BY <6>1, <6>2
        <5> HIDE DEF new
        <5>2. e \in Fetched'
          BY <4>1, <5>1 DEF Fetched
        <5>3. QED  BY <5>2 DEF Answered
      <4>5. CASE e \notin EdgeRecords(p, g)
        <5>1. IsGraph(g) /\ g \in seen[route[p]]
          BY <2>3, <3>2, RouteServes
        <5>2. e \notin Owned(p, g)
          BY <4>2, <5>1, DataAssumption DEF Owned, IsGraph
        <5>3. e \notin Held(p, g)
          BY <4>5, <5>2 DEF Held
        <5> HIDE DEF g
        <5>4. Answered(e, p)
          BY <5>1, <5>3 DEF Answered
        <5>5. QED  BY <1>0, <2>3, <3>2, <5>4
      <4>6. QED  BY <4>3, <4>4, <4>5
    <3>3. QED  BY <2>1, <2>3, <3>1, <3>2
  <2>4. QED  BY <1>1, <2>1, <2>2, <2>3
<1>5. CASE Finish
  <2>1. phase = "edges" /\ phase' = "done" /\ Pending = {}
    BY <1>5 DEF Finish
  <2>2. ASSUME NEW n \in Ids(NodeId), Routed(Owner[n]) PROVE Answered(n, Owner[n])'
    BY <1>0, <1>01, <2>1, <2>2 DEF NothingMissed
  <2>3. ASSUME NEW e \in Ids(EdgeId), NEW q \in Partition, Routed(q) PROVE Answered(e, q)'
    <3>1. e \in Needed(TRUE)
      BY <2>1, NeededIds
    <3>2. e \in Fetched \/ q \in asked
      BY <2>1, <3>1 DEF Pending, Remaining
    <3>3. Answered(e, q)
      BY <2>1, <2>3, <3>2 DEF NothingMissed, Answered
    <3>4. QED  BY <1>0, <2>3, <3>3
  <2>4. QED  BY <1>1, <2>1, <2>2, <2>3
<1>6. CASE RpcFails
  BY <1>1, <1>6 DEF RpcFails
<1>7. ASSUME UNCHANGED <<phase, asked>> PROVE NothingMissed'
  BY <1>0, <1>01, <1>1, <1>7 DEF NothingMissed
<1>8. ASSUME NEW r \in Replica, NEW g \in Graphs, Swap(r, g) PROVE NothingMissed'
  BY <1>7, <1>8 DEF Swap
<1>9. CASE UNCHANGED vars
  BY <1>7, <1>9 DEF vars
<1>10. QED  BY <1>2, <1>3, <1>4, <1>5, <1>6, <1>8, <1>9 DEF Next

LEMMA HydrationInvariant == Spec => []HydrationInv
<1>1. HydrationInv /\ [Next]_vars => HydrationInv'
  BY ServedNext, FetchedNext, MissedNext DEF HydrationInv
<1>2. QED  BY <1>1, HydrationInit, PTL DEF Spec

----------------------------------------------------------------------------
(* What the rows show.                                                     *)

LEMMA SameIdOf == HydrationInv => SameIdSameProperties
<1> SUFFICES ASSUME HydrationInv,
                    NEW b \in ToSet(bindings), NEW c \in ToSet(bindings),
                    NEW s \in Projection(b), NEW t \in Projection(c),
                    b[s.item.alias] = c[t.item.alias], s.prop = t.prop
             PROVE  s.val = t.val
  BY DEF SameIdSameProperties
<1> DEFINE Bare(r, x) == x.prop = Whole /\ x.val = r[x.item.alias]
           Shown(r, x) == /\ x.prop \in Property
                          /\ \E h \in records : h[1] = r[x.item.alias] /\ h[2][x.prop] = x.val
<1>1. ASSUME NEW r, NEW x \in Projection(r) PROVE Bare(r, x) \/ Shown(r, x)
  BY <1>1 DEF Projection
<1>2. Whole \notin Property
  BY ResultAssumption
<1>3. CASE Bare(b, s) /\ Bare(c, t)
  BY <1>3
<1>4. CASE Shown(b, s) /\ Shown(c, t)
  BY <1>4 DEF HydrationInv, FetchedOnce
<1>5. QED  BY <1>1, <1>2, <1>3, <1>4

\* Rows that show the same id show the same properties of it, whatever
\* generations answered (distributed_executor.rs, get_edge_properties: found).
THEOREM SameIdShownAlike == Spec => []SameIdSameProperties
  BY HydrationInvariant, SameIdOf, PTL

LEMMA UntouchedOf == HydrationInv => UntouchedRecordsAreFetched
<1> SUFFICES ASSUME HydrationInv, phase = "done",
                    NEW b \in matched, NEW t \in {"node", "edge"},
                    NEW o \in query.items \cup ({query.order} \ {NoOrder}),
                    NEW g \in AllSeen,
                    \A h \in AllSeen : b[o.alias] \in DOMAIN h[t] /\ h[t][b[o.alias]] = g[t][b[o.alias]],
                    Routed(Keeper(t, b[o.alias], g))
             PROVE  <<b[o.alias], Wire(g[t][b[o.alias]].props)>> \in records
  BY DEF UntouchedRecordsAreFetched
<1> DEFINE id == b[o.alias]
           p == Keeper(t, id, g)
<1>1. Served /\ FetchedOnce /\ NothingMissed
  BY DEF HydrationInv
<1>2. o.alias \in NeededAliases
  BY DEF NeededAliases
<1>3. IsGraph(g) /\ g \in Graphs
  BY <1>1, ResultAssumption DEF Served, AllSeen
<1>4. id \in DOMAIN g[t]
  OBVIOUS
<1>5. /\ t = "node" => id \in NodeId
      /\ t = "edge" => id \in EdgeId
  BY <1>3, <1>4 DEF IsGraph
<1>6. p \in Partition
  <2>1. CASE t = "node"
    BY <1>5, <2>1, OwnerAssumption DEF Keeper
  <2>2. CASE t = "edge"
    <3>1. g.edge[id].src \in NodeId
      BY <1>3, <1>4, <2>2 DEF IsGraph, EdgeRow
    <3>2. QED  BY <2>2, <3>1, OwnerAssumption DEF Keeper
  <2>3. QED  BY <2>1, <2>2
<1>7. id \in Ids(NodeId) \/ id \in Ids(EdgeId)
  BY <1>2, <1>5 DEF Ids
<1>8. Answered(id, p)
  <2>1. CASE t = "node"
    BY <1>1, <1>2, <1>5, <2>1 DEF NothingMissed, Keeper, Ids
  <2>2. CASE t = "edge"
    BY <1>1, <1>2, <1>5, <1>6, <2>2 DEF NothingMissed, Ids
  <2>3. QED  BY <2>1, <2>2
<1>9. id \in Fetched
  <2>1. ASSUME NEW h \in seen[route[p]] PROVE id \in Held(p, h)
    <3>1. h \in AllSeen
      BY <1>1, <1>6, <2>1, RouteServes DEF AllSeen
    <3>2. id \in DOMAIN h[t] /\ h[t][id] = g[t][id]
      BY <3>1
    <3>3. CASE t = "node"
      BY <3>2, <3>3 DEF Held, Owned, Keeper
    <3>4. CASE t = "edge"
      BY <3>2, <3>4 DEF Held, EdgeRecords, Keeper
    <3>5. QED  BY <3>3, <3>4
  <2>2. QED  BY <1>8, <2>1 DEF Answered
<1>10. PICK h \in records : h[1] = id
  BY <1>9 DEF Fetched
<1>11. h = <<h[1], h[2]>>
  BY <1>1 DEF FetchedOnce
<1>12. PICK f \in AllSeen : \/ id \in DOMAIN f.node /\ h[2] = Wire(f.node[id].props)
                            \/ id \in DOMAIN f.edge /\ h[2] = Wire(f.edge[id].props)
  BY <1>1, <1>10 DEF FetchedOnce, Genuine
<1>13. IsGraph(f)
  BY <1>1, <1>12, ResultAssumption DEF Served, AllSeen
<1>14. h[2] = Wire(f[t][id].props)
  <2>1. CASE t = "node"
    BY <1>5, <1>12, <1>13, <2>1, DataAssumption DEF IsGraph
  <2>2. CASE t = "edge"
    BY <1>5, <1>12, <1>13, <2>2, DataAssumption DEF IsGraph
  <2>3. QED  BY <2>1, <2>2
<1>15. f[t][id] = g[t][id]
  OBVIOUS
<1>16. QED  BY <1>10, <1>11, <1>14, <1>15

\* What no swap touched is fetched, in whatever order the RPCs run, unless
\* nobody serves its partition (service.rs:175-229).
THEOREM UntouchedAreFetched == Spec => []UntouchedRecordsAreFetched
  BY HydrationInvariant, UntouchedOf, PTL

----------------------------------------------------------------------------
(* The order the rows are sent in.                                         *)

LEMMA KeyType ==
  ASSUME NEW b
  PROVE  Key(b) \in Value \cup {NoKey}
  BY DEF Key

\* Rows compare as a weak order does, whatever the direction.
LEMMA BeforeOrder ==
  ASSUME NEW b, NEW c, NEW d
  PROVE  /\ Before(b, c) => ~ Before(c, b)
         /\ Before(b, d) => Before(b, c) \/ Before(c, d)
<1>1. /\ Key(b) \in Value \cup {NoKey} /\ Key(c) \in Value \cup {NoKey}
      /\ Key(d) \in Value \cup {NoKey}
      /\ NoKey \notin Value /\ \A v \in Value : v \in Int
  BY KeyType, ResultAssumption, DataAssumption
<1>2. ASSUME NEW i \in Value \cup {NoKey}, NEW j \in Value \cup {NoKey},
             NEW k \in Value \cup {NoKey}
      PROVE  /\ Less(i, j) => ~ Less(j, i)
             /\ Less(i, k) => Less(i, j) \/ Less(j, k)
  BY <1>1 DEF Less
<1>3. QED  BY <1>1, <1>2 DEF Before

\* Stability makes it a total order of the places.
LEMMA AheadOrder ==
  ASSUME NEW D \in SUBSET Nat
  PROVE  /\ \A j \in D : ~ Ahead(j, j)
         /\ \A j, k \in D : j # k => Ahead(j, k) \/ Ahead(k, j)
         /\ \A j, k \in D : Ahead(j, k) => ~ Ahead(k, j) /\ ~ Before(bindings[k], bindings[j])
         /\ \A i, j, k \in D : Ahead(i, j) /\ Ahead(j, k) => Ahead(i, k)
<1> DEFINE Bef(j, k) == Before(bindings[j], bindings[k])
<1>1. \A i, j, k \in D : (Bef(i, j) => ~ Bef(j, i)) /\ (Bef(i, k) => Bef(i, j) \/ Bef(j, k))
  BY BeforeOrder
<1>2. \A j, k : Ahead(j, k) <=> Bef(j, k) \/ (j < k /\ ~ Bef(k, j))
  BY DEF Ahead
<1> HIDE DEF Bef
<1>3. \A i, j, k \in D : (i < j /\ j < k => i < k) /\ (i < j \/ j < i \/ i = j) /\ ~ (i < j /\ j < i)
  OBVIOUS
<1>4. \A j \in D : ~ Ahead(j, j)
  BY <1>1, <1>2, <1>3
<1>5. \A j, k \in D : j # k => Ahead(j, k) \/ Ahead(k, j)
  BY <1>1, <1>2, <1>3
<1>6. \A j, k \in D : Ahead(j, k) => ~ Bef(k, j)
  BY <1>1, <1>2
<1>7. \A j, k \in D : Ahead(j, k) => ~ Ahead(k, j)
  BY <1>2, <1>3, <1>6
<1>8. ASSUME NEW i \in D, NEW j \in D, NEW k \in D, Ahead(i, j), Ahead(j, k)
      PROVE  Ahead(i, k)
  <2>1. ~ Bef(j, i) /\ ~ Bef(k, j)
    BY <1>6, <1>8
  <2>2. ~ Bef(k, i)
    BY <1>1, <2>1
  <2>3. CASE Bef(i, j) \/ Bef(j, k)
    <3>1. Bef(i, k)
      BY <1>1, <2>1, <2>3
    <3>2. QED  BY <1>2, <3>1
  <2>4. CASE i < j /\ j < k
    BY <1>2, <1>3, <2>2, <2>4
  <2>5. QED  BY <1>2, <1>8, <2>3, <2>4
<1>9. QED  BY <1>4, <1>5, <1>6, <1>7, <1>8 DEF Bef

LEMMA PlacesAreRanks ==
  ASSUME NEW n \in Nat, DOMAIN bindings = 1 .. n
  PROVE  /\ \A k \in 1 .. n : Place(k) \in 1 .. n
         /\ \A j, k \in 1 .. n : Ahead(j, k) => Place(j) < Place(k)
         /\ \A i \in 1 .. n : \E k \in 1 .. n : Place(k) = i
<1> DEFINE D == 1 .. n
           ahead(k) == {j \in D : Ahead(j, k)}
<1>1. D \in SUBSET Nat /\ IsFiniteSet(D) /\ Cardinality(D) = n
  BY FS_Interval
<1>2. \A k : Place(k) = Cardinality(ahead(k)) + 1
  BY DEF Place
<1>3. \A j \in D : ~ Ahead(j, j)
  BY <1>1, AheadOrder
<1>4. \A i, j, k \in D : Ahead(i, j) /\ Ahead(j, k) => Ahead(i, k)
  BY <1>1, AheadOrder
<1>5. \A j, k \in D : j # k => Ahead(j, k) \/ Ahead(k, j)
  BY <1>1, AheadOrder
<1> HIDE DEF D
<1>6. ASSUME NEW k \in D
      PROVE  /\ IsFiniteSet(ahead(k)) /\ Cardinality(ahead(k)) \in Nat /\ Cardinality(ahead(k)) < n
  <2>1. ahead(k) \in SUBSET D /\ ahead(k) # D
    BY <1>3
  <2> HIDE DEF ahead
  <2>2. /\ IsFiniteSet(ahead(k)) /\ Cardinality(ahead(k)) <= n
        /\ Cardinality(ahead(k)) # n
    BY <1>1, <2>1, FS_Subset
  <2>3. Cardinality(ahead(k)) \in Nat
    BY <2>2, FS_CardinalityType
  <2>4. QED  BY <2>2, <2>3
<1>7. ASSUME NEW k \in D PROVE Place(k) \in D
  <2> DEFINE c == Cardinality(ahead(k))
  <2>1. c \in Nat /\ c < n /\ Place(k) = c + 1
    BY <1>2, <1>6
  <2> HIDE DEF c
  <2>2. QED  BY <2>1 DEF D
<1>8. ASSUME NEW j \in D, NEW k \in D, Ahead(j, k) PROVE Place(j) < Place(k)
  <2>1. ahead(j) \in SUBSET ahead(k) /\ ahead(j) # ahead(k)
    BY <1>3, <1>4, <1>8
  <2>2. IsFiniteSet(ahead(k)) /\ Cardinality(ahead(j)) \in Nat /\ Cardinality(ahead(k)) \in Nat
    BY <1>6
  <2> HIDE DEF ahead
  <2>3. Cardinality(ahead(j)) <= Cardinality(ahead(k)) /\ Cardinality(ahead(j)) # Cardinality(ahead(k))
    BY <2>1, <2>2, FS_Subset
  <2>4. QED  BY <1>2, <2>2, <2>3
<1>9. ASSUME NEW i \in D PROVE \E k \in D : Place(k) = i
  <2> DEFINE f == [k \in D |-> Place(k)]
  <2>1. \A j, k \in D : Place(j) = Place(k) => j = k
    <3>1. \A k \in D : Place(k) \in Nat
      BY <1>1, <1>7
    <3>2. QED  BY <1>5, <1>8, <3>1
  <2>2. f \in Injection(D, D)
    BY <1>7, <2>1 DEF Injection, IsInjective
  <2>3. f \in Surjection(D, D)
    BY <1>1, <2>2, FS_Injection
  <2>4. QED  BY <2>3 DEF Surjection
<1>10. QED  BY <1>7, <1>8, <1>9 DEF D

\* The rows sorted are the rows, and none comes after one it precedes.
LEMMA SortedRowsAre ==
  ASSUME Served, phase # "done"
  PROVE  /\ SortedRows \in SetToSeqs(matched)
         /\ \A i, j \in DOMAIN SortedRows : i < j => ~ Before(SortedRows[j], SortedRows[i])
<1> DEFINE n == Cardinality(matched)
           at(i) == CHOOSE k \in 1 .. n : Place(k) = i
<1>1. /\ n \in Nat /\ bindings \in [1 .. n -> matched] /\ DOMAIN bindings = 1 .. n
      /\ IsInjective(bindings)
  BY MatchedRows, ListedOnce DEF Served
<1> HIDE DEF n
<1>2. \A i \in 1 .. n : at(i) \in 1 .. n /\ Place(at(i)) = i
  BY <1>1, PlacesAreRanks
<1>3. SortedRows = [i \in 1 .. n |-> bindings[at(i)]]
  BY <1>1 DEF SortedRows
<1> HIDE DEF at
<1>4. SortedRows \in [1 .. n -> matched]
  BY <1>1, <1>2, <1>3
<1>5. \A i, j \in 1 .. n : i # j => SortedRows[i] # SortedRows[j]
  BY <1>1, <1>2, <1>3 DEF IsInjective
<1>6. ASSUME NEW i \in 1 .. n, NEW j \in 1 .. n, i < j
      PROVE  ~ Before(SortedRows[j], SortedRows[i])
  <2>0. /\ \A a, b \in 1 .. n : Ahead(a, b) => Place(a) < Place(b)
        /\ 1 .. n \in SUBSET Nat
    BY <1>1, PlacesAreRanks
  <2>01. /\ \A a, b \in 1 .. n : a # b => Ahead(a, b) \/ Ahead(b, a)
         /\ \A a, b \in 1 .. n : Ahead(a, b) => ~ Before(bindings[b], bindings[a])
    BY <2>0, AheadOrder
  <2> DEFINE x == at(i)
             y == at(j)
  <2>1. x \in 1 .. n /\ y \in 1 .. n /\ Place(x) = i /\ Place(y) = j
    BY <1>2
  <2>2. SortedRows[i] = bindings[x] /\ SortedRows[j] = bindings[y]
    BY <1>3
  <2> HIDE DEF x, y
  <2>3. ~ Ahead(y, x) /\ x # y
    BY <1>6, <2>0, <2>1
  <2>4. ~ Before(bindings[y], bindings[x])
    BY <2>01, <2>1, <2>3
  <2>5. QED  BY <2>2, <2>4
<1>7. SortedRows \in SetToSeqs(matched)
  BY <1>4, <1>5 DEF SetToSeqs, n
<1>8. QED  BY <1>4, <1>6, <1>7

LEMMA TruncatedRows ==
  ASSUME Served, NEW rows \in SetToSeqs(matched)
  PROVE  /\ Truncated(rows) \in Seq(matched)
         /\ Len(Truncated(rows)) =
              IF query.limit = NoLimit \/ query.limit > Cardinality(matched)
              THEN Cardinality(matched) ELSE query.limit
         /\ Len(Truncated(rows)) <= Cardinality(matched)
         /\ \A i \in 1 .. Len(Truncated(rows)) : Truncated(rows)[i] = rows[i]
<1> DEFINE n == Cardinality(matched)
           limit == query.limit
<1>1. /\ n \in Nat /\ rows \in [1 .. n -> matched] /\ rows \in Seq(matched) /\ Len(rows) = n
  BY MatchedRows, ListedOnce
<1>2. limit \in Nat \cup {NoLimit} /\ NoLimit \notin Nat
  BY ResultAssumption DEF Served, ReturnClause
<1> HIDE DEF n, limit
<1>3. Truncated(rows) = IF limit = NoLimit \/ limit >= n THEN rows ELSE SubSeq(rows, 1, limit)
  BY <1>1 DEF Truncated, limit
<1>4. CASE limit = NoLimit \/ limit >= n
  <2>1. Truncated(rows) = rows
    BY <1>3, <1>4
  <2>2. n = IF limit = NoLimit \/ limit > n THEN n ELSE limit
    BY <1>1, <1>2, <1>4
  <2>3. QED  BY <1>1, <2>1, <2>2 DEF n, limit
<1>5. CASE ~ (limit = NoLimit \/ limit >= n)
  <2>1. limit \in Nat /\ limit < n /\ Truncated(rows) = SubSeq(rows, 1, limit)
    BY <1>1, <1>2, <1>3, <1>5
  <2>2. \A i \in 1 .. limit : rows[i] \in matched
    BY <1>1, <2>1
  <2>3. /\ SubSeq(rows, 1, limit) \in Seq(matched)
        /\ Len(SubSeq(rows, 1, limit)) = limit
        /\ \A i \in 1 .. limit : SubSeq(rows, 1, limit)[i] = rows[i]
    BY <2>1, <2>2, SubSeqProperties
  <2>4. limit = (IF limit = NoLimit \/ limit > n THEN n ELSE limit) /\ limit <= n
    BY <1>1, <1>5, <2>1
  <2>5. QED  BY <2>1, <2>3, <2>4 DEF n, limit
<1>6. QED  BY <1>4, <1>5

\* What is sent is cut from a listing of the rows that is in order.
Sent ==
  phase = "done" =>
    \E rows \in SetToSeqs(matched) :
      /\ bindings = Truncated(rows)
      /\ query.order # NoOrder =>
           \A i, j \in DOMAIN rows : i < j => ~ Before(rows[j], rows[i])

ResultInv == HydrationInv /\ Sent

LEMMA SentNext ==
  ASSUME HydrationInv, Sent, [Next]_vars
  PROVE  Sent'
<1>0. Served
  BY DEF HydrationInv
<1>1. CASE phase = "done"
  <2>1. /\ bindings' = bindings /\ matched' = matched /\ query' = query
        /\ records' = records
    BY <1>1 DEF Next, NodesRpc, EdgesRpc, EndNodes, Finish, RpcFails, Pending, Swap, vars
  <2>2. PICK rows \in SetToSeqs(matched) :
          /\ bindings = Truncated(rows)
          /\ query.order # NoOrder =>
               \A i, j \in DOMAIN rows : i < j => ~ Before(rows[j], rows[i])
    BY <1>1 DEF Sent
  <2>3. \A b, c : Before(b, c)' <=> Before(b, c)
    BY <2>1 DEF Before, Key, Less
  <2>4. bindings' = Truncated(rows)'
    BY <2>1, <2>2 DEF Truncated
  <2>5. QED  BY <2>1, <2>2, <2>3, <2>4 DEF Sent
<1>2. CASE Finish
  <2>1. /\ matched' = matched /\ query' = query /\ records' = records /\ phase # "done"
        /\ bindings' = Truncated(IF query.order = NoOrder THEN bindings ELSE SortedRows)
    BY <1>2 DEF Finish, cluster
  <2>2. PICK rows \in SetToSeqs(matched) :
          /\ bindings' = Truncated(rows)
          /\ query.order # NoOrder =>
               \A i, j \in DOMAIN rows : i < j => ~ Before(rows[j], rows[i])
    <3>1. CASE query.order = NoOrder
      BY <1>0, <2>1, <3>1 DEF Served
    <3>2. CASE query.order # NoOrder
      BY <1>0, <2>1, <3>2, SortedRowsAre
    <3>3. QED  BY <3>1, <3>2
  <2>3. \A b, c : Before(b, c)' <=> Before(b, c)
    BY <2>1 DEF Before, Key, Less
  <2>4. bindings' = Truncated(rows)'
    BY <2>1, <2>2 DEF Truncated
  <2>5. QED  BY <2>1, <2>2, <2>3, <2>4 DEF Sent
<1>3. CASE phase # "done" /\ ~ Finish
  <2>1. phase' # "done"
    BY <1>3 DEF Next, NodesRpc, EdgesRpc, EndNodes, RpcFails, Swap, vars
  <2>2. QED  BY <2>1 DEF Sent
<1>4. QED  BY <1>1, <1>2, <1>3

LEMMA ResultInvariant == Spec => []ResultInv
<1>1. Init => Sent
  BY DEF Init, Sent
<1>2. ResultInv /\ [Next]_vars => ResultInv'
  BY ServedNext, FetchedNext, MissedNext, SentNext DEF ResultInv, HydrationInv
<1>3. QED  BY <1>1, <1>2, HydrationInit, PTL DEF Spec, ResultInv

LEMMA TypeOf == ResultInv => TypeOK
<1> SUFFICES ASSUME ResultInv PROVE TypeOK
  OBVIOUS
<1>1. Served /\ FetchedOnce /\ Sent
  BY DEF ResultInv, HydrationInv
<1>2. bindings \in Seq(matched)
  <2>1. CASE phase = "done"
    BY <1>1, <2>1, TruncatedRows DEF Sent
  <2>2. CASE phase # "done"
    BY <1>1, <2>2, MatchedRows, ListedOnce DEF Served
  <2>3. QED  BY <2>1, <2>2
<1>3. matched \subseteq Binding
  BY <1>1, MatchedRows
<1>4. QED  BY <1>1, <1>2, <1>3 DEF TypeOK, Served, FetchedOnce

\* Type correctness: every record fetched is one the protocol can carry.
THEOREM TypeCorrect == Spec => []TypeOK
  BY ResultInvariant, TypeOf, PTL

LEMMA BestOf == ResultInv => BestFirst
<1> SUFFICES ASSUME ResultInv, phase = "done" PROVE
      /\ IsInjective(bindings)
      /\ Len(bindings) = IF query.limit = NoLimit \/ query.limit > Cardinality(matched)
                         THEN Cardinality(matched) ELSE query.limit
      /\ query.order # NoOrder =>
           \A i \in DOMAIN bindings :
             \A b \in matched \ ToSet(SubSeq(bindings, 1, i)) : ~ Before(b, bindings[i])
  BY DEF BestFirst
<1>1. Served /\ Sent
  BY DEF ResultInv, HydrationInv
<1>2. PICK rows \in SetToSeqs(matched) :
        /\ bindings = Truncated(rows)
        /\ query.order # NoOrder =>
             \A i, j \in DOMAIN rows : i < j => ~ Before(rows[j], rows[i])
  BY <1>1 DEF Sent
<1> DEFINE n == Cardinality(matched)
           m == Len(bindings)
<1>3. /\ n \in Nat /\ DOMAIN rows = 1 .. n /\ IsInjective(rows) /\ ToSet(rows) = matched
  BY <1>1, MatchedRows, ListedOnce
<1>4. /\ m \in Nat /\ m <= n /\ DOMAIN bindings = 1 .. m /\ bindings \in Seq(matched)
      /\ \A i \in 1 .. m : bindings[i] = rows[i]
  <2>1. bindings \in Seq(matched) /\ m <= n /\ \A i \in 1 .. m : bindings[i] = rows[i]
    BY <1>1, <1>2, TruncatedRows
  <2>2. m \in Nat /\ DOMAIN bindings = 1 .. m
    BY <2>1
  <2>3. QED  BY <2>1, <2>2
<1>5. m = IF query.limit = NoLimit \/ query.limit > n THEN n ELSE query.limit
  BY <1>1, <1>2, TruncatedRows
<1> HIDE DEF m, n
<1>6. IsInjective(bindings)
  BY <1>3, <1>4 DEF IsInjective
<1>7. ASSUME query.order # NoOrder, NEW i \in 1 .. m,
             NEW b \in matched \ ToSet(SubSeq(bindings, 1, i))
      PROVE  ~ Before(b, bindings[i])
  <2>1. PICK k \in 1 .. n : b = rows[k]
    BY <1>3 DEF ToSet
  <2>2. i < k
    <3>1. SUFFICES ASSUME k <= i PROVE FALSE
      BY <1>3, <1>4
    <3>2. \A j \in 1 .. i : bindings[j] \in matched
      BY <1>4
    <3>3. /\ SubSeq(bindings, 1, i) \in Seq(matched)
          /\ Len(SubSeq(bindings, 1, i)) = i
          /\ \A j \in 1 .. i : SubSeq(bindings, 1, i)[j] = bindings[j]
      BY <1>4, <3>2, SubSeqProperties
    <3>4. DOMAIN SubSeq(bindings, 1, i) = 1 .. i /\ k \in 1 .. i /\ k \in 1 .. m
      BY <1>3, <1>4, <3>1, <3>3
    <3>5. SubSeq(bindings, 1, i)[k] = b
      BY <1>4, <2>1, <3>3, <3>4
    <3>6. b \in ToSet(SubSeq(bindings, 1, i))
      BY <3>4, <3>5 DEF ToSet
    <3>7. QED  BY <1>7, <3>6
  <2>3. i \in 1 .. n /\ bindings[i] = rows[i]
    BY <1>3, <1>4
  <2>4. QED  BY <1>2, <1>3, <1>7, <2>1, <2>2, <2>3
<1>8. QED  BY <1>4, <1>5, <1>6, <1>7 DEF m, n

\* The rows sent are the best of all: as many as LIMIT allows, none twice, none
\* before one that the direction ranks ahead of it (service.rs:231-252).
THEOREM BestAreSent == Spec => []BestFirst
  BY ResultInvariant, BestOf, PTL

=============================================================================
