---------------------- MODULE QueryOverRebuilds_proofs ----------------------
(***************************************************************************)
(* Proofs about the execution of a plan.  First ScatterGather, where every *)
(* replica keeps its generation: its type invariant, that over closed      *)
(* graphs it implements GraphSearch, what its answers are, and that a hop  *)
(* asked for in one call walks inside its partition what the rounds walk.  *)
(*                                                                         *)
(* The refinement has three layers: what one partition's index answers is  *)
(* what the search gets from the nodes of that partition; so in the middle *)
(* of a phase the coordinator holds what the search gets from the nodes    *)
(* asked so far (IInv); and when no request is left those nodes may be     *)
(* replaced by every readable node, which is the search's own step.        *)
(*                                                                         *)
(* Then QueryOverRebuilds, for any placement and any order of the swaps:   *)
(* nothing in an answer is made up, and what all the generations seen      *)
(* agree on is found.                                                      *)
(*                                                                         *)
(* Nothing made up: what was once true of a generation stays in the past,  *)
(* so what a binding owes to the steps behind it survives every swap       *)
(* (Grows); an RPC adds what it read from the generation its replica       *)
(* serves, which is one of those seen; and a binding that is extended      *)
(* keeps the aliases the steps behind it speak of, because no plan binds   *)
(* an alias twice.                                                         *)
(*                                                                         *)
(* All found (Found): for every walk over the shared rows the coordinator  *)
(* has the binding as far as its rounds went along that walk.  A swap can  *)
(* only take rows out of the shared ones, and so only lowers what is owed. *)
(*                                                                         *)
(* Last, over finite graphs every step leaves less of the query to do      *)
(* (NextFalls): no query runs for ever.                                    *)
(***************************************************************************)
EXTENDS QueryOverRebuilds, FiniteSetTheorems, TLAPS

----------------------------------------------------------------------------
(* What a plan, a graph and an index are made of.                          *)

LEMMA PlanTypes ==
  ASSUME NEW pl \in Plans
  PROVE  /\ Len(pl) \in Nat \ {0}
         /\ pl[1] \in StartStep \cup AllStep
         /\ \A i \in 1 .. Len(pl) :
              /\ pl[i].kind = "hop" => pl[i] \in HopStep
              /\ i > 1 /\ pl[i].kind # "hop" => pl[i] \in AntiStep
<1>1. IsPlan(pl)
  BY ClusterAssumption
<1>2. pl \in Seq(PlanStep) /\ Len(pl) > 0 /\ Len(pl) \in Nat
  BY <1>1 DEF IsPlan
<1>3. ASSUME NEW i \in 1 .. Len(pl)
      PROVE  /\ pl[i].kind = "hop" => pl[i] \in HopStep
             /\ i > 1 /\ pl[i].kind # "hop" => pl[i] \in AntiStep
  <2>1. CASE i = 1
    BY <1>1, <2>1 DEF IsPlan, StartStep, AllStep
  <2>2. CASE i # 1
    <3>1. pl[i] \in HopStep \cup AntiStep
      BY <1>1, <1>2, <2>2 DEF IsPlan
    <3>2. QED  BY <3>1 DEF HopStep, AntiStep
  <2>3. QED  BY <2>1, <2>2
<1>4. QED  BY <1>1, <1>2, <1>3 DEF IsPlan

LEMMA GraphRows ==
  ASSUME NEW h, IsGraph(h)
  PROVE  /\ DOMAIN h.node \subseteq NodeId
         /\ DOMAIN h.edge \subseteq EdgeId
         /\ \A n \in DOMAIN h.node :
              h.node[n].label \in Label /\ h.node[n].props \in Props
         /\ \A e \in DOMAIN h.edge :
              /\ h.edge[e].src \in NodeId /\ h.edge[e].dst \in NodeId
              /\ h.edge[e].type \in EdgeType /\ h.edge[e].props \in Props
BY DEF IsGraph, NodeRow, EdgeRow

\* A resolving step answers with bindings.
LEMMA ResolveType ==
  ASSUME NEW h, IsGraph(h), NEW p, NEW s \in StartStep \cup AllStep
  PROVE  Resolve(Build(p, h), s) \subseteq Binding
<1>1. DOMAIN Build(p, h).node_records \subseteq NodeId
  BY GraphRows DEF Build, Owned
<1>2. ASSUME NEW n \in NodeId, NEW a \in Alias PROVE FromNode(a, n) \in Binding
  BY DEF FromNode, Binding
<1>3. s.to \in Alias
  BY DEF StartStep, AllStep
<1>4. QED
  BY <1>1, <1>2, <1>3 DEF Resolve, LookupEq

LEMMA ExtendType ==
  ASSUME NEW b \in Binding, NEW to, NEW n \in NodeId, NEW edge, NEW e \in EdgeId
  PROVE  Extend(b, to, n, edge, e) \in Binding
BY DEF Extend, Binding

\* The entries of an index, at a node it holds and at one it does not.
LEMMA NeighborsOfBuild ==
  ASSUME NEW h, NEW p, NEW n, NEW dir \in Direction
  PROVE  Neighbors(Build(p, h), n, dir) =
           {Entry(p, h, e, dir) :
              e \in {f \in DOMAIN h.edge :
                       n \in Owned(p, h) /\ Near(h.edge[f], dir) = n}}
<1>1. Build(p, h).adjacency[dir] = BuildCsr(p, h, dir)
  BY DEF Build
<1>2. DOMAIN BuildCsr(p, h, dir) = Owned(p, h)
  BY DEF BuildCsr
<1>3. CASE n \in Owned(p, h)
  BY <1>1, <1>2, <1>3 DEF Neighbors, BuildCsr
<1>4. CASE n \notin Owned(p, h)
  BY <1>1, <1>2, <1>4 DEF Neighbors
<1>5. QED  BY <1>3, <1>4

\* One hop answers with bindings.
LEMMA ExpandType ==
  ASSUME NEW h, IsGraph(h), NEW p, NEW s \in HopStep,
         NEW from, NEW edge, NEW b \in Binding
  PROVE  ExpandHop(Build(p, h), s, from, edge, b) \subseteq Binding
<1>1. s.dir \in Direction
  BY DEF HopStep
<1>2. ASSUME NEW e \in DOMAIN h.edge
      PROVE  Far(h.edge[e], s.dir) \in NodeId /\ e \in EdgeId
  BY GraphRows DEF Far
<1>3. ASSUME NEW x \in Neighbors(Build(p, h), b[from], s.dir)
      PROVE  /\ x.edge \in EdgeId
             /\ x.dst_local \cup x.dst_remote \subseteq NodeId
  BY <1>1, <1>2, NeighborsOfBuild DEF Entry
<1>4. QED
  BY <1>3, ExtendType DEF ExpandHop

\* Hydration answers with ids and properties.
LEMMA HydrateType ==
  ASSUME NEW h, IsGraph(h), NEW p, NEW ids
  PROVE  /\ NodeProperties(Build(p, h), ids) \subseteq (NodeId \cup EdgeId) \X Props
         /\ EdgeProperties(Build(p, h), ids) \subseteq (NodeId \cup EdgeId) \X Props
<1>1. /\ DOMAIN Build(p, h).node_records = Owned(p, h)
      /\ \A n \in Owned(p, h) : Build(p, h).node_records[n] = h.node[n]
  BY DEF Build
<1>2. /\ DOMAIN Build(p, h).edge_records = EdgeRecords(p, h)
      /\ \A e \in EdgeRecords(p, h) : Build(p, h).edge_records[e] = h.edge[e].props
  BY DEF Build
<1>3. Owned(p, h) \subseteq DOMAIN h.node /\ EdgeRecords(p, h) \subseteq DOMAIN h.edge
  BY DEF Owned, EdgeRecords
<1>4. ASSUME NEW props \in Props PROVE Wire(props) \in Props
  BY DEF Wire, Props
<1>5. QED
  BY <1>1, <1>2, <1>3, <1>4, GraphRows DEF NodeProperties, EdgeProperties

----------------------------------------------------------------------------
(* Type correctness.                                                       *)

TypeInv == TypeOK /\ PhaseFitsStep

\* A request names a partition and, for NOT EXISTS, its resolved conditions.
LEMMA RequestTypes ==
  ASSUME TypeInv
  PROVE  Requests \subseteq [to : Partition, conditions : SUBSET Filter]
<1>1. ASSUME NEW p \in Partition
      PROVE  Plain(p) \in [to : Partition, conditions : SUBSET Filter]
  BY DEF Plain, Request
<1>2. CASE phase = "anti"
  <2>1. step \in AntiStep
    BY <1>2 DEF TypeInv, PhaseFitsStep
  <2>2. step.literal \subseteq Filter /\ step.outer \subseteq OuterCondition
    BY <2>1 DEF AntiStep
  <2>3. ASSUME NEW b PROVE Conditions(b) \subseteq Filter
    BY <2>2 DEF Conditions, OuterCondition, Filter
  <2>4. Requests = UNION {{Request(p, Conditions(b)) :
                     b \in {y \in OwnedBy(p, step.from, current) : Resolved(y)}} :
                   p \in Partition}
    BY <1>2 DEF Requests
  <2>5. QED  BY <2>3, <2>4 DEF Request
<1>3. CASE phase # "anti"
  <2>1. Requests \subseteq {Plain(p) : p \in Partition}
    BY <1>3 DEF Requests
  <2>2. QED  BY <1>1, <2>1
<1>4. QED  BY <1>2, <1>3

LEMMA SettleType ==
  ASSUME TypeInv, NEW q, Settle(q)
  PROVE  asked' \subseteq [to : Partition, conditions : SUBSET Filter]
BY RequestTypes DEF Settle, Pending, TypeInv, TypeOK

LEMMA ServedType ==
  ASSUME TypeInv, NEW p \in Partition, Routed(p)
  PROVE  IsGraph(served[route[p]])
BY ClusterAssumption DEF TypeInv, TypeOK, Routed

LEMMA ResolveRpcType ==
  ASSUME TypeInv, NEW p \in Partition, ResolveRpc(p)
  PROVE  TypeInv'
<1>1. step \in StartStep \cup AllStep
  BY PlanTypes DEF TypeInv, TypeOK, PhaseFitsStep, step, ResolveRpc
<1>2. next' \subseteq Binding
  BY <1>1, ServedType, ResolveType DEF ResolveRpc, Idx, TypeInv, TypeOK
<1>3. asked' \subseteq [to : Partition, conditions : SUBSET Filter]
  BY SettleType DEF ResolveRpc
<1>4. QED
  BY <1>2, <1>3 DEF TypeInv, TypeOK, PhaseFitsStep, step, ResolveRpc, env

LEMMA ExpandRpcType ==
  ASSUME TypeInv, NEW p \in Partition, ExpandRpc(p)
  PROVE  TypeInv'
<1>1. step \in HopStep
  BY DEF TypeInv, TypeOK, PhaseFitsStep, step, ExpandRpc
<1>2. ASSUME NEW b \in OwnedBy(p, Cursor, current), Routed(p)
      PROVE  ExpandHop(Idx(p), step, Cursor, EdgeAlias, b) \subseteq Binding
  <2>1. b \in Binding
    BY DEF OwnedBy, TypeInv, TypeOK
  <2>2. QED  BY <1>1, <1>2, <2>1, ServedType, ExpandType DEF Idx
<1>3. next' \subseteq Binding
  BY <1>2 DEF ExpandRpc, TypeInv, TypeOK
<1>4. asked' \subseteq [to : Partition, conditions : SUBSET Filter]
  BY SettleType DEF ExpandRpc
<1>5. QED
  BY <1>3, <1>4 DEF TypeInv, TypeOK, PhaseFitsStep, step, ExpandRpc, env

\* The three hydrating RPCs differ in the ids they ask for.
LEMMA HydrateRpcType ==
  ASSUME TypeInv, NEW p \in Partition,
         FilterRpc(p) \/ OuterNodesRpc(p) \/ OuterEdgesRpc(p)
  PROVE  TypeInv'
<1>1. ASSUME NEW ids, Routed(p)
      PROVE  /\ NodeProperties(Idx(p), ids) \subseteq (NodeId \cup EdgeId) \X Props
             /\ EdgeProperties(Idx(p), ids) \subseteq (NodeId \cup EdgeId) \X Props
  BY <1>1, ServedType, HydrateType DEF Idx
<1>2. hydrated' \subseteq (NodeId \cup EdgeId) \X Props
  BY <1>1 DEF FilterRpc, OuterNodesRpc, OuterEdgesRpc, TypeInv, TypeOK
<1>3. asked' \subseteq [to : Partition, conditions : SUBSET Filter]
  BY SettleType DEF FilterRpc, OuterNodesRpc, OuterEdgesRpc
<1>4. QED
  BY <1>2, <1>3
  DEF TypeInv, TypeOK, PhaseFitsStep, step, FilterRpc, OuterNodesRpc, OuterEdgesRpc, env

LEMMA AntiJoinRpcType ==
  ASSUME TypeInv, NEW q \in Pending, AntiJoinRpc(q)
  PROVE  TypeInv'
<1>1. next' \subseteq Binding
  BY DEF AntiJoinRpc, OwnedBy, TypeInv, TypeOK
<1>2. asked' \subseteq [to : Partition, conditions : SUBSET Filter]
  BY SettleType DEF AntiJoinRpc
<1>3. QED
  BY <1>1, <1>2 DEF TypeInv, TypeOK, PhaseFitsStep, step, AntiJoinRpc, env

LEMMA EnterType ==
  ASSUME TypeInv, NEW i \in 2 .. Len(plan) + 1, NEW B \in SUBSET Binding, Enter(i, B)
  PROVE  TypeInv'
<1>1. plan \in Plans /\ plan' = plan
  BY DEF TypeInv, TypeOK, Enter, env
<1>2. /\ Len(plan) \in Nat
      /\ \A j \in 1 .. Len(plan) :
           /\ plan[j].kind = "hop" => plan[j] \in HopStep
           /\ j > 1 /\ plan[j].kind # "hop" => plan[j] \in AntiStep
  BY <1>1, PlanTypes
<1>3. PhaseFitsStep'
  BY <1>1, <1>2 DEF PhaseFitsStep, step, Enter
<1>4. TypeOK'
  BY <1>1, <1>2 DEF TypeInv, TypeOK, Enter, env
<1>5. QED  BY <1>3, <1>4 DEF TypeInv

LEMMA EndPhaseType ==
  ASSUME TypeInv, EndPhase
  PROVE  TypeInv'
<1>0. /\ plan \in Plans /\ Len(plan) \in Nat \ {0} /\ pos \in 1 .. Len(plan) + 1
      /\ current \in SUBSET Binding /\ next \in SUBSET Binding
      /\ accepted \in SUBSET Binding /\ depth \in Nat \ {0}
  BY PlanTypes DEF TypeInv, TypeOK
<1>1. CASE EndResolve
  BY <1>0, <1>1, EnterType DEF EndResolve
<1>2. CASE EndRound
  BY <1>0, <1>2 DEF EndRound, Continue, TypeInv, TypeOK, PhaseFitsStep, step, env
<1>3. CASE EndHop
  BY <1>0, <1>3, EnterType DEF EndHop, HopOver, TypeInv, PhaseFitsStep
<1>4. CASE BeginFilter
  BY <1>0, <1>4
  DEF BeginFilter, HopOver, Continue, TypeInv, TypeOK, PhaseFitsStep, step, env
<1>5. CASE EndFilter
  <2>1. {b \in current : Passes(b)} \in SUBSET Binding
    BY <1>0
  <2>2. pos + 1 \in 2 .. Len(plan) + 1
    BY <1>0, <1>5 DEF EndFilter, TypeInv, PhaseFitsStep
  <2>3. QED  BY <1>5, <2>1, <2>2, EnterType DEF EndFilter
<1>6. CASE EndOuterNodes
  BY <1>0, <1>6 DEF EndOuterNodes, Continue, TypeInv, TypeOK, PhaseFitsStep, step, env
<1>7. CASE EndOuterEdges
  BY <1>0, <1>7 DEF EndOuterEdges, Continue, TypeInv, TypeOK, PhaseFitsStep, step, env
<1>8. CASE EndAntiJoin
  BY <1>0, <1>8, EnterType DEF EndAntiJoin, TypeInv, PhaseFitsStep
<1>9. QED
  BY <1>1, <1>2, <1>3, <1>4, <1>5, <1>6, <1>7, <1>8 DEF EndPhase

LEMMA InitType == Init => TypeInv
<1> SUFFICES ASSUME Init PROVE TypeInv
  OBVIOUS
<1>1. plan \in Plans /\ Len(plan) \in Nat \ {0}
  BY PlanTypes DEF Init
<1>2. served \in [Replica -> Graphs]
  BY DEF Init
<1>3. QED
  BY <1>1, <1>2 DEF Init, TypeInv, TypeOK, PhaseFitsStep

LEMMA NextType == TypeInv /\ [Next]_vars => TypeInv'
<1> SUFFICES ASSUME TypeInv, [Next]_vars PROVE TypeInv'
  OBVIOUS
<1>1. CASE Rpc
  BY <1>1, ResolveRpcType, ExpandRpcType, HydrateRpcType, AntiJoinRpcType DEF Rpc
<1>2. CASE EndPhase
  BY <1>2, EndPhaseType
<1>3. CASE RpcFails
  BY <1>3 DEF RpcFails, TypeInv, TypeOK, PhaseFitsStep, step, env
<1>4. CASE UNCHANGED vars
  BY <1>4 DEF vars, TypeInv, TypeOK, PhaseFitsStep, step
<1>5. QED  BY <1>1, <1>2, <1>3, <1>4 DEF Next

\* Every state of the execution is well formed: whatever the plans, the graphs
\* and the placement, a phase only ever works on a step of its own kind and
\* only ever holds bindings of node and edge ids.
THEOREM TypeCorrect == Spec => []TypeOK
<1>1. TypeInv => TypeOK
  BY DEF TypeInv
<1>2. QED  BY <1>1, InitType, NextType, PTL DEF Spec

----------------------------------------------------------------------------
(* The refinement.                                                         *)

\* The nodes of one partition.
Slice(p) == {n \in NodeId : Owner[n] = p}

----------------------------------------------------------------------------
(* One partition's answers.                                                *)

\* A partition resolves exactly its own nodes.
LEMMA ResolveSlice ==
  ASSUME NEW h, IsGraph(h), NEW p, NEW s \in StartStep \cup AllStep
  PROVE  Resolve(Build(p, h), s) = Search!Starts(h, Slice(p), s)
<1>1. /\ DOMAIN Build(p, h).node_records = Owned(p, h)
      /\ \A n \in Owned(p, h) : Build(p, h).node_records[n] = h.node[n]
  BY DEF Build
<1>2. Owned(p, h) = DOMAIN h.node \cap Slice(p)
  BY GraphRows DEF Owned, Slice
<1>3. ASSUME NEW a, NEW n PROVE FromNode(a, n) = Search!FromNode(a, n)
  BY DEF FromNode, Search!FromNode
<1>4. CASE s.kind = "start"
  <2>1. Resolve(Build(p, h), s) =
          {FromNode(s.to, n) : n \in {m \in Owned(p, h) :
             /\ <<s.label, s.prop>> \in Indexed
             /\ h.node[m].label = s.label
             /\ h.node[m].props[s.prop] = s.key}}
    BY <1>1, <1>4 DEF Resolve, LookupEq
  <2>2. QED  BY <1>2, <1>3, <1>4, <2>1 DEF Search!Starts, Search!Selects
<1>5. CASE s.kind # "start"
  <2>1. Resolve(Build(p, h), s) =
          {FromNode(s.to, n) : n \in {m \in Owned(p, h) : h.node[m].label = s.label}}
    BY <1>1, <1>5 DEF Resolve
  <2>2. QED  BY <1>2, <1>3, <1>5, <2>1 DEF Search!Starts, Search!Selects
<1>6. QED  BY <1>4, <1>5

\* In a closed graph every edge that leaves a node of the partition has one
\* entry there, and the entry names its far end.
LEMMA ExitsOfSlice ==
  ASSUME NEW h, IsGraph(h), Closed(h), NEW p, NEW n \in Slice(p),
         NEW dir \in Direction
  PROVE  /\ Neighbors(Build(p, h), n, dir) =
              {Entry(p, h, e, dir) :
                 e \in {f \in DOMAIN h.edge : Near(h.edge[f], dir) = n}}
         /\ \A e \in DOMAIN h.edge :
              LET x == Entry(p, h, e, dir) IN
              /\ x.dst_local \cup x.dst_remote = {Far(h.edge[e], dir)}
              /\ x.edge = e /\ x.type = h.edge[e].type
<1>1. ASSUME NEW e \in DOMAIN h.edge
      PROVE  /\ Near(h.edge[e], dir) \in DOMAIN h.node
             /\ Far(h.edge[e], dir) \in DOMAIN h.node
  BY DEF Closed, Near, Far
<1>2. ASSUME NEW e \in DOMAIN h.edge, Near(h.edge[e], dir) = n
      PROVE  n \in Owned(p, h)
  BY <1>1, <1>2 DEF Owned, Slice
<1>3. ASSUME NEW e \in DOMAIN h.edge
      PROVE  LET x == Entry(p, h, e, dir) IN
             /\ x.dst_local \cup x.dst_remote = {Far(h.edge[e], dir)}
             /\ x.edge = e /\ x.type = h.edge[e].type
  BY <1>1, <1>3 DEF Entry, Owned
<1>4. {f \in DOMAIN h.edge : n \in Owned(p, h) /\ Near(h.edge[f], dir) = n}
        = {f \in DOMAIN h.edge : Near(h.edge[f], dir) = n}
  BY <1>2
<1>5. QED  BY <1>3, <1>4, NeighborsOfBuild

LEMMA SameHelpers ==
  /\ \A row, dir : Near(row, dir) = Search!Near(row, dir)
                   /\ Far(row, dir) = Search!Far(row, dir)
  /\ \A type, t : TypeMatches(type, t) = Search!TypeMatches(type, t)
  /\ \A b, to, n, edge, e : Extend(b, to, n, edge, e) = Search!Extend(b, to, n, edge, e)
  /\ \A props, fs : AllHold(props, fs) = Search!AllHold(props, fs)
BY DEF Near, Far, TypeMatches, Extend, AllHold, Holds, Search!Near, Search!Far,
       Search!TypeMatches, Search!Extend, Search!AllHold, Search!Holds

\* One binding's hop.
LEMMA ExpandSlice ==
  ASSUME NEW h, IsGraph(h), Closed(h), NEW p, NEW s \in HopStep,
         NEW from, NEW edge, NEW b, b[from] \in Slice(p)
  PROVE  ExpandHop(Build(p, h), s, from, edge, b) =
           {Search!Extend(b, s.to, Search!Far(h.edge[e], s.dir), edge, e) :
              e \in Search!Exits(h, Slice(p), s, b[from])}
<1>1. s.dir \in Direction
  BY DEF HopStep
<1> DEFINE N == Neighbors(Build(p, h), b[from], s.dir)
           X == {f \in DOMAIN h.edge : Near(h.edge[f], s.dir) = b[from]}
<1>2. /\ N = {Entry(p, h, e, s.dir) : e \in X}
      /\ \A e \in DOMAIN h.edge :
           LET x == Entry(p, h, e, s.dir) IN
           /\ x.dst_local \cup x.dst_remote = {Far(h.edge[e], s.dir)}
           /\ x.edge = e /\ x.type = h.edge[e].type
  BY <1>1, ExitsOfSlice
<1>3. Search!Exits(h, Slice(p), s, b[from]) =
        {e \in X : TypeMatches(s.type, h.edge[e].type)}
  BY SameHelpers DEF Search!Exits
<1> DEFINE E == {e \in X : TypeMatches(s.type, h.edge[e].type)}
<1>4. ExpandHop(Build(p, h), s, from, edge, b) =
        UNION {{Extend(b, s.to, n, edge, x.edge) : n \in x.dst_local \cup x.dst_remote} :
               x \in {y \in N : TypeMatches(s.type, y.type)}}
  BY DEF ExpandHop
<1>5. {y \in N : TypeMatches(s.type, y.type)} = {Entry(p, h, e, s.dir) : e \in E}
  BY <1>2
<1>6. ASSUME NEW e \in E
      PROVE  LET x == Entry(p, h, e, s.dir) IN
             {Extend(b, s.to, n, edge, x.edge) : n \in x.dst_local \cup x.dst_remote}
               = {Extend(b, s.to, Far(h.edge[e], s.dir), edge, e)}
  BY <1>2
<1>7. ExpandHop(Build(p, h), s, from, edge, b) =
        {Extend(b, s.to, Far(h.edge[e], s.dir), edge, e) : e \in E}
  <2> DEFINE f(x) == {Extend(b, s.to, n, edge, x.edge) : n \in x.dst_local \cup x.dst_remote}
  <2>1. ExpandHop(Build(p, h), s, from, edge, b) =
          UNION {f(x) : x \in {Entry(p, h, e, s.dir) : e \in E}}
    BY <1>4, <1>5, Zenon
  <2>2. \A e \in E : f(Entry(p, h, e, s.dir))
                       = {Extend(b, s.to, Far(h.edge[e], s.dir), edge, e)}
    BY <1>6, Zenon
  <2> HIDE DEF f, E
  <2>3. QED  BY <2>1, <2>2
<1>8. QED  BY <1>3, <1>7, SameHelpers

\* All the bindings a round sends to one partition.
LEMMA LevelSlice ==
  ASSUME NEW h, IsGraph(h), Closed(h), NEW p, NEW s \in HopStep, NEW d,
         NEW B
  PROVE  LET from == Search!Cursor(s, d)
             edge == Search!EdgeAlias(s, d)
         IN  UNION {ExpandHop(Build(p, h), s, from, edge, b) : b \in OwnedBy(p, from, B)}
               = Search!Level(h, Slice(p), s, d, B)
<1> DEFINE from == Search!Cursor(s, d)
           edge == Search!EdgeAlias(s, d)
           f(b) == {Search!Extend(b, s.to, Search!Far(h.edge[e], s.dir), edge, e) :
                      e \in Search!Exits(h, Slice(p), s, b[from])}
<1>1. OwnedBy(p, from, B) = {b \in B : b[from] \in Slice(p)}
  BY DEF OwnedBy, Slice
<1>2. \A b \in OwnedBy(p, from, B) :
        ExpandHop(Build(p, h), s, from, edge, b) = f(b)
  BY <1>1, ExpandSlice
<1>3. \A b \in B : b \notin OwnedBy(p, from, B) => f(b) = {}
  BY <1>1 DEF Search!Exits
<1>4. Search!Level(h, Slice(p), s, d, B) = UNION {f(b) : b \in B}
  BY Zenon DEF Search!Level
<1>5. OwnedBy(p, from, B) \subseteq B
  BY <1>1
<1> HIDE DEF f
<1>6. QED  BY <1>2, <1>3, <1>4, <1>5

\* A round over two sets of readable nodes is two rounds.
LEMMA LevelSplits ==
  ASSUME NEW h, NEW R1, NEW R2, NEW s, NEW d, NEW B
  PROVE  Search!Level(h, R1 \cup R2, s, d, B) =
           Search!Level(h, R1, s, d, B) \cup Search!Level(h, R2, s, d, B)
<1> DEFINE to(b, e) == Search!Extend(b, s.to, Search!Far(h.edge[e], s.dir),
                                    Search!EdgeAlias(s, d), e)
           E(R, b) == Search!Exits(h, R, s, b[Search!Cursor(s, d)])
           f(R, b) == {to(b, e) : e \in E(R, b)}
<1>1. ASSUME NEW R PROVE Search!Level(h, R, s, d, B) = UNION {f(R, b) : b \in B}
  BY Zenon DEF Search!Level
<1>2. ASSUME NEW b PROVE f(R1 \cup R2, b) = f(R1, b) \cup f(R2, b)
  <2>1. E(R1 \cup R2, b) = E(R1, b) \cup E(R2, b)
    BY DEF Search!Exits
  <2> HIDE DEF to, E
  <2>2. QED  BY <2>1
<1> HIDE DEF f
<1>3. UNION {f(R1 \cup R2, b) : b \in B} =
        (UNION {f(R1, b) : b \in B}) \cup (UNION {f(R2, b) : b \in B})
  <2> DEFINE F1(b) == f(R1, b)
             F2(b) == f(R2, b)
             F(b)  == f(R1 \cup R2, b)
  <2>1. \A b : F(b) = F1(b) \cup F2(b)
    BY <1>2, Zenon
  <2> HIDE DEF F1, F2, F
  <2>2. UNION {F(b) : b \in B} = (UNION {F1(b) : b \in B}) \cup (UNION {F2(b) : b \in B})
    BY <2>1
  <2>3. QED  BY <2>2, Zenon DEF F1, F2, F
<1>4. QED  BY <1>1, <1>3, Zenon

\* A round sees a node only if some binding of the frontier stands on it.
LEMMA LevelDepends ==
  ASSUME NEW h, NEW R1, NEW R2, NEW s, NEW d, NEW B,
         \A b \in B : b[Search!Cursor(s, d)] \in R1 <=> b[Search!Cursor(s, d)] \in R2
  PROVE  Search!Level(h, R1, s, d, B) = Search!Level(h, R2, s, d, B)
<1>1. \A b \in B : Search!Exits(h, R1, s, b[Search!Cursor(s, d)])
                     = Search!Exits(h, R2, s, b[Search!Cursor(s, d)])
  BY DEF Search!Exits
<1> DEFINE to(b, e) == Search!Extend(b, s.to, Search!Far(h.edge[e], s.dir),
                                    Search!EdgeAlias(s, d), e)
           E(R, b) == Search!Exits(h, R, s, b[Search!Cursor(s, d)])
<1>2. \A R : Search!Level(h, R, s, d, B) = UNION {{to(b, e) : e \in E(R, b)} : b \in B}
  BY Zenon DEF Search!Level
<1>3. \A b \in B : E(R1, b) = E(R2, b)
  BY <1>1
<1> HIDE DEF to, E
<1>4. QED  BY <1>2, <1>3

LEMMA StartsSplits ==
  ASSUME NEW h, NEW R1, NEW R2, NEW s
  PROVE  Search!Starts(h, R1 \cup R2, s) = Search!Starts(h, R1, s) \cup Search!Starts(h, R2, s)
<1> DEFINE S(R) == {m \in DOMAIN h.node \cap R : Search!Selects(h, s, m)}
           F(n) == Search!FromNode(s.to, n)
<1>1. ASSUME NEW R PROVE Search!Starts(h, R, s) = {F(n) : n \in S(R)}
  BY Zenon DEF Search!Starts
<1>2. S(R1 \cup R2) = S(R1) \cup S(R2)
  OBVIOUS
<1> HIDE DEF S, F
<1>3. {F(n) : n \in S(R1 \cup R2)} = {F(n) : n \in S(R1)} \cup {F(n) : n \in S(R2)}
  BY <1>2
<1>4. QED  BY <1>1, <1>3, Zenon

\* What the wire drops denotes no literal and satisfies no condition.
LEMMA WireKeepsLiterals ==
  ASSUME NEW props
  PROVE  /\ \A q \in Property :
              /\ Wire(props)[q] \in Value <=> props[q] \in Value
              /\ props[q] \in Value => Wire(props)[q] = props[q]
         /\ \A fs \in SUBSET Filter : AllHold(Wire(props), fs) <=> AllHold(props, fs)
<1>1. ASSUME NEW q \in Property
      PROVE  /\ Wire(props)[q] \in Value <=> props[q] \in Value
             /\ props[q] \in Value => Wire(props)[q] = props[q]
  BY DataAssumption DEF Wire
<1>2. ASSUME NEW f \in Filter PROVE Holds(Wire(props), f) <=> Holds(props, f)
  <2> DEFINE Test(v) == \/ f.op = "eq"  /\ v = f.val
                        \/ f.op = "ne"  /\ v # f.val
                        \/ f.op = "lt"  /\ v < f.val
                        \/ f.op = "lte" /\ v <= f.val
                        \/ f.op = "gt"  /\ v > f.val
                        \/ f.op = "gte" /\ v >= f.val
             stored == props[f.prop]
             sent == Wire(props)[f.prop]
  <2>1. /\ Holds(props, f) <=> stored \in Value /\ Test(stored)
        /\ Holds(Wire(props), f) <=> sent \in Value /\ Test(sent)
    BY Zenon DEF Holds
  <2>2. f.prop \in Property
    BY DEF Filter
  <2>3. (sent \in Value <=> stored \in Value) /\ (stored \in Value => sent = stored)
    BY <1>1, <2>2
  <2> HIDE DEF Test, stored, sent
  <2>4. QED  BY <2>1, <2>3
<1>3. ASSUME NEW fs \in SUBSET Filter
      PROVE  AllHold(Wire(props), fs) <=> AllHold(props, fs)
  BY <1>2, Zenon DEF AllHold
<1>4. QED  BY <1>1, <1>3

\* The properties of a node live in its partition, an edge's in its source's.
LEMMA HydrateSlice ==
  ASSUME NEW h, IsGraph(h), NEW p, NEW ids
  PROVE  /\ NodeProperties(Build(p, h), ids) =
              {<<id, Wire(Search!PropsOf(h, id))>> : id \in ids \cap DOMAIN h.node \cap Slice(p)}
         /\ EdgeProperties(Build(p, h), ids) =
              {<<id, Wire(Search!PropsOf(h, id))>> :
                 id \in ids \cap {e \in DOMAIN h.edge : h.edge[e].src \in Slice(p)}}
<1>1. /\ DOMAIN Build(p, h).node_records = Owned(p, h)
      /\ \A n \in Owned(p, h) : Build(p, h).node_records[n] = h.node[n]
  BY DEF Build
<1>2. /\ DOMAIN Build(p, h).edge_records = EdgeRecords(p, h)
      /\ \A e \in EdgeRecords(p, h) : Build(p, h).edge_records[e] = h.edge[e].props
  BY DEF Build
<1>3. /\ Owned(p, h) = DOMAIN h.node \cap Slice(p)
      /\ EdgeRecords(p, h) = {e \in DOMAIN h.edge : h.edge[e].src \in Slice(p)}
  BY GraphRows DEF Owned, EdgeRecords, Slice
<1>4. /\ \A n \in DOMAIN h.node : Search!PropsOf(h, n) = h.node[n].props
      /\ \A e \in DOMAIN h.edge : Search!PropsOf(h, e) = h.edge[e].props
  BY GraphRows, DataAssumption DEF Search!PropsOf
<1>5. NodeProperties(Build(p, h), ids) =
        {<<n, Wire(h.node[n].props)>> : n \in ids \cap Owned(p, h)}
  BY <1>1 DEF NodeProperties
<1>6. EdgeProperties(Build(p, h), ids) =
        {<<e, Wire(h.edge[e].props)>> : e \in ids \cap EdgeRecords(p, h)}
  BY <1>2 DEF EdgeProperties
<1>7. /\ ids \cap Owned(p, h) = ids \cap DOMAIN h.node \cap Slice(p)
      /\ \A n \in ids \cap Owned(p, h) : Search!PropsOf(h, n) = h.node[n].props
      /\ \A e \in ids \cap EdgeRecords(p, h) : Search!PropsOf(h, e) = h.edge[e].props
  BY <1>3, <1>4
<1>8. {<<n, Wire(h.node[n].props)>> : n \in ids \cap Owned(p, h)} =
        {<<id, Wire(Search!PropsOf(h, id))>> : id \in ids \cap DOMAIN h.node \cap Slice(p)}
  BY <1>7
<1>9. {<<e, Wire(h.edge[e].props)>> : e \in ids \cap EdgeRecords(p, h)} =
        {<<id, Wire(Search!PropsOf(h, id))>> : id \in ids \cap EdgeRecords(p, h)}
  BY <1>7
<1>10. QED  BY <1>3, <1>5, <1>6, <1>8, <1>9

\* A NOT EXISTS is decided where the edge's source lives: its edges and their
\* records are all there.
LEMMA SurvivesSlice ==
  ASSUME NEW h, IsGraph(h), Closed(h), NEW p, NEW s \in AntiStep, NEW conds,
         NEW b, b[s.from] \in Slice(p)
  PROVE  Survives(Build(p, h), s, conds, b) <=>
           \A e \in Search!Exits(h, Slice(p), s, b[s.from]) :
             Search!Far(h.edge[e], s.dir) = b[s.to]
               => ~ Search!AllHold(h.edge[e].props, conds)
<1>1. s.dir = "out" /\ s.dir \in Direction
  BY DEF AntiStep, Direction
<1> DEFINE N == Neighbors(Build(p, h), b[s.from], s.dir)
           X == {f \in DOMAIN h.edge : Near(h.edge[f], s.dir) = b[s.from]}
<1>2. /\ N = {Entry(p, h, e, s.dir) : e \in X}
      /\ \A e \in DOMAIN h.edge :
           LET x == Entry(p, h, e, s.dir) IN
           /\ x.dst_local \cup x.dst_remote = {Far(h.edge[e], s.dir)}
           /\ x.edge = e /\ x.type = h.edge[e].type
  BY <1>1, ExitsOfSlice
<1>3. /\ DOMAIN Build(p, h).edge_records = EdgeRecords(p, h)
      /\ \A e \in EdgeRecords(p, h) : Build(p, h).edge_records[e] = h.edge[e].props
  BY DEF Build
<1>4. X \subseteq EdgeRecords(p, h)
  BY <1>1 DEF EdgeRecords, Near, Slice
<1>5. Search!Exits(h, Slice(p), s, b[s.from]) =
        {e \in X : TypeMatches(s.type, h.edge[e].type)}
  BY SameHelpers DEF Search!Exits
<1>6. Survives(Build(p, h), s, conds, b) <=>
        ~ \E e \in X : /\ TypeMatches(s.type, h.edge[e].type)
                       /\ b[s.to] = Far(h.edge[e], s.dir)
                       /\ AllHold(h.edge[e].props, conds)
  <2>1. Survives(Build(p, h), s, conds, b) <=>
          ~ \E x \in N : /\ TypeMatches(s.type, x.type)
                         /\ b[s.to] \in x.dst_local \cup x.dst_remote
                         /\ x.edge \in EdgeRecords(p, h)
                         /\ AllHold(h.edge[x.edge].props, conds)
    BY <1>3 DEF Survives
  <2>2. QED  BY <1>2, <1>4, <2>1
<1>7. QED  BY <1>5, <1>6, SameHelpers

----------------------------------------------------------------------------
(* The state in the middle of a phase.                                     *)

LEMMA GraphFacts ==
  ASSUME GraphsClosed, IInv
  PROVE  /\ Graph \in Graphs /\ IsGraph(Graph) /\ Closed(Graph)
         /\ \A p \in Partition : Routed(p) => Idx(p) = Build(p, Graph)
<1>1. (CHOOSE r \in Replica : TRUE) \in Replica
  BY ClusterAssumption
<1>2. Graph \in Graphs
  BY <1>1 DEF Graph, IInv, TypeOK
<1>3. ASSUME NEW p \in Partition, Routed(p) PROVE Idx(p) = Build(p, Graph)
  <2>1. route[p] \in Replica
    BY <1>3 DEF IInv, TypeOK, Routed
  <2>2. QED  BY <1>3, <2>1 DEF Idx, IInv, Cluster
<1>4. QED  BY <1>2, <1>3, ClusterAssumption DEF GraphsClosed

\* Partition p's answer adds the nodes of p, when p is served, to those asked.
Added(p) == IF Routed(p) THEN Slice(p) ELSE {}

LEMMA AskedGrows ==
  ASSUME IInv, NEW p \in Partition, asked' = asked \cup {Plain(p)}, UNCHANGED env
  PROVE  AskedNodes' = AskedNodes \cup Added(p)
<1>1. Reach' = Reach
  BY DEF env, Reach, Routed
<1>2. \A n \in NodeId : Plain(Owner[n]) = Plain(p) <=> Owner[n] = p
  BY DEF Plain, Request
<1>3. AskedNodes' = {n \in Reach : Plain(Owner[n]) \in asked'}
  BY <1>1 DEF AskedNodes
<1>4. \A n \in NodeId : n \in Added(p) <=> n \in Reach /\ Owner[n] = p
  BY DEF Added, Slice, Reach
<1>5. Reach \subseteq NodeId /\ Added(p) \subseteq NodeId
  BY DEF Reach, Added, Slice
<1>6. QED  BY <1>2, <1>3, <1>4, <1>5 DEF AskedNodes

\* Nothing a query does touches the cluster.
LEMMA ClusterStays ==
  ASSUME IInv, UNCHANGED env
  PROVE  Graph' = Graph /\ Reach' = Reach /\ Cluster'
BY DEF env, Graph, Reach, Routed, IInv, Cluster

LEMMA ResolveRpcProgress ==
  ASSUME GraphsClosed, IInv, NEW p \in Partition, ResolveRpc(p)
  PROVE  Progress'
<1>1. step \in StartStep \cup AllStep
  BY PlanTypes DEF IInv, TypeOK, PhaseFitsStep, step, ResolveRpc
<1>2. AskedNodes' = AskedNodes \cup Added(p) /\ Graph' = Graph /\ step' = step
  BY AskedGrows, ClusterStays DEF ResolveRpc, Settle, env, step
<1>3. next' = next \cup Search!Starts(Graph, Added(p), step)
  <2>1. CASE Routed(p)
    BY <1>1, <2>1, GraphFacts, ResolveSlice DEF ResolveRpc, Added
  <2>2. CASE ~ Routed(p)
    BY <2>2 DEF ResolveRpc, Added, Search!Starts
  <2>3. QED  BY <2>1, <2>2
<1>4. next = Search!Starts(Graph, AskedNodes, step) /\ hydrated = {}
  BY DEF IInv, Progress, ResolveRpc
<1>5. next' = Search!Starts(Graph, AskedNodes', step)
  BY <1>2, <1>3, <1>4, StartsSplits
<1>6. next' = Search!Starts(Graph', AskedNodes', step')
  BY <1>2, <1>5
<1>7. QED
  BY <1>4, <1>6 DEF Progress, ResolveRpc

LEMMA ExpandRpcProgress ==
  ASSUME GraphsClosed, IInv, NEW p \in Partition, ExpandRpc(p)
  PROVE  Progress'
<1>1. step \in HopStep
  BY DEF IInv, PhaseFitsStep, ExpandRpc
<1>2. AskedNodes' = AskedNodes \cup Added(p) /\ Graph' = Graph /\ step' = step
  BY AskedGrows, ClusterStays DEF ExpandRpc, Settle, env, step
<1>3. next' = next \cup Search!Level(Graph, Added(p), step, depth, current)
  <2>1. Cursor = Search!Cursor(step, depth) /\ EdgeAlias = Search!EdgeAlias(step, depth)
    BY DEF Cursor, EdgeAlias, Search!Cursor, Search!EdgeAlias
  <2>2. CASE Routed(p)
    <3>1. IsGraph(Graph) /\ Closed(Graph) /\ Idx(p) = Build(p, Graph)
      BY <2>2, GraphFacts
    <3>2. UNION {ExpandHop(Build(p, Graph), step, Cursor, EdgeAlias, b) :
                   b \in OwnedBy(p, Cursor, current)}
            = Search!Level(Graph, Slice(p), step, depth, current)
      BY <1>1, <2>1, <3>1, LevelSlice
    <3>3. QED  BY <2>2, <3>1, <3>2 DEF ExpandRpc, Added
  <2>3. CASE ~ Routed(p)
    BY <2>3 DEF ExpandRpc, Added, Search!Level, Search!Exits
  <2>4. QED  BY <2>2, <2>3
<1>4. next = Search!Level(Graph, AskedNodes, step, depth, current) /\ hydrated = {}
  BY DEF IInv, Progress, ExpandRpc
<1>5. next' = Search!Level(Graph, AskedNodes', step, depth, current)
  BY <1>2, <1>3, <1>4, LevelSplits
<1>6. next' = Search!Level(Graph', AskedNodes', step', depth', current')
  BY <1>2, <1>5 DEF ExpandRpc
<1>7. QED
  BY <1>4, <1>6 DEF Progress, ExpandRpc

\* What one partition adds to the rows known, for nodes and for edges.
LEMMA RowsGrow ==
  ASSUME GraphsClosed, IInv, NEW p \in Partition, Routed(p), NEW ids
  PROVE  /\ NodeProperties(Idx(p), ids) = Rows(ids \cap DOMAIN Graph.node \cap Slice(p))
         /\ EdgeProperties(Idx(p), ids) =
              Rows(ids \cap {e \in DOMAIN Graph.edge : Graph.edge[e].src \in Slice(p)})
BY GraphFacts, HydrateSlice DEF Rows

LEMMA RowsSplit ==
  ASSUME NEW S1, NEW S2
  PROVE  Rows(S1 \cup S2) = Rows(S1) \cup Rows(S2)
BY DEF Rows

\* The ids of the rows known, and what is known of one of them.
LEMMA RowsOf ==
  ASSUME NEW S
  PROVE  /\ {r[1] : r \in Rows(S)} = S
         /\ \A id : {r \in Rows(S) : r[1] = id} =
              IF id \in S THEN {<<id, Wire(Search!PropsOf(Graph, id))>>} ELSE {}
<1> DEFINE row(id) == <<id, Wire(Search!PropsOf(Graph, id))>>
<1>1. Rows(S) = {row(id) : id \in S}
  BY DEF Rows
<1>2. \A id : row(id)[1] = id
  OBVIOUS
<1> HIDE DEF row
<1>3. {r[1] : r \in Rows(S)} = S
  BY <1>1, <1>2
<1>4. \A id : {r \in Rows(S) : r[1] = id} = IF id \in S THEN {row(id)} ELSE {}
  BY <1>1, <1>2
<1>5. QED  BY <1>3, <1>4 DEF row

LEMMA FilterRpcProgress ==
  ASSUME GraphsClosed, IInv, NEW p \in Partition, FilterRpc(p)
  PROVE  Progress'
<1> DEFINE Ids == {b[step.to] : b \in current}
           Own == {b[step.to] : b \in OwnedBy(p, step.to, current)}
<1>2. AskedNodes' = AskedNodes \cup Added(p) /\ Graph' = Graph /\ step' = step
  BY AskedGrows, ClusterStays DEF FilterRpc, Settle, env, step
<1>3. Own = Ids \cap Slice(p)
  BY DEF OwnedBy, Slice
<1>4. hydrated' = hydrated \cup Rows(Ids \cap DOMAIN Graph.node \cap Added(p))
  <2>1. CASE Routed(p)
    <3>1. NodeProperties(Idx(p), Own) = Rows(Own \cap DOMAIN Graph.node \cap Slice(p))
      BY <2>1, RowsGrow
    <3>2. Own \cap DOMAIN Graph.node \cap Slice(p) = Ids \cap DOMAIN Graph.node \cap Added(p)
      BY <1>3, <2>1 DEF Added
    <3>3. QED  BY <2>1, <3>1, <3>2 DEF FilterRpc
  <2>2. CASE ~ Routed(p)
    BY <2>2 DEF FilterRpc, Added, Rows
  <2>3. QED  BY <2>1, <2>2
<1>5. hydrated = Rows(Ids \cap DOMAIN Graph.node \cap AskedNodes)
  BY DEF IInv, Progress, FilterRpc
<1>6. Ids \cap DOMAIN Graph.node \cap AskedNodes' =
        (Ids \cap DOMAIN Graph.node \cap AskedNodes)
          \cup (Ids \cap DOMAIN Graph.node \cap Added(p))
  BY <1>2
<1> HIDE DEF Ids, Own
<1>7. hydrated' = Rows(Ids \cap DOMAIN Graph.node \cap AskedNodes')
  BY <1>4, <1>5, <1>6, RowsSplit
<1>8. /\ Ids' = Ids
      /\ \A S : Rows(S)' = Rows(S)
  BY <1>2 DEF Ids, FilterRpc, Rows
<1>9. hydrated' = Rows(Ids \cap DOMAIN Graph.node \cap AskedNodes)'
  BY <1>2, <1>7, <1>8 DEF Rows
<1>10. QED
  BY <1>9 DEF Progress, FilterRpc, Ids

LEMMA OuterNodesRpcProgress ==
  ASSUME GraphsClosed, IInv, NEW p \in Partition, OuterNodesRpc(p)
  PROVE  Progress'
<1> DEFINE Wanted == {id \in OuterIds \cap NodeId : Owner[id] = p}
           Known(R) == OuterIds \cap DOMAIN Graph.node \cap R
<1>1. /\ AskedNodes' = AskedNodes \cup Added(p) /\ Graph' = Graph
      /\ step' = step /\ OuterIds' = OuterIds
  BY AskedGrows, ClusterStays DEF OuterNodesRpc, Settle, env, step, OuterIds
<1>2. hydrated' = hydrated \cup Rows(Known(Added(p)))
  <2>1. CASE Routed(p)
    <3>1. NodeProperties(Idx(p), Wanted) = Rows(Wanted \cap DOMAIN Graph.node \cap Slice(p))
      BY <2>1, RowsGrow
    <3>2. Wanted \cap DOMAIN Graph.node \cap Slice(p) = Known(Added(p))
      BY <2>1 DEF Added, Slice
    <3>3. QED  BY <2>1, <3>1, <3>2 DEF OuterNodesRpc
  <2>2. CASE ~ Routed(p)
    BY <2>2 DEF OuterNodesRpc, Added, Rows
  <2>3. QED  BY <2>1, <2>2
<1>3. hydrated = Rows(Known(AskedNodes))
  BY DEF IInv, Progress, OuterNodesRpc
<1>4. Known(AskedNodes') = Known(AskedNodes) \cup Known(Added(p))
  BY <1>1
<1>5. hydrated' = Rows(Known(AskedNodes'))
  BY <1>2, <1>3, <1>4, RowsSplit
<1>6. hydrated' = Rows(OuterIds \cap DOMAIN Graph.node \cap AskedNodes)'
  BY <1>1, <1>5 DEF Rows
<1>7. QED
  BY <1>6 DEF Progress, OuterNodesRpc

\* The edge ids with a source among the nodes in R.
EdgesFrom(R) == {e \in DOMAIN Graph.edge : Graph.edge[e].src \in R}

\* An edge id already hydrated need not be asked for: its row is known.
LEMMA OuterEdgesRpcProgress ==
  ASSUME GraphsClosed, IInv, NEW p \in Partition, OuterEdgesRpc(p)
  PROVE  Progress'
<1> DEFINE Known(R) == OuterIds \cap ((DOMAIN Graph.node \cap Reach) \cup EdgesFrom(R))
           More == EdgesWanted \cap EdgesFrom(Slice(p))
<1>1. /\ AskedNodes' = AskedNodes \cup Added(p) /\ Graph' = Graph /\ Reach' = Reach
      /\ step' = step /\ OuterIds' = OuterIds
  BY AskedGrows, ClusterStays DEF OuterEdgesRpc, Settle, env, step, OuterIds
<1>2. hydrated = Rows(Known(AskedNodes))
  BY DEF IInv, Progress, OuterEdgesRpc, EdgesFrom
<1>3. {h[1] : h \in hydrated} = Known(AskedNodes)
  BY <1>2, RowsOf
<1>4. DOMAIN Graph.edge \subseteq EdgeId
  BY GraphFacts, GraphRows
<1>5. hydrated' = Rows(Known(AskedNodes'))
  <2>1. CASE Routed(p)
    <3>1. hydrated' = hydrated \cup Rows(More)
      <4>1. EdgeProperties(Idx(p), EdgesWanted) = Rows(More)
        BY <2>1, RowsGrow DEF EdgesFrom
      <4>2. QED  BY <2>1, <4>1 DEF OuterEdgesRpc
    <3>2. EdgesFrom(AskedNodes') = EdgesFrom(AskedNodes) \cup EdgesFrom(Slice(p))
      BY <1>1, <2>1 DEF EdgesFrom, Added
    <3>3. More = ((OuterIds \cap EdgeId) \ Known(AskedNodes)) \cap EdgesFrom(Slice(p))
      BY <1>3 DEF EdgesWanted
    <3>4. EdgesFrom(Slice(p)) \subseteq EdgeId
      BY <1>4 DEF EdgesFrom
    <3>5. Known(AskedNodes') = Known(AskedNodes) \cup More
      <4> HIDE DEF More
      <4> QED  BY <3>2, <3>3, <3>4
    <3>6. QED  BY <1>2, <3>1, <3>5, RowsSplit
  <2>2. CASE ~ Routed(p)
    BY <1>1, <1>2, <2>2 DEF OuterEdgesRpc, Added
  <2>3. QED  BY <2>1, <2>2
<1>6. hydrated' = Rows(OuterIds \cap ((DOMAIN Graph.node \cap Reach) \cup
                       {e \in DOMAIN Graph.edge : Graph.edge[e].src \in AskedNodes}))'
  BY <1>1, <1>5 DEF Rows, EdgesFrom
<1>7. QED
  BY <1>6 DEF Progress, OuterEdgesRpc

\* Once every outer reference was hydrated the coordinator and the search
\* agree on which bindings have their literals, and on the literals.
LEMMA OuterReferences ==
  ASSUME IInv, phase = "anti", NEW b \in current
  PROVE  /\ Resolved(b) <=> Search!Resolvable(Graph, Reach, step, b)
         /\ Resolved(b) => Conditions(b) = Search!Conditions(Graph, step, b)
<1> DEFINE S == OuterIds \cap Search!ReadableRows(Graph, Reach)
           stored(id) == Search!PropsOf(Graph, id)
           props(id) == Wire(stored(id))
           Of(id) == {r \in hydrated : r[1] = id}
           Literal(o) == props(b[o.alias])[o.outer]
           Cond(o) == [prop |-> o.prop, op |-> o.op, val |-> Literal(o)]
           Known(o) == {r \in hydrated : r[1] = b[o.alias] /\ r[2][o.outer] \in Value}
<1>0. \A o \in step.outer : o.outer \in Property
  BY DEF IInv, PhaseFitsStep, AntiStep, OuterCondition
<1>1. hydrated = Rows(S)
  BY DEF IInv, Progress
<1>2. ASSUME NEW id PROVE Of(id) = IF id \in S THEN {<<id, props(id)>>} ELSE {}
  BY <1>1, RowsOf
<1>3. \A o \in step.outer : b[o.alias] \in OuterIds
  BY DEF OuterIds
<1> DEFINE Has(o) == b[o.alias] \in Search!ReadableRows(Graph, Reach) /\ Literal(o) \in Value
<1>4. ASSUME NEW o \in step.outer
      PROVE  Known(o) = IF Has(o) THEN {<<b[o.alias], props(b[o.alias])>>} ELSE {}
  <2>1. Known(o) = {r \in Of(b[o.alias]) : r[2][o.outer] \in Value}
    OBVIOUS
  <2>2. b[o.alias] \in S <=> b[o.alias] \in Search!ReadableRows(Graph, Reach)
    BY <1>3
  <2>3. Of(b[o.alias]) = IF b[o.alias] \in S THEN {<<b[o.alias], props(b[o.alias])>>} ELSE {}
    BY <1>2
  <2>4. Has(o) <=> b[o.alias] \in S /\ props(b[o.alias])[o.outer] \in Value
    BY <2>2, Zenon
  <2> HIDE DEF S, props, Of, Has, Known
  <2>5. QED  BY <2>1, <2>3, <2>4
<1>5. Resolved(b) <=> \A o \in step.outer : Has(o)
  <2>1. Resolved(b) <=> \A o \in step.outer : Known(o) # {}
    BY DEF Resolved
  <2> HIDE DEF Known, Has
  <2>2. QED  BY <1>4, <2>1
<1>6. Resolved(b) <=> Search!Resolvable(Graph, Reach, step, b)
  <2>1. \A o \in step.outer : Literal(o) \in Value <=> stored(b[o.alias])[o.outer] \in Value
    BY <1>0, WireKeepsLiterals
  <2> HIDE DEF Literal, stored
  <2>2. QED  BY <1>5, <2>1 DEF Search!Resolvable, stored
<1>7. ASSUME Resolved(b) PROVE Conditions(b) = Search!Conditions(Graph, step, b)
  <2> DEFINE conds(o) == {[prop |-> o.prop, op |-> o.op, val |-> r[2][o.outer]] : r \in Known(o)}
  <2>1. \A o \in step.outer : Known(o) = {<<b[o.alias], props(b[o.alias])>>}
    BY <1>4, <1>5, <1>7
  <2>2. ASSUME NEW o \in step.outer PROVE conds(o) = {Cond(o)}
    <3> DEFINE row == <<b[o.alias], props(b[o.alias])>>
               cond(r) == [prop |-> o.prop, op |-> o.op, val |-> r[2][o.outer]]
    <3>1. Known(o) = {row}
      BY <2>1
    <3>2. row[2] = props(b[o.alias])
      OBVIOUS
    <3>3. cond(row) = Cond(o)
      BY <3>2
    <3>4. conds(o) = {cond(r) : r \in Known(o)}
      OBVIOUS
    <3> HIDE DEF Known, row, cond, conds, Cond
    <3>5. QED  BY <3>1, <3>3, <3>4
  <2>3. Conditions(b) = step.literal \cup UNION {conds(o) : o \in step.outer}
    BY Zenon DEF Conditions
  <2> DEFINE Stored(o) == [prop |-> o.prop, op |-> o.op, val |-> stored(b[o.alias])[o.outer]]
  <2>4. Search!Conditions(Graph, step, b) = step.literal \cup {Stored(o) : o \in step.outer}
    BY Zenon DEF Search!Conditions
  <2>5. ASSUME NEW o \in step.outer PROVE Cond(o) = Stored(o)
    <3>1. stored(b[o.alias])[o.outer] \in Value
      BY <1>6, <1>7 DEF Search!Resolvable
    <3>2. Literal(o) = stored(b[o.alias])[o.outer]
      BY <1>0, <3>1, WireKeepsLiterals
    <3> HIDE DEF Literal, stored
    <3>3. QED  BY <3>2
  <2> HIDE DEF conds, Cond, Stored
  <2>6. QED  BY <2>2, <2>3, <2>4, <2>5
<1>8. QED  BY <1>6, <1>7

LEMMA AntiJoinRpcProgress ==
  ASSUME GraphsClosed, IInv, NEW q \in Pending, AntiJoinRpc(q)
  PROVE  Progress'
<1> DEFINE Req(b) == Request(Owner[b[step.from]], Conditions(b))
           Good(b) == Search!NoSuchEdge(Graph, Reach, step, b)
           Group == {b \in OwnedBy(q.to, step.from, current) :
                       Resolved(b) /\ Conditions(b) = q.conditions}
           Kept == {b \in Group : Survives(Idx(q.to), step, q.conditions, b)}
<1>1. phase = "anti" /\ step \in AntiStep
  BY DEF IInv, PhaseFitsStep, AntiJoinRpc
<1>2. q.to \in Partition /\ q = Request(q.to, q.conditions)
  <2>1. \E p \in Partition, b \in current : q = Request(p, Conditions(b))
    BY <1>1 DEF Pending, Requests, OwnedBy
  <2>2. QED  BY <2>1 DEF Request
<1>3. /\ next = {b \in current : Good(b) /\ Req(b) \in asked}
      /\ hydrated = Rows(OuterIds \cap Search!ReadableRows(Graph, Reach))
  BY <1>1 DEF IInv, Progress
<1>4. \A b : Req(b) = q <=> Owner[b[step.from]] = q.to /\ Conditions(b) = q.conditions
  BY <1>2 DEF Request
<1>5. ASSUME NEW b \in current
      PROVE  Good(b) /\ Req(b) = q <=> Routed(q.to) /\ b \in Kept
  <2>1. Good(b) => b[step.from] \in Reach /\ Resolved(b)
    BY <1>1, OuterReferences DEF Search!NoSuchEdge
  <2>2. Good(b) /\ Req(b) = q => Routed(q.to) /\ b \in Group
    BY <1>4, <2>1 DEF Reach, OwnedBy
  <2>3. ASSUME Routed(q.to), b \in Group
        PROVE  /\ Req(b) = q
               /\ Good(b) <=> Survives(Idx(q.to), step, q.conditions, b)
    <3>1. /\ b[step.from] \in Slice(q.to) /\ b[step.from] \in Reach
          /\ Req(b) = q
      BY <1>4, <2>3 DEF OwnedBy, Slice, Reach
    <3>2. /\ Search!Resolvable(Graph, Reach, step, b)
          /\ q.conditions = Search!Conditions(Graph, step, b)
      BY <1>1, <2>3, OuterReferences
    <3>3. Search!Exits(Graph, Slice(q.to), step, b[step.from]) =
            Search!Exits(Graph, Reach, step, b[step.from])
      BY <3>1 DEF Search!Exits
    <3>4. Idx(q.to) = Build(q.to, Graph) /\ IsGraph(Graph) /\ Closed(Graph)
      BY <1>2, <2>3, GraphFacts
    <3>5. Survives(Idx(q.to), step, q.conditions, b) <=>
            \A e \in Search!Exits(Graph, Reach, step, b[step.from]) :
              Search!Far(Graph.edge[e], step.dir) = b[step.to]
                => ~ Search!AllHold(Graph.edge[e].props, q.conditions)
      BY <1>1, <3>1, <3>3, <3>4, SurvivesSlice
    <3>6. QED
      BY <3>1, <3>2, <3>5 DEF Search!NoSuchEdge
  <2>4. QED  BY <2>2, <2>3
<1>6. next' = next \cup (IF Routed(q.to) THEN Kept ELSE {})
  BY DEF AntiJoinRpc
<1>7. Kept \subseteq current
  BY DEF OwnedBy
<1> HIDE DEF Good, Kept, Req
<1>8. next' = {b \in current : Good(b) /\ Req(b) \in asked'}
  BY <1>3, <1>5, <1>6, <1>7 DEF AntiJoinRpc, Settle
<1>9. /\ UNCHANGED <<phase, current, hydrated, env>>
      /\ step' = step /\ OuterIds' = OuterIds /\ Graph' = Graph /\ Reach' = Reach
  BY ClusterStays DEF AntiJoinRpc, env, step, OuterIds
<1>10. hydrated' = Rows(OuterIds \cap Search!ReadableRows(Graph, Reach))'
  BY <1>3, <1>9 DEF Rows
<1>11. next' = {b \in current :
                  /\ Search!NoSuchEdge(Graph, Reach, step, b)
                  /\ Request(Owner[b[step.from]], Conditions(b)) \in asked}'
  BY <1>8, <1>9 DEF Good, Req, Conditions
<1>12. QED
  BY <1>1, <1>9, <1>10, <1>11 DEF Progress

----------------------------------------------------------------------------
(* The end of a phase: no request is left.                                 *)

\* The readable nodes not asked are those of partitions with no request.
LEMMA NobodyLeft ==
  ASSUME IInv, Pending = {}, NEW n \in Reach, Plain(Owner[n]) \in Requests
  PROVE  n \in AskedNodes
BY DEF Pending, AskedNodes

LEMMA ResolveComplete ==
  ASSUME IInv, phase = "resolve", Pending = {}
  PROVE  next = Search!Starts(Graph, Reach, step)
<1>1. \A n \in NodeId : Owner[n] \in Partition
  BY OwnerAssumption
<1>2. Reach = AskedNodes
  BY <1>1, NobodyLeft DEF Requests, Reach, AskedNodes
<1>3. QED  BY <1>2 DEF IInv, Progress

LEMMA HopComplete ==
  ASSUME IInv, phase = "hop", depth <= step.max, Pending = {}
  PROVE  next = Search!Level(Graph, Reach, step, depth, current)
<1>1. Cursor = Search!Cursor(step, depth)
  BY DEF Cursor, Search!Cursor
<1>2. ~ (depth > step.max)
  BY DEF IInv, TypeOK, PhaseFitsStep, HopStep
<1>3. ASSUME NEW b \in current, b[Cursor] \in Reach PROVE b[Cursor] \in AskedNodes
  <2>1. b[Cursor] \in NodeId /\ Owner[b[Cursor]] \in Partition
    BY <1>3, OwnerAssumption DEF Reach
  <2>2. OwnedBy(Owner[b[Cursor]], Cursor, current) # {}
    BY <2>1 DEF OwnedBy
  <2>3. QED  BY <1>2, <1>3, <2>1, <2>2, NobodyLeft DEF Requests
<1>4. \A b \in current : b[Cursor] \in AskedNodes <=> b[Cursor] \in Reach
  BY <1>3 DEF AskedNodes
<1>5. next = Search!Level(Graph, AskedNodes, step, depth, current)
  BY DEF IInv, Progress
<1>6. QED  BY <1>1, <1>4, <1>5, LevelDepends

LEMMA FilterComplete ==
  ASSUME GraphsClosed, IInv, phase = "filter", Pending = {}
  PROVE  {b \in current : Passes(b)} =
           {b \in current : Search!Passes(Graph, Reach, step, b)}
<1> DEFINE S == {b[step.to] : b \in current} \cap DOMAIN Graph.node \cap AskedNodes
<1>1. hydrated = Rows(S)
  BY DEF IInv, Progress
<1>2. ASSUME NEW b \in current
      PROVE  b[step.to] \in S <=> b[step.to] \in DOMAIN Graph.node \cap Reach
  <2>1. ASSUME b[step.to] \in Reach PROVE b[step.to] \in AskedNodes
    <3>1. b[step.to] \in NodeId /\ Owner[b[step.to]] \in Partition
      BY <2>1, OwnerAssumption DEF Reach
    <3>2. OwnedBy(Owner[b[step.to]], step.to, current) # {}
      BY <3>1 DEF OwnedBy
    <3>3. QED  BY <2>1, <3>1, <3>2, NobodyLeft DEF Requests
  <2>2. QED  BY <2>1 DEF AskedNodes
<1>3. ASSUME NEW b \in current
      PROVE  Passes(b) <=> Search!Passes(Graph, Reach, step, b)
  <2> DEFINE id == b[step.to]
             stored == Search!PropsOf(Graph, id)
             props == Wire(stored)
             Of == {r \in hydrated : r[1] = id}
  <2> HIDE DEF S
  <2>1. Of = IF id \in S THEN {<<id, props>>} ELSE {}
    BY <1>1, RowsOf
  <2>2. Passes(b) <=> \E r \in Of : AllHold(r[2], step.filters)
    BY Zenon DEF Passes
  <2>3. Passes(b) <=> id \in S /\ AllHold(props, step.filters)
    <3> DEFINE row == <<id, props>>
    <3>1. row[2] = props
      OBVIOUS
    <3>2. Of = IF id \in S THEN {row} ELSE {}
      BY <2>1
    <3> HIDE DEF S, id, props, Of, row
    <3>3. QED  BY <2>2, <3>1, <3>2
  <2>4. id \in DOMAIN Graph.node => stored = Graph.node[id].props
    BY GraphFacts, GraphRows DEF Search!PropsOf
  <2>5. AllHold(props, step.filters) <=> AllHold(stored, step.filters)
    <3>1. step.filters \in SUBSET Filter
      BY DEF IInv, PhaseFitsStep, HopStep
    <3>2. QED  BY <3>1, WireKeepsLiterals
  <2> HIDE DEF props
  <2>6. QED  BY <1>2, <2>3, <2>4, <2>5, SameHelpers DEF Search!Passes
<1>4. QED  BY <1>3

LEMMA NodesComplete ==
  ASSUME IInv, phase = "nodes", Pending = {}
  PROVE  hydrated = Rows(OuterIds \cap DOMAIN Graph.node \cap Reach)
<1>1. hydrated = Rows(OuterIds \cap DOMAIN Graph.node \cap AskedNodes)
  BY DEF IInv, Progress
<1>2. ASSUME NEW n \in OuterIds \cap Reach PROVE n \in AskedNodes
  <2>1. n \in OuterIds \cap NodeId /\ Owner[n] \in Partition
    BY OwnerAssumption DEF Reach
  <2>2. QED  BY <2>1, NobodyLeft DEF Requests
<1>3. OuterIds \cap DOMAIN Graph.node \cap AskedNodes =
        OuterIds \cap DOMAIN Graph.node \cap Reach
  BY <1>2 DEF AskedNodes
<1>4. QED  BY <1>1, <1>3

\* Either every partition was asked, or every edge was found early.
LEMMA EdgesComplete ==
  ASSUME GraphsClosed, IInv, phase = "edges", Pending = {}
  PROVE  hydrated = Rows(OuterIds \cap Search!ReadableRows(Graph, Reach))
<1> DEFINE Nodes == DOMAIN Graph.node \cap Reach
           S == OuterIds \cap (Nodes \cup EdgesFrom(AskedNodes))
<1>1. hydrated = Rows(S)
  BY DEF IInv, Progress, EdgesFrom
<1>2. DOMAIN Graph.edge \subseteq EdgeId /\ DOMAIN Graph.node \cap EdgeId = {}
  BY GraphFacts, GraphRows, DataAssumption
<1>3. AskedNodes \subseteq Reach
  BY DEF AskedNodes
<1>4. EdgesFrom(AskedNodes) \subseteq EdgesFrom(Reach)
  BY <1>3 DEF EdgesFrom
<1>5. OuterIds \cap EdgesFrom(Reach) \subseteq S
  <2>1. CASE EdgesWanted = {}
    <3>1. EdgesWanted = (OuterIds \cap EdgeId) \ S
      BY <1>1, RowsOf DEF EdgesWanted
    <3>2. EdgesFrom(Reach) \subseteq EdgeId
      BY <1>2 DEF EdgesFrom
    <3> HIDE DEF S
    <3>3. QED  BY <2>1, <3>1, <3>2
  <2>2. CASE EdgesWanted # {}
    <3>1. ASSUME NEW n \in Reach PROVE n \in AskedNodes
      BY <2>2, NobodyLeft, OwnerAssumption DEF Requests, Reach
    <3>2. EdgesFrom(Reach) = EdgesFrom(AskedNodes)
      BY <1>3, <3>1 DEF EdgesFrom
    <3>3. QED  BY <3>2
  <2>3. QED  BY <2>1, <2>2
<1>6. S = OuterIds \cap (Nodes \cup EdgesFrom(Reach))
  BY <1>4, <1>5
<1>7. Nodes \cup EdgesFrom(Reach) = Search!ReadableRows(Graph, Reach)
  BY DEF Search!ReadableRows, EdgesFrom
<1>8. QED  BY <1>1, <1>6, <1>7

LEMMA AntiComplete ==
  ASSUME IInv, phase = "anti", Pending = {}
  PROVE  next = {b \in current : Search!NoSuchEdge(Graph, Reach, step, b)}
<1>1. next = {b \in current :
                /\ Search!NoSuchEdge(Graph, Reach, step, b)
                /\ Request(Owner[b[step.from]], Conditions(b)) \in asked}
  BY DEF IInv, Progress
<1>2. ASSUME NEW b \in current, Search!NoSuchEdge(Graph, Reach, step, b)
      PROVE  Request(Owner[b[step.from]], Conditions(b)) \in asked
  <2>1. Resolved(b) /\ b[step.from] \in NodeId
    BY <1>2, OuterReferences DEF Search!NoSuchEdge, Reach
  <2>2. Owner[b[step.from]] \in Partition
    BY <2>1, OwnerAssumption
  <2>3. b \in {x \in OwnedBy(Owner[b[step.from]], step.from, current) : Resolved(x)}
    BY <2>1 DEF OwnedBy
  <2>4. Request(Owner[b[step.from]], Conditions(b)) \in Requests
    BY <2>2, <2>3 DEF Requests
  <2>5. QED  BY <2>4 DEF Pending
<1>3. QED  BY <1>1, <1>2

----------------------------------------------------------------------------
(* The invariant and the refinement.                                       *)

\* A phase begins with nothing asked, which is what Progress expects.
LEMMA EnterProgress ==
  ASSUME IInv, NEW i, NEW B, Enter(i, B)
  PROVE  Progress'
<1>1. /\ phase' \in {"done", "hop", "nodes"}
      /\ AskedNodes' = {} /\ next' = {} /\ hydrated' = {}
  BY DEF Enter, AskedNodes
<1>2. Search!Level(Graph', {}, step', depth', current') = {}
  BY DEF Search!Level, Search!Exits
<1>3. next' = Search!Level(Graph', AskedNodes', step', depth', current')
  BY <1>1, <1>2
<1>4. hydrated' = Rows(OuterIds \cap DOMAIN Graph.node \cap AskedNodes)'
  BY <1>1 DEF Rows
<1>5. QED  BY <1>1, <1>3, <1>4 DEF Progress

LEMMA EndPhaseProgress ==
  ASSUME GraphsClosed, IInv, EndPhase
  PROVE  Progress'
<1>1. CASE EndResolve \/ EndHop \/ EndFilter \/ EndAntiJoin
  BY <1>1, EnterProgress DEF EndResolve, EndHop, EndFilter, EndAntiJoin
<1>2. CASE EndRound
  <2>1. /\ phase' = "hop" /\ AskedNodes' = {} /\ next' = {} /\ hydrated' = {}
    BY <1>2 DEF EndRound, Continue, AskedNodes, IInv, Progress
  <2>2. Search!Level(Graph', {}, step', depth', current') = {}
    BY DEF Search!Level, Search!Exits
  <2>3. next' = Search!Level(Graph', AskedNodes', step', depth', current')
    BY <2>1, <2>2
  <2>4. QED  BY <2>1, <2>3 DEF Progress
<1>3. CASE BeginFilter
  <2>1. /\ phase' = "filter" /\ AskedNodes' = {} /\ hydrated' = {}
    BY <1>3 DEF BeginFilter, HopOver, Continue, AskedNodes, IInv, Progress
  <2>2. hydrated' = Rows({b[step.to] : b \in current}
                          \cap DOMAIN Graph.node \cap AskedNodes)'
    BY <2>1 DEF Rows
  <2>3. QED  BY <2>1, <2>2 DEF Progress
<1>4. CASE EndOuterNodes
  <2>1. /\ phase' = "edges" /\ AskedNodes' = {}
        /\ Graph' = Graph /\ Reach' = Reach /\ OuterIds' = OuterIds
    BY <1>4, ClusterStays
    DEF EndOuterNodes, Continue, AskedNodes, env, OuterIds, step
  <2>2. hydrated' = Rows(OuterIds \cap DOMAIN Graph.node \cap Reach)
    BY <1>4, NodesComplete DEF EndOuterNodes
  <2>3. OuterIds \cap DOMAIN Graph.node \cap Reach =
          OuterIds \cap ((DOMAIN Graph.node \cap Reach) \cup EdgesFrom({}))
    BY DEF EdgesFrom
  <2>4. hydrated' = Rows(OuterIds \cap ((DOMAIN Graph.node \cap Reach) \cup
            {e \in DOMAIN Graph.edge : Graph.edge[e].src \in AskedNodes}))'
    BY <2>1, <2>2, <2>3 DEF Rows, EdgesFrom
  <2>5. QED  BY <2>1, <2>4 DEF Progress
<1>5. CASE EndOuterEdges
  <2>1. /\ phase' = "anti" /\ asked' = {} /\ next' = {}
        /\ Graph' = Graph /\ Reach' = Reach /\ OuterIds' = OuterIds
    BY <1>5, ClusterStays DEF EndOuterEdges, Continue, env, OuterIds, step
  <2>2. hydrated' = Rows(OuterIds \cap Search!ReadableRows(Graph, Reach))
    BY <1>5, EdgesComplete DEF EndOuterEdges
  <2>3. hydrated' = Rows(OuterIds \cap Search!ReadableRows(Graph, Reach))'
    BY <2>1, <2>2 DEF Rows
  <2>4. QED  BY <2>1, <2>3 DEF Progress
<1>6. QED  BY <1>1, <1>2, <1>3, <1>4, <1>5 DEF EndPhase

LEMMA InitIInv == GraphsClosed /\ Init => IInv
<1> SUFFICES ASSUME Init PROVE IInv
  OBVIOUS
<1>1. TypeOK /\ PhaseFitsStep
  BY InitType DEF TypeInv
<1>2. Cluster
  <2>1. (CHOOSE r \in Replica : TRUE) \in Replica
    BY ClusterAssumption
  <2>2. QED  BY <2>1 DEF Init, Cluster, Graph
<1>3. Progress
  BY DEF Init, Progress, AskedNodes, Search!Starts
<1>4. QED  BY <1>1, <1>2, <1>3 DEF IInv

LEMMA NextIInv == GraphsClosed /\ IInv /\ [Next]_vars => IInv'
<1> SUFFICES ASSUME GraphsClosed, IInv, [Next]_vars PROVE IInv'
  OBVIOUS
<1>1. TypeOK' /\ PhaseFitsStep'
  BY NextType DEF TypeInv, IInv
<1>2. UNCHANGED env
  BY DEF Next, Rpc, EndPhase, RpcFails, vars, env, ResolveRpc, ExpandRpc, FilterRpc,
         OuterNodesRpc, OuterEdgesRpc, AntiJoinRpc, EndResolve, EndRound, EndHop,
         BeginFilter, EndFilter, EndOuterNodes, EndOuterEdges, EndAntiJoin,
         Enter, Continue
<1>3. Cluster'
  BY <1>2, ClusterStays
<1> SUFFICES Progress'
  BY <1>1, <1>3 DEF IInv
<1>4. CASE Rpc
  BY <1>4, ResolveRpcProgress, ExpandRpcProgress, FilterRpcProgress,
     OuterNodesRpcProgress, OuterEdgesRpcProgress, AntiJoinRpcProgress DEF Rpc
<1>5. CASE EndPhase
  BY <1>5, EndPhaseProgress
<1>6. CASE RpcFails
  BY <1>6 DEF RpcFails, Progress
<1>7. CASE UNCHANGED vars
  <2>1. Progress' <=> Progress
    BY <1>7 DEF vars, Progress, step, AskedNodes, Reach, Routed, Graph, OuterIds,
                Rows, Conditions
  <2>2. QED  BY <2>1 DEF IInv
<1>8. QED  BY <1>4, <1>5, <1>6, <1>7 DEF Next

\* In the middle of a phase the coordinator holds exactly what the search gets
\* from the nodes it has asked so far, whatever the order of the RPCs.
THEOREM ProgressInvariant == GraphsClosed => (Spec => []IInv)
<1>1. GraphsClosed /\ Init => IInv
  BY InitIInv
<1>2. GraphsClosed /\ IInv /\ [Next]_vars => IInv'
  BY NextIInv
<1>3. QED
  <2> SUFFICES ASSUME GraphsClosed PROVE Spec => []IInv
    OBVIOUS
  <2>1. Init => IInv
    BY <1>1
  <2>2. IInv /\ [Next]_vars => IInv'
    BY <1>2
  <2>3. QED  BY <2>1, <2>2, PTL DEF Spec

\* Going to the next plan step is the search's own Enter.
LEMMA EnterSimulates ==
  ASSUME IInv, NEW i \in Nat, NEW B, Enter(i, B),
         i <= Len(plan) => plan[i].kind \in {"hop", "anti"}
  PROVE  Search!Enter(i, B)
<1>1. Graph' = Graph /\ Reach' = Reach /\ plan' = plan
  BY ClusterStays DEF Enter, env
<1>2. AbstractPhase' = IF i > Len(plan) THEN "done" ELSE plan[i].kind
  BY PlanTypes DEF Enter, AbstractPhase, IInv, TypeOK
<1>3. QED  BY <1>1, <1>2 DEF Enter, Search!Enter

\* Every step of the execution is a step of the search or leaves it alone.
LEMMA StepSimulates ==
  ASSUME GraphsClosed, IInv, [Next]_vars
  PROVE  [Search!Next]_(Search!vars)
<1>0. /\ plan \in Plans /\ pos \in Nat /\ Len(plan) \in Nat
      /\ \A i \in 2 .. Len(plan) : plan[i].kind \in {"hop", "anti"}
  BY PlanTypes DEF IInv, TypeOK, HopStep, AntiStep
<1>2. ASSUME UNCHANGED env PROVE Graph' = Graph /\ Reach' = Reach /\ plan' = plan
  BY <1>2, ClusterStays DEF env
<1>3. CASE Rpc
  <2>1. /\ UNCHANGED env
        /\ UNCHANGED <<phase, pos, depth, current, accepted>>
    BY <1>3 DEF Rpc, ResolveRpc, ExpandRpc, FilterRpc, OuterNodesRpc,
                OuterEdgesRpc, AntiJoinRpc, env
  <2>2. UNCHANGED Search!vars
    BY <1>2, <2>1 DEF Search!vars, AbstractPhase
  <2>3. QED  BY <2>2
<1>4. CASE RpcFails
  <2>1. /\ UNCHANGED env /\ phase' = "failed" /\ phase \notin {"done", "failed"}
        /\ UNCHANGED <<pos, depth, current, accepted>>
    BY <1>4 DEF RpcFails, Pending, Requests, env
  <2>2. Search!Fail
    BY <1>2, <2>1 DEF Search!Fail, AbstractPhase
  <2>3. QED  BY <2>2 DEF Search!Next
<1>5. CASE EndResolve
  <2>1. pos = 1 /\ phase = "resolve" /\ Enter(2, next)
        /\ next = Search!Starts(Graph, Reach, step)
    BY <1>5, ResolveComplete DEF EndResolve, IInv, PhaseFitsStep
  <2>2. Search!Enter(2, next)
    BY <1>0, <2>1, EnterSimulates
  <2>3. Search!ResolveStep
    BY <2>1, <2>2 DEF Search!ResolveStep, Search!step, step, AbstractPhase
  <2>4. QED  BY <2>3 DEF Search!Next
<1>6. CASE EndRound
  <2>1. /\ phase = "hop" /\ depth <= step.max /\ current # {}
        /\ next = Search!Level(Graph, Reach, step, depth, current)
    BY <1>6, HopComplete DEF EndRound
  <2>2. Search!Round
    BY <1>2, <1>6, <2>1
    DEF EndRound, Continue, Search!Round, Search!step, step, AbstractPhase, env
  <2>3. QED  BY <2>2 DEF Search!Next
<1>7. CASE EndHop
  <2>1. phase = "hop" /\ Search!HopOver /\ (step.filters = {} \/ accepted = {})
    BY <1>7 DEF EndHop, HopOver, Search!HopOver, Search!step, step, AbstractPhase
  <2>2. Search!Enter(pos + 1, accepted)
    BY <1>0, <1>7, EnterSimulates DEF EndHop, IInv, TypeOK
  <2>3. Search!EndHop
    BY <2>1, <2>2 DEF Search!EndHop, Search!step, step
  <2>4. QED  BY <2>3 DEF Search!Next
<1>8. CASE BeginFilter
  <2>1. Search!BeginFilter
    BY <1>2, <1>8
    DEF BeginFilter, HopOver, Continue, Search!BeginFilter, Search!HopOver,
        Search!step, step, AbstractPhase, env
  <2>2. QED  BY <2>1 DEF Search!Next
<1>9. CASE EndFilter
  <2>1. /\ phase = "filter"
        /\ Enter(pos + 1, {b \in current : Search!Passes(Graph, Reach, step, b)})
    BY <1>9, FilterComplete DEF EndFilter
  <2>2. Search!Enter(pos + 1, {b \in current : Search!Passes(Graph, Reach, step, b)})
    BY <1>0, <2>1, EnterSimulates DEF IInv, TypeOK
  <2>3. Search!FilterStep
    BY <2>1, <2>2 DEF Search!FilterStep, Search!step, step, AbstractPhase
  <2>4. QED  BY <2>3 DEF Search!Next
<1>10. CASE EndOuterNodes \/ EndOuterEdges
  <2>1. UNCHANGED Search!vars
    BY <1>2, <1>10
    DEF EndOuterNodes, EndOuterEdges, Continue, Search!vars, AbstractPhase, env
  <2>2. QED  BY <2>1
<1>11. CASE EndAntiJoin
  <2>1. /\ phase = "anti"
        /\ Enter(pos + 1, {b \in current : Search!NoSuchEdge(Graph, Reach, step, b)})
    BY <1>11, AntiComplete DEF EndAntiJoin
  <2>2. Search!Enter(pos + 1, {b \in current : Search!NoSuchEdge(Graph, Reach, step, b)})
    BY <1>0, <2>1, EnterSimulates DEF IInv, TypeOK
  <2>3. Search!AntiJoin
    BY <2>1, <2>2 DEF Search!AntiJoin, Search!step, step, AbstractPhase
  <2>4. QED  BY <2>3 DEF Search!Next
<1>12. CASE UNCHANGED vars
  <2>1. UNCHANGED Search!vars
    BY <1>12 DEF vars, Search!vars, AbstractPhase, Graph, Reach, Routed
  <2>2. QED  BY <2>1
<1>13. QED
  BY <1>3, <1>4, <1>5, <1>6, <1>7, <1>8, <1>9, <1>10, <1>11, <1>12
  DEF Next, EndPhase

LEMMA InitSimulates == GraphsClosed /\ Init => Search!Init
<1> SUFFICES ASSUME GraphsClosed, Init PROVE Search!Init
  OBVIOUS
<1>1. IInv
  BY InitIInv
<1>2. Graph \in Graphs
  BY <1>1, GraphFacts
<1>3. Reach \in SUBSET NodeId
  BY DEF Reach
<1>4. QED  BY <1>2, <1>3 DEF Init, Search!Init, AbstractPhase

\* Splitting each round over the partitions, answering the requests in any
\* order, handing RemoteRefs to the next round, hydrating before a WHERE or a
\* NOT EXISTS and passing over partitions nobody serves is, over closed
\* graphs, the single-graph search.
THEOREM ScatterGatherRefinesSearch == GraphsClosed => (Spec => RefinesSearch)
<1> SUFFICES ASSUME GraphsClosed PROVE Spec => RefinesSearch
  OBVIOUS
<1>1. Init => IInv /\ Search!Init
  BY InitIInv, InitSimulates
<1>2. IInv /\ [Next]_vars => IInv'
  BY NextIInv
<1>3. IInv /\ [Next]_vars => [Search!Next]_(Search!vars)
  BY StepSimulates
<1>4. QED  BY <1>1, <1>2, <1>3, PTL DEF Spec, RefinesSearch, Search!Spec

----------------------------------------------------------------------------
(* The answers.  GraphSearch_proofs shows that the search is exact; the    *)
(* execution is one, so it is exact too.  The lemmas of the search are     *)
(* taken for the search this module refines.                               *)

Exact == INSTANCE GraphSearch_proofs WITH
           graph <- Graph, reach <- Reach, phase <- AbstractPhase

\* The two searches are built from the same operators.
LEMMA SameSemantics ==
  ASSUME NEW g, NEW R
  PROVE  /\ \A s : Exact!Starts(g, R, s) = Search!Starts(g, R, s)
         /\ \A s, d, B : Exact!Level(g, R, s, d, B) = Search!Level(g, R, s, d, B)
         /\ \A s, b : Exact!Passes(g, R, s, b) <=> Search!Passes(g, R, s, b)
         /\ \A s, b : Exact!NoSuchEdge(g, R, s, b) <=> Search!NoSuchEdge(g, R, s, b)
         /\ \A p : Exact!Answer(g, R, p) = Search!Answer(g, R, p)
<1>1. ASSUME NEW s, NEW n PROVE Exact!Exits(g, R, s, n) = Search!Exits(g, R, s, n)
  BY DEF Exact!Exits, Search!Exits, Exact!Near, Search!Near, Exact!TypeMatches,
         Search!TypeMatches
<1>2. ASSUME NEW row, NEW dir PROVE Exact!Far(row, dir) = Search!Far(row, dir)
  BY DEF Exact!Far, Search!Far
<1>3. ASSUME NEW props, NEW f PROVE Exact!AllHold(props, f) <=> Search!AllHold(props, f)
  BY DEF Exact!AllHold, Search!AllHold, Exact!Holds, Search!Holds
<1>4. ASSUME NEW s, NEW n PROVE Exact!Selects(g, s, n) <=> Search!Selects(g, s, n)
  BY DEF Exact!Selects, Search!Selects
<1>5. ASSUME NEW s PROVE Exact!Starts(g, R, s) = Search!Starts(g, R, s)
  BY <1>4 DEF Exact!Starts, Search!Starts, Exact!FromNode, Search!FromNode
<1>6. ASSUME NEW s, NEW d, NEW B
      PROVE  Exact!Level(g, R, s, d, B) = Search!Level(g, R, s, d, B)
  BY <1>1, <1>2 DEF Exact!Level, Search!Level, Exact!Extend, Search!Extend,
     Exact!Cursor, Search!Cursor, Exact!EdgeAlias, Search!EdgeAlias
<1>7. ASSUME NEW s, NEW a, NEW z, NEW d
      PROVE  Exact!Walk(g, R, s, a, z, d) <=> Search!Walk(g, R, s, a, z, d)
  BY <1>1, <1>2 DEF Exact!Walk, Search!Walk
<1>8. ASSUME NEW s, NEW b PROVE Exact!Passes(g, R, s, b) <=> Search!Passes(g, R, s, b)
  BY <1>3 DEF Exact!Passes, Search!Passes
<1>9. ASSUME NEW s, NEW b
      PROVE  Exact!NoSuchEdge(g, R, s, b) <=> Search!NoSuchEdge(g, R, s, b)
  <2>1. Exact!Resolvable(g, R, s, b) <=> Search!Resolvable(g, R, s, b)
    BY DEF Exact!Resolvable, Search!Resolvable, Exact!ReadableRows,
           Search!ReadableRows, Exact!PropsOf, Search!PropsOf
  <2>2. Exact!Conditions(g, s, b) = Search!Conditions(g, s, b)
    BY DEF Exact!Conditions, Search!Conditions, Exact!PropsOf, Search!PropsOf
  <2>3. QED  BY <1>1, <1>2, <1>3, <2>1, <2>2 DEF Exact!NoSuchEdge, Search!NoSuchEdge
<1>10. ASSUME NEW s, NEW b
       PROVE  Exact!StepHolds(g, R, s, b) = Search!StepHolds(g, R, s, b)
  <2>1. /\ Exact!Selects(g, s, b[s.to]) = Search!Selects(g, s, b[s.to])
        /\ Exact!Passes(g, R, s, b) = Search!Passes(g, R, s, b)
        /\ Exact!NoSuchEdge(g, R, s, b) = Search!NoSuchEdge(g, R, s, b)
        /\ \A a, z, d : Exact!Walk(g, R, s, a, z, d) <=> Search!Walk(g, R, s, a, z, d)
    BY <1>4, <1>7, <1>8, <1>9 DEF Exact!Selects, Search!Selects, Exact!Passes,
       Search!Passes, Exact!NoSuchEdge, Search!NoSuchEdge
  <2>2. QED  BY <1>1, <1>2, <2>1 DEF Exact!StepHolds, Search!StepHolds
<1>11. ASSUME NEW p PROVE Exact!Answer(g, R, p) = Search!Answer(g, R, p)
  <2>1. ASSUME NEW b PROVE Exact!Satisfies(g, R, p, b) <=> Search!Satisfies(g, R, p, b)
    BY <1>10 DEF Exact!Satisfies, Search!Satisfies
  <2>2. Exact!Candidates(g, p) = Search!Candidates(g, p)
    BY DEF Exact!Candidates, Search!Candidates, Exact!NodeAliases, Search!NodeAliases,
           Exact!EdgeAliases, Search!EdgeAliases
  <2>3. QED  BY <2>1, <2>2 DEF Exact!Answer, Search!Answer
<1>12. QED  BY <1>5, <1>6, <1>8, <1>9, <1>11

\* The plans and the graphs of an execution are fit for an exact search.
LEMMA FitForExactness ==
  ASSUME GraphsClosed, PlansScoped
  PROVE  Exact!ScopedPlans /\ Exact!ClosedGraphs
<1>1. ASSUME NEW p \in Plans PROVE Exact!IsPlan(p)
  <2>1. IsPlan(p)
    BY ClusterAssumption
  <2>2. /\ Exact!StartStep = StartStep /\ Exact!AllStep = AllStep
        /\ Exact!HopStep = HopStep /\ Exact!AntiStep = AntiStep
    BY DEF Exact!StartStep, StartStep, Exact!AllStep, AllStep, Exact!HopStep, HopStep,
           Exact!AntiStep, AntiStep, Exact!Direction, Direction, Exact!Filter, Filter,
           Exact!OuterCondition, OuterCondition, Exact!Op, Op
  <2>3. Exact!PlanStep = PlanStep
    BY <2>2 DEF Exact!PlanStep, PlanStep
  <2>4. QED  BY <2>1, <2>2, <2>3 DEF Exact!IsPlan, IsPlan
<1>2. ASSUME NEW p \in Plans PROVE Exact!ReadsBound(p) /\ Exact!BindsOnce(p)
  <2>1. ASSUME NEW s PROVE Exact!Reads(s) = Search!Reads(s) /\ Exact!Binds(s) = Search!Binds(s)
    BY DEF Exact!Reads, Search!Reads, Exact!Binds, Search!Binds
  <2>2. ASSUME NEW i PROVE Exact!BoundBefore(p, i) = Search!BoundBefore(p, i)
    BY <2>1 DEF Exact!BoundBefore, Search!BoundBefore
  <2>3. Search!ReadsBound(p) /\ Search!BindsOnce(p)
    BY DEF PlansScoped
  <2>4. QED
    BY <2>1, <2>2, <2>3 DEF Exact!ReadsBound, Search!ReadsBound, Exact!BindsOnce, Search!BindsOnce
<1>3. ASSUME NEW h \in Graphs PROVE Exact!IsGraph(h) /\ Exact!Closed(h)
  <2>1. IsGraph(h) /\ Closed(h)
    BY ClusterAssumption DEF GraphsClosed
  <2>2. Exact!NodeRow = NodeRow /\ Exact!EdgeRow = EdgeRow
    BY DEF Exact!NodeRow, NodeRow, Exact!EdgeRow, EdgeRow, Exact!Props, Props
  <2>3. QED
    BY <2>1, <2>2 DEF Exact!IsGraph, IsGraph, Exact!Closed, Closed
<1>4. QED
  BY <1>1, <1>2, <1>3 DEF Exact!ScopedPlans, Exact!ClosedGraphs

LEMMA SameSteps ==
  /\ Search!Init => Exact!Init
  /\ [Search!Next]_(Search!vars) => [Exact!Next]_(Exact!vars)
<1>1. Search!Init => Exact!Init
  BY DEF Search!Init, Exact!Init
<1>2. \A i, B : Search!Enter(i, B) <=> Exact!Enter(i, B)
  BY DEF Search!Enter, Exact!Enter
<1>3. Search!step = Exact!step
  BY DEF Search!step, Exact!step
<1>4. Search!ResolveStep => Exact!ResolveStep
  BY <1>2, <1>3, SameSemantics DEF Search!ResolveStep, Exact!ResolveStep
<1>5. Search!Round => Exact!Round
  BY <1>3, SameSemantics DEF Search!Round, Exact!Round
<1>6. Search!HopOver <=> Exact!HopOver
  BY <1>3 DEF Search!HopOver, Exact!HopOver
<1>7. Search!EndHop => Exact!EndHop
  BY <1>2, <1>3, <1>6 DEF Search!EndHop, Exact!EndHop
<1>8. Search!BeginFilter => Exact!BeginFilter
  BY <1>3, <1>6 DEF Search!BeginFilter, Exact!BeginFilter
<1>9. Search!FilterStep => Exact!FilterStep
  <2>1. {b \in current : Search!Passes(Graph, Reach, Search!step, b)} =
          {b \in current : Exact!Passes(Graph, Reach, Exact!step, b)}
    BY <1>3, SameSemantics
  <2>2. QED  BY <1>2, <2>1 DEF Search!FilterStep, Exact!FilterStep
<1>10. Search!AntiJoin => Exact!AntiJoin
  <2>1. {b \in current : Search!NoSuchEdge(Graph, Reach, Search!step, b)} =
          {b \in current : Exact!NoSuchEdge(Graph, Reach, Exact!step, b)}
    BY <1>3, SameSemantics
  <2>2. QED  BY <1>2, <2>1 DEF Search!AntiJoin, Exact!AntiJoin
<1>11. Search!Fail => Exact!Fail
  BY DEF Search!Fail, Exact!Fail
<1>12. Search!vars = Exact!vars /\ Search!vars' = Exact!vars'
  BY DEF Search!vars, Exact!vars
<1>13. QED
  BY <1>1, <1>4, <1>5, <1>7, <1>8, <1>9, <1>10, <1>11, <1>12 DEF Search!Next, Exact!Next

\* Once it is done the execution holds the answer of its plan.
LEMMA AnswerInvariant ==
  GraphsClosed /\ PlansScoped => (Spec => [](IInv /\ Exact!SearchInv))
<1> SUFFICES ASSUME GraphsClosed, PlansScoped
             PROVE  Spec => [](IInv /\ Exact!SearchInv)
  OBVIOUS
<1>1. Init => IInv /\ Exact!SearchInv
  BY InitIInv, InitSimulates, SameSteps, Exact!InitInv, DataAssumption
<1>2. IInv /\ Exact!SearchInv /\ [Next]_vars => (IInv /\ Exact!SearchInv)'
  <2> SUFFICES ASSUME IInv, Exact!SearchInv, [Next]_vars
               PROVE  IInv' /\ Exact!SearchInv'
    OBVIOUS
  <2>1. IInv'
    BY NextIInv
  <2>2. [Exact!Next]_(Exact!vars)
    BY StepSimulates, SameSteps
  <2>3. Exact!ScopedPlans /\ Exact!ClosedGraphs
    BY FitForExactness
  <2>4. Exact!SearchInv'
    BY <2>2, <2>3, Exact!NextInv, DataAssumption
  <2>5. QED  BY <2>1, <2>4
<1>3. QED  BY <1>1, <1>2, PTL DEF Spec

\* Over closed graphs, a query whose plan binds every alias once and before it
\* is read returns exactly the bindings that satisfy every step of the plan,
\* read as conditions on the part of the graph that healthy replicas serve.
THEOREM AnswersAreExact == GraphsClosed /\ PlansScoped => (Spec => []AnswerIsExact)
<1>1. Exact!SearchInv => AnswerIsExact
  <2>1. Exact!Answer(Graph, Reach, plan) = Search!Answer(Graph, Reach, plan)
    BY SameSemantics
  <2>2. Exact!SearchInv /\ phase = "done" => current = Exact!Answer(Graph, Reach, plan)
    BY DEF Exact!SearchInv, AbstractPhase
  <2>3. QED  BY <2>1, <2>2 DEF AnswerIsExact
<1>2. QED  BY <1>1, AnswerInvariant, PTL

\* Reading more nodes adds walks and rows, and takes no edge away from a node
\* that could be read before: a step that holds on a part of the graph holds
\* on all of it, a NOT EXISTS included.
LEMMA PartIsSound ==
  ASSUME NEW g, IsGraph(g), NEW R, R \subseteq NodeId, NEW s \in PlanStep, NEW b,
         Search!StepHolds(g, R, s, b)
  PROVE  Search!StepHolds(g, NodeId, s, b)
<1>1. \A n : Search!Exits(g, R, s, n) \subseteq Search!Exits(g, NodeId, s, n)
  BY DEF Search!Exits
<1>2. CASE s.kind \in {"start", "all"}
  BY <1>2 DEF Search!StepHolds
<1>3. CASE s.kind = "hop"
  <2>1. ASSUME NEW d, Search!Walk(g, R, s, b[s.from], b[s.to], d)
        PROVE  Search!Walk(g, NodeId, s, b[s.from], b[s.to], d)
    BY <1>1, <2>1 DEF Search!Walk
  <2>2. Search!Passes(g, R, s, b) => Search!Passes(g, NodeId, s, b)
    BY DEF Search!Passes
  <2>3. QED  BY <1>1, <1>3, <2>1, <2>2 DEF Search!StepHolds
<1>4. CASE s.kind = "anti"
  <2>1. Search!NoSuchEdge(g, R, s, b)
    BY <1>4 DEF Search!StepHolds
  <2>2. Search!ReadableRows(g, R) \subseteq Search!ReadableRows(g, NodeId)
    BY DEF Search!ReadableRows
  <2>3. Search!Resolvable(g, NodeId, s, b)
    BY <2>1, <2>2 DEF Search!NoSuchEdge, Search!Resolvable
  <2>4. b[s.from] \in R /\ b[s.from] \in NodeId
    BY <2>1 DEF Search!NoSuchEdge
  <2>5. Search!Exits(g, NodeId, s, b[s.from]) = Search!Exits(g, R, s, b[s.from])
    BY <2>4 DEF Search!Exits
  <2>6. Search!NoSuchEdge(g, NodeId, s, b)
    BY <2>1, <2>3, <2>4, <2>5 DEF Search!NoSuchEdge
  <2>7. QED  BY <1>4, <2>6 DEF Search!StepHolds
<1>5. QED
  BY <1>2, <1>3, <1>4 DEF PlanStep, StartStep, AllStep, HopStep, AntiStep

\* What a cluster with partitions nobody serves returns is an answer on the
\* whole graph: a missing partition may hide rows and never invents one.
THEOREM PartialAnswersAreSound ==
  GraphsClosed /\ PlansScoped => (Spec => []PartialAnswerIsSound)
<1> SUFFICES ASSUME GraphsClosed, PlansScoped PROVE Spec => []PartialAnswerIsSound
  OBVIOUS
<1>1. IInv /\ AnswerIsExact => PartialAnswerIsSound
  <2> SUFFICES ASSUME IInv, AnswerIsExact, phase = "done", NEW b \in current,
                      NEW i \in 1 .. Len(plan)
               PROVE  Search!StepHolds(Graph, NodeId, plan[i], b)
    BY DEF PartialAnswerIsSound, Search!Satisfies
  <2>1. Search!StepHolds(Graph, Reach, plan[i], b)
    BY DEF AnswerIsExact, Search!Answer, Search!Satisfies
  <2>2. IsGraph(Graph) /\ Reach \subseteq NodeId
    BY GraphFacts DEF Reach
  <2>3. plan[i] \in PlanStep
    BY ClusterAssumption DEF IInv, TypeOK, IsPlan
  <2>4. QED  BY <2>1, <2>2, <2>3, PartIsSound
<1>2. QED
  BY <1>1, ProgressInvariant, AnswersAreExact, PTL

----------------------------------------------------------------------------
(* One call for a hop of several edges, answered inside one partition.     *)

\* Sets of numbers have a least member: what the recursion of a walk's levels
\* computes is shown by taking the first level where it would fail.
LEMMA LeastNumber ==
  ASSUME NEW T \in SUBSET Nat, T # {}
  PROVE  \E n \in T : \A m \in T : n <= m
<1>1. PICK n \in T : \A m \in T : <<m, n>> \notin OpToRel(<, Nat)
  BY NatLessThanWellFounded, WFMin, Zenon
<1>2. \A m \in T : ~ (m < n)
  BY <1>1 DEF OpToRel
<1>3. QED  BY <1>2

\* Repeating a function from a start is well defined.
LEMMA Repeated ==
  ASSUME NEW U, NEW start \in U, NEW F \in [U -> U], NEW N \in Nat
  PROVE  \E f \in [0 .. N -> U] :
           f = [d \in 0 .. N |-> IF d = 0 THEN start ELSE F[f[d - 1]]]
<1> DEFINE Reps(m, f) == \A d \in 0 .. m : f[d] = IF d = 0 THEN start ELSE F[f[d - 1]]
           T == {m \in Nat : ~ \E f \in [0 .. m -> U] : Reps(m, f)}
<1>1. T = {}
  <2> SUFFICES ASSUME T # {} PROVE FALSE
    OBVIOUS
  <2>1. PICK m \in T : \A k \in T : m <= k
    BY LeastNumber
  <2>2. CASE m = 0
    <3> DEFINE f == [d \in 0 .. 0 |-> start]
    <3>1. f \in [0 .. 0 -> U] /\ f[0] = start
      OBVIOUS
    <3> HIDE DEF f
    <3>2. Reps(0, f)
      BY <3>1
    <3>3. QED  BY <2>1, <2>2, <3>1, <3>2
  <2>3. CASE m # 0
    <3>1. m \in Nat /\ m - 1 \in Nat /\ ~ (m <= m - 1)
      BY <2>1, <2>3
    <3>2. PICK f \in [0 .. m - 1 -> U] : Reps(m - 1, f)
      BY <2>1, <3>1
    <3> DEFINE g == [d \in 0 .. m |-> IF d = m THEN F[f[m - 1]] ELSE f[d]]
    <3>3. f[m - 1] \in U
      BY <3>1
    <3>4. /\ g \in [0 .. m -> U] /\ g[m] = F[f[m - 1]]
          /\ \A d \in 0 .. m - 1 : g[d] = f[d]
      BY <3>1, <3>3
    <3> HIDE DEF g
    <3>5. ASSUME NEW d \in 0 .. m PROVE g[d] = IF d = 0 THEN start ELSE F[g[d - 1]]
      <4>1. CASE d = m
        BY <2>3, <3>1, <3>4, <4>1
      <4>2. CASE d = 0
        BY <2>3, <3>1, <3>2, <3>4, <4>2
      <4>3. CASE d # m /\ d # 0
        <5>1. d \in 0 .. m - 1 /\ d - 1 \in 0 .. m - 1
          BY <4>3, <3>1
        <5>2. QED  BY <3>2, <3>4, <4>3, <5>1
      <4>4. QED  BY <4>1, <4>2, <4>3
    <3>6. QED  BY <2>1, <3>1, <3>4, <3>5
  <2>4. QED  BY <2>2, <2>3
<1>2. PICK f \in [0 .. N -> U] : Reps(N, f)
  BY <1>1
<1>3. f = [d \in 0 .. N |-> IF d = 0 THEN start ELSE F[f[d - 1]]]
  BY <1>2
<1>4. QED  BY <1>3

\* The levels of a walk, each the next one's start, stay inside the partition.
LEMMA LevelsOf ==
  ASSUME NEW h, NEW p, NEW s \in HopStep, NEW start \in Owned(p, h)
  PROVE  LET idx == Build(p, h)
             level == Levels(idx, s, start)
         IN /\ level \in [0 .. s.max -> SUBSET Owned(p, h)]
            /\ level[0] = {start}
            /\ \A d \in 0 .. s.max - 1 :
                 level[d + 1] = UNION {x.dst_local : x \in Onward(idx, s, level[d])}
<1> DEFINE idx == Build(p, h)
           U == SUBSET Owned(p, h)
           F == [ns \in U |-> UNION {x.dst_local : x \in Onward(idx, s, ns)}]
           level == Levels(idx, s, start)
           Is(f) == f = [d \in 0 .. s.max |->
                           IF d = 0 THEN {start}
                           ELSE UNION {x.dst_local : x \in Onward(idx, s, f[d - 1])}]
<1>1. s.max \in Nat /\ s.dir \in Direction
  BY DEF HopStep
<1>2. ASSUME NEW ns, NEW x \in Onward(idx, s, ns) PROVE x.dst_local \subseteq Owned(p, h)
  BY <1>1, <1>2, NeighborsOfBuild DEF Onward, Entry
<1>3. F \in [U -> U]
  BY <1>2
<1>4. PICK f \in [0 .. s.max -> U] :
        f = [d \in 0 .. s.max |-> IF d = 0 THEN {start} ELSE F[f[d - 1]]]
  <2>1. {start} \in U
    OBVIOUS
  <2> DEFINE first == {start}
             N == s.max
  <2>2. first \in U /\ N \in Nat /\ F \in [U -> U]
    BY <1>1, <1>3, <2>1
  <2> HIDE DEF F, U, first, N
  <2>3. \E f \in [0 .. N -> U] :
          f = [d \in 0 .. N |-> IF d = 0 THEN first ELSE F[f[d - 1]]]
    BY <2>2, Repeated
  <2>4. QED  BY <2>3 DEF first, N
<1>5. \A d \in 0 .. s.max : d # 0 => f[d - 1] \in U
  BY <1>1
<1>6. Is(f)
  BY <1>4, <1>5
<1>7. level = CHOOSE l : Is(l)
  BY DEF Levels
<1>8. Is(level)
  BY <1>6, <1>7
<1>9. level \in [0 .. s.max -> U]
  <2> SUFFICES ASSUME NEW d \in 0 .. s.max
               PROVE  (IF d = 0 THEN {start}
                       ELSE UNION {x.dst_local : x \in Onward(idx, s, level[d - 1])}) \in U
    BY <1>8
  <2>1. QED  BY <1>2
<1>10. ASSUME NEW d \in 0 .. s.max - 1
       PROVE  level[d + 1] = UNION {x.dst_local : x \in Onward(idx, s, level[d])}
  <2>1. d + 1 \in 0 .. s.max /\ d + 1 # 0 /\ (d + 1) - 1 = d
    BY <1>1
  <2> HIDE DEF idx, level
  <2>2. QED  BY <1>8, <2>1
<1>11. level[0] = {start}
  BY <1>1, <1>8
<1>12. QED  BY <1>9, <1>10, <1>11

\* The entries a walk takes away from nodes of the partition are those of the
\* edges that leave them.
LEMMA OnwardOf ==
  ASSUME NEW h, NEW p, NEW s \in HopStep, NEW ns \in SUBSET Owned(p, h)
  PROVE  Onward(Build(p, h), s, ns) =
           {Entry(p, h, e, s.dir) :
              e \in {f \in DOMAIN h.edge :
                       \E y \in ns : f \in Search!Exits(h, Owned(p, h), s, y)}}
<1>1. s.dir \in Direction
  BY DEF HopStep
<1>2. ASSUME NEW y \in ns
      PROVE  Neighbors(Build(p, h), y, s.dir) =
               {Entry(p, h, e, s.dir) : e \in {f \in DOMAIN h.edge : Near(h.edge[f], s.dir) = y}}
  BY <1>1, NeighborsOfBuild
<1>3. ASSUME NEW e PROVE Entry(p, h, e, s.dir).type = h.edge[e].type
  BY DEF Entry
<1>4. ASSUME NEW x
      PROVE  x \in Onward(Build(p, h), s, ns) <=>
               \E y \in ns : \E e \in DOMAIN h.edge :
                  /\ Near(h.edge[e], s.dir) = y /\ TypeMatches(s.type, h.edge[e].type)
                  /\ x = Entry(p, h, e, s.dir)
  BY <1>2, <1>3 DEF Onward
<1>5. ASSUME NEW y \in ns, NEW e
      PROVE  e \in Search!Exits(h, Owned(p, h), s, y) <=>
               /\ e \in DOMAIN h.edge /\ Near(h.edge[e], s.dir) = y
               /\ TypeMatches(s.type, h.edge[e].type)
  BY SameHelpers DEF Search!Exits
<1>6. QED  BY <1>4, <1>5

\* Walks, for the search this module refines.
LEMMA SameWalks ==
  ASSUME NEW g, NEW R, NEW s
  PROVE  /\ \A n : Exact!Exits(g, R, s, n) = Search!Exits(g, R, s, n)
         /\ \A row, dir : Exact!Far(row, dir) = Far(row, dir)
         /\ \A a, z, d : Exact!Walk(g, R, s, a, z, d) <=> Search!Walk(g, R, s, a, z, d)
<1>1. ASSUME NEW n PROVE Exact!Exits(g, R, s, n) = Search!Exits(g, R, s, n)
  BY DEF Exact!Exits, Search!Exits, Exact!Near, Search!Near, Exact!TypeMatches,
         Search!TypeMatches
<1>2. ASSUME NEW row, NEW dir
      PROVE  Exact!Far(row, dir) = Far(row, dir) /\ Search!Far(row, dir) = Far(row, dir)
  BY DEF Exact!Far, Search!Far, Far
<1>3. ASSUME NEW a, NEW z, NEW d
      PROVE  Exact!Walk(g, R, s, a, z, d) <=> Search!Walk(g, R, s, a, z, d)
  BY <1>1, <1>2 DEF Exact!Walk, Search!Walk
<1>4. QED  BY <1>1, <1>2, <1>3

\* A walk of no edge stays where it is.
LEMMA WalkNowhere ==
  ASSUME NEW h, NEW R, NEW s, NEW n \in NodeId, NEW z
  PROVE  Search!Walk(h, R, s, n, z, 0) <=> z = n
<1>1. Search!Walk(h, R, s, n, z, 0) => z = n
  BY DEF Search!Walk
<1>2. Search!Walk(h, R, s, n, n, 0)
  <2> DEFINE w == [i \in 0 .. 0 |-> n]
  <2>1. w \in [0 .. 0 -> NodeId] /\ w[0] = n /\ 0 .. 0 - 1 = {}
    OBVIOUS
  <2> HIDE DEF w
  <2>2. QED  BY <2>1 DEF Search!Walk
<1>3. QED  BY <1>1, <1>2

\* A walk that reads only the nodes in R leaves each of its levels from a node
\* in R.
LEMMA WalkInside ==
  ASSUME NEW h, NEW R, R \subseteq NodeId, NEW s, NEW n \in NodeId, NEW z \in NodeId,
         NEW d \in Nat, NEW c, c = d + 1
  PROVE  Search!Walk(h, R, s, n, z, c) <=>
           \E y \in R : /\ Search!Walk(h, R, s, n, y, d)
                        /\ \E e \in Search!Exits(h, R, s, y) : Far(h.edge[e], s.dir) = z
<1>1. \A y : \A e \in Search!Exits(h, R, s, y) : y \in R
  BY DEF Search!Exits
<1>2. Exact!Walk(h, R, s, n, z, d + 1) <=>
        \E y \in NodeId : /\ Exact!Walk(h, R, s, n, y, d)
                          /\ \E e \in Exact!Exits(h, R, s, y) : Exact!Far(h.edge[e], s.dir) = z
  BY Exact!WalkOfOneMore, DataAssumption
<1>3. Search!Walk(h, R, s, n, z, d + 1) <=>
        \E y \in NodeId : /\ Search!Walk(h, R, s, n, y, d)
                          /\ \E e \in Search!Exits(h, R, s, y) : Far(h.edge[e], s.dir) = z
  BY <1>2, SameWalks
<1>4. QED  BY <1>1, <1>3

\* Level d holds the nodes that walks of d edges inside the partition end at.
LEMMA LevelsAreWalks ==
  ASSUME NEW h, IsGraph(h), NEW p, NEW s \in HopStep, NEW n \in Owned(p, h), NEW d \in 0 .. s.max
  PROVE  Levels(Build(p, h), s, n)[d] =
           {z \in Owned(p, h) : Search!Walk(h, Owned(p, h), s, n, z, d)}
<1> DEFINE part == Owned(p, h)
           idx == Build(p, h)
           level == Levels(idx, s, n)
           At(c) == {z \in part : Search!Walk(h, part, s, n, z, c)}
           T == {c \in 0 .. s.max : level[c] # At(c)}
<1>1. s.max \in Nat /\ part \in SUBSET NodeId
  BY DEF HopStep, Owned, IsGraph
<1>2. /\ level \in [0 .. s.max -> SUBSET part]
      /\ level[0] = {n}
      /\ \A c \in 0 .. s.max - 1 :
           level[c + 1] = UNION {x.dst_local : x \in Onward(idx, s, level[c])}
  BY LevelsOf
<1> HIDE DEF level
<1>3. At(0) = {n}
  <2>1. ASSUME NEW z \in part PROVE Search!Walk(h, part, s, n, z, 0) <=> z = n
    <3>1. n \in NodeId
      BY <1>1
    <3>2. QED  BY <3>1, WalkNowhere
  <2>2. QED  BY <2>1
<1>4. ASSUME NEW c \in 0 .. s.max - 1, level[c] = At(c)
      PROVE  level[c + 1] = At(c + 1)
  <2>1. c \in Nat /\ c \in 0 .. s.max
    BY <1>1
  <2>2. Onward(idx, s, level[c]) =
          {Entry(p, h, e, s.dir) :
             e \in {f \in DOMAIN h.edge : \E y \in level[c] : f \in Search!Exits(h, part, s, y)}}
    BY <1>2, <2>1, OnwardOf
  <2>3. ASSUME NEW z
        PROVE  z \in level[c + 1] <=>
                 /\ z \in part
                 /\ \E y \in level[c] : \E e \in Search!Exits(h, part, s, y) :
                      Far(h.edge[e], s.dir) = z
    <3>1. \A e : Entry(p, h, e, s.dir).dst_local = {Far(h.edge[e], s.dir)} \cap part
      BY DEF Entry
    <3>2. \A y : Search!Exits(h, part, s, y) \subseteq DOMAIN h.edge
      BY DEF Search!Exits
    <3> HIDE DEF part, idx, At
    <3>3. level[c + 1] = UNION {x.dst_local : x \in Onward(idx, s, level[c])}
      BY <1>2
    <3>4. QED  BY <2>2, <3>1, <3>2, <3>3
  <2>4. ASSUME NEW z \in part
        PROVE  Search!Walk(h, part, s, n, z, c + 1) <=>
                 \E y \in level[c] : \E e \in Search!Exits(h, part, s, y) :
                   Far(h.edge[e], s.dir) = z
    <3>1. n \in NodeId /\ z \in NodeId
      BY <1>1
    <3>2. Search!Walk(h, part, s, n, z, c + 1) <=>
            \E y \in part : /\ Search!Walk(h, part, s, n, y, c)
                            /\ \E e \in Search!Exits(h, part, s, y) : Far(h.edge[e], s.dir) = z
      <4>1. part \subseteq NodeId
        BY <1>1
      <4> HIDE DEF part
      <4>2. QED  BY <2>1, <3>1, <4>1, WalkInside
    <3>3. QED  BY <1>4, <3>2
  <2>5. QED  BY <2>3, <2>4
<1>5. T = {}
  <2> SUFFICES ASSUME T # {} PROVE FALSE
    OBVIOUS
  <2>1. T \in SUBSET Nat
    OBVIOUS
  <2>2. PICK c \in T : \A m \in T : c <= m
    BY <2>1, LeastNumber
  <2>3. c # 0
    BY <1>2, <1>3, <2>2
  <2>4. c - 1 \in 0 .. s.max - 1 /\ c - 1 \notin T /\ (c - 1) + 1 = c
    BY <1>1, <2>1, <2>2, <2>3
  <2>5. level[c - 1] = At(c - 1)
    BY <1>1, <2>4
  <2>6. QED  BY <1>4, <2>2, <2>4, <2>5
<1>6. QED  BY <1>5 DEF level

\* What the call takes: every edge that leaves a level below the last, and so
\* every walk inside the partition with one edge more.
LEMMA TakenAreWalks ==
  ASSUME NEW h, IsGraph(h), NEW p, NEW s \in HopStep, NEW n \in Owned(p, h), NEW z \in NodeId
  PROVE  LET part == Owned(p, h)
             level == Levels(Build(p, h), s, n)
             taken == UNION {Onward(Build(p, h), s, level[d]) : d \in 0 .. s.max - 1}
         IN /\ \A x \in taken : \E e \in DOMAIN h.edge : x = Entry(p, h, e, s.dir)
            /\ (\E e \in DOMAIN h.edge : /\ Entry(p, h, e, s.dir) \in taken
                                         /\ Far(h.edge[e], s.dir) = z)
                 <=> \E d \in 1 .. s.max : Search!Walk(h, part, s, n, z, d)
<1> DEFINE part == Owned(p, h)
           idx == Build(p, h)
           level == Levels(idx, s, n)
           taken == UNION {Onward(idx, s, level[d]) : d \in 0 .. s.max - 1}
           Leaves(e, d) == \E y \in level[d] : e \in Search!Exits(h, part, s, y)
<1>1. s.max \in Nat /\ part \subseteq NodeId /\ n \in NodeId
  BY DEF HopStep, Owned, IsGraph
<1>2. \A d \in 0 .. s.max : level[d] = {y \in part : Search!Walk(h, part, s, n, y, d)}
  BY LevelsAreWalks
<1> HIDE DEF level, idx
<1>3. ASSUME NEW d \in 0 .. s.max - 1
      PROVE  Onward(idx, s, level[d]) =
               {Entry(p, h, e, s.dir) : e \in {f \in DOMAIN h.edge : Leaves(f, d)}}
  <2>1. level[d] \in SUBSET part
    BY <1>1, <1>2
  <2>2. QED  BY <2>1, OnwardOf DEF idx
<1>4. \A x \in taken : \E e \in DOMAIN h.edge : x = Entry(p, h, e, s.dir)
  BY <1>3
<1>5. ASSUME NEW e, NEW f, Entry(p, h, e, s.dir) = Entry(p, h, f, s.dir) PROVE e = f
  BY <1>5 DEF Entry
<1>6. ASSUME NEW e \in DOMAIN h.edge
      PROVE  Entry(p, h, e, s.dir) \in taken <=> \E d \in 0 .. s.max - 1 : Leaves(e, d)
  <2>1. ASSUME NEW d \in 0 .. s.max - 1
        PROVE  Entry(p, h, e, s.dir) \in Onward(idx, s, level[d]) <=> Leaves(e, d)
    <3> HIDE DEF Leaves
    <3>1. QED  BY <1>3, <1>5
  <2>2. QED  BY <2>1
<1>7. ASSUME NEW d \in 0 .. s.max - 1, NEW c, c = d + 1
      PROVE  Search!Walk(h, part, s, n, z, c) <=>
               \E e \in DOMAIN h.edge : Leaves(e, d) /\ Far(h.edge[e], s.dir) = z
  <2>1. d \in Nat /\ d \in 0 .. s.max
    BY <1>1
  <2>2. Search!Walk(h, part, s, n, z, c) <=>
          \E y \in part : /\ Search!Walk(h, part, s, n, y, d)
                          /\ \E e \in Search!Exits(h, part, s, y) : Far(h.edge[e], s.dir) = z
    BY <1>1, <1>7, <2>1, WalkInside
  <2>3. \A y : Search!Exits(h, part, s, y) \subseteq DOMAIN h.edge
    BY DEF Search!Exits
  <2>4. level[d] = {y \in part : Search!Walk(h, part, s, n, y, d)}
    BY <1>2, <2>1
  <2> HIDE DEF part
  <2>5. QED  BY <2>2, <2>3, <2>4
<1>8. ASSUME NEW e \in DOMAIN h.edge, Entry(p, h, e, s.dir) \in taken, Far(h.edge[e], s.dir) = z
      PROVE  \E d \in 1 .. s.max : Search!Walk(h, part, s, n, z, d)
  <2>1. PICK d \in 0 .. s.max - 1 : Leaves(e, d)
    BY <1>6, <1>8
  <2>2. d + 1 \in 1 .. s.max
    BY <1>1
  <2>3. QED  BY <1>7, <1>8, <2>1, <2>2
<1>9. ASSUME NEW d \in 1 .. s.max, Search!Walk(h, part, s, n, z, d)
      PROVE  \E e \in DOMAIN h.edge : Entry(p, h, e, s.dir) \in taken /\ Far(h.edge[e], s.dir) = z
  <2>1. d - 1 \in 0 .. s.max - 1 /\ d = (d - 1) + 1
    BY <1>1
  <2>2. QED  BY <1>6, <1>7, <1>9, <2>1
<1>10. QED
  BY <1>4, <1>8, <1>9 DEF level, idx

\* The call, over a closed graph.
LEMMA OneCall ==
  ASSUME NEW h, IsGraph(h), Closed(h), NEW p \in Partition, NEW label,
         NEW s \in HopStep, s.edge # s.to, s.edge # NoAlias => s.max = 1,
         NEW n \in Owned(p, h)
  PROVE  OneCallFinds(h, p, s, label, n)
<1> DEFINE part    == Owned(p, h)
           idx     == Build(p, h)
           b       == FromNode(s.from, n)
           level   == Levels(idx, s, n)
           taken   == UNION {Onward(idx, s, level[d]) : d \in 0 .. s.max - 1}
           Over(x, ns) == {Extend(b, s.to, y, s.edge, x.edge) : y \in ns}
           counted == UNION {level[d] : d \in {c \in 1 .. s.max : c >= s.min}}
           locals  == IF s.edge # NoAlias THEN UNION {Over(x, x.dst_local) : x \in taken}
                      ELSE {[b EXCEPT ![s.to] = y] : y \in counted}
           found   == ExpandHops(idx, s, label, b)
           lengths == {d \in 1 .. s.max : d >= s.min}
           Walks(z, ds) == \E d \in ds : Search!Walk(h, part, s, n, z, d)
           Selected(z) == \A f \in s.filters : /\ <<label, f.prop>> \in Indexed
                                               /\ h.node[z].label = label
                                               /\ Holds(h.node[z].props, f)
           FarOf(e) == Far(h.edge[e], s.dir)
<1> SUFFICES ASSUME s.edge = NoAlias \/ lengths # {}
             PROVE  /\ {c[s.to] : c \in found.local} =
                         {z \in part : Walks(z, lengths) /\ Selected(z)}
                    /\ {c[s.to] : c \in found.remote} =
                         {z \in NodeId \ part : Walks(z, 1 .. s.max)}
                    /\ lengths = {1} /\ s.max = 1 /\ s.filters = {} =>
                         found.local \cup found.remote = ExpandHop(idx, s, s.from, s.edge, b)
  BY DEF OneCallFinds
<1>1. /\ s.max \in Nat /\ s.min \in Nat /\ s.dir \in Direction
      /\ s.from \in Alias /\ s.to \in Alias /\ s.edge \in Alias \cup {NoAlias}
  BY DEF HopStep
<1>2. part \subseteq NodeId /\ n \in part /\ n \in NodeId
  BY DEF Owned, IsGraph
<1>3. DOMAIN b = Alias /\ b[s.from] = n
  BY <1>1 DEF FromNode
<1>4. \A y, ed : Extend(b, s.to, y, s.edge, ed)[s.to] = y
  BY <1>1 DEF Extend
<1>5. \A y : [b EXCEPT ![s.to] = y][s.to] = y
  BY <1>1, <1>3
<1>6. ASSUME NEW e \in DOMAIN h.edge
      PROVE  FarOf(e) \in NodeId /\ FarOf(e) \in DOMAIN h.node
  BY <1>6 DEF Closed, IsGraph, Far
<1>7. ASSUME NEW e \in DOMAIN h.edge
      PROVE  /\ \A y : y \in Entry(p, h, e, s.dir).dst_local <=> y = FarOf(e) /\ y \in part
             /\ \A y : y \in Entry(p, h, e, s.dir).dst_remote <=> y = FarOf(e) /\ y \notin part
  BY <1>6 DEF Entry, Owned
<1>8. /\ found.local = ApplyFilters(idx, s, label, locals)
      /\ found.remote = UNION {Over(x, x.dst_remote) : x \in taken}
  BY <1>3 DEF ExpandHops
<1>9. ASSUME NEW z \in NodeId
      PROVE  /\ \A x \in taken : \E e \in DOMAIN h.edge : x = Entry(p, h, e, s.dir)
             /\ (\E e \in DOMAIN h.edge : Entry(p, h, e, s.dir) \in taken /\ FarOf(e) = z)
                  <=> Walks(z, 1 .. s.max)
  BY TakenAreWalks
<1>10. \A d \in 0 .. s.max : level[d] = {y \in part : Search!Walk(h, part, s, n, y, d)}
  BY LevelsAreWalks
<1>11. ASSUME NEW z
       PROVE  z \in counted <=> z \in part /\ Walks(z, lengths)
  BY <1>1, <1>10
<1>12. ASSUME NEW c
       PROVE  (\A f \in s.filters : c[s.to] \in LookupRange(idx, label, f)) /\ c[s.to] \in part
                <=> c[s.to] \in part /\ Selected(c[s.to])
  BY DEF LookupRange, Build
<1> HIDE DEF found, taken, level, idx, part, counted, Selected, Walks, FarOf, b
<1>13. {c[s.to] : c \in locals} = {z \in part : Walks(z, lengths)}
  <2>1. CASE s.edge = NoAlias
    <3>1. locals = {[b EXCEPT ![s.to] = y] : y \in counted}
      BY <2>1
    <3>2. counted = {z \in part : Walks(z, lengths)}
      BY <1>11
    <3>3. {c[s.to] : c \in locals} = counted
      <4> DEFINE At(y) == [b EXCEPT ![s.to] = y]
      <4>1. locals = {At(y) : y \in counted} /\ \A y : At(y)[s.to] = y
        BY <1>5, <3>1
      <4> HIDE DEF locals, At
      <4>2. QED  BY <4>1
    <3>4. QED  BY <3>2, <3>3
  <2>2. CASE s.edge # NoAlias
    <3>1. s.max = 1 /\ lengths = 1 .. s.max
      BY <1>1, <2>2
    <3>2. locals = UNION {Over(x, x.dst_local) : x \in taken}
      BY <2>2
    <3>3. ASSUME NEW c \in locals PROVE c[s.to] \in part /\ Walks(c[s.to], 1 .. s.max)
      <4>0. PICK x \in taken : \E y \in x.dst_local : c = Extend(b, s.to, y, s.edge, x.edge)
        BY <3>2, <3>3
      <4>1. PICK y \in x.dst_local : c = Extend(b, s.to, y, s.edge, x.edge)
        BY <4>0
      <4>2. PICK e \in DOMAIN h.edge : x = Entry(p, h, e, s.dir)
        BY <1>2, <1>9, <4>1
      <4>3. y = FarOf(e) /\ y \in part
        BY <1>7, <4>1, <4>2
      <4>4. QED  BY <1>2, <1>4, <1>9, <4>1, <4>2, <4>3
    <3>4. ASSUME NEW z \in part, Walks(z, 1 .. s.max) PROVE \E c \in locals : c[s.to] = z
      <4>1. PICK e \in DOMAIN h.edge : Entry(p, h, e, s.dir) \in taken /\ FarOf(e) = z
        BY <1>2, <1>9, <3>4
      <4>2. z \in Entry(p, h, e, s.dir).dst_local
        BY <1>7, <3>4, <4>1
      <4>3. Extend(b, s.to, z, s.edge, Entry(p, h, e, s.dir).edge) \in locals
        BY <3>2, <4>1, <4>2
      <4>4. QED  BY <1>4, <4>3
    <3> HIDE DEF locals, lengths
    <3>5. QED  BY <3>1, <3>3, <3>4
  <2>3. QED  BY <2>1, <2>2
<1>14. {c[s.to] : c \in found.local} = {z \in part : Walks(z, lengths) /\ Selected(z)}
  <2> HIDE DEF locals, lengths
  <2>1. ASSUME NEW c \in locals PROVE c \in found.local <=> Selected(c[s.to])
    BY <1>8, <1>12, <1>13, <2>1 DEF ApplyFilters
  <2>2. found.local \subseteq locals
    BY <1>8 DEF ApplyFilters
  <2>3. QED  BY <1>13, <2>1, <2>2
<1>15. {c[s.to] : c \in found.remote} = {z \in NodeId \ part : Walks(z, 1 .. s.max)}
  <2>1. ASSUME NEW c \in found.remote
        PROVE  c[s.to] \in NodeId \ part /\ Walks(c[s.to], 1 .. s.max)
    <3>0. PICK x \in taken : \E y \in x.dst_remote : c = Extend(b, s.to, y, s.edge, x.edge)
      BY <1>8, <2>1
    <3>1. PICK y \in x.dst_remote : c = Extend(b, s.to, y, s.edge, x.edge)
      BY <3>0
    <3>2. PICK e \in DOMAIN h.edge : x = Entry(p, h, e, s.dir)
      BY <1>2, <1>9, <3>1
    <3>3. y = FarOf(e) /\ y \in NodeId \ part
      BY <1>6, <1>7, <3>1, <3>2
    <3>4. QED  BY <1>4, <1>9, <3>1, <3>2, <3>3
  <2>2. ASSUME NEW z \in NodeId \ part, Walks(z, 1 .. s.max)
        PROVE  \E c \in found.remote : c[s.to] = z
    <3>1. PICK e \in DOMAIN h.edge : Entry(p, h, e, s.dir) \in taken /\ FarOf(e) = z
      BY <1>9, <2>2
    <3>2. z \in Entry(p, h, e, s.dir).dst_remote
      BY <1>7, <2>2, <3>1
    <3>3. Extend(b, s.to, z, s.edge, Entry(p, h, e, s.dir).edge) \in found.remote
      BY <1>8, <3>1, <3>2
    <3>4. QED  BY <1>4, <3>3
  <2>3. QED  BY <2>1, <2>2
<1>16. ASSUME lengths = {1}, s.max = 1, s.filters = {}
       PROVE  found.local \cup found.remote = ExpandHop(idx, s, s.from, s.edge, b)
  <2>1. level \in [0 .. s.max -> SUBSET part] /\ level[0] = {n}
    BY LevelsOf DEF level, idx, part
  <2>2. taken = Onward(idx, s, {n}) /\ counted = UNION {x.dst_local : x \in taken}
    <3>1. 0 .. s.max - 1 = {0} /\ {c \in 1 .. s.max : c >= s.min} = {1}
      BY <1>16
    <3>2. level[0 + 1] = UNION {x.dst_local : x \in Onward(idx, s, level[0])}
      BY <3>1, LevelsOf DEF level, idx
    <3>3. taken = UNION {Onward(idx, s, level[d]) : d \in {0}}
      BY <3>1 DEF taken
    <3>4. counted = UNION {level[d] : d \in {1}}
      BY <3>1 DEF counted
    <3>5. taken = Onward(idx, s, {n})
      BY <2>1, <3>3
    <3>6. counted = level[1]
      BY <3>4
    <3>7. 0 + 1 = 1
      OBVIOUS
    <3>8. QED  BY <2>1, <3>2, <3>5, <3>6, <3>7
  <2>3. taken = {x \in Neighbors(idx, b[s.from], s.dir) : TypeMatches(s.type, x.type)}
    BY <1>3, <2>2 DEF Onward
  <2>4. ASSUME s.edge = NoAlias, NEW y, NEW ed
        PROVE  [b EXCEPT ![s.to] = y] = Extend(b, s.to, y, s.edge, ed)
    BY <1>1, <2>4, DataAssumption DEF Extend, b, FromNode
  <2>5. locals = UNION {Over(x, x.dst_local) : x \in taken}
    <3>1. CASE s.edge # NoAlias
      BY <3>1
    <3>2. CASE s.edge = NoAlias
      <4>1. locals = {[b EXCEPT ![s.to] = y] : y \in UNION {x.dst_local : x \in taken}}
        BY <2>2, <3>2
      <4>2. ASSUME NEW c
            PROVE  c \in locals <=> \E x \in taken : \E y \in x.dst_local :
                                     c = Extend(b, s.to, y, s.edge, x.edge)
        <5> DEFINE At(y) == [b EXCEPT ![s.to] = y]
        <5>1. \A y, ed : At(y) = Extend(b, s.to, y, s.edge, ed)
          BY <2>4, <3>2
        <5>2. locals = {At(y) : y \in UNION {x.dst_local : x \in taken}}
          BY <4>1
        <5> HIDE DEF locals, At
        <5>3. c \in locals <=> \E x \in taken : \E y \in x.dst_local : c = At(y)
          BY <5>2
        <5>4. QED  BY <5>1, <5>3
      <4> HIDE DEF locals
      <4>3. QED  BY <4>2
    <3>3. QED  BY <3>1, <3>2
  <2>6. found.local = locals
    BY <1>8, <1>16 DEF ApplyFilters
  <2>7. ExpandHop(idx, s, s.from, s.edge, b) =
          UNION {Over(x, x.dst_local \cup x.dst_remote) : x \in taken}
    BY <2>3 DEF ExpandHop
  <2>8. ASSUME NEW x
        PROVE  Over(x, x.dst_local \cup x.dst_remote) = Over(x, x.dst_local) \cup Over(x, x.dst_remote)
    OBVIOUS
  <2> HIDE DEF locals, Over
  <2>9. ASSUME NEW c
        PROVE  c \in ExpandHop(idx, s, s.from, s.edge, b) <=> c \in found.local \cup found.remote
    <3>1. c \in found.local <=> \E x \in taken : c \in Over(x, x.dst_local)
      BY <2>5, <2>6
    <3>2. c \in found.remote <=> \E x \in taken : c \in Over(x, x.dst_remote)
      BY <1>8
    <3>3. c \in ExpandHop(idx, s, s.from, s.edge, b) <=>
            \E x \in taken : c \in Over(x, x.dst_local \cup x.dst_remote)
      BY <2>7
    <3>4. QED  BY <2>8, <3>1, <3>2, <3>3
  <2>10. QED  BY <2>9
<1>17. QED  BY <1>14, <1>15, <1>16

\* Asked for a hop of several edges in one call, a partition finds exactly the
\* nodes that walks inside it reach and the filters select, and hands back
\* every way out of it within the maximum: the call and the rounds describe
\* the same walks, and for a single edge they are the same call.
THEOREM OneCallIsItsRounds ==
  GraphsClosed /\ PlansScoped => (Spec => []OneCallWalksItsPart)
<1> SUFFICES ASSUME GraphsClosed, PlansScoped PROVE Spec => []OneCallWalksItsPart
  OBVIOUS
<1>1. IInv => OneCallWalksItsPart
  <2> SUFFICES ASSUME IInv,
                      NEW i \in {j \in 1 .. Len(plan) : plan[j].kind = "hop"},
                      NEW p \in Partition, NEW label, NEW n \in Owned(p, Graph)
               PROVE  OneCallFinds(Graph, p, plan[i], label, n)
    BY DEF OneCallWalksItsPart
  <2>1. PICK s : s = plan[i]
    OBVIOUS
  <2>2. PICK h : h = Graph
    OBVIOUS
  <2>3. IsGraph(h) /\ Closed(h) /\ n \in Owned(p, h)
    BY <2>2, GraphFacts
  <2>4. plan \in Plans /\ IsPlan(plan)
    BY ClusterAssumption DEF IInv, TypeOK
  <2>5. s \in HopStep /\ (s.edge # NoAlias => s.max = 1)
    BY <2>1, <2>4 DEF IsPlan, StartStep, AllStep, AntiStep
  <2>6. s.edge # s.to
    BY <2>1, <2>4 DEF PlansScoped, Search!BindsOnce
  <2>7. OneCallFinds(h, p, s, label, n)
    BY <2>3, <2>5, <2>6, OneCall
  <2>8. QED  BY <2>1, <2>2, <2>7
<1>2. QED  BY <1>1, ProgressInvariant, PTL

----------------------------------------------------------------------------
(* What a binding owes to the generations seen.                            *)

\* The ends a step speaks of are nodes.
EndsAreNodes(s, b) ==
  /\ s.kind # "anti" => b[s.to] \in NodeId
  /\ s.kind \in {"hop", "anti"} => b[s.from] \in NodeId

Held(s, b) == EndsAreNodes(s, b) /\ StepWasTrue(s, b)

HeldBefore(b, i) == \A j \in 1 .. i - 1 : Held(plan[j], b)

\* After d rounds of a hop, and when the hop is over.
HopWas(s, b, d) ==
  /\ b[s.from] \in NodeId /\ b[s.to] \in NodeId
  /\ Walked(s, b[s.from], b[s.to], d)
  /\ s.edge # NoAlias => Left(s, b[s.from], b[s.edge], b[s.to])

Arrived(s, b) == \E d \in 1 .. s.max : d >= s.min /\ HopWas(s, b, d)

\* The row the id was hydrated from.
NodeRowWas(id, props) ==
  \E h \in SeenAt(id) : id \in DOMAIN h.node /\ Wire(h.node[id].props) = props
EdgeRowWas(id, props) ==
  \E n \in NodeId : \E h \in SeenAt(n) :
    id \in DOMAIN h.edge /\ h.edge[id].src = n /\ Wire(h.edge[id].props) = props
RowWas(id, props) == IF id \in NodeId THEN NodeRowWas(id, props) ELSE EdgeRowWas(id, props)

----------------------------------------------------------------------------
(* The past stays.                                                         *)

Grows == \A n \in NodeId : SeenAt(n) \subseteq SeenAt(n)'

LEMMA LeftGrows ==
  ASSUME Grows, NEW s, NEW n \in NodeId, NEW e, NEW m, Left(s, n, e, m)
  PROVE  Left(s, n, e, m)'
BY DEF Grows, Left

LEMMA WalkedGrows ==
  ASSUME Grows, NEW s, NEW a, NEW z, NEW d \in Nat, Walked(s, a, z, d)
  PROVE  Walked(s, a, z, d)'
<1>1. PICK w \in [0 .. d -> NodeId] :
        /\ w[0] = a /\ w[d] = z
        /\ \A i \in 0 .. d - 1 : \E e \in EdgeId : Left(s, w[i], e, w[i + 1])
  BY DEF Walked
<1>2. ASSUME NEW i \in 0 .. d - 1
      PROVE  \E e \in EdgeId : Left(s, w[i], e, w[i + 1])'
  <2>1. PICK e \in EdgeId : Left(s, w[i], e, w[i + 1]) BY <1>1
  <2>2. i \in 0 .. d BY <1>2
  <2>3. w[i] \in NodeId BY <2>2
  <2>4. QED BY <2>1, <2>3, LeftGrows
<1>3. QED BY <1>1, <1>2 DEF Walked

LEMMA HopGrows ==
  ASSUME Grows, NEW s, NEW b, NEW d \in Nat, HopWas(s, b, d)  PROVE HopWas(s, b, d)'
BY WalkedGrows, LeftGrows DEF HopWas

LEMMA RowGrows ==
  ASSUME Grows, NEW id, NEW props, RowWas(id, props)  PROVE RowWas(id, props)'
BY DEF Grows, RowWas, NodeRowWas, EdgeRowWas

LEMMA ValueGrows ==
  ASSUME Grows, NEW id, NEW prop, NEW v, ValueWas(id, prop, v)  PROVE ValueWas(id, prop, v)'
<1>1. CASE id \in NodeId
  BY <1>1 DEF Grows, ValueWas, NodeWas
<1>2. CASE id \notin NodeId
  BY <1>2 DEF Grows, ValueWas
<1>3. QED BY <1>1, <1>2

LEMMA HeldGrows ==
  ASSUME Grows, NEW s \in PlanStep, NEW b, Held(s, b)  PROVE Held(s, b)'
<1>1. EndsAreNodes(s, b) BY DEF Held
<1>2. CASE s.kind = "start"
  BY <1>1, <1>2 DEF Held, EndsAreNodes, StepWasTrue, NodeWas, Grows
<1>3. CASE s.kind = "all"
  BY <1>1, <1>3 DEF Held, EndsAreNodes, StepWasTrue, NodeWas, Grows
<1>4. CASE s.kind = "hop"
  <2>1. b[s.from] \in NodeId /\ b[s.to] \in NodeId BY <1>1, <1>4 DEF EndsAreNodes
  <2>2. /\ \E d \in 1 .. s.max : d >= s.min /\ Walked(s, b[s.from], b[s.to], d)
        /\ s.edge # NoAlias => Left(s, b[s.from], b[s.edge], b[s.to])
        /\ s.filters # {} =>
             \E h \in SeenAt(b[s.to]) :
               b[s.to] \in DOMAIN h.node /\ AllHold(h.node[b[s.to]].props, s.filters)
    BY <1>4 DEF Held, StepWasTrue, NodeWas
  <2>3. /\ \E d \in 1 .. s.max : d >= s.min /\ Walked(s, b[s.from], b[s.to], d)'
        /\ s.edge # NoAlias => Left(s, b[s.from], b[s.edge], b[s.to])'
    BY <2>1, <2>2, WalkedGrows, LeftGrows
  <2>4. s.filters # {} =>
          \E h \in SeenAt(b[s.to])' :
            b[s.to] \in DOMAIN h.node /\ AllHold(h.node[b[s.to]].props, s.filters)
    BY <2>1, <2>2 DEF Grows
  <2>5. QED BY <1>1, <1>4, <2>3, <2>4 DEF Held, EndsAreNodes, StepWasTrue, NodeWas
<1>5. CASE s.kind = "anti"
  <2> DEFINE Refuted(h, literal) ==
               \A e \in Search!Exits(h, {b[s.from]}, s, b[s.from]) :
                 Far(h.edge[e], s.dir) = b[s.to] =>
                   ~ AllHold(h.edge[e].props,
                             s.literal \cup {[prop |-> o.prop, op |-> o.op,
                                              val |-> literal[o]] : o \in s.outer})
  <2>1. b[s.from] \in NodeId BY <1>1, <1>5 DEF EndsAreNodes
  <2>2. PICK literal \in [s.outer -> Value] :
          /\ \A o \in s.outer : ValueWas(b[o.alias], o.outer, literal[o])
          /\ \E h \in SeenAt(b[s.from]) : Refuted(h, literal)
    BY <1>5 DEF Held, StepWasTrue
  <2>3. \A o \in s.outer : ValueWas(b[o.alias], o.outer, literal[o])' BY <2>2, ValueGrows
  <2> HIDE DEF Refuted
  <2>4. \E h \in SeenAt(b[s.from])' : Refuted(h, literal) BY <2>1, <2>2 DEF Grows
  <2>5. QED BY <1>1, <1>5, <2>3, <2>4 DEF Held, EndsAreNodes, StepWasTrue, Refuted
<1>6. s.kind \in {"start", "all", "hop", "anti"}
  BY DEF PlanStep, StartStep, AllStep, HopStep, AntiStep
<1>7. QED BY <1>2, <1>3, <1>4, <1>5, <1>6

----------------------------------------------------------------------------
(* Walks, and the aliases a step speaks of.                                *)

LEMMA WalkOn ==
  ASSUME NEW s, NEW a, NEW z, NEW d \in Nat, Walked(s, a, z, d),
         NEW e \in EdgeId, NEW m \in NodeId, Left(s, z, e, m)
  PROVE  Walked(s, a, m, d + 1)
<1>1. PICK w \in [0 .. d -> NodeId] :
        /\ w[0] = a /\ w[d] = z
        /\ \A i \in 0 .. d - 1 : \E f \in EdgeId : Left(s, w[i], f, w[i + 1])
  BY DEF Walked
<1> DEFINE v == [i \in 0 .. d + 1 |-> IF i = d + 1 THEN m ELSE w[i]]
<1>2. v \in [0 .. d + 1 -> NodeId] OBVIOUS
<1>3. v[0] = a /\ v[d + 1] = m BY <1>1
<1>4. ASSUME NEW i \in 0 .. (d + 1) - 1
      PROVE  \E f \in EdgeId : Left(s, v[i], f, v[i + 1])
  <2>1. CASE i = d
    <3>1. v[i] = z /\ v[i + 1] = m BY <1>1, <2>1
    <3> HIDE DEF v
    <3>2. QED BY <3>1
  <2>2. CASE i # d
    <3>1. i \in 0 .. d - 1 /\ i + 1 \in 0 .. d /\ i + 1 # d + 1 BY <1>4, <2>2
    <3>2. v[i] = w[i] /\ v[i + 1] = w[i + 1] BY <3>1
    <3> HIDE DEF v
    <3>3. QED BY <1>1, <3>1, <3>2
  <2>3. QED BY <2>1, <2>2
<1> HIDE DEF v
<1>5. QED BY <1>2, <1>3, <1>4 DEF Walked

LEMMA WalkStarts ==
  ASSUME NEW s, NEW a \in NodeId, NEW e \in EdgeId, NEW m \in NodeId, Left(s, a, e, m)
  PROVE  Walked(s, a, m, 1)
<1> DEFINE w == [i \in 0 .. 0 |-> a]
<1>1. w \in [0 .. 0 -> NodeId] /\ w[0] = a OBVIOUS
<1>2. \A i \in 0 .. 0 - 1 : FALSE OBVIOUS
<1> HIDE DEF w
<1>3. Walked(s, a, a, 0) BY <1>1, <1>2 DEF Walked
<1>4. Walked(s, a, m, 0 + 1) BY <1>3, WalkOn
<1>5. QED BY <1>4

\* What was true of a binding is true of another that agrees with it on the
\* aliases of the step.
LEMMA HeldAgrees ==
  ASSUME NEW s \in PlanStep, NEW b, NEW c, Held(s, b),
         \A a \in Search!Reads(s) \cup Search!Binds(s) : c[a] = b[a]
  PROVE  Held(s, c)
<1>1. CASE s.kind \in {"start", "all"}
  <2>1. s.to \in Search!Binds(s) BY <1>1 DEF Search!Binds
  <2>2. c[s.to] = b[s.to] BY <2>1
  <2>3. QED BY <1>1, <2>2 DEF Held, EndsAreNodes, StepWasTrue
<1>2. CASE s.kind = "hop"
  <2>1. s \in HopStep /\ s.to \in Alias BY <1>2 DEF PlanStep, StartStep, AllStep, HopStep, AntiStep
  <2>2. /\ s.from \in Search!Reads(s) /\ s.to \in Search!Binds(s)
        /\ s.edge # NoAlias => s.edge \in Search!Binds(s)
    BY <1>2, <2>1, DataAssumption DEF Search!Reads, Search!Binds
  <2>3. c[s.from] = b[s.from] /\ c[s.to] = b[s.to] /\ (s.edge # NoAlias => c[s.edge] = b[s.edge])
    BY <2>2
  <2>4. QED BY <1>2, <2>3 DEF Held, EndsAreNodes, StepWasTrue
<1>3. CASE s.kind = "anti"
  <2>1. c[s.from] = b[s.from] /\ c[s.to] = b[s.to] /\ \A o \in s.outer : c[o.alias] = b[o.alias]
    BY <1>3 DEF Search!Reads
  <2>2. PICK literal \in [s.outer -> Value] :
          /\ \A o \in s.outer : ValueWas(b[o.alias], o.outer, literal[o])
          /\ \E h \in SeenAt(b[s.from]) :
               \A e \in Search!Exits(h, {b[s.from]}, s, b[s.from]) :
                 Far(h.edge[e], s.dir) = b[s.to] =>
                   ~ AllHold(h.edge[e].props,
                             s.literal \cup {[prop |-> o.prop, op |-> o.op,
                                              val |-> literal[o]] : o \in s.outer})
    BY <1>3 DEF Held, StepWasTrue
  <2>3. \A o \in s.outer : ValueWas(c[o.alias], o.outer, literal[o]) BY <2>1, <2>2
  <2>4. EndsAreNodes(s, c) BY <1>3, <2>1 DEF Held, EndsAreNodes
  <2>5. StepWasTrue(s, c) BY <1>3, <2>1, <2>2, <2>3 DEF StepWasTrue
  <2>6. QED BY <2>4, <2>5 DEF Held
<1>4. s.kind \in {"start", "all", "hop", "anti"}
  BY DEF PlanStep, StartStep, AllStep, HopStep, AntiStep
<1>5. QED BY <1>1, <1>2, <1>3, <1>4

LEMMA StepAliases ==
  ASSUME NEW s \in PlanStep
  PROVE  Search!Reads(s) \subseteq Alias /\ Search!Binds(s) \subseteq Alias
BY DEF PlanStep, StartStep, AllStep, HopStep, AntiStep, OuterCondition, Search!Reads, Search!Binds

LEMMA Scope ==
  ASSUME PlansScoped, NEW pl \in Plans, NEW i \in 1 .. Len(pl) + 1
  PROVE  /\ \A j \in 1 .. i - 1 :
              /\ pl[j] \in PlanStep
              /\ Search!Reads(pl[j]) \cup Search!Binds(pl[j]) \subseteq Search!BoundBefore(pl, i)
         /\ Search!BoundBefore(pl, i) \subseteq Alias
         /\ i <= Len(pl) =>
              /\ pl[i] \in PlanStep
              /\ Search!Binds(pl[i]) \cap Search!BoundBefore(pl, i) = {}
              /\ pl[i].kind = "hop" =>
                   pl[i].edge # pl[i].to /\ pl[i].from \in Search!BoundBefore(pl, i)
<1>1. pl \in Seq(PlanStep) /\ Len(pl) \in Nat BY ClusterAssumption DEF IsPlan
<1>2. Search!ReadsBound(pl) /\ Search!BindsOnce(pl) BY DEF PlansScoped
<1>3. ASSUME NEW j \in 1 .. i - 1
      PROVE  /\ j \in 1 .. Len(pl) /\ pl[j] \in PlanStep
             /\ Search!Binds(pl[j]) \subseteq Search!BoundBefore(pl, i)
             /\ Search!Reads(pl[j]) \subseteq Search!BoundBefore(pl, i)
  <2>1. j \in 1 .. Len(pl) BY <1>1, <1>3
  <2>2. pl[j] \in PlanStep BY <1>1, <2>1
  <2>3. Search!Binds(pl[j]) \subseteq Search!BoundBefore(pl, i) BY DEF Search!BoundBefore
  <2>4. 1 .. j - 1 \subseteq 1 .. i - 1 BY <1>1, <1>3
  <2>5. Search!BoundBefore(pl, j) \subseteq Search!BoundBefore(pl, i)
    BY <2>4 DEF Search!BoundBefore
  <2>6. Search!Reads(pl[j]) \subseteq Search!BoundBefore(pl, j)
    BY <1>2, <2>1 DEF Search!ReadsBound
  <2>7. QED BY <2>1, <2>2, <2>3, <2>5, <2>6
<1>4. Search!BoundBefore(pl, i) \subseteq Alias
  BY <1>3, StepAliases DEF Search!BoundBefore
<1>5. ASSUME i <= Len(pl)
      PROVE  /\ pl[i] \in PlanStep
             /\ Search!Binds(pl[i]) \cap Search!BoundBefore(pl, i) = {}
             /\ pl[i].kind = "hop" =>
                  pl[i].edge # pl[i].to /\ pl[i].from \in Search!BoundBefore(pl, i)
  <2>1. i \in 1 .. Len(pl) BY <1>1, <1>5
  <2>2. pl[i] \in PlanStep BY <1>1, <2>1
  <2>3. Search!Reads(pl[i]) \subseteq Search!BoundBefore(pl, i)
    BY <1>2, <2>1 DEF Search!ReadsBound
  <2>4. pl[i].kind = "hop" => pl[i].from \in Search!Reads(pl[i]) BY DEF Search!Reads
  <2>5. QED BY <1>2, <2>1, <2>2, <2>3, <2>4 DEF Search!BindsOnce
<1>6. QED BY <1>3, <1>4, <1>5

LEMMA HeldBeforeAgrees ==
  ASSUME PlansScoped, plan \in Plans, NEW i \in 1 .. Len(plan) + 1, NEW b, NEW c,
         HeldBefore(b, i), \A a \in Search!BoundBefore(plan, i) : c[a] = b[a]
  PROVE  HeldBefore(c, i)
<1>1. ASSUME NEW j \in 1 .. i - 1 PROVE Held(plan[j], c)
  <2>1. Held(plan[j], b) BY DEF HeldBefore
  <2>2. /\ plan[j] \in PlanStep
        /\ Search!Reads(plan[j]) \cup Search!Binds(plan[j]) \subseteq Search!BoundBefore(plan, i)
    BY Scope
  <2>3. \A a \in Search!Reads(plan[j]) \cup Search!Binds(plan[j]) : c[a] = b[a] BY <2>2
  <2>4. QED BY <2>1, <2>2, <2>3, HeldAgrees
<1>2. QED BY <1>1 DEF HeldBefore

LEMMA HeldBeforeNext ==
  ASSUME NEW b, NEW i \in Nat \ {0}, HeldBefore(b, i), Held(plan[i], b)
  PROVE  HeldBefore(b, i + 1)
<1>1. \A j \in 1 .. (i + 1) - 1 : j \in 1 .. i - 1 \/ j = i OBVIOUS
<1>2. QED BY <1>1 DEF HeldBefore

----------------------------------------------------------------------------
(* The invariant.  Recorded is about the swaps; Honest says what the       *)
(* bindings of each phase owe to the steps behind them; Hydration says     *)
(* where the rows fetched come from, and that there is one for each id.    *)

Recorded ==
  /\ \A p \in Partition : Routed(p) => Host[route[p]] = p
  /\ seen \in [Replica -> SUBSET Graphs]
  /\ \A r \in Replica : served[r] \in seen[r]
  /\ swaps \in 0 .. MaxSwaps

\* The phases that work on a frontier, and those of a NOT EXISTS.
OnFrontier == {"hop", "filter", "nodes", "edges", "anti", "done"}
OfAnti == {"nodes", "edges", "anti"}

\* At step i, phase f and round d, with frontier B, bindings N gathered and A
\* accepted.
Owing(f, i, d, B, N, A) ==
  /\ f = "resolve" => \A b \in N : Held(plan[1], b)
  /\ f \in OnFrontier => \A b \in B : HeldBefore(b, i)
  /\ f = "hop" =>
       /\ d > 1 => \A b \in B : HopWas(plan[i], b, d - 1)
       /\ \A b \in N : HeldBefore(b, i) /\ HopWas(plan[i], b, d)
       /\ \A b \in A : HeldBefore(b, i) /\ Arrived(plan[i], b)
  /\ f = "filter" => \A b \in B : Arrived(plan[i], b)
  /\ f = "anti" => \A b \in N : HeldBefore(b, i) /\ Held(plan[i], b)
  /\ f = "done" => i > Len(plan)

Honest == Owing(phase, pos, depth, current, next, accepted)

Hydration ==
  /\ phase \in {"resolve", "hop"} => hydrated = {}
  /\ \A h \in hydrated : RowWas(h[1], h[2])
  /\ phase \in OfAnti => \A h \in hydrated, k \in hydrated : h[1] = k[1] => h = k
  /\ phase = "nodes" => \A h \in hydrated : h[1] \in NodeId /\ Plain(Owner[h[1]]) \in asked

RInv == TypeInv /\ Recorded /\ Honest /\ Hydration

----------------------------------------------------------------------------
(* What an RPC reads, it reads from a generation seen.                     *)

LEMMA ServedSeen ==
  ASSUME GraphsClosed, TypeInv, Recorded, NEW p \in Partition, Routed(p)
  PROVE  \E h \in Graphs : /\ IsGraph(h) /\ Closed(h) /\ Idx(p) = Build(p, h)
                           /\ \A n \in Slice(p) : h \in SeenAt(n)
<1>1. route[p] \in Replica BY DEF TypeInv, TypeOK, Routed
<1>2. served[route[p]] \in Graphs BY <1>1 DEF TypeInv, TypeOK
<1>3. \A n \in Slice(p) : served[route[p]] \in SeenAt(n)
  BY <1>1 DEF Recorded, SeenAt, Slice
<1>4. QED BY <1>1, <1>2, <1>3, ClusterAssumption DEF GraphsClosed, Idx, Recorded

LEMMA StartWas ==
  ASSUME NEW h, IsGraph(h), NEW p, \A n \in Slice(p) : h \in SeenAt(n),
         NEW s \in StartStep \cup AllStep, NEW b \in Resolve(Build(p, h), s)
  PROVE  Held(s, b)
<1>1. b \in Search!Starts(h, Slice(p), s) BY ResolveSlice
<1>2. PICK n \in DOMAIN h.node \cap Slice(p) :
        Search!Selects(h, s, n) /\ b = Search!FromNode(s.to, n)
  BY <1>1 DEF Search!Starts
<1>3. s.to \in Alias /\ s.kind \in {"start", "all"} BY DEF StartStep, AllStep
<1>4. b[s.to] = n /\ n \in NodeId BY <1>2, <1>3, GraphRows DEF Search!FromNode
<1>5. h \in SeenAt(n) BY <1>2
<1>6. QED
  BY <1>2, <1>3, <1>4, <1>5 DEF Held, EndsAreNodes, StepWasTrue, NodeWas, Search!Selects

\* A round of a hop takes a binding one edge further, and leaves what it
\* owes to the steps before as it was.
LEMMA HopOnward ==
  ASSUME GraphsClosed, PlansScoped, TypeInv, phase = "hop",
         NEW h, IsGraph(h), Closed(h), NEW p, \A n \in Slice(p) : h \in SeenAt(n),
         NEW b \in current, b[Cursor] \in Slice(p), depth <= step.max,
         HeldBefore(b, pos), depth > 1 => HopWas(step, b, depth - 1),
         NEW c \in ExpandHop(Build(p, h), step, Cursor, EdgeAlias, b)
  PROVE  HeldBefore(c, pos) /\ HopWas(step, c, depth)
<1>1. /\ plan \in Plans /\ pos \in 1 .. Len(plan) + 1 /\ pos <= Len(plan)
      /\ step \in HopStep /\ depth \in Nat \ {0} /\ Len(plan) \in Nat \ {0}
  BY PlanTypes DEF TypeInv, TypeOK, PhaseFitsStep
<1>2. /\ step.kind = "hop" /\ step.from \in Alias /\ step.to \in Alias
      /\ step.edge \in Alias \cup {NoAlias}
  BY <1>1 DEF HopStep
<1>3. PICK e \in Search!Exits(h, Slice(p), step, b[Cursor]) :
        c = Search!Extend(b, step.to, Search!Far(h.edge[e], step.dir), EdgeAlias, e)
  BY <1>1, ExpandSlice
<1> DEFINE z == Far(h.edge[e], step.dir)
<1>4. /\ e \in DOMAIN h.edge /\ e \in EdgeId /\ z \in NodeId
      /\ b[Cursor] \in NodeId /\ h \in SeenAt(b[Cursor])
      /\ e \in Search!Exits(h, {b[Cursor]}, step, b[Cursor])
  BY <1>3, GraphRows DEF Search!Exits, Slice, Far
<1>5. Left(step, b[Cursor], e, z) BY <1>4 DEF Left
<1>6. c = Search!Extend(b, step.to, z, EdgeAlias, e) BY <1>3, SameHelpers
<1>7. /\ Search!Binds(step) \cap Search!BoundBefore(plan, pos) = {}
      /\ Search!BoundBefore(plan, pos) \subseteq Alias
      /\ step.edge # step.to /\ step.from \in Search!BoundBefore(plan, pos)
  BY <1>1, <1>2, Scope DEF step
<1>8. step.to \in Search!Binds(step) /\ (step.edge # NoAlias => step.edge \in Search!Binds(step))
  BY <1>2, DataAssumption DEF Search!Binds
<1>9. EdgeAlias \in {step.edge, NoAlias} BY DEF EdgeAlias
<1> HIDE DEF z
<1>10. \A a \in Search!BoundBefore(plan, pos) : c[a] = b[a]
  BY <1>6, <1>7, <1>8, <1>9, DataAssumption DEF Search!Extend
<1>11. HeldBefore(c, pos) BY <1>1, <1>10, HeldBeforeAgrees
<1>12. c[step.from] = b[step.from] BY <1>7, <1>10
<1>13. c[step.to] = z
  BY <1>2, <1>6, <1>7, <1>9, DataAssumption DEF Search!Extend
<1>14. HopWas(step, c, depth)
  <2>1. CASE depth = 1
    <3>1. Cursor = step.from /\ EdgeAlias = step.edge BY <2>1 DEF Cursor, EdgeAlias
    <3>2. Walked(step, b[step.from], z, 1) BY <1>4, <1>5, <3>1, WalkStarts
    <3>3. step.edge # NoAlias => c[step.edge] = e
      BY <1>2, <1>6, <3>1 DEF Search!Extend
    <3>4. QED BY <1>4, <1>5, <1>12, <1>13, <2>1, <3>1, <3>2, <3>3 DEF HopWas
  <2>2. CASE depth > 1
    <3>1. Cursor = step.to BY <2>2 DEF Cursor
    <3>2. HopWas(step, b, depth - 1) BY <2>2
    <3>3. depth - 1 \in Nat /\ (depth - 1) + 1 = depth BY <1>1, <2>2
    <3>4. Walked(step, b[step.from], b[step.to], depth - 1) /\ b[step.from] \in NodeId
      BY <3>2 DEF HopWas
    <3>5. Walked(step, b[step.from], z, (depth - 1) + 1)
      BY <1>4, <1>5, <3>1, <3>3, <3>4, WalkOn
    <3>6. step.edge = NoAlias
      <4>1. step.max \in Nat BY <1>1 DEF HopStep
      <4>2. step.max # 1 BY <1>1, <2>2, <4>1
      <4>3. IsPlan(plan) BY <1>1, ClusterAssumption
      <4>4. pos # 1
        BY <1>2, <4>3 DEF IsPlan, StartStep, AllStep, step
      <4>5. pos \in 2 .. Len(plan) BY <1>1, <4>4
      <4>6. QED BY <1>2, <4>2, <4>3, <4>5 DEF IsPlan, AntiStep, step
    <3>7. QED BY <1>4, <1>12, <1>13, <3>3, <3>4, <3>5, <3>6 DEF HopWas
  <2>3. QED BY <1>1, <2>1, <2>2
<1>15. QED BY <1>11, <1>14

LEMMA NodeRowsWere ==
  ASSUME NEW h, IsGraph(h), NEW p, \A n \in Slice(p) : h \in SeenAt(n),
         NEW ids, NEW r \in NodeProperties(Build(p, h), ids)
  PROVE  r[1] \in ids /\ r[1] \in Slice(p) /\ r[1] \in NodeId /\ RowWas(r[1], r[2])
<1>1. PICK id \in ids \cap DOMAIN h.node \cap Slice(p) : r = <<id, Wire(Search!PropsOf(h, id))>>
  BY HydrateSlice
<1>2. id \in NodeId /\ Search!PropsOf(h, id) = h.node[id].props
  BY <1>1, GraphRows DEF Search!PropsOf
<1>3. QED BY <1>1, <1>2 DEF RowWas, NodeRowWas

LEMMA EdgeRowsWere ==
  ASSUME NEW h, IsGraph(h), NEW p, \A n \in Slice(p) : h \in SeenAt(n),
         NEW ids, NEW r \in EdgeProperties(Build(p, h), ids)
  PROVE  r[1] \in ids /\ RowWas(r[1], r[2])
<1>1. PICK id \in ids \cap {e \in DOMAIN h.edge : h.edge[e].src \in Slice(p)} :
        r = <<id, Wire(Search!PropsOf(h, id))>>
  BY HydrateSlice
<1>2. id \notin NodeId /\ Search!PropsOf(h, id) = h.edge[id].props
  BY <1>1, GraphRows, DataAssumption DEF Search!PropsOf
<1>3. h.edge[id].src \in NodeId /\ h \in SeenAt(h.edge[id].src)
  BY <1>1 DEF Slice
<1>4. QED BY <1>1, <1>2, <1>3 DEF RowWas, EdgeRowWas

\* One answer names an id once.
LEMMA OneRowEach ==
  ASSUME NEW h, IsGraph(h), NEW p, NEW ids
  PROVE  /\ \A r \in NodeProperties(Build(p, h), ids), k \in NodeProperties(Build(p, h), ids) :
              r[1] = k[1] => r = k
         /\ \A r \in EdgeProperties(Build(p, h), ids), k \in EdgeProperties(Build(p, h), ids) :
              r[1] = k[1] => r = k
BY HydrateSlice

\* A row hydrated has the values the row had, where it has a literal at all.
LEMMA HydratedValue ==
  ASSUME NEW id, NEW props, RowWas(id, props), NEW q \in Property, props[q] \in Value
  PROVE  ValueWas(id, q, props[q])
<1>1. CASE id \in NodeId
  <2>1. PICK h \in SeenAt(id) : id \in DOMAIN h.node /\ Wire(h.node[id].props) = props
    BY <1>1 DEF RowWas, NodeRowWas
  <2>2. h.node[id].props[q] = props[q] BY <2>1, WireKeepsLiterals
  <2>3. QED BY <1>1, <2>1, <2>2 DEF ValueWas, NodeWas
<1>2. CASE id \notin NodeId
  <2>1. PICK n \in NodeId : \E h \in SeenAt(n) :
          id \in DOMAIN h.edge /\ h.edge[id].src = n /\ Wire(h.edge[id].props) = props
    BY <1>2 DEF RowWas, EdgeRowWas
  <2>2. PICK h \in SeenAt(n) :
          id \in DOMAIN h.edge /\ h.edge[id].src = n /\ Wire(h.edge[id].props) = props
    BY <2>1
  <2>3. h.edge[id].props[q] = props[q] BY <2>2, WireKeepsLiterals
  <2>4. QED BY <1>2, <2>2, <2>3 DEF ValueWas
<1>3. QED BY <1>1, <1>2

LEMMA AntiWas ==
  ASSUME TypeInv, Hydration, phase = "anti",
         NEW h, IsGraph(h), Closed(h), NEW p, \A n \in Slice(p) : h \in SeenAt(n),
         NEW b, b[step.from] \in Slice(p), Resolved(b),
         Survives(Build(p, h), step, Conditions(b), b)
  PROVE  Held(step, b)
<1>1. step \in AntiStep BY DEF TypeInv, PhaseFitsStep
<1>2. step.kind = "anti" /\ step.outer \subseteq OuterCondition BY <1>1 DEF AntiStep
<1> DEFINE RowOf(o) == CHOOSE r \in hydrated : r[1] = b[o.alias]
           literal == [o \in step.outer |-> RowOf(o)[2][o.outer]]
<1>3. ASSUME NEW o \in step.outer
      PROVE  /\ RowOf(o) \in hydrated /\ RowOf(o)[1] = b[o.alias]
             /\ literal[o] = RowOf(o)[2][o.outer] /\ literal[o] \in Value
             /\ \A r \in hydrated : r[1] = b[o.alias] => r = RowOf(o)
  <2>1. PICK r \in hydrated : r[1] = b[o.alias] /\ r[2][o.outer] \in Value
    BY DEF Resolved
  <2>2. RowOf(o) \in hydrated /\ RowOf(o)[1] = b[o.alias] BY <2>1
  <2>3. \A k \in hydrated : k[1] = b[o.alias] => k = RowOf(o)
    BY <2>2 DEF Hydration, OfAnti
  <2> HIDE DEF RowOf
  <2>4. QED BY <2>1, <2>2, <2>3
<1>4. literal \in [step.outer -> Value] BY <1>3
<1>5. ASSUME NEW o \in step.outer PROVE ValueWas(b[o.alias], o.outer, literal[o])
  <2>1. o.outer \in Property BY <1>2 DEF OuterCondition
  <2>2. RowWas(RowOf(o)[1], RowOf(o)[2]) BY <1>3 DEF Hydration
  <2> HIDE DEF RowOf
  <2>3. QED BY <1>3, <2>1, <2>2, HydratedValue
<1>6. Conditions(b) = step.literal \cup
        {[prop |-> o.prop, op |-> o.op, val |-> literal[o]] : o \in step.outer}
  <2> DEFINE Given(o) == {[prop |-> o.prop, op |-> o.op, val |-> r[2][o.outer]] :
                            r \in {x \in hydrated : x[1] = b[o.alias] /\ x[2][o.outer] \in Value}}
             Made(o) == [prop |-> o.prop, op |-> o.op, val |-> literal[o]]
  <2>1. ASSUME NEW o \in step.outer PROVE Given(o) = {Made(o)}
    <3>1. {x \in hydrated : x[1] = b[o.alias] /\ x[2][o.outer] \in Value} = {RowOf(o)}
      BY <1>3
    <3>2. literal[o] = RowOf(o)[2][o.outer] BY <1>3
    <3> HIDE DEF RowOf, literal
    <3>3. QED BY <3>1, <3>2
  <2>2. Conditions(b) = step.literal \cup UNION {Given(o) : o \in step.outer}
    BY Zenon DEF Conditions
  <2> HIDE DEF Given, Made
  <2>3. UNION {Given(o) : o \in step.outer} = {Made(o) : o \in step.outer} BY <2>1
  <2>4. QED BY <2>2, <2>3 DEF Made
<1> HIDE DEF literal, RowOf
<1>7. b[step.from] \in NodeId /\ h \in SeenAt(b[step.from]) BY DEF Slice
<1>8. Search!Exits(h, {b[step.from]}, step, b[step.from])
        = Search!Exits(h, Slice(p), step, b[step.from])
  BY DEF Search!Exits
<1>9. \A e \in Search!Exits(h, {b[step.from]}, step, b[step.from]) :
        Far(h.edge[e], step.dir) = b[step.to] => ~ AllHold(h.edge[e].props, Conditions(b))
  BY <1>1, <1>8, SurvivesSlice, SameHelpers
<1>10. StepWasTrue(step, b)
  BY <1>2, <1>4, <1>5, <1>6, <1>7, <1>9 DEF StepWasTrue
<1>11. QED BY <1>2, <1>7, <1>10 DEF Held, EndsAreNodes

\* A hop that arrived, with a row that passes its filters or none to pass.
LEMMA HopWasTrue ==
  ASSUME TypeInv, Hydration, step \in HopStep, NEW b, Arrived(step, b),
         step.filters = {} \/ Passes(b)
  PROVE  Held(step, b)
<1>1. step.kind = "hop" /\ step.filters \in SUBSET Filter BY DEF HopStep
<1>2. PICK d \in 1 .. step.max : d >= step.min /\ HopWas(step, b, d) BY DEF Arrived
<1>3. ASSUME step.filters # {}
      PROVE  NodeWas(b[step.to], LAMBDA row : AllHold(row.props, step.filters))
  <2>1. PICK r \in hydrated : r[1] = b[step.to] /\ AllHold(r[2], step.filters)
    BY <1>3 DEF Passes
  <2>2. b[step.to] \in NodeId BY <1>2 DEF HopWas
  <2>3. PICK h \in SeenAt(b[step.to]) :
          b[step.to] \in DOMAIN h.node /\ Wire(h.node[b[step.to]].props) = r[2]
    BY <2>1, <2>2 DEF Hydration, RowWas, NodeRowWas
  <2>4. AllHold(h.node[b[step.to]].props, step.filters)
    BY <1>1, <2>1, <2>3, WireKeepsLiterals
  <2>5. QED BY <2>3, <2>4 DEF NodeWas
<1>4. QED BY <1>1, <1>2, <1>3 DEF Held, EndsAreNodes, StepWasTrue, HopWas

----------------------------------------------------------------------------
(* The steps.  Each is judged by what was true before it; what was true    *)
(* then stays true.                                                        *)

LEMMA OwingGrows ==
  ASSUME Grows, PlansScoped, plan \in Plans, plan' = plan,
         NEW f, NEW i \in 1 .. Len(plan) + 1, NEW d \in Nat \ {0}, NEW B, NEW N, NEW A,
         f \in {"hop", "filter", "anti"} => i <= Len(plan),
         f \in {"hop", "filter"} => plan[i] \in HopStep,
         Owing(f, i, d, B, N, A)
  PROVE  Owing(f, i, d, B, N, A)'
<1>1. Len(plan) \in Nat \ {0} BY PlanTypes
<1>2. ASSUME NEW b, HeldBefore(b, i) PROVE HeldBefore(b, i)'
  <2>1. ASSUME NEW j \in 1 .. i - 1 PROVE Held(plan[j], b)'
    <3>1. plan[j] \in PlanStep /\ Held(plan[j], b) BY <1>2, Scope DEF HeldBefore
    <3>2. PICK s \in PlanStep : s = plan[j] BY <3>1
    <3>3. Held(s, b)' BY <3>1, <3>2, HeldGrows
    <3>4. QED BY <3>2, <3>3
  <2>2. QED BY <2>1 DEF HeldBefore
<1>3. ASSUME f \in {"hop", "filter", "anti"}
      PROVE  plan[i] \in PlanStep
  BY <1>1, <1>3, Scope
<1>4. ASSUME NEW b, NEW s \in PlanStep, Held(s, b) PROVE Held(s, b)' BY <1>4, HeldGrows
<1>5. ASSUME NEW b, NEW s \in HopStep, Arrived(s, b) PROVE Arrived(s, b)'
  <2>1. s.max \in Nat BY DEF HopStep
  <2>2. QED BY <1>5, <2>1, HopGrows DEF Arrived
<1>6. ASSUME NEW b, NEW s, NEW k \in Nat, HopWas(s, b, k) PROVE HopWas(s, b, k)'
  BY <1>6, HopGrows
<1>7. ASSUME f = "resolve", NEW b \in N PROVE Held(plan[1], b)'
  <2>1. Held(plan[1], b) BY <1>7 DEF Owing
  <2>2. plan[1] \in PlanStep BY PlanTypes DEF PlanStep
  <2>3. PICK s \in PlanStep : s = plan[1] BY <2>2
  <2>4. QED BY <1>4, <2>1, <2>3
<1>8. ASSUME f \in OnFrontier, NEW b \in B PROVE HeldBefore(b, i)'
  BY <1>2, <1>8 DEF Owing
<1>9. ASSUME f = "hop"
      PROVE  /\ d > 1 => \A b \in B : HopWas(plan[i], b, d - 1)'
             /\ \A b \in N : HeldBefore(b, i)' /\ HopWas(plan[i], b, d)'
             /\ \A b \in A : HeldBefore(b, i)' /\ Arrived(plan[i], b)'
  <2>1. PICK s \in HopStep : s = plan[i] BY <1>9
  <2>2. d > 1 => d - 1 \in Nat OBVIOUS
  <2>3. /\ d > 1 => \A b \in B : HopWas(s, b, d - 1)
        /\ \A b \in N : HeldBefore(b, i) /\ HopWas(s, b, d)
        /\ \A b \in A : HeldBefore(b, i) /\ Arrived(s, b)
    BY <1>9, <2>1 DEF Owing
  <2>4. /\ d > 1 => \A b \in B : HopWas(s, b, d - 1)'
        /\ \A b \in N : HeldBefore(b, i)' /\ HopWas(s, b, d)'
        /\ \A b \in A : HeldBefore(b, i)' /\ Arrived(s, b)'
    BY <1>2, <1>5, <1>6, <2>2, <2>3
  <2>5. QED BY <2>1, <2>4
<1>10. ASSUME f = "filter", NEW b \in B PROVE Arrived(plan[i], b)'
  <2>1. PICK s \in HopStep : s = plan[i] BY <1>10
  <2>2. QED BY <1>5, <1>10, <2>1 DEF Owing
<1>11. ASSUME f = "anti", NEW b \in N PROVE HeldBefore(b, i)' /\ Held(plan[i], b)'
  <2>1. PICK s \in PlanStep : s = plan[i] BY <1>3, <1>11
  <2>2. QED BY <1>2, <1>4, <1>11, <2>1 DEF Owing
<1>12. QED BY <1>7, <1>8, <1>9, <1>10, <1>11 DEF Owing

LEMMA EnterOwes ==
  ASSUME TypeInv, NEW i \in 1 .. Len(plan) + 1, NEW B, Enter(i, B),
         \A b \in B : HeldBefore(b, i)
  PROVE  Owing(phase', pos', depth', current', next', accepted')
BY DEF Enter, Owing, OnFrontier

LEMMA RpcOwes ==
  ASSUME GraphsClosed, PlansScoped, RInv, Rpc
  PROVE  Owing(phase', pos', depth', current', next', accepted')
<1>1. ASSUME NEW p \in Partition, ResolveRpc(p)
      PROVE  Owing(phase', pos', depth', current', next', accepted')
  <2>1. phase = "resolve" /\ step = plan[1] /\ step \in StartStep \cup AllStep
    BY <1>1, PlanTypes DEF ResolveRpc, RInv, TypeInv, TypeOK, PhaseFitsStep, step
  <2>2. ASSUME NEW b \in next' PROVE Held(plan[1], b)
    <3>1. CASE b \in next BY <2>1, <3>1 DEF RInv, Honest, Owing
    <3>2. CASE b \notin next
      <4>1. Routed(p) /\ b \in Resolve(Idx(p), step) BY <1>1, <3>2 DEF ResolveRpc
      <4>2. PICK h \in Graphs : /\ IsGraph(h) /\ Closed(h) /\ Idx(p) = Build(p, h)
                                /\ \A n \in Slice(p) : h \in SeenAt(n)
        BY <4>1, ServedSeen DEF RInv
      <4>3. QED BY <2>1, <4>1, <4>2, StartWas
    <3>3. QED BY <3>1, <3>2
  <2>3. phase' = "resolve" BY <1>1 DEF ResolveRpc
  <2>4. QED BY <2>2, <2>3 DEF Owing, OnFrontier
<1>2. ASSUME NEW p \in Partition, ExpandRpc(p)
      PROVE  Owing(phase', pos', depth', current', next', accepted')
  <2>1. phase = "hop" /\ phase' = "hop" /\ pos' = pos /\ depth' = depth
        /\ current' = current /\ accepted' = accepted
    BY <1>2 DEF ExpandRpc
  <2>2. depth <= step.max
    <3>1. Requests # {} BY <1>2 DEF ExpandRpc, Settle, Pending
    <3>2. ~ (depth > step.max) BY <2>1, <3>1 DEF Requests
    <3>3. step.max \in Nat /\ depth \in Nat
      BY <2>1 DEF RInv, TypeInv, TypeOK, PhaseFitsStep, HopStep
    <3>4. QED BY <3>2, <3>3
  <2>3. /\ \A b \in current : HeldBefore(b, pos)
        /\ depth > 1 => \A b \in current : HopWas(step, b, depth - 1)
        /\ \A b \in next : HeldBefore(b, pos) /\ HopWas(step, b, depth)
        /\ \A b \in accepted : HeldBefore(b, pos) /\ Arrived(step, b)
    BY <2>1 DEF RInv, Honest, Owing, OnFrontier, step
  <2>4. ASSUME NEW c \in next' PROVE HeldBefore(c, pos) /\ HopWas(step, c, depth)
    <3>1. CASE c \in next BY <2>3, <3>1
    <3>2. CASE c \notin next
      <4>1. Routed(p) /\ \E b \in OwnedBy(p, Cursor, current) :
                           c \in ExpandHop(Idx(p), step, Cursor, EdgeAlias, b)
        BY <1>2, <3>2 DEF ExpandRpc
      <4>2. PICK b \in OwnedBy(p, Cursor, current) :
              c \in ExpandHop(Idx(p), step, Cursor, EdgeAlias, b)
        BY <4>1
      <4>3. PICK h \in Graphs : /\ IsGraph(h) /\ Closed(h) /\ Idx(p) = Build(p, h)
                                /\ \A n \in Slice(p) : h \in SeenAt(n)
        BY <4>1, ServedSeen DEF RInv
      <4>4. b \in current /\ b[Cursor] \in Slice(p) BY DEF OwnedBy, Slice
      <4>5. QED BY <2>1, <2>2, <2>3, <4>2, <4>3, <4>4, HopOnward DEF RInv
    <3>3. QED BY <3>1, <3>2
  <2>5. QED BY <2>1, <2>3, <2>4 DEF Owing, OnFrontier, step
<1>3. ASSUME NEW p \in Partition, FilterRpc(p) \/ OuterNodesRpc(p) \/ OuterEdgesRpc(p)
      PROVE  Owing(phase', pos', depth', current', next', accepted')
  <2>1. /\ phase \in {"filter", "nodes", "edges"} /\ phase' = phase /\ pos' = pos
        /\ current' = current
    BY <1>3 DEF FilterRpc, OuterNodesRpc, OuterEdgesRpc
  <2>2. QED BY <2>1 DEF RInv, Honest, Owing, OnFrontier
<1>4. ASSUME NEW q \in Pending, AntiJoinRpc(q)
      PROVE  Owing(phase', pos', depth', current', next', accepted')
  <2>1. phase = "anti" /\ phase' = "anti" /\ pos' = pos /\ current' = current
    BY <1>4 DEF AntiJoinRpc
  <2>2. /\ \A b \in current : HeldBefore(b, pos)
        /\ \A b \in next : HeldBefore(b, pos) /\ Held(step, b)
    BY <2>1 DEF RInv, Honest, Owing, OnFrontier, step
  <2>3. q.to \in Partition
    BY RequestTypes DEF Pending, RInv
  <2>4. ASSUME NEW b \in next' PROVE HeldBefore(b, pos) /\ Held(step, b)
    <3>1. CASE b \in next BY <2>2, <3>1
    <3>2. CASE b \notin next
      <4>1. /\ Routed(q.to) /\ b \in OwnedBy(q.to, step.from, current)
            /\ Resolved(b) /\ Conditions(b) = q.conditions
            /\ Survives(Idx(q.to), step, q.conditions, b)
        BY <1>4, <3>2 DEF AntiJoinRpc
      <4>2. PICK h \in Graphs : /\ IsGraph(h) /\ Closed(h) /\ Idx(q.to) = Build(q.to, h)
                                /\ \A n \in Slice(q.to) : h \in SeenAt(n)
        BY <2>3, <4>1, ServedSeen DEF RInv
      <4>3. b \in current /\ b[step.from] \in Slice(q.to) BY <4>1 DEF OwnedBy, Slice
      <4>4. Held(step, b) BY <2>1, <4>1, <4>2, <4>3, AntiWas DEF RInv
      <4>5. QED BY <2>2, <4>3, <4>4
    <3>3. QED BY <3>1, <3>2
  <2>5. QED BY <2>1, <2>2, <2>4 DEF Owing, OnFrontier, step
<1>5. QED BY <1>1, <1>2, <1>3, <1>4 DEF Rpc

\* The binding's own step joins those behind it.
LEMMA StepBehind ==
  ASSUME TypeInv, pos <= Len(plan), NEW b, HeldBefore(b, pos), Held(step, b)
  PROVE  HeldBefore(b, pos + 1)
BY PlanTypes, HeldBeforeNext DEF TypeInv, TypeOK, step

LEMMA EndPhaseOwes ==
  ASSUME PlansScoped, RInv, EndPhase
  PROVE  Owing(phase', pos', depth', current', next', accepted')
<1>0. /\ plan \in Plans /\ Len(plan) \in Nat \ {0} /\ pos \in 1 .. Len(plan) + 1
      /\ TypeInv /\ depth \in Nat \ {0}
  BY PlanTypes DEF RInv, TypeInv, TypeOK
<1>1. CASE EndResolve
  <2>1. pos = 1 /\ phase = "resolve" /\ step = plan[1]
    BY <1>0, <1>1 DEF EndResolve, TypeInv, PhaseFitsStep, step
  <2>2. \A b \in next : HeldBefore(b, 2)
    <3>1. ASSUME NEW b \in next PROVE Held(plan[1], b)
      BY <2>1 DEF RInv, Honest, Owing
    <3>2. 1 .. 2 - 1 = {1} OBVIOUS
    <3>3. QED BY <3>1, <3>2 DEF HeldBefore
  <2>3. 2 \in 1 .. Len(plan) + 1 BY <1>0
  <2>4. QED BY <1>0, <1>1, <2>2, <2>3, EnterOwes DEF EndResolve
<1>2. CASE EndRound
  <2>1. /\ phase = "hop" /\ depth <= step.max /\ phase' = "hop" /\ current' = next
        /\ next' = {} /\ depth' = depth + 1 /\ pos' = pos
        /\ accepted' = IF depth >= step.min THEN accepted \cup next ELSE accepted
    BY <1>2 DEF EndRound, Continue
  <2>2. /\ \A b \in next : HeldBefore(b, pos) /\ HopWas(step, b, depth)
        /\ \A b \in accepted : HeldBefore(b, pos) /\ Arrived(step, b)
    BY <2>1 DEF RInv, Honest, Owing, step
  <2>3. step.max \in Nat BY <1>0, <2>1 DEF TypeInv, PhaseFitsStep, HopStep
  <2>4. depth \in 1 .. step.max BY <1>0, <2>1, <2>3
  <2>5. ASSUME NEW b \in accepted' PROVE HeldBefore(b, pos) /\ Arrived(step, b)
    <3>1. CASE b \in accepted BY <2>2, <3>1
    <3>2. CASE b \notin accepted
      <4>1. b \in next /\ depth >= step.min BY <2>1, <3>2
      <4>2. QED BY <2>2, <2>4, <4>1 DEF Arrived
    <3>3. QED BY <3>1, <3>2
  <2>6. depth' - 1 = depth BY <1>0, <2>1
  <2>7. QED BY <2>1, <2>2, <2>5, <2>6 DEF Owing, OnFrontier, step
<1>3. CASE EndHop
  <2>1. /\ phase = "hop" /\ pos <= Len(plan) /\ step \in HopStep
        /\ step.filters = {} \/ accepted = {}
    BY <1>0, <1>3 DEF EndHop, HopOver, TypeInv, PhaseFitsStep
  <2>2. ASSUME NEW b \in accepted PROVE HeldBefore(b, pos + 1)
    <3>1. HeldBefore(b, pos) /\ Arrived(step, b)
      BY <2>1 DEF RInv, Honest, Owing, step
    <3>2. Held(step, b) BY <2>1, <3>1, HopWasTrue DEF RInv
    <3>3. QED BY <1>0, <2>1, <3>1, <3>2, StepBehind
  <2>3. pos + 1 \in 1 .. Len(plan) + 1 BY <1>0, <2>1
  <2>4. QED BY <1>0, <1>3, <2>2, <2>3, EnterOwes DEF EndHop
<1>4. CASE BeginFilter
  <2>1. phase = "hop" /\ phase' = "filter" /\ current' = accepted /\ pos' = pos
    BY <1>4 DEF BeginFilter, HopOver, Continue
  <2>2. QED BY <2>1 DEF RInv, Honest, Owing
<1>5. CASE EndFilter
  <2>1. phase = "filter" /\ pos <= Len(plan) /\ step \in HopStep
    BY <1>0, <1>5 DEF EndFilter, TypeInv, PhaseFitsStep
  <2>2. ASSUME NEW b \in current, Passes(b) PROVE HeldBefore(b, pos + 1)
    <3>1. HeldBefore(b, pos) /\ Arrived(step, b)
      BY <2>1 DEF RInv, Honest, Owing, OnFrontier, step
    <3>2. Held(step, b) BY <2>1, <2>2, <3>1, HopWasTrue DEF RInv
    <3>3. QED BY <1>0, <2>1, <3>1, <3>2, StepBehind
  <2>3. pos + 1 \in 1 .. Len(plan) + 1 BY <1>0, <2>1
  <2>4. QED BY <1>0, <1>5, <2>2, <2>3, EnterOwes DEF EndFilter
<1>6. CASE EndOuterNodes
  BY <1>6 DEF EndOuterNodes, Continue, RInv, Honest, Owing, OnFrontier
<1>7. CASE EndOuterEdges
  BY <1>7 DEF EndOuterEdges, Continue, RInv, Honest, Owing, OnFrontier
<1>8. CASE EndAntiJoin
  <2>1. phase = "anti" /\ pos <= Len(plan)
    BY <1>0, <1>8 DEF EndAntiJoin, TypeInv, PhaseFitsStep
  <2>2. ASSUME NEW b \in next PROVE HeldBefore(b, pos + 1)
    <3>1. HeldBefore(b, pos) /\ Held(step, b)
      BY <2>1 DEF RInv, Honest, Owing, step
    <3>2. QED BY <1>0, <2>1, <3>1, StepBehind
  <2>3. pos + 1 \in 1 .. Len(plan) + 1 BY <1>0, <2>1
  <2>4. QED BY <1>0, <1>8, <2>2, <2>3, EnterOwes DEF EndAntiJoin
<1>9. QED
  BY <1>1, <1>2, <1>3, <1>4, <1>5, <1>6, <1>7, <1>8 DEF EndPhase

\* Hydration, phase by phase.
LEMMA HydrateRpcHydrates ==
  ASSUME GraphsClosed, RInv, UNCHANGED <<seen, route>>, NEW p \in Partition,
         FilterRpc(p) \/ OuterNodesRpc(p) \/ OuterEdgesRpc(p)
  PROVE  Hydration'
<1>1. Grows BY DEF Grows, SeenAt, Routed
<1>2. /\ phase \in {"filter", "nodes", "edges"} /\ phase' = phase
      /\ asked' = asked \cup {Plain(p)} /\ Plain(p) \notin asked
  BY DEF FilterRpc, OuterNodesRpc, OuterEdgesRpc, Settle, Pending
<1>3. CASE ~ Routed(p)
  <2>1. hydrated' = hydrated BY <1>3 DEF FilterRpc, OuterNodesRpc, OuterEdgesRpc
  <2>2. \A r \in hydrated : RowWas(r[1], r[2])' BY <1>1, RowGrows DEF RInv, Hydration
  <2>3. QED BY <1>2, <2>1, <2>2 DEF RInv, Hydration, OfAnti
<1>4. CASE Routed(p)
  <2>1. PICK h \in Graphs : /\ IsGraph(h) /\ Closed(h) /\ Idx(p) = Build(p, h)
                            /\ \A n \in Slice(p) : h \in SeenAt(n)
    BY <1>4, ServedSeen DEF RInv
  <2>2. CASE FilterRpc(p)
    <3>1. PICK ids : hydrated' = hydrated \cup NodeProperties(Build(p, h), ids)
      BY <1>4, <2>1, <2>2 DEF FilterRpc
    <3>2. \A r \in hydrated' : RowWas(r[1], r[2])
      BY <2>1, <3>1, NodeRowsWere DEF RInv, Hydration
    <3>3. \A r \in hydrated' : RowWas(r[1], r[2])' BY <1>1, <3>2, RowGrows
    <3>4. phase' = "filter" BY <2>2 DEF FilterRpc
    <3>5. QED BY <3>3, <3>4 DEF Hydration, OfAnti
  <2>3. CASE OuterNodesRpc(p)
    <3>1. PICK ids : hydrated' = hydrated \cup NodeProperties(Build(p, h), ids)
      BY <1>4, <2>1, <2>3 DEF OuterNodesRpc
    <3>2. phase = "nodes" /\ phase' = "nodes" BY <2>3 DEF OuterNodesRpc
    <3> DEFINE new == NodeProperties(Build(p, h), ids)
    <3>3. /\ \A r \in new : r[1] \in NodeId /\ Owner[r[1]] = p /\ RowWas(r[1], r[2])
          /\ \A r \in new, k \in new : r[1] = k[1] => r = k
      BY <2>1, NodeRowsWere, OneRowEach DEF Slice
    <3>4. /\ \A r \in hydrated : /\ r[1] \in NodeId /\ Plain(Owner[r[1]]) \in asked
                                 /\ RowWas(r[1], r[2])
          /\ \A r \in hydrated, k \in hydrated : r[1] = k[1] => r = k
      BY <3>2 DEF RInv, Hydration, OfAnti
    <3> HIDE DEF new
    <3>5. \A r \in hydrated' : /\ r[1] \in NodeId /\ Plain(Owner[r[1]]) \in asked'
                               /\ RowWas(r[1], r[2])
      BY <1>2, <3>1, <3>3, <3>4 DEF new
    <3>6. \A r \in hydrated', k \in hydrated' : r[1] = k[1] => r = k
      BY <1>2, <3>1, <3>3, <3>4 DEF new
    <3>7. \A r \in hydrated' : RowWas(r[1], r[2])' BY <1>1, <3>5, RowGrows
    <3>8. QED BY <3>2, <3>5, <3>6, <3>7 DEF Hydration, OfAnti
  <2>4. CASE OuterEdgesRpc(p)
    <3> DEFINE new == EdgeProperties(Build(p, h), EdgesWanted)
    <3>1. hydrated' = hydrated \cup new /\ phase = "edges" /\ phase' = "edges"
      BY <1>4, <2>1, <2>4 DEF OuterEdgesRpc
    <3>2. /\ \A r \in new : r[1] \in EdgesWanted /\ RowWas(r[1], r[2])
          /\ \A r \in new, k \in new : r[1] = k[1] => r = k
      BY <2>1, EdgeRowsWere, OneRowEach
    <3>3. /\ \A r \in hydrated : RowWas(r[1], r[2]) /\ r[1] \notin EdgesWanted
          /\ \A r \in hydrated, k \in hydrated : r[1] = k[1] => r = k
      BY <3>1 DEF RInv, Hydration, OfAnti, EdgesWanted
    <3> HIDE DEF new
    <3>4. \A r \in hydrated' : RowWas(r[1], r[2]) BY <3>1, <3>2, <3>3
    <3>5. \A r \in hydrated', k \in hydrated' : r[1] = k[1] => r = k BY <3>1, <3>2, <3>3
    <3>6. \A r \in hydrated' : RowWas(r[1], r[2])' BY <1>1, <3>4, RowGrows
    <3>7. QED BY <3>1, <3>5, <3>6 DEF Hydration, OfAnti
  <2>5. QED BY <2>2, <2>3, <2>4
<1>5. QED BY <1>3, <1>4

LEMMA NextHydrates ==
  ASSUME GraphsClosed, RInv, Next, UNCHANGED <<seen, route>>
  PROVE  Hydration'
<1>1. Grows BY DEF Grows, SeenAt, Routed
<1>2. \A r \in hydrated : RowWas(r[1], r[2])' BY <1>1, RowGrows DEF RInv, Hydration
<1>3. ASSUME NEW p \in Partition, ResolveRpc(p) \/ ExpandRpc(p) PROVE Hydration'
  BY <1>2, <1>3 DEF ResolveRpc, ExpandRpc, RInv, Hydration, OfAnti
<1>4. ASSUME NEW p \in Partition, FilterRpc(p) \/ OuterNodesRpc(p) \/ OuterEdgesRpc(p)
      PROVE  Hydration'
  BY <1>4, HydrateRpcHydrates
<1>5. ASSUME NEW q \in Pending, AntiJoinRpc(q) PROVE Hydration'
  BY <1>2, <1>5 DEF AntiJoinRpc, RInv, Hydration, OfAnti
<1>6. CASE Rpc BY <1>3, <1>4, <1>5, <1>6 DEF Rpc
<1>7. CASE EndResolve \/ EndHop \/ EndFilter \/ EndAntiJoin
  BY <1>7 DEF EndResolve, EndHop, EndFilter, EndAntiJoin, Enter, Hydration
<1>8. CASE EndRound \/ BeginFilter
  BY <1>2, <1>8 DEF EndRound, BeginFilter, HopOver, Continue, RInv, Hydration, OfAnti
<1>9. CASE EndOuterNodes \/ EndOuterEdges
  BY <1>2, <1>9 DEF EndOuterNodes, EndOuterEdges, Continue, RInv, Hydration, OfAnti
<1>10. CASE RpcFails
  BY <1>2, <1>10 DEF RpcFails, RInv, Hydration, OfAnti
<1>11. QED BY <1>6, <1>7, <1>8, <1>9, <1>10 DEF Next, EndPhase

LEMMA RebuildInitInv ==
  ASSUME RebuildInit
  PROVE  RInv
<1>1. TypeInv BY InitType DEF RebuildInit
<1>2. \E h \in Graphs : served = [r \in Replica |-> h] BY DEF RebuildInit, Init
<1>3. seen = [r \in Replica |-> {served[r]}] /\ swaps = 0 BY DEF RebuildInit
<1>4. \A r \in Replica : served[r] \in Graphs BY <1>2
<1>5. Recorded BY <1>3, <1>4, SwapsAssumption DEF RebuildInit, Init, Recorded
<1>6. Honest /\ Hydration BY DEF RebuildInit, Init, Honest, Owing, OnFrontier, Hydration, OfAnti
<1>7. QED BY <1>1, <1>5, <1>6 DEF RInv

LEMMA NextRInv ==
  ASSUME GraphsClosed, PlansScoped, RInv, Next, UNCHANGED <<seen, swaps>>
  PROVE  RInv'
<1>1. TypeInv' BY NextType DEF RInv
<1>2. UNCHANGED env
  BY DEF Next, Rpc, EndPhase, ResolveRpc, ExpandRpc, FilterRpc, OuterNodesRpc,
         OuterEdgesRpc, AntiJoinRpc, EndResolve, EndRound, EndHop, BeginFilter,
         EndFilter, EndOuterNodes, EndOuterEdges, EndAntiJoin, Enter, Continue, RpcFails
<1>3. plan' = plan /\ route' = route /\ served' = served BY <1>2 DEF env
<1>4. Grows BY <1>3 DEF Grows, SeenAt, Routed
<1>5. Recorded' BY <1>3 DEF RInv, Recorded, Routed
<1>6. Owing(phase', pos', depth', current', next', accepted')
  <2>1. CASE Rpc BY <2>1, RpcOwes
  <2>2. CASE EndPhase BY <2>2, EndPhaseOwes
  <2>3. CASE RpcFails BY <2>3 DEF RpcFails, Owing, OnFrontier
  <2>4. QED BY <2>1, <2>2, <2>3 DEF Next
<1>7. /\ plan \in Plans /\ pos' \in 1 .. Len(plan) + 1 /\ depth' \in Nat \ {0}
      /\ phase' \in {"hop", "filter", "anti"} => pos' <= Len(plan)
      /\ phase' \in {"hop", "filter"} => plan[pos'] \in HopStep
  BY <1>1, <1>3 DEF TypeInv, TypeOK, PhaseFitsStep, step
<1>8. Honest'
  <2>1. PICK f, i, d, B, N, A : /\ f = phase' /\ i = pos' /\ d = depth' /\ B = current'
                                /\ N = next' /\ A = accepted'
    OBVIOUS
  <2>2. Owing(f, i, d, B, N, A) BY <1>6, <2>1
  <2>3. Owing(f, i, d, B, N, A)' BY <1>3, <1>4, <1>7, <2>1, <2>2, OwingGrows
  <2>4. QED BY <2>1, <2>3 DEF Honest
<1>9. Hydration' BY <1>3, NextHydrates
<1>10. QED BY <1>1, <1>5, <1>8, <1>9 DEF RInv

\* The query takes no step, and the past is kept.
LEMMA QueryWaits ==
  ASSUME PlansScoped, RInv, Grows, served' \in [Replica -> Graphs], Recorded',
         UNCHANGED <<plan, route, phase, pos, depth, asked, current, next, accepted, hydrated>>
  PROVE  RInv'
<1>1. TypeInv' BY DEF RInv, TypeInv, TypeOK, PhaseFitsStep, step
<1>2. Honest'
  <2>1. PICK f, i, d, B, N, A : /\ f = phase /\ i = pos /\ d = depth /\ B = current
                                /\ N = next /\ A = accepted
    OBVIOUS
  <2>2. Owing(f, i, d, B, N, A) BY <2>1 DEF RInv, Honest
  <2>3. Owing(f, i, d, B, N, A)'
    BY <2>1, <2>2, OwingGrows DEF RInv, TypeInv, TypeOK, PhaseFitsStep, step
  <2>4. QED BY <2>1, <2>3 DEF Honest
<1>3. Hydration'
  <2>1. \A k \in hydrated : RowWas(k[1], k[2])' BY RowGrows DEF RInv, Hydration
  <2>2. QED BY <2>1 DEF RInv, Hydration, OfAnti
<1>4. QED BY <1>1, <1>2, <1>3 DEF RInv

LEMMA SwapRInv ==
  ASSUME PlansScoped, RInv, NEW r \in Replica, NEW h \in Graphs, Swap(r, h)
  PROVE  RInv'
<1>1. /\ UNCHANGED <<plan, route, phase, pos, depth, asked, current, next, accepted, hydrated>>
      /\ served' = [served EXCEPT ![r] = h] /\ seen' = [seen EXCEPT ![r] = @ \cup {h}]
      /\ swaps' = swaps + 1 /\ swaps < MaxSwaps
  BY DEF Swap
<1>2. served' \in [Replica -> Graphs] BY <1>1 DEF RInv, TypeInv, TypeOK
<1>3. Recorded'
  BY <1>1, SwapsAssumption DEF RInv, Recorded, TypeInv, TypeOK, Routed
<1>4. Grows
  <2>1. \A k \in Replica : seen[k] \subseteq seen'[k] BY <1>1 DEF RInv, Recorded
  <2>2. \A p \in Partition : Routed(p) => route[p] \in Replica
    BY DEF RInv, TypeInv, TypeOK, Routed
  <2>3. QED BY <1>1, <2>1, <2>2, OwnerAssumption DEF Grows, SeenAt, Routed
<1>5. QED BY <1>1, <1>2, <1>3, <1>4, QueryWaits

LEMMA StepRInv ==
  ASSUME GraphsClosed, PlansScoped, RInv, [RebuildNext]_rebuildVars
  PROVE  RInv'
<1>1. CASE Next /\ UNCHANGED <<seen, swaps>> BY <1>1, NextRInv
<1>2. CASE \E r \in Replica, h \in Graphs : Swap(r, h) BY <1>2, SwapRInv
<1>3. CASE UNCHANGED rebuildVars
  <2>1. UNCHANGED <<plan, route, served, phase, pos, depth, asked, current, next, accepted,
                    hydrated, seen, swaps>>
    BY <1>3 DEF rebuildVars, vars
  <2>2. Grows BY <2>1 DEF Grows, SeenAt, Routed
  <2>3. served' \in [Replica -> Graphs] /\ Recorded'
    BY <2>1 DEF RInv, TypeInv, TypeOK, Recorded, Routed
  <2>4. QED BY <2>1, <2>2, <2>3, QueryWaits
<1>4. QED BY <1>1, <1>2, <1>3 DEF RebuildNext

\* Nothing in an answer is made up, however the swaps fall between the RPCs:
\* each step of the plan held of the binding, the hops along edges and the
\* conditions on values that a generation serving the node's partition had
\* during the query.
THEOREM AnswersWereTrue ==
  GraphsClosed /\ PlansScoped => (RebuildSpec => []EveryStepWasTrue)
<1> SUFFICES ASSUME GraphsClosed, PlansScoped PROVE RebuildSpec => []EveryStepWasTrue
  OBVIOUS
<1>1. RebuildInit => RInv BY RebuildInitInv
<1>2. RInv /\ [RebuildNext]_rebuildVars => RInv' BY StepRInv
<1>3. RInv => EveryStepWasTrue
  <2> SUFFICES ASSUME RInv, phase = "done", NEW b \in current, NEW i \in 1 .. Len(plan)
               PROVE  StepWasTrue(plan[i], b)
    BY DEF EveryStepWasTrue
  <2>1. HeldBefore(b, pos) /\ pos > Len(plan) BY DEF RInv, Honest, Owing, OnFrontier
  <2>2. Len(plan) \in Nat /\ pos \in 1 .. Len(plan) + 1
    BY PlanTypes DEF RInv, TypeInv, TypeOK
  <2>3. i \in 1 .. pos - 1 BY <2>1, <2>2
  <2>4. QED BY <2>1, <2>3 DEF HeldBefore, Held
<1>4. QED BY <1>1, <1>2, <1>3, PTL DEF RebuildSpec

----------------------------------------------------------------------------
(* Types, which need neither closed graphs nor scoped plans.               *)

\* The generation a replica serves is always among those recorded, and a swap
\* leaves a query's phases and bindings well formed, whatever the plans and
\* the graphs.
THEOREM RebuildTyped == RebuildSpec => []RebuildTypeOK
<1> DEFINE Inv == /\ TypeInv /\ seen \in [Replica -> SUBSET Graphs]
                  /\ (\A r \in Replica : served[r] \in seen[r]) /\ swaps \in 0 .. MaxSwaps
<1>1. RebuildInit => Inv BY RebuildInitInv DEF RInv, Recorded
<1>2. Inv /\ [RebuildNext]_rebuildVars => Inv'
  <2> SUFFICES ASSUME Inv, [RebuildNext]_rebuildVars PROVE Inv'
    OBVIOUS
  <2>1. CASE Next /\ UNCHANGED <<seen, swaps>>
    <3>1. TypeInv' BY <2>1, NextType
    <3>2. served' = served
      BY <2>1 DEF Next, Rpc, EndPhase, ResolveRpc, ExpandRpc, FilterRpc, OuterNodesRpc,
         OuterEdgesRpc, AntiJoinRpc, EndResolve, EndRound, EndHop, BeginFilter, EndFilter,
         EndOuterNodes, EndOuterEdges, EndAntiJoin, Enter, Continue, RpcFails, env
    <3>3. QED BY <2>1, <3>1, <3>2
  <2>2. CASE \E r \in Replica, h \in Graphs : Swap(r, h)
    <3>1. PICK r \in Replica, h \in Graphs : Swap(r, h) BY <2>2
    <3>2. TypeInv' BY <3>1 DEF Swap, TypeInv, TypeOK, PhaseFitsStep, step
    <3>3. QED BY <3>1, <3>2, SwapsAssumption DEF Swap, TypeInv, TypeOK
  <2>3. CASE UNCHANGED rebuildVars
    BY <2>3 DEF rebuildVars, vars, TypeInv, TypeOK, PhaseFitsStep, step
  <2>4. QED BY <2>1, <2>2, <2>3 DEF RebuildNext
<1>3. Inv => RebuildTypeOK BY DEF TypeInv, RebuildTypeOK
<1>4. QED BY <1>1, <1>2, <1>3, PTL DEF RebuildSpec

----------------------------------------------------------------------------
(* What all the generations seen agree on is found.  Rows, and graphs made *)
(* of some of another's rows.                                              *)

Within(c, h) ==
  /\ \A n \in DOMAIN c.node : n \in DOMAIN h.node /\ h.node[n] = c.node[n]
  /\ \A e \in DOMAIN c.edge : e \in DOMAIN h.edge /\ h.edge[e] = c.edge[e]

LEMMA CoreHas ==
  ASSUME NEW G, G # {}, NEW t \in {"node", "edge"}, NEW id
  PROVE  /\ id \in DOMAIN Core(G)[t] <=>
              \A h \in G, k \in G : id \in DOMAIN h[t] /\ h[t][id] = k[t][id]
         /\ id \in DOMAIN Core(G)[t] => \A h \in G : Core(G)[t][id] = h[t][id]
<1> DEFINE one == CHOOSE g \in G : TRUE
           Shared == {i \in DOMAIN one[t] : \A h \in G : i \in DOMAIN h[t] /\ h[t][i] = one[t][i]}
<1>1. one \in G OBVIOUS
<1>2. Core(G)[t] = [i \in Shared |-> one[t][i]] BY DEF Core
<1> HIDE DEF one
<1>3. QED BY <1>1, <1>2

LEMMA CoreWithin ==
  ASSUME NEW G, NEW h \in G
  PROVE  Within(Core(G), h)
<1>1. \A t \in {"node", "edge"} : \A id \in DOMAIN Core(G)[t] :
        id \in DOMAIN h[t] /\ h[t][id] = Core(G)[t][id]
  BY CoreHas
<1>2. QED BY <1>1 DEF Within

LEMMA CoreShrinks ==
  ASSUME NEW G, NEW H, G # {}, G \subseteq H
  PROVE  Within(Core(H), Core(G))
<1>1. ASSUME NEW t \in {"node", "edge"}, NEW id \in DOMAIN Core(H)[t]
      PROVE  id \in DOMAIN Core(G)[t] /\ Core(G)[t][id] = Core(H)[t][id]
  <2>1. \A h \in H, k \in H : id \in DOMAIN h[t] /\ h[t][id] = k[t][id] BY CoreHas
  <2>2. id \in DOMAIN Core(G)[t] BY <2>1, CoreHas
  <2>3. PICK h \in G : TRUE OBVIOUS
  <2>4. Core(G)[t][id] = h[t][id] BY <2>2, <2>3, CoreHas
  <2>5. Core(H)[t][id] = h[t][id] BY <2>3, CoreHas
  <2>6. QED BY <2>2, <2>4, <2>5
<1>2. QED BY <1>1 DEF Within

LEMMA WithinGraph ==
  ASSUME NEW c, NEW h, Within(c, h), IsGraph(h)
  PROVE  IsGraph(c)
BY DEF Within, IsGraph

LEMMA WithinExits ==
  ASSUME NEW c, NEW h, Within(c, h), NEW R, NEW S, NEW s, NEW n \in S,
         NEW e \in Search!Exits(c, R, s, n)
  PROVE  e \in Search!Exits(h, S, s, n) /\ h.edge[e] = c.edge[e] /\ n \in R
BY DEF Within, Search!Exits

LEMMA WithinWalk ==
  ASSUME NEW c, NEW h, Within(c, h), NEW R, NEW s, NEW a, NEW z, NEW d \in Nat,
         Search!Walk(c, R, s, a, z, d)
  PROVE  Search!Walk(h, R, s, a, z, d)
<1>1. PICK w \in [0 .. d -> NodeId] :
        /\ w[0] = a /\ w[d] = z
        /\ \A i \in 0 .. d - 1 :
             \E e \in Search!Exits(c, R, s, w[i]) : Search!Far(c.edge[e], s.dir) = w[i + 1]
  BY DEF Search!Walk
<1>2. ASSUME NEW i \in 0 .. d - 1
      PROVE  \E e \in Search!Exits(h, R, s, w[i]) : Search!Far(h.edge[e], s.dir) = w[i + 1]
  <2>1. PICK e \in Search!Exits(c, R, s, w[i]) : Search!Far(c.edge[e], s.dir) = w[i + 1]
    BY <1>1
  <2>2. w[i] \in R BY <2>1 DEF Search!Exits
  <2>3. e \in Search!Exits(h, R, s, w[i]) /\ h.edge[e] = c.edge[e]
    BY <2>1, <2>2, WithinExits
  <2>4. QED BY <2>1, <2>3
<1>3. QED BY <1>1, <1>2 DEF Search!Walk

LEMMA WithinStep ==
  ASSUME NEW c, NEW h, Within(c, h), NEW R, NEW s \in PlanStep, s.kind # "anti", NEW b,
         Search!StepHolds(c, R, s, b)
  PROVE  Search!StepHolds(h, R, s, b)
<1>1. CASE s.kind \in {"start", "all"}
  BY <1>1 DEF Within, Search!StepHolds, Search!Selects
<1>2. CASE s.kind = "hop"
  <2>1. s.max \in Nat BY <1>2 DEF PlanStep, StartStep, AllStep, HopStep, AntiStep
  <2>2. Search!Passes(c, R, s, b) => Search!Passes(h, R, s, b)
    BY DEF Within, Search!Passes
  <2>3. CASE s.edge = NoAlias
    <3>1. /\ \E d \in 1 .. s.max : d >= s.min /\ Search!Walk(c, R, s, b[s.from], b[s.to], d)
          /\ s.filters = {} \/ Search!Passes(c, R, s, b)
      BY <1>2, <2>3 DEF Search!StepHolds
    <3>2. \E d \in 1 .. s.max : d >= s.min /\ Search!Walk(h, R, s, b[s.from], b[s.to], d)
      BY <2>1, <3>1, WithinWalk
    <3>3. QED BY <1>2, <2>2, <2>3, <3>1, <3>2 DEF Search!StepHolds
  <2>4. CASE s.edge # NoAlias
    <3>1. /\ b[s.edge] \in Search!Exits(c, R, s, b[s.from])
          /\ b[s.to] = Search!Far(c.edge[b[s.edge]], s.dir)
          /\ s.min <= s.max
          /\ s.filters = {} \/ Search!Passes(c, R, s, b)
      BY <1>2, <2>4 DEF Search!StepHolds
    <3>2. PICK n, e : n = b[s.from] /\ e = b[s.edge] OBVIOUS
    <3>3. n \in R /\ e \in Search!Exits(c, R, s, n)
      BY <3>1, <3>2 DEF Search!Exits
    <3>4. e \in Search!Exits(h, R, s, n) /\ h.edge[e] = c.edge[e]
      BY <3>3, WithinExits
    <3>5. /\ b[s.edge] \in Search!Exits(h, R, s, b[s.from])
          /\ b[s.to] = Search!Far(h.edge[b[s.edge]], s.dir)
      BY <3>1, <3>2, <3>4
    <3>6. QED BY <1>2, <2>2, <2>4, <3>1, <3>5 DEF Search!StepHolds
  <2>5. QED BY <2>3, <2>4
<1>3. QED
  BY <1>1, <1>2 DEF PlanStep, StartStep, AllStep, HopStep, AntiStep

LEMMA WithinCandidates ==
  ASSUME NEW c, NEW h, Within(c, h), NEW pl
  PROVE  Search!Candidates(c, pl) \subseteq Search!Candidates(h, pl)
<1> DEFINE of(nb, eb) == [a \in Alias |-> IF a \in Search!NodeAliases(pl) THEN nb[a]
                                          ELSE IF a \in Search!EdgeAliases(pl) THEN eb[a]
                                          ELSE Unbound]
<1>1. ASSUME NEW b \in Search!Candidates(c, pl) PROVE b \in Search!Candidates(h, pl)
  <2>1. PICK nb \in [Search!NodeAliases(pl) -> DOMAIN c.node],
             eb \in [Search!EdgeAliases(pl) -> DOMAIN c.edge] : b = of(nb, eb)
    BY DEF Search!Candidates
  <2>2. /\ nb \in [Search!NodeAliases(pl) -> DOMAIN h.node]
        /\ eb \in [Search!EdgeAliases(pl) -> DOMAIN h.edge]
    BY DEF Within
  <2>3. QED BY <2>1, <2>2 DEF Search!Candidates
<1>2. QED BY <1>1

----------------------------------------------------------------------------
(* How far the coordinator is with a binding b of the agreed answer, c     *)
(* being the rows all graphs share.  No swap undoes it: what it says of a  *)
(* walk it says of every walk over c, and c only loses rows.               *)

Common == Core(AllSeen)

\* The part of b the steps before step i bind.
Cut(pl, b, i) == [a \in Alias |-> IF a \in Search!BoundBefore(pl, i) THEN b[a] ELSE Unbound]

\* A walk over c that takes b from one end of the hop s to the other.
Leg(c, R, s, b, m, n) ==
  \E e \in Search!Exits(c, R, s, m) :
    Search!Far(c.edge[e], s.dir) = n /\ (s.edge # NoAlias => e = b[s.edge])

Way(c, R, s, b, w, l) ==
  /\ l >= s.min /\ (s.edge # NoAlias => l = 1)
  /\ w[0] = b[s.from] /\ w[l] = b[s.to]
  /\ \A j \in 0 .. l - 1 : Leg(c, R, s, b, w[j], w[j + 1])

\* b on its way, j edges into the hop at step i.
Along(pl, i, b, w, j) ==
  IF j = 0 THEN Cut(pl, b, i) ELSE [Cut(pl, b, i + 1) EXCEPT ![pl[i].to] = w[j]]

KeepsHop(c, b) ==
  \A l \in 1 .. step.max : \A w \in [0 .. l -> NodeId] :
    Way(c, Reach, step, b, w, l) =>
      /\ depth <= l + 1 => Along(plan, pos, b, w, depth - 1) \in current
      /\ depth > l => Cut(plan, b, pos + 1) \in accepted
      /\ depth <= l /\ w[depth - 1] \in AskedNodes => Along(plan, pos, b, w, depth) \in next

Row(c, id) == <<id, Wire(Search!PropsOf(c, id))>>

\* The partition that has the record of id was asked for it, in this phase or
\* in the one before.
AskedFor(c, id) ==
  IF id \in NodeId THEN phase = "nodes" => id \in AskedNodes
  ELSE phase # "nodes" /\ (phase = "edges" => c.edge[id].src \in AskedNodes)

KeepsAnti(c, b) ==
  /\ \A o \in step.outer : AskedFor(c, b[o.alias]) => Row(c, b[o.alias]) \in hydrated
  /\ phase = "anti" /\ Request(Owner[b[step.from]], Search!Conditions(c, step, b)) \in asked
       => Cut(plan, b, pos) \in next

Keeps(c, b) ==
  /\ phase = "resolve" /\ b[plan[1].to] \in AskedNodes => Cut(plan, b, 2) \in next
  /\ phase = "hop" => KeepsHop(c, b)
  /\ phase = "filter" => /\ step.filters # {}
                         /\ Cut(plan, b, pos + 1) \in current
                         /\ b[step.to] \in AskedNodes => Row(c, b[step.to]) \in hydrated
  /\ phase \in OfAnti \cup {"done"} => Cut(plan, b, pos) \in current
  /\ phase \in OfAnti => KeepsAnti(c, b)

\* b is in the agreed answer, as far as it can be told now.
Agreed(c, b) == AllSeen # {} /\ c = Common /\ b \in AgreedAnswer

Found == \A c, b : Agreed(c, b) => Keeps(c, b)

----------------------------------------------------------------------------
(* What is known of such a binding.                                        *)

LEMMA SeenAreGraphs ==
  ASSUME RInv
  PROVE  /\ AllSeen \subseteq Graphs
         /\ \A p \in Partition : Routed(p) => served[route[p]] \in AllSeen
         /\ \A n \in NodeId : SeenAt(n) \subseteq AllSeen
<1>1. /\ \A p \in Partition : Routed(p) => route[p] \in Replica
      /\ \A r \in Replica : served[r] \in seen[r] /\ seen[r] \subseteq Graphs
  BY DEF RInv, TypeInv, TypeOK, Recorded, Routed
<1>2. \A p \in Partition : Routed(p) => route[p] \in {route[q] : q \in Partition} \cap Replica
  BY <1>1
<1>3. \A n \in NodeId : Owner[n] \in Partition BY OwnerAssumption
<1>4. \A p \in Partition : Routed(p) => seen[route[p]] \subseteq AllSeen BY <1>2 DEF AllSeen
<1>5. QED BY <1>1, <1>3, <1>4 DEF AllSeen, SeenAt

LEMMA ServedAgrees ==
  ASSUME GraphsClosed, RInv, NEW c, NEW b, Agreed(c, b), NEW p \in Partition, Routed(p)
  PROVE  \E h \in AllSeen : IsGraph(h) /\ Closed(h) /\ Idx(p) = Build(p, h) /\ Within(c, h)
<1>1. served[route[p]] \in AllSeen /\ served[route[p]] \in Graphs BY SeenAreGraphs
<1>2. Within(c, served[route[p]]) BY <1>1, CoreWithin DEF Agreed, Common
<1>3. QED BY <1>1, <1>2, ClusterAssumption DEF GraphsClosed, Idx, RInv, Recorded

LEMMA CommonIsGraph ==
  ASSUME RInv, NEW c, NEW b, Agreed(c, b)
  PROVE  IsGraph(c) /\ \A h \in AllSeen : Within(c, h)
<1>1. \A h \in AllSeen : Within(c, h) BY CoreWithin DEF Agreed, Common
<1>2. PICK h \in AllSeen : TRUE BY DEF Agreed
<1>3. IsGraph(h) BY <1>2, SeenAreGraphs, ClusterAssumption
<1>4. QED BY <1>1, <1>2, <1>3, WithinGraph

\* Its steps.
LEMMA StepAgreed ==
  ASSUME RInv, NEW c, NEW b, Agreed(c, b), NEW i \in 1 .. Len(plan)
  PROVE  /\ plan[i].kind = "anti" => \A h \in AllSeen : Search!NoSuchEdge(h, Reach, plan[i], b)
         /\ plan[i].kind # "anti" => Search!StepHolds(c, Reach, plan[i], b)
BY DEF Agreed, Common, AgreedAnswer, IsAnti

LEMMA EndBound ==
  ASSUME NEW pl \in Plans
  PROVE  Search!BoundBefore(pl, Len(pl) + 1) = Search!NodeAliases(pl) \cup Search!EdgeAliases(pl)
<1>1. /\ Len(pl) \in Nat /\ \A i \in 1 .. Len(pl) : pl[i].kind \in {"start", "all", "hop", "anti"}
      /\ \A i \in 1 .. Len(pl) : pl[i].kind # "anti" => pl[i].to # NoAlias
  <2>1. pl \in Seq(PlanStep) BY ClusterAssumption DEF IsPlan
  <2>2. \A i \in 1 .. Len(pl) : pl[i] \in PlanStep BY <2>1
  <2>3. QED BY <2>1, <2>2, DataAssumption DEF PlanStep, StartStep, AllStep, HopStep, AntiStep
<1>2. 1 .. (Len(pl) + 1) - 1 = 1 .. Len(pl) BY <1>1
<1>3. \A a : a \in Search!BoundBefore(pl, Len(pl) + 1)
              <=> \E i \in 1 .. Len(pl) : a \in Search!Binds(pl[i])
  BY <1>2 DEF Search!BoundBefore
<1>4. \A i \in 1 .. Len(pl) : \A a :
        a \in Search!Binds(pl[i]) <=>
          \/ pl[i].kind # "anti" /\ a = pl[i].to
          \/ pl[i].kind = "hop" /\ a = pl[i].edge /\ a # NoAlias
  BY <1>1 DEF Search!Binds
<1>5. /\ \A a : a \in Search!NodeAliases(pl)
                <=> \E i \in 1 .. Len(pl) : pl[i].kind # "anti" /\ a = pl[i].to
      /\ \A a : a \in Search!EdgeAliases(pl)
                <=> a # NoAlias /\ \E i \in 1 .. Len(pl) : pl[i].kind = "hop" /\ a = pl[i].edge
  BY DEF Search!NodeAliases, Search!EdgeAliases
<1>6. ASSUME NEW a
      PROVE  a \in Search!BoundBefore(pl, Len(pl) + 1)
               <=> a \in Search!NodeAliases(pl) \/ a \in Search!EdgeAliases(pl)
  <2>1. ASSUME a \in Search!BoundBefore(pl, Len(pl) + 1)
        PROVE  a \in Search!NodeAliases(pl) \/ a \in Search!EdgeAliases(pl)
    <3>1. PICK i \in 1 .. Len(pl) : a \in Search!Binds(pl[i]) BY <1>3, <2>1
    <3>2. \/ pl[i].kind # "anti" /\ a = pl[i].to
          \/ pl[i].kind = "hop" /\ a = pl[i].edge /\ a # NoAlias
      BY <1>4, <3>1
    <3>3. QED BY <1>5, <3>2
  <2>2. ASSUME a \in Search!NodeAliases(pl)
        PROVE  a \in Search!BoundBefore(pl, Len(pl) + 1)
    <3>1. PICK i \in 1 .. Len(pl) : pl[i].kind # "anti" /\ a = pl[i].to BY <1>5, <2>2
    <3>2. a \in Search!Binds(pl[i]) BY <1>4, <3>1
    <3>3. QED BY <1>3, <3>2
  <2>3. ASSUME a \in Search!EdgeAliases(pl)
        PROVE  a \in Search!BoundBefore(pl, Len(pl) + 1)
    <3>1. PICK i \in 1 .. Len(pl) : pl[i].kind = "hop" /\ a = pl[i].edge /\ a # NoAlias
      BY <1>5, <2>3
    <3>2. a \in Search!Binds(pl[i]) BY <1>4, <3>1
    <3>3. QED BY <1>3, <3>2
  <2>4. QED BY <2>1, <2>2, <2>3
<1>7. QED BY <1>6

\* Its rows.
LEMMA CandidateRows ==
  ASSUME RInv, NEW c, NEW b, IsGraph(c), b \in Search!Candidates(c, plan)
  PROVE  /\ \A i \in 1 .. Len(plan) + 1 : \A a \in Search!BoundBefore(plan, i) :
              \/ b[a] \in NodeId /\ b[a] \in DOMAIN c.node
              \/ b[a] \notin NodeId /\ b[a] \in EdgeId /\ b[a] \in DOMAIN c.edge
         /\ Cut(plan, b, Len(plan) + 1) = b
<1>1. plan \in Plans /\ Len(plan) \in Nat BY PlanTypes DEF RInv, TypeInv, TypeOK
<1>2. DOMAIN c.node \subseteq NodeId /\ DOMAIN c.edge \subseteq EdgeId
  BY GraphRows
<1>3. PICK nb \in [Search!NodeAliases(plan) -> DOMAIN c.node],
           eb \in [Search!EdgeAliases(plan) -> DOMAIN c.edge] :
        b = [a \in Alias |-> IF a \in Search!NodeAliases(plan) THEN nb[a]
                             ELSE IF a \in Search!EdgeAliases(plan) THEN eb[a] ELSE Unbound]
  BY DEF Search!Candidates
<1>4. Search!BoundBefore(plan, Len(plan) + 1)
        = Search!NodeAliases(plan) \cup Search!EdgeAliases(plan)
  BY <1>1, EndBound
<1>5. \A i \in 1 .. Len(plan) + 1 :
        Search!BoundBefore(plan, i) \subseteq Search!BoundBefore(plan, Len(plan) + 1)
  <2>1. ASSUME NEW i \in 1 .. Len(plan) + 1
        PROVE  Search!BoundBefore(plan, i) \subseteq Search!BoundBefore(plan, Len(plan) + 1)
    <3>1. 1 .. i - 1 \subseteq 1 .. (Len(plan) + 1) - 1 BY <1>1
    <3>2. QED BY <3>1 DEF Search!BoundBefore
  <2>2. QED BY <2>1
<1>6. Search!BoundBefore(plan, Len(plan) + 1) \subseteq Alias
  <2>1. \A j \in 1 .. (Len(plan) + 1) - 1 : plan[j] \in PlanStep
    <3>1. plan \in Seq(PlanStep) BY <1>1, ClusterAssumption DEF IsPlan
    <3>2. QED BY <1>1, <3>1
  <2>2. QED BY <2>1, StepAliases DEF Search!BoundBefore
<1>7. \A a \in Search!BoundBefore(plan, Len(plan) + 1) :
              \/ b[a] \in NodeId /\ b[a] \in DOMAIN c.node
              \/ b[a] \notin NodeId /\ b[a] \in EdgeId /\ b[a] \in DOMAIN c.edge
  BY <1>2, <1>3, <1>4, <1>6, DataAssumption
<1>8. Cut(plan, b, Len(plan) + 1) = b BY <1>3, <1>4 DEF Cut
<1>9. QED BY <1>5, <1>7, <1>8

LEMMA RowsAgreed ==
  ASSUME RInv, NEW c, NEW b, Agreed(c, b)
  PROVE  /\ \A i \in 1 .. Len(plan) + 1 : \A a \in Search!BoundBefore(plan, i) :
              \/ b[a] \in NodeId /\ b[a] \in DOMAIN c.node
              \/ b[a] \notin NodeId /\ b[a] \in EdgeId /\ b[a] \in DOMAIN c.edge
         /\ Cut(plan, b, Len(plan) + 1) = b
<1>1. b \in Search!Candidates(c, plan) BY DEF Agreed, Common, AgreedAnswer
<1>2. QED BY <1>1, CommonIsGraph, CandidateRows

\* The requests of this phase that were settled, and those that are left.
LEMMA AskedBy ==
  ASSUME NEW p, asked' = asked \cup {Plain(p)}, route' = route, NEW n, (n \in AskedNodes)'
  PROVE  n \in Reach /\ n \in NodeId /\ (n \in AskedNodes \/ (Routed(p) /\ n \in Slice(p)))
BY DEF AskedNodes, Reach, Routed, Plain, Request, Slice

LEMMA NoneAsked == asked' = {} => \A n : ~ (n \in AskedNodes)'
BY DEF AskedNodes

LEMMA AllAsked ==
  ASSUME Pending = {}, NEW n \in Reach, Plain(Owner[n]) \in Requests
  PROVE  n \in AskedNodes
BY DEF Pending, AskedNodes

\* What b has on entering a step.
LEMMA EnterKeeps ==
  ASSUME NEW i, NEW B, Enter(i, B), NEW c, NEW b, Cut(plan, b, i) \in B
  PROVE  Keeps(c, b)'
<1>1. /\ plan' = plan /\ pos' = i /\ current' = B /\ depth' = 1 /\ asked' = {}
      /\ phase' \in {"done", "hop", "nodes"}
  BY DEF Enter, env
<1>2. \A n : ~ (n \in AskedNodes)' BY <1>1, NoneAsked
<1>3. ASSUME phase' = "hop" PROVE KeepsHop(c, b)'
  <2>1. ASSUME NEW l \in 1 .. (step.max)', NEW w
        PROVE  /\ (Along(plan, pos, b, w, depth - 1) \in current)'
               /\ ~ (depth' > l) /\ ~ (w[depth - 1] \in AskedNodes)'
    <3>1. l \in Int /\ 1 <= l OBVIOUS
    <3>2. depth' - 1 = 0 BY <1>1
    <3>3. (Along(plan, pos, b, w, depth - 1) \in current)' BY <1>1, <3>2 DEF Along
    <3>4. QED BY <1>1, <1>2, <3>1, <3>3
  <2>2. QED BY <2>1 DEF KeepsHop
<1>4. ASSUME phase' = "nodes" PROVE KeepsAnti(c, b)'
  BY <1>2, <1>4 DEF KeepsAnti, AskedFor
<1>5. (Cut(plan, b, pos) \in current)' BY <1>1
<1>6. QED BY <1>1, <1>3, <1>4, <1>5 DEF Keeps, OfAnti

LEMMA ResolveKeeps ==
  ASSUME GraphsClosed, PlansScoped, RInv, NEW c, NEW b, Agreed(c, b), Keeps(c, b),
         (\E p \in Partition : ResolveRpc(p)) \/ EndResolve
  PROVE  Keeps(c, b)'
<1> DEFINE s == plan[1]
           n == b[s.to]
<1>1. /\ plan \in Plans /\ Len(plan) \in Nat \ {0} /\ phase = "resolve" /\ step = s
      /\ s \in StartStep \cup AllStep /\ s.kind \in {"start", "all"} /\ s.to \in Alias
      /\ s.to # NoAlias
  BY PlanTypes, DataAssumption
     DEF RInv, TypeInv, TypeOK, PhaseFitsStep, step, ResolveRpc, EndResolve, StartStep, AllStep
<1>2. n \in DOMAIN c.node /\ n \in Reach /\ n \in NodeId /\ Search!Selects(c, s, n)
  <2>1. Search!StepHolds(c, Reach, s, b) BY <1>1, StepAgreed
  <2>2. QED BY <1>1, <2>1 DEF Search!StepHolds, Reach
<1>3. Cut(plan, b, 2) = Search!FromNode(s.to, n)
  <2>1. Search!BoundBefore(plan, 2) = {s.to}
    <3>1. 1 .. 2 - 1 = {1} OBVIOUS
    <3>2. Search!Binds(s) = {s.to} BY <1>1 DEF Search!Binds
    <3>3. QED BY <3>1, <3>2 DEF Search!BoundBefore
  <2>2. QED BY <2>1 DEF Cut, Search!FromNode
<1>4. n \in AskedNodes => Cut(plan, b, 2) \in next BY <1>1 DEF Keeps
<1>5. CASE EndResolve
  <2>1. Owner[n] \in Partition BY <1>2, OwnerAssumption
  <2>2. Plain(Owner[n]) \in Requests BY <1>1, <2>1 DEF Requests
  <2>3. n \in AskedNodes BY <1>2, <1>5, <2>2, AllAsked DEF EndResolve
  <2>4. Cut(plan, b, 2) \in next BY <1>4, <2>3
  <2>5. QED BY <1>5, <2>4, EnterKeeps DEF EndResolve
<1>6. CASE \E p \in Partition : ResolveRpc(p)
  <2>1. PICK p \in Partition : ResolveRpc(p) BY <1>6
  <2>2. /\ plan' = plan /\ route' = route /\ phase' = "resolve"
        /\ asked' = asked \cup {Plain(p)} /\ next \subseteq next'
        /\ Routed(p) => Resolve(Idx(p), s) \subseteq next'
    BY <1>1, <2>1 DEF ResolveRpc, Settle, env
  <2>3. ASSUME (n \in AskedNodes)' PROVE Cut(plan, b, 2) \in next'
    <3>1. CASE n \in AskedNodes BY <1>4, <2>2, <3>1
    <3>2. CASE n \notin AskedNodes
      <4>0. PICK m : m = n OBVIOUS
      <4>1. (m \in AskedNodes)' BY <2>2, <2>3, <4>0
      <4>2. Routed(p) /\ n \in Slice(p) BY <2>2, <3>2, <4>0, <4>1, AskedBy
      <4>3. PICK h \in AllSeen : IsGraph(h) /\ Closed(h) /\ Idx(p) = Build(p, h) /\ Within(c, h)
        BY <4>2, ServedAgrees
      <4>4. n \in DOMAIN h.node /\ Search!Selects(h, s, n)
        BY <1>2, <4>3 DEF Within, Search!Selects
      <4>5. Search!FromNode(s.to, n) \in Search!Starts(h, Slice(p), s)
        BY <4>2, <4>4 DEF Search!Starts
      <4>6. QED BY <1>1, <1>3, <2>2, <4>2, <4>3, <4>5, ResolveSlice
    <3>3. QED BY <3>1, <3>2
  <2>4. QED BY <2>2, <2>3 DEF Keeps, OfAnti
<1>7. QED BY <1>5, <1>6

----------------------------------------------------------------------------
(* A hop.                                                                  *)

LEMMA BoundNext ==
  ASSUME NEW pl, NEW i \in Nat \ {0}
  PROVE  Search!BoundBefore(pl, i + 1) = Search!BoundBefore(pl, i) \cup Search!Binds(pl[i])
<1>1. 1 .. (i + 1) - 1 = (1 .. i - 1) \cup {i} OBVIOUS
<1>2. QED BY <1>1 DEF Search!BoundBefore

LEMMA HopTypes ==
  ASSUME PlansScoped, RInv, phase \in {"hop", "filter"}
  PROVE  /\ plan \in Plans /\ Len(plan) \in Nat \ {0} /\ pos \in 1 .. Len(plan)
         /\ pos \in Nat \ {0} /\ pos + 1 \in 2 .. Len(plan) + 1
         /\ step = plan[pos] /\ step \in HopStep /\ step \in PlanStep /\ step.kind = "hop"
         /\ step.from \in Alias /\ step.to \in Alias /\ step.max \in Nat /\ step.min \in Nat
         /\ step.edge \in Alias \cup {NoAlias} /\ step.edge # step.to
         /\ (step.edge # NoAlias => step.max = 1)
         /\ depth \in Nat \ {0}
         /\ step.from \in Search!BoundBefore(plan, pos)
         /\ step.to \notin Search!BoundBefore(plan, pos)
         /\ step.edge \notin Search!BoundBefore(plan, pos)
         /\ Search!BoundBefore(plan, pos + 1)
              = Search!BoundBefore(plan, pos) \cup ({step.to, step.edge} \ {NoAlias})
<1>1. /\ plan \in Plans /\ Len(plan) \in Nat \ {0} /\ pos \in 1 .. Len(plan) + 1
      /\ pos <= Len(plan) /\ step \in HopStep /\ depth \in Nat \ {0}
  BY PlanTypes DEF RInv, TypeInv, TypeOK, PhaseFitsStep
<1>2. /\ step.kind = "hop" /\ step.from \in Alias /\ step.to \in Alias /\ step.max \in Nat
      /\ step.min \in Nat /\ step.edge \in Alias \cup {NoAlias} /\ step \in PlanStep
  BY <1>1 DEF HopStep, PlanStep
<1>3. pos \in 1 .. Len(plan) /\ pos \in Nat \ {0} /\ pos + 1 \in 2 .. Len(plan) + 1 BY <1>1
<1>4. step.edge # NoAlias => step.max = 1
  <2>1. IsPlan(plan) BY <1>1, ClusterAssumption
  <2>2. pos # 1 BY <1>2, <2>1 DEF IsPlan, StartStep, AllStep, step
  <2>3. pos \in 2 .. Len(plan) BY <1>3, <2>2
  <2>4. QED BY <1>2, <2>1, <2>3 DEF IsPlan, AntiStep, step
<1>5. Search!Binds(step) = {step.to, step.edge} \ {NoAlias} BY <1>2 DEF Search!Binds
<1>6. /\ Search!Binds(step) \cap Search!BoundBefore(plan, pos) = {}
      /\ Search!BoundBefore(plan, pos) \subseteq Alias
      /\ step.edge # step.to /\ step.from \in Search!BoundBefore(plan, pos)
  BY <1>1, <1>2, Scope DEF step
<1>7. step.to \notin Search!BoundBefore(plan, pos) /\ step.edge \notin Search!BoundBefore(plan, pos)
  BY <1>2, <1>5, <1>6, DataAssumption
<1>8. Search!BoundBefore(plan, pos + 1)
        = Search!BoundBefore(plan, pos) \cup ({step.to, step.edge} \ {NoAlias})
  BY <1>3, <1>5, BoundNext DEF step
<1>9. step = plan[pos] BY DEF step
<1>10. QED BY <1>1, <1>2, <1>3, <1>4, <1>6, <1>7, <1>8, <1>9

\* Where b is after j edges, and one edge further.
LEMMA AlongHop ==
  ASSUME PlansScoped, RInv, phase \in {"hop", "filter"}, NEW b, NEW w, NEW j \in Nat
  PROVE  /\ Along(plan, pos, b, w, j)[IF j = 0 THEN step.from ELSE step.to]
              = IF j = 0 THEN b[step.from] ELSE w[j]
         /\ j # 0 /\ w[j] = b[step.to] => Along(plan, pos, b, w, j) = Cut(plan, b, pos + 1)
         /\ \A e : (step.edge # NoAlias => j = 0 /\ e = b[step.edge]) =>
              Search!Extend(Along(plan, pos, b, w, j), step.to, w[j + 1],
                            IF j = 0 THEN step.edge ELSE NoAlias, e)
                = Along(plan, pos, b, w, j + 1)
<1> DEFINE before == Search!BoundBefore(plan, pos)
           past   == Search!BoundBefore(plan, pos + 1)
<1>1. /\ step.from \in Alias /\ step.to \in Alias /\ step.from \in before
      /\ step.edge # step.to /\ step.to \notin before /\ step.edge \notin before
      /\ step.edge \in Alias \cup {NoAlias} /\ NoAlias \notin Alias
      /\ past = before \cup ({step.to, step.edge} \ {NoAlias}) /\ step = plan[pos]
  BY HopTypes, DataAssumption
<1> HIDE DEF before, past
<1>2. /\ Cut(plan, b, pos) = [a \in Alias |-> IF a \in before THEN b[a] ELSE Unbound]
      /\ Cut(plan, b, pos + 1) = [a \in Alias |-> IF a \in past THEN b[a] ELSE Unbound]
  BY DEF Cut, before, past
<1>3. CASE j = 0
  <2>1. /\ Along(plan, pos, b, w, j) = Cut(plan, b, pos) /\ j + 1 # 0
        /\ Along(plan, pos, b, w, j + 1) = [Cut(plan, b, pos + 1) EXCEPT ![step.to] = w[j + 1]]
    BY <1>1, <1>3 DEF Along
  <2>2. Cut(plan, b, pos)[step.from] = b[step.from] BY <1>1, <1>2
  <2>3. ASSUME NEW e, step.edge # NoAlias => e = b[step.edge]
        PROVE  Search!Extend(Cut(plan, b, pos), step.to, w[j + 1], step.edge, e)
                 = [Cut(plan, b, pos + 1) EXCEPT ![step.to] = w[j + 1]]
    BY <1>1, <1>2, <2>3 DEF Search!Extend
  <2>4. QED BY <1>3, <2>1, <2>2, <2>3
<1>4. CASE j # 0
  <2>1. /\ Along(plan, pos, b, w, j) = [Cut(plan, b, pos + 1) EXCEPT ![step.to] = w[j]]
        /\ Along(plan, pos, b, w, j + 1) = [Cut(plan, b, pos + 1) EXCEPT ![step.to] = w[j + 1]]
        /\ j + 1 # 0
    BY <1>1, <1>4 DEF Along
  <2>2. [Cut(plan, b, pos + 1) EXCEPT ![step.to] = w[j]][step.to] = w[j] BY <1>1, <1>2
  <2>3. w[j] = b[step.to] =>
          [Cut(plan, b, pos + 1) EXCEPT ![step.to] = w[j]] = Cut(plan, b, pos + 1)
    BY <1>1, <1>2
  <2>4. ASSUME NEW e
        PROVE  Search!Extend([Cut(plan, b, pos + 1) EXCEPT ![step.to] = w[j]], step.to,
                             w[j + 1], NoAlias, e)
                 = [Cut(plan, b, pos + 1) EXCEPT ![step.to] = w[j + 1]]
    BY <1>1, <1>2 DEF Search!Extend
  <2>5. QED BY <1>4, <2>1, <2>2, <2>3, <2>4
<1>5. QED BY <1>3, <1>4

\* There is a way.
LEMMA HopHasWay ==
  ASSUME PlansScoped, RInv, phase = "hop", NEW c, NEW b, Agreed(c, b)
  PROVE  \E l \in 1 .. step.max : \E w \in [0 .. l -> NodeId] : Way(c, Reach, step, b, w, l)
<1>1. Search!StepHolds(c, Reach, step, b) BY HopTypes, StepAgreed
<1>2. CASE step.edge = NoAlias
  <2>1. PICK d \in 1 .. step.max :
          d >= step.min /\ Search!Walk(c, Reach, step, b[step.from], b[step.to], d)
    BY <1>1, <1>2, HopTypes DEF Search!StepHolds
  <2>2. PICK w \in [0 .. d -> NodeId] :
          /\ w[0] = b[step.from] /\ w[d] = b[step.to]
          /\ \A i \in 0 .. d - 1 : \E e \in Search!Exits(c, Reach, step, w[i]) :
               Search!Far(c.edge[e], step.dir) = w[i + 1]
    BY <2>1 DEF Search!Walk
  <2>3. Way(c, Reach, step, b, w, d) BY <1>2, <2>1, <2>2 DEF Way, Leg
  <2>4. QED BY <2>3
<1>3. CASE step.edge # NoAlias
  <2>1. /\ b[step.edge] \in Search!Exits(c, Reach, step, b[step.from])
        /\ b[step.to] = Search!Far(c.edge[b[step.edge]], step.dir) /\ step.min <= step.max
    BY <1>1, <1>3, HopTypes DEF Search!StepHolds
  <2> DEFINE w == [j \in 0 .. 1 |-> IF j = 0 THEN b[step.from] ELSE b[step.to]]
  <2>2. b[step.from] \in NodeId BY <2>1 DEF Search!Exits, Reach
  <2>3. b[step.to] \in NodeId
    BY <2>1, CommonIsGraph, GraphRows, SameHelpers DEF Search!Exits, Far
  <2>4. w \in [0 .. 1 -> NodeId] /\ w[0] = b[step.from] /\ w[1] = b[step.to] BY <2>2, <2>3
  <2> HIDE DEF w
  <2>5. Leg(c, Reach, step, b, w[0], w[0 + 1]) BY <2>1, <2>4 DEF Leg
  <2>6. 0 .. 1 - 1 = {0} OBVIOUS
  <2>7. step.max = 1 BY <1>3, HopTypes
  <2>8. Way(c, Reach, step, b, w, 1) BY <2>1, <2>4, <2>5, <2>6, <2>7 DEF Way
  <2>9. 1 \in 1 .. step.max BY <2>7
  <2>10. QED BY <2>4, <2>8, <2>9
<1>4. QED BY <1>2, <1>3

LEMMA ExpandKeeps ==
  ASSUME GraphsClosed, PlansScoped, RInv, NEW c, NEW b, Agreed(c, b), Keeps(c, b),
         NEW p \in Partition, ExpandRpc(p)
  PROVE  Keeps(c, b)'
<1>1. /\ phase = "hop" /\ phase' = "hop" /\ plan' = plan /\ route' = route /\ pos' = pos
      /\ depth' = depth /\ current' = current /\ accepted' = accepted
      /\ asked' = asked \cup {Plain(p)} /\ next \subseteq next'
      /\ Routed(p) => UNION {ExpandHop(Idx(p), step, Cursor, EdgeAlias, k) :
                               k \in OwnedBy(p, Cursor, current)} \subseteq next'
  BY DEF ExpandRpc, Settle, env
<1>2. step' = step /\ Reach' = Reach BY <1>1 DEF step, Reach, Routed
<1>3. KeepsHop(c, b) BY <1>1 DEF Keeps
<1>4. ASSUME NEW l \in 1 .. step.max, NEW w \in [0 .. l -> NodeId],
             Way(c, Reach, step, b, w, l), depth <= l, (w[depth - 1] \in AskedNodes)'
      PROVE  Along(plan, pos, b, w, depth) \in next'
  <2>1. /\ depth \in Nat \ {0} /\ depth - 1 \in Nat /\ (depth - 1) + 1 = depth
        /\ depth - 1 \in 0 .. l - 1 /\ depth - 1 \in 0 .. l /\ depth <= l + 1
    <3>1. depth \in Nat \ {0} BY <1>1, HopTypes
    <3>2. l \in Nat /\ depth <= l BY <1>1, <1>4, HopTypes
    <3>3. QED BY <3>1, <3>2
  <2>2. PICK n : n = w[depth - 1] OBVIOUS
  <2>3. CASE n \in AskedNodes
    BY <1>1, <1>3, <1>4, <2>2, <2>3 DEF KeepsHop
  <2>4. CASE n \notin AskedNodes
    <3>1. (n \in AskedNodes)' BY <1>1, <1>4, <2>2
    <3>2. Routed(p) /\ n \in Slice(p) BY <1>1, <2>4, <3>1, AskedBy
    <3>3. PICK h \in AllSeen : IsGraph(h) /\ Closed(h) /\ Idx(p) = Build(p, h) /\ Within(c, h)
      BY <3>2, ServedAgrees
    <3> DEFINE k == Along(plan, pos, b, w, depth - 1)
    <3>4. k \in current BY <1>3, <1>4, <2>1 DEF KeepsHop
    <3>5. Cursor = (IF depth - 1 = 0 THEN step.from ELSE step.to)
          /\ EdgeAlias = (IF depth - 1 = 0 THEN step.edge ELSE NoAlias)
      BY <2>1 DEF Cursor, EdgeAlias
    <3>6. k[Cursor] = n
      <4>1. w[0] = b[step.from] BY <1>4 DEF Way
      <4>2. k[Cursor] = IF depth - 1 = 0 THEN b[step.from] ELSE w[depth - 1]
        BY <1>1, <2>1, <3>5, AlongHop
      <4>3. QED BY <2>1, <2>2, <4>1, <4>2
    <3>7. PICK e \in Search!Exits(c, Reach, step, n) :
            /\ Search!Far(c.edge[e], step.dir) = w[depth]
            /\ step.edge # NoAlias => e = b[step.edge]
      BY <1>4, <2>1, <2>2 DEF Way, Leg
    <3>8. e \in Search!Exits(h, Slice(p), step, n) /\ h.edge[e] = c.edge[e]
      BY <3>2, <3>3, <3>7, WithinExits
    <3>9. step.edge # NoAlias => depth - 1 = 0
      <4>1. step.edge # NoAlias => l = 1 BY <1>4 DEF Way
      <4>2. QED BY <1>4, <2>1, <4>1
    <3>10. Search!Extend(k, step.to, w[depth], EdgeAlias, e) = Along(plan, pos, b, w, depth)
      <4>1. Search!Extend(k, step.to, w[(depth - 1) + 1],
                          IF depth - 1 = 0 THEN step.edge ELSE NoAlias, e)
              = Along(plan, pos, b, w, (depth - 1) + 1)
        BY <1>1, <2>1, <3>7, <3>9, AlongHop
      <4>2. QED BY <2>1, <3>5, <4>1
    <3> HIDE DEF k
    <3>11. Along(plan, pos, b, w, depth) \in ExpandHop(Build(p, h), step, Cursor, EdgeAlias, k)
      <4>1. step \in HopStep BY <1>1, HopTypes
      <4>2. ExpandHop(Build(p, h), step, Cursor, EdgeAlias, k)
              = {Search!Extend(k, step.to, Search!Far(h.edge[f], step.dir), EdgeAlias, f) :
                   f \in Search!Exits(h, Slice(p), step, k[Cursor])}
        BY <3>2, <3>3, <3>6, <4>1, ExpandSlice
      <4>3. Search!Far(h.edge[e], step.dir) = w[depth] BY <3>7, <3>8
      <4>4. QED BY <3>6, <3>8, <3>10, <4>2, <4>3
    <3>12. k \in OwnedBy(p, Cursor, current) BY <3>2, <3>4, <3>6 DEF OwnedBy, Slice
    <3>13. ExpandHop(Build(p, h), step, Cursor, EdgeAlias, k) \subseteq next'
      BY <1>1, <3>2, <3>3, <3>12
    <3>14. QED BY <3>11, <3>13
  <2>5. QED BY <2>3, <2>4
<1>5. KeepsHop(c, b)'
  <2>1. ASSUME NEW l \in 1 .. step.max, NEW w \in [0 .. l -> NodeId],
               Way(c, Reach, step, b, w, l)
        PROVE  /\ depth <= l + 1 => Along(plan, pos, b, w, depth - 1) \in current
               /\ depth > l => Cut(plan, b, pos + 1) \in accepted
               /\ depth <= l /\ (w[depth - 1] \in AskedNodes)' =>
                    Along(plan, pos, b, w, depth) \in next'
    BY <1>3, <1>4, <2>1 DEF KeepsHop
  <2>2. QED BY <1>1, <1>2, <2>1 DEF KeepsHop
<1>6. QED BY <1>1, <1>5 DEF Keeps, OfAnti

LEMMA RoundKeeps ==
  ASSUME GraphsClosed, PlansScoped, RInv, NEW c, NEW b, Agreed(c, b), Keeps(c, b), EndRound
  PROVE  Keeps(c, b)'
<1>1. /\ phase = "hop" /\ phase' = "hop" /\ plan' = plan /\ route' = route /\ pos' = pos
      /\ depth' = depth + 1 /\ current' = next /\ asked' = {} /\ Pending = {}
      /\ depth <= step.max
      /\ accepted' = IF depth >= step.min THEN accepted \cup next ELSE accepted
  BY DEF EndRound, Continue, env
<1>2. step' = step /\ Reach' = Reach BY <1>1 DEF step, Reach, Routed
<1>3. KeepsHop(c, b) BY <1>1 DEF Keeps
<1>4. \A n : ~ (n \in AskedNodes)' BY <1>1, NoneAsked
<1>5. depth \in Nat \ {0} /\ step.max \in Nat /\ step.min \in Nat BY <1>1, HopTypes
<1>6. ASSUME NEW l \in 1 .. step.max, NEW w \in [0 .. l -> NodeId],
             Way(c, Reach, step, b, w, l), depth <= l
      PROVE  Along(plan, pos, b, w, depth) \in next
  <2>1. /\ depth - 1 \in Nat /\ (depth - 1) + 1 = depth
        /\ depth - 1 \in 0 .. l - 1 /\ depth - 1 \in 0 .. l /\ depth <= l + 1
    BY <1>5, <1>6
  <2>2. PICK n : n = w[depth - 1] OBVIOUS
  <2>3. n \in Reach /\ n \in NodeId
    BY <1>6, <2>1, <2>2 DEF Way, Leg, Search!Exits, Reach
  <2> DEFINE k == Along(plan, pos, b, w, depth - 1)
  <2>4. k \in current BY <1>3, <1>6, <2>1 DEF KeepsHop
  <2>5. k[Cursor] = n
    <3>1. Cursor = (IF depth - 1 = 0 THEN step.from ELSE step.to) BY <2>1 DEF Cursor
    <3>2. w[0] = b[step.from] BY <1>6 DEF Way
    <3>3. k[Cursor] = IF depth - 1 = 0 THEN b[step.from] ELSE w[depth - 1]
      BY <1>1, <2>1, <3>1, AlongHop
    <3>4. QED BY <2>1, <2>2, <3>2, <3>3
  <2> HIDE DEF k
  <2>6. k \in OwnedBy(Owner[n], Cursor, current) BY <2>3, <2>4, <2>5 DEF OwnedBy
  <2>7. Plain(Owner[n]) \in Requests
    <3>1. Owner[n] \in Partition BY <2>3, OwnerAssumption
    <3>2. ~ (depth > step.max) BY <1>1, <1>5
    <3>3. Requests = {Plain(p) : p \in {q \in Partition : OwnedBy(q, Cursor, current) # {}}}
      BY <1>1, <3>2 DEF Requests
    <3>4. QED BY <2>6, <3>1, <3>3
  <2>8. n \in AskedNodes BY <1>1, <2>3, <2>7, AllAsked
  <2>9. QED BY <1>3, <1>6, <2>2, <2>8 DEF KeepsHop
<1>7. ASSUME NEW l \in 1 .. step.max, NEW w \in [0 .. l -> NodeId],
             Way(c, Reach, step, b, w, l)
      PROVE  /\ depth + 1 <= l + 1 => Along(plan, pos, b, w, (depth + 1) - 1) \in next
             /\ depth + 1 > l => Cut(plan, b, pos + 1) \in accepted'
  <2>1. (depth + 1) - 1 = depth BY <1>5
  <2>2. depth + 1 <= l + 1 => depth <= l BY <1>5
  <2>3. CASE depth + 1 > l
    <3>1. CASE depth > l
      <4>1. Cut(plan, b, pos + 1) \in accepted BY <1>3, <1>7, <3>1 DEF KeepsHop
      <4>2. QED BY <1>1, <1>5, <2>1, <2>3, <3>1, <4>1
    <3>2. CASE depth = l
      <4>1. Along(plan, pos, b, w, depth) \in next BY <1>5, <1>6, <1>7, <3>2
      <4>2. w[depth] = b[step.to] /\ depth >= step.min BY <1>7, <3>2 DEF Way
      <4>3. Along(plan, pos, b, w, depth) = Cut(plan, b, pos + 1)
        BY <1>1, <1>5, <4>2, AlongHop
      <4>4. QED BY <1>1, <1>6, <1>7, <2>1, <2>2, <4>1, <4>2, <4>3
    <3>3. QED BY <1>5, <2>3, <3>1, <3>2
  <2>4. QED BY <1>6, <1>7, <2>1, <2>2, <2>3
<1>8. KeepsHop(c, b)'
  BY <1>1, <1>2, <1>4, <1>7 DEF KeepsHop
<1>9. QED BY <1>1, <1>8 DEF Keeps, OfAnti

LEMMA HopOverKeeps ==
  ASSUME GraphsClosed, PlansScoped, RInv, NEW c, NEW b, Agreed(c, b), Keeps(c, b), HopOver
  PROVE  Cut(plan, b, pos + 1) \in accepted
<1>1. phase = "hop" /\ (depth > step.max \/ current = {}) BY DEF HopOver
<1>2. PICK l \in 1 .. step.max : \E w \in [0 .. l -> NodeId] : Way(c, Reach, step, b, w, l)
  BY <1>1, HopHasWay
<1>3. PICK w \in [0 .. l -> NodeId] : Way(c, Reach, step, b, w, l) BY <1>2
<1>4. /\ depth <= l + 1 => Along(plan, pos, b, w, depth - 1) \in current
      /\ depth > l => Cut(plan, b, pos + 1) \in accepted
  BY <1>1, <1>3 DEF Keeps, KeepsHop
<1>5. depth \in Nat \ {0} /\ step.max \in Nat BY <1>1, HopTypes
<1>6. QED BY <1>1, <1>4, <1>5

LEMMA EndHopKeeps ==
  ASSUME GraphsClosed, PlansScoped, RInv, NEW c, NEW b, Agreed(c, b), Keeps(c, b),
         EndHop \/ BeginFilter
  PROVE  Keeps(c, b)'
<1>1. HopOver BY DEF EndHop, BeginFilter
<1>2. Cut(plan, b, pos + 1) \in accepted BY <1>1, HopOverKeeps
<1>3. CASE EndHop
  <2>1. PICK i : i = pos + 1 OBVIOUS
  <2>2. Enter(i, accepted) /\ Cut(plan, b, i) \in accepted BY <1>2, <1>3, <2>1 DEF EndHop
  <2>3. PICK B : B = accepted OBVIOUS
  <2>4. Enter(i, B) /\ Cut(plan, b, i) \in B BY <2>2, <2>3 DEF Enter
  <2>5. QED BY <2>4, EnterKeeps
<1>4. CASE BeginFilter
  <2>1. /\ phase' = "filter" /\ plan' = plan /\ pos' = pos /\ current' = accepted /\ asked' = {}
    BY <1>4 DEF BeginFilter, Continue, env
  <2>2. \A n : ~ (n \in AskedNodes)' BY <2>1, NoneAsked
  <2>3. PICK n : n = b[step.to] OBVIOUS
  <2>4. step' = step BY <2>1 DEF step
  <2>5. (b[step.to] \in AskedNodes)' = (n \in AskedNodes)' BY <2>3, <2>4
  <2>6. step.filters # {} BY <1>4 DEF BeginFilter
  <2>7. QED BY <1>2, <2>1, <2>2, <2>4, <2>5, <2>6 DEF Keeps, OfAnti
<1>5. QED BY <1>3, <1>4

\* The row a replica sends of a node the common rows have.
LEMMA NodeRowSent ==
  ASSUME GraphsClosed, RInv, NEW c, NEW b, Agreed(c, b), NEW p \in Partition, Routed(p),
         NEW ids, NEW n \in ids, n \in DOMAIN c.node, n \in Slice(p)
  PROVE  Row(c, n) \in NodeProperties(Idx(p), ids)
<1>1. PICK h \in AllSeen : IsGraph(h) /\ Closed(h) /\ Idx(p) = Build(p, h) /\ Within(c, h)
  BY ServedAgrees
<1>2. n \in DOMAIN h.node /\ h.node[n] = c.node[n] /\ n \in NodeId
  BY <1>1 DEF Within, Slice
<1>3. Search!PropsOf(h, n) = Search!PropsOf(c, n) BY <1>2 DEF Search!PropsOf
<1>4. <<n, Wire(Search!PropsOf(h, n))>> \in NodeProperties(Build(p, h), ids)
  BY <1>1, <1>2, HydrateSlice
<1>5. QED BY <1>1, <1>3, <1>4 DEF Row

LEMMA FilterKeeps ==
  ASSUME GraphsClosed, PlansScoped, RInv, NEW c, NEW b, Agreed(c, b), Keeps(c, b),
         (\E p \in Partition : FilterRpc(p)) \/ EndFilter
  PROVE  Keeps(c, b)'
<1> DEFINE n == b[step.to]
           k == Cut(plan, b, pos + 1)
<1>1. phase = "filter" BY DEF FilterRpc, EndFilter
<1>2. /\ step \in HopStep /\ step.kind = "hop" /\ step.to \in Alias /\ step.to # NoAlias
      /\ step = plan[pos] /\ pos \in 1 .. Len(plan) /\ pos + 1 \in 1 .. Len(plan) + 1
      /\ step.filters \in SUBSET Filter
      /\ step.to \in Search!BoundBefore(plan, pos + 1)
  BY <1>1, HopTypes, DataAssumption DEF HopStep
<1>3. k \in current /\ k[step.to] = n
  BY <1>1, <1>2 DEF Keeps, Cut
<1>4. n \in AskedNodes => Row(c, n) \in hydrated BY <1>1 DEF Keeps
<1>5. step.filters # {} /\ Search!Passes(c, Reach, step, b)
  BY <1>1, <1>2, StepAgreed DEF Search!StepHolds, Keeps
<1>6. CASE \E p \in Partition : FilterRpc(p)
  <2>1. PICK p \in Partition : FilterRpc(p) BY <1>6
  <2> DEFINE ids == {q[step.to] : q \in OwnedBy(p, step.to, current)}
  <2>2. /\ plan' = plan /\ route' = route /\ phase' = "filter" /\ pos' = pos
        /\ current' = current /\ asked' = asked \cup {Plain(p)} /\ hydrated \subseteq hydrated'
        /\ Routed(p) => NodeProperties(Idx(p), ids) \subseteq hydrated'
    BY <1>1, <2>1 DEF FilterRpc, Settle, env
  <2>3. step' = step BY <2>2 DEF step
  <2>4. PICK m : m = n OBVIOUS
  <2>5. ASSUME (m \in AskedNodes)' PROVE Row(c, m) \in hydrated'
    <3>1. CASE m \in AskedNodes BY <1>4, <2>2, <2>4, <3>1
    <3>2. CASE m \notin AskedNodes
      <4>1. Routed(p) /\ m \in Slice(p) BY <2>2, <2>5, <3>2, AskedBy
      <4>2. k \in OwnedBy(p, step.to, current) BY <1>3, <2>4, <4>1 DEF OwnedBy, Slice
      <4> HIDE DEF k
      <4>3. m \in ids BY <1>3, <2>4, <4>2
      <4>4. m \in DOMAIN c.node
        BY <1>2, <2>4, <4>1, RowsAgreed DEF Slice
      <4> HIDE DEF ids
      <4>5. QED BY <2>2, <4>1, <4>3, <4>4, NodeRowSent
    <3>3. QED BY <3>1, <3>2
  <2>6. (b[step.to] \in AskedNodes)' = (m \in AskedNodes)' BY <2>3, <2>4
  <2>7. QED BY <1>3, <1>5, <2>2, <2>3, <2>4, <2>5, <2>6 DEF Keeps, OfAnti
<1>7. CASE EndFilter
  <2>1. Pending = {} BY <1>7 DEF EndFilter
  <2>2. /\ n \in DOMAIN c.node /\ n \in Reach /\ n \in NodeId
        /\ AllHold(c.node[n].props, step.filters)
    BY <1>5, SameHelpers DEF Search!Passes, Reach
  <2>3. Passes(k)
    <3>1. k \in OwnedBy(Owner[n], step.to, current) BY <1>3, <2>2 DEF OwnedBy
    <3>2. Owner[n] \in Partition BY <2>2, OwnerAssumption
    <3>3. Plain(Owner[n]) \in Requests BY <1>1, <3>1, <3>2 DEF Requests
    <3>4. Row(c, n) \in hydrated BY <1>4, <2>1, <2>2, <3>3, AllAsked
    <3>5. AllHold(Wire(c.node[n].props), step.filters) BY <1>2, <2>2, WireKeepsLiterals
    <3>6. Row(c, n)[1] = n /\ Row(c, n)[2] = Wire(c.node[n].props)
      BY <2>2 DEF Row, Search!PropsOf
    <3>7. QED BY <1>3, <3>4, <3>5, <3>6 DEF Passes
  <2>4. PICK i, B : i = pos + 1 /\ B = {q \in current : Passes(q)} OBVIOUS
  <2>5. Enter(i, B) /\ Cut(plan, b, i) \in B
    BY <1>3, <1>7, <2>3, <2>4 DEF EndFilter, Enter
  <2>6. QED BY <2>5, EnterKeeps
<1>8. QED BY <1>6, <1>7

----------------------------------------------------------------------------
(* A NOT EXISTS.                                                           *)

LEMMA AntiTypes ==
  ASSUME PlansScoped, RInv, phase \in OfAnti
  PROVE  /\ plan \in Plans /\ Len(plan) \in Nat \ {0} /\ pos \in 1 .. Len(plan)
         /\ pos + 1 \in 2 .. Len(plan) + 1
         /\ step = plan[pos] /\ step \in AntiStep /\ step.kind = "anti"
         /\ step.outer \subseteq OuterCondition
         /\ {step.from, step.to} \cup {o.alias : o \in step.outer}
              \subseteq Search!BoundBefore(plan, pos)
         /\ Search!BoundBefore(plan, pos) \subseteq Alias
         /\ Search!BoundBefore(plan, pos + 1) = Search!BoundBefore(plan, pos)
<1>1. /\ plan \in Plans /\ Len(plan) \in Nat \ {0} /\ pos \in 1 .. Len(plan) + 1
      /\ pos <= Len(plan) /\ step \in AntiStep
  BY PlanTypes DEF RInv, TypeInv, TypeOK, PhaseFitsStep, OfAnti
<1>2. step.kind = "anti" /\ step.outer \subseteq OuterCondition BY <1>1 DEF AntiStep
<1>3. pos \in 1 .. Len(plan) /\ pos \in Nat \ {0} /\ pos + 1 \in 2 .. Len(plan) + 1 BY <1>1
<1>4. step = plan[pos] BY DEF step
<1>5. Search!BoundBefore(plan, pos) \subseteq Alias BY <1>1, Scope
<1>6. Search!Reads(step) \subseteq Search!BoundBefore(plan, pos)
  BY <1>1, <1>3, <1>4 DEF PlansScoped, Search!ReadsBound
<1>7. Search!Reads(step) = {step.from, step.to} \cup {o.alias : o \in step.outer}
  BY <1>2 DEF Search!Reads
<1>8. Search!Binds(step) = {} BY <1>2 DEF Search!Binds
<1>9. Search!BoundBefore(plan, pos + 1) = Search!BoundBefore(plan, pos)
  BY <1>3, <1>4, <1>8, BoundNext
<1>10. QED BY <1>1, <1>2, <1>3, <1>4, <1>5, <1>6, <1>7, <1>9

\* An outer reference names a row all graphs share and the query can read,
\* and its value is a literal.
LEMMA OuterAgreed ==
  ASSUME PlansScoped, RInv, phase \in OfAnti, NEW c, NEW b, Agreed(c, b), NEW o \in step.outer
  PROVE  /\ Cut(plan, b, pos)[o.alias] = b[o.alias]
         /\ \/ b[o.alias] \in NodeId /\ b[o.alias] \in DOMAIN c.node /\ b[o.alias] \in Reach
            \/ /\ b[o.alias] \notin NodeId /\ b[o.alias] \in EdgeId
               /\ b[o.alias] \in DOMAIN c.edge /\ c.edge[b[o.alias]].src \in Reach
         /\ \A h : Within(c, h) => Search!PropsOf(h, b[o.alias]) = Search!PropsOf(c, b[o.alias])
         /\ Search!PropsOf(c, b[o.alias])[o.outer] \in Value
         /\ o.outer \in Property
<1>1. /\ o.alias \in Search!BoundBefore(plan, pos) /\ o.alias \in Alias
      /\ o.outer \in Property /\ pos \in 1 .. Len(plan) + 1 /\ pos \in 1 .. Len(plan)
      /\ step = plan[pos] /\ step.kind = "anti"
  BY AntiTypes DEF OuterCondition
<1>2. Cut(plan, b, pos)[o.alias] = b[o.alias] BY <1>1 DEF Cut
<1>3. PICK id : id = b[o.alias] OBVIOUS
<1>4. \/ id \in NodeId /\ id \in DOMAIN c.node
      \/ id \notin NodeId /\ id \in EdgeId /\ id \in DOMAIN c.edge
  BY <1>1, <1>3, RowsAgreed
<1>5. \A h : Within(c, h) => Search!PropsOf(h, id) = Search!PropsOf(c, id)
  BY <1>4 DEF Within, Search!PropsOf
<1>6. PICK h \in AllSeen : TRUE BY DEF Agreed
<1>7. Within(c, h) /\ IsGraph(h) BY <1>6, CommonIsGraph, SeenAreGraphs, ClusterAssumption
<1>8. id \in Search!ReadableRows(h, Reach) /\ Search!PropsOf(h, id)[o.outer] \in Value
  <2>1. Search!NoSuchEdge(h, Reach, step, b) BY <1>1, <1>6, StepAgreed
  <2>2. QED BY <1>3, <2>1 DEF Search!NoSuchEdge, Search!Resolvable
<1>9. \/ id \in NodeId /\ id \in Reach
      \/ id \notin NodeId /\ h.edge[id].src \in Reach
  BY <1>4, <1>7, <1>8, GraphRows, DataAssumption DEF Search!ReadableRows
<1>10. id \notin NodeId => h.edge[id] = c.edge[id] BY <1>4, <1>7 DEF Within
<1>11. QED BY <1>1, <1>2, <1>3, <1>4, <1>5, <1>7, <1>8, <1>9, <1>10

\* A row hydrated for an edge all graphs share is the row they share.
LEMMA FetchedRow ==
  ASSUME PlansScoped, RInv, phase \in OfAnti, NEW c, NEW b, Agreed(c, b), NEW o \in step.outer,
         NEW r \in hydrated, r[1] = b[o.alias]
  PROVE  r = Row(c, b[o.alias])
<1>1. PICK id : id = b[o.alias] OBVIOUS
<1>2. RowWas(id, r[2]) BY <1>1 DEF RInv, Hydration
<1>3. \E h \in AllSeen : r[2] = Wire(Search!PropsOf(h, id))
  <2>1. CASE id \in NodeId
    BY <1>2, <2>1, SeenAreGraphs DEF RowWas, NodeRowWas, Search!PropsOf
  <2>2. CASE id \notin NodeId
    BY <1>2, <2>2, SeenAreGraphs DEF RowWas, EdgeRowWas, Search!PropsOf
  <2>3. QED BY <2>1, <2>2
<1>4. PICK h \in AllSeen : r[2] = Wire(Search!PropsOf(h, id)) BY <1>3
<1>5. Search!PropsOf(h, id) = Search!PropsOf(c, id) BY <1>1, CommonIsGraph, OuterAgreed
<1>6. r = <<r[1], r[2]>> BY DEF RInv, TypeInv, TypeOK
<1>7. QED BY <1>1, <1>4, <1>5, <1>6 DEF Row

LEMMA OuterKeeps ==
  ASSUME GraphsClosed, PlansScoped, RInv, NEW c, NEW b, Agreed(c, b), Keeps(c, b),
         NEW p \in Partition, OuterNodesRpc(p) \/ OuterEdgesRpc(p)
  PROVE  Keeps(c, b)'
<1> DEFINE k == Cut(plan, b, pos)
<1>1. /\ phase \in {"nodes", "edges"} /\ phase' = phase /\ plan' = plan /\ route' = route
      /\ pos' = pos /\ current' = current /\ asked' = asked \cup {Plain(p)}
      /\ hydrated \subseteq hydrated' /\ phase \in OfAnti
  BY DEF OuterNodesRpc, OuterEdgesRpc, Settle, env, OfAnti
<1>2. step' = step BY <1>1 DEF step
<1>3. k \in current /\ KeepsAnti(c, b) BY <1>1 DEF Keeps
<1>4. ASSUME NEW o \in step.outer, NEW id, id = b[o.alias], AskedFor(c, id)'
      PROVE  Row(c, id) \in hydrated'
  <2>1. CASE AskedFor(c, id) BY <1>1, <1>3, <1>4, <2>1 DEF KeepsAnti
  <2>2. CASE ~ AskedFor(c, id)
    <3>1. id \in OuterIds
      <4>1. k[o.alias] = id BY <1>1, <1>4, OuterAgreed
      <4> HIDE DEF k
      <4>2. QED BY <1>3, <4>1 DEF OuterIds
    <3>2. CASE id \in NodeId
      <4>1. phase = "nodes" /\ id \notin AskedNodes /\ (id \in AskedNodes)'
        BY <1>1, <1>4, <2>2, <3>2 DEF AskedFor
      <4>2. Routed(p) /\ id \in Slice(p) BY <1>1, <4>1, AskedBy
      <4>3. id \in {i \in OuterIds \cap NodeId : Owner[i] = p} BY <3>1, <3>2, <4>2 DEF Slice
      <4>4. id \in DOMAIN c.node BY <1>1, <1>4, <3>2, OuterAgreed
      <4>5. Row(c, id) \in NodeProperties(Idx(p), {i \in OuterIds \cap NodeId : Owner[i] = p})
        BY <4>2, <4>3, <4>4, NodeRowSent
      <4>6. QED BY <1>1, <4>1, <4>2, <4>5 DEF OuterNodesRpc, OuterEdgesRpc
    <3>3. CASE id \notin NodeId
      <4> DEFINE src == c.edge[id].src
      <4>1. phase = "edges" /\ src \notin AskedNodes /\ (src \in AskedNodes)'
        BY <1>1, <1>4, <2>2, <3>3 DEF AskedFor
      <4>2. Routed(p) /\ src \in Slice(p) BY <1>1, <4>1, AskedBy
      <4> HIDE DEF src
      <4>3. id \in EdgeId /\ id \in DOMAIN c.edge BY <1>1, <1>4, <3>3, OuterAgreed
      <4>4. CASE \E r \in hydrated : r[1] = id
        BY <1>1, <1>4, <4>4, FetchedRow
      <4>5. CASE ~ \E r \in hydrated : r[1] = id
        <5>1. id \in EdgesWanted BY <3>1, <4>3, <4>5 DEF EdgesWanted
        <5>2. PICK h \in AllSeen : /\ IsGraph(h) /\ Closed(h) /\ Idx(p) = Build(p, h)
                                   /\ Within(c, h)
          BY <4>2, ServedAgrees
        <5>3. id \in DOMAIN h.edge /\ h.edge[id].src \in Slice(p)
          BY <4>2, <4>3, <5>2 DEF Within, src
        <5>4. <<id, Wire(Search!PropsOf(h, id))>> \in EdgeProperties(Build(p, h), EdgesWanted)
          BY <5>1, <5>2, <5>3, HydrateSlice
        <5>5. Search!PropsOf(h, id) = Search!PropsOf(c, id)
          BY <1>1, <1>4, <5>2, OuterAgreed
        <5>6. Row(c, id) \in EdgeProperties(Idx(p), EdgesWanted) BY <5>2, <5>4, <5>5 DEF Row
        <5>7. QED BY <4>1, <4>2, <5>6 DEF OuterNodesRpc, OuterEdgesRpc
      <4>6. QED BY <4>4, <4>5
    <3>4. QED BY <3>2, <3>3
  <2>3. QED BY <2>1, <2>2
<1>5. KeepsAnti(c, b)'
  <2>1. \A o \in step.outer : AskedFor(c, b[o.alias])' => Row(c, b[o.alias]) \in hydrated'
    <3>1. ASSUME NEW o \in step.outer, AskedFor(c, b[o.alias])'
          PROVE  Row(c, b[o.alias]) \in hydrated'
      <4>1. PICK id : id = b[o.alias] OBVIOUS
      <4>2. AskedFor(c, id)' BY <3>1, <4>1 DEF AskedFor
      <4>3. QED BY <1>4, <4>1, <4>2
    <3>2. QED BY <3>1
  <2>2. phase' # "anti" BY <1>1
  <2>3. QED BY <1>2, <2>1, <2>2 DEF KeepsAnti, AskedFor
<1>6. (Cut(plan, b, pos) \in current)' BY <1>1, <1>3
<1>7. QED BY <1>1, <1>5, <1>6 DEF Keeps, OfAnti

LEMMA EndOuterKeeps ==
  ASSUME GraphsClosed, PlansScoped, RInv, NEW c, NEW b, Agreed(c, b), Keeps(c, b),
         EndOuterNodes \/ EndOuterEdges
  PROVE  Keeps(c, b)'
<1> DEFINE k == Cut(plan, b, pos)
<1>1. /\ phase \in {"nodes", "edges"} /\ phase \in OfAnti /\ plan' = plan /\ route' = route
      /\ phase' = (IF phase = "nodes" THEN "edges" ELSE "anti")
      /\ pos' = pos /\ current' = current /\ asked' = {} /\ hydrated' = hydrated /\ Pending = {}
  BY DEF EndOuterNodes, EndOuterEdges, Continue, env, OfAnti
<1>2. step' = step BY <1>1 DEF step
<1>3. k \in current /\ KeepsAnti(c, b) BY <1>1 DEF Keeps
<1>4. \A n : ~ (n \in AskedNodes)' BY <1>1, NoneAsked
<1>5. ASSUME NEW o \in step.outer, NEW id, id = b[o.alias], AskedFor(c, id)'
      PROVE  Row(c, id) \in hydrated
  <2>1. id \in OuterIds
    <3>1. k[o.alias] = id BY <1>1, <1>5, OuterAgreed
    <3> HIDE DEF k
    <3>2. QED BY <1>3, <3>1 DEF OuterIds
  <2>2. CASE AskedFor(c, id) BY <1>3, <1>5, <2>2 DEF KeepsAnti
  <2>3. CASE id \in NodeId /\ ~ AskedFor(c, id)
    <3>1. phase = "nodes" BY <2>3 DEF AskedFor
    <3>2. Owner[id] \in Partition BY <2>3, OwnerAssumption
    <3>3. Plain(Owner[id]) \in Requests BY <2>1, <2>3, <3>1, <3>2 DEF Requests
    <3>4. id \in Reach BY <1>1, <1>5, <2>3, OuterAgreed
    <3>5. id \in AskedNodes BY <1>1, <3>3, <3>4, AllAsked
    <3>6. QED BY <2>3, <3>5 DEF AskedFor
  <2>4. CASE id \notin NodeId /\ ~ AskedFor(c, id)
    <3>1. phase = "edges"
      <4>1. phase' = "anti" \/ ~ (id \notin NodeId)
        <5>1. PICK src : src = c.edge[id].src OBVIOUS
        <5>2. ~ (src \in AskedNodes)' BY <1>4
        <5>3. QED BY <1>1, <1>5, <2>4, <5>1, <5>2 DEF AskedFor
      <4>2. QED BY <1>1, <2>4, <4>1
    <3>2. id \in EdgeId /\ c.edge[id].src \in Reach BY <1>1, <1>5, <2>4, OuterAgreed
    <3>3. CASE \E r \in hydrated : r[1] = id BY <1>1, <1>5, <3>3, FetchedRow
    <3>4. CASE ~ \E r \in hydrated : r[1] = id
      <4> DEFINE src == c.edge[id].src
      <4>1. id \in EdgesWanted BY <2>1, <3>2, <3>4 DEF EdgesWanted
      <4>2. Owner[src] \in Partition BY <3>2, OwnerAssumption DEF Reach
      <4>3. Plain(Owner[src]) \in Requests BY <3>1, <4>1, <4>2 DEF Requests
      <4>4. src \in AskedNodes BY <1>1, <3>2, <4>3, AllAsked
      <4>5. QED BY <2>4, <3>1, <4>4 DEF AskedFor
    <3>5. QED BY <3>3, <3>4
  <2>5. QED BY <2>2, <2>3, <2>4
<1>6. KeepsAnti(c, b)'
  <2>1. ASSUME NEW o \in step.outer, AskedFor(c, b[o.alias])'
        PROVE  Row(c, b[o.alias]) \in hydrated
    <3>1. PICK id : id = b[o.alias] OBVIOUS
    <3>2. AskedFor(c, id)' BY <2>1, <3>1 DEF AskedFor
    <3>3. QED BY <1>5, <3>1, <3>2
  <2>2. QED BY <1>1, <1>2, <2>1 DEF KeepsAnti, AskedFor
<1>7. (Cut(plan, b, pos) \in current)' BY <1>1, <1>3
<1>8. QED BY <1>1, <1>6, <1>7 DEF Keeps, OfAnti

\* The conditions b is sent with are those its rows make.
LEMMA ConditionsAgreed ==
  ASSUME PlansScoped, RInv, phase = "anti", NEW c, NEW b, Agreed(c, b), Keeps(c, b)
  PROVE  /\ Resolved(Cut(plan, b, pos))
         /\ Conditions(Cut(plan, b, pos)) = Search!Conditions(c, step, b)
         /\ \A h \in AllSeen : Search!Conditions(h, step, b) = Search!Conditions(c, step, b)
<1> DEFINE k == Cut(plan, b, pos)
           val(o) == Search!PropsOf(c, b[o.alias])[o.outer]
<1>1. phase \in OfAnti BY DEF OfAnti
<1>2. ASSUME NEW o \in step.outer
      PROVE  /\ k[o.alias] = b[o.alias] /\ val(o) \in Value
             /\ \A h \in AllSeen : Search!PropsOf(h, b[o.alias]) = Search!PropsOf(c, b[o.alias])
             /\ Row(c, b[o.alias]) \in hydrated
             /\ \A r \in hydrated : r[1] = b[o.alias] => r = Row(c, b[o.alias])
             /\ Row(c, b[o.alias])[1] = b[o.alias] /\ Row(c, b[o.alias])[2][o.outer] = val(o)
  <2>1. /\ k[o.alias] = b[o.alias] /\ val(o) \in Value /\ o.outer \in Property
        /\ \A h \in AllSeen : Search!PropsOf(h, b[o.alias]) = Search!PropsOf(c, b[o.alias])
    BY <1>1, OuterAgreed, CommonIsGraph
  <2>2. AskedFor(c, b[o.alias]) BY DEF AskedFor
  <2>3. Row(c, b[o.alias]) \in hydrated BY <1>1, <2>2 DEF Keeps, KeepsAnti
  <2>4. \A r \in hydrated : r[1] = b[o.alias] => r = Row(c, b[o.alias]) BY <1>1, FetchedRow
  <2>5. Wire(Search!PropsOf(c, b[o.alias]))[o.outer] = val(o) BY <2>1, WireKeepsLiterals
  <2>6. Row(c, b[o.alias])[1] = b[o.alias] /\ Row(c, b[o.alias])[2][o.outer] = val(o)
    BY <2>5 DEF Row
  <2>7. QED BY <2>1, <2>3, <2>4, <2>6
<1> HIDE DEF k, val
<1>3. Resolved(k) BY <1>2 DEF Resolved
<1>4. Conditions(k) = step.literal \cup
        {[prop |-> o.prop, op |-> o.op, val |-> val(o)] : o \in step.outer}
  <2> DEFINE Given(o) == {[prop |-> o.prop, op |-> o.op, val |-> r[2][o.outer]] :
                            r \in {x \in hydrated : x[1] = k[o.alias] /\ x[2][o.outer] \in Value}}
             Made(o) == [prop |-> o.prop, op |-> o.op, val |-> val(o)]
  <2>1. ASSUME NEW o \in step.outer PROVE Given(o) = {Made(o)}
    <3>1. {x \in hydrated : x[1] = k[o.alias] /\ x[2][o.outer] \in Value} = {Row(c, b[o.alias])}
      BY <1>2
    <3>2. Row(c, b[o.alias])[2][o.outer] = val(o) BY <1>2
    <3>3. QED BY <3>1, <3>2
  <2>2. Conditions(k) = step.literal \cup UNION {Given(o) : o \in step.outer}
    BY Zenon DEF Conditions
  <2> HIDE DEF Given, Made
  <2>3. UNION {Given(o) : o \in step.outer} = {Made(o) : o \in step.outer} BY <2>1
  <2>4. QED BY <2>2, <2>3 DEF Made
<1>5. Search!Conditions(c, step, b) = step.literal \cup
        {[prop |-> o.prop, op |-> o.op, val |-> val(o)] : o \in step.outer}
  BY DEF Search!Conditions, val
<1>6. ASSUME NEW h \in AllSeen
      PROVE  Search!Conditions(h, step, b) = step.literal \cup
               {[prop |-> o.prop, op |-> o.op, val |-> val(o)] : o \in step.outer}
  <2>1. \A o \in step.outer : Search!PropsOf(h, b[o.alias])[o.outer] = val(o) BY <1>2 DEF val
  <2>2. QED BY <2>1 DEF Search!Conditions
<1>7. QED BY <1>3, <1>4, <1>5, <1>6 DEF k

LEMMA AntiJoinKeeps ==
  ASSUME GraphsClosed, PlansScoped, RInv, NEW c, NEW b, Agreed(c, b), Keeps(c, b),
         (\E q \in Pending : AntiJoinRpc(q)) \/ EndAntiJoin
  PROVE  Keeps(c, b)'
<1> DEFINE k == Cut(plan, b, pos)
           n == b[step.from]
           sent == Request(Owner[n], Search!Conditions(c, step, b))
<1>1. phase = "anti" /\ phase \in OfAnti BY DEF AntiJoinRpc, EndAntiJoin, OfAnti
<1>2. /\ plan \in Plans /\ pos \in 1 .. Len(plan) /\ step \in AntiStep /\ step = plan[pos]
      /\ step.kind = "anti" /\ pos + 1 \in 2 .. Len(plan) + 1
      /\ step.from \in Search!BoundBefore(plan, pos) /\ step.from \in Alias
      /\ step.to \in Search!BoundBefore(plan, pos) /\ step.to \in Alias
      /\ Search!BoundBefore(plan, pos + 1) = Search!BoundBefore(plan, pos)
  BY <1>1, AntiTypes
<1>3. k[step.from] = n /\ k[step.to] = b[step.to] /\ Cut(plan, b, pos + 1) = k
  BY <1>2 DEF Cut
<1>4. \A h \in AllSeen : Search!NoSuchEdge(h, Reach, step, b) BY <1>2, StepAgreed
<1>5. n \in Reach /\ n \in NodeId /\ Owner[n] \in Partition /\ Routed(Owner[n])
  <2>1. PICK h \in AllSeen : TRUE BY DEF Agreed
  <2>2. n \in Reach BY <1>4, <2>1 DEF Search!NoSuchEdge
  <2>3. QED BY <2>2, OwnerAssumption DEF Reach
<1>6. k \in current /\ (sent \in asked => k \in next) BY <1>1 DEF Keeps, KeepsAnti
<1>7. /\ Resolved(k) /\ Conditions(k) = Search!Conditions(c, step, b)
      /\ \A h \in AllSeen : Search!Conditions(h, step, b) = Search!Conditions(c, step, b)
  BY <1>1, ConditionsAgreed
<1>8. k \in OwnedBy(Owner[n], step.from, current) BY <1>3, <1>5, <1>6 DEF OwnedBy
<1>9. CASE EndAntiJoin
  <2>1. sent \in Requests BY <1>1, <1>5, <1>7, <1>8 DEF Requests
  <2>2. sent \in asked BY <1>9, <2>1 DEF EndAntiJoin, Pending
  <2>3. PICK i, B : i = pos + 1 /\ B = next OBVIOUS
  <2>4. Enter(i, B) /\ Cut(plan, b, i) \in B
    BY <1>3, <1>6, <1>9, <2>2, <2>3 DEF EndAntiJoin, Enter
  <2>5. QED BY <2>4, EnterKeeps
<1>10. CASE \E q \in Pending : AntiJoinRpc(q)
  <2>1. PICK q \in Pending : AntiJoinRpc(q) BY <1>10
  <2>2. /\ plan' = plan /\ route' = route /\ phase' = "anti" /\ pos' = pos
        /\ current' = current /\ asked' = asked \cup {q} /\ hydrated' = hydrated
        /\ next \subseteq next'
        /\ Routed(q.to) =>
             {d \in OwnedBy(q.to, step.from, current) :
                (Resolved(d) /\ Conditions(d) = q.conditions)
                /\ Survives(Idx(q.to), step, q.conditions, d)} \subseteq next'
    BY <1>1, <2>1 DEF AntiJoinRpc, Settle, env
  <2>3. step' = step BY <2>2 DEF step
  <2>4. ASSUME sent \in asked' PROVE k \in next'
    <3>1. CASE sent \in asked BY <1>6, <2>2, <3>1
    <3>2. CASE sent = q
      <4>1. q.to = Owner[n] /\ q.conditions = Search!Conditions(c, step, b)
        BY <3>2 DEF Request
      <4>2. PICK h \in AllSeen : /\ IsGraph(h) /\ Closed(h) /\ Idx(q.to) = Build(q.to, h)
                                 /\ Within(c, h)
        BY <1>5, <4>1, ServedAgrees
      <4>3. n \in Slice(q.to) BY <1>5, <4>1 DEF Slice
      <4>4. \A e \in Search!Exits(h, Slice(q.to), step, n) :
              Search!Far(h.edge[e], step.dir) = b[step.to]
                => ~ Search!AllHold(h.edge[e].props, q.conditions)
        <5>1. Search!Conditions(h, step, b) = q.conditions BY <1>7, <4>1, <4>2
        <5>2. Search!Exits(h, Slice(q.to), step, n) = Search!Exits(h, Reach, step, n)
          BY <1>5, <4>3 DEF Search!Exits
        <5>3. \A e \in Search!Exits(h, Reach, step, n) :
                Search!Far(h.edge[e], step.dir) = b[step.to]
                  => ~ Search!AllHold(h.edge[e].props, Search!Conditions(h, step, b))
          BY <1>4, <4>2 DEF Search!NoSuchEdge
        <5>4. QED BY <5>1, <5>2, <5>3
      <4> HIDE DEF k, n
      <4>5. Survives(Build(q.to, h), step, q.conditions, k)
        BY <1>2, <1>3, <4>2, <4>3, <4>4, SurvivesSlice
      <4>6. QED BY <1>5, <1>7, <1>8, <2>2, <4>1, <4>2, <4>5
    <3>3. QED BY <2>2, <2>4, <3>1, <3>2
  <2>5. KeepsAnti(c, b)'
    <3>1. PICK given : given = Search!Conditions(c, step, b) OBVIOUS
    <3>2. KeepsAnti(c, b) BY <1>1 DEF Keeps
    <3>3. \A o \in step.outer : Row(c, b[o.alias]) \in hydrated
      BY <1>1, <3>2 DEF KeepsAnti, AskedFor
    <3>4. (Request(Owner[b[step.from]], Search!Conditions(c, step, b)) \in asked
             => Cut(plan, b, pos) \in next)'
      BY <2>2, <2>3, <2>4
    <3>5. QED BY <2>2, <2>3, <3>3, <3>4 DEF KeepsAnti
  <2>6. (Cut(plan, b, pos) \in current)' BY <1>6, <2>2
  <2>7. QED BY <2>2, <2>5, <2>6 DEF Keeps, OfAnti
<1>11. QED BY <1>9, <1>10

----------------------------------------------------------------------------
(* A swap, and the whole.                                                  *)

LEMMA FailKeeps ==
  ASSUME RpcFails, NEW c, NEW b
  PROVE  Keeps(c, b)'
BY DEF RpcFails, Keeps, OfAnti

LEMMA SameAgreed ==
  ASSUME UNCHANGED <<plan, route, seen>>, NEW c, NEW b, Agreed(c, b)'
  PROVE  Agreed(c, b)
<1>1. AllSeen' = AllSeen BY DEF AllSeen
<1>2. Reach' = Reach BY DEF Reach, Routed
<1>3. Common' = Common BY <1>1 DEF Common
<1>4. (b \in AgreedAnswer)' BY DEF Agreed
<1>5. b \in AgreedAnswer BY <1>1, <1>2, <1>4 DEF AgreedAnswer
<1>6. QED BY <1>1, <1>3, <1>5 DEF Agreed

LEMMA SameKeeps ==
  ASSUME UNCHANGED <<plan, route, phase, pos, depth, asked, current, next, accepted, hydrated>>,
         NEW c, NEW b, Keeps(c, b)
  PROVE  Keeps(c, b)'
<1>1. Reach' = Reach BY DEF Reach, Routed
<1>2. QED BY <1>1 DEF Keeps, KeepsHop, KeepsAnti, AskedFor, AskedNodes, step

LEMMA NextKeeps ==
  ASSUME GraphsClosed, PlansScoped, RInv, Found, Next, UNCHANGED <<seen, swaps>>
  PROVE  Found'
<1>1. UNCHANGED env
  BY DEF Next, Rpc, EndPhase, ResolveRpc, ExpandRpc, FilterRpc, OuterNodesRpc,
         OuterEdgesRpc, AntiJoinRpc, EndResolve, EndRound, EndHop, BeginFilter,
         EndFilter, EndOuterNodes, EndOuterEdges, EndAntiJoin, Enter, Continue, RpcFails
<1>2. plan' = plan /\ route' = route /\ seen' = seen BY <1>1 DEF env
<1>3. ASSUME NEW c, NEW b, Agreed(c, b)' PROVE Keeps(c, b)'
  <2>1. Agreed(c, b) BY <1>2, <1>3, SameAgreed
  <2>2. Keeps(c, b) BY <2>1 DEF Found
  <2>3. CASE Rpc
    BY <2>1, <2>2, <2>3, ResolveKeeps, ExpandKeeps, FilterKeeps, OuterKeeps, AntiJoinKeeps
       DEF Rpc
  <2>4. CASE EndPhase
    BY <2>1, <2>2, <2>4, ResolveKeeps, RoundKeeps, EndHopKeeps, FilterKeeps, EndOuterKeeps,
       AntiJoinKeeps DEF EndPhase
  <2>5. QED BY <2>3, <2>4, FailKeeps DEF Next
<1>4. QED BY <1>3 DEF Found

\* What is owed for the rows that fewer graphs share covers what is owed for
\* those that more do.
LEMMA KeepsFewer ==
  ASSUME PlansScoped, RInv, NEW c, NEW b, Agreed(c, b), Keeps(c, b),
         NEW d, Within(d, c), b \in Search!Candidates(d, plan)
  PROVE  Keeps(d, b)
<1>1. IsGraph(c) /\ IsGraph(d) BY CommonIsGraph, WithinGraph
<1>2. ASSUME NEW i \in 1 .. Len(plan) + 1, NEW a \in Search!BoundBefore(plan, i)
      PROVE  /\ Search!PropsOf(d, b[a]) = Search!PropsOf(c, b[a])
             /\ b[a] \notin NodeId => d.edge[b[a]] = c.edge[b[a]]
  <2>1. PICK id : id = b[a] OBVIOUS
  <2>2. \/ id \in NodeId /\ id \in DOMAIN d.node
        \/ id \notin NodeId /\ id \in DOMAIN d.edge
    BY <1>1, <2>1, CandidateRows
  <2>3. /\ Search!PropsOf(d, id) = Search!PropsOf(c, id)
        /\ id \notin NodeId => d.edge[id] = c.edge[id]
    BY <2>2 DEF Within, Search!PropsOf
  <2>4. QED BY <2>1, <2>3
<1>3. ASSUME phase = "hop" PROVE KeepsHop(d, b)
  <2>1. ASSUME NEW l \in 1 .. step.max, NEW w, Way(d, Reach, step, b, w, l)
        PROVE  Way(c, Reach, step, b, w, l)
    <3>1. ASSUME NEW m, NEW n, Leg(d, Reach, step, b, m, n) PROVE Leg(c, Reach, step, b, m, n)
      <4>1. PICK e \in Search!Exits(d, Reach, step, m) :
              Search!Far(d.edge[e], step.dir) = n /\ (step.edge # NoAlias => e = b[step.edge])
        BY <3>1 DEF Leg
      <4>2. m \in Reach BY <4>1 DEF Search!Exits
      <4>3. e \in Search!Exits(c, Reach, step, m) /\ c.edge[e] = d.edge[e]
        BY <4>1, <4>2, WithinExits
      <4>4. QED BY <4>1, <4>3 DEF Leg
    <3>2. QED BY <2>1, <3>1 DEF Way
  <2>2. KeepsHop(c, b) BY <1>3 DEF Keeps
  <2>3. QED BY <2>1, <2>2 DEF KeepsHop
<1>4. ASSUME phase = "filter" PROVE Row(d, b[step.to]) = Row(c, b[step.to])
  <2>1. /\ pos + 1 \in 1 .. Len(plan) + 1 /\ step.to \in Search!BoundBefore(plan, pos + 1)
    BY <1>4, HopTypes, DataAssumption
  <2>2. QED BY <1>2, <2>1 DEF Row
<1>5. ASSUME phase \in OfAnti PROVE KeepsAnti(d, b)
  <2>1. pos \in 1 .. Len(plan) + 1 /\ \A o \in step.outer : o.alias \in Search!BoundBefore(plan, pos)
    BY <1>5, AntiTypes
  <2>2. ASSUME NEW o \in step.outer
        PROVE  /\ Search!PropsOf(d, b[o.alias]) = Search!PropsOf(c, b[o.alias])
               /\ b[o.alias] \notin NodeId => d.edge[b[o.alias]] = c.edge[b[o.alias]]
    BY <1>2, <2>1
  <2>3. Search!Conditions(d, step, b) = Search!Conditions(c, step, b)
    BY <2>2 DEF Search!Conditions
  <2>4. ASSUME NEW o \in step.outer, AskedFor(d, b[o.alias])
        PROVE  Row(d, b[o.alias]) \in hydrated
    <3>1. AskedFor(c, b[o.alias]) BY <2>2, <2>4 DEF AskedFor
    <3>2. Row(c, b[o.alias]) \in hydrated BY <1>5, <3>1 DEF Keeps, KeepsAnti
    <3>3. QED BY <2>2, <3>2 DEF Row
  <2>5. QED BY <1>5, <2>3, <2>4 DEF Keeps, KeepsAnti
<1>6. QED BY <1>3, <1>4, <1>5 DEF Keeps

LEMMA SwapKeeps ==
  ASSUME PlansScoped, RInv, Found, NEW r \in Replica, NEW h \in Graphs, Swap(r, h)
  PROVE  Found'
<1>1. /\ UNCHANGED <<plan, route, phase, pos, depth, asked, current, next, accepted, hydrated>>
      /\ seen' = [seen EXCEPT ![r] = @ \cup {h}]
  BY DEF Swap
<1>2. seen \in [Replica -> SUBSET Graphs] /\ \A k \in Replica : served[k] \in seen[k]
  BY DEF RInv, Recorded
<1>3. AllSeen \subseteq AllSeen' /\ (AllSeen' # {} => AllSeen # {})
  <2>1. \A k \in Replica : seen[k] \subseteq seen'[k] /\ seen[k] # {} BY <1>1, <1>2
  <2>2. AllSeen' = UNION {seen'[k] : k \in {route[p] : p \in Partition} \cap Replica}
    BY <1>1 DEF AllSeen
  <2>3. QED BY <2>1, <2>2 DEF AllSeen
<1>4. Reach' = Reach BY <1>1 DEF Reach, Routed
<1>5. /\ plan \in Plans /\ Len(plan) \in Nat /\ \A i \in 1 .. Len(plan) : plan[i] \in PlanStep
  <2>1. plan \in Plans /\ Len(plan) \in Nat BY PlanTypes DEF RInv, TypeInv, TypeOK
  <2>2. plan \in Seq(PlanStep) BY <2>1, ClusterAssumption DEF IsPlan
  <2>3. QED BY <2>1, <2>2
<1>6. ASSUME NEW d, NEW b, Agreed(d, b)'
      PROVE  Keeps(d, b)'
  <2> DEFINE c == Common
  <2>1. PICK H : H = AllSeen' OBVIOUS
  <2>2. H # {} /\ d = Core(H) /\ AllSeen # {} /\ AllSeen \subseteq H
    BY <1>3, <1>6, <2>1 DEF Agreed, Common
  <2>3. Within(d, c) BY <2>2, CoreShrinks DEF Common
  <2>4. /\ b \in Search!Candidates(d, plan)
        /\ \A i \in 1 .. Len(plan) :
             /\ plan[i].kind = "anti" => \A g \in H : Search!NoSuchEdge(g, Reach, plan[i], b)
             /\ plan[i].kind # "anti" => Search!StepHolds(d, Reach, plan[i], b)
    BY <1>1, <1>4, <1>6, <2>1, <2>2 DEF Agreed, AgreedAnswer, IsAnti
  <2>5. Agreed(c, b)
    <3>1. b \in Search!Candidates(c, plan) BY <2>3, <2>4, WithinCandidates
    <3>2. ASSUME NEW i \in 1 .. Len(plan)
          PROVE  IF IsAnti(plan[i]) THEN \A g \in AllSeen : Search!NoSuchEdge(g, Reach, plan[i], b)
                 ELSE Search!StepHolds(c, Reach, plan[i], b)
      BY <1>5, <2>2, <2>3, <2>4, WithinStep DEF IsAnti
    <3>3. QED BY <2>2, <3>1, <3>2 DEF Agreed, AgreedAnswer, Common
  <2>6. Keeps(c, b) BY <2>5 DEF Found
  <2>7. Keeps(d, b) BY <2>3, <2>4, <2>5, <2>6, KeepsFewer
  <2>8. QED BY <1>1, <2>7, SameKeeps
<1>7. QED BY <1>6 DEF Found

LEMMA StepFound ==
  ASSUME GraphsClosed, PlansScoped, RInv, Found, [RebuildNext]_rebuildVars
  PROVE  Found'
<1>1. CASE Next /\ UNCHANGED <<seen, swaps>> BY <1>1, NextKeeps
<1>2. CASE \E r \in Replica, h \in Graphs : Swap(r, h) BY <1>2, SwapKeeps
<1>3. CASE UNCHANGED rebuildVars
  <2>1. UNCHANGED <<plan, route, phase, pos, depth, asked, current, next, accepted, hydrated,
                    seen>>
    BY <1>3 DEF rebuildVars, vars
  <2>2. QED BY <2>1, SameAgreed, SameKeeps DEF Found
<1>4. QED BY <1>1, <1>2, <1>3 DEF RebuildNext

\* A rebuild loses no answer that it does not touch: a binding whose every
\* step follows from rows that all the generations seen share, and whose every
\* NOT EXISTS holds in each of them, is returned, wherever between the RPCs
\* the swaps fall.
THEOREM AgreedAreFound ==
  GraphsClosed /\ PlansScoped => (RebuildSpec => []AgreedAnswersAreFound)
<1> SUFFICES ASSUME GraphsClosed, PlansScoped PROVE RebuildSpec => []AgreedAnswersAreFound
  OBVIOUS
<1>1. RebuildInit => RInv /\ Found
  <2>1. ASSUME RebuildInit, NEW c, NEW b PROVE Keeps(c, b)
    BY <2>1 DEF RebuildInit, Init, Keeps, OfAnti, AskedNodes
  <2>2. QED BY <2>1, RebuildInitInv DEF Found
<1>2. RInv /\ Found /\ [RebuildNext]_rebuildVars => (RInv /\ Found)' BY StepRInv, StepFound
<1>3. RInv /\ Found => AgreedAnswersAreFound
  <2> SUFFICES ASSUME RInv, Found, phase = "done", AllSeen # {}, NEW b \in AgreedAnswer
               PROVE  b \in current
    BY DEF AgreedAnswersAreFound
  <2>1. Agreed(Common, b) BY DEF Agreed
  <2>2. Cut(plan, b, pos) \in current BY <2>1 DEF Found, Keeps
  <2>3. pos = Len(plan) + 1
    <3>1. pos > Len(plan) BY DEF RInv, Honest, Owing
    <3>2. Len(plan) \in Nat /\ pos \in 1 .. Len(plan) + 1
      BY PlanTypes DEF RInv, TypeInv, TypeOK
    <3>3. QED BY <3>1, <3>2
  <2>4. QED BY <2>1, <2>2, <2>3, RowsAgreed
<1>4. QED BY <1>1, <1>2, <1>3, PTL DEF RebuildSpec

----------------------------------------------------------------------------
(* A query takes finitely many steps.                                      *)

\* What a build reads is finite, and so is the cluster.
FiniteLake ==
  /\ IsFiniteSet(Partition)
  /\ \A h \in Graphs : IsFiniteSet(DOMAIN h.node) /\ IsFiniteSet(DOMAIN h.edge)

LEMMA ImageFinite ==
  ASSUME NEW f, IsFiniteSet(DOMAIN f), f = [x \in DOMAIN f |-> f[x]],
         NEW T, T \subseteq {f[x] : x \in DOMAIN f}
  PROVE  IsFiniteSet(T)
<1> DEFINE I == {f[x] : x \in DOMAIN f}
<1>1. f \in Surjection(DOMAIN f, I)
  BY DEF Surjection
<1>2. IsFiniteSet(I)
  BY <1>1, FS_Surjection
<1>3. QED  BY <1>2, FS_Subset

LEMMA ResolveFinite ==
  ASSUME NEW h, IsFiniteSet(DOMAIN h.node), NEW p, NEW s
  PROVE  IsFiniteSet(Resolve(Build(p, h), s))
<1> DEFINE f == [n \in DOMAIN h.node |-> FromNode(s.to, n)]
<1>1. DOMAIN Build(p, h).node_records \subseteq DOMAIN h.node
  BY DEF Build, Owned
<1>2. Resolve(Build(p, h), s) \subseteq {FromNode(s.to, n) : n \in DOMAIN h.node}
  BY <1>1 DEF Resolve, LookupEq
<1>3. Resolve(Build(p, h), s) \subseteq {f[n] : n \in DOMAIN f}
  BY <1>2
<1>4. QED  BY <1>3, ImageFinite

LEMMA ExpandFinite ==
  ASSUME NEW h, IsFiniteSet(DOMAIN h.edge), NEW p, NEW s \in HopStep,
         NEW from, NEW edge, NEW b
  PROVE  IsFiniteSet(ExpandHop(Build(p, h), s, from, edge, b))
<1> DEFINE Over(e) == Extend(b, s.to, Far(h.edge[e], s.dir), edge, e)
           f == [e \in DOMAIN h.edge |-> Over(e)]
<1>1. s.dir \in Direction
  BY DEF HopStep
<1>2. ASSUME NEW x \in Neighbors(Build(p, h), b[from], s.dir),
             NEW n \in x.dst_local \cup x.dst_remote
      PROVE  x.edge \in DOMAIN h.edge /\ n = Far(h.edge[x.edge], s.dir)
  BY <1>1, NeighborsOfBuild DEF Entry
<1>3. ExpandHop(Build(p, h), s, from, edge, b) \subseteq {Over(e) : e \in DOMAIN h.edge}
  BY <1>2 DEF ExpandHop
<1>4. ExpandHop(Build(p, h), s, from, edge, b) \subseteq {f[e] : e \in DOMAIN f}
  BY <1>3
<1>5. QED  BY <1>4, ImageFinite

\* The query is well formed and holds finitely many bindings.
Sized ==
  /\ TypeInv /\ swaps \in Nat
  /\ IsFiniteSet(current) /\ IsFiniteSet(next) /\ IsFiniteSet(accepted)

LEMMA RpcSized ==
  ASSUME FiniteLake, Sized, Rpc
  PROVE  IsFiniteSet(next') /\ current' = current /\ accepted' = accepted
<1>1. ASSUME NEW p \in Partition, Routed(p)
      PROVE  /\ served[route[p]] \in Graphs
             /\ IsFiniteSet(DOMAIN served[route[p]].node)
             /\ IsFiniteSet(DOMAIN served[route[p]].edge)
  BY <1>1 DEF FiniteLake, Sized, TypeInv, TypeOK, Routed
<1>2. ASSUME NEW p \in Partition, ResolveRpc(p)
      PROVE  IsFiniteSet(next') /\ current' = current /\ accepted' = accepted
  <2>1. CASE Routed(p)
    <3>1. IsFiniteSet(Resolve(Idx(p), step))
      BY <1>1, <2>1, ResolveFinite DEF Idx
    <3>2. next' = next \cup Resolve(Idx(p), step)
      BY <1>2, <2>1 DEF ResolveRpc
    <3>3. QED  BY <1>2, <3>1, <3>2, FS_Union DEF ResolveRpc, Sized
  <2>2. CASE ~ Routed(p)
    <3>1. next' = next
      BY <1>2, <2>2 DEF ResolveRpc
    <3>2. QED  BY <1>2, <3>1 DEF ResolveRpc, Sized
  <2>3. QED  BY <2>1, <2>2
<1>3. ASSUME NEW p \in Partition, ExpandRpc(p)
      PROVE  IsFiniteSet(next') /\ current' = current /\ accepted' = accepted
  <2>1. CASE Routed(p)
    <3> DEFINE From(b) == ExpandHop(Idx(p), step, Cursor, EdgeAlias, b)
               B == OwnedBy(p, Cursor, current)
               f == [b \in B |-> From(b)]
               Finds == {From(b) : b \in B}
    <3>1. step \in HopStep
      BY <1>3 DEF ExpandRpc, Sized, TypeInv, PhaseFitsStep
    <3>2. \A b : IsFiniteSet(From(b))
      BY <1>1, <2>1, <3>1, ExpandFinite DEF Idx
    <3>3. IsFiniteSet(B)
      BY FS_Subset DEF OwnedBy, Sized
    <3>4. IsFiniteSet(Finds)
      <4>1. Finds \subseteq {f[b] : b \in DOMAIN f} /\ IsFiniteSet(DOMAIN f)
        BY <3>3
      <4>2. QED  BY <4>1, ImageFinite
    <3>5. IsFiniteSet(UNION Finds)
      BY <3>2, <3>4, FS_UNION
    <3>6. next' = next \cup UNION Finds
      BY <1>3, <2>1 DEF ExpandRpc
    <3>7. IsFiniteSet(next')
      <4> HIDE DEF Finds
      <4>1. QED  BY <3>5, <3>6, FS_Union DEF Sized
    <3>8. QED  BY <1>3, <3>7 DEF ExpandRpc
  <2>2. CASE ~ Routed(p)
    <3>1. next' = next
      BY <1>3, <2>2 DEF ExpandRpc
    <3>2. QED  BY <1>3, <3>1 DEF ExpandRpc, Sized
  <2>3. QED  BY <2>1, <2>2
<1>4. ASSUME NEW p \in Partition, FilterRpc(p) \/ OuterNodesRpc(p) \/ OuterEdgesRpc(p)
      PROVE  IsFiniteSet(next') /\ current' = current /\ accepted' = accepted
  BY <1>4 DEF FilterRpc, OuterNodesRpc, OuterEdgesRpc, Sized
<1>5. ASSUME NEW q \in Pending, AntiJoinRpc(q)
      PROVE  IsFiniteSet(next') /\ current' = current /\ accepted' = accepted
  <2>1. PICK g \in SUBSET current : next' = next \cup g
    BY <1>5 DEF AntiJoinRpc, OwnedBy
  <2>2. QED  BY <1>5, <2>1, FS_Subset, FS_Union DEF AntiJoinRpc, Sized
<1>6. QED  BY <1>2, <1>3, <1>4, <1>5 DEF Rpc

LEMMA SizedStays ==
  ASSUME FiniteLake, Sized, [RebuildNext]_rebuildVars
  PROVE  Sized'
<1>1. CASE Next /\ UNCHANGED <<seen, swaps>>
  <2>1. TypeInv' /\ swaps' \in Nat
    BY <1>1, NextType DEF Sized
  <2>2. CASE Rpc
    BY <2>1, <2>2, RpcSized DEF Sized
  <2>3. CASE EndPhase
    <3>1. /\ current' \in {current, next, accepted, {b \in current : Passes(b)}}
          /\ next' = {}
          /\ accepted' \in {{}, accepted, accepted \cup next}
      BY <2>3 DEF EndPhase, EndResolve, EndRound, EndHop, BeginFilter, EndFilter,
                  EndOuterNodes, EndOuterEdges, EndAntiJoin, Enter, Continue
    <3>2. /\ IsFiniteSet({b \in current : Passes(b)}) /\ IsFiniteSet({})
          /\ IsFiniteSet(accepted \cup next)
      BY FS_Subset, FS_EmptySet, FS_Union DEF Sized
    <3>3. QED  BY <2>1, <3>1, <3>2 DEF Sized
  <2>4. CASE RpcFails
    BY <2>1, <2>4 DEF RpcFails, Sized
  <2>5. QED  BY <1>1, <2>2, <2>3, <2>4 DEF Next
<1>2. CASE \E r \in Replica, h \in Graphs : Swap(r, h)
  <2>1. PICK r \in Replica, h \in Graphs : Swap(r, h)
    BY <1>2
  <2>2. TypeInv'
    BY <2>1 DEF Swap, Sized, TypeInv, TypeOK, PhaseFitsStep, step
  <2>3. QED  BY <2>1, <2>2 DEF Swap, Sized
<1>3. CASE UNCHANGED rebuildVars
  BY <1>3 DEF rebuildVars, vars, Sized, TypeInv, TypeOK, PhaseFitsStep, step
<1>4. QED  BY <1>1, <1>2, <1>3 DEF RebuildNext

LEMMA PendingFinite ==
  ASSUME FiniteLake, Sized
  PROVE  IsFiniteSet(Pending) /\ Cardinality(Pending) \in Nat
<1> DEFINE Of(p, b) == Request(p, Conditions(b))
           f == [x \in Partition \X current |-> Of(x[1], x[2])]
           plain == [p \in Partition |-> Plain(p)]
<1>1. IsFiniteSet(Partition) /\ IsFiniteSet(current)
  BY DEF FiniteLake, Sized
<1>2. CASE phase = "anti"
  <2>1. \A q \in Requests : \E p \in Partition, b \in current : q = Of(p, b)
    BY <1>2 DEF Requests, OwnedBy
  <2>2. Requests \subseteq {f[x] : x \in DOMAIN f}
    <3> SUFFICES ASSUME NEW q \in Requests PROVE \E x \in DOMAIN f : q = f[x]
      OBVIOUS
    <3>1. PICK p \in Partition, b \in current : q = Of(p, b)
      BY <2>1
    <3>2. <<p, b>> \in DOMAIN f /\ f[<<p, b>>] = Of(p, b)
      OBVIOUS
    <3>3. QED  BY <3>1, <3>2
  <2>3. IsFiniteSet(DOMAIN f)
    BY <1>1, FS_Product
  <2>4. f = [x \in DOMAIN f |-> f[x]]
    OBVIOUS
  <2>5. IsFiniteSet(Requests)
    <3> HIDE DEF f
    <3>1. QED  BY <2>2, <2>3, <2>4, ImageFinite
  <2>6. QED  BY <2>5, FS_Difference, FS_CardinalityType DEF Pending
<1>3. CASE phase # "anti"
  <2>1. Requests \subseteq {plain[p] : p \in DOMAIN plain}
    BY <1>3 DEF Requests
  <2>2. plain = [p \in DOMAIN plain |-> plain[p]] /\ IsFiniteSet(DOMAIN plain)
    BY <1>1
  <2>3. IsFiniteSet(Requests)
    <3> HIDE DEF plain
    <3>1. QED  BY <2>1, <2>2, ImageFinite
  <2>4. QED  BY <2>3, FS_Difference, FS_CardinalityType DEF Pending
<1>4. QED  BY <1>2, <1>3

\* A request answered or passed over is not sent again.
LEMMA PendingFalls ==
  ASSUME FiniteLake, Sized, NEW q, Settle(q), Requests' \subseteq Requests
  PROVE  Cardinality(Pending') < Cardinality(Pending)
<1>1. q \in Pending /\ Pending' \in SUBSET (Pending \ {q})
  BY DEF Settle, Pending
<1>2. /\ IsFiniteSet(Pending) /\ IsFiniteSet(Pending \ {q})
      /\ Cardinality(Pending) \in Nat
      /\ Cardinality(Pending \ {q}) = Cardinality(Pending) - 1
  BY <1>1, PendingFinite, FS_RemoveElement
<1>3. Cardinality(Pending') <= Cardinality(Pending \ {q}) /\ IsFiniteSet(Pending')
  BY <1>1, <1>2, FS_Subset
<1>4. Cardinality(Pending') \in Nat
  BY <1>3, FS_CardinalityType
<1>5. QED  BY <1>2, <1>3, <1>4

LEMMA RpcFalls ==
  ASSUME FiniteLake, Sized, Rpc
  PROVE  /\ pos' = pos /\ plan' = plan /\ depth' = depth /\ phase' = phase
         /\ Cardinality(Pending') < Cardinality(Pending)
<1>1. ASSUME NEW p \in Partition,
             ResolveRpc(p) \/ ExpandRpc(p) \/ FilterRpc(p) \/ OuterNodesRpc(p)
               \/ OuterEdgesRpc(p)
      PROVE  /\ UNCHANGED <<plan, pos, depth, phase, current>>
             /\ Settle(Plain(p)) /\ phase # "anti" /\ hydrated \subseteq hydrated'
  BY <1>1 DEF ResolveRpc, ExpandRpc, FilterRpc, OuterNodesRpc, OuterEdgesRpc, env
<1>2. ASSUME UNCHANGED <<plan, pos, depth, phase, current>>, phase # "anti",
             hydrated \subseteq hydrated'
      PROVE  Requests' \subseteq Requests
  <2>1. step' = step /\ Cursor' = Cursor /\ OuterIds' = OuterIds
    BY <1>2 DEF step, Cursor, OuterIds
  <2>2. EdgesWanted' \subseteq EdgesWanted
    BY <1>2, <2>1 DEF EdgesWanted
  <2>3. \A p, a : OwnedBy(p, a, current') = OwnedBy(p, a, current)
    BY <1>2
  <2>4. QED  BY <1>2, <2>1, <2>2, <2>3 DEF Requests
<1>3. ASSUME NEW q \in Pending, AntiJoinRpc(q)
      PROVE  /\ UNCHANGED <<plan, pos, depth, phase, current, hydrated>>
             /\ Settle(q) /\ Requests' = Requests
  <2>1. UNCHANGED <<plan, pos, depth, phase, current, hydrated>> /\ Settle(q)
    BY <1>3 DEF AntiJoinRpc, env
  <2>2. QED
    BY <2>1 DEF Requests, step, Cursor, OuterIds, EdgesWanted, OwnedBy, Resolved, Conditions
<1>4. QED  BY <1>1, <1>2, <1>3, PendingFalls DEF Rpc

LEMMA LeftType ==
  ASSUME FiniteLake, Sized
  PROVE  StepsLeft \in Nat \X Nat \X Nat \X Nat
<1>1. Len(plan) + 1 - pos \in Nat
  BY PlanTypes DEF Sized, TypeInv, TypeOK
<1>2. PhasesLeft \in Nat
  BY DEF PhasesLeft, Sized, TypeInv, TypeOK
<1>3. RoundsLeft \in Nat
  BY DEF RoundsLeft, Sized, TypeInv, TypeOK, PhaseFitsStep, HopStep
<1>4. QED  BY <1>1, <1>2, <1>3, PendingFinite DEF StepsLeft

LEMMA EnterFalls ==
  ASSUME Sized, NEW i, NEW B, Enter(i, B), i = pos + 1
  PROVE  Below(StepsLeft', StepsLeft)
<1>1. Len(plan) \in Nat /\ pos \in Nat
  BY PlanTypes DEF Sized, TypeInv, TypeOK
<1>2. StepsLeft'[1] < StepsLeft[1]
  BY <1>1 DEF StepsLeft, Enter, env
<1>3. QED  BY <1>2 DEF Below

LEMMA ContinueFalls ==
  ASSUME NEW f, NEW B, Continue(f, B), NEW a \in Nat, NEW c \in Nat,
         PhasesLeft = a, PhasesLeft' = c, c < a
  PROVE  Below(StepsLeft', StepsLeft)
BY DEF StepsLeft, Below, Continue, env

LEMMA NextFalls ==
  ASSUME FiniteLake, Sized, Next
  PROVE  Below(StepsLeft', StepsLeft)
<1>1. CASE Rpc
  <2>1. /\ pos' = pos /\ plan' = plan /\ depth' = depth /\ phase' = phase
        /\ Cardinality(Pending') < Cardinality(Pending)
    BY <1>1, RpcFalls
  <2>2. PhasesLeft' = PhasesLeft /\ RoundsLeft' = RoundsLeft
    BY <2>1 DEF PhasesLeft, RoundsLeft, step
  <2>3. QED  BY <2>1, <2>2 DEF StepsLeft, Below
<1>2. CASE EndResolve
  BY <1>2, EnterFalls DEF EndResolve, Sized, TypeInv, PhaseFitsStep
<1>3. CASE EndHop \/ EndFilter \/ EndAntiJoin
  BY <1>3, EnterFalls DEF EndHop, EndFilter, EndAntiJoin
<1>4. CASE EndRound
  <2>1. UNCHANGED <<plan, pos, phase>> /\ phase = "hop" /\ depth <= step.max
        /\ depth' = depth + 1
    BY <1>4 DEF EndRound, Continue, env
  <2>2. step' = step /\ PhasesLeft' = PhasesLeft
    BY <2>1 DEF step, PhasesLeft
  <2>3. step.max \in Nat /\ depth \in Nat
    BY <2>1 DEF Sized, TypeInv, TypeOK, PhaseFitsStep, HopStep
  <2>4. RoundsLeft' < RoundsLeft
    BY <2>1, <2>2, <2>3 DEF RoundsLeft
  <2>5. QED  BY <2>1, <2>2, <2>4 DEF StepsLeft, Below
<1>5. CASE BeginFilter
  <2>1. PhasesLeft = 2 /\ PhasesLeft' = 1
    BY <1>5 DEF BeginFilter, HopOver, Continue, PhasesLeft
  <2>2. QED  BY <1>5, <2>1, ContinueFalls DEF BeginFilter
<1>6. CASE EndOuterNodes
  <2>1. PhasesLeft = 3 /\ PhasesLeft' = 2
    BY <1>6 DEF EndOuterNodes, Continue, PhasesLeft
  <2>2. QED  BY <1>6, <2>1, ContinueFalls DEF EndOuterNodes
<1>7. CASE EndOuterEdges
  <2>1. PhasesLeft = 2 /\ PhasesLeft' = 1
    BY <1>7 DEF EndOuterEdges, Continue, PhasesLeft
  <2>2. QED  BY <1>7, <2>1, ContinueFalls DEF EndOuterEdges
<1>8. CASE RpcFails
  <2>1. phase \notin {"done", "failed"} /\ phase' = "failed" /\ UNCHANGED <<plan, pos>>
    BY <1>8 DEF RpcFails, Pending, Requests, env
  <2>2. PhasesLeft' = 0 /\ PhasesLeft > 0
    BY <2>1 DEF PhasesLeft, Sized, TypeInv, TypeOK
  <2>3. QED  BY <2>1, <2>2 DEF StepsLeft, Below
<1>9. QED  BY <1>1, <1>2, <1>3, <1>4, <1>5, <1>6, <1>7, <1>8 DEF Next, EndPhase

LEMMA SwapCostsNothing ==
  ASSUME Sized, NEW r \in Replica, NEW h \in Graphs, Swap(r, h)
  PROVE  StepsLeft' = StepsLeft /\ swaps' > swaps
<1>1. UNCHANGED <<plan, phase, pos, depth, asked, current, hydrated>>
  BY DEF Swap
<1>2. Pending' = Pending
  BY <1>1 DEF Pending, Requests, step, Cursor, OuterIds, EdgesWanted, OwnedBy, Resolved,
              Conditions
<1>3. QED  BY <1>1, <1>2 DEF Swap, Sized, StepsLeft, PhasesLeft, RoundsLeft, step

\* Every step of a query leaves less of it to do, in an order that falls only
\* finitely often, and a swap as much.
THEOREM QueriesRunOut == FiniteLake => (RebuildSpec => StepsRunOut)
<1> SUFFICES ASSUME FiniteLake PROVE RebuildSpec => StepsRunOut
  OBVIOUS
<1> DEFINE Typed == StepsLeft \in Nat \X Nat \X Nat \X Nat
           Falls == /\ StepsLeft' \in Nat \X Nat \X Nat \X Nat
                    /\ \/ Below(StepsLeft', StepsLeft)
                       \/ StepsLeft' = StepsLeft /\ swaps' > swaps
<1>1. RebuildInit => Sized
  BY InitType, FS_EmptySet DEF RebuildInit, Init, Sized
<1>2. Sized /\ [RebuildNext]_rebuildVars => Sized'
  BY SizedStays
<1>3. Sized => Typed
  BY LeftType
<1>4. Sized /\ Typed' /\ [RebuildNext]_rebuildVars => [Falls]_rebuildVars
  BY NextFalls, SwapCostsNothing DEF RebuildNext
<1> HIDE DEF Typed
<1>5. QED  BY <1>1, <1>2, <1>3, <1>4, PTL DEF RebuildSpec, StepsRunOut

=============================================================================
