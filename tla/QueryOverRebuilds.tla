------------------------- MODULE QueryOverRebuilds -------------------------
(***************************************************************************)
(* A query while the partition nodes it asks rebuild.  A partition node    *)
(* acquires its generation once per RPC, so the rounds of one query can be *)
(* answered from different generations, and the properties hydrated for a  *)
(* WHERE or a NOT EXISTS can be newer than the edges walked.               *)
(*                                                                         *)
(* Composes ScatterGather with the Publish step of PartitionNode, seen     *)
(* from the query: at any moment a replica swaps in the graph of another   *)
(* build.  Any order of graphs is allowed, the increasing one included.    *)
(***************************************************************************)
EXTENDS ScatterGather, FiniteSets

CONSTANT MaxSwaps      \* bound on the swaps during one query

ASSUME SwapsAssumption == MaxSwaps \in Nat

VARIABLES
  seen,       \* the graphs each replica served since the query began
  swaps       \* swaps so far

rebuildVars == <<vars, seen, swaps>>

\* GenerationHandle::swap at replica r; RPCs under way keep the generation
\* they acquired, the next one acquires this one.
Swap(r, g) ==
  /\ swaps < MaxSwaps
  /\ g # served[r]
  /\ served' = [served EXCEPT ![r] = g]
  /\ seen' = [seen EXCEPT ![r] = @ \cup {g}]
  /\ swaps' = swaps + 1
  /\ UNCHANGED <<plan, route, phase, pos, depth, asked, current, next, accepted,
                 hydrated>>

RebuildInit ==
  /\ Init
  /\ seen = [r \in Replica |-> {served[r]}]
  /\ swaps = 0

RebuildNext ==
  \/ Next /\ UNCHANGED <<seen, swaps>>
  \/ \E r \in Replica, g \in Graphs : Swap(r, g)

RebuildSpec == RebuildInit /\ [][RebuildNext]_rebuildVars

\* Every RPC is eventually answered or fails; rebuilds owe nothing.
FairRebuildSpec == RebuildSpec /\ WF_rebuildVars(Next /\ UNCHANGED <<seen, swaps>>)

----------------------------------------------------------------------------
(* What was true, of a node or of an edge, in a generation that served it  *)
(* during the query.                                                       *)

SeenAt(n) == IF Routed(Owner[n]) THEN seen[route[Owner[n]]] ELSE {}

NodeWas(n, Test(_)) == \E g \in SeenAt(n) : n \in DOMAIN g.node /\ Test(g.node[n])

\* The edge e left n for m, in the generation of n's partition.
Left(s, n, e, m) ==
  \E g \in SeenAt(n) : e \in Search!Exits(g, {n}, s, n) /\ Far(g.edge[e], s.dir) = m

Walked(s, a, z, d) ==
  \E w \in [0 .. d -> NodeId] :
    /\ w[0] = a /\ w[d] = z
    /\ \A i \in 0 .. d - 1 : \E e \in EdgeId : Left(s, w[i], e, w[i + 1])

\* The property of the row id had the value v.
ValueWas(id, prop, v) ==
  IF id \in NodeId
  THEN NodeWas(id, LAMBDA row : row.props[prop] = v)
  ELSE \E n \in NodeId : \E g \in SeenAt(n) :
         /\ id \in DOMAIN g.edge
         /\ g.edge[id].src = n
         /\ g.edge[id].props[prop] = v

StepWasTrue(s, b) ==
  CASE s.kind = "start" ->
         NodeWas(b[s.to], LAMBDA row : row.label = s.label /\ row.props[s.prop] = s.key)
    [] s.kind = "all" -> NodeWas(b[s.to], LAMBDA row : row.label = s.label)
    [] s.kind = "hop" ->
         /\ \E d \in 1 .. s.max : d >= s.min /\ Walked(s, b[s.from], b[s.to], d)
         /\ s.edge # NoAlias => Left(s, b[s.from], b[s.edge], b[s.to])
         /\ s.filters # {} =>
              NodeWas(b[s.to], LAMBDA row : AllHold(row.props, s.filters))
    [] s.kind = "anti" ->
         \E literal \in [s.outer -> Value] :
           /\ \A o \in s.outer : ValueWas(b[o.alias], o.outer, literal[o])
           /\ \E g \in SeenAt(b[s.from]) :
                \A e \in Search!Exits(g, {b[s.from]}, s, b[s.from]) :
                  Far(g.edge[e], s.dir) = b[s.to] =>
                    ~ AllHold(g.edge[e].props,
                              s.literal \cup {[prop |-> o.prop, op |-> o.op,
                                               val |-> literal[o]] : o \in s.outer})

\* Nothing in an answer is made up: each step of the plan, taken by itself,
\* held of the binding in generations that its partitions served while the
\* query ran.  Not all in the same one.
EveryStepWasTrue ==
  phase = "done" => \A b \in current : \A i \in 1 .. Len(plan) : StepWasTrue(plan[i], b)

----------------------------------------------------------------------------
(* What every generation agreed on.                                        *)

AllSeen == UNION {seen[r] : r \in {route[p] : p \in Partition} \cap Replica}

\* The rows that all these graphs hold alike.
Core(graphs) ==
  LET one == CHOOSE g \in graphs : TRUE
      Same(g, h, t, id) == id \in DOMAIN h[t] /\ h[t][id] = g[t][id]
      Shared(t) == {id \in DOMAIN one[t] : \A h \in graphs : Same(one, h, t, id)}
  IN [t \in {"node", "edge"} |-> [id \in Shared(t) |-> one[t][id]]]

IsAnti(s) == s.kind = "anti"

\* The bindings whose hops are made of rows all generations share, and whose
\* every NOT EXISTS holds in each of them.
AgreedAnswer ==
  {b \in Search!Candidates(Core(AllSeen), plan) :
     \A i \in 1 .. Len(plan) :
       IF IsAnti(plan[i])
       THEN \A g \in AllSeen : Search!NoSuchEdge(g, Reach, plan[i], b)
       ELSE Search!StepHolds(Core(AllSeen), Reach, plan[i], b)}

\* A rebuild during the query loses no answer that it does not touch: what
\* follows from rows no swap changed is found, however the swaps fall between
\* the rounds and the hydration.
AgreedAnswersAreFound ==
  phase = "done" /\ AllSeen # {} => AgreedAnswer \subseteq current

----------------------------------------------------------------------------
(* How much of the query is left.                                          *)

\* Plan steps to go, phases of this step to go, rounds of this hop to go, and
\* requests of this phase to go.
PhasesLeft ==
  CASE phase \in {"done", "failed"} -> 0
    [] phase \in {"resolve", "filter", "anti"} -> 1
    [] phase \in {"hop", "edges"} -> 2
    [] phase = "nodes" -> 3
RoundsLeft == IF phase = "hop" /\ depth <= step.max THEN step.max - depth + 1 ELSE 0
StepsLeft == <<Len(plan) + 1 - pos, PhasesLeft, RoundsLeft, Cardinality(Pending)>>

\* The order of the words in a dictionary.
Below(r, s) == \E i \in 1 .. 4 : r[i] < s[i] /\ \A j \in 1 .. i - 1 : r[j] = s[j]

\* Every step of a query leaves less of it to do and a swap as much, so a query
\* takes finitely many steps however the generations move under it, over a
\* cyclic graph too: the rounds of a hop are counted, and no request of a phase
\* is sent twice.
StepsRunOut ==
  [][/\ StepsLeft' \in Nat \X Nat \X Nat \X Nat
     /\ \/ Below(StepsLeft', StepsLeft)
        \/ StepsLeft' = StepsLeft /\ swaps' > swaps]_rebuildVars

\* The generation a replica serves is always among those recorded.
RebuildTypeOK ==
  /\ TypeOK
  /\ seen \in [Replica -> SUBSET Graphs]
  /\ \A r \in Replica : served[r] \in seen[r]
  /\ swaps \in 0 .. MaxSwaps

=============================================================================
