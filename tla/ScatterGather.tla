--------------------------- MODULE ScatterGather ---------------------------
(***************************************************************************)
(* The coordinator's scatter-gather execution of one query, one action per *)
(* RPC.  The coordinator awaits its RPCs one after another, in an order    *)
(* that hash maps choose; each RPC is answered from the generation its     *)
(* replica serves at that moment.  The cluster map is read once, so the    *)
(* replica picked for a partition does not change during a query.          *)
(*                                                                         *)
(* A partition without a healthy replica is passed over; an RPC that fails *)
(* fails the query.  This module keeps the generations fixed, the same for *)
(* every replica; QueryOverRebuilds lets them move.                        *)
(***************************************************************************)
EXTENDS GraphIndex

CONSTANTS
  Plans, Graphs,     \* the plans executed and the graphs they run over
  Replica, Host,     \* replicas, and the partition each one serves
  NoReplica          \* pick_replica found no healthy replica

ASSUME ClusterAssumption ==
  /\ Replica # {} /\ NoReplica \notin Replica
  /\ Host \in [Replica -> Partition]
  /\ \A p \in Plans : IsPlan(p)
  /\ \A g \in Graphs : IsGraph(g)

VARIABLES
  plan,       \* the plan being executed
  route,      \* pick_replica's answer for each partition
  served,     \* the graph each replica's generation was built from
  phase,      \* which RPCs are being sent, or how the query ended
  pos,        \* the plan step in progress
  depth,      \* the round of the hop in progress
  asked,      \* the requests of this phase already answered or passed over
  current,    \* the frontier this phase works on
  next,       \* the bindings this phase has gathered
  accepted,   \* the bindings the hop has collected so far
  hydrated    \* <<id, properties>> fetched for WHERE and NOT EXISTS

env  == <<plan, route, served>>
vars == <<plan, route, served, phase, pos, depth, asked, current, next,
          accepted, hydrated>>

step == plan[pos]

\* A request goes to a partition and, for NOT EXISTS, carries conditions.
Request(p, conditions) == [to |-> p, conditions |-> conditions]
Plain(p) == Request(p, {})

Routed(p) == route[p] # NoReplica

\* The generation that answers for partition p.
Idx(p) == Build(Host[route[p]], served[route[p]])

----------------------------------------------------------------------------
(* Which requests a phase sends.                                           *)

Cursor == IF depth = 1 THEN step.from ELSE step.to
EdgeAlias == IF depth = 1 THEN step.edge ELSE NoAlias

\* group_by_owning_node_partition
OwnedBy(p, alias, B) == {b \in B : b[alias] \in NodeId /\ Owner[b[alias]] = p}

\* The ids the outer references of a NOT EXISTS need.
OuterIds == {b[o.alias] : b \in current, o \in step.outer}

\* get_edge_properties stops asking once every edge was found.
EdgesWanted == (OuterIds \cap EdgeId) \ {h[1] : h \in hydrated}

Resolved(b) ==
  \A o \in step.outer :
    \E h \in hydrated : h[1] = b[o.alias] /\ h[2][o.outer] \in Value

Conditions(b) ==
  step.literal \cup
    UNION {{[prop |-> o.prop, op |-> o.op, val |-> h[2][o.outer]] :
              h \in {x \in hydrated : x[1] = b[o.alias] /\ x[2][o.outer] \in Value}} :
           o \in step.outer}

Requests ==
  CASE phase = "resolve" -> {Plain(p) : p \in Partition}
    [] phase = "hop" ->
         IF depth > step.max THEN {}
         ELSE {Plain(p) : p \in {q \in Partition : OwnedBy(q, Cursor, current) # {}}}
    [] phase = "filter" ->
         {Plain(p) : p \in {q \in Partition : OwnedBy(q, step.to, current) # {}}}
    [] phase = "nodes" ->
         {Plain(p) : p \in {q \in Partition :
                              \E id \in OuterIds \cap NodeId : Owner[id] = q}}
    [] phase = "edges" ->
         IF EdgesWanted = {} THEN {} ELSE {Plain(p) : p \in Partition}
    [] phase = "anti" ->
         UNION {{Request(p, Conditions(b)) :
                   b \in {x \in OwnedBy(p, step.from, current) : Resolved(x)}} :
                p \in Partition}
    [] OTHER -> {}

Pending == Requests \ asked

----------------------------------------------------------------------------
(* The RPCs.                                                               *)

\* Request q was answered, or passed over because nothing serves its
\* partition: in either case the phase is done with it.
Settle(q) ==
  /\ q \in Pending
  /\ asked' = asked \cup {q}

ResolveRpc(p) ==
  /\ phase = "resolve"
  /\ Settle(Plain(p))
  /\ next' = next \cup (IF Routed(p) THEN Resolve(Idx(p), step) ELSE {})
  /\ UNCHANGED <<env, phase, pos, depth, current, accepted, hydrated>>

ExpandRpc(p) ==
  /\ phase = "hop"
  /\ Settle(Plain(p))
  /\ next' = next \cup
       (IF Routed(p)
        THEN UNION {ExpandHop(Idx(p), step, Cursor, EdgeAlias, b) :
                      b \in OwnedBy(p, Cursor, current)}
        ELSE {})
  /\ UNCHANGED <<env, phase, pos, depth, current, accepted, hydrated>>

FilterRpc(p) ==
  /\ phase = "filter"
  /\ Settle(Plain(p))
  /\ hydrated' = hydrated \cup
       (IF Routed(p)
        THEN NodeProperties(Idx(p), {b[step.to] : b \in OwnedBy(p, step.to, current)})
        ELSE {})
  /\ UNCHANGED <<env, phase, pos, depth, current, next, accepted>>

OuterNodesRpc(p) ==
  /\ phase = "nodes"
  /\ Settle(Plain(p))
  /\ hydrated' = hydrated \cup
       (IF Routed(p)
        THEN NodeProperties(Idx(p), {id \in OuterIds \cap NodeId : Owner[id] = p})
        ELSE {})
  /\ UNCHANGED <<env, phase, pos, depth, current, next, accepted>>

OuterEdgesRpc(p) ==
  /\ phase = "edges"
  /\ Settle(Plain(p))
  /\ hydrated' = hydrated \cup
       (IF Routed(p) THEN EdgeProperties(Idx(p), EdgesWanted) ELSE {})
  /\ UNCHANGED <<env, phase, pos, depth, current, next, accepted>>

\* Mutant: what no replica could check survives.
AntiJoinRpcLenient(q) ==
  /\ phase = "anti"
  /\ Settle(q)
  /\ LET group == {b \in OwnedBy(q.to, step.from, current) :
                     Resolved(b) /\ Conditions(b) = q.conditions}
     IN next' = next \cup
          (IF Routed(q.to)
           THEN {b \in group : Survives(Idx(q.to), step, q.conditions, b)}
           ELSE group)
  /\ UNCHANGED <<env, phase, pos, depth, current, accepted, hydrated>>

AntiJoinRpc(q) ==
  /\ phase = "anti"
  /\ Settle(q)
  /\ LET group == {b \in OwnedBy(q.to, step.from, current) :
                     Resolved(b) /\ Conditions(b) = q.conditions}
     IN next' = next \cup
          (IF Routed(q.to)
           THEN {b \in group : Survives(Idx(q.to), step, q.conditions, b)}
           ELSE {})
  /\ UNCHANGED <<env, phase, pos, depth, current, accepted, hydrated>>

\* An RPC to a replica the map called healthy fails: `?` ends the query.
RpcFails ==
  /\ \E q \in Pending : Routed(q.to)
  /\ phase' = "failed"
  /\ UNCHANGED <<env, pos, depth, asked, current, next, accepted, hydrated>>

----------------------------------------------------------------------------
(* What the coordinator does once a phase has no request left.             *)

\* Mutant: the rounds of a hop are counted from zero.
EnterAtZero(i, B) ==
  /\ pos' = i
  /\ phase' = IF i > Len(plan) THEN "done"
              ELSE IF plan[i].kind = "hop" THEN "hop" ELSE "nodes"
  /\ current' = B
  /\ depth' = 0
  /\ asked' = {} /\ next' = {} /\ accepted' = {} /\ hydrated' = {}
  /\ UNCHANGED env

\* Go to plan step i with frontier B; a NOT EXISTS hydrates its outer
\* references first.
Enter(i, B) ==
  /\ pos' = i
  /\ phase' = IF i > Len(plan) THEN "done"
              ELSE IF plan[i].kind = "hop" THEN "hop" ELSE "nodes"
  /\ current' = B
  /\ depth' = 1
  /\ asked' = {} /\ next' = {} /\ accepted' = {} /\ hydrated' = {}
  /\ UNCHANGED env

\* Stay on this step and begin its phase f, with frontier B.
Continue(f, B) ==
  /\ phase' = f
  /\ current' = B
  /\ asked' = {} /\ next' = {}
  /\ UNCHANGED <<env, pos>>

EndResolve ==
  /\ phase = "resolve" /\ Pending = {}
  /\ Enter(2, next)

\* Mutants of EndRound: a round of the minimum depth is not accepted, only
\* the last round is, and the loop never ends.
EndRoundPastMin ==
  /\ phase = "hop" /\ Pending = {}
  /\ depth <= step.max /\ current # {}
  /\ Continue("hop", next)
  /\ accepted' = IF depth > step.min THEN accepted \cup next ELSE accepted
  /\ depth' = depth + 1
  /\ UNCHANGED hydrated

EndRoundLastOnly ==
  /\ phase = "hop" /\ Pending = {}
  /\ depth <= step.max /\ current # {}
  /\ Continue("hop", next)
  /\ accepted' = IF depth >= step.min THEN next ELSE accepted
  /\ depth' = depth + 1
  /\ UNCHANGED hydrated

EndRoundForever ==
  /\ phase = "hop" /\ Pending = {}
  /\ depth <= step.max /\ current # {}
  /\ Continue("hop", next)
  /\ accepted' = IF depth >= step.min THEN accepted \cup next ELSE accepted
  /\ UNCHANGED <<depth, hydrated>>

\* `for depth in 1..=hops.max`, after one_round returned.
EndRound ==
  /\ phase = "hop" /\ Pending = {}
  /\ depth <= step.max /\ current # {}
  /\ Continue("hop", next)
  /\ accepted' = IF depth >= step.min THEN accepted \cup next ELSE accepted
  /\ depth' = depth + 1
  /\ UNCHANGED hydrated

HopOver == phase = "hop" /\ (depth > step.max \/ current = {})

EndHop ==
  /\ HopOver
  /\ step.filters = {} \/ accepted = {}
  /\ Enter(pos + 1, accepted)

BeginFilter ==
  /\ HopOver
  /\ step.filters # {} /\ accepted # {}
  /\ Continue("filter", accepted)
  /\ accepted' = {}
  /\ UNCHANGED <<depth, hydrated>>

\* Mutant: a candidate whose properties could not be fetched passes.
PassesUnfetched(b) ==
  \A h \in hydrated : h[1] = b[step.to] => AllHold(h[2], step.filters)

Passes(b) ==
  \E h \in hydrated : h[1] = b[step.to] /\ AllHold(h[2], step.filters)

EndFilter ==
  /\ phase = "filter" /\ Pending = {}
  /\ Enter(pos + 1, {b \in current : Passes(b)})

EndOuterNodes ==
  /\ phase = "nodes" /\ Pending = {}
  /\ Continue("edges", current)
  /\ UNCHANGED <<depth, accepted, hydrated>>

EndOuterEdges ==
  /\ phase = "edges" /\ Pending = {}
  /\ Continue("anti", current)
  /\ UNCHANGED <<depth, accepted, hydrated>>

EndAntiJoin ==
  /\ phase = "anti" /\ Pending = {}
  /\ Enter(pos + 1, next)

----------------------------------------------------------------------------

Init ==
  /\ plan \in Plans
  /\ route \in [Partition -> Replica \cup {NoReplica}]
  /\ \A p \in Partition : Routed(p) => Host[route[p]] = p
  /\ \E g \in Graphs : served = [r \in Replica |-> g]
  /\ phase = "resolve" /\ pos = 1 /\ depth = 1
  /\ asked = {} /\ current = {} /\ next = {} /\ accepted = {} /\ hydrated = {}

Rpc ==
  \/ \E p \in Partition :
       ResolveRpc(p) \/ ExpandRpc(p) \/ FilterRpc(p) \/ OuterNodesRpc(p)
         \/ OuterEdgesRpc(p)
  \/ \E q \in Pending : AntiJoinRpc(q)

EndPhase ==
  \/ EndResolve \/ EndRound \/ EndHop \/ BeginFilter \/ EndFilter
  \/ EndOuterNodes \/ EndOuterEdges \/ EndAntiJoin

Next == Rpc \/ EndPhase \/ RpcFails

Spec == Init /\ [][Next]_vars

----------------------------------------------------------------------------
(* Correctness.                                                            *)

TypeOK ==
  /\ plan \in Plans
  /\ route \in [Partition -> Replica \cup {NoReplica}]
  /\ served \in [Replica -> Graphs]
  /\ phase \in {"resolve", "hop", "filter", "nodes", "edges", "anti",
               "done", "failed"}
  /\ pos \in 1 .. Len(plan) + 1
  /\ depth \in Nat \ {0}
  /\ asked \subseteq [to : Partition, conditions : SUBSET Filter]
  /\ current \subseteq Binding
  /\ next \subseteq Binding
  /\ accepted \subseteq Binding
  /\ hydrated \subseteq (NodeId \cup EdgeId) \X Props

\* The nodes whose partition the query can read.
Reach == {n \in NodeId : Routed(Owner[n])}

\* The graph every replica serves.
Graph == served[CHOOSE r \in Replica : TRUE]

AbstractPhase == IF phase \in {"nodes", "edges"} THEN "anti" ELSE phase

Search == INSTANCE GraphSearch WITH
            graph <- Graph, reach <- Reach, phase <- AbstractPhase

\* The distributed execution is one search over the whole graph: no binding
\* is lost, repeated or invented by splitting a round over partitions and
\* handing RemoteRefs from one round to the next.
RefinesSearch == Search!Spec

\* A finished query returned the bindings that satisfy every step of its plan,
\* read as conditions on the whole graph: all of them when every partition
\* has a healthy replica, and otherwise those whose every step reads only
\* partitions that have one.
AnswerIsExact ==
  phase = "done" => current = Search!Answer(Graph, Reach, plan)

\* What a partial cluster returns is true of the whole graph: a partition
\* nobody serves can hide an answer and never makes a NOT EXISTS hold.
PartialAnswerIsSound ==
  phase = "done" =>
    \A b \in current : Search!Satisfies(Graph, NodeId, plan, b)

\* What the call ExpandHops for a hop s from node n finds in partition p of the
\* graph g, seen as walks that stay inside the partition.
OneCallFinds(g, p, s, label, n) ==
  LET part    == Owned(p, g)
      b       == FromNode(s.from, n)
      found   == ExpandHops(Build(p, g), s, label, b)
      lengths == {d \in 1 .. s.max : d >= s.min}
      Walks(z, ds) == \E d \in ds : Search!Walk(g, part, s, n, z, d)
      Selected(z) == \A f \in s.filters : /\ <<label, f.prop>> \in Indexed
                                          /\ g.node[z].label = label
                                          /\ Holds(g.node[z].props, f)
  IN  s.edge = NoAlias \/ lengths # {} =>
      /\ {c[s.to] : c \in found.local} = {z \in part : Walks(z, lengths) /\ Selected(z)}
      /\ {c[s.to] : c \in found.remote} = {z \in NodeId \ part : Walks(z, 1 .. s.max)}
      /\ lengths = {1} /\ s.max = 1 /\ s.filters = {} =>
           found.local \cup found.remote = ExpandHop(Build(p, g), s, s.from, s.edge, b)

\* A walk of several edges can be made in one call, inside a partition, or in
\* rounds over the partitions: the call finds exactly the nodes of its
\* partition that walks inside it reach and the filters select, and every way
\* out within the maximum; for a single edge it is the round's own call.  A hop
\* that names its edge is one of a single edge.
OneCallWalksItsPart ==
  phase = "resolve" /\ asked = {} =>
    \A i \in {j \in 1 .. Len(plan) : plan[j].kind = "hop" /\ Answerable(plan[j])} :
    \A p \in Partition, label \in Label : \A n \in Owned(p, Graph) :
      OneCallFinds(Graph, p, plan[i], label, n)

\* A query over a cyclic graph ends, with partitions nobody serves, RPCs that
\* fail and generations that move under it.
Terminates == <>(phase \in {"done", "failed"})

----------------------------------------------------------------------------
(* The inductive invariant behind RefinesSearch: in the middle of a phase  *)
(* the coordinator has what the search would get from the nodes whose      *)
(* partition was asked.                                                    *)

GraphsClosed == \A g \in Graphs : Closed(g)

\* No plan reads an alias before it is bound, or binds one twice.
PlansScoped == \A p \in Plans : Search!ReadsBound(p) /\ Search!BindsOnce(p)

Cluster ==
  /\ \A p \in Partition : Routed(p) => Host[route[p]] = p
  /\ \A r \in Replica : served[r] = Graph

PhaseFitsStep ==
  /\ phase = "resolve" => pos = 1
  /\ phase \in {"hop", "filter"} => pos <= Len(plan) /\ step \in HopStep
  /\ phase \in {"nodes", "edges", "anti"} => pos <= Len(plan) /\ step \in AntiStep

\* The readable nodes whose partition this phase has asked.
AskedNodes == {n \in Reach : Plain(Owner[n]) \in asked}

\* What hydration knows of the ids in S.
Rows(S) == {<<id, Wire(Search!PropsOf(Graph, id))>> : id \in S}

Progress ==
  /\ phase \in {"resolve", "hop"} => hydrated = {}
  /\ phase = "resolve" => next = Search!Starts(Graph, AskedNodes, step)
  /\ phase = "hop" =>
       next = Search!Level(Graph, AskedNodes, step, depth, current)
  /\ phase = "filter" =>
       hydrated = Rows({b[step.to] : b \in current}
                         \cap DOMAIN Graph.node \cap AskedNodes)
  /\ phase = "nodes" =>
       hydrated = Rows(OuterIds \cap DOMAIN Graph.node \cap AskedNodes)
  /\ phase = "edges" =>
       hydrated = Rows(OuterIds \cap
                        ((DOMAIN Graph.node \cap Reach) \cup
                         {e \in DOMAIN Graph.edge : Graph.edge[e].src \in AskedNodes}))
  /\ phase = "anti" =>
       /\ hydrated = Rows(OuterIds \cap Search!ReadableRows(Graph, Reach))
       /\ next = {b \in current :
                    /\ Search!NoSuchEdge(Graph, Reach, step, b)
                    /\ Request(Owner[b[step.from]], Conditions(b)) \in asked}

IInv == TypeOK /\ Cluster /\ PhaseFitsStep /\ Progress

----------------------------------------------------------------------------
(* What the repository says and the code does not do.                      *)

\* A node without label or property "est une simple reference a un alias deja
\* lie ailleurs dans la requete [...], pas une nouvelle liaison"
\* (docs/graph-engine-spec.md:411-414): a hop that arrives at an alias bound
\* before keeps what the earlier hops bound it to.
RepeatedAliasIsReference ==
  phase = "done" =>
    \A b \in current : \A i \in 1 .. Len(plan) :
      plan[i].kind = "hop" => Search!StepHolds(Graph, NodeId, plan[i], b)

=============================================================================
