---------------------------- MODULE GraphSearch ----------------------------
(***************************************************************************)
(* What a query promises, with no partition, replica or RPC in it: a       *)
(* level-by-level search over one graph, in which a node outside `reach`   *)
(* can be arrived at but not read.  One step of the search is one round    *)
(* of a hop, one WHERE pass or one NOT EXISTS pass over the whole graph.   *)
(***************************************************************************)
EXTENDS PlanSemantics

CONSTANTS Plans, Graphs

VARIABLES
  plan,       \* the plan being executed
  graph,      \* the graph searched
  reach,      \* the nodes whose rows and edges can be read
  phase,      \* which kind of step comes next, or how the query ended
  pos,        \* the plan step in progress
  depth,      \* the round of the hop in progress
  current,    \* the frontier: the bindings the next step starts from
  accepted    \* the bindings the hop has collected so far

vars == <<plan, graph, reach, phase, pos, depth, current, accepted>>

step == plan[pos]

----------------------------------------------------------------------------
(* The search.                                                             *)

Init ==
  /\ plan \in Plans
  /\ graph \in Graphs
  /\ reach \in SUBSET NodeId
  /\ phase = "resolve"
  /\ pos = 1
  /\ depth = 1
  /\ current = {}
  /\ accepted = {}

\* Go to step i with frontier B.
Enter(i, B) ==
  /\ pos' = i
  /\ phase' = IF i > Len(plan) THEN "done" ELSE plan[i].kind
  /\ current' = B
  /\ depth' = 1
  /\ accepted' = {}
  /\ UNCHANGED <<plan, graph, reach>>

ResolveStep ==
  /\ phase = "resolve"
  /\ Enter(2, Starts(graph, reach, step))

Round ==
  /\ phase = "hop"
  /\ depth <= step.max /\ current # {}
  /\ LET reached == Level(graph, reach, step, depth, current) IN
       /\ current' = reached
       /\ accepted' = IF depth >= step.min THEN accepted \cup reached ELSE accepted
  /\ depth' = depth + 1
  /\ UNCHANGED <<plan, graph, reach, phase, pos>>

HopOver == phase = "hop" /\ (depth > step.max \/ current = {})

EndHop ==
  /\ HopOver
  /\ step.filters = {} \/ accepted = {}
  /\ Enter(pos + 1, accepted)

BeginFilter ==
  /\ HopOver
  /\ step.filters # {} /\ accepted # {}
  /\ phase' = "filter"
  /\ current' = accepted
  /\ accepted' = {}
  /\ UNCHANGED <<plan, graph, reach, pos, depth>>

FilterStep ==
  /\ phase = "filter"
  /\ Enter(pos + 1, {b \in current : Passes(graph, reach, step, b)})

AntiJoin ==
  /\ phase = "anti"
  /\ Enter(pos + 1, {b \in current : NoSuchEdge(graph, reach, step, b)})

Fail ==
  /\ phase \notin {"done", "failed"}
  /\ phase' = "failed"
  /\ UNCHANGED <<plan, graph, reach, pos, depth, current, accepted>>

Next ==
  \/ ResolveStep \/ Round \/ EndHop \/ BeginFilter \/ FilterStep \/ AntiJoin
  \/ Fail

Spec == Init /\ [][Next]_vars

=============================================================================
