--------------------------- MODULE PlanSemantics ---------------------------
(***************************************************************************)
(* What the steps of a plan mean on a graph, with no partition, replica or *)
(* RPC in it.  First each step as one pass over the graph, from a frontier *)
(* to the next; then the answer of a plan stated declaratively: the        *)
(* bindings that satisfy every step, a variable-length hop being a walk.   *)
(* A node outside R can be arrived at but not read.                        *)
(***************************************************************************)
EXTENDS PropertyGraph

\* The alias a round leaves from: `from` at first, then the hop's own target.
Cursor(s, d) == IF d = 1 THEN s.from ELSE s.to
EdgeAlias(s, d) == IF d = 1 THEN s.edge ELSE NoAlias

----------------------------------------------------------------------------
(* One pass over the graph g, reading only the nodes in R.                 *)

Selects(g, s, n) ==
  /\ g.node[n].label = s.label
  /\ s.kind = "start" => /\ <<s.label, s.prop>> \in Indexed
                         /\ g.node[n].props[s.prop] = s.key

Starts(g, R, s) ==
  {FromNode(s.to, n) : n \in {m \in DOMAIN g.node \cap R : Selects(g, s, m)}}

\* The edges a walk can take away from n.
Exits(g, R, s, n) ==
  {e \in DOMAIN g.edge : /\ n \in R
                         /\ Near(g.edge[e], s.dir) = n
                         /\ TypeMatches(s.type, g.edge[e].type)}

Level(g, R, s, d, B) ==
  UNION {{Extend(b, s.to, Far(g.edge[e], s.dir), EdgeAlias(s, d), e) :
            e \in Exits(g, R, s, b[Cursor(s, d)])} : b \in B}

Passes(g, R, s, b) ==
  b[s.to] \in DOMAIN g.node \cap R /\ AllHold(g.node[b[s.to]].props, s.filters)

\* The rows whose properties can be read: a node's at the node, an edge's at
\* its source.
ReadableRows(g, R) ==
  (DOMAIN g.node \cap R) \cup {e \in DOMAIN g.edge : g.edge[e].src \in R}

PropsOf(g, id) == IF id \in NodeId THEN g.node[id].props ELSE g.edge[id].props

\* Every outer reference of a NOT EXISTS denotes a literal.
Resolvable(g, R, s, b) ==
  \A o \in s.outer : /\ b[o.alias] \in ReadableRows(g, R)
                     /\ PropsOf(g, b[o.alias])[o.outer] \in Value

Conditions(g, s, b) ==
  s.literal \cup
    {[prop |-> o.prop, op |-> o.op, val |-> PropsOf(g, b[o.alias])[o.outer]] :
       o \in s.outer}

NoSuchEdge(g, R, s, b) ==
  /\ Resolvable(g, R, s, b)
  /\ b[s.from] \in R
  /\ \A e \in Exits(g, R, s, b[s.from]) :
       Far(g.edge[e], s.dir) = b[s.to]
         => ~ AllHold(g.edge[e].props, Conditions(g, s, b))

----------------------------------------------------------------------------
(* The answer, stated without the search.                                  *)

\* A walk of d edges from a to z that reads only nodes in R.
Walk(g, R, s, a, z, d) ==
  \E w \in [0 .. d -> NodeId] :
    /\ w[0] = a /\ w[d] = z
    /\ \A i \in 0 .. d - 1 :
         \E e \in Exits(g, R, s, w[i]) : Far(g.edge[e], s.dir) = w[i + 1]

StepHolds(g, R, s, b) ==
  CASE s.kind \in {"start", "all"} ->
         b[s.to] \in DOMAIN g.node \cap R /\ Selects(g, s, b[s.to])
    [] s.kind = "hop" ->
         /\ \/ /\ s.edge = NoAlias
               /\ \E d \in 1 .. s.max :
                    d >= s.min /\ Walk(g, R, s, b[s.from], b[s.to], d)
            \/ /\ s.edge # NoAlias
               /\ b[s.edge] \in Exits(g, R, s, b[s.from])
               /\ b[s.to] = Far(g.edge[b[s.edge]], s.dir)
               /\ s.min <= s.max
         /\ s.filters = {} \/ Passes(g, R, s, b)
    [] s.kind = "anti" -> NoSuchEdge(g, R, s, b)

Satisfies(g, R, p, b) == \A i \in 1 .. Len(p) : StepHolds(g, R, p[i], b)

\* The aliases a plan binds, and the assignments of rows to them.
NodeAliases(p) == {p[i].to : i \in {j \in 1 .. Len(p) : p[j].kind # "anti"}}
EdgeAliases(p) ==
  {p[i].edge : i \in {j \in 1 .. Len(p) : p[j].kind = "hop"}} \ {NoAlias}

Candidates(g, p) ==
  {[a \in Alias |-> IF a \in NodeAliases(p) THEN nb[a]
                    ELSE IF a \in EdgeAliases(p) THEN eb[a] ELSE Unbound] :
     nb \in [NodeAliases(p) -> DOMAIN g.node],
     eb \in [EdgeAliases(p) -> DOMAIN g.edge]}

Answer(g, R, p) == {b \in Candidates(g, p) : Satisfies(g, R, p, b)}

----------------------------------------------------------------------------
(* The scope of a plan: the aliases a step reads, those it binds, and      *)
(* those the steps before step i have bound.                               *)

Reads(s) ==
  CASE s.kind = "hop"  -> {s.from}
    [] s.kind = "anti" -> {s.from, s.to} \cup {o.alias : o \in s.outer}
    [] OTHER -> {}

Binds(s) ==
  CASE s.kind = "hop"  -> {s.to, s.edge} \ {NoAlias}
    [] s.kind = "anti" -> {}
    [] OTHER -> {s.to}

BoundBefore(p, i) == UNION {Binds(p[j]) : j \in 1 .. i - 1}

ReadsBound(p) == \A i \in 1 .. Len(p) : Reads(p[i]) \subseteq BoundBefore(p, i)

BindsOnce(p) ==
  \A i \in 1 .. Len(p) :
    /\ Binds(p[i]) \cap BoundBefore(p, i) = {}
    /\ p[i].kind = "hop" => p[i].edge # p[i].to

=============================================================================
