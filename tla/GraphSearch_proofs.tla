------------------------- MODULE GraphSearch_proofs -------------------------
(***************************************************************************)
(* The search is exact: over closed graphs, for a plan that binds every    *)
(* alias once and before it reads it, a search that finishes has found the *)
(* bindings that satisfy every step of the plan, and no other.             *)
(***************************************************************************)
EXTENDS GraphSearch, TLAPS

----------------------------------------------------------------------------
(* The bindings of the first steps of a plan.                              *)

NodesBefore(p, i) ==
  {p[j].to : j \in {k \in 1 .. i - 1 : p[k].kind # "anti"}}
EdgesBefore(p, i) ==
  {p[j].edge : j \in {k \in 1 .. i - 1 : p[k].kind = "hop"}} \ {NoAlias}

\* A row for each alias the steps before i bind, and nothing for the others.
Shaped(g, p, i) ==
  {b \in Binding :
     \A a \in Alias :
       b[a] \in IF a \in NodesBefore(p, i) THEN DOMAIN g.node
                ELSE IF a \in EdgesBefore(p, i) THEN DOMAIN g.edge ELSE {Unbound}}

HoldBefore(g, R, p, i, b) == \A j \in 1 .. i - 1 : StepHolds(g, R, p[j], b)

\* The answer of the steps before i.
Prefix(g, R, p, i) == {b \in Shaped(g, p, i) : HoldBefore(g, R, p, i, b)}

\* b[s.to] is d edges away from b[s.from].
Away(g, R, s, b, d) ==
  \/ /\ s.edge = NoAlias
     /\ Walk(g, R, s, b[s.from], b[s.to], d)
  \/ /\ s.edge # NoAlias
     /\ d = 1
     /\ b[s.edge] \in Exits(g, R, s, b[s.from])
     /\ b[s.to] = Far(g.edge[b[s.edge]], s.dir)

\* What d rounds of hop i reach from the answer of the steps before it, and
\* what the hop has collected after them.
Arrived(g, R, p, i, d) ==
  IF d = 0 THEN Prefix(g, R, p, i)
  ELSE {b \in Shaped(g, p, i + 1) :
          HoldBefore(g, R, p, i, b) /\ Away(g, R, p[i], b, d)}

Collected(g, R, p, i, d) ==
  UNION {Arrived(g, R, p, i, c) : c \in {e \in 1 .. d : e >= p[i].min}}

ScopedPlans == \A p \in Plans : IsPlan(p) /\ ReadsBound(p) /\ BindsOnce(p)
ClosedGraphs == \A g \in Graphs : IsGraph(g) /\ Closed(g)

\* Between two steps the search holds the answer of the steps done so far;
\* inside a hop, what its rounds have reached.
SearchInv ==
  /\ plan \in Plans /\ graph \in Graphs /\ reach \subseteq NodeId
  /\ phase = "resolve" => pos = 1
  /\ phase \in {"hop", "filter", "anti"} =>
       /\ pos \in 2 .. Len(plan)
       /\ step.kind = IF phase = "anti" THEN "anti" ELSE "hop"
  /\ phase = "hop" =>
       /\ depth \in 1 .. step.max + 1
       /\ current = Arrived(graph, reach, plan, pos, depth - 1)
       /\ accepted = Collected(graph, reach, plan, pos, depth - 1)
  /\ phase = "filter" =>
       /\ step.filters # {}
       /\ current = Collected(graph, reach, plan, pos, step.max)
  /\ phase = "anti" => current = Prefix(graph, reach, plan, pos)
  /\ phase = "done" => current = Answer(graph, reach, plan)

----------------------------------------------------------------------------
(* What a plan and a graph are made of.                                    *)

LEMMA PlanShape ==
  ASSUME NEW p, IsPlan(p)
  PROVE  /\ Len(p) \in Nat \ {0}
         /\ p[1] \in StartStep \cup AllStep
         /\ \A i \in 1 .. Len(p) :
              /\ p[i] \in PlanStep
              /\ p[i].kind = "hop" => /\ i > 1 /\ p[i] \in HopStep
                                      /\ p[i].edge # NoAlias => p[i].max = 1
              /\ p[i].kind = "anti" => i > 1 /\ p[i] \in AntiStep
              /\ i > 1 => p[i].kind \in {"hop", "anti"}
<1>1. p \in Seq(PlanStep) /\ Len(p) > 0 /\ Len(p) \in Nat
  BY DEF IsPlan
<1>2. ASSUME NEW i \in 1 .. Len(p)
      PROVE  /\ p[i] \in PlanStep
             /\ p[i].kind = "hop" => /\ i > 1 /\ p[i] \in HopStep
                                     /\ p[i].edge # NoAlias => p[i].max = 1
             /\ p[i].kind = "anti" => i > 1 /\ p[i] \in AntiStep
             /\ i > 1 => p[i].kind \in {"hop", "anti"}
  <2>1. CASE i = 1
    BY <1>1, <2>1 DEF IsPlan, StartStep, AllStep, PlanStep
  <2>2. CASE i # 1
    <3>1. \/ p[i] \in AntiStep
          \/ p[i] \in HopStep /\ (p[i].edge # NoAlias => p[i].max = 1)
      BY <1>1, <2>2 DEF IsPlan
    <3>2. QED  BY <2>2, <3>1 DEF HopStep, AntiStep, PlanStep
  <2>3. QED  BY <2>1, <2>2
<1>3. QED  BY <1>1, <1>2 DEF IsPlan

LEMMA GraphShape ==
  ASSUME NEW g, IsGraph(g)
  PROVE  /\ DOMAIN g.node \subseteq NodeId
         /\ DOMAIN g.edge \subseteq EdgeId
         /\ DOMAIN g.node \cap DOMAIN g.edge = {}
         /\ Unbound \notin DOMAIN g.node \cup DOMAIN g.edge
         /\ \A e \in DOMAIN g.edge :
              g.edge[e].src \in NodeId /\ g.edge[e].dst \in NodeId
BY DataAssumption DEF IsGraph, NodeRow, EdgeRow

\* In a closed graph an edge leads from a row to a row.
LEMMA ExitEnds ==
  ASSUME NEW g, IsGraph(g), Closed(g), NEW R, NEW s, s.dir \in Direction,
         NEW n, NEW e \in Exits(g, R, s, n)
  PROVE  /\ e \in DOMAIN g.edge /\ e \in EdgeId
         /\ n \in DOMAIN g.node /\ Far(g.edge[e], s.dir) \in DOMAIN g.node
<1>1. e \in DOMAIN g.edge /\ Near(g.edge[e], s.dir) = n
  BY DEF Exits
<1>2. QED
  BY <1>1, GraphShape DEF Closed, Near, Far

\* The aliases bound before step i are those of the nodes and of the edges.
LEMMA ScopeSplits ==
  ASSUME NEW p, IsPlan(p), NEW i \in 1 .. Len(p) + 1
  PROVE  BoundBefore(p, i) = NodesBefore(p, i) \cup EdgesBefore(p, i)
<1>1. Len(p) \in Nat
  BY PlanShape
<1>2. ASSUME NEW j \in 1 .. i - 1
      PROVE  Binds(p[j]) = (IF p[j].kind # "anti" THEN {p[j].to} ELSE {}) \cup
                           (IF p[j].kind = "hop" THEN {p[j].edge} \ {NoAlias} ELSE {})
  <2>1. j \in 1 .. Len(p)
    BY <1>1
  <2>2. p[j].kind = "hop" => p[j].to # NoAlias
    BY <2>1, PlanShape, DataAssumption DEF HopStep
  <2>3. QED  BY <2>2 DEF Binds
<1>3. ASSUME NEW a
      PROVE  a \in BoundBefore(p, i) <=> a \in NodesBefore(p, i) \cup EdgesBefore(p, i)
  <2>1. a \in BoundBefore(p, i) <=> \E j \in 1 .. i - 1 : a \in Binds(p[j])
    BY DEF BoundBefore
  <2>2. a \in NodesBefore(p, i) <=>
          \E j \in 1 .. i - 1 : p[j].kind # "anti" /\ a = p[j].to
    BY DEF NodesBefore
  <2>3. a \in EdgesBefore(p, i) <=>
          \E j \in 1 .. i - 1 : p[j].kind = "hop" /\ a = p[j].edge /\ a # NoAlias
    BY DEF EdgesBefore
  <2>4. QED  BY <1>2, <2>1, <2>2, <2>3
<1>4. QED  BY <1>3

\* What step i adds to the scope.
LEMMA ScopeGrows ==
  ASSUME NEW p, IsPlan(p), NEW i \in 1 .. Len(p)
  PROVE  /\ NodesBefore(p, i + 1) =
              NodesBefore(p, i) \cup IF p[i].kind = "anti" THEN {} ELSE {p[i].to}
         /\ EdgesBefore(p, i + 1) =
              EdgesBefore(p, i) \cup
                IF p[i].kind = "hop" THEN {p[i].edge} \ {NoAlias} ELSE {}
<1>1. 1 .. (i + 1) - 1 = (1 .. i - 1) \cup {i}
  BY PlanShape
<1>2. QED
  BY <1>1 DEF NodesBefore, EdgesBefore

\* Whether a step holds depends on the aliases it reads and binds alone.
LEMMA StepDepends ==
  ASSUME NEW g, NEW R, NEW s \in PlanStep, NEW b, NEW c,
         \A a \in Reads(s) \cup Binds(s) : b[a] = c[a]
  PROVE  StepHolds(g, R, s, b) <=> StepHolds(g, R, s, c)
<1>1. CASE s.kind \in {"start", "all"}
  <2>1. b[s.to] = c[s.to]
    BY <1>1 DEF Binds
  <2>2. QED  BY <1>1, <2>1 DEF StepHolds
<1>2. CASE s.kind = "hop"
  <2>1. s \in HopStep
    BY <1>2 DEF PlanStep, HopStep, AntiStep, StartStep, AllStep
  <2>2. b[s.from] = c[s.from] /\ b[s.to] = c[s.to]
    BY <1>2, <2>1, DataAssumption DEF Reads, Binds, HopStep
  <2>3. s.edge # NoAlias => b[s.edge] = c[s.edge]
    BY <1>2 DEF Binds
  <2>4. Passes(g, R, s, b) <=> Passes(g, R, s, c)
    BY <2>2 DEF Passes
  <2>5. QED  BY <1>2, <2>2, <2>3, <2>4 DEF StepHolds
<1>3. CASE s.kind = "anti"
  <2>1. /\ b[s.from] = c[s.from] /\ b[s.to] = c[s.to]
        /\ \A o \in s.outer : b[o.alias] = c[o.alias]
    BY <1>3 DEF Reads
  <2>2. Resolvable(g, R, s, b) <=> Resolvable(g, R, s, c)
    BY <2>1 DEF Resolvable
  <2>3. Conditions(g, s, b) = Conditions(g, s, c)
    BY <2>1 DEF Conditions
  <2>4. NoSuchEdge(g, R, s, b) <=> NoSuchEdge(g, R, s, c)
    BY <2>1, <2>2, <2>3 DEF NoSuchEdge
  <2>5. QED  BY <1>3, <2>4 DEF StepHolds
<1>4. QED
  BY <1>1, <1>2, <1>3 DEF PlanStep, StartStep, AllStep, HopStep, AntiStep

\* So the steps before i cannot tell bindings apart that agree on their scope.
LEMMA PrefixDepends ==
  ASSUME NEW g, NEW R, NEW p, IsPlan(p), ReadsBound(p), NEW i \in 1 .. Len(p) + 1,
         NEW b, NEW c, \A a \in BoundBefore(p, i) : b[a] = c[a]
  PROVE  HoldBefore(g, R, p, i, b) <=> HoldBefore(g, R, p, i, c)
<1>1. ASSUME NEW j \in 1 .. i - 1
      PROVE  StepHolds(g, R, p[j], b) <=> StepHolds(g, R, p[j], c)
  <2>1. j \in 1 .. Len(p) /\ p[j] \in PlanStep
    BY PlanShape
  <2>2. Reads(p[j]) \subseteq BoundBefore(p, j)
    BY <2>1 DEF ReadsBound
  <2>3. BoundBefore(p, j) \cup Binds(p[j]) \subseteq BoundBefore(p, i)
    BY <2>1 DEF BoundBefore
  <2>4. QED  BY <2>1, <2>2, <2>3, StepDepends
<1>2. QED  BY <1>1 DEF HoldBefore

----------------------------------------------------------------------------
(* The answer of a plan is the answer of all its steps.                    *)

LEMMA AliasesInScope ==
  ASSUME NEW p, IsPlan(p), NEW i \in 1 .. Len(p) + 1
  PROVE  NodesBefore(p, i) \subseteq Alias /\ EdgesBefore(p, i) \subseteq Alias
<1>1. ASSUME NEW j \in 1 .. i - 1
      PROVE  /\ p[j].to \in Alias
             /\ p[j].kind = "hop" => p[j].edge \in Alias \cup {NoAlias}
  <2>1. j \in 1 .. Len(p) /\ p[j] \in PlanStep
    BY PlanShape
  <2>2. QED
    BY <2>1 DEF PlanStep, StartStep, AllStep, HopStep, AntiStep
<1>2. QED  BY <1>1 DEF NodesBefore, EdgesBefore

\* No alias is a node's and an edge's.
LEMMA ScopeDisjoint ==
  ASSUME NEW p, IsPlan(p), BindsOnce(p), NEW i \in 1 .. Len(p) + 1
  PROVE  NodesBefore(p, i) \cap EdgesBefore(p, i) = {}
<1> SUFFICES ASSUME NEW j \in 1 .. i - 1, NEW k \in 1 .. i - 1,
                    p[j].kind # "anti", p[k].kind = "hop",
                    p[k].edge # NoAlias, p[j].to = p[k].edge
             PROVE  FALSE
  BY DEF NodesBefore, EdgesBefore
<1>1. j \in 1 .. Len(p) /\ k \in 1 .. Len(p)
  BY PlanShape
<1>2. p[j].to \in Binds(p[j]) /\ p[k].edge \in Binds(p[k])
  BY <1>1, PlanShape, DataAssumption DEF Binds, HopStep
<1>3. CASE j = k
  BY <1>1, <1>3 DEF BindsOnce
<1>4. CASE j < k
  <2>1. j \in 1 .. k - 1
    BY <1>1, <1>4
  <2>2. Binds(p[j]) \subseteq BoundBefore(p, k)
    BY <2>1 DEF BoundBefore
  <2>3. QED  BY <1>1, <1>2, <2>2 DEF BindsOnce
<1>5. CASE k < j
  <2>1. k \in 1 .. j - 1
    BY <1>1, <1>5
  <2>2. Binds(p[k]) \subseteq BoundBefore(p, j)
    BY <2>1 DEF BoundBefore
  <2>3. QED  BY <1>1, <1>2, <2>2 DEF BindsOnce
<1>6. QED  BY <1>1, <1>3, <1>4, <1>5

LEMMA AnswerIsPrefix ==
  ASSUME NEW g, IsGraph(g), NEW R, NEW p, IsPlan(p), BindsOnce(p)
  PROVE  Answer(g, R, p) = Prefix(g, R, p, Len(p) + 1)
<1> DEFINE all == Len(p) + 1
           N == NodeAliases(p)
           E == EdgeAliases(p)
           Assign(nb, eb) == [a \in Alias |-> IF a \in N THEN nb[a]
                                              ELSE IF a \in E THEN eb[a] ELSE Unbound]
<1>1. all \in 1 .. Len(p) + 1 /\ all - 1 = Len(p)
  BY PlanShape
<1>2. N = NodesBefore(p, all) /\ E = EdgesBefore(p, all)
  BY <1>1 DEF NodeAliases, EdgeAliases, NodesBefore, EdgesBefore
<1>3. N \subseteq Alias /\ E \subseteq Alias /\ N \cap E = {}
  BY <1>1, <1>2, AliasesInScope, ScopeDisjoint
<1>4. DOMAIN g.node \subseteq NodeId /\ DOMAIN g.edge \subseteq EdgeId
  BY GraphShape
<1>5. Candidates(g, p) =
        {Assign(nb, eb) : nb \in [N -> DOMAIN g.node], eb \in [E -> DOMAIN g.edge]}
  BY DEF Candidates
<1>6. Shaped(g, p, all) =
        {b \in Binding : \A a \in Alias :
           b[a] \in IF a \in N THEN DOMAIN g.node
                    ELSE IF a \in E THEN DOMAIN g.edge ELSE {Unbound}}
  BY <1>2 DEF Shaped
<1> HIDE DEF N, E
<1>7. ASSUME NEW nb \in [N -> DOMAIN g.node], NEW eb \in [E -> DOMAIN g.edge]
      PROVE  Assign(nb, eb) \in Shaped(g, p, all)
  BY <1>4, <1>6 DEF Binding
<1>8. ASSUME NEW b \in Shaped(g, p, all)
      PROVE  b \in Candidates(g, p)
  <2> DEFINE nb == [a \in N |-> b[a]]
             eb == [a \in E |-> b[a]]
  <2>1. nb \in [N -> DOMAIN g.node] /\ eb \in [E -> DOMAIN g.edge]
    BY <1>3, <1>6
  <2>2. b \in [Alias -> NodeId \cup EdgeId \cup {Unbound}]
    BY <1>6 DEF Binding
  <2>3. b = Assign(nb, eb)
    BY <1>6, <2>2
  <2> HIDE DEF nb, eb, Assign
  <2>4. QED  BY <1>5, <2>1, <2>3
<1>9. Candidates(g, p) = Shaped(g, p, all)
  BY <1>5, <1>7, <1>8
<1>10. QED
  BY <1>1, <1>9 DEF Answer, Satisfies, Prefix, HoldBefore

----------------------------------------------------------------------------
(* Walks.                                                                  *)

LEMMA WalkOfOne ==
  ASSUME NEW g, NEW R, NEW s, NEW a \in NodeId, NEW z \in NodeId
  PROVE  Walk(g, R, s, a, z, 1) <=>
           \E e \in Exits(g, R, s, a) : Far(g.edge[e], s.dir) = z
<1>1. ASSUME NEW e \in Exits(g, R, s, a), Far(g.edge[e], s.dir) = z
      PROVE  Walk(g, R, s, a, z, 1)
  <2> DEFINE w == [i \in 0 .. 1 |-> IF i = 0 THEN a ELSE z]
  <2>1. w \in [0 .. 1 -> NodeId] /\ w[0] = a /\ w[1] = z
    OBVIOUS
  <2>2. ASSUME NEW i \in 0 .. 1 - 1
        PROVE  \E x \in Exits(g, R, s, w[i]) : Far(g.edge[x], s.dir) = w[i + 1]
    <3>1. i = 0
      OBVIOUS
    <3>2. QED  BY <1>1, <2>1, <3>1
  <2> HIDE DEF w
  <2>3. QED  BY <2>1, <2>2 DEF Walk
<1>2. ASSUME Walk(g, R, s, a, z, 1)
      PROVE  \E e \in Exits(g, R, s, a) : Far(g.edge[e], s.dir) = z
  <2>1. PICK w \in [0 .. 1 -> NodeId] :
          /\ w[0] = a /\ w[1] = z
          /\ \A i \in 0 .. 1 - 1 :
               \E e \in Exits(g, R, s, w[i]) : Far(g.edge[e], s.dir) = w[i + 1]
    BY <1>2 DEF Walk
  <2>2. 0 \in 0 .. 1 - 1 /\ 0 + 1 = 1
    OBVIOUS
  <2>3. \E e \in Exits(g, R, s, w[0]) : Far(g.edge[e], s.dir) = w[0 + 1]
    BY <2>1, <2>2
  <2>4. QED  BY <2>1, <2>3
<1>3. QED  BY <1>1, <1>2

\* The beginning of a walk is a walk.
LEMMA WalkBegins ==
  ASSUME NEW g, NEW R, NEW s, NEW a, NEW z, NEW d \in Nat, NEW c \in 0 .. d,
         NEW w \in [0 .. d -> NodeId], w[0] = a,
         \A i \in 0 .. d - 1 :
           \E e \in Exits(g, R, s, w[i]) : Far(g.edge[e], s.dir) = w[i + 1]
  PROVE  Walk(g, R, s, a, w[c], c)
<1> DEFINE v == [i \in 0 .. c |-> w[i]]
<1>1. v \in [0 .. c -> NodeId] /\ v[0] = a /\ v[c] = w[c]
  OBVIOUS
<1>2. ASSUME NEW i \in 0 .. c - 1
      PROVE  \E e \in Exits(g, R, s, v[i]) : Far(g.edge[e], s.dir) = v[i + 1]
  <2>1. i \in 0 .. d - 1 /\ v[i] = w[i] /\ v[i + 1] = w[i + 1]
    OBVIOUS
  <2> HIDE DEF v
  <2>2. QED  BY <2>1
<1> HIDE DEF v
<1>3. QED  BY <1>1, <1>2 DEF Walk

\* A walk of one edge more is a walk and a way out of its end.
LEMMA WalkOfOneMore ==
  ASSUME NEW g, NEW R, NEW s, NEW a \in NodeId, NEW z \in NodeId, NEW d \in Nat
  PROVE  Walk(g, R, s, a, z, d + 1) <=>
           \E y \in NodeId : /\ Walk(g, R, s, a, y, d)
                             /\ \E e \in Exits(g, R, s, y) : Far(g.edge[e], s.dir) = z
<1>1. ASSUME Walk(g, R, s, a, z, d + 1)
      PROVE  \E y \in NodeId : /\ Walk(g, R, s, a, y, d)
                               /\ \E e \in Exits(g, R, s, y) : Far(g.edge[e], s.dir) = z
  <2>1. PICK w \in [0 .. d + 1 -> NodeId] :
          /\ w[0] = a /\ w[d + 1] = z
          /\ \A i \in 0 .. (d + 1) - 1 :
               \E e \in Exits(g, R, s, w[i]) : Far(g.edge[e], s.dir) = w[i + 1]
    BY <1>1 DEF Walk
  <2>2. d \in 0 .. (d + 1) - 1 /\ d \in 0 .. d + 1 /\ d + 1 \in Nat
    OBVIOUS
  <2>3. Walk(g, R, s, a, w[d], d)
    BY <2>1, <2>2, WalkBegins
  <2>4. QED  BY <2>1, <2>2, <2>3
<1>2. ASSUME NEW y \in NodeId, Walk(g, R, s, a, y, d),
             NEW e \in Exits(g, R, s, y), Far(g.edge[e], s.dir) = z
      PROVE  Walk(g, R, s, a, z, d + 1)
  <2>1. PICK w \in [0 .. d -> NodeId] :
          /\ w[0] = a /\ w[d] = y
          /\ \A i \in 0 .. d - 1 :
               \E x \in Exits(g, R, s, w[i]) : Far(g.edge[x], s.dir) = w[i + 1]
    BY <1>2 DEF Walk
  <2> DEFINE v == [i \in 0 .. d + 1 |-> IF i = d + 1 THEN z ELSE w[i]]
  <2>2. /\ v \in [0 .. d + 1 -> NodeId] /\ v[d + 1] = z
        /\ \A i \in 0 .. d : v[i] = w[i]
    OBVIOUS
  <2>3. v[0] = a
    BY <2>1
  <2> HIDE DEF v
  <2>4. ASSUME NEW i \in 0 .. (d + 1) - 1
        PROVE  \E x \in Exits(g, R, s, v[i]) : Far(g.edge[x], s.dir) = v[i + 1]
    <3>1. CASE i = d
      BY <1>2, <2>1, <2>2, <3>1
    <3>2. CASE i # d
      <4>1. i \in 0 .. d - 1 /\ i \in 0 .. d /\ i + 1 \in 0 .. d
        BY <3>2
      <4>2. QED  BY <2>1, <2>2, <4>1
    <3>3. QED  BY <3>1, <3>2
  <2>5. QED  BY <2>2, <2>3, <2>4 DEF Walk
<1>3. QED  BY <1>1, <1>2

LEMMA WalkEnds ==
  ASSUME NEW g, NEW R, NEW s, NEW a, NEW z, NEW d \in Nat, Walk(g, R, s, a, z, d)
  PROVE  a \in NodeId /\ z \in NodeId
<1>1. PICK w \in [0 .. d -> NodeId] : w[0] = a /\ w[d] = z
  BY DEF Walk
<1>2. 0 \in 0 .. d /\ d \in 0 .. d
  OBVIOUS
<1>3. QED  BY <1>1, <1>2

----------------------------------------------------------------------------
(* One round of a hop.                                                     *)

\* The scope of a hop: what it binds is new, what it leaves from is not.
LEMMA HopScope ==
  ASSUME NEW p, IsPlan(p), ReadsBound(p), BindsOnce(p),
         NEW i \in 1 .. Len(p), p[i].kind = "hop"
  PROVE  /\ p[i] \in HopStep /\ p[i].dir \in Direction
         /\ p[i].to \in Alias /\ p[i].from \in Alias
         /\ p[i].edge \in Alias \cup {NoAlias} /\ NoAlias \notin Alias
         /\ p[i].edge # p[i].to
         /\ p[i].from \in BoundBefore(p, i)
         /\ p[i].to \notin BoundBefore(p, i)
         /\ p[i].edge # NoAlias => p[i].edge \notin BoundBefore(p, i)
         /\ BoundBefore(p, i) = NodesBefore(p, i) \cup EdgesBefore(p, i)
         /\ NodesBefore(p, i + 1) = NodesBefore(p, i) \cup {p[i].to}
         /\ EdgesBefore(p, i + 1) = EdgesBefore(p, i) \cup ({p[i].edge} \ {NoAlias})
<1>1. p[i] \in HopStep /\ i \in 1 .. Len(p) + 1
  BY PlanShape
<1>2. /\ p[i].dir \in Direction /\ p[i].to \in Alias /\ p[i].from \in Alias
      /\ p[i].edge \in Alias \cup {NoAlias} /\ NoAlias \notin Alias
  BY <1>1, DataAssumption DEF HopStep
<1>3. Binds(p[i]) = {p[i].to, p[i].edge} \ {NoAlias} /\ Reads(p[i]) = {p[i].from}
  BY DEF Binds, Reads
<1>4. /\ p[i].edge # p[i].to /\ p[i].from \in BoundBefore(p, i)
      /\ p[i].to \notin BoundBefore(p, i)
      /\ p[i].edge # NoAlias => p[i].edge \notin BoundBefore(p, i)
  BY <1>2, <1>3 DEF BindsOnce, ReadsBound
<1>5. QED
  BY <1>1, <1>2, <1>4, ScopeSplits, ScopeGrows

\* An edge taken from a binding of the steps before the hop gives one of the
\* steps up to it, with the same rows in the old scope.
LEMMA ExtendsScope ==
  ASSUME NEW g, IsGraph(g), NEW p, IsPlan(p), ReadsBound(p), BindsOnce(p),
         NEW i \in 1 .. Len(p), p[i].kind = "hop",
         NEW b \in Shaped(g, p, i), NEW n \in DOMAIN g.node, NEW e \in DOMAIN g.edge
  PROVE  LET c == Extend(b, p[i].to, n, p[i].edge, e) IN
         /\ c \in Shaped(g, p, i + 1)
         /\ \A a \in BoundBefore(p, i) : c[a] = b[a]
         /\ c[p[i].to] = n
         /\ p[i].edge # NoAlias => c[p[i].edge] = e
<1> DEFINE s == p[i]
           c == Extend(b, s.to, n, s.edge, e)
<1>1. n \in NodeId /\ e \in EdgeId
  BY GraphShape
<1>2. b \in [Alias -> NodeId \cup EdgeId \cup {Unbound}]
  BY DEF Shaped, Binding
<1>3. /\ c \in Binding
      /\ \A a \in Alias : c[a] = IF a = s.edge THEN e ELSE IF a = s.to THEN n ELSE b[a]
  BY <1>1, <1>2 DEF Extend, Binding
<1>4. BoundBefore(p, i) \subseteq Alias
  BY HopScope, AliasesInScope, PlanShape
<1>5. c[s.to] = n /\ (s.edge # NoAlias => c[s.edge] = e)
  BY <1>3, HopScope
<1>6. \A a \in BoundBefore(p, i) : c[a] = b[a]
  BY <1>3, <1>4, HopScope
<1>7. \A a \in Alias :
        c[a] \in IF a \in NodesBefore(p, i + 1) THEN DOMAIN g.node
                 ELSE IF a \in EdgesBefore(p, i + 1) THEN DOMAIN g.edge ELSE {Unbound}
  <2> SUFFICES ASSUME NEW a \in Alias
               PROVE  c[a] \in IF a \in NodesBefore(p, i + 1) THEN DOMAIN g.node
                               ELSE IF a \in EdgesBefore(p, i + 1) THEN DOMAIN g.edge
                               ELSE {Unbound}
    OBVIOUS
  <2>1. b[a] \in IF a \in NodesBefore(p, i) THEN DOMAIN g.node
                 ELSE IF a \in EdgesBefore(p, i) THEN DOMAIN g.edge ELSE {Unbound}
    BY DEF Shaped
  <2> HIDE DEF c
  <2>2. QED  BY <1>3, <2>1, HopScope
<1>8. c \in Shaped(g, p, i + 1)
  BY <1>3, <1>7 DEF Shaped
<1>9. QED  BY <1>5, <1>6, <1>8

\* Conversely, a binding of the steps up to the hop extends the one that
\* forgets what the hop has bound.
LEMMA RetractsScope ==
  ASSUME NEW g, IsGraph(g), NEW p, IsPlan(p), ReadsBound(p), BindsOnce(p),
         NEW i \in 1 .. Len(p), p[i].kind = "hop", NEW c \in Shaped(g, p, i + 1)
  PROVE  \E b \in Shaped(g, p, i) :
           /\ \A a \in BoundBefore(p, i) : b[a] = c[a]
           /\ \A e : (p[i].edge # NoAlias => e = c[p[i].edge])
                       => c = Extend(b, p[i].to, c[p[i].to], p[i].edge, e)
<1> DEFINE s == p[i]
           b == [a \in Alias |-> IF a \in {s.to, s.edge} THEN Unbound ELSE c[a]]
<1>1. c \in [Alias -> NodeId \cup EdgeId \cup {Unbound}]
  BY DEF Shaped, Binding
<1>2. /\ b \in Binding
      /\ \A a \in Alias : b[a] = IF a \in {s.to, s.edge} THEN Unbound ELSE c[a]
  BY <1>1 DEF Binding
<1>3. BoundBefore(p, i) \subseteq Alias
  BY HopScope, AliasesInScope, PlanShape
<1>4. \A a \in BoundBefore(p, i) : b[a] = c[a]
  BY <1>2, <1>3, HopScope
<1>5. \A a \in Alias :
        b[a] \in IF a \in NodesBefore(p, i) THEN DOMAIN g.node
                 ELSE IF a \in EdgesBefore(p, i) THEN DOMAIN g.edge ELSE {Unbound}
  <2> SUFFICES ASSUME NEW a \in Alias
               PROVE  b[a] \in IF a \in NodesBefore(p, i) THEN DOMAIN g.node
                               ELSE IF a \in EdgesBefore(p, i) THEN DOMAIN g.edge
                               ELSE {Unbound}
    OBVIOUS
  <2>1. c[a] \in IF a \in NodesBefore(p, i + 1) THEN DOMAIN g.node
                 ELSE IF a \in EdgesBefore(p, i + 1) THEN DOMAIN g.edge ELSE {Unbound}
    BY DEF Shaped
  <2> HIDE DEF b
  <2>2. QED  BY <1>2, <2>1, HopScope
<1>6. ASSUME NEW e, s.edge # NoAlias => e = c[s.edge]
      PROVE  c = Extend(b, s.to, c[s.to], s.edge, e)
  BY <1>1, <1>2, <1>6, HopScope DEF Extend
<1>7. b \in Shaped(g, p, i)
  BY <1>2, <1>5 DEF Shaped
<1> HIDE DEF b
<1>8. QED  BY <1>4, <1>6, <1>7

LEMMA FirstRound ==
  ASSUME NEW g, IsGraph(g), Closed(g), NEW R,
         NEW p, IsPlan(p), ReadsBound(p), BindsOnce(p),
         NEW i \in 1 .. Len(p), p[i].kind = "hop"
  PROVE  Level(g, R, p[i], 1, Prefix(g, R, p, i)) = Arrived(g, R, p, i, 1)
<1> DEFINE s == p[i]
           A == Prefix(g, R, p, i)
<1>0. i \in 1 .. Len(p) + 1 /\ s.dir \in Direction
  BY PlanShape, HopScope
<1>1. ASSUME NEW b \in A, NEW e \in Exits(g, R, s, b[s.from])
      PROVE  Extend(b, s.to, Far(g.edge[e], s.dir), s.edge, e) \in Arrived(g, R, p, i, 1)
  <2> DEFINE n == Far(g.edge[e], s.dir)
             c == Extend(b, s.to, n, s.edge, e)
  <2>1. /\ e \in DOMAIN g.edge /\ n \in DOMAIN g.node
        /\ n \in NodeId /\ b[s.from] \in NodeId
    BY <1>0, ExitEnds, GraphShape
  <2>2. b \in Shaped(g, p, i) /\ HoldBefore(g, R, p, i, b)
    BY DEF Prefix
  <2>3. /\ c \in Shaped(g, p, i + 1)
        /\ \A a \in BoundBefore(p, i) : c[a] = b[a]
        /\ c[s.to] = n
        /\ s.edge # NoAlias => c[s.edge] = e
    BY <2>1, <2>2, ExtendsScope
  <2>4. HoldBefore(g, R, p, i, c)
    BY <1>0, <2>2, <2>3, PrefixDepends
  <2>5. c[s.from] = b[s.from]
    BY <2>3, HopScope
  <2>6. Walk(g, R, s, b[s.from], n, 1)
    BY <2>1, WalkOfOne
  <2>7. Away(g, R, s, c, 1)
    BY <2>3, <2>5, <2>6 DEF Away
  <2> HIDE DEF c
  <2>8. c \in Arrived(g, R, p, i, 1)
    BY <2>3, <2>4, <2>7 DEF Arrived
  <2>9. QED  BY <2>8 DEF c
<1>2. ASSUME NEW c \in Arrived(g, R, p, i, 1)
      PROVE  \E b \in A : \E e \in Exits(g, R, s, b[s.from]) :
               c = Extend(b, s.to, Far(g.edge[e], s.dir), s.edge, e)
  <2>1. c \in Shaped(g, p, i + 1) /\ HoldBefore(g, R, p, i, c) /\ Away(g, R, s, c, 1)
    BY DEF Arrived
  <2>2. PICK b \in Shaped(g, p, i) :
          /\ \A a \in BoundBefore(p, i) : b[a] = c[a]
          /\ \A e : (s.edge # NoAlias => e = c[s.edge])
                      => c = Extend(b, s.to, c[s.to], s.edge, e)
    BY <2>1, RetractsScope
  <2>3. b \in A
    BY <1>0, <2>1, <2>2, PrefixDepends DEF Prefix
  <2>4. b[s.from] = c[s.from]
    BY <2>2, HopScope
  <2>5. \E e \in Exits(g, R, s, c[s.from]) :
          Far(g.edge[e], s.dir) = c[s.to] /\ (s.edge # NoAlias => e = c[s.edge])
    <3>1. CASE s.edge = NoAlias
      <4>1. Walk(g, R, s, c[s.from], c[s.to], 1)
        BY <2>1, <3>1 DEF Away
      <4>2. c[s.from] \in NodeId /\ c[s.to] \in NodeId
        BY <4>1, WalkEnds
      <4>3. QED  BY <3>1, <4>1, <4>2, WalkOfOne
    <3>2. CASE s.edge # NoAlias
      BY <2>1, <3>2 DEF Away
    <3>3. QED  BY <3>1, <3>2
  <2>6. QED  BY <2>2, <2>3, <2>4, <2>5
<1>3. Level(g, R, s, 1, A) =
        UNION {{Extend(b, s.to, Far(g.edge[e], s.dir), s.edge, e) :
                  e \in Exits(g, R, s, b[s.from])} : b \in A}
  BY DEF Level, Cursor, EdgeAlias
<1> HIDE DEF A
<1>4. Level(g, R, s, 1, A) = Arrived(g, R, p, i, 1)
  <2>1. \A c \in Arrived(g, R, p, i, 1) : c \in Level(g, R, s, 1, A)
    BY <1>2, <1>3
  <2>2. \A c \in Level(g, R, s, 1, A) : c \in Arrived(g, R, p, i, 1)
    BY <1>1, <1>3
  <2>3. QED  BY <2>1, <2>2
<1>5. QED  BY <1>4 DEF A

\* A later round leaves from where the one before arrived.
LEMMA LaterRound ==
  ASSUME NEW g, IsGraph(g), Closed(g), NEW R,
         NEW p, IsPlan(p), ReadsBound(p), BindsOnce(p),
         NEW i \in 1 .. Len(p), p[i].kind = "hop", p[i].edge = NoAlias,
         NEW d \in Nat \ {0}
  PROVE  Level(g, R, p[i], d + 1, Arrived(g, R, p, i, d)) = Arrived(g, R, p, i, d + 1)
<1> DEFINE s == p[i]
           A == Arrived(g, R, p, i, d)
<1>0. /\ i \in 1 .. Len(p) + 1 /\ s.dir \in Direction /\ d + 1 # 1 /\ d + 1 # 0
      /\ d \in Nat
  BY PlanShape, HopScope
<1>1. ASSUME NEW b \in A, NEW e \in Exits(g, R, s, b[s.to])
      PROVE  Extend(b, s.to, Far(g.edge[e], s.dir), NoAlias, e)
               \in Arrived(g, R, p, i, d + 1)
  <2> DEFINE n == Far(g.edge[e], s.dir)
             c == Extend(b, s.to, n, NoAlias, e)
  <2>1. e \in DOMAIN g.edge /\ n \in DOMAIN g.node /\ n \in NodeId
    BY <1>0, ExitEnds, GraphShape
  <2>2. /\ b \in Shaped(g, p, i + 1) /\ HoldBefore(g, R, p, i, b)
        /\ Walk(g, R, s, b[s.from], b[s.to], d)
    BY <1>0 DEF Arrived, Away
  <2>3. /\ c \in Binding
        /\ \A a \in Alias : c[a] = IF a = s.to THEN n ELSE b[a]
    BY <2>1, <2>2, HopScope DEF Shaped, Binding, Extend
  <2>4. c \in Shaped(g, p, i + 1)
    BY <2>1, <2>2, <2>3, HopScope DEF Shaped
  <2>5. BoundBefore(p, i) \subseteq Alias
    BY <1>0, HopScope, AliasesInScope
  <2>6. \A a \in BoundBefore(p, i) : c[a] = b[a]
    BY <2>3, <2>5, HopScope
  <2>7. HoldBefore(g, R, p, i, c)
    BY <1>0, <2>2, <2>6, PrefixDepends
  <2>8. c[s.from] = b[s.from] /\ c[s.to] = n
    BY <2>3, <2>6, HopScope
  <2>9. Walk(g, R, s, b[s.from], n, d + 1)
    BY <1>0, <2>1, <2>2, WalkEnds, WalkOfOneMore
  <2>10. Away(g, R, s, c, d + 1)
    BY <2>8, <2>9 DEF Away
  <2> HIDE DEF c
  <2>11. c \in Arrived(g, R, p, i, d + 1)
    BY <1>0, <2>4, <2>7, <2>10 DEF Arrived
  <2>12. QED  BY <2>11 DEF c
<1>2. ASSUME NEW c \in Arrived(g, R, p, i, d + 1)
      PROVE  \E b \in A : \E e \in Exits(g, R, s, b[s.to]) :
               c = Extend(b, s.to, Far(g.edge[e], s.dir), NoAlias, e)
  <2>1. /\ c \in Shaped(g, p, i + 1) /\ HoldBefore(g, R, p, i, c)
        /\ Walk(g, R, s, c[s.from], c[s.to], d + 1)
    BY <1>0 DEF Arrived, Away
  <2>2. PICK y \in NodeId :
          /\ Walk(g, R, s, c[s.from], y, d)
          /\ \E e \in Exits(g, R, s, y) : Far(g.edge[e], s.dir) = c[s.to]
    <3>1. d + 1 \in Nat
      BY <1>0
    <3>2. c[s.from] \in NodeId /\ c[s.to] \in NodeId
      BY <2>1, <3>1, WalkEnds
    <3> DEFINE a == c[s.from]
               z == c[s.to]
    <3>3. Walk(g, R, s, a, z, d + 1) /\ a \in NodeId /\ z \in NodeId
      BY <2>1, <3>2
    <3> HIDE DEF a, z
    <3>4. \E y \in NodeId : /\ Walk(g, R, s, a, y, d)
                            /\ \E e \in Exits(g, R, s, y) : Far(g.edge[e], s.dir) = z
      BY <1>0, <3>3, WalkOfOneMore
    <3>5. QED  BY <3>4 DEF a, z
  <2>3. PICK e \in Exits(g, R, s, y) : Far(g.edge[e], s.dir) = c[s.to]
    BY <2>2
  <2>4. y \in DOMAIN g.node
    BY <1>0, <2>3, ExitEnds
  <2> DEFINE b == [a \in Alias |-> IF a = s.to THEN y ELSE c[a]]
  <2>5. /\ b \in Binding /\ c \in [Alias -> NodeId \cup EdgeId \cup {Unbound}]
        /\ \A a \in Alias : b[a] = IF a = s.to THEN y ELSE c[a]
    BY <2>1 DEF Shaped, Binding
  <2>6. c = Extend(b, s.to, c[s.to], NoAlias, e)
    BY <2>5, HopScope DEF Extend
  <2> HIDE DEF b
  <2>7. b \in Shaped(g, p, i + 1)
    BY <2>1, <2>4, <2>5, HopScope DEF Shaped
  <2>8. BoundBefore(p, i) \subseteq Alias
    BY <1>0, HopScope, AliasesInScope
  <2>9. \A a \in BoundBefore(p, i) : b[a] = c[a]
    BY <2>5, <2>8, HopScope
  <2>10. HoldBefore(g, R, p, i, b)
    BY <1>0, <2>1, <2>9, PrefixDepends
  <2>11. b[s.from] = c[s.from] /\ b[s.to] = y
    BY <2>5, <2>9, HopScope
  <2>12. b \in A
    BY <1>0, <2>2, <2>7, <2>10, <2>11 DEF Arrived, Away
  <2>13. QED  BY <2>3, <2>6, <2>11, <2>12
<1>3. Level(g, R, s, d + 1, A) =
        UNION {{Extend(b, s.to, Far(g.edge[e], s.dir), NoAlias, e) :
                  e \in Exits(g, R, s, b[s.to])} : b \in A}
  BY <1>0 DEF Level, Cursor, EdgeAlias
<1> HIDE DEF A
<1>4. Level(g, R, s, d + 1, A) = Arrived(g, R, p, i, d + 1)
  <2>1. \A c \in Arrived(g, R, p, i, d + 1) : c \in Level(g, R, s, d + 1, A)
    BY <1>2, <1>3
  <2>2. \A c \in Level(g, R, s, d + 1, A) : c \in Arrived(g, R, p, i, d + 1)
    BY <1>1, <1>3
  <2>3. QED  BY <2>1, <2>2
<1>5. QED  BY <1>4 DEF A

\* A hop that has no frontier left reaches nothing further.
LEMMA NoneFurther ==
  ASSUME NEW g, IsGraph(g), Closed(g), NEW R,
         NEW p, IsPlan(p), ReadsBound(p), BindsOnce(p),
         NEW i \in 1 .. Len(p), p[i].kind = "hop",
         NEW d \in Nat, Arrived(g, R, p, i, d) = {},
         NEW e \in Nat, d <= e
  PROVE  Arrived(g, R, p, i, e) = {}
<1> DEFINE s == p[i]
<1> SUFFICES ASSUME e # d, NEW c \in Arrived(g, R, p, i, e)
             PROVE  \E b : b \in Arrived(g, R, p, i, d)
  OBVIOUS
<1>0. i \in 1 .. Len(p) + 1 /\ s.dir \in Direction /\ e \in Nat \ {0} /\ d < e
  BY PlanShape, HopScope
<1>1. c \in Shaped(g, p, i + 1) /\ HoldBefore(g, R, p, i, c) /\ Away(g, R, s, c, e)
  BY <1>0 DEF Arrived
<1>2. CASE d = 0
  <2>1. PICK b \in Shaped(g, p, i) : \A a \in BoundBefore(p, i) : b[a] = c[a]
    BY <1>1, RetractsScope
  <2>2. HoldBefore(g, R, p, i, b)
    BY <1>0, <1>1, <2>1, PrefixDepends
  <2>3. QED  BY <1>2, <2>1, <2>2 DEF Arrived, Prefix
<1>3. CASE d # 0
  <2>1. s.edge = NoAlias /\ Walk(g, R, s, c[s.from], c[s.to], e)
    BY <1>0, <1>1, <1>3 DEF Away
  <2>2. PICK w \in [0 .. e -> NodeId] :
          /\ w[0] = c[s.from] /\ w[e] = c[s.to]
          /\ \A j \in 0 .. e - 1 :
               \E x \in Exits(g, R, s, w[j]) : Far(g.edge[x], s.dir) = w[j + 1]
    BY <2>1 DEF Walk
  <2>3. d \in 0 .. e - 1 /\ d \in 0 .. e
    BY <1>0
  <2>4. Walk(g, R, s, c[s.from], w[d], d)
    BY <2>2, <2>3, WalkBegins
  <2>5. w[d] \in DOMAIN g.node /\ w[d] \in NodeId
    BY <1>0, <2>2, <2>3, ExitEnds
  <2> DEFINE b == [a \in Alias |-> IF a = s.to THEN w[d] ELSE c[a]]
  <2>6. b \in Binding /\ \A a \in Alias : b[a] = IF a = s.to THEN w[d] ELSE c[a]
    BY <1>1, <2>5 DEF Shaped, Binding
  <2> HIDE DEF b
  <2>7. b \in Shaped(g, p, i + 1)
    BY <1>1, <2>5, <2>6, HopScope DEF Shaped
  <2>8. BoundBefore(p, i) \subseteq Alias
    BY <1>0, HopScope, AliasesInScope
  <2>9. \A a \in BoundBefore(p, i) : b[a] = c[a]
    BY <2>6, <2>8, HopScope
  <2>10. HoldBefore(g, R, p, i, b)
    BY <1>0, <1>1, <2>9, PrefixDepends
  <2>11. b[s.from] = c[s.from] /\ b[s.to] = w[d]
    BY <2>6, <2>9, HopScope
  <2>12. b \in Arrived(g, R, p, i, d)
    BY <1>3, <2>1, <2>4, <2>7, <2>10, <2>11 DEF Arrived, Away
  <2>13. QED  BY <2>12
<1>4. QED  BY <1>2, <1>3

----------------------------------------------------------------------------
(* What a step makes of the answer of the steps before it.                 *)

LEMMA PrefixGrows ==
  ASSUME NEW g, NEW R, NEW p, IsPlan(p), NEW i \in 1 .. Len(p), NEW b
  PROVE  HoldBefore(g, R, p, i + 1, b) <=>
           HoldBefore(g, R, p, i, b) /\ StepHolds(g, R, p[i], b)
<1>1. 1 .. (i + 1) - 1 = (1 .. i - 1) \cup {i}
  BY PlanShape
<1>2. QED  BY <1>1 DEF HoldBefore

LEMMA StartAnswers ==
  ASSUME NEW g, IsGraph(g), NEW R, NEW p, IsPlan(p)
  PROVE  Starts(g, R, p[1]) = Prefix(g, R, p, 2)
<1> DEFINE s == p[1]
<1>1. 1 \in 1 .. Len(p) /\ s \in StartStep \cup AllStep
  BY PlanShape
<1>2. s.kind \in {"start", "all"} /\ s.to \in Alias
  BY <1>1 DEF StartStep, AllStep
<1>3. 1 .. 2 - 1 = {1}
  OBVIOUS
<1>4. {k \in 1 .. 2 - 1 : p[k].kind # "anti"} = {1}
      /\ {k \in 1 .. 2 - 1 : p[k].kind = "hop"} = {}
  BY <1>2, <1>3
<1>5. NodesBefore(p, 2) = {s.to} /\ EdgesBefore(p, 2) = {}
  BY <1>4 DEF NodesBefore, EdgesBefore
<1>6. \A b : HoldBefore(g, R, p, 2, b) <=> StepHolds(g, R, s, b)
  BY <1>3 DEF HoldBefore
<1>7. ASSUME NEW n \in DOMAIN g.node \cap R, Selects(g, s, n)
      PROVE  FromNode(s.to, n) \in Prefix(g, R, p, 2)
  <2> DEFINE b == FromNode(s.to, n)
  <2>1. n \in NodeId
    BY GraphShape
  <2>2. b \in Binding /\ \A a \in Alias : b[a] = IF a = s.to THEN n ELSE Unbound
    BY <2>1 DEF FromNode, Binding
  <2> HIDE DEF b
  <2>3. b \in Shaped(g, p, 2)
    BY <1>5, <1>7, <2>2 DEF Shaped
  <2>4. StepHolds(g, R, s, b)
    BY <1>2, <1>7, <2>2 DEF StepHolds
  <2>5. b \in Prefix(g, R, p, 2)
    BY <1>6, <2>3, <2>4 DEF Prefix
  <2>6. QED  BY <2>5 DEF b
<1>8. ASSUME NEW b \in Prefix(g, R, p, 2)
      PROVE  \E n \in DOMAIN g.node \cap R : Selects(g, s, n) /\ b = FromNode(s.to, n)
  <2>1. b[s.to] \in DOMAIN g.node \cap R /\ Selects(g, s, b[s.to])
    BY <1>2, <1>6 DEF Prefix, StepHolds
  <2>2. b \in Binding /\ \A a \in Alias : a # s.to => b[a] = Unbound
    BY <1>5 DEF Prefix, Shaped
  <2>3. b = FromNode(s.to, b[s.to])
    BY <1>2, <2>2 DEF FromNode, Binding
  <2>4. QED  BY <2>1, <2>3
<1>9. \A b : b \in Starts(g, R, s) <=>
               \E n \in DOMAIN g.node \cap R : Selects(g, s, n) /\ b = FromNode(s.to, n)
  BY DEF Starts
<1>10. \A b : b \in Starts(g, R, s) <=> b \in Prefix(g, R, p, 2)
  BY <1>7, <1>8, <1>9
<1>11. QED  BY <1>10

LEMMA AntiAnswers ==
  ASSUME NEW g, NEW R, NEW p, IsPlan(p), NEW i \in 1 .. Len(p), p[i].kind = "anti"
  PROVE  {b \in Prefix(g, R, p, i) : NoSuchEdge(g, R, p[i], b)} = Prefix(g, R, p, i + 1)
<1>1. Shaped(g, p, i + 1) = Shaped(g, p, i)
  BY ScopeGrows DEF Shaped
<1>2. \A b : StepHolds(g, R, p[i], b) <=> NoSuchEdge(g, R, p[i], b)
  BY DEF StepHolds
<1>3. \A b : HoldBefore(g, R, p, i + 1, b) <=>
               HoldBefore(g, R, p, i, b) /\ NoSuchEdge(g, R, p[i], b)
  BY <1>2, PrefixGrows
<1>4. QED  BY <1>1, <1>3 DEF Prefix

\* A hop that is over and whose filters were applied.
LEMMA HopAnswers ==
  ASSUME NEW g, NEW R, NEW p, IsPlan(p), NEW i \in 1 .. Len(p), p[i].kind = "hop"
  PROVE  {b \in Collected(g, R, p, i, p[i].max) :
            p[i].filters = {} \/ Passes(g, R, p[i], b)} = Prefix(g, R, p, i + 1)
<1> DEFINE s == p[i]
<1>1. s \in HopStep /\ s.max \in Nat /\ s.min \in Nat /\ (s.edge # NoAlias => s.max = 1)
  BY PlanShape DEF HopStep
<1>2. ASSUME NEW b
      PROVE  StepHolds(g, R, s, b) <=>
               /\ \E d \in 1 .. s.max : d >= s.min /\ Away(g, R, s, b, d)
               /\ s.filters = {} \/ Passes(g, R, s, b)
  <2>1. CASE s.edge = NoAlias
    BY <2>1 DEF StepHolds, Away
  <2>2. CASE s.edge # NoAlias
    <3>1. 1 .. s.max = {1} /\ s.max = 1
      BY <1>1, <2>2
    <3>2. QED  BY <1>1, <2>2, <3>1 DEF StepHolds, Away
  <2>3. QED  BY <2>1, <2>2
<1>3. ASSUME NEW b
      PROVE  b \in Collected(g, R, p, i, s.max) <=>
               /\ b \in Shaped(g, p, i + 1) /\ HoldBefore(g, R, p, i, b)
               /\ \E d \in 1 .. s.max : d >= s.min /\ Away(g, R, s, b, d)
  <2>1. \A d \in 1 .. s.max :
          b \in Arrived(g, R, p, i, d) <=>
            b \in Shaped(g, p, i + 1) /\ HoldBefore(g, R, p, i, b) /\ Away(g, R, s, b, d)
    BY <1>1 DEF Arrived
  <2>2. b \in Collected(g, R, p, i, s.max) <=>
          \E d \in 1 .. s.max : d >= s.min /\ b \in Arrived(g, R, p, i, d)
    BY DEF Collected
  <2>3. QED  BY <2>1, <2>2
<1>4. ASSUME NEW b
      PROVE  b \in Prefix(g, R, p, i + 1) <=>
               /\ b \in Shaped(g, p, i + 1) /\ HoldBefore(g, R, p, i, b)
               /\ StepHolds(g, R, s, b)
  BY PrefixGrows DEF Prefix
<1>5. QED  BY <1>2, <1>3, <1>4

----------------------------------------------------------------------------
(* The invariant.                                                          *)

\* The plan and the graph of a search in a state of the invariant.
LEMMA SearchTypes ==
  ASSUME ScopedPlans, ClosedGraphs, SearchInv
  PROVE  /\ IsPlan(plan) /\ ReadsBound(plan) /\ BindsOnce(plan)
         /\ IsGraph(graph) /\ Closed(graph)
         /\ Len(plan) \in Nat \ {0}
         /\ phase \in {"hop", "filter", "anti"} => pos \in 2 .. Len(plan)
         /\ phase \in {"hop", "filter"} => step.kind = "hop" /\ step \in HopStep
BY PlanShape DEF ScopedPlans, ClosedGraphs, SearchInv, step

\* The next step begins with the answer of the steps before it.
LEMMA EnterInv ==
  ASSUME ScopedPlans, ClosedGraphs, SearchInv, NEW i \in 2 .. Len(plan) + 1,
         NEW B, B = Prefix(graph, reach, plan, i), Enter(i, B)
  PROVE  SearchInv'
<1>1. /\ plan' = plan /\ graph' = graph /\ reach' = reach
      /\ pos' = i /\ depth' = 1 /\ current' = B /\ accepted' = {}
      /\ phase' = IF i > Len(plan) THEN "done" ELSE plan[i].kind
  BY DEF Enter
<1>2. /\ IsPlan(plan) /\ BindsOnce(plan) /\ IsGraph(graph) /\ Len(plan) \in Nat
      /\ plan \in Plans /\ graph \in Graphs /\ reach \subseteq NodeId
  BY SearchTypes DEF SearchInv
<1>3. CASE i > Len(plan)
  <2>1. i = Len(plan) + 1 /\ phase' = "done"
    BY <1>1, <1>2, <1>3
  <2>2. B = Answer(graph, reach, plan)
    BY <1>2, <2>1, AnswerIsPrefix
  <2>3. QED  BY <1>1, <1>2, <2>1, <2>2 DEF SearchInv
<1>4. CASE i \in 2 .. Len(plan)
  <2>1. /\ plan[i].kind \in {"hop", "anti"} /\ phase' = plan[i].kind
        /\ plan[i].kind = "hop" => plan[i] \in HopStep
    BY <1>1, <1>2, <1>4, PlanShape
  <2>2. step' = plan[i]
    BY <1>1 DEF step
  <2>3. CASE plan[i].kind = "anti"
    BY <1>1, <1>2, <1>4, <2>1, <2>2, <2>3 DEF SearchInv
  <2>4. CASE plan[i].kind = "hop"
    <3>1. plan[i].max \in Nat /\ 1 \in 1 .. plan[i].max + 1
      BY <2>1, <2>4 DEF HopStep
    <3>2. Arrived(graph, reach, plan, i, 1 - 1) = B
      BY DEF Arrived
    <3>3. Collected(graph, reach, plan, i, 1 - 1) = {}
      <4>1. 1 .. 1 - 1 = {}
        OBVIOUS
      <4>2. QED  BY <4>1 DEF Collected
    <3>4. QED
      BY <1>1, <1>2, <1>4, <2>1, <2>2, <2>4, <3>1, <3>2, <3>3 DEF SearchInv
  <2>5. QED  BY <2>1, <2>3, <2>4
<1>5. QED  BY <1>2, <1>3, <1>4

LEMMA RoundInv ==
  ASSUME ScopedPlans, ClosedGraphs, SearchInv, Round
  PROVE  SearchInv'
<1> DEFINE A(d) == Arrived(graph, reach, plan, pos, d)
           C(d) == Collected(graph, reach, plan, pos, d)
<1>1. /\ plan' = plan /\ graph' = graph /\ reach' = reach
      /\ pos' = pos /\ phase = "hop" /\ phase' = "hop" /\ depth' = depth + 1
      /\ depth <= step.max
      /\ current' = Level(graph, reach, step, depth, current)
      /\ accepted' = IF depth >= step.min THEN accepted \cup current' ELSE accepted
      /\ step' = step
  BY DEF Round, step
<1>2. /\ IsPlan(plan) /\ ReadsBound(plan) /\ BindsOnce(plan)
      /\ IsGraph(graph) /\ Closed(graph) /\ pos \in 2 .. Len(plan) /\ Len(plan) \in Nat
      /\ step.kind = "hop" /\ step \in HopStep
  BY <1>1, SearchTypes
<1>3. /\ depth \in 1 .. step.max + 1 /\ current = A(depth - 1) /\ accepted = C(depth - 1)
      /\ plan \in Plans /\ graph \in Graphs /\ reach \subseteq NodeId
  BY <1>1 DEF SearchInv
<1>4. /\ step.max \in Nat /\ step.min \in Nat /\ depth \in Nat \ {0}
      /\ depth + 1 \in 1 .. step.max + 1 /\ (depth + 1) - 1 = depth
      /\ pos \in 1 .. Len(plan) /\ step = plan[pos]
  BY <1>1, <1>2, <1>3 DEF HopStep, step
<1>5. current' = A(depth)
  <2>1. CASE depth = 1
    <3>1. current = Prefix(graph, reach, plan, pos)
      BY <1>3, <2>1 DEF Arrived
    <3>2. QED  BY <1>1, <1>2, <1>4, <2>1, <3>1, FirstRound
  <2>2. CASE depth # 1
    <3>1. depth - 1 \in Nat \ {0} /\ (depth - 1) + 1 = depth
      BY <1>4, <2>2
    <3>2. step.edge = NoAlias
      BY <1>1, <1>2, <1>4, <2>2, PlanShape
    <3>3. Level(graph, reach, step, (depth - 1) + 1, A(depth - 1)) = A((depth - 1) + 1)
      BY <1>2, <1>4, <3>1, <3>2, LaterRound
    <3>4. QED  BY <1>1, <1>3, <3>1, <3>3
  <2>3. QED  BY <2>1, <2>2
<1>6. accepted' = C(depth)
  <2>1. 1 .. depth = (1 .. depth - 1) \cup {depth}
    BY <1>4
  <2>2. C(depth) = C(depth - 1) \cup IF depth >= step.min THEN A(depth) ELSE {}
    BY <1>4, <2>1 DEF Collected
  <2> HIDE DEF A, C
  <2>3. QED  BY <1>1, <1>3, <1>5, <2>2
<1>7. QED
  BY <1>1, <1>2, <1>3, <1>4, <1>5, <1>6 DEF SearchInv

\* A hop that is over has collected what all its rounds could.
LEMMA OverCollected ==
  ASSUME ScopedPlans, ClosedGraphs, SearchInv, HopOver
  PROVE  accepted = Collected(graph, reach, plan, pos, step.max)
<1> DEFINE A(d) == Arrived(graph, reach, plan, pos, d)
           C(d) == Collected(graph, reach, plan, pos, d)
<1>1. phase = "hop" /\ (depth > step.max \/ current = {})
  BY DEF HopOver
<1>2. /\ IsPlan(plan) /\ ReadsBound(plan) /\ BindsOnce(plan)
      /\ IsGraph(graph) /\ Closed(graph) /\ pos \in 1 .. Len(plan)
      /\ step.kind = "hop" /\ step.max \in Nat /\ step = plan[pos]
  BY <1>1, SearchTypes DEF HopStep, step
<1>3. depth \in 1 .. step.max + 1 /\ current = A(depth - 1) /\ accepted = C(depth - 1)
  BY <1>1 DEF SearchInv
<1>4. CASE depth > step.max
  <2>1. depth - 1 = step.max
    BY <1>2, <1>3, <1>4
  <2>2. QED  BY <1>3, <2>1
<1>5. CASE current = {}
  <2>1. \A d \in 1 .. step.max : d >= depth => A(d) = {}
    BY <1>2, <1>3, <1>5, NoneFurther
  <2>2. 1 .. depth - 1 \subseteq 1 .. step.max
    BY <1>2, <1>3
  <2>3. \A d \in 1 .. step.max : d < depth => d \in 1 .. depth - 1
    BY <1>2, <1>3
  <2> HIDE DEF A
  <2>4. C(step.max) = C(depth - 1)
    BY <1>2, <1>3, <2>1, <2>2, <2>3 DEF Collected, A
  <2>5. QED  BY <1>3, <2>4
<1>6. QED  BY <1>1, <1>4, <1>5

LEMMA PassedArePrefix ==
  ASSUME IsPlan(plan), pos \in 1 .. Len(plan), step.kind = "hop"
  PROVE  {b \in Collected(graph, reach, plan, pos, step.max) :
            step.filters = {} \/ Passes(graph, reach, step, b)} =
           Prefix(graph, reach, plan, pos + 1)
BY HopAnswers DEF step

LEMMA InitInv == Init => SearchInv
BY DEF Init, SearchInv

LEMMA NextInv ==
  ASSUME ScopedPlans, ClosedGraphs, SearchInv, [Next]_vars
  PROVE  SearchInv'
<1>1. /\ IsPlan(plan) /\ IsGraph(graph) /\ Len(plan) \in Nat \ {0} /\ plan[pos] = step
      /\ phase \in {"hop", "filter", "anti"} =>
           /\ pos \in 1 .. Len(plan) /\ pos + 1 \in 2 .. Len(plan) + 1
           /\ step.kind = IF phase = "anti" THEN "anti" ELSE "hop"
  BY SearchTypes DEF SearchInv, step
<1>2. CASE ResolveStep
  <2>1. phase = "resolve" /\ Enter(2, Starts(graph, reach, plan[1]))
    BY <1>2 DEF ResolveStep, SearchInv, step
  <2>2. Starts(graph, reach, plan[1]) = Prefix(graph, reach, plan, 2)
    BY <1>1, StartAnswers
  <2>3. 2 \in 2 .. Len(plan) + 1
    BY <1>1
  <2>4. QED  BY <2>1, <2>2, <2>3, EnterInv
<1>3. CASE Round
  BY <1>3, RoundInv
<1>4. CASE EndHop
  <2>1. phase = "hop" /\ HopOver /\ Enter(pos + 1, accepted)
        /\ (step.filters = {} \/ accepted = {})
    BY <1>4 DEF EndHop, HopOver
  <2>2. accepted = Collected(graph, reach, plan, pos, step.max)
    BY <2>1, OverCollected
  <2>3. accepted = {b \in accepted : step.filters = {} \/ Passes(graph, reach, step, b)}
    BY <2>1
  <2>4. {b \in accepted : step.filters = {} \/ Passes(graph, reach, step, b)} =
          Prefix(graph, reach, plan, pos + 1)
    <3>1. step.kind = "hop" /\ pos \in 1 .. Len(plan) /\ IsPlan(plan)
      BY <1>1, <2>1
    <3>2. QED  BY <2>2, <3>1, PassedArePrefix
  <2>5. accepted = Prefix(graph, reach, plan, pos + 1)
    BY <2>3, <2>4
  <2>6. QED  BY <1>1, <2>1, <2>5, EnterInv
<1>5. CASE BeginFilter
  <2>1. /\ phase = "hop" /\ HopOver /\ phase' = "filter" /\ current' = accepted
        /\ step.filters # {} /\ UNCHANGED <<plan, graph, reach, pos, depth>>
    BY <1>5 DEF BeginFilter, HopOver
  <2>2. accepted = Collected(graph, reach, plan, pos, step.max)
    BY <2>1, OverCollected
  <2>3. step' = step
    BY <2>1 DEF step
  <2>4. QED  BY <2>1, <2>2, <2>3 DEF SearchInv
<1>6. CASE FilterStep
  <2>1. /\ phase = "filter" /\ step.filters # {}
        /\ current = Collected(graph, reach, plan, pos, step.max)
        /\ Enter(pos + 1, {b \in current : Passes(graph, reach, step, b)})
    BY <1>6 DEF FilterStep, SearchInv
  <2>2. {b \in current : Passes(graph, reach, step, b)} =
          Prefix(graph, reach, plan, pos + 1)
    <3>1. step.kind = "hop" /\ pos \in 1 .. Len(plan) /\ IsPlan(plan)
      BY <1>1, <2>1
    <3>2. {b \in current : step.filters = {} \/ Passes(graph, reach, step, b)} =
            Prefix(graph, reach, plan, pos + 1)
      BY <2>1, <3>1, PassedArePrefix
    <3>3. QED  BY <2>1, <3>2
  <2>3. QED  BY <1>1, <2>1, <2>2, EnterInv
<1>7. CASE AntiJoin
  <2>1. /\ phase = "anti" /\ current = Prefix(graph, reach, plan, pos)
        /\ Enter(pos + 1, {b \in current : NoSuchEdge(graph, reach, step, b)})
    BY <1>7 DEF AntiJoin, SearchInv
  <2>2. {b \in current : NoSuchEdge(graph, reach, step, b)} =
          Prefix(graph, reach, plan, pos + 1)
    BY <1>1, <2>1, AntiAnswers
  <2>3. QED  BY <1>1, <2>1, <2>2, EnterInv
<1>8. CASE Fail
  BY <1>8 DEF Fail, SearchInv
<1>9. CASE UNCHANGED vars
  BY <1>9 DEF vars, SearchInv, step
<1>10. QED
  BY <1>2, <1>3, <1>4, <1>5, <1>6, <1>7, <1>8, <1>9 DEF Next

\* A search that finishes has found exactly the bindings that satisfy every
\* step of its plan: walks of every length between the bounds, none that a
\* frontier emptied too early would have missed, and nothing else.
THEOREM SearchIsExact ==
  ScopedPlans /\ ClosedGraphs =>
    (Spec => [](phase = "done" => current = Answer(graph, reach, plan)))
<1> SUFFICES ASSUME ScopedPlans, ClosedGraphs
             PROVE  Spec => [](phase = "done" => current = Answer(graph, reach, plan))
  OBVIOUS
<1>1. Init => SearchInv
  BY InitInv
<1>2. SearchInv /\ [Next]_vars => SearchInv'
  BY NextInv
<1>3. SearchInv => (phase = "done" => current = Answer(graph, reach, plan))
  BY DEF SearchInv
<1>4. QED  BY <1>1, <1>2, <1>3, PTL DEF Spec

=============================================================================
