------------------------------ MODULE Planner ------------------------------
(***************************************************************************)
(* From a query to the plan the executor runs: what SchemaValidator lets   *)
(* through, what NaivePlanner makes of it, and execute_query calling the   *)
(* one after the other.  How the query was read is left open here:         *)
(* Planning reads it from a text.                                          *)
(***************************************************************************)
EXTENDS PlanSemantics, Queries

CONSTANTS
  NodeDef,                \* the schema: label -> property -> scalar type
  EdgeDef,                \* edge type -> its two labels and its properties
  Unindexable,            \* the literals without a PropertyKey: the floats
  Graphs                  \* the graphs a plan is judged on

ScalarType == {"ordered", "unordered", "composite"}

ASSUME SchemaAssumption ==
  /\ DOMAIN NodeDef \subseteq Label
  /\ DOMAIN EdgeDef \subseteq EdgeType
  /\ \A l \in DOMAIN NodeDef : Range(NodeDef[l]) \subseteq ScalarType
  /\ \A t \in DOMAIN EdgeDef : {EdgeDef[t].from, EdgeDef[t].to} \subseteq DOMAIN NodeDef

VARIABLES query, stage, plan
plannerVars == <<query, stage, plan>>

----------------------------------------------------------------------------
(* Validation.  The scope of a pattern: the aliases of its nodes, and the  *)
(* last label or type given to each alias.                                 *)

Bound(p) == {p.nodes[i].alias : i \in DOMAIN p.nodes}

LabelOf(p, a) ==
  LET at == {i \in DOMAIN p.nodes : p.nodes[i].alias = a /\ p.nodes[i].label # AnyLabel}
  IN IF at = {} THEN AnyLabel ELSE p.nodes[Max(at)].label

TypeOf(p, a) ==
  LET at == {i \in DOMAIN p.edges : p.edges[i].alias = a /\ p.edges[i].type # AnyType}
  IN IF at = {} THEN AnyType ELSE p.edges[Max(at)].type

Compatible(type, op) ==
  IF op \in {"eq", "ne"} THEN type # "composite" ELSE type = "ordered"

PropertyOk(props, k, op) == k \in DOMAIN props /\ Compatible(props[k], op)

\* A label or type the schema lacks has been reported where it was written.
RefOk(p, a, k, op) ==
  LET l == LabelOf(p, a)
      t == TypeOf(p, a)
  IN \/ l # AnyLabel /\ (l \in DOMAIN NodeDef => PropertyOk(NodeDef[l], k, op))
     \/ /\ l = AnyLabel /\ t # AnyType
        /\ t \in DOMAIN EdgeDef => PropertyOk(EdgeDef[t].props, k, op)

\* Inline filters of a node without a label go unchecked.
NodeOk(n) ==
  n.label # AnyLabel =>
    /\ n.label \in DOMAIN NodeDef
    /\ \A f \in Range(n.inline) : PropertyOk(NodeDef[n.label], f.prop, f.op)

SingleHop(e) == e.min = 1 /\ e.max = 1

EdgeOk(e) ==
  /\ e.type # AnyType => e.type \in DOMAIN EdgeDef
  /\ e.alias # NoAlias => SingleHop(e)

ComparisonOk(p, c) ==
  \/ c.kind = "property" /\ RefOk(p, c.alias, c.filter.prop, c.filter.op)
  \/ c.kind = "aliases" /\ {c.left, c.right} \subseteq Bound(p)
  \/ /\ c.kind = "properties"
     /\ RefOk(p, c.left.alias, c.left.prop, c.op)
     /\ RefOk(p, c.right.alias, c.right.prop, "eq")

\* Mutant: an anchor need not be bound by the outer pattern.
AnchoredAnywhere(p, n) == n.label = AnyLabel /\ n.inline = <<>>

Anchored(p, n) == n.alias \in Bound(p) /\ n.label = AnyLabel /\ n.inline = <<>>

AbsenceOk(p, c) ==
  /\ c.kind = "absent"
  /\ Len(c.edges) = 1
  /\ \A n \in Range(c.nodes) : Anchored(p, n)
  /\ EdgeOk(c.edges[1]) /\ SingleHop(c.edges[1]) /\ c.edges[1].dir = "out"
  /\ \A w \in Range(c.where) :
       ComparisonOk([nodes |-> p.nodes, edges |-> p.edges \o c.edges], w)

ReturnOk(q, r) ==
  \/ r.prop = NoProperty /\ (r.alias \in Bound(q) \/ TypeOf(q, r.alias) # AnyType)
  \/ r.prop # NoProperty /\ RefOk(q, r.alias, r.prop, "eq")

Valid(q) ==
  /\ \A n \in Range(q.nodes) : NodeOk(n)
  /\ \A e \in Range(q.edges) : EdgeOk(e)
  /\ \A c \in Range(q.where) : ComparisonOk(q, c) \/ AbsenceOk(q, c)
  /\ \A r \in Range(q.returns) : ReturnOk(q, r)
  /\ q.order # NoOrder => RefOk(q, q.order.alias, q.order.prop, "eq")

----------------------------------------------------------------------------
(* Planning.                                                               *)

\* The conditions of WHERE on the properties of the alias a.
OnAlias(q, a) == {i \in DOMAIN q.where : q.where[i].kind = "property" /\ q.where[i].alias = a}
FiltersOn(q, a) == {q.where[i].filter : i \in OnAlias(q, a)}

\* The filters the first step may take its lookup key from.
StartFilters(q) ==
  IF q.nodes[1].inline # <<>> THEN {q.nodes[1].inline[1]}
  ELSE FiltersOn(q, q.nodes[1].alias)

\* The shapes the planner panics on: an unlabelled start, a second WHERE
\* condition on it, and a condition that is no lookup key.
Panics(q) ==
  \/ q.nodes[1].label = AnyLabel
  \/ /\ q.nodes[1].inline = <<>>
     /\ \E i, j \in OnAlias(q, q.nodes[1].alias) : i # j
  \/ \E f \in StartFilters(q) : f.op # "eq" \/ f.val \in Unindexable

FirstStep(q) ==
  LET to == q.nodes[1].alias
      l  == q.nodes[1].label
      fs == StartFilters(q)
  IN IF fs = {} THEN [kind |-> "all", to |-> to, label |-> l]
     ELSE LET f == CHOOSE f \in fs : TRUE IN
          [kind |-> "start", to |-> to, label |-> l, prop |-> f.prop, key |-> f.val]

\* Mutant: a hop is given the conditions of the first node.
HopFiltersOfStart(q, n) == FiltersOn(q, q.nodes[1].alias)

\* Conditions on a target without a label have no table to be read from.
HopFilters(q, n) == IF n.label = AnyLabel THEN {} ELSE FiltersOn(q, n.alias)

HopTo(q, i) ==
  LET e == q.edges[i] IN
  [kind |-> "hop", from |-> q.nodes[i].alias, to |-> q.nodes[i + 1].alias,
   type |-> e.type, dir |-> e.dir, min |-> e.min, max |-> e.max,
   filters |-> HopFilters(q, q.nodes[i + 1]), edge |-> e.alias]

\* Mutant: the operator is negated instead of turned round.
FlipOpNot(op) ==
  CASE op = "lt" -> "gte" [] op = "gt" -> "lte"
    [] op = "lte" -> "gt" [] op = "gte" -> "lt"
    [] OTHER -> op

FlipOp(op) ==
  CASE op = "lt" -> "gt"   [] op = "gt" -> "lt"
    [] op = "lte" -> "gte" [] op = "gte" -> "lte"
    [] OTHER -> op

\* A condition of a NOT EXISTS on a property of its own edge.
InnerConditions(c) ==
  LET a == c.edges[1].alias IN
  {w.filter : w \in {v \in Range(c.where) : v.kind = "property" /\ v.alias = a}}

\* One that compares such a property with one of another alias, read with
\* the edge's own property on the left.
OuterConditions(c) ==
  LET a  == c.edges[1].alias
      ws == {w \in Range(c.where) : w.kind = "properties"}
  IN {[prop |-> w.left.prop, op |-> w.op,
       alias |-> w.right.alias, outer |-> w.right.prop] :
        w \in {v \in ws : v.left.alias = a}} \cup
     {[prop |-> w.right.prop, op |-> FlipOp(w.op),
       alias |-> w.left.alias, outer |-> w.left.prop] :
        w \in {v \in ws : v.left.alias # a /\ v.right.alias = a}}

AntiJoin(c) ==
  [kind |-> "anti", from |-> c.nodes[1].alias, to |-> c.nodes[2].alias,
   type |-> c.edges[1].type, dir |-> c.edges[1].dir,
   literal |-> InnerConditions(c), outer |-> OuterConditions(c)]

\* The NOT EXISTS of a query, in the order they are written in.
AbsencesAt(q) == {i \in DOMAIN q.where : q.where[i].kind = "absent"}
PlaceOf(q, i) == Cardinality({j \in AbsencesAt(q) : j <= i})
Absences(q) ==
  [n \in 1 .. Cardinality(AbsencesAt(q)) |->
     q.where[CHOOSE i \in AbsencesAt(q) : PlaceOf(q, i) = n]]

Plan(q) ==
  <<FirstStep(q)>>
    \o [i \in 1 .. Len(q.edges) |-> HopTo(q, i)]
    \o [i \in 1 .. Len(Absences(q)) |-> AntiJoin(Absences(q)[i])]

----------------------------------------------------------------------------
(* execute_query up to the first RPC.                                      *)

PlannerInit == query = NoQuery /\ stage = "received" /\ plan = <<>>

\* A text was read, or was not: any query may come out of it.
Receive ==
  /\ stage = "received"
  /\ \/ stage' \in {"refused", "panicked"} /\ UNCHANGED query
     \/ stage' = "parsed" /\ IsQuery(query') /\ HasValues(query')
  /\ UNCHANGED plan

Validate ==
  /\ stage = "parsed"
  /\ stage' = IF Valid(query) THEN "validated" ELSE "rejected"
  /\ UNCHANGED <<query, plan>>

MakePlan ==
  /\ stage = "validated" /\ ~ Panics(query)
  /\ stage' = "planned" /\ plan' = Plan(query)
  /\ UNCHANGED query

Panic ==
  /\ stage = "validated" /\ Panics(query)
  /\ stage' = "panicked"
  /\ UNCHANGED <<query, plan>>

PlannerNext == Receive \/ Validate \/ MakePlan \/ Panic

PlannerSpec == PlannerInit /\ [][PlannerNext]_plannerVars

----------------------------------------------------------------------------
(* What a query means, stated on the query and without a plan: the rows    *)
(* for its aliases that fit every pattern and every condition.             *)

EdgeAliasesOf(q) == {e.alias : e \in Range(q.edges)} \ {NoAlias}

RowsFor(g, q) ==
  {[a \in Alias |-> IF a \in Bound(q) THEN nb[a]
                    ELSE IF a \in EdgeAliasesOf(q) THEN eb[a] ELSE Unbound] :
     nb \in [Bound(q) -> DOMAIN g.node],
     eb \in [EdgeAliasesOf(q) -> DOMAIN g.edge]}

NodeFits(g, b, n) ==
  LET row == g.node[b[n.alias]] IN
  /\ n.label \in {AnyLabel, row.label}
  /\ AllHold(row.props, Range(n.inline))

\* The edge of an alias, or a walk of the lengths the pattern allows.
EdgeFits(g, b, from, e, to) ==
  IF e.alias # NoAlias
  THEN b[e.alias] \in Exits(g, NodeId, e, b[from])
       /\ Far(g.edge[b[e.alias]], e.dir) = b[to]
  ELSE \E d \in 1 .. e.max : d >= e.min /\ Walk(g, NodeId, e, b[from], b[to], d)

PatternFits(g, b, p) ==
  /\ \A n \in Range(p.nodes) : NodeFits(g, b, n)
  /\ \A i \in DOMAIN p.edges :
       EdgeFits(g, b, p.nodes[i].alias, p.edges[i], p.nodes[i + 1].alias)

ComparisonHolds(g, b, c) ==
  CASE c.kind = "property" -> Holds(PropsOf(g, b[c.alias]), c.filter)
    [] c.kind = "aliases" -> (b[c.left] = b[c.right]) <=> (c.op = "eq")
    [] c.kind = "properties" ->
         LET v == PropsOf(g, b[c.right.alias])[c.right.prop] IN
         /\ v \in Value
         /\ Holds(PropsOf(g, b[c.left.alias]),
                  [prop |-> c.left.prop, op |-> c.op, val |-> v])

\* No edge makes the inner pattern and conditions true.  A row whose outer
\* properties have no value to compare with is not an answer either.
Outside(c) ==
  {r \in UNION {{w.left, w.right} : w \in {v \in Range(c.where) : v.kind = "properties"}} :
     r.alias # c.edges[1].alias}

AbsenceHolds(g, b, c) ==
  /\ \A r \in Outside(c) : PropsOf(g, b[r.alias])[r.prop] \in Value
  /\ ~ \E e \in DOMAIN g.edge :
       LET a  == c.edges[1].alias
           bb == IF a = NoAlias THEN b ELSE [b EXCEPT ![a] = e]
       IN /\ e \in Exits(g, NodeId, c.edges[1], b[c.nodes[1].alias])
          /\ g.edge[e].dst = b[c.nodes[2].alias]
          /\ \A w \in Range(c.where) : ComparisonHolds(g, bb, w)

Meaning(g, q) ==
  {b \in RowsFor(g, q) :
     /\ PatternFits(g, b, q)
     /\ \A c \in Range(q.where) :
          IF c.kind = "absent" THEN AbsenceHolds(g, b, c) ELSE ComparisonHolds(g, b, c)}

----------------------------------------------------------------------------
(* The queries a plan can be faithful to.                                  *)

\* One alias per pattern, and a start condition that has an index.
Sound(q) ==
  /\ \A i, j \in DOMAIN q.nodes : i # j => q.nodes[i].alias # q.nodes[j].alias
  /\ Bound(q) \cap EdgeAliasesOf(q) = {}
  /\ \A i, j \in DOMAIN q.edges :
       i # j => q.edges[i].alias = NoAlias \/ q.edges[i].alias # q.edges[j].alias
  /\ \A f \in StartFilters(q) : <<q.nodes[1].label, f.prop>> \in Indexed

\* Each inner condition of a NOT EXISTS is about its own edge, alone or
\* against one outer alias.
Correlated(c) ==
  \A w \in Range(c.where) :
    LET a == c.edges[1].alias IN
    \/ w.kind = "property" /\ w.alias = a
    \/ w.kind = "properties" /\ (w.left.alias = a) # (w.right.alias = a)

AbsencesCarried(q) == \A c \in Range(Absences(q)) : Correlated(c)

\* A property condition whose alias is a node with a label, on a start that
\* has no inline filter.
Carried(q, c) ==
  /\ c.kind = "property"
  /\ LabelOf(q, c.alias) # AnyLabel
  /\ c.alias = q.nodes[1].alias => q.nodes[1].inline = <<>>

\* The label of a hop's target is the one the schema gives that end.
Typed(q, i) ==
  LET e == q.edges[i] n == q.nodes[i + 1] IN
  \/ n.label = AnyLabel
  \/ /\ e.type # AnyType
     /\ n.label = (IF e.dir = "out" THEN EdgeDef[e.type].to ELSE EdgeDef[e.type].from)

FullyCarried(q) ==
  /\ AbsencesCarried(q)
  /\ Len(q.nodes[1].inline) <= 1
  /\ \A i \in DOMAIN q.edges : Typed(q, i) /\ q.nodes[i + 1].inline = <<>>
  /\ \A c \in Range(q.where) : c.kind = "absent" \/ Carried(q, c)

Conforms(g) ==
  /\ Closed(g)
  /\ \A e \in DOMAIN g.edge :
       LET row == g.edge[e] IN
       /\ g.node[row.src].label = EdgeDef[row.type].from
       /\ g.node[row.dst].label = EdgeDef[row.type].to

ASSUME GraphsAssumption == \A g \in Graphs : IsGraph(g) /\ Conforms(g)

----------------------------------------------------------------------------
(* Properties.                                                             *)

\* A NOT EXISTS that compares two properties of its own edge.
SelfComparing(c) ==
  \E w \in Range(c.where) :
    w.kind = "properties" /\ w.left.alias = c.edges[1].alias
                          /\ w.right.alias = c.edges[1].alias

\* A validated query that does not panic becomes a plan `execute` can run to
\* its end: no step reads an alias that no earlier step has bound, RETURN
\* names bound aliases, and a hop that binds its edge is a single hop; a
\* query without a repeated alias gives a plan that binds none twice
\* (execute's UnknownAlias errors, distributed_executor.rs:161-196).
PlansAreExecutable ==
  stage = "planned" =>
    /\ IsPlan(plan)
    /\ \A r \in Range(query.returns) : r.alias \in BoundBefore(plan, Len(plan) + 1)
    /\ (\A c \in Range(Absences(query)) : ~ SelfComparing(c)) =>
         ReadsBound(plan)
    /\ Sound(query) => BindsOnce(plan)

\* What the planner drops widens an answer and never narrows it: every row
\* the query means is an answer of its plan (plan and compile_anti_join).
PlanLosesNoRow ==
  stage = "planned" /\ Sound(query) /\ AbsencesCarried(query) =>
    \A g \in Graphs : Meaning(g, query) \subseteq Answer(g, NodeId, plan)

\* When every condition of the query has a place in a plan, the answers of
\* the plan are exactly the rows the query means.
PlanMeansQuery ==
  stage = "planned" /\ Sound(query) /\ FullyCarried(query) =>
    \A g \in Graphs : Meaning(g, query) = Answer(g, NodeId, plan)

\* The query with the inline filters of its hop targets left out.
WithoutTargetFilters(q) ==
  [q EXCEPT !.nodes = [i \in DOMAIN q.nodes |->
     IF i = 1 THEN q.nodes[1] ELSE [q.nodes[i] EXCEPT !.inline = <<>>]]]

\* planner.rs:10-20: a shape lowering cannot express panics "rather than
\* silently producing a wrong plan"; only comparisons between aliases or their
\* properties are dropped, and an inline filter is neither.  A query of which
\* everything but such filters on its hop targets has a place in a plan should
\* then be answered exactly.  By PlanMeansQuery nothing but a target's filter,
\* which the loop over the hops never reads (planner.rs:62-106), can break it.
TargetFiltersAreKept ==
  stage = "planned" /\ Sound(query) /\ FullyCarried(WithoutTargetFilters(query)) =>
    \A g \in Graphs : Meaning(g, query) = Answer(g, NodeId, plan)

=============================================================================
