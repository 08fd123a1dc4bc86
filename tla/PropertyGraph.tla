--------------------------- MODULE PropertyGraph ---------------------------
(***************************************************************************)
(* The vocabulary every other module shares: the rows an Iceberg scan      *)
(* yields, the steps of a query plan, the bindings that flow through them, *)
(* and the comparison of a stored property with a literal.                 *)
(*                                                                         *)
(* Names, labels and identifiers are uninterpreted values.  A stored       *)
(* property is an integer, Missing (the row has no such property) or       *)
(* Opaque (a list or null: no DSL literal denotes it, no RPC carries it).  *)
(***************************************************************************)
EXTENDS Integers, Sequences

CONSTANTS
  NodeId, EdgeId,         \* identifiers a table row can carry
  Label, EdgeType,        \* the schema's node labels and edge types
  Property, Value,        \* property names, and literals (integers)
  Missing, Opaque,        \* an absent property; a value without a literal
  Indexed,                \* the <<label, property>> pairs marked @indexed
  Alias, Unbound,         \* query aliases; an alias not bound yet
  AnyType, NoAlias        \* `edge_type: None` and `edge_alias: None`

ASSUME DataAssumption ==
  /\ Value \subseteq Int
  /\ NodeId \cap EdgeId = {}
  /\ Unbound \notin NodeId \cup EdgeId
  /\ Missing \notin Value /\ Opaque \notin Value
  /\ NoAlias \notin Alias /\ AnyType \notin EdgeType

----------------------------------------------------------------------------
(* Rows and graphs: what the node tables and the edge tables hold.  An id  *)
(* names one row, so the tables are functions from the ids they hold.      *)

Direction == {"out", "in"}

Props == [Property -> Value \cup {Missing, Opaque}]
NodeRow == [label : Label, props : Props]
EdgeRow == [type : EdgeType, src : NodeId, dst : NodeId, props : Props]

IsGraph(g) ==
  /\ DOMAIN g.node \subseteq NodeId
  /\ \A n \in DOMAIN g.node : g.node[n] \in NodeRow
  /\ DOMAIN g.edge \subseteq EdgeId
  /\ \A e \in DOMAIN g.edge : g.edge[e] \in EdgeRow

\* Every edge has both its endpoints in the node tables.
Closed(g) ==
  \A e \in DOMAIN g.edge : {g.edge[e].src, g.edge[e].dst} \subseteq DOMAIN g.node

\* The end a walk in direction dir leaves from, and the one it arrives at.
Near(row, dir) == IF dir = "out" THEN row.src ELSE row.dst
Far(row, dir)  == IF dir = "out" THEN row.dst ELSE row.src

----------------------------------------------------------------------------
(* Conditions on properties.                                               *)

Op == {"eq", "ne", "lt", "lte", "gt", "gte"}
Filter == [prop : Property, op : Op, val : Value]

\* evaluate_filter: an absent or incomparable value satisfies nothing, `<>`
\* included.
Holds(props, f) ==
  LET v == props[f.prop] IN
  /\ v \in Value
  /\ \/ f.op = "eq"  /\ v = f.val
     \/ f.op = "ne"  /\ v # f.val
     \/ f.op = "lt"  /\ v < f.val
     \/ f.op = "lte" /\ v <= f.val
     \/ f.op = "gt"  /\ v > f.val
     \/ f.op = "gte" /\ v >= f.val

AllHold(props, filters) == \A f \in filters : Holds(props, f)

----------------------------------------------------------------------------
(* Plans and bindings.                                                     *)

\* A property of the candidate edge compared with a property of an alias the
\* outer pattern bound.
OuterCondition == [prop : Property, op : Op, alias : Alias, outer : Property]

StartStep == [kind : {"start"}, to : Alias, label : Label,
              prop : Property, key : Value]
AllStep   == [kind : {"all"}, to : Alias, label : Label]
HopStep   == [kind : {"hop"}, from : Alias, to : Alias,
              type : EdgeType \cup {AnyType}, dir : Direction,
              min : Nat, max : Nat, filters : SUBSET Filter,
              edge : Alias \cup {NoAlias}]
AntiStep  == [kind : {"anti"}, from : Alias, to : Alias,
              type : EdgeType \cup {AnyType}, dir : {"out"},
              literal : SUBSET Filter, outer : SUBSET OuterCondition]
PlanStep  == StartStep \cup AllStep \cup HopStep \cup AntiStep

\* What NaivePlanner emits and `execute` accepts: one resolving step, first.
\* The validator allows an edge alias on a single hop only, and only an
\* outgoing edge in a NOT EXISTS.
IsPlan(p) ==
  /\ p \in Seq(PlanStep) /\ Len(p) > 0
  /\ p[1] \in StartStep \cup AllStep
  /\ \A i \in 2 .. Len(p) :
       \/ p[i] \in AntiStep
       \/ p[i] \in HopStep /\ (p[i].edge # NoAlias => p[i].max = 1)

Binding == [Alias -> NodeId \cup EdgeId \cup {Unbound}]

\* Binding::from_node
FromNode(alias, n) == [a \in Alias |-> IF a = alias THEN n ELSE Unbound]

\* What one traversed edge writes into a binding: the node it reaches and,
\* when the step has an edge alias, the edge itself.
Extend(b, to, n, edge, e) ==
  [a \in Alias |-> IF a = edge THEN e ELSE IF a = to THEN n ELSE b[a]]

TypeMatches(type, t) == type \in {AnyType, t}

=============================================================================
