------------------------------ MODULE Queries ------------------------------
(***************************************************************************)
(* What a query is, once read.  A pattern is a chain of node patterns and  *)
(* the edge patterns between them.  A WHERE clause is a sequence: the      *)
(* planner counts.                                                         *)
(***************************************************************************)
EXTENDS PropertyGraph, FiniteSetsExt

CONSTANTS
  AnyLabel, NoProperty,   \* `label: None`; RETURN of a bare alias
  NoOrder, NoLimit,
  Literal,                \* what literals stand for, numbers too large included
  NoQuery

ASSUME QueriesAssumption == AnyLabel \notin Label /\ NoProperty \notin Property

LiteralFilter == [prop : Property, op : Op, val : Literal]
NodePattern == [alias : Alias, label : Label \cup {AnyLabel}, inline : Seq(LiteralFilter)]
EdgePattern == [alias : Alias \cup {NoAlias}, type : EdgeType \cup {AnyType},
                dir : Direction, min : Nat, max : Nat]
PropertyRef == [alias : Alias, prop : Property]

Comparison ==
  [kind : {"property"}, alias : Alias, filter : LiteralFilter] \cup
  [kind : {"aliases"}, left : Alias, op : Op, right : Alias] \cup
  [kind : {"properties"}, left : PropertyRef, op : Op, right : PropertyRef]

IsPattern(p) ==
  /\ p.nodes \in Seq(NodePattern) /\ p.edges \in Seq(EdgePattern)
  /\ Len(p.nodes) = Len(p.edges) + 1

\* NOT EXISTS { MATCH pattern WHERE ... } parses at any depth; what is said
\* here of the conditions inside stops at one that nests again.
IsAbsence(c) ==
  /\ c.kind = "absent" /\ IsPattern(c)
  /\ \A i \in DOMAIN c.where : c.where[i] \in Comparison \/ c.where[i].kind = "absent"

IsCondition(c) == c \in Comparison \/ IsAbsence(c)

OrderBy == [alias : Alias, prop : Property, dir : {"asc", "desc"}]

IsQuery(q) ==
  /\ IsPattern(q)
  /\ DOMAIN q.where = 1 .. Len(q.where) /\ Len(q.where) \in Nat
  /\ \A i \in DOMAIN q.where : IsCondition(q.where[i])
  /\ \A i \in DOMAIN q.returns :
       /\ q.returns[i].alias \in Alias
       /\ q.returns[i].prop \in Property \cup {NoProperty}
  /\ q.order \in OrderBy \cup {NoOrder} /\ q.limit \in Nat \cup {NoLimit}

\* Every literal the planner will see has a value of its type.
HasValues(q) ==
  LET HasValue(c) == c.kind = "property" => c.filter.val \in Value IN
  /\ \A n \in Range(q.nodes) : \A f \in Range(n.inline) : f.val \in Value
  /\ \A c \in Range(q.where) :
       HasValue(c) /\ (c.kind = "absent" => \A w \in Range(c.where) : HasValue(w))

=============================================================================
