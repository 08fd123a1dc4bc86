--------------------------- MODULE Planner_proofs ---------------------------
(***************************************************************************)
(* Proofs about Planner, for any schema, any query and any graphs that     *)
(* conform to the schema: a plan can be executed to its end, loses no row  *)
(* the query means, and returns no other when every condition of the query *)
(* has a place in a plan.                                                  *)
(*                                                                         *)
(* A plan is one step for the first node, one for each edge and one for    *)
(* each NOT EXISTS (PlanSteps).  It binds the aliases of the query, so its *)
(* candidates are the rows the meaning is drawn from (SameRows); what is   *)
(* left is what each step says of such a row against what the part of the  *)
(* query it stands for says.                                               *)
(*                                                                         *)
(* Then the same is shown of any text: what the parser reads in one is a   *)
(* query, whatever it reads (QueryReads).                                  *)
(*                                                                         *)
(* Last, such plans are run over a cluster (Run): the executor's own       *)
(* theorems apply to them, because a plan is scoped and graphs that        *)
(* conform to the schema are closed (PlansAreFit).                         *)
(***************************************************************************)
EXTENDS Planning, FiniteSetTheorems, SequenceTheorems, TLAPS

----------------------------------------------------------------------------
(* What a query that gets a plan is made of.                               *)

\* Read, validated, and not one the planner panics on.
Plannable(q) == IsQuery(q) /\ HasValues(q) /\ Valid(q) /\ ~ Panics(q)

LEMMA PatternParts ==
  ASSUME NEW p, IsPattern(p)
  PROVE  /\ Len(p.edges) \in Nat
         /\ DOMAIN p.edges = 1 .. Len(p.edges)
         /\ DOMAIN p.nodes = 1 .. Len(p.edges) + 1
         /\ \A i \in 1 .. Len(p.edges) + 1 : p.nodes[i] \in NodePattern
         /\ \A i \in 1 .. Len(p.edges) : p.edges[i] \in EdgePattern
<1>1. p.nodes \in Seq(NodePattern) /\ p.edges \in Seq(EdgePattern)
      /\ Len(p.nodes) = Len(p.edges) + 1
  BY DEF IsPattern
<1>2. Len(p.edges) \in Nat /\ DOMAIN p.edges = 1 .. Len(p.edges)
  BY <1>1, LenProperties
<1>3. DOMAIN p.nodes = 1 .. Len(p.edges) + 1
  BY <1>1, LenProperties
<1>4. \A i \in 1 .. Len(p.edges) + 1 : p.nodes[i] \in NodePattern
  BY <1>1, ElementOfSeq
<1>5. \A i \in 1 .. Len(p.edges) : p.edges[i] \in EdgePattern
  BY <1>1, ElementOfSeq
<1>6. QED  BY <1>2, <1>3, <1>4, <1>5

LEMMA InlineParts ==
  ASSUME NEW n \in NodePattern
  PROVE  /\ n.alias \in Alias /\ n.label \in Label \cup {AnyLabel}
         /\ Len(n.inline) \in Nat /\ DOMAIN n.inline = 1 .. Len(n.inline)
         /\ \A i \in 1 .. Len(n.inline) : n.inline[i] \in LiteralFilter
         /\ n.inline = <<>> <=> Len(n.inline) = 0
<1>1. n.inline \in Seq(LiteralFilter) /\ n.alias \in Alias /\ n.label \in Label \cup {AnyLabel}
  BY DEF NodePattern
<1>2. QED  BY <1>1, LenProperties, ElementOfSeq, EmptySeq

\* An alias with a label is a node's; one with a type is an edge's.
LEMMA LabelledIsBound ==
  ASSUME NEW p, NEW a, LabelOf(p, a) # AnyLabel
  PROVE  \E i \in DOMAIN p.nodes : p.nodes[i].alias = a /\ p.nodes[i].label # AnyLabel
BY DEF LabelOf

LEMMA TypedIsEdge ==
  ASSUME NEW p, NEW a, TypeOf(p, a) # AnyType
  PROVE  \E i \in DOMAIN p.edges : p.edges[i].alias = a
BY DEF TypeOf

LEMMA RefIsBound ==
  ASSUME NEW p, NEW a, NEW k, NEW op, RefOk(p, a, k, op)
  PROVE  a \in Bound(p) \/ \E i \in DOMAIN p.edges : p.edges[i].alias = a
<1>1. CASE LabelOf(p, a) # AnyLabel
  BY <1>1, LabelledIsBound DEF Bound
<1>2. CASE TypeOf(p, a) # AnyType
  BY <1>2, TypedIsEdge
<1>3. QED  BY <1>1, <1>2 DEF RefOk

\* What is in a WHERE clause, by kind.
LEMMA PropertyParts ==
  ASSUME NEW w \in Comparison, w.kind = "property"
  PROVE  w.alias \in Alias /\ w.filter \in LiteralFilter
BY DEF Comparison

LEMMA PropertiesParts ==
  ASSUME NEW w \in Comparison, w.kind = "properties"
  PROVE  /\ w.left.alias \in Alias /\ w.left.prop \in Property
         /\ w.right.alias \in Alias /\ w.right.prop \in Property
         /\ w.op \in Op
BY DEF Comparison, PropertyRef

LEMMA ComparisonKinds ==
  ASSUME NEW w \in Comparison
  PROVE  w.kind \in {"property", "aliases", "properties"}
BY DEF Comparison

LEMMA FilterValue ==
  ASSUME NEW f \in LiteralFilter, f.val \in Value
  PROVE  f \in Filter
BY DEF LiteralFilter, Filter

LEMMA WhereParts ==
  ASSUME NEW q, IsQuery(q), HasValues(q), Valid(q), NEW c \in Range(q.where)
  PROVE  /\ c.kind # "absent" => c \in Comparison /\ ComparisonOk(q, c)
         /\ c.kind = "absent" => IsAbsence(c) /\ AbsenceOk(q, c)
         /\ c.kind = "property" => c.alias \in Alias /\ c.filter \in Filter
<1>1. IsCondition(c)
  BY DEF IsQuery, Range
<1>2. ComparisonOk(q, c) \/ AbsenceOk(q, c)
  BY DEF Valid
<1>3. c.kind # "absent" => c \in Comparison /\ ComparisonOk(q, c)
  BY <1>1, <1>2 DEF IsCondition, IsAbsence, AbsenceOk
<1>4. c.kind = "absent" => IsAbsence(c) /\ AbsenceOk(q, c)
  BY <1>1, <1>2, ComparisonKinds DEF IsCondition, ComparisonOk
<1>5. ASSUME c.kind = "property" PROVE c.alias \in Alias /\ c.filter \in Filter
  <2>1. c.filter.val \in Value
    BY <1>5 DEF HasValues
  <2>2. QED  BY <1>3, <1>5, <2>1, PropertyParts, FilterValue
<1>6. QED  BY <1>3, <1>4, <1>5

\* What is in a NOT EXISTS the validator accepts.
LEMMA AbsenceParts ==
  ASSUME NEW q, IsQuery(q), HasValues(q), Valid(q), NEW c \in Range(q.where),
         c.kind = "absent"
  PROVE  /\ c.nodes[1].alias \in Bound(q) \cap Alias
         /\ c.nodes[2].alias \in Bound(q) \cap Alias
         /\ c.edges[1] \in EdgePattern /\ c.edges[1].dir = "out"
         /\ \A w \in Range(c.where) :
              /\ w \in Comparison
              /\ ComparisonOk([nodes |-> q.nodes, edges |-> q.edges \o c.edges], w)
              /\ w.kind = "property" => w.filter \in Filter
<1>1. IsAbsence(c) /\ AbsenceOk(q, c)
  BY WhereParts
<1>2. IsPattern(c) /\ Len(c.edges) = 1
  BY <1>1 DEF IsAbsence, AbsenceOk
<1>3. /\ DOMAIN c.nodes = 1 .. 2
      /\ c.nodes[1] \in NodePattern /\ c.nodes[2] \in NodePattern
      /\ c.edges[1] \in EdgePattern
  <2>1. /\ DOMAIN c.nodes = 1 .. 1 + 1
        /\ \A i \in 1 .. 1 + 1 : c.nodes[i] \in NodePattern
        /\ \A i \in 1 .. 1 : c.edges[i] \in EdgePattern
    BY <1>2, PatternParts
  <2>2. QED  BY <2>1
<1>4. \A n \in Range(c.nodes) : n.alias \in Bound(q)
  BY <1>1 DEF AbsenceOk, Anchored
<1>5. c.nodes[1] \in Range(c.nodes) /\ c.nodes[2] \in Range(c.nodes)
  BY <1>3 DEF Range
<1>6. c.nodes[1].alias \in Bound(q) \cap Alias /\ c.nodes[2].alias \in Bound(q) \cap Alias
  BY <1>3, <1>4, <1>5, InlineParts
<1>7. ASSUME NEW w \in Range(c.where)
      PROVE  /\ w \in Comparison
             /\ ComparisonOk([nodes |-> q.nodes, edges |-> q.edges \o c.edges], w)
             /\ w.kind = "property" => w.filter \in Filter
  <2>1. ComparisonOk([nodes |-> q.nodes, edges |-> q.edges \o c.edges], w)
    BY <1>1 DEF AbsenceOk
  <2>2. w \in Comparison
    <3>1. w.kind # "absent"
      BY <2>1 DEF ComparisonOk
    <3>2. w \in Comparison \/ w.kind = "absent"
      BY <1>1 DEF IsAbsence, Range
    <3>3. QED  BY <3>1, <3>2
  <2>3. w.kind = "property" => w.filter.val \in Value
    BY DEF HasValues
  <2>4. QED  BY <2>1, <2>2, <2>3, PropertyParts, FilterValue
<1>8. QED  BY <1>1, <1>3, <1>6, <1>7 DEF AbsenceOk

----------------------------------------------------------------------------
(* The steps of a plan.                                                    *)

LEMMA FiltersOnParts ==
  ASSUME NEW q, Plannable(q), NEW a, NEW f \in FiltersOn(q, a)
  PROVE  f \in Filter
<1>1. PICK i \in OnAlias(q, a) : f = q.where[i].filter
  BY DEF FiltersOn
<1>2. q.where[i] \in Range(q.where) /\ q.where[i].kind = "property"
  BY <1>1 DEF OnAlias, Range
<1>3. QED  BY <1>1, <1>2, WhereParts DEF Plannable

LEMMA StartParts ==
  ASSUME NEW q, Plannable(q)
  PROVE  /\ q.nodes[1] \in NodePattern /\ q.nodes[1] \in Range(q.nodes)
         /\ q.nodes[1].alias \in Alias /\ q.nodes[1].label \in Label
         /\ \A f \in StartFilters(q) : f \in Filter /\ f.op = "eq"
         /\ \A f, h \in StartFilters(q) : f = h
<1> DEFINE n == q.nodes[1]
<1>1. n \in NodePattern /\ n \in Range(q.nodes)
  BY PatternParts DEF Plannable, IsQuery, Range
<1>2. n.alias \in Alias /\ n.label \in Label
  BY <1>1, InlineParts DEF Plannable, Panics
<1>3. CASE n.inline # <<>>
  <2>1. 1 \in DOMAIN n.inline /\ n.inline[1] \in LiteralFilter
    BY <1>1, <1>3, InlineParts
  <2>2. n.inline[1].val \in Value
    BY <1>1, <2>1 DEF Plannable, HasValues, Range
  <2>3. StartFilters(q) = {n.inline[1]}
    BY <1>3 DEF StartFilters
  <2>4. QED  BY <1>1, <1>2, <2>1, <2>2, <2>3, FilterValue DEF Plannable, Panics
<1>4. CASE n.inline = <<>>
  <2>1. StartFilters(q) = FiltersOn(q, n.alias)
    BY <1>4 DEF StartFilters
  <2>2. \A i, j \in OnAlias(q, n.alias) : i = j
    BY <1>4 DEF Plannable, Panics
  <2>3. \A f, h \in StartFilters(q) : f = h
    BY <2>1, <2>2 DEF FiltersOn
  <2>4. \A f \in StartFilters(q) : f \in Filter
    BY <2>1, FiltersOnParts
  <2>5. QED  BY <1>1, <1>2, <2>3, <2>4 DEF Plannable, Panics
<1>5. QED  BY <1>3, <1>4

\* The first step looks up the one condition it may take, if there is one.
LEMMA FirstStepIs ==
  ASSUME NEW q, Plannable(q)
  PROVE  /\ FirstStep(q) \in StartStep \cup AllStep
         /\ FirstStep(q).to = q.nodes[1].alias /\ FirstStep(q).label = q.nodes[1].label
         /\ FirstStep(q).kind = "start" =>
              \E f \in StartFilters(q) : FirstStep(q).prop = f.prop /\ FirstStep(q).key = f.val
         /\ \A f \in StartFilters(q) :
              /\ FirstStep(q).kind = "start"
              /\ FirstStep(q).prop = f.prop /\ FirstStep(q).key = f.val
<1>1. CASE StartFilters(q) = {}
  <2>1. FirstStep(q) = [kind |-> "all", to |-> q.nodes[1].alias, label |-> q.nodes[1].label]
    BY <1>1 DEF FirstStep
  <2>2. QED  BY <1>1, <2>1, StartParts DEF AllStep
<1>2. CASE StartFilters(q) # {}
  <2> DEFINE f == CHOOSE f \in StartFilters(q) : TRUE
  <2>1. f \in StartFilters(q)
    BY <1>2
  <2>2. FirstStep(q) = [kind |-> "start", to |-> q.nodes[1].alias, label |-> q.nodes[1].label,
                        prop |-> f.prop, key |-> f.val]
    BY <1>2 DEF FirstStep
  <2> HIDE DEF f
  <2>3. f.prop \in Property /\ f.val \in Value /\ \A h \in StartFilters(q) : h = f
    BY <2>1, StartParts DEF Filter
  <2>4. QED  BY <2>1, <2>2, <2>3, StartParts DEF StartStep
<1>3. QED  BY <1>1, <1>2

LEMMA HopIs ==
  ASSUME NEW q, Plannable(q), NEW i \in 1 .. Len(q.edges)
  PROVE  /\ HopTo(q, i) \in HopStep
         /\ q.edges[i] \in EdgePattern /\ q.edges[i] \in Range(q.edges)
         /\ q.nodes[i] \in NodePattern /\ q.nodes[i + 1] \in NodePattern
         /\ i \in DOMAIN q.nodes /\ i + 1 \in DOMAIN q.nodes
         /\ q.nodes[i] \in Range(q.nodes) /\ q.nodes[i + 1] \in Range(q.nodes)
         /\ q.edges[i].alias # NoAlias => q.edges[i].min = 1 /\ q.edges[i].max = 1
<1> DEFINE e == q.edges[i]
<1>1. /\ Len(q.edges) \in Nat
      /\ i \in DOMAIN q.edges /\ i \in DOMAIN q.nodes /\ i + 1 \in DOMAIN q.nodes
      /\ e \in EdgePattern /\ q.nodes[i] \in NodePattern /\ q.nodes[i + 1] \in NodePattern
  BY PatternParts DEF Plannable, IsQuery
<1>2. e \in Range(q.edges) /\ q.nodes[i] \in Range(q.nodes) /\ q.nodes[i + 1] \in Range(q.nodes)
  BY <1>1 DEF Range
<1>3. EdgeOk(e)
  BY <1>2 DEF Plannable, Valid
<1>4. e.alias # NoAlias => e.min = 1 /\ e.max = 1
  BY <1>3 DEF EdgeOk, SingleHop
<1>5. HopFilters(q, q.nodes[i + 1]) \in SUBSET Filter
  BY FiltersOnParts DEF HopFilters
<1>6. q.nodes[i].alias \in Alias /\ q.nodes[i + 1].alias \in Alias
  BY <1>1, InlineParts
<1>7. HopTo(q, i) \in HopStep
  BY <1>1, <1>5, <1>6 DEF HopTo, HopStep, EdgePattern
<1>8. QED  BY <1>1, <1>2, <1>4, <1>7

LEMMA FlipOpType ==
  ASSUME NEW op \in Op PROVE FlipOp(op) \in Op
BY DEF Op, FlipOp

LEMMA AntiIs ==
  ASSUME NEW q, Plannable(q), NEW c \in Range(q.where), c.kind = "absent"
  PROVE  AntiJoin(c) \in AntiStep
<1>1. /\ c.nodes[1].alias \in Alias /\ c.nodes[2].alias \in Alias
      /\ c.edges[1] \in EdgePattern /\ c.edges[1].dir = "out"
      /\ \A w \in Range(c.where) :
           /\ w \in Comparison
           /\ w.kind = "property" => w.filter \in Filter
  BY AbsenceParts DEF Plannable
<1>2. InnerConditions(c) \in SUBSET Filter
  BY <1>1 DEF InnerConditions
<1>3. ASSUME NEW o \in OuterConditions(c) PROVE o \in OuterCondition
  <2>1. PICK w \in Range(c.where) :
          /\ w.kind = "properties"
          /\ \/ o = [prop |-> w.left.prop, op |-> w.op,
                     alias |-> w.right.alias, outer |-> w.right.prop]
             \/ o = [prop |-> w.right.prop, op |-> FlipOp(w.op),
                     alias |-> w.left.alias, outer |-> w.left.prop]
    BY DEF OuterConditions
  <2>2. /\ w.left.alias \in Alias /\ w.left.prop \in Property
        /\ w.right.alias \in Alias /\ w.right.prop \in Property
        /\ w.op \in Op /\ FlipOp(w.op) \in Op
    BY <1>1, <2>1, PropertiesParts, FlipOpType
  <2>3. QED  BY <2>1, <2>2 DEF OuterCondition
<1>4. c.edges[1].type \in EdgeType \cup {AnyType}
  BY <1>1 DEF EdgePattern
<1>5. QED  BY <1>1, <1>2, <1>3, <1>4 DEF AntiJoin, AntiStep

\* The NOT EXISTS are ranked by where they are written, so each has a place
\* and every place is taken.
LEMMA PlacesAreTaken ==
  ASSUME NEW q, IsQuery(q)
  PROVE  LET m == Cardinality(AbsencesAt(q)) IN
         /\ m \in Nat
         /\ \A i \in AbsencesAt(q) : PlaceOf(q, i) \in 1 .. m
         /\ \A i, j \in AbsencesAt(q) : PlaceOf(q, i) = PlaceOf(q, j) => i = j
         /\ \A n \in 1 .. m : \E i \in AbsencesAt(q) : PlaceOf(q, i) = n
<1> DEFINE K == AbsencesAt(q)
           m == Cardinality(K)
           upto(i) == {j \in K : j <= i}
<1>1. K \subseteq Nat /\ IsFiniteSet(K) /\ m \in Nat
  <2>1. Len(q.where) \in Nat /\ K \in SUBSET (1 .. Len(q.where))
    BY DEF IsQuery, AbsencesAt
  <2>2. IsFiniteSet(1 .. Len(q.where))
    BY <2>1, FS_Interval
  <2> HIDE DEF K
  <2>3. IsFiniteSet(K)
    BY <2>1, <2>2, FS_Subset
  <2>4. QED  BY <2>1, <2>3, FS_CardinalityType
<1>2. \A i : PlaceOf(q, i) = Cardinality(upto(i))
  BY DEF PlaceOf
<1> HIDE DEF K
<1>3. ASSUME NEW i \in K
      PROVE  /\ IsFiniteSet(upto(i)) /\ Cardinality(upto(i)) \in Nat
             /\ PlaceOf(q, i) \in 1 .. m
  <2>1. upto(i) \in SUBSET K /\ i \in upto(i)
    BY <1>1
  <2> HIDE DEF upto
  <2>2. IsFiniteSet(upto(i)) /\ Cardinality(upto(i)) <= m
    BY <1>1, <2>1, FS_Subset
  <2>3. Cardinality(upto(i)) \in Nat
    BY <2>2, FS_CardinalityType
  <2>4. Cardinality(upto(i)) # 0
    BY <2>1, <2>2, FS_EmptySet
  <2>5. QED  BY <1>1, <1>2, <2>2, <2>3, <2>4
<1>4. ASSUME NEW i \in K, NEW j \in K, i < j
      PROVE  PlaceOf(q, i) < PlaceOf(q, j)
  <2>1. upto(i) \in SUBSET upto(j) /\ j \in upto(j) /\ j \notin upto(i)
    <3>1. \A k \in K : k \in Int
      BY <1>1
    <3>2. \A k \in K : k <= i => k <= j
      BY <1>4, <3>1
    <3>3. j <= j /\ ~ j <= i
      BY <1>4, <3>1
    <3>4. QED  BY <3>2, <3>3
  <2>2. IsFiniteSet(upto(j)) /\ Cardinality(upto(i)) \in Nat /\ Cardinality(upto(j)) \in Nat
    BY <1>3
  <2> HIDE DEF upto
  <2>3. Cardinality(upto(i)) <= Cardinality(upto(j)) /\ Cardinality(upto(i)) # Cardinality(upto(j))
    BY <2>1, <2>2, FS_Subset
  <2>4. QED  BY <1>2, <2>2, <2>3
<1>5. ASSUME NEW i \in K, NEW j \in K, PlaceOf(q, i) = PlaceOf(q, j)
      PROVE  i = j
  <2>1. i \in Nat /\ j \in Nat
    BY <1>1
  <2>2. PlaceOf(q, i) \in 1 .. m /\ PlaceOf(q, j) \in 1 .. m
    BY <1>3
  <2>3. PlaceOf(q, i) \in Int
    BY <2>2
  <2>4. ~ i < j /\ ~ j < i
    BY <1>4, <1>5, <2>3
  <2>5. QED  BY <2>1, <2>4
<1>6. \A n \in 1 .. m : \E i \in K : PlaceOf(q, i) = n
  <2> DEFINE f == [i \in K |-> PlaceOf(q, i)]
  <2>1. f \in Injection(K, 1 .. m)
    BY <1>3, <1>5 DEF Injection, IsInjective
  <2>2. IsFiniteSet(1 .. m) /\ Cardinality(1 .. m) = m
    BY <1>1, FS_Interval
  <2>3. f \in Surjection(K, 1 .. m)
    BY <2>1, <2>2, FS_Injection
  <2>4. QED  BY <2>3 DEF Surjection
<1>7. QED  BY <1>1, <1>3, <1>5, <1>6 DEF K

LEMMA AbsencesAre ==
  ASSUME NEW q, IsQuery(q)
  PROVE  /\ Len(Absences(q)) \in Nat
         /\ DOMAIN Absences(q) = 1 .. Len(Absences(q))
         /\ \A n \in 1 .. Len(Absences(q)) :
              Absences(q)[n] \in Range(q.where) /\ Absences(q)[n].kind = "absent"
         /\ \A c \in Range(q.where) :
              c.kind = "absent" => \E n \in 1 .. Len(Absences(q)) : Absences(q)[n] = c
<1> DEFINE m == Cardinality(AbsencesAt(q))
           at(n) == CHOOSE i \in AbsencesAt(q) : PlaceOf(q, i) = n
<1>1. /\ m \in Nat
      /\ \A i \in AbsencesAt(q) : PlaceOf(q, i) \in 1 .. m
      /\ \A i, j \in AbsencesAt(q) : PlaceOf(q, i) = PlaceOf(q, j) => i = j
      /\ \A n \in 1 .. m : \E i \in AbsencesAt(q) : PlaceOf(q, i) = n
  BY PlacesAreTaken
<1>2. Absences(q) = [n \in 1 .. m |-> q.where[at(n)]]
  BY DEF Absences
<1> HIDE DEF m
<1>3. \A n \in 1 .. m : at(n) \in AbsencesAt(q) /\ PlaceOf(q, at(n)) = n
  BY <1>1
<1> HIDE DEF at
<1>4. \A n \in 1 .. m : Absences(q)[n] \in Range(q.where) /\ Absences(q)[n].kind = "absent"
  BY <1>2, <1>3 DEF AbsencesAt, Range
<1>5. Absences(q) \in Seq(Range(q.where)) /\ DOMAIN Absences(q) = 1 .. m
  <2>1. Absences(q) \in [1 .. m -> Range(q.where)]
    BY <1>2, <1>4
  <2>2. QED  BY <1>1, <2>1, SeqDef
<1>6. Len(Absences(q)) = m
  BY <1>1, <1>5, LenProperties
<1>7. ASSUME NEW c \in Range(q.where), c.kind = "absent"
      PROVE  \E n \in 1 .. m : Absences(q)[n] = c
  <2>1. PICK i \in DOMAIN q.where : q.where[i] = c
    BY DEF Range
  <2>2. i \in AbsencesAt(q)
    BY <1>7, <2>1 DEF AbsencesAt
  <2>3. at(PlaceOf(q, i)) = i /\ PlaceOf(q, i) \in 1 .. m
    BY <1>1, <1>3, <2>2
  <2>4. QED  BY <1>2, <2>1, <2>3
<1>8. QED  BY <1>1, <1>4, <1>5, <1>6, <1>7

LEMMA PlanSteps ==
  ASSUME NEW q, Plannable(q)
  PROVE  /\ Len(q.edges) \in Nat /\ Len(Absences(q)) \in Nat
         /\ Plan(q) \in Seq(PlanStep)
         /\ Len(Plan(q)) = 1 + Len(q.edges) + Len(Absences(q))
         /\ Plan(q)[1] = FirstStep(q)
         /\ \A i \in 1 .. Len(q.edges) : Plan(q)[1 + i] = HopTo(q, i)
         /\ \A i \in 1 .. Len(Absences(q)) :
              Plan(q)[1 + Len(q.edges) + i] = AntiJoin(Absences(q)[i])
<1> DEFINE E == Len(q.edges)
           A == Len(Absences(q))
           first == <<FirstStep(q)>>
           hops == [i \in 1 .. E |-> HopTo(q, i)]
           antis == [i \in 1 .. A |-> AntiJoin(Absences(q)[i])]
<1>1. E \in Nat /\ A \in Nat
  BY PatternParts, AbsencesAre DEF Plannable, IsQuery
<1>2. first \in Seq(PlanStep) /\ Len(first) = 1 /\ first[1] = FirstStep(q)
  BY FirstStepIs DEF PlanStep
<1> HIDE DEF E, A
<1>3. hops \in Seq(PlanStep) /\ Len(hops) = E
  <2>1. hops \in [1 .. E -> PlanStep]
    BY HopIs DEF E, PlanStep
  <2> HIDE DEF hops
  <2>2. hops \in Seq(PlanStep)
    BY <1>1, <2>1, SeqDef
  <2>3. QED  BY <1>1, <2>1, <2>2, LenProperties
<1>4. antis \in Seq(PlanStep) /\ Len(antis) = A
  <2>1. \A i \in 1 .. A : AntiJoin(Absences(q)[i]) \in AntiStep
    BY AntiIs, AbsencesAre DEF Plannable, A
  <2>2. antis \in [1 .. A -> PlanStep]
    BY <2>1 DEF PlanStep
  <2> HIDE DEF antis
  <2>3. antis \in Seq(PlanStep)
    BY <1>1, <2>2, SeqDef
  <2>4. QED  BY <1>1, <2>2, <2>3, LenProperties
<1>5. /\ \A i \in 1 .. E : hops[i] = HopTo(q, i)
      /\ \A i \in 1 .. A : antis[i] = AntiJoin(Absences(q)[i])
  OBVIOUS
<1>6. Plan(q) = first \o hops \o antis
  BY DEF Plan, E, A
<1> HIDE DEF first, hops, antis
<1> DEFINE front == first \o hops
<1>7. /\ front \in Seq(PlanStep) /\ Len(front) = 1 + E
      /\ front[1] = FirstStep(q)
      /\ \A i \in 1 .. E : front[1 + i] = HopTo(q, i)
  <2>1. /\ front \in Seq(PlanStep) /\ Len(front) = 1 + E
        /\ \A i \in 1 .. 1 + E : front[i] = IF i <= 1 THEN first[i] ELSE hops[i - 1]
    <3>1. /\ first \o hops \in Seq(PlanStep)
          /\ Len(first \o hops) = Len(first) + Len(hops)
          /\ \A i \in 1 .. Len(first) + Len(hops) :
               (first \o hops)[i] = IF i <= Len(first) THEN first[i] ELSE hops[i - Len(first)]
      BY <1>2, <1>3, ConcatProperties
    <3>2. QED  BY <1>2, <1>3, <3>1
  <2>2. front[1] = FirstStep(q)
    BY <1>1, <1>2, <2>1
  <2>3. ASSUME NEW i \in 1 .. E PROVE front[1 + i] = hops[i]
    <3>1. 1 + i \in 1 .. 1 + E /\ ~ 1 + i <= 1 /\ (1 + i) - 1 = i
      BY <1>1
    <3>2. QED  BY <2>1, <3>1
  <2>4. QED  BY <1>5, <2>1, <2>2, <2>3
<1> HIDE DEF front
<1>8. /\ Plan(q) \in Seq(PlanStep) /\ Len(Plan(q)) = 1 + E + A
      /\ \A i \in 1 .. 1 + E + A :
           Plan(q)[i] = IF i <= 1 + E THEN front[i] ELSE antis[i - (1 + E)]
  <2>1. Plan(q) = front \o antis
    BY <1>6 DEF front
  <2>2. /\ front \o antis \in Seq(PlanStep)
        /\ Len(front \o antis) = Len(front) + Len(antis)
        /\ \A i \in 1 .. Len(front) + Len(antis) :
             (front \o antis)[i] =
               IF i <= Len(front) THEN front[i] ELSE antis[i - Len(front)]
    BY <1>4, <1>7, ConcatProperties
  <2>3. QED  BY <1>4, <1>7, <2>1, <2>2
<1>9. Plan(q)[1] = FirstStep(q) /\ \A i \in 1 .. E : Plan(q)[1 + i] = HopTo(q, i)
  BY <1>1, <1>7, <1>8
<1>10. \A i \in 1 .. A : Plan(q)[1 + E + i] = antis[i]
  BY <1>1, <1>8
<1>11. QED  BY <1>1, <1>5, <1>8, <1>9, <1>10 DEF E, A

\* Every step of a plan is one of the three kinds.
LEMMA StepOfPlan ==
  ASSUME NEW q, Plannable(q), NEW j \in 1 .. Len(Plan(q))
  PROVE  \/ j = 1 /\ Plan(q)[j] = FirstStep(q)
         \/ \E i \in 1 .. Len(q.edges) : j = 1 + i /\ Plan(q)[j] = HopTo(q, i)
         \/ \E i \in 1 .. Len(Absences(q)) :
              /\ j = 1 + Len(q.edges) + i
              /\ Plan(q)[j] = AntiJoin(Absences(q)[i])
<1>1. /\ Len(q.edges) \in Nat /\ Len(Absences(q)) \in Nat
      /\ j \in 1 .. 1 + Len(q.edges) + Len(Absences(q))
  BY PlanSteps
<1>2. \/ j = 1
      \/ j - 1 \in 1 .. Len(q.edges) /\ j = 1 + (j - 1)
      \/ /\ j - (1 + Len(q.edges)) \in 1 .. Len(Absences(q))
         /\ j = 1 + Len(q.edges) + (j - (1 + Len(q.edges)))
  BY <1>1
<1>3. QED  BY <1>2, PlanSteps

----------------------------------------------------------------------------
(* The scope of a plan.                                                    *)

LEMMA StepAliases ==
  ASSUME NEW q, Plannable(q)
  PROVE  /\ FirstStep(q).kind # "anti" /\ FirstStep(q).kind # "hop"
         /\ Binds(FirstStep(q)) = {q.nodes[1].alias} /\ Reads(FirstStep(q)) = {}
         /\ \A i \in 1 .. Len(q.edges) :
              /\ HopTo(q, i).kind = "hop"
              /\ Binds(HopTo(q, i)) = {q.nodes[i + 1].alias, q.edges[i].alias} \ {NoAlias}
              /\ Reads(HopTo(q, i)) = {q.nodes[i].alias}
         /\ \A c : /\ AntiJoin(c).kind = "anti"
                   /\ Binds(AntiJoin(c)) = {}
                   /\ Reads(AntiJoin(c)) =
                        {c.nodes[1].alias, c.nodes[2].alias}
                          \cup {o.alias : o \in OuterConditions(c)}
<1>1. FirstStep(q).kind \in {"start", "all"}
  BY FirstStepIs DEF StartStep, AllStep
<1>2. Binds(FirstStep(q)) = {q.nodes[1].alias} /\ Reads(FirstStep(q)) = {}
  BY <1>1, FirstStepIs DEF Binds, Reads
<1>3. ASSUME NEW i \in 1 .. Len(q.edges)
      PROVE  /\ HopTo(q, i).kind = "hop"
             /\ Binds(HopTo(q, i)) = {q.nodes[i + 1].alias, q.edges[i].alias} \ {NoAlias}
             /\ Reads(HopTo(q, i)) = {q.nodes[i].alias}
  <2>1. /\ HopTo(q, i).kind = "hop" /\ HopTo(q, i).from = q.nodes[i].alias
        /\ HopTo(q, i).to = q.nodes[i + 1].alias /\ HopTo(q, i).edge = q.edges[i].alias
    BY DEF HopTo
  <2>2. QED  BY <2>1 DEF Binds, Reads
<1>4. ASSUME NEW c
      PROVE  /\ AntiJoin(c).kind = "anti"
             /\ Binds(AntiJoin(c)) = {}
             /\ Reads(AntiJoin(c)) =
                  {c.nodes[1].alias, c.nodes[2].alias}
                    \cup {o.alias : o \in OuterConditions(c)}
  <2>1. /\ AntiJoin(c).kind = "anti" /\ AntiJoin(c).from = c.nodes[1].alias
        /\ AntiJoin(c).to = c.nodes[2].alias /\ AntiJoin(c).outer = OuterConditions(c)
    BY DEF AntiJoin
  <2>2. QED  BY <2>1 DEF Binds, Reads
<1>5. QED  BY <1>1, <1>2, <1>3, <1>4

LEMMA QueryAliases ==
  ASSUME NEW q, Plannable(q)
  PROVE  /\ Bound(q) = {q.nodes[i].alias : i \in 1 .. Len(q.edges) + 1}
         /\ EdgeAliasesOf(q) = {q.edges[i].alias : i \in 1 .. Len(q.edges)} \ {NoAlias}
         /\ Bound(q) \subseteq Alias /\ EdgeAliasesOf(q) \subseteq Alias
<1>1. /\ DOMAIN q.edges = 1 .. Len(q.edges) /\ DOMAIN q.nodes = 1 .. Len(q.edges) + 1
      /\ \A i \in 1 .. Len(q.edges) + 1 : q.nodes[i] \in NodePattern
      /\ \A i \in 1 .. Len(q.edges) : q.edges[i] \in EdgePattern
  BY PatternParts DEF Plannable, IsQuery
<1>2. Bound(q) = {q.nodes[i].alias : i \in 1 .. Len(q.edges) + 1}
  BY <1>1 DEF Bound
<1>3. EdgeAliasesOf(q) = {q.edges[i].alias : i \in 1 .. Len(q.edges)} \ {NoAlias}
  BY <1>1 DEF EdgeAliasesOf, Range
<1>4. \A i \in 1 .. Len(q.edges) + 1 : q.nodes[i].alias \in Alias
  BY <1>1 DEF NodePattern
<1>5. \A i \in 1 .. Len(q.edges) : q.edges[i].alias \in Alias \cup {NoAlias}
  BY <1>1 DEF EdgePattern
<1>6. QED  BY <1>2, <1>3, <1>4, <1>5

\* A plan binds the aliases of its query: its candidates are the rows the
\* meaning of the query is drawn from.
LEMMA SameRows ==
  ASSUME NEW q, Plannable(q), NEW g
  PROVE  Candidates(g, Plan(q)) = RowsFor(g, q)
<1> DEFINE p == Plan(q)
           E == Len(q.edges)
<1>1. /\ E \in Nat /\ Len(Absences(q)) \in Nat
      /\ Len(p) = 1 + E + Len(Absences(q))
      /\ p[1] = FirstStep(q)
      /\ \A i \in 1 .. E : p[1 + i] = HopTo(q, i)
  BY PlanSteps
<1>2. \A j \in 1 .. Len(p) :
        \/ j = 1
        \/ \E i \in 1 .. E : j = 1 + i
        \/ p[j].kind = "anti"
  BY StepOfPlan, StepAliases
<1>3. /\ p[1].kind # "anti" /\ p[1].kind # "hop" /\ p[1].to = q.nodes[1].alias
      /\ \A i \in 1 .. E : /\ p[1 + i].kind = "hop"
                           /\ p[1 + i].to = q.nodes[i + 1].alias
                           /\ p[1 + i].edge = q.edges[i].alias
  <2>1. p[1].kind # "anti" /\ p[1].kind # "hop" /\ p[1].to = q.nodes[1].alias
    BY <1>1, StepAliases, FirstStepIs
  <2>2. ASSUME NEW i \in 1 .. E
        PROVE  /\ p[1 + i].kind = "hop"
               /\ p[1 + i].to = q.nodes[i + 1].alias
               /\ p[1 + i].edge = q.edges[i].alias
    <3>1. p[1 + i] = HopTo(q, i)
      BY <1>1
    <3>2. QED  BY <3>1 DEF HopTo
  <2>3. QED  BY <2>1, <2>2
<1>4. Bound(q) = {q.nodes[i].alias : i \in 1 .. E + 1}
      /\ EdgeAliasesOf(q) = {q.edges[i].alias : i \in 1 .. E} \ {NoAlias}
  BY QueryAliases
<1> HIDE DEF p, E
<1>5. ASSUME NEW a \in NodeAliases(p) PROVE a \in Bound(q)
  <2>1. PICK j \in 1 .. Len(p) : p[j].kind # "anti" /\ a = p[j].to
    BY DEF NodeAliases
  <2>2. CASE j = 1
    BY <1>1, <1>3, <1>4, <2>1, <2>2
  <2>3. ASSUME NEW i \in 1 .. E, j = 1 + i PROVE a \in Bound(q)
    <3>1. a = q.nodes[i + 1].alias
      BY <1>3, <2>1, <2>3
    <3>2. i + 1 \in 1 .. E + 1
      BY <1>1
    <3>3. QED  BY <1>4, <3>1, <3>2
  <2>4. QED  BY <1>2, <2>1, <2>2, <2>3
<1>6. ASSUME NEW a \in Bound(q) PROVE a \in NodeAliases(p)
  <2>1. PICK i \in 1 .. E + 1 : a = q.nodes[i].alias
    BY <1>4
  <2>2. i \in 1 .. Len(p)
    BY <1>1
  <2>3. p[i].kind # "anti" /\ p[i].to = a
    <3>1. CASE i = 1
      BY <1>3, <2>1, <3>1
    <3>2. CASE i # 1
      <4>1. i - 1 \in 1 .. E /\ 1 + (i - 1) = i /\ (i - 1) + 1 = i
        BY <1>1, <3>2
      <4>2. QED  BY <1>3, <2>1, <4>1
    <3>3. QED  BY <3>1, <3>2
  <2>4. QED  BY <2>2, <2>3 DEF NodeAliases
<1>7. ASSUME NEW a \in EdgeAliases(p) PROVE a \in EdgeAliasesOf(q)
  <2>1. PICK j \in 1 .. Len(p) : p[j].kind = "hop" /\ a = p[j].edge /\ a # NoAlias
    BY DEF EdgeAliases
  <2>2. PICK i \in 1 .. E : j = 1 + i
    BY <1>2, <1>3, <2>1
  <2>3. QED  BY <1>3, <1>4, <2>1, <2>2
<1>8. ASSUME NEW a \in EdgeAliasesOf(q) PROVE a \in EdgeAliases(p)
  <2>1. PICK i \in 1 .. E : a = q.edges[i].alias /\ a # NoAlias
    BY <1>4
  <2>2. 1 + i \in 1 .. Len(p) /\ p[1 + i].kind = "hop" /\ p[1 + i].edge = a
    BY <1>1, <1>3, <2>1
  <2>3. QED  BY <2>1, <2>2 DEF EdgeAliases
<1>9. NodeAliases(p) = Bound(q) /\ EdgeAliases(p) = EdgeAliasesOf(q)
  BY <1>5, <1>6, <1>7, <1>8
<1>10. QED  BY <1>9 DEF Candidates, RowsFor, p

\* What a step binds, by its place in the plan.
LEMMA BindsAt ==
  ASSUME NEW q, Plannable(q), NEW j \in 1 .. Len(Plan(q)), NEW a \in Binds(Plan(q)[j])
  PROVE  \/ j \in 1 .. Len(q.edges) + 1 /\ a = q.nodes[j].alias
         \/ /\ j - 1 \in 1 .. Len(q.edges)
            /\ a = q.edges[j - 1].alias /\ a # NoAlias
<1>1. Len(q.edges) \in Nat
  BY PlanSteps
<1>2. CASE j = 1 /\ Plan(q)[j] = FirstStep(q)
  BY <1>1, <1>2, StepAliases
<1>3. ASSUME NEW i \in 1 .. Len(q.edges), j = 1 + i, Plan(q)[j] = HopTo(q, i)
      PROVE  \/ j \in 1 .. Len(q.edges) + 1 /\ a = q.nodes[j].alias
             \/ /\ j - 1 \in 1 .. Len(q.edges)
                /\ a = q.edges[j - 1].alias /\ a # NoAlias
  <2>1. a \in {q.nodes[i + 1].alias, q.edges[i].alias} \ {NoAlias}
    BY <1>3, StepAliases
  <2>2. j = i + 1 /\ j - 1 = i /\ j \in 1 .. Len(q.edges) + 1
    BY <1>1, <1>3
  <2>3. QED  BY <2>1, <2>2
<1>4. ~ \E i \in 1 .. Len(Absences(q)) : Plan(q)[j] = AntiJoin(Absences(q)[i])
  BY StepAliases
<1>5. QED  BY <1>2, <1>3, <1>4, StepOfPlan

LEMMA BoundBy ==
  ASSUME NEW q, Plannable(q)
  PROVE  /\ \A i \in 1 .. Len(q.edges) + 1 : q.nodes[i].alias \in Binds(Plan(q)[i])
         /\ \A i \in 1 .. Len(q.edges) :
              q.edges[i].alias # NoAlias => q.edges[i].alias \in Binds(Plan(q)[1 + i])
<1>1. /\ Len(q.edges) \in Nat
      /\ Plan(q)[1] = FirstStep(q)
      /\ \A i \in 1 .. Len(q.edges) : Plan(q)[1 + i] = HopTo(q, i)
  BY PlanSteps
<1>2. \A i \in 1 .. Len(q.edges) + 1 : q.nodes[i].alias # NoAlias
  BY QueryAliases, DataAssumption
<1>3. ASSUME NEW i \in 1 .. Len(q.edges) + 1 PROVE q.nodes[i].alias \in Binds(Plan(q)[i])
  <2>1. CASE i = 1
    BY <1>1, <2>1, StepAliases
  <2>2. CASE i # 1
    <3>1. i - 1 \in 1 .. Len(q.edges) /\ 1 + (i - 1) = i /\ (i - 1) + 1 = i
      BY <1>1, <2>2
    <3>2. Plan(q)[i] = HopTo(q, i - 1)
      BY <1>1, <3>1
    <3>3. QED  BY <1>2, <3>1, <3>2, StepAliases
  <2>3. QED  BY <2>1, <2>2
<1>4. QED  BY <1>1, <1>3, StepAliases

\* Every alias of the query is bound before the step after the last hop.
LEMMA AllAreBound ==
  ASSUME NEW q, Plannable(q), NEW a \in Bound(q) \cup EdgeAliasesOf(q),
         NEW j \in Nat, j > Len(q.edges) + 1
  PROVE  a \in BoundBefore(Plan(q), j)
<1>1. Len(q.edges) \in Nat
  BY PlanSteps
<1>2. CASE a \in Bound(q)
  <2>1. PICK i \in 1 .. Len(q.edges) + 1 : a = q.nodes[i].alias
    BY <1>2, QueryAliases
  <2>2. i \in 1 .. j - 1 /\ a \in Binds(Plan(q)[i])
    BY <1>1, <2>1, BoundBy
  <2>3. QED  BY <2>2 DEF BoundBefore
<1>3. CASE a \in EdgeAliasesOf(q)
  <2>1. PICK i \in 1 .. Len(q.edges) : a = q.edges[i].alias /\ a # NoAlias
    BY <1>3, QueryAliases
  <2>2. 1 + i \in 1 .. j - 1 /\ a \in Binds(Plan(q)[1 + i])
    BY <1>1, <2>1, BoundBy
  <2>3. QED  BY <2>2 DEF BoundBefore
<1>4. QED  BY <1>2, <1>3

\* What a NOT EXISTS compares its edge with belongs to the outer pattern.
LEMMA OuterScope ==
  ASSUME NEW q, Plannable(q), NEW c \in Range(q.where), c.kind = "absent",
         NEW w \in Range(c.where), w.kind = "properties",
         NEW r \in {w.left, w.right}, r.alias # c.edges[1].alias
  PROVE  r.alias \in Bound(q) \cup EdgeAliasesOf(q)
<1> DEFINE p == [nodes |-> q.nodes, edges |-> q.edges \o c.edges]
<1>1. w \in Comparison /\ ComparisonOk(p, w)
  BY AbsenceParts DEF Plannable
<1>2. r.alias \in Alias
  BY <1>1, PropertiesParts
<1>3. RefOk(p, w.left.alias, w.left.prop, w.op) /\ RefOk(p, w.right.alias, w.right.prop, "eq")
  BY <1>1 DEF ComparisonOk
<1>4. r.alias \in Bound(p) \/ \E i \in DOMAIN p.edges : p.edges[i].alias = r.alias
  <2> HIDE DEF p
  <2>1. CASE r = w.left
    BY <1>3, <2>1, RefIsBound
  <2>2. CASE r = w.right
    BY <1>3, <2>2, RefIsBound
  <2>3. QED  BY <2>1, <2>2
<1>5. Bound(p) = Bound(q)
  BY DEF Bound
<1>6. IsPattern(c) /\ Len(c.edges) = 1
  BY WhereParts DEF Plannable, IsAbsence, AbsenceOk
<1>7. /\ q.edges \in Seq(EdgePattern) /\ c.edges \in Seq(EdgePattern)
      /\ Len(q.edges) \in Nat
  BY <1>6, LenProperties DEF Plannable, IsQuery, IsPattern
<1>8. /\ p.edges \in Seq(EdgePattern) /\ Len(p.edges) = Len(q.edges) + 1
      /\ \A i \in 1 .. Len(q.edges) + 1 :
           p.edges[i] = IF i <= Len(q.edges) THEN q.edges[i] ELSE c.edges[i - Len(q.edges)]
  <2>1. p.edges = q.edges \o c.edges
    OBVIOUS
  <2>2. /\ q.edges \o c.edges \in Seq(EdgePattern)
        /\ Len(q.edges \o c.edges) = Len(q.edges) + Len(c.edges)
        /\ \A i \in 1 .. Len(q.edges) + Len(c.edges) :
             (q.edges \o c.edges)[i] =
               IF i <= Len(q.edges) THEN q.edges[i] ELSE c.edges[i - Len(q.edges)]
    BY <1>7, ConcatProperties
  <2>3. QED  BY <1>6, <2>1, <2>2
<1>9. CASE \E i \in DOMAIN p.edges : p.edges[i].alias = r.alias
  <2>1. DOMAIN p.edges = 1 .. Len(q.edges) + 1
    <3> HIDE DEF p
    <3>1. QED  BY <1>8, LenProperties
  <2>2. PICK i \in 1 .. Len(q.edges) + 1 : p.edges[i].alias = r.alias
    BY <1>9, <2>1
  <2> HIDE DEF p
  <2>3. CASE i <= Len(q.edges)
    <3>1. i \in 1 .. Len(q.edges) /\ q.edges[i].alias = r.alias
      BY <1>7, <1>8, <2>2, <2>3
    <3>2. r.alias # NoAlias
      BY <1>2, DataAssumption
    <3>3. QED  BY <3>1, <3>2, QueryAliases
  <2>4. CASE ~ i <= Len(q.edges)
    <3>1. i - Len(q.edges) = 1
      BY <1>7, <2>4
    <3>2. p.edges[i] = c.edges[1]
      BY <1>8, <2>4, <3>1
    <3>3. QED  BY <2>2, <3>2
  <2>5. QED  BY <2>3, <2>4
<1>10. QED  BY <1>4, <1>5, <1>9

\* No step reads an alias that no earlier step has bound.
LEMMA PlanReadsBound ==
  ASSUME NEW q, Plannable(q), \A c \in Range(Absences(q)) : ~ SelfComparing(c)
  PROVE  ReadsBound(Plan(q))
<1> SUFFICES ASSUME NEW j \in 1 .. Len(Plan(q)), NEW a \in Reads(Plan(q)[j])
             PROVE  a \in BoundBefore(Plan(q), j)
  BY DEF ReadsBound
<1>1. Len(q.edges) \in Nat /\ Len(Absences(q)) \in Nat
  BY PlanSteps
<1>2. Plan(q)[j] # FirstStep(q)
  BY StepAliases
<1>3. ASSUME NEW i \in 1 .. Len(q.edges), j = 1 + i, Plan(q)[j] = HopTo(q, i)
      PROVE  a \in BoundBefore(Plan(q), j)
  <2>1. a = q.nodes[i].alias
    BY <1>3, StepAliases
  <2>2. i \in 1 .. j - 1 /\ i \in 1 .. Len(q.edges) + 1
    BY <1>1, <1>3
  <2>3. a \in Binds(Plan(q)[i])
    BY <2>1, <2>2, BoundBy
  <2>4. QED  BY <2>2, <2>3 DEF BoundBefore
<1>4. ASSUME NEW i \in 1 .. Len(Absences(q)), j = 1 + Len(q.edges) + i,
             Plan(q)[j] = AntiJoin(Absences(q)[i])
      PROVE  a \in BoundBefore(Plan(q), j)
  <2> DEFINE c == Absences(q)[i]
  <2>1. c \in Range(q.where) /\ c.kind = "absent" /\ ~ SelfComparing(c)
    BY AbsencesAre DEF Plannable, Range
  <2> HIDE DEF c
  <2>2. \/ a \in {c.nodes[1].alias, c.nodes[2].alias}
        \/ \E o \in OuterConditions(c) : a = o.alias
    BY <1>4, StepAliases DEF c
  <2>3. a \in {c.nodes[1].alias, c.nodes[2].alias} => a \in Bound(q)
    BY <2>1, AbsenceParts DEF Plannable
  <2>4. ASSUME NEW o \in OuterConditions(c), a = o.alias
        PROVE  a \in Bound(q) \cup EdgeAliasesOf(q)
    <3>1. PICK w \in Range(c.where) :
            /\ w.kind = "properties"
            /\ \/ w.left.alias = c.edges[1].alias /\ o.alias = w.right.alias
               \/ /\ w.left.alias # c.edges[1].alias /\ w.right.alias = c.edges[1].alias
                  /\ o.alias = w.left.alias
      BY DEF OuterConditions
    <3>2. PICK r \in {w.left, w.right} : r.alias = a /\ r.alias # c.edges[1].alias
      BY <2>1, <2>4, <3>1 DEF SelfComparing
    <3>3. QED  BY <2>1, <3>1, <3>2, OuterScope
  <2>5. a \in Bound(q) \cup EdgeAliasesOf(q)
    BY <2>2, <2>3, <2>4
  <2>6. j \in Nat /\ j > Len(q.edges) + 1
    BY <1>1, <1>4
  <2>7. QED  BY <2>5, <2>6, AllAreBound
<1>5. QED  BY <1>2, <1>3, <1>4, StepOfPlan

\* An alias is bound once.
LEMMA PlanBindsOnce ==
  ASSUME NEW q, Plannable(q), Sound(q)
  PROVE  BindsOnce(Plan(q))
<1> DEFINE E == Len(q.edges)
<1>1. /\ E \in Nat
      /\ DOMAIN q.nodes = 1 .. E + 1 /\ DOMAIN q.edges = 1 .. E
  BY PatternParts DEF Plannable, IsQuery
<1>2. /\ \A i, j \in 1 .. E + 1 : i # j => q.nodes[i].alias # q.nodes[j].alias
      /\ \A i, j \in 1 .. E : i # j => q.edges[i].alias = NoAlias \/ q.edges[i].alias # q.edges[j].alias
      /\ \A i \in 1 .. E + 1, j \in 1 .. E :
           q.edges[j].alias # NoAlias => q.nodes[i].alias # q.edges[j].alias
  <2>1. \A i, j \in 1 .. E + 1 : i # j => q.nodes[i].alias # q.nodes[j].alias
    BY <1>1 DEF Sound
  <2>2. \A i, j \in 1 .. E :
          i # j => q.edges[i].alias = NoAlias \/ q.edges[i].alias # q.edges[j].alias
    BY <1>1 DEF Sound
  <2>3. ASSUME NEW i \in 1 .. E + 1, NEW j \in 1 .. E, q.edges[j].alias # NoAlias
        PROVE  q.nodes[i].alias # q.edges[j].alias
    <3>1. q.nodes[i].alias \in Bound(q) /\ q.edges[j].alias \in EdgeAliasesOf(q)
      BY <2>3, QueryAliases
    <3>2. QED  BY <3>1 DEF Sound
  <2>4. QED  BY <2>1, <2>2, <2>3
<1> HIDE DEF E
<1>3. ASSUME NEW j \in 1 .. Len(Plan(q)), NEW k \in 1 .. Len(Plan(q)), k < j,
             NEW a \in Binds(Plan(q)[j]), a \in Binds(Plan(q)[k])
      PROVE  FALSE
  <2>1. \/ j \in 1 .. E + 1 /\ a = q.nodes[j].alias
        \/ j - 1 \in 1 .. E /\ a = q.edges[j - 1].alias /\ a # NoAlias
    BY BindsAt DEF E
  <2>2. \/ k \in 1 .. E + 1 /\ a = q.nodes[k].alias
        \/ k - 1 \in 1 .. E /\ a = q.edges[k - 1].alias /\ a # NoAlias
    BY <1>3, BindsAt DEF E
  <2>3. j # k /\ j - 1 # k - 1
    BY <1>3
  <2>4. QED  BY <1>2, <2>1, <2>2, <2>3
<1>4. ASSUME NEW j \in 1 .. Len(Plan(q)), NEW a \in BoundBefore(Plan(q), j)
      PROVE  a \notin Binds(Plan(q)[j])
  <2>1. PICK k \in 1 .. j - 1 : a \in Binds(Plan(q)[k])
    BY DEF BoundBefore
  <2>2. k \in 1 .. Len(Plan(q)) /\ k < j
    BY PlanSteps
  <2>3. QED  BY <1>3, <2>1, <2>2
<1>5. ASSUME NEW j \in 1 .. Len(Plan(q)), Plan(q)[j].kind = "hop"
      PROVE  Plan(q)[j].edge # Plan(q)[j].to
  <2>1. PICK i \in 1 .. E : Plan(q)[j] = HopTo(q, i)
    BY <1>5, StepOfPlan, StepAliases DEF E
  <2>2. Plan(q)[j].edge = q.edges[i].alias /\ Plan(q)[j].to = q.nodes[i + 1].alias
    BY <2>1 DEF HopTo
  <2>3. i + 1 \in 1 .. E + 1
    BY <1>1
  <2>4. q.nodes[i + 1].alias # NoAlias
    BY <2>3, QueryAliases, DataAssumption DEF E
  <2>5. QED  BY <1>2, <2>2, <2>3, <2>4
<1>6. QED  BY <1>4, <1>5 DEF BindsOnce

LEMMA PlanIsPlan ==
  ASSUME NEW q, Plannable(q)
  PROVE  IsPlan(Plan(q))
<1>1. /\ Plan(q) \in Seq(PlanStep) /\ Len(Plan(q)) > 0
      /\ Plan(q)[1] \in StartStep \cup AllStep
  BY PlanSteps, FirstStepIs
<1>2. ASSUME NEW j \in 2 .. Len(Plan(q))
      PROVE  \/ Plan(q)[j] \in AntiStep
             \/ Plan(q)[j] \in HopStep /\ (Plan(q)[j].edge # NoAlias => Plan(q)[j].max = 1)
  <2>1. j \in 1 .. Len(Plan(q)) /\ j # 1
    BY PlanSteps
  <2>2. ASSUME NEW i \in 1 .. Len(q.edges), Plan(q)[j] = HopTo(q, i)
        PROVE  Plan(q)[j] \in HopStep /\ (Plan(q)[j].edge # NoAlias => Plan(q)[j].max = 1)
    <3>1. HopTo(q, i).edge = q.edges[i].alias /\ HopTo(q, i).max = q.edges[i].max
      BY DEF HopTo
    <3>2. QED  BY <2>2, <3>1, HopIs
  <2>3. ASSUME NEW i \in 1 .. Len(Absences(q)), Plan(q)[j] = AntiJoin(Absences(q)[i])
        PROVE  Plan(q)[j] \in AntiStep
    BY <2>3, AbsencesAre, AntiIs DEF Plannable
  <2>4. QED  BY <2>1, <2>2, <2>3, StepOfPlan
<1>3. QED  BY <1>1, <1>2 DEF IsPlan

\* RETURN names what the plan binds.
LEMMA ReturnsAreBound ==
  ASSUME NEW q, Plannable(q), NEW r \in Range(q.returns)
  PROVE  r.alias \in BoundBefore(Plan(q), Len(Plan(q)) + 1)
<1>1. r.alias \in Alias /\ ReturnOk(q, r)
  BY DEF Plannable, IsQuery, Valid, Range
<1>2. r.alias \in Bound(q) \/ \E i \in DOMAIN q.edges : q.edges[i].alias = r.alias
  <2>1. CASE r.prop = NoProperty
    BY <1>1, <2>1, TypedIsEdge DEF ReturnOk
  <2>2. CASE r.prop # NoProperty
    BY <1>1, <2>2, RefIsBound DEF ReturnOk
  <2>3. QED  BY <2>1, <2>2
<1>3. DOMAIN q.edges = 1 .. Len(q.edges)
  BY PatternParts DEF Plannable, IsQuery
<1>4. r.alias \in Bound(q) \cup EdgeAliasesOf(q)
  BY <1>1, <1>2, <1>3, QueryAliases, DataAssumption
<1>5. Len(Plan(q)) + 1 \in Nat /\ Len(Plan(q)) + 1 > Len(q.edges) + 1
  BY PlanSteps
<1>6. QED  BY <1>4, <1>5, AllAreBound

----------------------------------------------------------------------------
(* What the steps say of a row, against what the query says of it.         *)

LEMMA RowParts ==
  ASSUME NEW q, Plannable(q), Bound(q) \cap EdgeAliasesOf(q) = {},
         NEW g, IsGraph(g), NEW b \in RowsFor(g, q)
  PROVE  /\ DOMAIN b = Alias
         /\ \A a \in Bound(q) : b[a] \in DOMAIN g.node /\ b[a] \in NodeId
         /\ \A a \in EdgeAliasesOf(q) :
              b[a] \in DOMAIN g.edge /\ b[a] \in EdgeId /\ b[a] \notin NodeId
<1>1. PICK nb \in [Bound(q) -> DOMAIN g.node], eb \in [EdgeAliasesOf(q) -> DOMAIN g.edge] :
        b = [a \in Alias |-> IF a \in Bound(q) THEN nb[a]
                             ELSE IF a \in EdgeAliasesOf(q) THEN eb[a] ELSE Unbound]
  BY DEF RowsFor
<1>2. Bound(q) \subseteq Alias /\ EdgeAliasesOf(q) \subseteq Alias
  BY QueryAliases
<1>3. DOMAIN g.node \subseteq NodeId /\ DOMAIN g.edge \subseteq EdgeId
  BY DEF IsGraph
<1>4. \A a \in EdgeAliasesOf(q) : a \notin Bound(q)
  OBVIOUS
<1>5. NodeId \cap EdgeId = {}
  BY DataAssumption
<1>6. DOMAIN b = Alias
  BY <1>1
<1>7. \A a \in Bound(q) : b[a] \in DOMAIN g.node
  BY <1>1, <1>2
<1>8. \A a \in EdgeAliasesOf(q) : b[a] \in DOMAIN g.edge
  BY <1>1, <1>2, <1>4
<1>9. QED  BY <1>3, <1>5, <1>6, <1>7, <1>8

LEMMA EndsOfHop ==
  ASSUME NEW q, Plannable(q), NEW i \in 1 .. Len(q.edges)
  PROVE  q.nodes[i].alias \in Bound(q) /\ q.nodes[i + 1].alias \in Bound(q)
BY HopIs DEF Bound

\* The step for the first node: its label, and the condition looked up.
LEMMA FirstMeans ==
  ASSUME NEW q, Plannable(q), Sound(q), NEW g, IsGraph(g), NEW b \in RowsFor(g, q)
  PROVE  LET row == g.node[b[q.nodes[1].alias]] IN
         StepHolds(g, NodeId, FirstStep(q), b) <=>
           row.label = q.nodes[1].label /\ \A f \in StartFilters(q) : Holds(row.props, f)
<1> DEFINE s == FirstStep(q)
           row == g.node[b[q.nodes[1].alias]]
<1>1. /\ s.kind \in {"start", "all"}
      /\ s.to = q.nodes[1].alias /\ s.label = q.nodes[1].label
  BY FirstStepIs DEF StartStep, AllStep
<1>2. b[s.to] \in DOMAIN g.node \cap NodeId
  BY <1>1, StartParts, RowParts DEF Sound, Bound, Range
<1>3. StepHolds(g, NodeId, s, b) <=> Selects(g, s, b[s.to])
  <2> HIDE DEF s
  <2>1. QED  BY <1>1, <1>2 DEF StepHolds
<1>4. CASE s.kind = "all"
  <2>1. StartFilters(q) = {}
    BY <1>4, FirstStepIs
  <2>2. Selects(g, s, b[s.to]) <=> row.label = q.nodes[1].label
    <3> HIDE DEF s
    <3>1. QED  BY <1>1, <1>4 DEF Selects
  <2>3. QED  BY <1>3, <2>1, <2>2
<1>5. CASE s.kind = "start"
  <2>1. PICK f \in StartFilters(q) : s.prop = f.prop /\ s.key = f.val
    BY <1>5, FirstStepIs
  <2>2. f \in Filter /\ f.op = "eq" /\ \A h \in StartFilters(q) : h = f
    BY <2>1, StartParts
  <2>3. <<q.nodes[1].label, f.prop>> \in Indexed
    BY DEF Sound
  <2>4. Holds(row.props, f) <=> row.props[f.prop] = f.val
    BY <2>2 DEF Holds, Filter
  <2>5. Selects(g, s, b[s.to]) <=>
          row.label = q.nodes[1].label /\ row.props[f.prop] = f.val
    <3> HIDE DEF s
    <3>1. QED  BY <1>1, <1>5, <2>1, <2>3 DEF Selects
  <2>6. QED  BY <1>3, <2>1, <2>2, <2>4, <2>5
<1>6. QED  BY <1>1, <1>4, <1>5

\* The step for an edge: the edge or the walk, and the conditions carried.
LEMMA HopMeans ==
  ASSUME NEW q, Plannable(q), Sound(q), NEW g, IsGraph(g), NEW b \in RowsFor(g, q),
         NEW i \in 1 .. Len(q.edges)
  PROVE  StepHolds(g, NodeId, HopTo(q, i), b) <=>
           /\ EdgeFits(g, b, q.nodes[i].alias, q.edges[i], q.nodes[i + 1].alias)
           /\ AllHold(g.node[b[q.nodes[i + 1].alias]].props, HopFilters(q, q.nodes[i + 1]))
<1> DEFINE s == HopTo(q, i)
           e == q.edges[i]
           from == q.nodes[i].alias
           to == q.nodes[i + 1].alias
<1>1. /\ s.kind = "hop" /\ s.from = from /\ s.to = to /\ s.edge = e.alias
      /\ s.type = e.type /\ s.dir = e.dir /\ s.min = e.min /\ s.max = e.max
      /\ s.filters = HopFilters(q, q.nodes[i + 1])
  BY DEF HopTo
<1>2. b[to] \in DOMAIN g.node /\ b[to] \in NodeId
  BY EndsOfHop, RowParts DEF Sound
<1>3. e.alias # NoAlias => e.min = 1 /\ e.max = 1
  BY HopIs
<1> HIDE DEF s, e, from, to
<1>4. \A n : Exits(g, NodeId, s, n) = Exits(g, NodeId, e, n)
  BY <1>1 DEF Exits
<1>5. \A a, z, d : Walk(g, NodeId, s, a, z, d) <=> Walk(g, NodeId, e, a, z, d)
  BY <1>1, <1>4 DEF Walk
<1>6. (s.filters = {} \/ Passes(g, NodeId, s, b)) <=> AllHold(g.node[b[to]].props, s.filters)
  BY <1>1, <1>2 DEF Passes, AllHold
<1>7. CASE e.alias = NoAlias
  <2>1. EdgeFits(g, b, from, e, to) <=>
          \E d \in 1 .. e.max : d >= e.min /\ Walk(g, NodeId, e, b[from], b[to], d)
    BY <1>7 DEF EdgeFits
  <2>2. StepHolds(g, NodeId, s, b) <=>
          /\ \E d \in 1 .. s.max : d >= s.min /\ Walk(g, NodeId, s, b[s.from], b[s.to], d)
          /\ s.filters = {} \/ Passes(g, NodeId, s, b)
    BY <1>1, <1>7 DEF StepHolds
  <2>3. (\E d \in 1 .. s.max : d >= s.min /\ Walk(g, NodeId, s, b[s.from], b[s.to], d))
        <=> (\E d \in 1 .. e.max : d >= e.min /\ Walk(g, NodeId, e, b[from], b[to], d))
    BY <1>1, <1>5
  <2>4. QED  BY <1>1, <1>6, <2>1, <2>2, <2>3 DEF s, e, from, to
<1>8. CASE e.alias # NoAlias
  <2>1. EdgeFits(g, b, from, e, to) <=>
          b[e.alias] \in Exits(g, NodeId, e, b[from]) /\ Far(g.edge[b[e.alias]], e.dir) = b[to]
    BY <1>8 DEF EdgeFits
  <2>2. StepHolds(g, NodeId, s, b) <=>
          /\ b[s.edge] \in Exits(g, NodeId, s, b[s.from])
          /\ b[s.to] = Far(g.edge[b[s.edge]], s.dir)
          /\ s.min <= s.max
          /\ s.filters = {} \/ Passes(g, NodeId, s, b)
    BY <1>1, <1>8 DEF StepHolds
  <2>3. s.min <= s.max
    BY <1>1, <1>3, <1>8
  <2>4. QED  BY <1>1, <1>4, <1>6, <2>1, <2>2, <2>3 DEF s, e, from, to
<1>9. QED  BY <1>7, <1>8

\* A comparison turned round says the same.
LEMMA FlipMeans ==
  ASSUME NEW op \in Op, NEW ps, NEW k, NEW rs, NEW h, rs[h] \in Value
  PROVE  Holds(ps, [prop |-> k, op |-> FlipOp(op), val |-> rs[h]]) <=>
           ps[k] \in Value /\ Holds(rs, [prop |-> h, op |-> op, val |-> ps[k]])
<1> DEFINE f == [prop |-> k, op |-> FlipOp(op), val |-> rs[h]]
           r == [prop |-> h, op |-> op, val |-> ps[k]]
<1>1. CASE ps[k] \notin Value
  BY <1>1 DEF Holds
<1>2. CASE ps[k] \in Value
  <2> DEFINE u == rs[h]
             v == ps[k]
  <2>1. u \in Int /\ v \in Int
    BY <1>2, DataAssumption
  <2>2. Holds(ps, f) <=> \/ f.op = "eq"  /\ v = u
                         \/ f.op = "ne"  /\ v # u
                         \/ f.op = "lt"  /\ v < u
                         \/ f.op = "lte" /\ v <= u
                         \/ f.op = "gt"  /\ v > u
                         \/ f.op = "gte" /\ v >= u
    BY <1>2 DEF Holds
  <2>3. Holds(rs, r) <=> \/ op = "eq"  /\ u = v
                         \/ op = "ne"  /\ u # v
                         \/ op = "lt"  /\ u < v
                         \/ op = "lte" /\ u <= v
                         \/ op = "gt"  /\ u > v
                         \/ op = "gte" /\ u >= v
    BY DEF Holds
  <2>4. f.op = FlipOp(op)
    OBVIOUS
  <2> HIDE DEF f, r, u, v
  <2>5. op \in {"eq", "ne"} => (Holds(ps, f) <=> Holds(rs, r))
    BY <2>2, <2>3, <2>4 DEF FlipOp
  <2>6. op \in {"lt", "gt"} => (Holds(ps, f) <=> Holds(rs, r))
    BY <2>1, <2>2, <2>3, <2>4 DEF FlipOp
  <2>7. op \in {"lte", "gte"} => (Holds(ps, f) <=> Holds(rs, r))
    BY <2>1, <2>2, <2>3, <2>4 DEF FlipOp
  <2>8. Holds(ps, f) <=> Holds(rs, r)
    BY <2>5, <2>6, <2>7 DEF Op
  <2>9. QED  BY <1>2, <2>8 DEF f, r
<1>3. QED  BY <1>1, <1>2

\* The binding a NOT EXISTS is tried with, and what one of its conditions
\* asks of the edge tried.
With(b, c, e) ==
  LET a == c.edges[1].alias IN IF a = NoAlias THEN b ELSE [b EXCEPT ![a] = e]

Asked(g, b, c, w) ==
  IF w.kind = "property" THEN w.filter
  ELSE IF w.left.alias = c.edges[1].alias
  THEN [prop |-> w.left.prop, op |-> w.op,
        val |-> PropsOf(g, b[w.right.alias])[w.right.prop]]
  ELSE [prop |-> w.right.prop, op |-> FlipOp(w.op),
        val |-> PropsOf(g, b[w.left.alias])[w.left.prop]]

\* A correlated condition, by the side its edge is on.
LEMMA CorrelatedKinds ==
  ASSUME NEW q, Plannable(q), NEW c \in Range(q.where), c.kind = "absent", Correlated(c),
         NEW w \in Range(c.where)
  PROVE  LET a == c.edges[1].alias IN
         /\ a \in Alias
         /\ \/ w.kind = "property" /\ w.alias = a
            \/ /\ w.kind = "properties" /\ w.left.alias = a
               /\ w.right.alias # a /\ w.right.alias \in Alias /\ w.op \in Op
            \/ /\ w.kind = "properties" /\ w.right.alias = a
               /\ w.left.alias # a /\ w.left.alias \in Alias /\ w.op \in Op
<1> DEFINE a == c.edges[1].alias
<1>1. w \in Comparison
  BY AbsenceParts DEF Plannable
<1>2. \/ w.kind = "property" /\ w.alias = a
      \/ w.kind = "properties" /\ w.left.alias = a /\ w.right.alias # a
      \/ w.kind = "properties" /\ w.right.alias = a /\ w.left.alias # a
  BY DEF Correlated
<1>3. w.kind = "property" => w.alias \in Alias
  BY <1>1, PropertyParts
<1>4. w.kind = "properties" =>
        w.left.alias \in Alias /\ w.right.alias \in Alias /\ w.op \in Op
  BY <1>1, PropertiesParts
<1> HIDE DEF a
<1>5. QED  BY <1>2, <1>3, <1>4 DEF a

LEMMA ConditionsAre ==
  ASSUME NEW q, Plannable(q), NEW c \in Range(q.where), c.kind = "absent", Correlated(c),
         NEW g, NEW b
  PROVE  Conditions(g, AntiJoin(c), b) = {Asked(g, b, c, w) : w \in Range(c.where)}
<1> DEFINE a == c.edges[1].alias
           ValueOf(o) == [prop |-> o.prop, op |-> o.op, val |-> PropsOf(g, b[o.alias])[o.outer]]
<1>1. Conditions(g, AntiJoin(c), b) =
        InnerConditions(c) \cup {ValueOf(o) : o \in OuterConditions(c)}
  BY DEF Conditions, AntiJoin
<1>2. ASSUME NEW f \in InnerConditions(c) PROVE \E w \in Range(c.where) : f = Asked(g, b, c, w)
  BY DEF InnerConditions, Asked
<1>3. ASSUME NEW o \in OuterConditions(c)
      PROVE  \E w \in Range(c.where) : ValueOf(o) = Asked(g, b, c, w)
  <2>1. PICK w \in Range(c.where) :
          /\ w.kind = "properties"
          /\ \/ /\ w.left.alias = a
                /\ o = [prop |-> w.left.prop, op |-> w.op,
                        alias |-> w.right.alias, outer |-> w.right.prop]
             \/ /\ w.left.alias # a /\ w.right.alias = a
                /\ o = [prop |-> w.right.prop, op |-> FlipOp(w.op),
                        alias |-> w.left.alias, outer |-> w.left.prop]
    BY DEF OuterConditions
  <2>2. ValueOf(o) = Asked(g, b, c, w)
    BY <2>1 DEF Asked
  <2>3. QED  BY <2>2
<1>4. ASSUME NEW w \in Range(c.where)
      PROVE  Asked(g, b, c, w) \in InnerConditions(c) \cup {ValueOf(o) : o \in OuterConditions(c)}
  <2>1. CASE w.kind = "property" /\ w.alias = a
    BY <2>1 DEF InnerConditions, Asked
  <2>2. CASE w.kind = "properties" /\ w.left.alias = a
    <3> DEFINE o == [prop |-> w.left.prop, op |-> w.op,
                     alias |-> w.right.alias, outer |-> w.right.prop]
    <3>1. o \in OuterConditions(c)
      BY <2>2 DEF OuterConditions
    <3>2. ValueOf(o) = Asked(g, b, c, w)
      BY <2>2 DEF Asked
    <3>3. QED  BY <3>1, <3>2
  <2>3. CASE w.kind = "properties" /\ w.right.alias = a /\ w.left.alias # a
    <3> DEFINE o == [prop |-> w.right.prop, op |-> FlipOp(w.op),
                     alias |-> w.left.alias, outer |-> w.left.prop]
    <3>1. o \in OuterConditions(c)
      BY <2>3 DEF OuterConditions
    <3>2. ValueOf(o) = Asked(g, b, c, w)
      BY <2>3 DEF Asked
    <3>3. QED  BY <3>1, <3>2
  <2>4. QED  BY <2>1, <2>2, <2>3, CorrelatedKinds
<1>5. QED  BY <1>1, <1>2, <1>3, <1>4

LEMMA AskedMeans ==
  ASSUME NEW q, Plannable(q), Sound(q), NEW g, IsGraph(g), NEW b \in RowsFor(g, q),
         NEW c \in Range(q.where), c.kind = "absent", Correlated(c),
         \A r \in Outside(c) : PropsOf(g, b[r.alias])[r.prop] \in Value,
         NEW e \in DOMAIN g.edge, NEW w \in Range(c.where)
  PROVE  ComparisonHolds(g, With(b, c, e), w) <=> Holds(g.edge[e].props, Asked(g, b, c, w))
<1> DEFINE a == c.edges[1].alias
           bb == With(b, c, e)
<1>1. a \in Alias /\ a # NoAlias
  BY CorrelatedKinds, DataAssumption
<1>2. DOMAIN b = Alias
  BY RowParts DEF Sound
<1>3. bb[a] = e /\ \A x : x # a => bb[x] = b[x]
  BY <1>1, <1>2 DEF With
<1>4. PropsOf(g, e) = g.edge[e].props
  BY DataAssumption DEF PropsOf, IsGraph
<1> HIDE DEF a, bb
<1>5. CASE w.kind = "property" /\ w.alias = a
  BY <1>3, <1>4, <1>5 DEF ComparisonHolds, Asked, bb
<1>6. CASE w.kind = "properties" /\ w.left.alias = a /\ w.right.alias # a
  <2> DEFINE v == PropsOf(g, b[w.right.alias])[w.right.prop]
  <2>1. w.right \in Outside(c)
    BY <1>6 DEF Outside, a
  <2>2. v \in Value
    BY <2>1
  <2>3. ComparisonHolds(g, bb, w) <=>
          LET u == PropsOf(g, bb[w.right.alias])[w.right.prop] IN
          /\ u \in Value
          /\ Holds(PropsOf(g, bb[w.left.alias]), [prop |-> w.left.prop, op |-> w.op, val |-> u])
    BY <1>6 DEF ComparisonHolds
  <2>4. ComparisonHolds(g, bb, w) <=>
          v \in Value /\ Holds(g.edge[e].props, [prop |-> w.left.prop, op |-> w.op, val |-> v])
    BY <1>3, <1>4, <1>6, <2>3
  <2>5. Asked(g, b, c, w) = [prop |-> w.left.prop, op |-> w.op, val |-> v]
    BY <1>6 DEF Asked, a
  <2>6. QED  BY <2>2, <2>4, <2>5 DEF bb
<1>7. CASE w.kind = "properties" /\ w.right.alias = a /\ w.left.alias # a /\ w.op \in Op
  <2> DEFINE ps == g.edge[e].props
             rs == PropsOf(g, b[w.left.alias])
  <2>1. w.left \in Outside(c)
    BY <1>7 DEF Outside, a
  <2>2. rs[w.left.prop] \in Value
    BY <2>1
  <2>3. ComparisonHolds(g, bb, w) <=>
          LET u == PropsOf(g, bb[w.right.alias])[w.right.prop] IN
          /\ u \in Value
          /\ Holds(PropsOf(g, bb[w.left.alias]), [prop |-> w.left.prop, op |-> w.op, val |-> u])
    BY <1>7 DEF ComparisonHolds
  <2>4. ComparisonHolds(g, bb, w) <=>
          /\ ps[w.right.prop] \in Value
          /\ Holds(rs, [prop |-> w.left.prop, op |-> w.op, val |-> ps[w.right.prop]])
    BY <1>3, <1>4, <1>7, <2>3
  <2>5. Asked(g, b, c, w) =
          [prop |-> w.right.prop, op |-> FlipOp(w.op), val |-> rs[w.left.prop]]
    BY <1>7 DEF Asked, a
  <2> HIDE DEF ps, rs
  <2>6. Holds(ps, Asked(g, b, c, w)) <=>
          /\ ps[w.right.prop] \in Value
          /\ Holds(rs, [prop |-> w.left.prop, op |-> w.op, val |-> ps[w.right.prop]])
    BY <1>7, <2>2, <2>5, FlipMeans
  <2>7. QED  BY <2>4, <2>6 DEF bb, ps
<1>8. QED  BY <1>5, <1>6, <1>7, CorrelatedKinds DEF a

\* The step for a NOT EXISTS.
LEMMA AntiMeans ==
  ASSUME NEW q, Plannable(q), Sound(q), NEW g, IsGraph(g), NEW b \in RowsFor(g, q),
         NEW c \in Range(q.where), c.kind = "absent", Correlated(c)
  PROVE  StepHolds(g, NodeId, AntiJoin(c), b) <=> AbsenceHolds(g, b, c)
<1> DEFINE s == AntiJoin(c)
           from == c.nodes[1].alias
           to == c.nodes[2].alias
           valued == \A r \in Outside(c) : PropsOf(g, b[r.alias])[r.prop] \in Value
           near == {e \in DOMAIN g.edge : /\ e \in Exits(g, NodeId, c.edges[1], b[from])
                                          /\ g.edge[e].dst = b[to]}
<1>1. /\ s.kind = "anti" /\ s.from = from /\ s.to = to
      /\ s.type = c.edges[1].type /\ s.dir = c.edges[1].dir /\ s.outer = OuterConditions(c)
  BY DEF AntiJoin
<1>2. c.edges[1].dir = "out" /\ b[from] \in NodeId
  <2>1. c.edges[1].dir = "out" /\ from \in Bound(q)
    BY AbsenceParts DEF Plannable
  <2>2. QED  BY <2>1, RowParts DEF Sound
<1>3. Resolvable(g, NodeId, s, b) <=> valued
  <2>1. ASSUME NEW o \in OuterConditions(c), valued
        PROVE  b[o.alias] \in ReadableRows(g, NodeId) /\ PropsOf(g, b[o.alias])[o.outer] \in Value
    <3>1. PICK w \in Range(c.where) :
            /\ w.kind = "properties"
            /\ \/ /\ w.left.alias = c.edges[1].alias
                  /\ o.alias = w.right.alias /\ o.outer = w.right.prop
               \/ /\ w.left.alias # c.edges[1].alias
                  /\ o.alias = w.left.alias /\ o.outer = w.left.prop
      BY DEF OuterConditions
    <3>2. PICK r \in {w.left, w.right} :
            r.alias # c.edges[1].alias /\ o.alias = r.alias /\ o.outer = r.prop
      BY <3>1, CorrelatedKinds
    <3>3. r \in Outside(c)
      BY <3>1, <3>2 DEF Outside
    <3>4. r.alias \in Bound(q) \cup EdgeAliasesOf(q)
      BY <3>1, <3>2, OuterScope
    <3>5. b[r.alias] \in ReadableRows(g, NodeId)
      BY <3>4, RowParts DEF Sound, ReadableRows, IsGraph, EdgeRow
    <3>6. QED  BY <2>1, <3>2, <3>3, <3>5
  <2>2. ASSUME NEW r \in Outside(c), Resolvable(g, NodeId, s, b)
        PROVE  PropsOf(g, b[r.alias])[r.prop] \in Value
    <3>1. PICK w \in Range(c.where) :
            w.kind = "properties" /\ r \in {w.left, w.right} /\ r.alias # c.edges[1].alias
      BY DEF Outside
    <3>2. \E o \in OuterConditions(c) : o.alias = r.alias /\ o.outer = r.prop
      <4>1. CASE w.left.alias = c.edges[1].alias
        <5> DEFINE o == [prop |-> w.left.prop, op |-> w.op,
                         alias |-> w.right.alias, outer |-> w.right.prop]
        <5>1. o \in OuterConditions(c)
          BY <3>1, <4>1 DEF OuterConditions
        <5>2. r = w.right
          BY <3>1, <4>1
        <5>3. QED  BY <5>1, <5>2
      <4>2. CASE w.left.alias # c.edges[1].alias
        <5> DEFINE o == [prop |-> w.right.prop, op |-> FlipOp(w.op),
                         alias |-> w.left.alias, outer |-> w.left.prop]
        <5>1. w.right.alias = c.edges[1].alias
          BY <3>1, <4>2, CorrelatedKinds
        <5>2. o \in OuterConditions(c)
          BY <3>1, <4>2, <5>1 DEF OuterConditions
        <5>3. r = w.left
          BY <3>1, <5>1
        <5>4. QED  BY <5>2, <5>3
      <4>3. QED  BY <4>1, <4>2
    <3>3. QED  BY <1>1, <2>2, <3>2 DEF Resolvable
  <2> HIDE DEF s
  <2>3. valued => Resolvable(g, NodeId, s, b)
    BY <1>1, <2>1 DEF Resolvable
  <2>4. QED  BY <2>2, <2>3
<1>4. {e \in Exits(g, NodeId, s, b[s.from]) : Far(g.edge[e], s.dir) = b[s.to]} = near
  <2> HIDE DEF s
  <2>1. QED  BY <1>1, <1>2 DEF Exits, Far
<1>5. StepHolds(g, NodeId, s, b) <=>
        /\ valued
        /\ \A e \in near : ~ AllHold(g.edge[e].props, Conditions(g, s, b))
  <2> HIDE DEF s, near, valued
  <2>1. StepHolds(g, NodeId, s, b) <=> NoSuchEdge(g, NodeId, s, b)
    BY <1>1 DEF StepHolds
  <2>2. NoSuchEdge(g, NodeId, s, b) <=>
          /\ Resolvable(g, NodeId, s, b)
          /\ \A e \in {x \in Exits(g, NodeId, s, b[s.from]) : Far(g.edge[x], s.dir) = b[s.to]} :
               ~ AllHold(g.edge[e].props, Conditions(g, s, b))
    BY <1>1, <1>2 DEF NoSuchEdge
  <2>3. QED  BY <1>3, <1>4, <2>1, <2>2
<1>6. AbsenceHolds(g, b, c) <=>
        /\ valued
        /\ \A e \in near : ~ \A w \in Range(c.where) : ComparisonHolds(g, With(b, c, e), w)
  BY DEF AbsenceHolds, With
<1>7. ASSUME valued, NEW e \in DOMAIN g.edge
      PROVE  AllHold(g.edge[e].props, Conditions(g, s, b)) <=>
               \A w \in Range(c.where) : ComparisonHolds(g, With(b, c, e), w)
  <2>1. \A w \in Range(c.where) :
          ComparisonHolds(g, With(b, c, e), w) <=> Holds(g.edge[e].props, Asked(g, b, c, w))
    BY <1>7, AskedMeans
  <2>2. Conditions(g, s, b) = {Asked(g, b, c, w) : w \in Range(c.where)}
    BY ConditionsAre
  <2>3. QED  BY <2>1, <2>2 DEF AllHold
<1>8. QED  BY <1>5, <1>6, <1>7

----------------------------------------------------------------------------
(* The answers of a plan.                                                  *)

LEMMA HeldFilters ==
  ASSUME NEW q, NEW g, NEW b, NEW a,
         \A c \in Range(q.where) : c.kind = "property" => ComparisonHolds(g, b, c)
  PROVE  AllHold(PropsOf(g, b[a]), FiltersOn(q, a))
<1> SUFFICES ASSUME NEW f \in FiltersOn(q, a) PROVE Holds(PropsOf(g, b[a]), f)
  BY DEF AllHold
<1>1. PICK i \in OnAlias(q, a) : f = q.where[i].filter
  BY DEF FiltersOn
<1> DEFINE c == q.where[i]
<1>2. c \in Range(q.where) /\ c.kind = "property" /\ c.alias = a
  BY DEF OnAlias, Range
<1>3. ComparisonHolds(g, b, c)
  BY <1>2
<1> HIDE DEF c
<1>4. Holds(PropsOf(g, b[c.alias]), c.filter)
  BY <1>2, <1>3 DEF ComparisonHolds
<1>5. QED  BY <1>1, <1>2, <1>4 DEF c

\* What the query means, its plan answers.
LEMMA NoRowIsLost ==
  ASSUME NEW q, Plannable(q), Sound(q), AbsencesCarried(q), NEW g, IsGraph(g)
  PROVE  Meaning(g, q) \subseteq Answer(g, NodeId, Plan(q))
<1> SUFFICES ASSUME NEW b \in Meaning(g, q) PROVE b \in Answer(g, NodeId, Plan(q))
  OBVIOUS
<1>1. /\ b \in RowsFor(g, q) /\ PatternFits(g, b, q)
      /\ \A c \in Range(q.where) :
           IF c.kind = "absent" THEN AbsenceHolds(g, b, c) ELSE ComparisonHolds(g, b, c)
  BY DEF Meaning
<1>2. \A n \in Range(q.nodes) : b[n.alias] \in NodeId /\ NodeFits(g, b, n)
  <2>1. \A n \in Range(q.nodes) : n.alias \in Bound(q)
    BY DEF Bound, Range
  <2>2. QED  BY <1>1, <2>1, RowParts DEF PatternFits, Sound
<1>3. \A n \in Range(q.nodes) : AllHold(g.node[b[n.alias]].props, FiltersOn(q, n.alias))
  <2>1. \A n \in Range(q.nodes) : PropsOf(g, b[n.alias]) = g.node[b[n.alias]].props
    BY <1>2 DEF PropsOf
  <2>2. \A a : AllHold(PropsOf(g, b[a]), FiltersOn(q, a))
    BY <1>1, HeldFilters
  <2>3. QED  BY <2>1, <2>2
<1>4. StepHolds(g, NodeId, FirstStep(q), b)
  <2> DEFINE n == q.nodes[1]
             row == g.node[b[n.alias]]
  <2>1. n \in Range(q.nodes) /\ n.label \in Label
    BY StartParts
  <2>2. row.label = n.label /\ AllHold(row.props, Range(n.inline))
    BY <1>2, <2>1, QueriesAssumption DEF NodeFits
  <2>3. \A f \in StartFilters(q) : Holds(row.props, f)
    <3>1. CASE n.inline # <<>>
      <4>1. n.inline[1] \in Range(n.inline)
        BY <3>1, StartParts, InlineParts DEF Range
      <4>2. StartFilters(q) = {n.inline[1]}
        BY <3>1 DEF StartFilters
      <4>3. QED  BY <2>2, <4>1, <4>2 DEF AllHold
    <3>2. CASE n.inline = <<>>
      <4>1. StartFilters(q) = FiltersOn(q, n.alias)
        BY <3>2 DEF StartFilters
      <4>2. QED  BY <1>3, <2>1, <4>1 DEF AllHold
    <3>3. QED  BY <3>1, <3>2
  <2>4. QED  BY <1>1, <2>2, <2>3, FirstMeans
<1>5. ASSUME NEW i \in 1 .. Len(q.edges) PROVE StepHolds(g, NodeId, HopTo(q, i), b)
  <2>1. i \in DOMAIN q.edges /\ q.nodes[i + 1] \in Range(q.nodes)
    BY HopIs, PatternParts DEF Plannable, IsQuery
  <2>2. EdgeFits(g, b, q.nodes[i].alias, q.edges[i], q.nodes[i + 1].alias)
    BY <1>1, <2>1 DEF PatternFits
  <2>3. AllHold(g.node[b[q.nodes[i + 1].alias]].props, HopFilters(q, q.nodes[i + 1]))
    BY <1>3, <2>1 DEF HopFilters, AllHold
  <2>4. QED  BY <1>1, <2>2, <2>3, HopMeans
<1>6. ASSUME NEW i \in 1 .. Len(Absences(q))
      PROVE  StepHolds(g, NodeId, AntiJoin(Absences(q)[i]), b)
  <2> DEFINE c == Absences(q)[i]
  <2>1. c \in Range(q.where) /\ c.kind = "absent" /\ c \in Range(Absences(q))
    BY AbsencesAre DEF Plannable, Range
  <2> HIDE DEF c
  <2>2. Correlated(c) /\ AbsenceHolds(g, b, c)
    BY <1>1, <2>1 DEF AbsencesCarried
  <2>3. StepHolds(g, NodeId, AntiJoin(c), b)
    BY <1>1, <2>1, <2>2, AntiMeans
  <2>4. QED  BY <2>3 DEF c
<1>7. \A j \in 1 .. Len(Plan(q)) : StepHolds(g, NodeId, Plan(q)[j], b)
  BY <1>4, <1>5, <1>6, StepOfPlan
<1>8. b \in Candidates(g, Plan(q))
  BY <1>1, SameRows
<1>9. QED  BY <1>7, <1>8 DEF Answer, Satisfies

\* A walk of one edge or more arrives over an edge of the type asked for.
LEMMA LastEdge ==
  ASSUME NEW g, NEW e, NEW a, NEW z, NEW d \in Nat, d >= 1, Walk(g, NodeId, e, a, z, d)
  PROVE  \E n : \E x \in Exits(g, NodeId, e, n) : Far(g.edge[x], e.dir) = z
<1>1. PICK w : /\ w[d] = z
               /\ \A i \in 0 .. d - 1 :
                    \E x \in Exits(g, NodeId, e, w[i]) : Far(g.edge[x], e.dir) = w[i + 1]
  BY DEF Walk
<1>2. d - 1 \in 0 .. d - 1 /\ (d - 1) + 1 = d
  OBVIOUS
<1>3. \E x \in Exits(g, NodeId, e, w[d - 1]) : Far(g.edge[x], e.dir) = z
  BY <1>1, <1>2
<1>4. QED  BY <1>3

\* The target of a hop has the label the schema gives that end.
LEMMA TargetLabel ==
  ASSUME NEW q, Plannable(q), NEW g, IsGraph(g), Conforms(g), NEW b,
         NEW i \in 1 .. Len(q.edges), Typed(q, i),
         EdgeFits(g, b, q.nodes[i].alias, q.edges[i], q.nodes[i + 1].alias)
  PROVE  q.nodes[i + 1].label \in {AnyLabel, g.node[b[q.nodes[i + 1].alias]].label}
<1> DEFINE e == q.edges[i]
           to == q.nodes[i + 1].alias
<1>1. e \in EdgePattern
  BY HopIs
<1>2. PICK x : Far(g.edge[x], e.dir) = b[to] /\ \E n : x \in Exits(g, NodeId, e, n)
  <2>1. CASE e.alias # NoAlias
    BY <2>1 DEF EdgeFits
  <2>2. CASE e.alias = NoAlias
    <3>1. PICK d \in 1 .. e.max : Walk(g, NodeId, e, b[q.nodes[i].alias], b[to], d)
      BY <2>2 DEF EdgeFits
    <3>2. d \in Nat /\ d >= 1
      BY <1>1 DEF EdgePattern
    <3>3. QED  BY <3>1, <3>2, LastEdge
  <2>3. QED  BY <2>1, <2>2
<1>3. x \in DOMAIN g.edge /\ TypeMatches(e.type, g.edge[x].type)
  BY <1>2 DEF Exits
<1>4. /\ g.node[g.edge[x].src].label = EdgeDef[g.edge[x].type].from
      /\ g.node[g.edge[x].dst].label = EdgeDef[g.edge[x].type].to
  BY <1>3 DEF Conforms
<1>5. CASE q.nodes[i + 1].label # AnyLabel
  <2>1. /\ e.type # AnyType
        /\ q.nodes[i + 1].label =
             IF e.dir = "out" THEN EdgeDef[e.type].to ELSE EdgeDef[e.type].from
    BY <1>5 DEF Typed
  <2>2. g.edge[x].type = e.type
    BY <1>3, <2>1 DEF TypeMatches
  <2>3. g.node[b[to]].label =
          IF e.dir = "out" THEN EdgeDef[e.type].to ELSE EdgeDef[e.type].from
    BY <1>2, <1>4, <2>2 DEF Far
  <2>4. QED  BY <2>1, <2>3
<1>6. QED  BY <1>5

\* What the plan answers, the query means, when all of it has a place there.
LEMMA AnswersAreMeant ==
  ASSUME NEW q, Plannable(q), Sound(q), FullyCarried(q), NEW g, IsGraph(g), Conforms(g)
  PROVE  Answer(g, NodeId, Plan(q)) \subseteq Meaning(g, q)
<1> SUFFICES ASSUME NEW b \in Answer(g, NodeId, Plan(q)) PROVE b \in Meaning(g, q)
  OBVIOUS
<1>1. b \in RowsFor(g, q) /\ \A j \in 1 .. Len(Plan(q)) : StepHolds(g, NodeId, Plan(q)[j], b)
  BY SameRows DEF Answer, Satisfies
<1>2. /\ Len(q.edges) \in Nat
      /\ StepHolds(g, NodeId, FirstStep(q), b)
      /\ \A i \in 1 .. Len(q.edges) : StepHolds(g, NodeId, HopTo(q, i), b)
      /\ \A i \in 1 .. Len(Absences(q)) : StepHolds(g, NodeId, AntiJoin(Absences(q)[i]), b)
  <2>1. /\ Len(q.edges) \in Nat /\ Len(Absences(q)) \in Nat
        /\ Len(Plan(q)) = 1 + Len(q.edges) + Len(Absences(q))
    BY PlanSteps
  <2>2. /\ 1 \in 1 .. Len(Plan(q))
        /\ \A i \in 1 .. Len(q.edges) : 1 + i \in 1 .. Len(Plan(q))
        /\ \A i \in 1 .. Len(Absences(q)) : 1 + Len(q.edges) + i \in 1 .. Len(Plan(q))
    BY <2>1
  <2>3. StepHolds(g, NodeId, FirstStep(q), b)
    BY <1>1, <2>2, PlanSteps
  <2>4. ASSUME NEW i \in 1 .. Len(q.edges) PROVE StepHolds(g, NodeId, HopTo(q, i), b)
    BY <1>1, <2>2, PlanSteps
  <2>5. ASSUME NEW i \in 1 .. Len(Absences(q))
        PROVE  StepHolds(g, NodeId, AntiJoin(Absences(q)[i]), b)
    BY <1>1, <2>2, PlanSteps
  <2>6. QED  BY <2>1, <2>3, <2>4, <2>5
<1>3. /\ g.node[b[q.nodes[1].alias]].label = q.nodes[1].label
      /\ \A f \in StartFilters(q) : Holds(g.node[b[q.nodes[1].alias]].props, f)
  BY <1>1, <1>2, FirstMeans
<1>4. \A i \in 1 .. Len(q.edges) :
        /\ EdgeFits(g, b, q.nodes[i].alias, q.edges[i], q.nodes[i + 1].alias)
        /\ AllHold(g.node[b[q.nodes[i + 1].alias]].props, HopFilters(q, q.nodes[i + 1]))
  BY <1>1, <1>2, HopMeans
<1>5. DOMAIN q.nodes = 1 .. Len(q.edges) + 1 /\ DOMAIN q.edges = 1 .. Len(q.edges)
  BY PatternParts DEF Plannable, IsQuery
<1>6. NodeFits(g, b, q.nodes[1])
  <2> DEFINE n == q.nodes[1]
  <2>1. n \in NodePattern /\ Len(n.inline) <= 1
    BY StartParts DEF FullyCarried
  <2>2. \A f \in Range(n.inline) : f \in StartFilters(q)
    <3>1. ASSUME NEW k \in DOMAIN n.inline PROVE n.inline[k] \in StartFilters(q)
      <4>1. k = 1 /\ n.inline # <<>>
        BY <2>1, InlineParts
      <4>2. QED  BY <4>1 DEF StartFilters
    <3>2. QED  BY <3>1 DEF Range
  <2>3. QED  BY <1>3, <2>2 DEF NodeFits, AllHold
<1>7. ASSUME NEW i \in 1 .. Len(q.edges) PROVE NodeFits(g, b, q.nodes[i + 1])
  <2>1. Typed(q, i) /\ q.nodes[i + 1].inline = <<>>
    BY <1>5 DEF FullyCarried
  <2>2. q.nodes[i + 1].label \in {AnyLabel, g.node[b[q.nodes[i + 1].alias]].label}
    BY <1>4, <2>1, TargetLabel
  <2>3. Range(q.nodes[i + 1].inline) = {}
    BY <2>1 DEF Range
  <2>4. QED  BY <2>2, <2>3 DEF NodeFits, AllHold
<1>8. \A j \in 1 .. Len(q.edges) + 1 : NodeFits(g, b, q.nodes[j])
  <2>1. \A j \in 1 .. Len(q.edges) + 1 :
          j = 1 \/ (j - 1 \in 1 .. Len(q.edges) /\ (j - 1) + 1 = j)
    BY <1>2
  <2>2. QED  BY <1>6, <1>7, <2>1
<1>9. PatternFits(g, b, q)
  BY <1>4, <1>5, <1>8 DEF PatternFits, Range
<1>10. ASSUME NEW c \in Range(q.where), c.kind = "absent" PROVE AbsenceHolds(g, b, c)
  <2>1. PICK i \in 1 .. Len(Absences(q)) : Absences(q)[i] = c
    BY <1>10, AbsencesAre DEF Plannable
  <2>2. StepHolds(g, NodeId, AntiJoin(c), b)
    BY <1>2, <2>1
  <2>3. Correlated(c)
    BY <2>1, AbsencesAre DEF FullyCarried, AbsencesCarried, Plannable, Range
  <2>4. QED  BY <1>1, <1>10, <2>2, <2>3, AntiMeans
<1>11. ASSUME NEW c \in Range(q.where), c.kind # "absent" PROVE ComparisonHolds(g, b, c)
  <2>1. Carried(q, c)
    BY <1>11 DEF FullyCarried
  <2>2. PICK j \in DOMAIN q.nodes : q.nodes[j].alias = c.alias /\ q.nodes[j].label # AnyLabel
    BY <2>1, LabelledIsBound DEF Carried
  <2>3. c.kind = "property" /\ c.filter \in FiltersOn(q, q.nodes[j].alias)
    BY <2>1, <2>2 DEF Carried, FiltersOn, OnAlias, Range
  <2>4. Holds(g.node[b[c.alias]].props, c.filter)
    <3>1. CASE j = 1
      <4>1. q.nodes[1].inline = <<>>
        BY <2>1, <2>2, <3>1 DEF Carried
      <4>2. c.filter \in StartFilters(q)
        BY <2>3, <3>1, <4>1 DEF StartFilters
      <4>3. QED  BY <1>3, <2>2, <3>1, <4>2
    <3>2. CASE j # 1
      <4>1. j - 1 \in 1 .. Len(q.edges) /\ (j - 1) + 1 = j
        BY <1>2, <1>5, <3>2
      <4>2. c.filter \in HopFilters(q, q.nodes[j])
        BY <2>2, <2>3 DEF HopFilters
      <4>3. AllHold(g.node[b[q.nodes[j].alias]].props, HopFilters(q, q.nodes[j]))
        BY <1>4, <4>1
      <4>4. QED  BY <2>2, <4>2, <4>3 DEF AllHold
    <3>3. QED  BY <3>1, <3>2
  <2>5. b[c.alias] \in NodeId
    BY <1>1, <2>2, RowParts DEF Sound, Bound
  <2>6. PropsOf(g, b[c.alias]) = g.node[b[c.alias]].props
    BY <2>5 DEF PropsOf
  <2>7. QED  BY <2>3, <2>4, <2>6 DEF ComparisonHolds
<1>12. QED  BY <1>1, <1>9, <1>10, <1>11 DEF Meaning

----------------------------------------------------------------------------
(* The theorems.                                                           *)

\* What each stage of execute_query has established of its query, and that
\* the plan made is the plan of the query at hand.
PInv ==
  /\ stage \in {"parsed", "validated", "planned"} => IsQuery(query) /\ HasValues(query)
  /\ stage \in {"validated", "planned"} => Valid(query)
  /\ stage = "planned" => ~ Panics(query) /\ plan = Plan(query)

\* Nothing reaches the planner that was not read, checked and found free of
\* the shapes it panics on (execute_query parses, validates and plans one
\* value, in this order).
THEOREM StagesAreKept == PlannerSpec => []PInv
<1>1. PlannerInit => PInv
  BY DEF PlannerInit, PInv
<1>2. PInv /\ [PlannerNext]_plannerVars => PInv'
  <2> SUFFICES ASSUME PInv, [PlannerNext]_plannerVars PROVE PInv'
    OBVIOUS
  <2>1. CASE Receive
    BY <2>1 DEF Receive, PInv
  <2>2. CASE Validate
    <3>1. stage = "parsed" /\ query' = query /\ stage' \in {"validated", "rejected"}
          /\ (stage' = "validated" => Valid(query))
      BY <2>2 DEF Validate
    <3>2. IsQuery(query) /\ HasValues(query)
      BY <3>1 DEF PInv
    <3>3. QED  BY <3>1, <3>2 DEF PInv
  <2>3. CASE MakePlan
    <3>1. /\ stage = "validated" /\ ~ Panics(query) /\ query' = query
          /\ stage' = "planned" /\ plan' = Plan(query)
      BY <2>3 DEF MakePlan
    <3>2. IsQuery(query) /\ HasValues(query) /\ Valid(query)
      BY <3>1 DEF PInv
    <3>3. QED  BY <3>1, <3>2 DEF PInv
  <2>4. CASE Panic
    BY <2>4 DEF Panic, PInv
  <2>5. CASE UNCHANGED plannerVars
    BY <2>5 DEF plannerVars, PInv
  <2>6. QED  BY <2>1, <2>2, <2>3, <2>4, <2>5 DEF PlannerNext
<1>3. QED  BY <1>1, <1>2, PTL DEF PlannerSpec

LEMMA PlannedIsPlannable ==
  ASSUME PInv, stage = "planned"
  PROVE  Plannable(query) /\ plan = Plan(query)
BY DEF PInv, Plannable

\* The validator and the planner agree on scope: for any schema and any query,
\* a plan that was made never sends the executor to an alias it has not bound
\* (the UnknownAlias errors of execute).
THEOREM PlansCanBeExecuted == PlannerSpec => []PlansAreExecutable
<1>1. PInv => PlansAreExecutable
  <2> SUFFICES ASSUME PInv, stage = "planned"
               PROVE  /\ IsPlan(plan)
                      /\ \A r \in Range(query.returns) : r.alias \in BoundBefore(plan, Len(plan) + 1)
                      /\ (\A c \in Range(Absences(query)) : ~ SelfComparing(c)) => ReadsBound(plan)
                      /\ Sound(query) => BindsOnce(plan)
    BY DEF PlansAreExecutable
  <2>1. Plannable(query) /\ plan = Plan(query)
    BY PlannedIsPlannable
  <2>2. IsPlan(plan)
    BY <2>1, PlanIsPlan
  <2>3. \A r \in Range(query.returns) : r.alias \in BoundBefore(plan, Len(plan) + 1)
    BY <2>1, ReturnsAreBound
  <2>4. (\A c \in Range(Absences(query)) : ~ SelfComparing(c)) => ReadsBound(plan)
    BY <2>1, PlanReadsBound
  <2>5. Sound(query) => BindsOnce(plan)
    BY <2>1, PlanBindsOnce
  <2>6. QED  BY <2>2, <2>3, <2>4, <2>5
<1>2. QED  BY <1>1, StagesAreKept, PTL

\* What lowering drops can only widen an answer: for any schema, graph and
\* query with correlated NOT EXISTS, no row the query means is lost.
THEOREM PlansLoseNoRow == PlannerSpec => []PlanLosesNoRow
<1>1. PInv => PlanLosesNoRow
  <2> SUFFICES ASSUME PInv, stage = "planned", Sound(query), AbsencesCarried(query),
                      NEW g \in Graphs
               PROVE  Meaning(g, query) \subseteq Answer(g, NodeId, plan)
    BY DEF PlanLosesNoRow
  <2>1. Plannable(query) /\ plan = Plan(query)
    BY PlannedIsPlannable
  <2>2. IsGraph(g)
    BY GraphsAssumption
  <2>3. QED  BY <2>1, <2>2, NoRowIsLost
<1>2. QED  BY <1>1, StagesAreKept, PTL

\* A query whose every condition has a place in a plan is answered with what
\* it means, neither more nor less.
THEOREM PlansMeanTheirQuery == PlannerSpec => []PlanMeansQuery
<1>1. PInv => PlanMeansQuery
  <2> SUFFICES ASSUME PInv, stage = "planned", Sound(query), FullyCarried(query),
                      NEW g \in Graphs
               PROVE  Meaning(g, query) = Answer(g, NodeId, plan)
    BY DEF PlanMeansQuery
  <2>1. Plannable(query) /\ plan = Plan(query)
    BY PlannedIsPlannable
  <2>2. IsGraph(g) /\ Conforms(g)
    BY GraphsAssumption
  <2>3. Meaning(g, query) \subseteq Answer(g, NodeId, plan)
    BY <2>1, <2>2, NoRowIsLost DEF FullyCarried
  <2>4. Answer(g, NodeId, plan) \subseteq Meaning(g, query)
    BY <2>1, <2>2, AnswersAreMeant
  <2>5. QED  BY <2>3, <2>4
<1>2. QED  BY <1>1, StagesAreKept, PTL

----------------------------------------------------------------------------
(* Texts.  A rule of the grammar that matches reads a token at least and   *)
(* stays in the text (Takes); what it builds is known from what its parts  *)
(* build, one lemma for each rule.  Repetitions are followed from the end  *)
(* of the text backwards, nested WHERE clauses from the innermost outwards.*)

\* Any identifier can be any name, keywords included, and every literal the
\* grammar recognises stands for something.
OneAlphabet ==
  /\ Alias = Word /\ Label = Word /\ EdgeType = Word /\ Property = Word
  /\ "EOI" \notin Word \cup DOMAIN Number /\ <<"EOI">> \notin DOMAIN LiteralOf
  /\ \A n, m \in DOMAIN Number :
       {<<n>>, <<"-", n>>, <<n, ".", m>>, <<"-", n, ".", m>>} \subseteq DOMAIN LiteralOf
  /\ {<<"true">>, <<"false">>} \subseteq DOMAIN LiteralOf

IsText(s) == s \in Seq(Range(s))

\* A rule that matches at i reads a token at least and stays in the text.
Takes(s, i, m, V) == Found(m) => i > 0 /\ m.at \in i + 1 .. Len(s) + 1 /\ m.val \in V

\* A part of a rule that may read nothing.
MayTake(s, i, m, V) == i > 0 /\ m.at \in i .. Len(s) + 1 /\ m.val \in V

Tokens(ts) ==
  /\ Len(ts) \in Nat \ {0} /\ DOMAIN ts = 1 .. Len(ts)
  /\ ts[1] # "EOI" /\ ts[Len(ts)] # "EOI"

LEMMA TextFacts ==
  ASSUME NEW s, IsText(s)
  PROVE  /\ Len(s) \in Nat /\ DOMAIN s = 1 .. Len(s)
         /\ \A i : Tok(s, i) # "EOI" => i \in 1 .. Len(s) /\ Tok(s, i) = s[i]
<1>1. Len(s) \in Nat /\ DOMAIN s = 1 .. Len(s)
  BY LenProperties DEF IsText
<1>2. QED  BY <1>1 DEF Tok

LEMMA AfterAt ==
  ASSUME NEW s, IsText(s), NEW i \in Positions(s), NEW ts, Tokens(ts)
  PROVE  /\ After(s, i, ts) \in Positions(s)
         /\ After(s, i, ts) # 0 =>
              /\ i > 0 /\ After(s, i, ts) = i + Len(ts)
              /\ \A j \in DOMAIN ts : Tok(s, i + j - 1) = ts[j]
<1>1. CASE \A j \in DOMAIN ts : Tok(s, i + j - 1) = ts[j]
  <2>1. After(s, i, ts) = i + Len(ts)
    BY <1>1 DEF After
  <2>2. i \in Int /\ Len(ts) \in Nat \ {0} /\ 1 \in DOMAIN ts /\ Len(ts) \in DOMAIN ts
    BY DEF Positions, Tokens
  <2>3. i + 1 - 1 = i
    BY <2>2
  <2>4. Tok(s, i + 1 - 1) # "EOI" /\ Tok(s, i + Len(ts) - 1) # "EOI"
    BY <1>1, <2>2 DEF Tokens
  <2>5. i + 1 - 1 \in 1 .. Len(s) /\ i + Len(ts) - 1 \in 1 .. Len(s) /\ Len(s) \in Nat
    BY <2>4, TextFacts
  <2>6. QED  BY <1>1, <2>1, <2>2, <2>3, <2>5 DEF Positions
<1>2. CASE ~ \A j \in DOMAIN ts : Tok(s, i + j - 1) = ts[j]
  <2>1. After(s, i, ts) = 0
    BY <1>2 DEF After
  <2>2. QED  BY <2>1, TextFacts DEF Positions
<1>3. QED  BY <1>1, <1>2

\* What follows a separator follows what stands before it.
LEMMA ReadsAfter ==
  ASSUME NEW s, IsText(s), NEW i \in Positions(s), NEW ts, Tokens(ts),
         NEW m, NEW V, Takes(s, After(s, i, ts), m, V)
  PROVE  Takes(s, i, m, V)
<1>1. Len(s) \in Nat /\ Len(ts) \in Nat \ {0}
  BY TextFacts DEF Tokens
<1>2. PICK a : a = After(s, i, ts)
  OBVIOUS
<1>3. a \in Positions(s) /\ (a # 0 => i > 0 /\ a = i + Len(ts))
  BY <1>2, AfterAt
<1>4. QED  BY <1>1, <1>2, <1>3 DEF Takes, Positions

LEMMA Marks ==
  /\ Tokens(<<".">>) /\ Tokens(<<",">>) /\ Tokens(<<":">>) /\ Tokens(<<"*">>)
  /\ Tokens(<<"(">>) /\ Tokens(<<")">>) /\ Tokens(<<"[">>) /\ Tokens(<<"]">>)
  /\ Tokens(<<"{">>) /\ Tokens(<<"}">>) /\ Tokens(<<".", ".">>)
  /\ Tokens(<<"-">>) /\ Tokens(<<"-", ">">>) /\ Tokens(<<"<", "-">>)
  /\ Tokens(<<"<", "=">>) /\ Tokens(<<">", "=">>) /\ Tokens(<<"<", ">">>)
  /\ Tokens(<<"=">>) /\ Tokens(<<"<">>) /\ Tokens(<<">">>)
  /\ Tokens(<<"NOT", "EXISTS", "{", "MATCH">>) /\ Tokens(<<"MATCH">>)
  /\ Tokens(<<"WHERE">>) /\ Tokens(<<"AND">>) /\ Tokens(<<"RETURN">>)
  /\ Tokens(<<"ORDER", "BY">>) /\ Tokens(<<"ASC">>) /\ Tokens(<<"DESC">>)
  /\ Tokens(<<"LIMIT">>)
BY DEF Tokens

LEMMA NothingRead == ASSUME NEW s, NEW i, NEW V PROVE Takes(s, i, NoMatch, V)
BY DEF Takes, Found, NoMatch, Match

LEMMA OptionalPasses ==
  ASSUME NEW s, IsText(s), NEW i \in Positions(s), i > 0, NEW m, NEW V,
         Takes(s, i, m, V), NEW d \in V
  PROVE  MayTake(s, i, Optional(m, i, d), V) /\ Found(Optional(m, i, d))
<1>1. Len(s) \in Nat
  BY TextFacts
<1>2. QED  BY <1>1 DEF MayTake, Takes, Optional, Found, Match, Positions

LEMMA IdentReads ==
  ASSUME OneAlphabet, NEW s, IsText(s), NEW i \in Positions(s)
  PROVE  Takes(s, i, IdentAt(s, i), Word)
<1>1. CASE Tok(s, i) \in Word
  <2>1. Tok(s, i) # "EOI"
    BY <1>1 DEF OneAlphabet
  <2>2. i \in 1 .. Len(s) /\ Len(s) \in Nat
    BY <2>1, TextFacts
  <2>3. QED  BY <1>1, <2>2 DEF IdentAt, Takes, Match
<1>2. CASE Tok(s, i) \notin Word
  BY <1>2, NothingRead DEF IdentAt
<1>3. QED  BY <1>1, <1>2

LEMMA RefReads ==
  ASSUME OneAlphabet, NEW s, IsText(s), NEW i \in Positions(s)
  PROVE  Takes(s, i, RefAt(s, i), PropertyRef)
<1> DEFINE a == IdentAt(s, i)
           k == IdentAt(s, After(s, a.at, <<".">>))
<1>1. Takes(s, i, a, Word) /\ Len(s) \in Nat
  BY IdentReads, TextFacts
<1>2. CASE Found(a) /\ Found(k)
  <2>1. a.at \in Positions(s)
    BY <1>1, <1>2 DEF Takes, Positions
  <2>2. Takes(s, a.at, k, Word)
    BY <2>1, AfterAt, ReadsAfter, IdentReads, Marks
  <2>3. RefAt(s, i) = Match(k.at, [alias |-> a.val, prop |-> k.val])
    BY <1>2 DEF RefAt, Then, MatchTo, Found
  <2>4. QED  BY <1>1, <1>2, <2>1, <2>2, <2>3 DEF Takes, Match, PropertyRef, OneAlphabet, Positions
<1>3. CASE ~ (Found(a) /\ Found(k))
  BY <1>3, NothingRead DEF RefAt, Then
<1>4. QED  BY <1>2, <1>3

LEMMA LeastOf ==
  ASSUME NEW T \in SUBSET Nat, T # {}
  PROVE  \E n \in T : \A m \in T : n <= m
<1>1. PICK n \in T : \A m \in T : <<m, n>> \notin OpToRel(<, Nat)
  BY NatLessThanWellFounded, WFMin, Zenon
<1>2. \A m \in T : ~ (m < n)
  BY <1>1 DEF OpToRel
<1>3. QED  BY <1>2

\* From the end of a text backwards.
LEMMA Backwards ==
  ASSUME NEW N \in Nat, NEW P,
         \A j \in 0 .. N : (\A k \in j + 1 .. N : k \in P) => j \in P
  PROVE  \A j \in 0 .. N : j \in P
<1> DEFINE T == {d \in 0 .. N : N - d \notin P}
<1>1. T = {}
  <2> SUFFICES ASSUME T # {} PROVE FALSE
    OBVIOUS
  <2>0. T \in SUBSET Nat
    OBVIOUS
  <2>1. PICK d \in T : \A c \in T : d <= c
    BY <2>0, LeastOf
  <2>2. ASSUME NEW k \in N - d + 1 .. N PROVE k \in P
    <3>1. N - k \in 0 .. N /\ ~ (d <= N - k) /\ N - (N - k) = k
      OBVIOUS
    <3>2. N - k \notin T
      BY <2>1, <3>1
    <3>3. QED  BY <3>1, <3>2
  <2>3. N - d \in 0 .. N /\ N - d \notin P
    BY <2>1
  <2>4. QED  BY <2>2, <2>3
<1>2. ASSUME NEW j \in 0 .. N PROVE j \in P
  <2>1. N - j \in 0 .. N /\ N - (N - j) = j
    OBVIOUS
  <2>2. QED  BY <1>1, <2>1
<1>3. QED  BY <1>2

LEMMA FirstOfTakes ==
  ASSUME NEW s, NEW i, NEW V, NEW n \in Nat, NEW ms, DOMAIN ms = 1 .. n,
         \A o \in 1 .. n : Takes(s, i, ms[o], V)
  PROVE  Takes(s, i, FirstOf(ms), V)
<1> DEFINE at == {o \in DOMAIN ms : Found(ms[o])}
<1>1. CASE at = {}
  BY <1>1, NothingRead DEF FirstOf
<1>2. CASE at # {}
  <2>1. at \in SUBSET Nat
    OBVIOUS
  <2>2. \E o \in at : \A k \in at : o <= k
    BY <1>2, <2>1, LeastOf
  <2>3. (CHOOSE o \in at : \A k \in at : o <= k) \in at
    BY <2>2
  <2>4. FirstOf(ms) = ms[CHOOSE o \in at : \A k \in at : o <= k]
    BY <1>2 DEF FirstOf
  <2>5. QED  BY <2>3, <2>4
<1>3. QED  BY <1>1, <1>2

\* item*: what each round reads is a sequence of what the items read.
LEMMA ManyTakes ==
  ASSUME NEW s, IsText(s), NEW item, NEW V,
         \A j \in Positions(s) : Takes(s, j, item[j], V),
         NEW i \in Positions(s), i > 0
  PROVE  MayTake(s, i, Many(s, item, i), Seq(V)) /\ Found(Many(s, item, i))
<1> DEFINE N == Len(s) + 1
           Body(g, j) == IF Found(item[j])
                         THEN Match(g[item[j].at].at, <<item[j].val>> \o g[item[j].at].val)
                         ELSE Match(j, <<>>)
           Reps(j, g) == \A k \in j .. N : g[k] = Body(g, k)
           Is(f) == f = [j \in Positions(s) |-> Body(f, j)]
           f == CHOOSE f : Is(f)
<1>1. N \in Nat /\ Positions(s) = 0 .. N
  BY TextFacts DEF Positions
<1>2. \A j \in 0 .. N : Found(item[j]) => item[j].at \in j + 1 .. N /\ item[j].val \in V
  BY <1>1 DEF Takes
<1>3. ASSUME NEW j \in 0 .. N, NEW g, NEW h, \A k \in j + 1 .. N : g[k] = h[k]
      PROVE  Body(g, j) = Body(h, j)
  BY <1>2, <1>3
<1>4. \E g : Reps(0, g)
  <2> DEFINE P == {j \in 0 .. N : \E g : Reps(j, g)}
  <2>1. ASSUME NEW j \in 0 .. N, \A k \in j + 1 .. N : k \in P
        PROVE  j \in P
    <3>1. \E h : \A k \in j + 1 .. N : h[k] = Body(h, k)
      <4>1. CASE j = N
        BY <1>1, <4>1
      <4>2. CASE j # N
        <5>1. j + 1 \in 0 .. N /\ j + 1 \in j + 1 .. N
          BY <1>1, <4>2
        <5>2. j + 1 \in P
          BY <2>1, <5>1
        <5>3. PICK h : Reps(j + 1, h)
          BY <5>2
        <5>4. QED  BY <5>3
      <4>3. QED  BY <4>1, <4>2
    <3>2. PICK h : \A k \in j + 1 .. N : h[k] = Body(h, k)
      BY <3>1
    <3> DEFINE g == [k \in j .. N |-> IF k = j THEN Body(h, j) ELSE h[k]]
    <3>3. g[j] = Body(h, j) /\ \A k \in j + 1 .. N : g[k] = h[k]
      BY <1>1
    <3> HIDE DEF g, Body
    <3>4. ASSUME NEW k \in j .. N PROVE g[k] = Body(g, k)
      <4>1. \A l \in k + 1 .. N : g[l] = h[l]
        BY <1>1, <3>3
      <4>2. k \in 0 .. N
        BY <1>1
      <4>3. Body(g, k) = Body(h, k)
        BY <1>3, <4>1, <4>2
      <4>4. CASE k = j
        BY <3>3, <4>3, <4>4
      <4>5. CASE k # j
        BY <1>1, <3>2, <3>3, <4>3, <4>5
      <4>6. QED  BY <4>4, <4>5
    <3>5. QED  BY <3>4
  <2> HIDE DEF P
  <2>2. \A j \in 0 .. N : j \in P
    BY <1>1, <2>1, Backwards
  <2>3. QED  BY <1>1, <2>2 DEF P
<1>5. \E g : Is(g)
  <2>1. PICK g : Reps(0, g)
    BY <1>4
  <2> DEFINE h == [j \in 0 .. N |-> g[j]]
  <2>2. \A j \in 0 .. N : h[j] = g[j]
    OBVIOUS
  <2>3. ASSUME NEW j \in 0 .. N PROVE g[j] = Body(h, j)
    <3> HIDE DEF h, Body
    <3>1. \A k \in j + 1 .. N : h[k] = g[k]
      BY <1>1, <2>2
    <3>2. QED  BY <1>1, <1>3, <2>1, <3>1
  <2>4. h = [j \in Positions(s) |-> Body(h, j)]
    BY <1>1, <2>3
  <2>5. QED  BY <2>4
<1>6. Is(f)
  BY <1>5
<1>7. Many(s, item, i) = f[i]
  BY DEF Many
<1> DEFINE P == {j \in 0 .. N : f[j].at \in j .. N /\ f[j].val \in Seq(V)}
<1>8. ASSUME NEW j \in 0 .. N, \A k \in j + 1 .. N : k \in P
      PROVE  j \in P
  <2>1. f[j] = Body(f, j)
    BY <1>1, <1>6
  <2> HIDE DEF f
  <2>2. CASE ~ Found(item[j])
    <3>1. f[j].at = j /\ f[j].val = <<>>
      BY <2>1, <2>2 DEF Match
    <3>2. j \in j .. N
      BY <1>1
    <3>3. <<>> \in Seq(V)
      OBVIOUS
    <3>4. QED  BY <3>1, <3>2, <3>3
  <2>3. CASE Found(item[j])
    <3>1. item[j].at \in j + 1 .. N /\ item[j].val \in V
      BY <1>2, <2>3
    <3>2. f[item[j].at].at \in item[j].at .. N /\ f[item[j].at].val \in Seq(V)
      BY <1>8, <3>1
    <3>3. <<item[j].val>> \o f[item[j].at].val \in Seq(V)
      BY <3>1, <3>2
    <3>4. f[j].at \in j .. N
      BY <1>1, <2>1, <2>3, <3>1, <3>2 DEF Match
    <3>5. f[j].val \in Seq(V)
      BY <2>1, <2>3, <3>3 DEF Match
    <3>6. QED  BY <3>4, <3>5
  <2>4. QED  BY <2>2, <2>3
<1> HIDE DEF P
<1>9. \A j \in 0 .. N : j \in P
  BY <1>1, <1>8, Backwards
<1>10. i \in 0 .. N /\ i > 0
  BY <1>1
<1>11. f[i].at \in i .. N /\ f[i].val \in Seq(V)
  BY <1>9, <1>10 DEF P
<1> HIDE DEF f
<1>12. f[i].at > 0
  BY <1>1, <1>10, <1>11
<1>13. QED  BY <1>7, <1>10, <1>11, <1>12 DEF MayTake, Found

\* item (sep item)*
LEMMA ListTakes ==
  ASSUME NEW s, IsText(s), NEW item, NEW V,
         \A j \in Positions(s) : Takes(s, j, item[j], V),
         NEW sep, Tokens(<<sep>>), NEW i \in Positions(s)
  PROVE  Takes(s, i, ListOf(s, item, sep, i), Seq(V))
<1> DEFINE rest == [j \in Positions(s) |-> item[After(s, j, <<sep>>)]]
           tail == Many(s, rest, item[i].at)
<1>1. CASE ~ Found(item[i])
  BY <1>1, NothingRead DEF ListOf, Then
<1>2. CASE Found(item[i])
  <2>1. item[i].val \in V /\ item[i].at \in i + 1 .. Len(s) + 1 /\ i > 0 /\ Len(s) \in Nat
    BY <1>2, TextFacts DEF Takes
  <2>2. \A j \in Positions(s) : Takes(s, j, rest[j], V)
    BY AfterAt, ReadsAfter
  <2>3. item[i].at \in Positions(s) /\ item[i].at > 0
    BY <2>1 DEF Positions
  <2>4. MayTake(s, item[i].at, tail, Seq(V)) /\ Found(tail)
    <3> HIDE DEF rest
    <3>1. QED  BY <2>2, <2>3, ManyTakes
  <2>5. ListOf(s, item, sep, i) = Match(tail.at, <<item[i].val>> \o tail.val)
    BY <1>2, <2>4 DEF ListOf, Then, MatchTo, Found
  <2> HIDE DEF tail
  <2>6. <<item[i].val>> \o tail.val \in Seq(V)
    BY <2>1, <2>4 DEF MayTake
  <2>7. QED  BY <2>1, <2>4, <2>5, <2>6 DEF Takes, MayTake, Match, Positions
<1>3. QED  BY <1>1, <1>2

\* What stands before a match, and what may close one.
LEMMA Opens ==
  ASSUME NEW s, IsText(s), NEW i \in Positions(s), NEW ts, Tokens(ts),
         NEW a, a = After(s, i, ts), a > 0
  PROVE  i > 0 /\ a \in i + 1 .. Len(s) + 1 /\ a \in Positions(s)
<1>1. Len(s) \in Nat /\ Len(ts) \in Nat \ {0}
  BY TextFacts DEF Tokens
<1>2. a \in Positions(s) /\ i > 0 /\ a = i + Len(ts)
  BY AfterAt
<1>3. QED  BY <1>1, <1>2 DEF Positions

LEMMA Closes ==
  ASSUME NEW s, IsText(s), NEW i \in Positions(s), i > 0, NEW p \in i .. Len(s) + 1,
         NEW ts, Tokens(ts), NEW V, NEW v \in V
  PROVE  Takes(s, i, MatchTo(After(s, p, ts), v), V)
<1>1. PICK a : a = After(s, p, ts)
  OBVIOUS
<1>2. CASE a > 0
  <2>1. p \in Positions(s) /\ Len(s) \in Nat
    BY TextFacts DEF Positions
  <2>2. a \in p + 1 .. Len(s) + 1
    BY <1>1, <1>2, <2>1, Opens
  <2>3. QED  BY <1>1, <1>2, <2>1, <2>2 DEF Takes, MatchTo, Match, Positions
<1>3. CASE ~ (a > 0)
  BY <1>1, <1>3, NothingRead DEF MatchTo
<1>4. QED  BY <1>2, <1>3

LEMMA MarkReads ==
  ASSUME NEW s, IsText(s), NEW i \in Positions(s), NEW ts, Tokens(ts), NEW V, NEW v \in V
  PROVE  Takes(s, i, MatchTo(After(s, i, ts), v), V)
<1>1. PICK a : a = After(s, i, ts)
  OBVIOUS
<1>2. CASE a > 0
  BY <1>1, <1>2, Opens DEF Takes, MatchTo, Match
<1>3. CASE ~ (a > 0)
  BY <1>1, <1>3, NothingRead DEF MatchTo
<1>4. QED  BY <1>2, <1>3

\* What follows a match, or a part that may read nothing, goes beyond it.
LEMMA GoesOn ==
  ASSUME NEW s, IsText(s), NEW i \in Positions(s), i > 0, NEW p \in i .. Len(s) + 1,
         NEW m, NEW V, Takes(s, p, m, V)
  PROVE  Takes(s, i, m, V)
BY TextFacts DEF Takes, Positions

LEMMA MayFollow ==
  ASSUME NEW s, IsText(s), NEW i \in Positions(s), i > 0, NEW p \in i .. Len(s) + 1,
         NEW m, NEW V, Takes(s, p, m, V), NEW d \in V, NEW o, o = Optional(m, p, d)
  PROVE  Found(o) /\ o.at \in p .. Len(s) + 1 /\ o.at \in i .. Len(s) + 1 /\ o.val \in V
<1>1. p \in Positions(s) /\ p > 0 /\ Len(s) \in Nat
  BY TextFacts DEF Positions
<1>2. MayTake(s, p, o, V) /\ Found(o)
  BY <1>1, OptionalPasses
<1>3. QED  BY <1>1, <1>2 DEF MayTake, Positions

LEMMA OpReads ==
  ASSUME NEW s, IsText(s), NEW i \in Positions(s)
  PROVE  Takes(s, i, OpAt(s, i), Op)
<1> DEFINE ms == [o \in DOMAIN OpTexts |-> MatchTo(After(s, i, OpTexts[o][1]), OpTexts[o][2])]
<1>1. DOMAIN OpTexts = 1 .. 6
  BY DEF OpTexts
<1>2. ASSUME NEW o \in 1 .. 6
      PROVE  Tokens(OpTexts[o][1]) /\ OpTexts[o][2] \in Op
  <2>1. /\ OpTexts[1] = <<<<"<", "=">>, "lte">> /\ OpTexts[2] = <<<<">", "=">>, "gte">>
        /\ OpTexts[3] = <<<<"<", ">">>, "ne">>  /\ OpTexts[4] = <<<<"=">>, "eq">>
        /\ OpTexts[5] = <<<<"<">>, "lt">>       /\ OpTexts[6] = <<<<">">>, "gt">>
    BY DEF OpTexts
  <2>2. o = 1 \/ o = 2 \/ o = 3 \/ o = 4 \/ o = 5 \/ o = 6
    OBVIOUS
  <2>3. Tokens(OpTexts[o][1])
    <3>1. /\ OpTexts[1][1] = <<"<", "=">> /\ OpTexts[2][1] = <<">", "=">>
          /\ OpTexts[3][1] = <<"<", ">">> /\ OpTexts[4][1] = <<"=">>
          /\ OpTexts[5][1] = <<"<">>      /\ OpTexts[6][1] = <<">">>
      BY <2>1
    <3>2. /\ Tokens(OpTexts[1][1]) /\ Tokens(OpTexts[2][1]) /\ Tokens(OpTexts[3][1])
          /\ Tokens(OpTexts[4][1]) /\ Tokens(OpTexts[5][1]) /\ Tokens(OpTexts[6][1])
      BY <3>1, Marks, Zenon
    <3>3. QED  BY <2>2, <3>2
  <2>4. OpTexts[o][2] \in Op
    BY <2>1, <2>2 DEF Op
  <2>5. QED  BY <2>3, <2>4
<1>3. \A o \in 1 .. 6 : Takes(s, i, ms[o], Op)
  BY <1>1, <1>2, MarkReads
<1>4. DOMAIN ms = 1 .. 6
  BY <1>1
<1> HIDE DEF ms
<1>5. Takes(s, i, FirstOf(ms), Op)
  BY <1>3, <1>4, FirstOfTakes
<1>6. QED  BY <1>5 DEF OpAt, ms

\* The texts of one to four tokens.
LEMMA Slices ==
  ASSUME NEW s, IsText(s), NEW i \in 1 .. Len(s), NEW e \in i .. Len(s)
  PROVE  /\ e = i     => SubSeq(s, i, e) = <<s[i]>>
         /\ e = i + 1 => SubSeq(s, i, e) = <<s[i], s[i + 1]>>
         /\ e = i + 2 => SubSeq(s, i, e) = <<s[i], s[i + 1], s[i + 2]>>
         /\ e = i + 3 => SubSeq(s, i, e) = <<s[i], s[i + 1], s[i + 2], s[i + 3]>>
<1> DEFINE t == SubSeq(s, i, e)
<1>1. Len(s) \in Nat
  BY TextFacts
<1>2. i \in 1 .. Len(s) + 1 /\ e \in i - 1 .. Len(s)
  BY <1>1
<1>3. t \in Seq(Range(s)) /\ Len(t) = e - i + 1
  BY <1>2, SubSeqProperties DEF IsText
<1>4. \A j \in 1 .. e - i + 1 : t[j] = s[i + j - 1]
  BY <1>2, SubSeqProperties DEF IsText
<1> HIDE DEF t
<1>5. ASSUME e = i PROVE t = <<s[i]>>
  <2>1. Len(t) = 1 /\ t[1] = s[i]
    BY <1>1, <1>3, <1>4, <1>5
  <2>2. QED  BY <1>3, <2>1
<1>6. ASSUME e = i + 1 PROVE t = <<s[i], s[i + 1]>>
  <2>1. Len(t) = 2 /\ t[1] = s[i] /\ t[2] = s[i + 1]
    BY <1>1, <1>3, <1>4, <1>6
  <2>2. QED  BY <1>3, <2>1
<1>7. ASSUME e = i + 2 PROVE t = <<s[i], s[i + 1], s[i + 2]>>
  <2>1. Len(t) = 3 /\ t[1] = s[i] /\ t[2] = s[i + 1] /\ t[3] = s[i + 2]
    BY <1>1, <1>3, <1>4, <1>7
  <2>2. QED  BY <1>3, <2>1
<1>8. ASSUME e = i + 3 PROVE t = <<s[i], s[i + 1], s[i + 2], s[i + 3]>>
  <2>1. Len(t) = 4 /\ t[1] = s[i] /\ t[2] = s[i + 1] /\ t[3] = s[i + 2] /\ t[4] = s[i + 3]
    BY <1>1, <1>3, <1>4, <1>8
  <2>2. QED  BY <1>3, <2>1
<1>9. QED  BY <1>5, <1>6, <1>7, <1>8 DEF t

LEMMA QuotedIs ==
  ASSUME OneAlphabet, NEW q \in Quoted
  PROVE  <<q>> \in DOMAIN LiteralOf /\ q # "EOI"
<1>1. PICK t \in DOMAIN LiteralOf : Len(t) = 1 /\ q = t[1]
  BY DEF Quoted
<1>2. t \in Seq(Range(t))
  BY TextAssumption
<1>3. t = <<t[1]>>
  BY <1>1, <1>2
<1>4. QED  BY <1>1, <1>3 DEF OneAlphabet

\* Each form of literal ends within the text and stands for something.
LEMMA LiteralEndsAre ==
  ASSUME OneAlphabet, NEW s, IsText(s), NEW i \in Positions(s), NEW o \in 1 .. 4,
         NEW e, e = LiteralEnds(s, i, Sign(s, i))[o], e > 0
  PROVE  i > 0 /\ e \in i + 1 .. Len(s) + 1 /\ SubSeq(s, i, e - 1) \in DOMAIN LiteralOf
<1>1. PICK n : n = Sign(s, i)
  OBVIOUS
<1>2. i \in Int /\ Len(s) \in Nat /\ n \in {i, i + 1} /\ (n = i + 1 => Tok(s, i) = "-")
  BY <1>1, TextFacts DEF Sign, Positions
<1>3. "EOI" \notin DOMAIN Number
  BY DEF OneAlphabet
<1>4. ASSUME n = i + 1 PROVE i \in 1 .. Len(s) /\ s[i] = "-"
  BY <1>2, <1>4, TextFacts
<1>5. CASE o = 1
  <2>1. Tok(s, i) \in Quoted /\ e = i + 1
    BY <1>5 DEF LiteralEnds
  <2>2. i \in 1 .. Len(s) /\ s[i] = Tok(s, i) /\ <<Tok(s, i)>> \in DOMAIN LiteralOf
    BY <2>1, QuotedIs, TextFacts
  <2>3. e - 1 \in i .. Len(s) /\ e - 1 = i /\ e \in i + 1 .. Len(s) + 1 /\ i > 0
    BY <1>2, <2>1, <2>2
  <2>4. SubSeq(s, i, e - 1) = <<s[i]>>
    BY <2>2, <2>3, Slices
  <2>5. QED  BY <2>2, <2>3, <2>4
<1>6. CASE o = 4
  <2>1. Tok(s, i) \in {"true", "false"} /\ e = i + 1
    BY <1>6 DEF LiteralEnds
  <2>2. i \in 1 .. Len(s) /\ s[i] = Tok(s, i) /\ <<Tok(s, i)>> \in DOMAIN LiteralOf
    BY <2>1, TextFacts DEF OneAlphabet
  <2>3. e - 1 \in i .. Len(s) /\ e - 1 = i /\ e \in i + 1 .. Len(s) + 1 /\ i > 0
    BY <1>2, <2>1, <2>2
  <2>4. SubSeq(s, i, e - 1) = <<s[i]>>
    BY <2>2, <2>3, Slices
  <2>5. QED  BY <2>2, <2>3, <2>4
<1>7. CASE o = 3
  <2>1. IsNumber(s, n) /\ e = n + 1
    BY <1>1, <1>7 DEF LiteralEnds
  <2>2. n \in 1 .. Len(s) /\ s[n] \in DOMAIN Number
    BY <1>3, <2>1, TextFacts DEF IsNumber
  <2>3. CASE n = i
    <3>1. i \in 1 .. Len(s) /\ e - 1 \in i .. Len(s) /\ e - 1 = i /\ i > 0 /\ e \in i + 1 .. Len(s) + 1
      BY <1>2, <2>1, <2>2, <2>3
    <3>2. <<s[i]>> \in DOMAIN LiteralOf
      BY <2>2, <2>3 DEF OneAlphabet
    <3>3. SubSeq(s, i, e - 1) = <<s[i]>>
      BY <3>1, Slices
    <3>4. QED  BY <3>1, <3>2, <3>3
  <2>4. CASE n = i + 1
    <3>1. i \in 1 .. Len(s) /\ e - 1 \in i .. Len(s) /\ e - 1 = i + 1 /\ i > 0 /\ e \in i + 1 .. Len(s) + 1
      BY <1>2, <1>4, <2>1, <2>2, <2>4
    <3>2. <<s[i], s[i + 1]>> \in DOMAIN LiteralOf
      BY <1>4, <2>2, <2>4 DEF OneAlphabet
    <3>3. SubSeq(s, i, e - 1) = <<s[i], s[i + 1]>>
      BY <3>1, Slices
    <3>4. QED  BY <3>1, <3>2, <3>3
  <2>5. QED  BY <1>2, <2>3, <2>4
<1>8. CASE o = 2
  <2>1. IsNumber(s, n) /\ Tok(s, n + 1) = "." /\ IsNumber(s, n + 2) /\ e = n + 3
    BY <1>1, <1>8 DEF LiteralEnds
  <2>2. /\ n \in 1 .. Len(s) /\ s[n] \in DOMAIN Number
        /\ s[n + 1] = "."
        /\ n + 2 \in 1 .. Len(s) /\ s[n + 2] \in DOMAIN Number
    BY <1>3, <2>1, TextFacts DEF IsNumber
  <2>3. CASE n = i
    <3>1. i \in 1 .. Len(s) /\ e - 1 \in i .. Len(s) /\ e - 1 = i + 2 /\ i > 0 /\ e \in i + 1 .. Len(s) + 1
      BY <1>2, <2>1, <2>2, <2>3
    <3>2. <<s[i], s[i + 1], s[i + 2]>> \in DOMAIN LiteralOf
      BY <2>2, <2>3 DEF OneAlphabet
    <3>3. SubSeq(s, i, e - 1) = <<s[i], s[i + 1], s[i + 2]>>
      BY <3>1, Slices
    <3>4. QED  BY <3>1, <3>2, <3>3
  <2>4. CASE n = i + 1
    <3>1. i \in 1 .. Len(s) /\ e - 1 \in i .. Len(s) /\ e - 1 = i + 3 /\ i > 0 /\ e \in i + 1 .. Len(s) + 1
      BY <1>2, <1>4, <2>1, <2>2, <2>4
    <3>2. n + 1 = i + 2 /\ n + 2 = i + 3
      BY <1>2, <2>4
    <3>3. <<s[i], s[i + 1], s[i + 2], s[i + 3]>> \in DOMAIN LiteralOf
      BY <1>4, <2>2, <2>4, <3>2 DEF OneAlphabet
    <3>4. SubSeq(s, i, e - 1) = <<s[i], s[i + 1], s[i + 2], s[i + 3]>>
      BY <3>1, Slices
    <3>5. QED  BY <3>1, <3>3, <3>4
  <2>5. QED  BY <1>2, <2>3, <2>4
<1>9. QED  BY <1>5, <1>6, <1>7, <1>8

LEMMA LiteralReads ==
  ASSUME OneAlphabet, NEW s, IsText(s), NEW i \in Positions(s)
  PROVE  Takes(s, i, LiteralAt(s, i), Literal)
<1> DEFINE Good == {e \in Positions(s) : SubSeq(s, i, e - 1) \in DOMAIN LiteralOf}
           ms == [o \in 1 .. 4 |-> MatchTo(LiteralEnds(s, i, Sign(s, i))[o], {})]
           m == FirstOf(ms)
<1>1. ASSUME NEW o \in 1 .. 4
      PROVE  Found(ms[o]) => i > 0 /\ ms[o].at \in i + 1 .. Len(s) + 1 /\ ms[o].at \in Good
  <2>1. PICK e : e = LiteralEnds(s, i, Sign(s, i))[o]
    OBVIOUS
  <2>2. ms[o] = MatchTo(e, {})
    BY <2>1
  <2>3. CASE e > 0
    <3>1. i > 0 /\ e \in i + 1 .. Len(s) + 1 /\ SubSeq(s, i, e - 1) \in DOMAIN LiteralOf
      BY <2>1, <2>3, LiteralEndsAre
    <3>2. e \in Positions(s)
      BY <3>1, TextFacts DEF Positions
    <3>3. ms[o].at = e
      BY <2>2, <2>3 DEF MatchTo, Match
    <3>4. QED  BY <3>1, <3>2, <3>3
  <2>4. CASE ~ (e > 0)
    BY <2>2, <2>4 DEF MatchTo, NoMatch, Match, Found
  <2>5. QED  BY <2>3, <2>4
<1>2. CASE Found(m)
  <2>1. \E o \in 1 .. 4 : m = ms[o]
    <3>1. {o \in 1 .. 4 : Found(ms[o])} # {}
      <4>1. DOMAIN ms = 1 .. 4
        OBVIOUS
      <4> HIDE DEF ms
      <4>2. QED  BY <1>2, <4>1 DEF FirstOf, NoMatch, Match, Found
    <3>2. PICK k \in {o \in 1 .. 4 : Found(ms[o])} :
            \A l \in {o \in 1 .. 4 : Found(ms[o])} : k <= l
      <4>1. {o \in 1 .. 4 : Found(ms[o])} \in SUBSET Nat
        OBVIOUS
      <4>2. QED  BY <3>1, <4>1, LeastOf
    <3>3. DOMAIN ms = 1 .. 4
      OBVIOUS
    <3> HIDE DEF ms
    <3>4. m = ms[CHOOSE n \in {o \in 1 .. 4 : Found(ms[o])} :
                   \A l \in {o \in 1 .. 4 : Found(ms[o])} : n <= l]
      BY <3>1, <3>3 DEF FirstOf
    <3>5. QED  BY <3>2, <3>4
  <2> HIDE DEF m, ms
  <2>2. i > 0 /\ m.at \in i + 1 .. Len(s) + 1 /\ m.at \in Good
    BY <1>1, <1>2, <2>1
  <2>3. LiteralOf[SubSeq(s, i, m.at - 1)] \in Literal
    BY <2>2, TextAssumption
  <2>4. LiteralAt(s, i) = Match(m.at, LiteralOf[SubSeq(s, i, m.at - 1)])
    BY <1>2 DEF LiteralAt, Then, m, ms
  <2>5. QED  BY <2>2, <2>3, <2>4 DEF Takes, Match
<1>3. CASE ~ Found(m)
  BY <1>3, NothingRead DEF LiteralAt, Then
<1>4. QED  BY <1>2, <1>3

LEMMA InlineReads ==
  ASSUME OneAlphabet, NEW s, IsText(s), NEW i \in Positions(s)
  PROVE  Takes(s, i, InlineAt(s, i), LiteralFilter)
<1> DEFINE k == IdentAt(s, i)
           v == LiteralAt(s, After(s, k.at, <<":">>))
<1>1. Takes(s, i, k, Word)
  BY IdentReads
<1>2. CASE Found(k) /\ Found(v)
  <2>1. i > 0 /\ k.at \in i + 1 .. Len(s) + 1 /\ k.val \in Word /\ Len(s) \in Nat
    BY <1>1, <1>2, TextFacts DEF Takes
  <2>2. k.at \in Positions(s) /\ k.at \in i .. Len(s) + 1
    BY <2>1 DEF Positions
  <2>3. Takes(s, k.at, v, Literal)
    BY <2>2, AfterAt, ReadsAfter, LiteralReads, Marks
  <2>4. Takes(s, i, v, Literal)
    BY <2>1, <2>2, <2>3, GoesOn
  <2>5. InlineAt(s, i) = Match(v.at, [prop |-> k.val, op |-> "eq", val |-> v.val])
    BY <1>2 DEF InlineAt, Then
  <2>6. [prop |-> k.val, op |-> "eq", val |-> v.val] \in LiteralFilter
    BY <1>2, <2>1, <2>4 DEF Takes, LiteralFilter, Op, OneAlphabet
  <2>7. QED  BY <1>2, <2>4, <2>5, <2>6 DEF Takes, Match
<1>3. CASE ~ (Found(k) /\ Found(v))
  BY <1>3, NothingRead DEF InlineAt, Then
<1>4. QED  BY <1>2, <1>3

LEMMA MapReads ==
  ASSUME OneAlphabet, NEW s, IsText(s), NEW i \in Positions(s)
  PROVE  Takes(s, i, PropertyMapAt(s, i), Seq(LiteralFilter))
<1> DEFINE open == MatchTo(After(s, i, <<"{">>), {})
           item == [j \in Positions(s) |-> InlineAt(s, j)]
           kvs == Optional(ListOf(s, item, ",", open.at), open.at, <<>>)
<1>1. Takes(s, i, open, {{}})
  BY MarkReads, Marks
<1> HIDE DEF open
<1>2. CASE Found(open)
  <2>1. i > 0 /\ open.at \in i .. Len(s) + 1 /\ Len(s) \in Nat
        /\ open.at \in Positions(s) /\ open.at > 0 /\ open.at \in open.at .. Len(s) + 1
    BY <1>1, <1>2, TextFacts DEF Takes, Positions
  <2>2. \A j \in Positions(s) : Takes(s, j, item[j], LiteralFilter)
    BY InlineReads
  <2> HIDE DEF item
  <2>3. Takes(s, open.at, ListOf(s, item, ",", open.at), Seq(LiteralFilter))
    BY <2>1, <2>2, ListTakes, Marks
  <2>4. <<>> \in Seq(LiteralFilter)
    OBVIOUS
  <2>5. Found(kvs) /\ kvs.at \in open.at .. Len(s) + 1 /\ kvs.val \in Seq(LiteralFilter)
    <3>1. PICK V : V = Seq(LiteralFilter)
      OBVIOUS
    <3>2. Takes(s, open.at, ListOf(s, item, ",", open.at), V) /\ <<>> \in V
      BY <2>3, <2>4, <3>1
    <3>3. PICK p, l, d : p = open.at /\ l = ListOf(s, item, ",", open.at) /\ d = <<>>
      OBVIOUS
    <3>4. p \in Positions(s) /\ p > 0 /\ p \in p .. Len(s) + 1 /\ Takes(s, p, l, V) /\ d \in V
      BY <2>1, <3>2, <3>3
    <3>5. Found(Optional(l, p, d)) /\ Optional(l, p, d).at \in p .. Len(s) + 1
          /\ Optional(l, p, d).val \in V
      BY <3>4, MayFollow
    <3>6. QED  BY <3>1, <3>3, <3>5
  <2>6. PropertyMapAt(s, i) = MatchTo(After(s, kvs.at, <<"}">>), kvs.val)
    BY <1>2, <2>5 DEF PropertyMapAt, Then, open, item
  <2> HIDE DEF kvs
  <2>7. kvs.at \in i .. Len(s) + 1
    BY <2>1, <2>5 DEF Positions
  <2>8. QED  BY <2>1, <2>5, <2>6, <2>7, Closes, Marks
<1>3. CASE ~ Found(open)
  BY <1>3, NothingRead DEF PropertyMapAt, Then, open
<1>4. QED  BY <1>2, <1>3

LEMMA NameReads ==
  ASSUME OneAlphabet, NEW s, IsText(s), NEW i \in Positions(s)
  PROVE  Takes(s, i, NameAt(s, i), Word)
BY AfterAt, ReadsAfter, IdentReads, Marks DEF NameAt

LEMMA NodeReads ==
  ASSUME OneAlphabet, NEW s, IsText(s), NEW i \in Positions(s)
  PROVE  Takes(s, i, NodeAt(s, i), NodePattern)
<1> DEFINE a == IdentAt(s, After(s, i, <<"(">>))
           l == Optional(NameAt(s, a.at), a.at, AnyLabel)
           m == Optional(PropertyMapAt(s, l.at), l.at, <<>>)
<1>1. Takes(s, i, a, Word)
  BY AfterAt, ReadsAfter, IdentReads, Marks
<1>2. CASE Found(a)
  <2>1. i > 0 /\ a.at \in i .. Len(s) + 1 /\ a.at \in Positions(s) /\ a.at > 0
        /\ a.val \in Alias /\ a.at \in a.at .. Len(s) + 1 /\ Len(s) \in Nat
    BY <1>1, <1>2, TextFacts DEF Takes, Positions, OneAlphabet
  <2> HIDE DEF a
  <2>2. Takes(s, a.at, NameAt(s, a.at), Label \cup {AnyLabel})
    BY <2>1, NameReads DEF Takes, OneAlphabet
  <2>3. Found(l) /\ l.at \in i .. Len(s) + 1 /\ l.val \in Label \cup {AnyLabel}
    <3>1. Takes(s, a.at, NameAt(s, a.at), Label \cup {AnyLabel}) /\ AnyLabel \in Label \cup {AnyLabel}
      BY <2>2
    <3>2. Found(l) /\ l.at \in a.at .. Len(s) + 1 /\ l.val \in Label \cup {AnyLabel}
      BY <2>1, <3>1, MayFollow
    <3> HIDE DEF l
    <3>3. QED  BY <2>1, <3>2 DEF Positions
  <2> HIDE DEF l
  <2>4. l.at \in Positions(s) /\ l.at > 0 /\ l.at \in l.at .. Len(s) + 1
    BY <2>1, <2>3 DEF Positions
  <2>5. Takes(s, l.at, PropertyMapAt(s, l.at), Seq(LiteralFilter)) /\ <<>> \in Seq(LiteralFilter)
    BY <2>4, MapReads
  <2>6. Found(m) /\ m.at \in l.at .. Len(s) + 1 /\ m.val \in Seq(LiteralFilter)
    <3>1. PICK V : V = Seq(LiteralFilter)
      OBVIOUS
    <3>2. Takes(s, l.at, PropertyMapAt(s, l.at), V) /\ <<>> \in V
      BY <2>5, <3>1
    <3>3. Found(m) /\ m.at \in l.at .. Len(s) + 1 /\ m.val \in V
      BY <2>4, <3>2, MayFollow
    <3>4. QED  BY <3>1, <3>3
  <2> HIDE DEF m
  <2>7. m.at \in i .. Len(s) + 1
    BY <2>1, <2>3, <2>6 DEF Positions
  <2>8. [alias |-> a.val, label |-> l.val, inline |-> m.val] \in NodePattern
    BY <2>1, <2>3, <2>6 DEF NodePattern
  <2>9. NodeAt(s, i) = MatchTo(After(s, m.at, <<")">>),
                               [alias |-> a.val, label |-> l.val, inline |-> m.val])
    BY <1>2, <2>3, <2>6 DEF NodeAt, Then, a, l, m
  <2>10. QED  BY <2>1, <2>7, <2>8, <2>9, Closes, Marks
<1>3. CASE ~ Found(a)
  BY <1>3, NothingRead DEF NodeAt, Then
<1>4. QED  BY <1>2, <1>3

LEMMA NumberReads ==
  ASSUME OneAlphabet, NEW s, IsText(s), NEW i \in Positions(s)
  PROVE  Takes(s, i, NumberAt(s, i), Nat)
<1>1. CASE IsNumber(s, i)
  <2>1. Tok(s, i) # "EOI" /\ Number[Tok(s, i)] \in Nat
    BY <1>1, TextAssumption DEF IsNumber, OneAlphabet
  <2>2. i \in 1 .. Len(s) /\ Len(s) \in Nat
    BY <2>1, TextFacts
  <2>3. QED  BY <1>1, <2>1, <2>2 DEF NumberAt, Takes, Match
<1>2. CASE ~ IsNumber(s, i)
  BY <1>2, NothingRead DEF NumberAt
<1>3. QED  BY <1>1, <1>2

LEMMA RangeReads ==
  ASSUME OneAlphabet, NEW s, IsText(s), NEW i \in Positions(s)
  PROVE  Takes(s, i, HopRangeAt(s, i), Nat \X Nat)
<1> DEFINE n == NumberAt(s, After(s, i, <<"*">>))
           m == NumberAt(s, After(s, n.at, <<".", ".">>))
<1>1. Takes(s, i, n, Nat)
  BY AfterAt, ReadsAfter, NumberReads, Marks
<1>2. CASE Found(n) /\ Found(m)
  <2>1. i > 0 /\ n.at \in i .. Len(s) + 1 /\ n.val \in Nat /\ n.at \in Positions(s)
    BY <1>1, <1>2, TextFacts DEF Takes, Positions
  <2>2. Takes(s, n.at, m, Nat)
    BY <2>1, AfterAt, ReadsAfter, NumberReads, Marks
  <2>3. Takes(s, i, m, Nat)
    BY <2>1, <2>2, GoesOn
  <2>4. HopRangeAt(s, i) = Match(m.at, <<n.val, m.val>>)
    BY <1>2 DEF HopRangeAt, Then
  <2> HIDE DEF n, m
  <2>5. QED  BY <1>2, <2>1, <2>3, <2>4 DEF Takes, Match
<1>3. CASE ~ (Found(n) /\ Found(m))
  BY <1>3, NothingRead DEF HopRangeAt, Then
<1>4. QED  BY <1>2, <1>3

LEMMA DetailReads ==
  ASSUME OneAlphabet, NEW s, IsText(s), NEW i \in Positions(s), NEW dir \in Direction
  PROVE  Takes(s, i, DetailAt(s, i, dir), EdgePattern)
<1> DEFINE open == MatchTo(After(s, i, <<"[">>), {})
           a == Optional(IdentAt(s, open.at), open.at, NoAlias)
           t == Optional(NameAt(s, a.at), a.at, AnyType)
           r == Optional(HopRangeAt(s, t.at), t.at, <<1, 1>>)
           e == [alias |-> a.val, type |-> t.val, dir |-> dir,
                 min |-> r.val[1], max |-> r.val[2]]
<1>1. Takes(s, i, open, {{}})
  BY MarkReads, Marks
<1>2. CASE Found(open)
  <2>1. i > 0 /\ open.at \in i .. Len(s) + 1 /\ Len(s) \in Nat
        /\ open.at \in Positions(s) /\ open.at > 0 /\ open.at \in open.at .. Len(s) + 1
    BY <1>1, <1>2, TextFacts DEF Takes, Positions
  <2> HIDE DEF open
  <2>2. /\ Takes(s, open.at, IdentAt(s, open.at), Alias \cup {NoAlias})
        /\ NoAlias \in Alias \cup {NoAlias}
    BY <2>1, IdentReads DEF Takes, OneAlphabet
  <2>3. Found(a) /\ a.at \in open.at .. Len(s) + 1 /\ a.val \in Alias \cup {NoAlias}
    BY <2>1, <2>2, MayFollow
  <2> HIDE DEF a
  <2>4. a.at \in Positions(s) /\ a.at > 0 /\ a.at \in a.at .. Len(s) + 1
    BY <2>1, <2>3 DEF Positions
  <2>5. /\ Takes(s, a.at, NameAt(s, a.at), EdgeType \cup {AnyType})
        /\ AnyType \in EdgeType \cup {AnyType}
    BY <2>4, NameReads DEF Takes, OneAlphabet
  <2>6. Found(t) /\ t.at \in a.at .. Len(s) + 1 /\ t.val \in EdgeType \cup {AnyType}
    BY <2>4, <2>5, MayFollow
  <2> HIDE DEF t
  <2>7. t.at \in Positions(s) /\ t.at > 0 /\ t.at \in t.at .. Len(s) + 1
    BY <2>4, <2>6 DEF Positions
  <2>8. Takes(s, t.at, HopRangeAt(s, t.at), Nat \X Nat) /\ <<1, 1>> \in Nat \X Nat
    BY <2>7, RangeReads
  <2>9. Found(r) /\ r.at \in t.at .. Len(s) + 1 /\ r.val \in Nat \X Nat
    BY <2>7, <2>8, MayFollow
  <2> HIDE DEF r
  <2>10. r.val[1] \in Nat /\ r.val[2] \in Nat
    BY <2>9
  <2>11. e \in EdgePattern
    BY <2>3, <2>6, <2>10 DEF EdgePattern
  <2>12. r.at \in i .. Len(s) + 1
    BY <2>1, <2>3, <2>4, <2>6, <2>7, <2>9 DEF Positions
  <2>13. DetailAt(s, i, dir) = MatchTo(After(s, r.at, <<"]">>), e)
    BY <1>2, <2>3, <2>6, <2>9 DEF DetailAt, Then, open, a, t, r
  <2> HIDE DEF e
  <2>14. QED  BY <2>1, <2>11, <2>12, <2>13, Closes, Marks
<1>3. CASE ~ Found(open)
  BY <1>3, NothingRead DEF DetailAt, Then
<1>4. QED  BY <1>2, <1>3

LEMMA ArrowReads ==
  ASSUME OneAlphabet, NEW s, IsText(s), NEW i \in Positions(s), NEW dir \in Direction,
         NEW shaft, NEW head, Tokens(shaft), Tokens(head)
  PROVE  Takes(s, i, ArrowAt(s, i, dir, shaft, head), EdgePattern)
<1> DEFINE open == MatchTo(After(s, i, shaft), {})
           d == [alias |-> NoAlias, type |-> AnyType, dir |-> dir, min |-> 1, max |-> 1]
           e == Optional(DetailAt(s, open.at, dir), open.at, d)
<1>1. Takes(s, i, open, {{}})
  BY MarkReads
<1>2. CASE Found(open)
  <2>1. i > 0 /\ open.at \in i .. Len(s) + 1 /\ Len(s) \in Nat
        /\ open.at \in Positions(s) /\ open.at > 0 /\ open.at \in open.at .. Len(s) + 1
    BY <1>1, <1>2, TextFacts DEF Takes, Positions
  <2> HIDE DEF open
  <2>2. Takes(s, open.at, DetailAt(s, open.at, dir), EdgePattern)
    BY <2>1, DetailReads
  <2>3. d \in EdgePattern
    BY DEF EdgePattern
  <2> HIDE DEF d
  <2>4. Found(e) /\ e.at \in open.at .. Len(s) + 1 /\ e.val \in EdgePattern
    BY <2>1, <2>2, <2>3, MayFollow
  <2>5. ArrowAt(s, i, dir, shaft, head) = MatchTo(After(s, e.at, head), e.val)
    BY <1>2, <2>4 DEF ArrowAt, Then, open, d
  <2> HIDE DEF e
  <2>6. e.at \in i .. Len(s) + 1
    BY <2>1, <2>4 DEF Positions
  <2>7. QED  BY <2>1, <2>4, <2>5, <2>6, Closes
<1>3. CASE ~ Found(open)
  BY <1>3, NothingRead DEF ArrowAt, Then
<1>4. QED  BY <1>2, <1>3

LEMMA EdgeReads ==
  ASSUME OneAlphabet, NEW s, IsText(s), NEW i \in Positions(s)
  PROVE  Takes(s, i, EdgeAt(s, i), EdgePattern)
<1>1. PICK ms : ms = <<ArrowAt(s, i, "out", <<"-">>, <<"-", ">">>),
                       ArrowAt(s, i, "in", <<"<", "-">>, <<"-">>)>>
  OBVIOUS
<1>2. ASSUME NEW o \in 1 .. 2 PROVE Takes(s, i, ms[o], EdgePattern)
  <2>1. "out" \in Direction /\ "in" \in Direction
    BY DEF Direction
  <2>2. /\ Takes(s, i, ArrowAt(s, i, "out", <<"-">>, <<"-", ">">>), EdgePattern)
        /\ Takes(s, i, ArrowAt(s, i, "in", <<"<", "-">>, <<"-">>), EdgePattern)
    BY <2>1, ArrowReads, Marks
  <2>3. QED  BY <1>1, <2>2
<1>3. DOMAIN ms = 1 .. 2
  BY <1>1
<1>4. Takes(s, i, FirstOf(ms), EdgePattern)
  BY <1>2, <1>3, FirstOfTakes
<1>5. QED  BY <1>1, <1>4 DEF EdgeAt

HopRead == [edge : EdgePattern, node : NodePattern]

LEMMA HopReads ==
  ASSUME OneAlphabet, NEW s, IsText(s), NEW i \in Positions(s)
  PROVE  Takes(s, i, HopAt(s, i), HopRead)
<1> DEFINE e == EdgeAt(s, i)
           n == NodeAt(s, e.at)
<1>1. Takes(s, i, e, EdgePattern)
  BY EdgeReads
<1>2. CASE Found(e) /\ Found(n)
  <2>1. i > 0 /\ e.at \in i .. Len(s) + 1 /\ e.val \in EdgePattern /\ e.at \in Positions(s)
    BY <1>1, <1>2, TextFacts DEF Takes, Positions
  <2>2. Takes(s, e.at, n, NodePattern)
    BY <2>1, NodeReads
  <2>3. Takes(s, i, n, NodePattern)
    BY <2>1, <2>2, GoesOn
  <2>4. HopAt(s, i) = Match(n.at, [edge |-> e.val, node |-> n.val])
    BY <1>2 DEF HopAt, Then
  <2> HIDE DEF e, n
  <2>5. QED  BY <1>2, <2>1, <2>3, <2>4 DEF Takes, Match, HopRead
<1>3. CASE ~ (Found(e) /\ Found(n))
  BY <1>3, NothingRead DEF HopAt, Then
<1>4. QED  BY <1>2, <1>3

LEMMA PatternReads ==
  ASSUME OneAlphabet, NEW s, IsText(s), NEW i \in Positions(s), NEW p, p = PatternAt(s, i),
         Found(p)
  PROVE  i > 0 /\ p.at \in i + 1 .. Len(s) + 1 /\ IsPattern(p.val)
<1> DEFINE n == NodeAt(s, i)
           item == [j \in Positions(s) |-> HopAt(s, j)]
           h == Many(s, item, n.at)
           nodes == <<n.val>> \o [o \in DOMAIN h.val |-> h.val[o].node]
           edges == [o \in DOMAIN h.val |-> h.val[o].edge]
<1>1. Takes(s, i, n, NodePattern)
  BY NodeReads
<1>2. Found(n)
  BY DEF PatternAt, Then, NoMatch, Match, Found
<1>3. i > 0 /\ n.at \in i + 1 .. Len(s) + 1 /\ n.val \in NodePattern /\ n.at \in Positions(s)
      /\ n.at > 0 /\ Len(s) \in Nat
  BY <1>1, <1>2, TextFacts DEF Takes, Positions
<1>4. \A j \in Positions(s) : Takes(s, j, item[j], HopRead)
  BY HopReads
<1> HIDE DEF item
<1>5. MayTake(s, n.at, h, Seq(HopRead)) /\ Found(h)
  BY <1>3, <1>4, ManyTakes
<1>6. p = Match(h.at, [nodes |-> nodes, edges |-> edges])
  BY <1>2, <1>5 DEF PatternAt, Then, item
<1> HIDE DEF h, n
<1>7. h.at \in i + 1 .. Len(s) + 1 /\ h.val \in Seq(HopRead)
  BY <1>3, <1>5 DEF MayTake, Positions
<1>8. DOMAIN h.val = 1 .. Len(h.val) /\ Len(h.val) \in Nat
      /\ \A o \in DOMAIN h.val : h.val[o] \in HopRead
  BY <1>7, LenProperties, ElementOfSeq
<1>9. edges \in Seq(EdgePattern) /\ Len(edges) = Len(h.val)
  <2>1. \A o \in 1 .. Len(h.val) : h.val[o].edge \in EdgePattern
    BY <1>8 DEF HopRead
  <2>2. QED  BY <1>8, <2>1
<1>10. nodes \in Seq(NodePattern) /\ Len(nodes) = Len(h.val) + 1
  <2> DEFINE rest == [o \in DOMAIN h.val |-> h.val[o].node]
  <2>1. \A o \in 1 .. Len(h.val) : h.val[o].node \in NodePattern
    BY <1>8 DEF HopRead
  <2>2. rest \in Seq(NodePattern) /\ Len(rest) = Len(h.val)
    BY <1>8, <2>1
  <2>3. <<n.val>> \in Seq(NodePattern) /\ Len(<<n.val>>) = 1
    BY <1>3
  <2> HIDE DEF rest
  <2>4. <<n.val>> \o rest \in Seq(NodePattern) /\ Len(<<n.val>> \o rest) = 1 + Len(rest)
    BY <2>2, <2>3, ConcatProperties
  <2>5. QED  BY <1>8, <2>2, <2>4 DEF rest
<1> HIDE DEF nodes, edges
<1>11. QED  BY <1>3, <1>6, <1>7, <1>8, <1>9, <1>10 DEF IsPattern, Match

(* The conditions.                                                         *)

IsWhere(w) ==
  /\ DOMAIN w = 1 .. Len(w) /\ Len(w) \in Nat
  /\ \A o \in DOMAIN w : IsCondition(w[o])

\* What the WHERE rule of some depth reads, at every position.
ReadsWhere(s, inner) ==
  \A j \in Positions(s) :
    Found(inner[j]) => j > 0 /\ inner[j].at \in j + 1 .. Len(s) + 1 /\ IsWhere(inner[j].val)

LEMMA PropertyReads ==
  ASSUME OneAlphabet, NEW s, IsText(s), NEW i \in Positions(s)
  PROVE  Takes(s, i, PropertyAt(s, i), Comparison)
<1> DEFINE l == RefAt(s, i)
           o == OpAt(s, l.at)
           v == LiteralAt(s, o.at)
           c == [kind |-> "property", alias |-> l.val.alias,
                 filter |-> [prop |-> l.val.prop, op |-> o.val, val |-> v.val]]
<1>1. Takes(s, i, l, PropertyRef)
  BY RefReads
<1>2. CASE Found(l) /\ Found(o) /\ Found(v)
  <2>1. i > 0 /\ l.at \in i .. Len(s) + 1 /\ l.val \in PropertyRef /\ l.at \in Positions(s)
    BY <1>1, <1>2, TextFacts DEF Takes, Positions
  <2>2. PropertyAt(s, i) = Match(v.at, c)
    BY <1>2 DEF PropertyAt, Then
  <2> HIDE DEF l
  <2>3. Takes(s, i, o, Op)
    BY <2>1, OpReads, GoesOn
  <2>4. o.at \in i .. Len(s) + 1 /\ o.val \in Op /\ o.at \in Positions(s)
    BY <1>2, <2>1, <2>3, TextFacts DEF Takes, Positions
  <2> HIDE DEF o
  <2>5. Takes(s, i, v, Literal)
    BY <2>1, <2>4, LiteralReads, GoesOn
  <2> HIDE DEF v
  <2>6. v.val \in Literal
    BY <1>2, <2>5 DEF Takes
  <2>7. c \in [kind : {"property"}, alias : Alias, filter : LiteralFilter]
    BY <2>1, <2>4, <2>6 DEF PropertyRef, LiteralFilter
  <2>8. c \in Comparison
    BY <2>7 DEF Comparison
  <2> HIDE DEF c
  <2>9. QED  BY <1>2, <2>2, <2>5, <2>8 DEF Takes, Match
<1>3. CASE ~ (Found(l) /\ Found(o) /\ Found(v))
  BY <1>3, NothingRead DEF PropertyAt, Then
<1>4. QED  BY <1>2, <1>3

LEMMA PropertyPairReads ==
  ASSUME OneAlphabet, NEW s, IsText(s), NEW i \in Positions(s)
  PROVE  Takes(s, i, PropertyPairAt(s, i), Comparison)
<1> DEFINE l == RefAt(s, i)
           o == OpAt(s, l.at)
           r == RefAt(s, o.at)
           c == [kind |-> "properties", left |-> l.val, op |-> o.val, right |-> r.val]
<1>1. Takes(s, i, l, PropertyRef)
  BY RefReads
<1>2. CASE Found(l) /\ Found(o) /\ Found(r)
  <2>1. i > 0 /\ l.at \in i .. Len(s) + 1 /\ l.val \in PropertyRef /\ l.at \in Positions(s)
    BY <1>1, <1>2, TextFacts DEF Takes, Positions
  <2>2. PropertyPairAt(s, i) = Match(r.at, c)
    BY <1>2 DEF PropertyPairAt, PairAt, Then
  <2> HIDE DEF l
  <2>3. Takes(s, i, o, Op)
    BY <2>1, OpReads, GoesOn
  <2>4. o.at \in i .. Len(s) + 1 /\ o.val \in Op /\ o.at \in Positions(s)
    BY <1>2, <2>1, <2>3, TextFacts DEF Takes, Positions
  <2> HIDE DEF o
  <2>5. Takes(s, i, r, PropertyRef)
    BY <2>1, <2>4, RefReads, GoesOn
  <2> HIDE DEF r
  <2>6. r.val \in PropertyRef
    BY <1>2, <2>5 DEF Takes
  <2>7. c \in [kind : {"properties"}, left : PropertyRef, op : Op, right : PropertyRef]
    BY <2>1, <2>4, <2>6
  <2>8. c \in Comparison
    BY <2>7 DEF Comparison
  <2> HIDE DEF c
  <2>9. QED  BY <1>2, <2>2, <2>5, <2>8 DEF Takes, Match
<1>3. CASE ~ (Found(l) /\ Found(o) /\ Found(r))
  BY <1>3, NothingRead DEF PropertyPairAt, PairAt, Then
<1>4. QED  BY <1>2, <1>3

LEMMA AliasPairReads ==
  ASSUME OneAlphabet, NEW s, IsText(s), NEW i \in Positions(s)
  PROVE  Takes(s, i, AliasPairAt(s, i), Comparison)
<1> DEFINE l == IdentAt(s, i)
           o == OpAt(s, l.at)
           r == IdentAt(s, o.at)
           c == [kind |-> "aliases", left |-> l.val, op |-> o.val, right |-> r.val]
<1>1. Takes(s, i, l, Word)
  BY IdentReads
<1>2. CASE Found(l) /\ Found(o) /\ Found(r)
  <2>1. i > 0 /\ l.at \in i .. Len(s) + 1 /\ l.val \in Alias /\ l.at \in Positions(s)
    BY <1>1, <1>2, TextFacts DEF Takes, Positions, OneAlphabet
  <2>2. AliasPairAt(s, i) = Match(r.at, c)
    BY <1>2 DEF AliasPairAt, PairAt, Then
  <2> HIDE DEF l
  <2>3. Takes(s, i, o, Op)
    BY <2>1, OpReads, GoesOn
  <2>4. o.at \in i .. Len(s) + 1 /\ o.val \in Op /\ o.at \in Positions(s)
    BY <1>2, <2>1, <2>3, TextFacts DEF Takes, Positions
  <2> HIDE DEF o
  <2>5. Takes(s, i, r, Word)
    BY <2>1, <2>4, IdentReads, GoesOn
  <2> HIDE DEF r
  <2>6. r.val \in Alias
    BY <1>2, <2>5 DEF Takes, OneAlphabet
  <2>7. c \in [kind : {"aliases"}, left : Alias, op : Op, right : Alias]
    BY <2>1, <2>4, <2>6
  <2>8. c \in Comparison
    BY <2>7 DEF Comparison
  <2> HIDE DEF c
  <2>9. QED  BY <1>2, <2>2, <2>5, <2>8 DEF Takes, Match
<1>3. CASE ~ (Found(l) /\ Found(o) /\ Found(r))
  BY <1>3, NothingRead DEF AliasPairAt, PairAt, Then
<1>4. QED  BY <1>2, <1>3

LEMMA AbsenceReads ==
  ASSUME OneAlphabet, NEW s, IsText(s), NEW inner, ReadsWhere(s, inner),
         NEW i \in Positions(s), NEW c, c = AbsenceAt(s, inner, i), Found(c)
  PROVE  i > 0 /\ c.at \in i + 1 .. Len(s) + 1 /\ IsAbsence(c.val)
<1>1. PICK a : a = After(s, i, <<"NOT", "EXISTS", "{", "MATCH">>)
  OBVIOUS
<1>2. a \in Positions(s)
  BY <1>1, AfterAt, Marks
<1>3. PICK p : p = PatternAt(s, a)
  OBVIOUS
<1>4. Found(p)
  <2>1. ASSUME ~ Found(p) PROVE c = NoMatch
    BY <1>1, <1>3, <2>1 DEF AbsenceAt, Then
  <2>2. QED  BY <2>1 DEF NoMatch, Match, Found
<1>5. a > 0 /\ p.at \in a + 1 .. Len(s) + 1 /\ IsPattern(p.val)
  BY <1>2, <1>3, <1>4, PatternReads
<1>6. i > 0 /\ p.at \in i + 1 .. Len(s) + 1 /\ p.at \in Positions(s) /\ p.at > 0 /\ Len(s) \in Nat
  <2>0. PICK ts : a = After(s, i, ts) /\ Tokens(ts)
    BY <1>1, Marks
  <2>1. i > 0 /\ a \in i + 1 .. Len(s) + 1
    BY <1>5, <2>0, Opens
  <2>2. QED  BY <1>5, <2>1, TextFacts DEF Positions
<1>7. PICK w : w = Optional(inner[p.at], p.at, <<>>)
  OBVIOUS
<1>8. Found(w) /\ w.at \in p.at .. Len(s) + 1 /\ IsWhere(w.val)
  <2>1. CASE Found(inner[p.at])
    BY <1>6, <1>7, <2>1 DEF ReadsWhere, Optional
  <2>2. CASE ~ Found(inner[p.at])
    <3>1. w = Match(p.at, <<>>)
      BY <1>7, <2>2 DEF Optional
    <3>2. IsWhere(<<>>)
      BY DEF IsWhere
    <3>3. QED  BY <1>6, <3>1, <3>2 DEF Match, Found
  <2>3. QED  BY <2>1, <2>2
<1>9. PICK v : v = [kind |-> "absent", nodes |-> p.val.nodes, edges |-> p.val.edges,
                    where |-> w.val]
  OBVIOUS
<1>10. c = MatchTo(After(s, w.at, <<"}">>), v)
  BY <1>1, <1>3, <1>4, <1>7, <1>8, <1>9 DEF AbsenceAt, Then
<1>11. Takes(s, i, c, {v})
  <2>1. w.at \in i .. Len(s) + 1
    BY <1>6, <1>8 DEF Positions
  <2>2. QED  BY <1>6, <1>10, <2>1, Closes, Marks
<1>12. IsPattern(v) /\ v.kind = "absent" /\ v.where = w.val
  BY <1>5, <1>9 DEF IsPattern
<1>13. \A o \in DOMAIN v.where : v.where[o] \in Comparison \/ v.where[o].kind = "absent"
  BY <1>8, <1>12 DEF IsWhere, IsCondition, IsAbsence
<1>14. IsAbsence(v)
  BY <1>12, <1>13 DEF IsAbsence
<1>15. QED  BY <1>11, <1>14 DEF Takes

LEMMA ConditionReads ==
  ASSUME OneAlphabet, NEW s, IsText(s), NEW inner, ReadsWhere(s, inner),
         NEW i \in Positions(s), NEW V,
         \A j \in Positions(s) :
           LET c == AbsenceAt(s, inner, j) IN Found(c) /\ IsAbsence(c.val) => c.val \in V,
         Comparison \subseteq V
  PROVE  Takes(s, i, ConditionAt(s, inner, i), V)
<1>1. PICK ms : ms = <<AbsenceAt(s, inner, i), PropertyPairAt(s, i), PropertyAt(s, i),
                       AliasPairAt(s, i)>>
  OBVIOUS
<1>2. DOMAIN ms = 1 .. 4 /\ ms[1] = AbsenceAt(s, inner, i) /\ ms[2] = PropertyPairAt(s, i)
      /\ ms[3] = PropertyAt(s, i) /\ ms[4] = AliasPairAt(s, i)
  BY <1>1
<1>3. Takes(s, i, ms[1], V)
  BY <1>2, AbsenceReads DEF Takes
<1>4. Takes(s, i, ms[2], V) /\ Takes(s, i, ms[3], V) /\ Takes(s, i, ms[4], V)
  BY <1>2, PropertyReads, PropertyPairReads, AliasPairReads DEF Takes
<1>5. ASSUME NEW o \in 1 .. 4 PROVE Takes(s, i, ms[o], V)
  <2>1. o = 1 \/ o = 2 \/ o = 3 \/ o = 4
    OBVIOUS
  <2>2. QED  BY <1>3, <1>4, <2>1
<1>6. Takes(s, i, FirstOf(ms), V)
  BY <1>2, <1>5, FirstOfTakes
<1>7. QED  BY <1>1, <1>6 DEF ConditionAt

\* A WHERE clause whose NOT EXISTS read with inner.
LEMMA WhereOverReads ==
  ASSUME OneAlphabet, NEW s, IsText(s), NEW inner, ReadsWhere(s, inner),
         NEW i \in Positions(s), NEW w, w = WhereOver(s, inner, i), Found(w)
  PROVE  i > 0 /\ w.at \in i + 1 .. Len(s) + 1 /\ IsWhere(w.val)
<1> DEFINE absent == {AbsenceAt(s, inner, j).val :
                        j \in {l \in Positions(s) : Found(AbsenceAt(s, inner, l))
                                                   /\ IsAbsence(AbsenceAt(s, inner, l).val)}}
           V == Comparison \cup absent
           item == [j \in Positions(s) |-> ConditionAt(s, inner, j)]
<1>1. PICK open : open = MatchTo(After(s, i, <<"WHERE">>), {})
  OBVIOUS
<1>2. Found(open) /\ w = ListOf(s, item, "AND", open.at)
  BY <1>1 DEF WhereOver, Then, NoMatch, Match, Found
<1>3. \A j \in Positions(s) : Takes(s, j, item[j], V)
  <2>1. \A j \in Positions(s) :
          LET c == AbsenceAt(s, inner, j) IN Found(c) /\ IsAbsence(c.val) => c.val \in V
    OBVIOUS
  <2>2. Comparison \subseteq V
    OBVIOUS
  <2> HIDE DEF V
  <2>3. QED  BY <2>1, <2>2, ConditionReads
<1>4. \A c \in V : IsCondition(c)
  BY DEF IsCondition
<1> HIDE DEF item, V
<1>5. Takes(s, i, open, {{}})
  BY <1>1, MarkReads, Marks
<1>6. i > 0 /\ open.at \in i + 1 .. Len(s) + 1 /\ open.at \in Positions(s) /\ Len(s) \in Nat
  BY <1>2, <1>5, TextFacts DEF Takes, Positions
<1>7. Takes(s, open.at, w, Seq(V))
  BY <1>2, <1>3, <1>6, ListTakes, Marks
<1>8. w.at \in i + 1 .. Len(s) + 1 /\ w.val \in Seq(V)
  BY <1>6, <1>7 DEF Takes, Positions
<1>9. IsWhere(w.val)
  BY <1>4, <1>8, LenProperties, ElementOfSeq DEF IsWhere
<1>10. QED  BY <1>6, <1>8, <1>9

\* From zero upwards.
LEMMA Forwards ==
  ASSUME NEW N \in Nat, NEW P, 0 \in P,
         \A d, e \in 0 .. N : e = d + 1 /\ d \in P => e \in P
  PROVE  \A d \in 0 .. N : d \in P
<1> DEFINE T == {d \in 0 .. N : d \notin P}
<1>1. T = {}
  <2> SUFFICES ASSUME T # {} PROVE FALSE
    OBVIOUS
  <2>1. T \in SUBSET Nat
    OBVIOUS
  <2>2. PICK d \in T : \A c \in T : d <= c
    BY <2>1, LeastOf
  <2>3. d # 0 /\ d \in 0 .. N /\ d \notin P
    BY <2>2
  <2>4. d - 1 \in 0 .. N /\ d = (d - 1) + 1 /\ ~ (d <= d - 1)
    BY <2>3
  <2>5. d - 1 \in P
    BY <2>2, <2>4
  <2>6. QED  BY <2>3, <2>4, <2>5
<1>2. QED  BY <1>1

LEMMA WhereReads ==
  ASSUME OneAlphabet, NEW s, IsText(s), NEW i \in Positions(s),
         NEW w, w = WhereAt(s, i), Found(w)
  PROVE  i > 0 /\ w.at \in i + 1 .. Len(s) + 1 /\ IsWhere(w.val)
<1> DEFINE N == Len(s)
           Body(g, d) == [j \in Positions(s) |-> IF d = 0 THEN NoMatch
                                                 ELSE WhereOver(s, g[d - 1], j)]
           Reps(d, g) == \A c \in 0 .. d : g[c] = Body(g, c)
           Is(f) == f = [d \in 0 .. N |-> Body(f, d)]
           f == CHOOSE f : Is(f)
<1>1. N \in Nat
  BY TextFacts
<1>2. \E g : Reps(N, g)
  <2> DEFINE P == {d \in 0 .. N : \E g : Reps(d, g)}
  <2>1. 0 \in P
    <3>1. PICK g : g[0] = [j \in Positions(s) |-> NoMatch]
      <4>1. [d \in {0} |-> [j \in Positions(s) |-> NoMatch]][0]
              = [j \in Positions(s) |-> NoMatch]
        OBVIOUS
      <4>2. QED  BY <4>1
    <3>2. ASSUME NEW c \in 0 .. 0 PROVE g[c] = Body(g, c)
      <4>1. c = 0
        OBVIOUS
      <4>2. QED  BY <3>1, <4>1
    <3>3. QED  BY <1>1, <3>2
  <2>2. ASSUME NEW d \in 0 .. N, NEW e \in 0 .. N, e = d + 1, d \in P PROVE e \in P
    <3>1. PICK h : Reps(d, h)
      BY <2>2
    <3> DEFINE g == [c \in 0 .. e |-> IF c = e THEN Body(h, e) ELSE h[c]]
    <3>2. g[e] = Body(h, e) /\ \A c \in 0 .. d : g[c] = h[c]
      BY <1>1, <2>2
    <3>3. ASSUME NEW c \in 0 .. e PROVE g[c] = Body(g, c)
      <4>1. c # 0 => c - 1 \in 0 .. d
        BY <1>1, <2>2
      <4> HIDE DEF g
      <4>2. Body(g, c) = Body(h, c)
        BY <3>2, <4>1
      <4>3. CASE c = e
        BY <3>2, <4>2, <4>3
      <4>4. CASE c # e
        <5>1. c \in 0 .. d
          BY <1>1, <2>2, <4>4
        <5>2. QED  BY <3>1, <3>2, <4>2, <5>1
      <4>5. QED  BY <4>3, <4>4
    <3> HIDE DEF g, Body
    <3>4. Reps(e, g)
      BY <3>3
    <3>5. QED  BY <3>4
  <2> HIDE DEF P
  <2>3. \A d \in 0 .. N : d \in P
    BY <1>1, <2>1, <2>2, Forwards
  <2>4. N \in 0 .. N
    BY <1>1
  <2>5. QED  BY <2>3, <2>4 DEF P
<1>3. \E g : Is(g)
  <2>1. PICK g : Reps(N, g)
    BY <1>2
  <2> DEFINE h == [d \in 0 .. N |-> g[d]]
  <2>2. ASSUME NEW d \in 0 .. N PROVE g[d] = Body(h, d)
    <3>1. d # 0 => d - 1 \in 0 .. N
      BY <1>1
    <3>2. \A c \in 0 .. N : h[c] = g[c]
      OBVIOUS
    <3> HIDE DEF h
    <3>3. Body(h, d) = Body(g, d)
      BY <3>1, <3>2
    <3>4. QED  BY <2>1, <3>3
  <2>3. h = [d \in 0 .. N |-> Body(h, d)]
    BY <2>2
  <2>4. QED  BY <2>3
<1>4. Is(f)
  BY <1>3
<1>5. WhereAt(s, i) = f[N][i]
  BY DEF WhereAt
<1> HIDE DEF f
<1> DEFINE P == {d \in 0 .. N : ReadsWhere(s, f[d])}
<1>6. 0 \in P
  <2>1. f[0] = [j \in Positions(s) |-> NoMatch]
    BY <1>1, <1>4
  <2>2. ReadsWhere(s, f[0])
    BY <2>1 DEF ReadsWhere, NoMatch, Match, Found
  <2>3. QED  BY <1>1, <2>2
<1>7. ASSUME NEW d \in 0 .. N, NEW e \in 0 .. N, e = d + 1, d \in P PROVE e \in P
  <2>1. e # 0 /\ e - 1 = d
    BY <1>1, <1>7
  <2>2. f[e] = [j \in Positions(s) |-> WhereOver(s, f[d], j)]
    BY <1>4, <2>1
  <2>3. ReadsWhere(s, f[d])
    BY <1>7
  <2>4. \A j \in Positions(s) :
          Found(f[e][j]) =>
            j > 0 /\ f[e][j].at \in j + 1 .. Len(s) + 1 /\ IsWhere(f[e][j].val)
    BY <2>2, <2>3, WhereOverReads
  <2>5. QED  BY <2>4 DEF ReadsWhere
<1> HIDE DEF P
<1>8. \A d \in 0 .. N : d \in P
  BY <1>1, <1>6, <1>7, Forwards
<1>9. N \in 0 .. N
  BY <1>1
<1>10. ReadsWhere(s, f[N])
  BY <1>8, <1>9 DEF P
<1>11. QED  BY <1>5, <1>10 DEF ReadsWhere

(* The rest of a query.                                                    *)

ReturnRead == [alias : Alias, prop : Property \cup {NoProperty}]

LEMMA ReturnReads ==
  ASSUME OneAlphabet, NEW s, IsText(s), NEW i \in Positions(s)
  PROVE  Takes(s, i, ReturnItemAt(s, i), ReturnRead)
<1> DEFINE a == IdentAt(s, i)
           bare == Then(a, LAMBDA m : Match(m.at, [alias |-> m.val, prop |-> NoProperty]))
<1>1. Takes(s, i, RefAt(s, i), ReturnRead)
  BY RefReads DEF Takes, PropertyRef, ReturnRead
<1>2. Takes(s, i, bare, ReturnRead)
  <2>1. Takes(s, i, a, Word)
    BY IdentReads
  <2>2. CASE Found(a)
    BY <2>1, <2>2 DEF Then, Takes, Match, ReturnRead, OneAlphabet
  <2>3. CASE ~ Found(a)
    BY <2>3, NothingRead DEF Then
  <2>4. QED  BY <2>2, <2>3
<1>3. PICK ms : ms = <<RefAt(s, i), bare>>
  OBVIOUS
<1>4. DOMAIN ms = 1 .. 2 /\ ms[1] = RefAt(s, i) /\ ms[2] = bare
  BY <1>3
<1>5. ReturnItemAt(s, i) = FirstOf(ms)
  BY <1>3 DEF ReturnItemAt
<1> HIDE DEF bare
<1>6. ASSUME NEW o \in 1 .. 2 PROVE Takes(s, i, ms[o], ReturnRead)
  BY <1>1, <1>2, <1>4
<1>7. QED  BY <1>4, <1>5, <1>6, FirstOfTakes

LEMMA OrderReads ==
  ASSUME OneAlphabet, NEW s, IsText(s), NEW i \in Positions(s)
  PROVE  Takes(s, i, OrderByAt(s, i), OrderBy)
<1> DEFINE r == RefAt(s, After(s, i, <<"ORDER", "BY">>))
           ms == <<MatchTo(After(s, r.at, <<"ASC">>), "asc"),
                   MatchTo(After(s, r.at, <<"DESC">>), "desc")>>
           d == Optional(FirstOf(ms), r.at, "asc")
<1>1. Takes(s, i, r, PropertyRef)
  BY AfterAt, ReadsAfter, RefReads, Marks
<1>2. CASE Found(r)
  <2>1. i > 0 /\ r.at \in i .. Len(s) + 1 /\ r.at \in i + 1 .. Len(s) + 1 /\ r.val \in PropertyRef
        /\ r.at \in Positions(s) /\ r.at > 0 /\ r.at \in r.at .. Len(s) + 1
    BY <1>1, <1>2, TextFacts DEF Takes, Positions
  <2> HIDE DEF r
  <2>2. DOMAIN ms = 1 .. 2 /\ ms[1] = MatchTo(After(s, r.at, <<"ASC">>), "asc")
        /\ ms[2] = MatchTo(After(s, r.at, <<"DESC">>), "desc")
    OBVIOUS
  <2> HIDE DEF ms
  <2>3. Takes(s, r.at, ms[1], {"asc", "desc"}) /\ Takes(s, r.at, ms[2], {"asc", "desc"})
    BY <2>1, <2>2, MarkReads, Marks
  <2>4. \A o \in 1 .. 2 : Takes(s, r.at, ms[o], {"asc", "desc"})
    BY <2>3
  <2>5. Takes(s, r.at, FirstOf(ms), {"asc", "desc"}) /\ "asc" \in {"asc", "desc"}
    BY <2>2, <2>4, FirstOfTakes
  <2>6. Found(d) /\ d.at \in r.at .. Len(s) + 1 /\ d.val \in {"asc", "desc"}
    BY <2>1, <2>5, MayFollow
  <2>7. OrderByAt(s, i) = Match(d.at, [alias |-> r.val.alias, prop |-> r.val.prop, dir |-> d.val])
    BY <1>2, <2>6 DEF OrderByAt, Then, r, ms
  <2> HIDE DEF d
  <2>8. [alias |-> r.val.alias, prop |-> r.val.prop, dir |-> d.val] \in OrderBy
    BY <2>1, <2>6 DEF PropertyRef, OrderBy
  <2>9. d.at \in i + 1 .. Len(s) + 1
    BY <2>1, <2>6 DEF Positions
  <2>10. QED  BY <2>1, <2>7, <2>8, <2>9 DEF Takes, Match
<1>3. CASE ~ Found(r)
  BY <1>3, NothingRead DEF OrderByAt, Then
<1>4. QED  BY <1>2, <1>3

LEMMA LimitReads ==
  ASSUME OneAlphabet, NEW s, IsText(s), NEW i \in Positions(s)
  PROVE  Takes(s, i, LimitAt(s, i), Nat)
BY AfterAt, ReadsAfter, NumberReads, Marks DEF LimitAt

\* What the parser reads in any text is a query.
LEMMA QueryReads ==
  ASSUME OneAlphabet, NEW s, IsText(s), NEW m, m = QueryAt(s), Found(m)
  PROVE  IsQuery(m.val) /\ Len(s) >= 1
<1>1. 1 \in Positions(s) /\ Len(s) \in Nat
  BY TextFacts DEF Positions
<1>2. PICK a : a = After(s, 1, <<"MATCH">>)
  OBVIOUS
<1>3. PICK p : p = PatternAt(s, a)
  OBVIOUS
<1>4. Found(p)
  <2>1. ASSUME ~ Found(p) PROVE m = NoMatch
    BY <1>2, <1>3, <2>1 DEF QueryAt, Then
  <2>2. QED  BY <2>1 DEF NoMatch, Match, Found
<1>5. a \in Positions(s)
  BY <1>1, <1>2, AfterAt, Marks
<1>6. a > 0 /\ p.at \in a + 1 .. Len(s) + 1 /\ IsPattern(p.val)
  BY <1>3, <1>4, <1>5, PatternReads
<1>7. p.at \in Positions(s) /\ Len(s) >= 1 /\ p.at > 0
  <2>1. a \in 1 + 1 .. Len(s) + 1
    BY <1>1, <1>2, <1>6, Opens, Marks
  <2>2. QED  BY <1>1, <1>6, <2>1 DEF Positions
<1>8. PICK w : w = Optional(WhereAt(s, p.at), p.at, <<>>)
  OBVIOUS
<1>9. Found(w) /\ w.at \in p.at .. Len(s) + 1 /\ IsWhere(w.val)
  <2>1. PICK v : v = WhereAt(s, p.at)
    OBVIOUS
  <2>2. CASE Found(v)
    <3>1. v.at \in p.at + 1 .. Len(s) + 1 /\ IsWhere(v.val)
      BY <1>7, <2>1, <2>2, WhereReads
    <3>2. w = v
      BY <1>8, <2>1, <2>2 DEF Optional
    <3>3. QED  BY <1>1, <1>7, <2>2, <3>1, <3>2 DEF Positions
  <2>3. CASE ~ Found(v)
    <3>1. w = Match(p.at, <<>>)
      BY <1>8, <2>1, <2>3 DEF Optional
    <3>2. IsWhere(<<>>)
      BY DEF IsWhere
    <3>3. QED  BY <1>1, <1>7, <3>1, <3>2 DEF Match, Found, Positions
  <2>4. QED  BY <2>2, <2>3
<1>10. w.at \in Positions(s)
  BY <1>1, <1>7, <1>9 DEF Positions
<1> DEFINE item == [j \in Positions(s) |-> ReturnItemAt(s, j)]
<1>11. PICK b : b = After(s, w.at, <<"RETURN">>)
  OBVIOUS
<1>12. PICK r : r = ListOf(s, item, ",", b)
  OBVIOUS
<1>13. Found(r)
  <2>1. ASSUME ~ Found(r) PROVE m = NoMatch
    BY <1>2, <1>3, <1>4, <1>8, <1>9, <1>11, <1>12, <2>1 DEF QueryAt, Then
  <2>2. QED  BY <2>1 DEF NoMatch, Match, Found
<1>14. b \in Positions(s)
  BY <1>10, <1>11, AfterAt, Marks
<1>15. b > 0 /\ r.at \in b + 1 .. Len(s) + 1 /\ r.val \in Seq(ReturnRead)
  <2>1. \A j \in Positions(s) : Takes(s, j, item[j], ReturnRead)
    BY ReturnReads
  <2> HIDE DEF item
  <2>2. Takes(s, b, r, Seq(ReturnRead))
    BY <1>12, <1>14, <2>1, ListTakes, Marks
  <2>3. QED  BY <1>13, <2>2 DEF Takes
<1>16. r.at \in Positions(s) /\ r.at > 0 /\ r.at \in r.at .. Len(s) + 1
  BY <1>1, <1>14, <1>15 DEF Positions
<1>17. PICK o : o = Optional(OrderByAt(s, r.at), r.at, NoOrder)
  OBVIOUS
<1>18. Found(o) /\ o.at \in r.at .. Len(s) + 1 /\ o.val \in OrderBy \cup {NoOrder}
  <2>1. /\ Takes(s, r.at, OrderByAt(s, r.at), OrderBy \cup {NoOrder})
        /\ NoOrder \in OrderBy \cup {NoOrder}
    BY <1>16, OrderReads DEF Takes
  <2>2. QED  BY <1>16, <1>17, <2>1, MayFollow
<1>19. o.at \in Positions(s) /\ o.at > 0 /\ o.at \in o.at .. Len(s) + 1
  BY <1>1, <1>16, <1>18 DEF Positions
<1>20. PICK l : l = Optional(LimitAt(s, o.at), o.at, NoLimit)
  OBVIOUS
<1>21. Found(l) /\ l.val \in Nat \cup {NoLimit}
  <2>1. /\ Takes(s, o.at, LimitAt(s, o.at), Nat \cup {NoLimit})
        /\ NoLimit \in Nat \cup {NoLimit}
    BY <1>19, LimitReads DEF Takes
  <2>2. QED  BY <1>19, <1>20, <2>1, MayFollow
<1>22. m.val = [nodes |-> p.val.nodes, edges |-> p.val.edges, where |-> w.val,
                returns |-> r.val, order |-> o.val, limit |-> l.val]
  <2>1. Tok(s, l.at) = "EOI"
    <3>1. ASSUME Tok(s, l.at) # "EOI" PROVE m = NoMatch
      BY <1>2, <1>3, <1>4, <1>8, <1>9, <1>11, <1>12, <1>13, <1>17, <1>18, <1>20, <1>21, <3>1
         DEF QueryAt, Then
    <3>2. QED  BY <3>1 DEF NoMatch, Match, Found
  <2>2. QED
    BY <1>2, <1>3, <1>4, <1>8, <1>9, <1>11, <1>12, <1>13, <1>17, <1>18, <1>20, <1>21, <2>1
       DEF QueryAt, Then, Match
<1>23. IsPattern(m.val)
  BY <1>6, <1>22 DEF IsPattern
<1>24. \A k \in DOMAIN r.val : r.val[k].alias \in Alias
                               /\ r.val[k].prop \in Property \cup {NoProperty}
  <2>1. \A k \in DOMAIN r.val : r.val[k] \in ReturnRead
    BY <1>15, LenProperties, ElementOfSeq
  <2>2. QED  BY <2>1 DEF ReturnRead
<1>25. IsQuery(m.val)
  BY <1>9, <1>18, <1>21, <1>22, <1>23, <1>24 DEF IsQuery, IsWhere
<1>26. QED  BY <1>7, <1>25

(* The patterns of a query.                                                *)

LEMMA PatternsInclude ==
  ASSUME NEW q, NEW n \in Nat, n >= 1
  PROVE  /\ q \in PatternsOf(q, n)
         /\ \A c \in Range(q.where) : c.kind = "absent" => c \in PatternsOf(q, n)
<1> DEFINE In(U) == U \cup {c \in UNION {Range(p.where) : p \in U} : c.kind = "absent"}
           Body(g, d) == IF d = 0 THEN {q} ELSE In(g[d - 1])
           Reps(d, g) == \A c \in 0 .. d : g[c] = Body(g, c)
           Is(f) == f = [d \in 0 .. n |-> Body(f, d)]
           f == CHOOSE f : Is(f)
<1>1. \E g : Reps(n, g)
  <2> DEFINE P == {d \in 0 .. n : \E g : Reps(d, g)}
  <2>1. 0 \in P
    <3>1. PICK g : g[0] = {q}
      <4>1. [d \in {0} |-> {q}][0] = {q}
        OBVIOUS
      <4>2. QED  BY <4>1
    <3>2. ASSUME NEW c \in 0 .. 0 PROVE g[c] = Body(g, c)
      <4>1. c = 0
        OBVIOUS
      <4>2. QED  BY <3>1, <4>1
    <3>3. 0 \in 0 .. n
      OBVIOUS
    <3> HIDE DEF Body
    <3>4. QED  BY <3>2, <3>3
  <2>2. ASSUME NEW d \in 0 .. n, NEW e \in 0 .. n, e = d + 1, d \in P PROVE e \in P
    <3>1. PICK h : Reps(d, h)
      BY <2>2
    <3> DEFINE g == [c \in 0 .. e |-> IF c = e THEN Body(h, e) ELSE h[c]]
    <3>2. g[e] = Body(h, e) /\ \A c \in 0 .. d : g[c] = h[c]
      BY <2>2
    <3>3. ASSUME NEW c \in 0 .. e PROVE g[c] = Body(g, c)
      <4>1. c # 0 => c - 1 \in 0 .. d
        BY <2>2
      <4> HIDE DEF g
      <4>2. Body(g, c) = Body(h, c)
        <5> HIDE DEF In
        <5>1. QED  BY <3>2, <4>1
      <4>3. CASE c = e
        BY <3>2, <4>2, <4>3
      <4>4. CASE c # e
        <5>1. c \in 0 .. d
          BY <2>2, <4>4
        <5>2. QED  BY <3>1, <3>2, <4>2, <5>1
      <4>5. QED  BY <4>3, <4>4
    <3> HIDE DEF g, Body
    <3>4. Reps(e, g)
      BY <3>3
    <3>5. QED  BY <3>4
  <2> HIDE DEF P
  <2>3. \A d \in 0 .. n : d \in P
    BY <2>1, <2>2, Forwards
  <2>4. n \in 0 .. n
    OBVIOUS
  <2>5. QED  BY <2>3, <2>4 DEF P
<1>2. \E g : Is(g)
  <2>1. PICK g : Reps(n, g)
    BY <1>1
  <2> DEFINE h == [d \in 0 .. n |-> g[d]]
  <2>2. ASSUME NEW d \in 0 .. n PROVE g[d] = Body(h, d)
    <3>1. d # 0 => d - 1 \in 0 .. n
      OBVIOUS
    <3>2. \A c \in 0 .. n : h[c] = g[c]
      OBVIOUS
    <3> HIDE DEF h, In
    <3>3. Body(h, d) = Body(g, d)
      BY <3>1, <3>2
    <3>4. QED  BY <2>1, <3>3
  <2>3. h = [d \in 0 .. n |-> Body(h, d)]
    BY <2>2
  <2>4. QED  BY <2>3
<1>3. Is(f)
  BY <1>2
<1>4. PatternsOf(q, n) = f[n]
  BY DEF PatternsOf
<1> HIDE DEF f
<1> DEFINE inside == {c \in Range(q.where) : c.kind = "absent"}
           P == {d \in 0 .. n : q \in f[d] /\ (d >= 1 => inside \subseteq f[d])}
<1>5. 0 \in P
  <2>1. f[0] = {q}
    BY <1>3
  <2>2. QED  BY <2>1
<1>6. ASSUME NEW d \in 0 .. n, NEW e \in 0 .. n, e = d + 1, d \in P PROVE e \in P
  <2>1. e # 0 /\ e - 1 = d /\ f[e] = In(f[d]) /\ q \in f[d]
    BY <1>3, <1>6
  <2>2. q \in f[e]
    BY <2>1
  <2>3. inside \subseteq f[e]
    BY <2>1
  <2>4. QED  BY <2>2, <2>3
<1> HIDE DEF P
<1>7. \A d \in 0 .. n : d \in P
  BY <1>5, <1>6, Forwards
<1>8. n \in P
  BY <1>7
<1>9. q \in f[n] /\ inside \subseteq f[n]
  BY <1>8 DEF P
<1>10. QED  BY <1>4, <1>9

LEMMA FitHasValues ==
  ASSUME NEW q, NEW n \in Nat, n >= 1, Fits(q, n)
  PROVE  HasValues(q)
<1>1. LiteralsFit(q) /\ \A c \in Range(q.where) : c.kind = "absent" => LiteralsFit(c)
  BY PatternsInclude DEF Fits
<1>2. QED  BY <1>1 DEF HasValues, LiteralsFit

(* The specification of texts implements that of queries.                  *)

\* What the parser hands on is a query whose every literal has a value, for
\* any text whatever, with NOT EXISTS nested as deep as the text allows: of
\* what parse yields the validator and the planner assume no more than that.
THEOREM TextsAreReadAsQueries ==
  ASSUME OneAlphabet
  PROVE  Spec => PlansWhatItReads
<1>1. Init => PlannerInit /\ IsText(source)
  BY DEF Init, IsText
<1>2. ASSUME IsText(source), [Next]_vars PROVE IsText(source)' /\ [PlannerNext]_plannerVars
  <2>1. CASE Parse
    <3>1. PICK m : /\ m = QueryAt(source)
                   /\ IF ~ Found(m) THEN stage' = "refused" /\ UNCHANGED query
                      ELSE IF ~ Fits(m.val, Len(source))
                           THEN stage' = "panicked" /\ UNCHANGED query
                      ELSE stage' = "parsed" /\ query' = m.val
      BY <2>1 DEF Parse
    <3>2. stage = "received" /\ UNCHANGED <<source, plan>>
      BY <2>1 DEF Parse
    <3>3. CASE Found(m) /\ Fits(m.val, Len(source))
      <4>1. IsQuery(m.val) /\ Len(source) >= 1 /\ Len(source) \in Nat
        BY <1>2, <3>1, <3>3, QueryReads, TextFacts
      <4>2. HasValues(m.val)
        BY <3>3, <4>1, FitHasValues
      <4>3. QED  BY <1>2, <3>1, <3>2, <3>3, <4>1, <4>2 DEF PlannerNext, Receive, IsText
    <3>4. CASE ~ (Found(m) /\ Fits(m.val, Len(source)))
      BY <1>2, <3>1, <3>2, <3>4 DEF PlannerNext, Receive, IsText
    <3>5. QED  BY <3>3, <3>4
  <2>2. CASE (Validate \/ MakePlan \/ Panic) /\ UNCHANGED source
    BY <1>2, <2>2 DEF PlannerNext, IsText
  <2>3. CASE UNCHANGED vars
    BY <1>2, <2>3 DEF vars, plannerVars, IsText
  <2>4. QED  BY <1>2, <2>1, <2>2, <2>3 DEF Next
<1>3. QED  BY <1>1, <1>2, PTL DEF Spec, PlansWhatItReads, PlannerSpec

\* So any text that gets a plan gets one that can be executed, loses no row
\* the query means, and returns no other when all of it has a place in a plan
\* (execute_query, from the text to the first RPC).
THEOREM AnyTextIsPlannedAsMeant ==
  ASSUME OneAlphabet
  PROVE  Spec => [](PlansAreExecutable /\ PlanLosesNoRow /\ PlanMeansQuery)
BY TextsAreReadAsQueries, PlansCanBeExecuted, PlansLoseNoRow, PlansMeanTheirQuery, PTL
   DEF PlansWhatItReads

----------------------------------------------------------------------------
(* The execution of a planned query.  Scatter-gather over any partitions   *)
(* and replicas, running the plans of the queries in Questions, answers    *)
(* those queries.                                                          *)

CONSTANTS Questions, Partition, Owner, Replica, Host, NoReplica
VARIABLES route, served, phase, pos, depth, asked, current, next, accepted, hydrated

Run == INSTANCE QueryOverRebuilds_proofs WITH
         Plans <- {Plan(q) : q \in Questions}, MaxSwaps <- 0, seen <- <<>>, swaps <- 0

AllCarried == \A q \in Questions : Plannable(q) /\ Sound(q) /\ FullyCarried(q)

\* Every node hashes to a partition, and every replica serves one.
Deployed ==
  /\ Owner \in [NodeId -> Partition]
  /\ Replica # {} /\ NoReplica \notin Replica
  /\ Host \in [Replica -> Partition]

\* What the execution refines speaks of the same answers.
LEMMA SameAnswer ==
  ASSUME NEW g, NEW R, NEW p
  PROVE  Run!Search!Answer(g, R, p) = Answer(g, R, p)
<1>1. ASSUME NEW row, NEW dir PROVE Run!Search!Far(row, dir) = Far(row, dir)
  BY DEF Run!Search!Far, Far
<1>2. ASSUME NEW s, NEW n PROVE Run!Search!Exits(g, R, s, n) = Exits(g, R, s, n)
  BY DEF Run!Search!Exits, Exits, Run!Search!Near, Near, Run!Search!TypeMatches, TypeMatches
<1>3. ASSUME NEW props, NEW fs PROVE Run!Search!AllHold(props, fs) <=> AllHold(props, fs)
  BY DEF Run!Search!AllHold, AllHold, Run!Search!Holds, Holds
<1>4. ASSUME NEW s, NEW a, NEW z, NEW d
      PROVE  Run!Search!Walk(g, R, s, a, z, d) <=> Walk(g, R, s, a, z, d)
  BY <1>1, <1>2 DEF Run!Search!Walk, Walk
<1>5. ASSUME NEW s, NEW n PROVE Run!Search!Selects(g, s, n) <=> Selects(g, s, n)
  BY DEF Run!Search!Selects, Selects
<1>6. ASSUME NEW s, NEW b PROVE Run!Search!Passes(g, R, s, b) <=> Passes(g, R, s, b)
  BY <1>3 DEF Run!Search!Passes, Passes
<1>7. ASSUME NEW s, NEW b PROVE Run!Search!NoSuchEdge(g, R, s, b) <=> NoSuchEdge(g, R, s, b)
  <2>1. Run!Search!Resolvable(g, R, s, b) <=> Resolvable(g, R, s, b)
    BY DEF Run!Search!Resolvable, Resolvable, Run!Search!ReadableRows, ReadableRows, Run!Search!PropsOf, PropsOf
  <2>2. Run!Search!Conditions(g, s, b) = Conditions(g, s, b)
    BY DEF Run!Search!Conditions, Conditions, Run!Search!PropsOf, PropsOf
  <2>3. QED  BY <1>1, <1>2, <1>3, <2>1, <2>2 DEF Run!Search!NoSuchEdge, NoSuchEdge
<1>8. ASSUME NEW s, NEW b
      PROVE  Run!Search!StepHolds(g, R, s, b) = StepHolds(g, R, s, b)
  <2>1. /\ Run!Search!Selects(g, s, b[s.to]) = Selects(g, s, b[s.to])
        /\ Run!Search!Passes(g, R, s, b) = Passes(g, R, s, b)
        /\ Run!Search!NoSuchEdge(g, R, s, b) = NoSuchEdge(g, R, s, b)
        /\ \A a, z, d : Run!Search!Walk(g, R, s, a, z, d) <=> Walk(g, R, s, a, z, d)
    BY <1>5, <1>6, <1>4, <1>7
       DEF Run!Search!Selects, Selects, Run!Search!Passes, Passes, Run!Search!NoSuchEdge, NoSuchEdge
  <2>2. QED  BY <1>1, <1>2, <2>1 DEF Run!Search!StepHolds, StepHolds
<1>9. ASSUME NEW b PROVE Run!Search!Satisfies(g, R, p, b) <=> Satisfies(g, R, p, b)
  BY <1>8 DEF Run!Search!Satisfies, Satisfies
<1>10. Run!Search!Candidates(g, p) = Candidates(g, p)
  BY DEF Run!Search!Candidates, Candidates, Run!Search!NodeAliases, NodeAliases, Run!Search!EdgeAliases, EdgeAliases
<1>11. QED  BY <1>9, <1>10 DEF Run!Search!Answer, Answer

\* The plans of such queries, and the graphs, are ones the execution is exact
\* for.
LEMMA PlansAreFit ==
  ASSUME AllCarried
  PROVE  /\ \A p \in {Plan(q) : q \in Questions} : Run!IsPlan(p)
         /\ \A g \in Graphs : Run!IsGraph(g)
         /\ Run!PlansScoped /\ Run!GraphsClosed
<1>1. ASSUME NEW q \in Questions
      PROVE  IsPlan(Plan(q)) /\ ReadsBound(Plan(q)) /\ BindsOnce(Plan(q))
  <2>1. Plannable(q) /\ Sound(q) /\ AbsencesCarried(q)
    BY DEF AllCarried, FullyCarried
  <2>2. \A c \in Range(Absences(q)) : ~ SelfComparing(c)
    BY <2>1 DEF AbsencesCarried, Correlated, SelfComparing
  <2>3. QED  BY <2>1, <2>2, PlanIsPlan, PlanReadsBound, PlanBindsOnce
<1>2. ASSUME NEW p PROVE Run!IsPlan(p) <=> IsPlan(p)
  <2>1. /\ Run!StartStep = StartStep /\ Run!AllStep = AllStep /\ Run!HopStep = HopStep
        /\ Run!AntiStep = AntiStep
    BY DEF Run!StartStep, StartStep, Run!AllStep, AllStep, Run!HopStep, HopStep,
       Run!AntiStep, AntiStep, Run!Filter, Filter, Run!OuterCondition, OuterCondition,
       Run!Direction, Direction, Run!Op, Op
  <2>2. QED  BY <2>1 DEF Run!IsPlan, IsPlan, Run!PlanStep, PlanStep
<1>3. ASSUME NEW p
      PROVE  /\ Run!Search!ReadsBound(p) <=> ReadsBound(p)
             /\ Run!Search!BindsOnce(p) <=> BindsOnce(p)
  <2>1. ASSUME NEW s
        PROVE  Run!Search!Reads(s) = Reads(s) /\ Run!Search!Binds(s) = Binds(s)
    BY DEF Run!Search!Binds, Binds, Run!Search!Reads, Reads
  <2>2. ASSUME NEW i PROVE Run!Search!BoundBefore(p, i) = BoundBefore(p, i)
    BY <2>1 DEF Run!Search!BoundBefore, BoundBefore
  <2>3. QED
    BY <2>1, <2>2 DEF Run!Search!ReadsBound, ReadsBound, Run!Search!BindsOnce, BindsOnce
<1>4. Run!PlansScoped
  BY <1>1, <1>3 DEF Run!PlansScoped
<1>5. ASSUME NEW g PROVE (Run!IsGraph(g) <=> IsGraph(g)) /\ (Run!Closed(g) <=> Closed(g))
  <2>1. Run!NodeRow = NodeRow /\ Run!EdgeRow = EdgeRow
    BY DEF Run!NodeRow, NodeRow, Run!EdgeRow, EdgeRow, Run!Props, Props
  <2>2. QED  BY <2>1 DEF Run!IsGraph, IsGraph, Run!Closed, Closed
<1>6. QED
  BY <1>1, <1>2, <1>4, <1>5, GraphsAssumption DEF Run!GraphsClosed, Conforms

\* The answer of its plan over a graph of the lake is what such a query means.
LEMMA AnswerIsMeaning ==
  ASSUME AllCarried, NEW q \in Questions, NEW g \in Graphs
  PROVE  Answer(g, NodeId, Plan(q)) = Meaning(g, q)
<1>1. Plannable(q) /\ Sound(q) /\ FullyCarried(q) /\ AbsencesCarried(q)
  BY DEF AllCarried, FullyCarried
<1>2. IsGraph(g) /\ Conforms(g)
  BY GraphsAssumption
<1>3. Meaning(g, q) \subseteq Answer(g, NodeId, Plan(q))
  BY <1>1, <1>2, NoRowIsLost
<1>4. Answer(g, NodeId, Plan(q)) \subseteq Meaning(g, q)
  BY <1>1, <1>2, AnswersAreMeant
<1>5. QED  BY <1>3, <1>4

\* Planned and then executed over any partitions, a query all of whose
\* conditions have a place in a plan is answered with rows it means and, when
\* every partition has a healthy replica, with all of them: planning, routing,
\* walking from partition to partition, filtering and NOT EXISTS together.
THEOREM ClusterAnswersQuery ==
  AllCarried /\ Deployed =>
    (Run!Spec => [](phase = "done" =>
       \E q \in Questions :
         /\ plan = Plan(q)
         /\ current \subseteq Meaning(Run!Graph, q)
         /\ (\A p \in Partition : Run!Routed(p)) => current = Meaning(Run!Graph, q)))
<1> DEFINE Answered ==
      phase = "done" =>
        \E q \in Questions :
          /\ plan = Plan(q)
          /\ current \subseteq Meaning(Run!Graph, q)
          /\ (\A p \in Partition : Run!Routed(p)) => current = Meaning(Run!Graph, q)
<1> SUFFICES ASSUME AllCarried, Deployed PROVE Run!Spec => []Answered
  OBVIOUS
<1>1. /\ \A p \in {Plan(q) : q \in Questions} : Run!IsPlan(p)
      /\ \A g \in Graphs : Run!IsGraph(g)
      /\ Run!PlansScoped /\ Run!GraphsClosed
  BY PlansAreFit
<1>2. 0 \in Nat /\ Owner \in [NodeId -> Partition]
      /\ Replica # {} /\ NoReplica \notin Replica /\ Host \in [Replica -> Partition]
  BY DEF Deployed
<1>3. Run!Spec => []Run!AnswerIsExact
  BY <1>1, <1>2, DataAssumption, Run!AnswersAreExact
<1>4. Run!Spec => []Run!PartialAnswerIsSound
  BY <1>1, <1>2, DataAssumption, Run!PartialAnswersAreSound
<1>5. Run!Spec => []Run!IInv
  BY <1>1, <1>2, DataAssumption, Run!ProgressInvariant
<1>6. Run!IInv /\ Run!AnswerIsExact /\ Run!PartialAnswerIsSound => Answered
  <2> SUFFICES ASSUME Run!IInv, Run!AnswerIsExact, Run!PartialAnswerIsSound, phase = "done"
               PROVE  \E q \in Questions :
                        /\ plan = Plan(q)
                        /\ current \subseteq Meaning(Run!Graph, q)
                        /\ (\A p \in Partition : Run!Routed(p)) =>
                             current = Meaning(Run!Graph, q)
    OBVIOUS
  <2>1. PICK q \in Questions : plan = Plan(q)
    BY DEF Run!IInv, Run!TypeOK
  <2>2. PICK g \in Graphs : g = Run!Graph
    BY <1>1, <1>2, DataAssumption, Run!GraphFacts
  <2>3. Answer(g, NodeId, plan) = Meaning(g, q)
    BY <2>1, AnswerIsMeaning
  <2>4. current = Run!Search!Answer(g, Run!Reach, plan)
    BY <2>2 DEF Run!AnswerIsExact
  <2>5. current \subseteq Answer(g, NodeId, plan)
    <3> SUFFICES ASSUME NEW b \in current PROVE b \in Answer(g, NodeId, plan)
      OBVIOUS
    <3>1. b \in Run!Search!Candidates(g, plan)
      BY <2>4 DEF Run!Search!Answer
    <3>2. Run!Search!Satisfies(g, NodeId, plan, b)
      BY <2>2 DEF Run!PartialAnswerIsSound
    <3>3. b \in Run!Search!Answer(g, NodeId, plan)
      BY <3>1, <3>2 DEF Run!Search!Answer
    <3>4. QED  BY <3>3, SameAnswer
  <2>6. ASSUME \A p \in Partition : Run!Routed(p) PROVE current = Answer(g, NodeId, plan)
    <3>1. Run!Reach = NodeId
      BY <1>2, <2>6 DEF Run!Reach
    <3>2. QED  BY <2>4, <3>1, SameAnswer
  <2>7. QED  BY <2>1, <2>2, <2>3, <2>5, <2>6
<1> HIDE DEF Answered
<1>7. QED  BY <1>3, <1>4, <1>5, <1>6, PTL

=============================================================================
