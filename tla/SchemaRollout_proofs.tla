------------------------ MODULE SchemaRollout_proofs ------------------------
(***************************************************************************)
(* Proofs about SchemaRollout, for any schema files, tables, literals and  *)
(* any order of deployments, commits, stops and builds: what is served has *)
(* the declared type, a compatible change keeps filters and answers, an    *)
(* accepted filter is decided, and the index selects what the records do.  *)
(*                                                                         *)
(* All of it follows from one invariant, that a process serves the         *)
(* generation of a schema file over a lake it could read, and from what    *)
(* the reader does: a cell it accepts is served as it is stored.           *)
(***************************************************************************)
EXTENDS SchemaRollout, WellFoundedInduction, TLAPS

----------------------------------------------------------------------------
(* The reader.                                                             *)

LEMMA CellTags ==
  ASSUME NEW cell \in Cell, cell # Null
  PROVE  \/ cell \in Scalar /\ cell = <<cell[1], cell[2]>>
            /\ cell[1] \in {"Int64", "Bool", "String", "Timestamp", "Bytes", "Float64"}
         \/ cell[1] = "List" /\ cell = <<"List", cell[2]>>
            /\ cell[2] \in Seq({Null} \cup Scalar)
BY DEF Cell, Scalar

\* An element that does not fail is itself.
LEMMA ElementAsStored ==
  ASSUME NEW e \in {Null} \cup Scalar, NEW type
  PROVE  \/ ReadElement(e, type) = Bad
         \/ ReadElement(e, type) = e /\ (e = Null \/ e[1] = type[1])
BY DEF ReadElement, Bad

LEMMA ElementNotBad ==
  ASSUME NEW e \in {Null} \cup Scalar  PROVE e # Bad
<1>1. CASE e = Null
  <2>1. e[1] = "Null" /\ Bad[1] = "Bad" BY <1>1 DEF Null, Bad
  <2>2. QED BY <2>1
<1>2. CASE e \in Scalar
  <2>1. e[1] # "Bad" BY <1>2 DEF Scalar
  <2>2. Bad[1] = "Bad" BY DEF Bad
  <2>3. QED BY <2>1, <2>2
<1>3. QED BY <1>1, <1>2

LEMMA ElementsAsStored ==
  ASSUME NEW cell, cell = <<"List", cell[2]>>, cell[2] \in Seq({Null} \cup Scalar), NEW type,
         ReadElements(cell, type) # Bad
  PROVE  /\ ReadElements(cell, type) = cell
         /\ \A e \in Range(cell[2]) : e = Null \/ e[1] = type[1]
<1> DEFINE read == [i \in DOMAIN cell[2] |-> ReadElement(cell[2][i], type)]
<1>1. Bad \notin Range(read) /\ ReadElements(cell, type) = <<"List", read>>
  BY DEF ReadElements
<1>2. ASSUME NEW i \in DOMAIN cell[2]
      PROVE  read[i] = cell[2][i] /\ (cell[2][i] = Null \/ cell[2][i][1] = type[1])
  <2>1. cell[2][i] \in {Null} \cup Scalar OBVIOUS
  <2>2. read[i] = ReadElement(cell[2][i], type) OBVIOUS
  <2>3. read[i] # Bad BY <1>1 DEF Range
  <2>4. QED BY <2>1, <2>2, <2>3, ElementAsStored
<1>3. cell[2] = [i \in DOMAIN cell[2] |-> cell[2][i]] OBVIOUS
<1>4. read = cell[2] BY <1>2, <1>3
<1> HIDE DEF read
<1>5. QED BY <1>1, <1>2, <1>4 DEF Range

\* A cell the reader accepts under a type is read as it is stored, and a
\* column of that type can hold it.
LEMMA ReadAsItIs ==
  ASSUME NEW cell \in Cell, NEW type \in Type, ReadPropertyValue(cell, type) # Bad
  PROVE  ReadPropertyValue(cell, type) = cell /\ CellOf(cell, type)
<1>1. CASE cell = Null BY <1>1 DEF ReadPropertyValue, CellOf
<1>2. CASE cell # Null /\ type[1] = "List" /\ cell[1] = "List"
  <2>1. cell = <<"List", cell[2]>> /\ cell[2] \in Seq({Null} \cup Scalar)
    BY <1>2, CellTags
  <2>2. ReadPropertyValue(cell, type) = ReadElements(cell, type[2])
    BY <1>2 DEF ReadPropertyValue, IsComposite
  <2>3. QED BY <1>2, <2>1, <2>2, ElementsAsStored DEF CellOf
<1>3. CASE cell # Null /\ type[1] = "Vector" /\ cell[1] = "List"
  <2>1. cell = <<"List", cell[2]>> /\ cell[2] \in Seq({Null} \cup Scalar)
    BY <1>3, CellTags
  <2>2. ReadPropertyValue(cell, type) = ReadElements(cell, <<"Float64">>)
    BY <1>3 DEF ReadPropertyValue, IsComposite
  <2>3. <<"Float64">>[1] = "Float64" OBVIOUS
  <2>4. QED BY <1>3, <2>1, <2>2, <2>3, ElementsAsStored DEF CellOf
<1>4. CASE cell # Null /\ ~ IsComposite(type) /\ cell[1] = type[1]
  BY <1>4 DEF ReadPropertyValue, IsComposite, CellOf
<1>5. CASE /\ cell # Null /\ ~ (type[1] = "List" /\ cell[1] = "List")
           /\ ~ (type[1] = "Vector" /\ cell[1] = "List")
           /\ ~ (~ IsComposite(type) /\ cell[1] = type[1])
  BY <1>5 DEF ReadPropertyValue
<1>6. QED BY <1>1, <1>2, <1>3, <1>4, <1>5

----------------------------------------------------------------------------
(* The two ways a property is found by name.                               *)

LEMMA LeastOf ==
  ASSUME NEW T \in SUBSET Nat, T # {}
  PROVE  \E n \in T : \A m \in T : n <= m
<1>1. PICK n \in T : \A m \in T : <<m, n>> \notin OpToRel(<, Nat)
  BY NatLessThanWellFounded, WFMin
<1>2. \A m \in T : ~ (m < n) BY <1>1 DEF OpToRel
<1>3. QED BY <1>2

LEMMA FirstIs ==
  ASSUME NEW decl, decl.properties \in Seq(Property), NEW name, HasProperty(decl, name)
  PROVE  /\ FirstNamed(decl, name) \in Range(decl.properties)
         /\ FirstNamed(decl, name).name = name
<1> DEFINE ps == decl.properties
           T  == {i \in DOMAIN ps : ps[i].name = name}
           first == CHOOSE i \in DOMAIN ps :
                      ps[i].name = name /\ \A j \in 1 .. (i - 1) : ps[j].name # name
<1>1. DOMAIN ps = 1 .. Len(ps) /\ Len(ps) \in Nat OBVIOUS
<1>2. T # {} BY DEF HasProperty, Range
<1>3. T \in SUBSET Nat BY <1>1
<1>4. PICK i \in T : \A j \in T : i <= j BY <1>2, <1>3, LeastOf
<1>5. \A j \in 1 .. (i - 1) : ps[j].name # name BY <1>1, <1>4
<1>6. \E k \in DOMAIN ps : ps[k].name = name /\ \A j \in 1 .. (k - 1) : ps[j].name # name
  BY <1>4, <1>5
<1>7. first \in DOMAIN ps /\ ps[first].name = name BY <1>6
<1>8. FirstNamed(decl, name) = ps[first] BY DEF FirstNamed
<1> HIDE DEF first
<1>9. QED BY <1>7, <1>8 DEF Range

LEMMA LastIs ==
  ASSUME NEW decl, decl.properties \in Seq(Property), NEW name, HasProperty(decl, name)
  PROVE  /\ LastNamed(decl, name) \in Range(decl.properties)
         /\ LastNamed(decl, name).name = name
<1> DEFINE ps == decl.properties
           T  == {d \in Nat : d < Len(ps) /\ ps[Len(ps) - d].name = name}
           last == CHOOSE i \in DOMAIN ps :
                     ps[i].name = name /\ \A j \in (i + 1) .. Len(ps) : ps[j].name # name
<1>1. DOMAIN ps = 1 .. Len(ps) /\ Len(ps) \in Nat OBVIOUS
<1>2. T # {}
  <2>1. PICK i \in DOMAIN ps : ps[i].name = name BY DEF HasProperty, Range
  <2>2. i \in 1 .. Len(ps) BY <1>1, <2>1
  <2>3. Len(ps) - i \in Nat /\ Len(ps) - i < Len(ps) /\ Len(ps) - (Len(ps) - i) = i
    BY <1>1, <2>2
  <2>4. Len(ps) - i \in T BY <2>1, <2>3
  <2>5. QED BY <2>4
<1>3. PICK d \in T : \A e \in T : d <= e BY <1>2, LeastOf
<1>4. Len(ps) - d \in DOMAIN ps /\ ps[Len(ps) - d].name = name BY <1>1, <1>3
<1>5. ASSUME NEW j \in ((Len(ps) - d) + 1) .. Len(ps) PROVE ps[j].name # name
  <2>1. Len(ps) - j \in Nat /\ Len(ps) - j < Len(ps) /\ Len(ps) - (Len(ps) - j) = j
        /\ Len(ps) - j < d
    BY <1>1, <1>3, <1>5
  <2>2. Len(ps) - j \notin T BY <1>1, <1>3, <2>1
  <2>3. QED BY <2>1, <2>2
<1>6. \E k \in DOMAIN ps : ps[k].name = name /\ \A j \in (k + 1) .. Len(ps) : ps[j].name # name
  BY <1>4, <1>5
<1>7. last \in DOMAIN ps /\ ps[last].name = name BY <1>6
<1>8. LastNamed(decl, name) = ps[last] BY DEF LastNamed
<1> HIDE DEF last
<1>9. QED BY <1>7, <1>8 DEF Range

----------------------------------------------------------------------------
(* What a build makes of a lake it can read.                               *)

IsSchema(s) == \E f \in Files : Parses(f) /\ s = Parsed(f)

\* A generation of the schema, over a lake its build succeeded on.
Built(g, s) == IsLake(g.lake) /\ BuildSucceeds(s, g.lake) /\ g = Generation(s, g.lake)

LEMMA Declared ==
  ASSUME NEW s, IsSchema(s), NEW k \in DOMAIN s
  PROVE  k \in Tables /\ s[k].properties \in Seq(Property)
<1>1. PICK f \in Files : s = Parsed(f) BY DEF IsSchema
<1>2. k \in KeysOf(f) BY <1>1 DEF Parsed
<1>3. \E d \in Range(f) : d.key = k BY <1>2 DEF KeysOf
<1>4. s[k] = CHOOSE d \in Range(f) : d.key = k BY <1>1, <1>2 DEF Parsed
<1>5. s[k] \in Range(f) /\ s[k].key = k BY <1>3, <1>4
<1>6. s[k].key \in Tables /\ s[k].properties \in Seq(Property) BY <1>5, RolloutAssumption
<1>7. QED BY <1>5, <1>6

LEMMA PropertyTyped ==
  ASSUME NEW s, IsSchema(s), NEW k \in DOMAIN s, NEW p \in Range(s[k].properties)
  PROVE  p \in Property /\ p.type \in Type
<1>1. s[k].properties \in Seq(Property) BY Declared
<1>2. p \in Property BY <1>1 DEF Range
<1>3. QED BY <1>2 DEF Property

\* Every declared property of every row is a column of it, with a cell the
\* reader accepts under the declared type.
LEMMA RowsRead ==
  ASSUME NEW s, IsSchema(s), NEW l, IsLake(l), BuildSucceeds(s, l),
         NEW k \in DOMAIN s, NEW id \in DOMAIN l[k], NEW p \in Range(s[k].properties)
  PROVE  /\ l[k][id][p.name] \in Cell
         /\ ReadProperty(l[k][id], p) = l[k][id][p.name]
         /\ CellOf(l[k][id][p.name], p.type)
<1>1. l[k] # NoTable /\ RowConforms(l[k][id], s[k]) BY DEF BuildSucceeds
<1>2. ReadProperty(l[k][id], p) # Bad BY <1>1 DEF RowConforms
<1>3. p.name \in DOMAIN l[k][id]
      /\ ReadProperty(l[k][id], p) = ReadPropertyValue(l[k][id][p.name], p.type)
  BY <1>2 DEF ReadProperty
<1>4. k \in Tables BY Declared
<1>5. l[k] \in Contents[k] BY <1>1, <1>4 DEF IsLake
<1>6. l[k][id][p.name] \in Cell BY <1>3, <1>4, <1>5, RolloutAssumption
<1>7. p.type \in Type BY PropertyTyped
<1>8. QED BY <1>2, <1>3, <1>6, <1>7, ReadAsItIs

\* A property is served as it is stored, whichever of the declarations of its
\* name the reader goes by.
LEMMA ServedAsStored ==
  ASSUME NEW s, IsSchema(s), NEW l, IsLake(l), BuildSucceeds(s, l),
         NEW k \in DOMAIN s, NEW id \in DOMAIN l[k], NEW name, HasProperty(s[k], name)
  PROVE  RecordsOf(s, l)[k][id][name] = l[k][id][name] /\ l[k][id][name] \in Cell
<1> DEFINE p == LastNamed(s[k], name)
<1>1. s[k].properties \in Seq(Property) BY Declared
<1>2. p \in Range(s[k].properties) /\ p.name = name BY <1>1, LastIs
<1>3. name \in {q.name : q \in Range(s[k].properties)} BY DEF HasProperty
<1>4. RecordsOf(s, l)[k][id] = RecordOf(l[k][id], s[k]) BY DEF RecordsOf
<1>5. RecordOf(l[k][id], s[k])[name] = ReadProperty(l[k][id], p) BY <1>3 DEF RecordOf
<1> HIDE DEF p
<1>6. QED BY <1>2, <1>4, <1>5, RowsRead

LEMMA GenerationServes ==
  ASSUME NEW s, IsSchema(s), NEW g, Built(g, s)
  PROVE  /\ DOMAIN g.records = DOMAIN s
         /\ g.index = KeyedEntries(IndexEntries(s, g.records))
         /\ \A k \in DOMAIN s :
              /\ DOMAIN g.records[k] = DOMAIN g.lake[k]
              /\ \A id \in DOMAIN g.lake[k] :
                   /\ \A name : HasProperty(s[k], name) =>
                        /\ g.records[k][id][name] = g.lake[k][id][name]
                        /\ g.lake[k][id][name] \in Cell
                   /\ \A p \in Range(s[k].properties) : CellOf(g.lake[k][id][p.name], p.type)
<1> DEFINE l == g.lake
<1>1. IsLake(l) /\ BuildSucceeds(s, l) BY DEF Built
<1>2. g = Generation(s, l) BY DEF Built
<1>3. g.records = RecordsOf(s, l) BY <1>2 DEF Generation
<1>4. g.index = KeyedEntries(IndexEntries(s, g.records)) BY <1>2, <1>3 DEF Generation
<1>5. DOMAIN g.records = DOMAIN s /\ \A k \in DOMAIN s : DOMAIN g.records[k] = DOMAIN l[k]
  BY <1>3 DEF RecordsOf
<1> HIDE DEF l
<1>6. ASSUME NEW k \in DOMAIN s, NEW id \in DOMAIN l[k], NEW name, HasProperty(s[k], name)
      PROVE  g.records[k][id][name] = l[k][id][name] /\ l[k][id][name] \in Cell
  BY <1>1, <1>3, <1>6, ServedAsStored
<1>7. ASSUME NEW k \in DOMAIN s, NEW id \in DOMAIN l[k], NEW p \in Range(s[k].properties)
      PROVE  CellOf(l[k][id][p.name], p.type)
  BY <1>1, RowsRead
<1>8. QED BY <1>4, <1>5, <1>6, <1>7 DEF l

LEMMA Named ==
  ASSUME NEW decl, NEW p \in Range(decl.properties)  PROVE HasProperty(decl, p.name)
BY DEF HasProperty

----------------------------------------------------------------------------
(* The inductive invariant.                                                *)

IsProcess(n) ==
  /\ n = [schema |-> n.schema, generation |-> n.generation]
  /\ IsSchema(n.schema)
  /\ n.generation # NoGeneration => Built(n.generation, n.schema)

RolloutInv ==
  /\ file \in Files /\ changes \in 0 .. MaxChanges /\ IsLake(tables)
  /\ coordinator # NotRunning => IsSchema(coordinator)
  /\ node # NotRunning => IsProcess(node)
  /\ former # NotRunning => IsProcess(former) /\ former.generation # NoGeneration

LEMMA InitRollout == Init => RolloutInv
BY RolloutAssumption DEF Init, RolloutInv

LEMMA BuiltServes ==
  ASSUME RolloutInv, node # NotRunning, BuildSucceeds(node.schema, tables),
         node' = [node EXCEPT !.generation = Generation(node.schema, tables)]
  PROVE  IsProcess(node')
<1> DEFINE g == Generation(node.schema, tables)
<1>1. IsProcess(node) BY DEF RolloutInv
<1>2. node' = [schema |-> node.schema, generation |-> g] BY <1>1 DEF IsProcess
<1>3. g.lake = tables BY DEF Generation
<1> HIDE DEF g
<1>4. g = Generation(node.schema, tables) BY DEF g
<1>5. Built(g, node.schema) BY <1>3, <1>4 DEF Built, RolloutInv
<1>6. QED BY <1>1, <1>2, <1>5 DEF IsProcess

LEMMA StepRollout == RolloutInv /\ [Next]_vars => RolloutInv'
<1> SUFFICES ASSUME RolloutInv, [Next]_vars PROVE RolloutInv' OBVIOUS
<1>1. CASE StartNode
  <2>1. IsSchema(Parsed(file)) BY <1>1 DEF StartNode, RolloutInv, IsSchema
  <2>2. IsProcess(node') BY <1>1, <2>1 DEF StartNode, IsProcess
  <2>3. QED BY <1>1, <2>2 DEF StartNode, RolloutInv
<1>2. CASE Bootstrap
  <2>1. node' # NotRunning => IsProcess(node') BY <1>2, BuiltServes DEF Bootstrap
  <2>2. QED BY <1>2, <2>1 DEF Bootstrap, RolloutInv
<1>3. CASE Rebuild
  <2>1. node # NotRunning /\ IsProcess(node) BY <1>3 DEF Rebuild, Serving, RolloutInv
  <2>2. IsProcess(node') BY <1>3, <2>1, BuiltServes DEF Rebuild
  <2>3. QED BY <1>3, <2>2 DEF Rebuild, RolloutInv
<1>4. CASE StartCoordinator
  BY <1>4 DEF StartCoordinator, RolloutInv, IsSchema
<1>5. CASE StopNode
  BY <1>5, RolloutAssumption DEF StopNode, Change, RolloutInv, Serving
<1>6. CASE Deploy
  BY <1>6, RolloutAssumption DEF Deploy, Change, RolloutInv
<1>7. CASE Ingest
  <2>1. PICK t \in Tables : \E c \in Contents[t] : tables' = [tables EXCEPT ![t] = c]
    BY <1>7 DEF Ingest
  <2>2. IsLake(tables') BY <2>1 DEF RolloutInv, IsLake
  <2>3. QED BY <1>7, <2>2, RolloutAssumption DEF Ingest, Change, RolloutInv
<1>8. CASE UNCHANGED vars BY <1>8 DEF vars, RolloutInv
<1>9. QED BY <1>1, <1>2, <1>3, <1>4, <1>5, <1>6, <1>7, <1>8 DEF Next

LEMMA RolloutHolds == Spec => []RolloutInv
BY InitRollout, StepRollout, PTL DEF Spec

----------------------------------------------------------------------------
(* The theorems.                                                           *)

\* Every value served is null or of the type its schema declares, whatever
\* the tables have become since (read_properties, read_property_value).
THEOREM ServedAsDeclared == Spec => []TypeOK
<1>1. ASSUME RolloutInv PROVE TypeOK
  <2>1. ASSUME NEW n, IsProcess(n)
        PROVE  /\ \E f \in Files : Parses(f) /\ n.schema = Parsed(f)
               /\ n.generation # NoGeneration => RecordsConform(n.schema, n.generation.records)
    <3>1. IsSchema(n.schema) BY <2>1 DEF IsProcess
    <3>2. ASSUME n.generation # NoGeneration
          PROVE  RecordsConform(n.schema, n.generation.records)
      <4>1. Built(n.generation, n.schema) BY <2>1, <3>2 DEF IsProcess
      <4>2. DOMAIN n.generation.records = DOMAIN n.schema BY <3>1, <4>1, GenerationServes
      <4>3. ASSUME NEW k \in DOMAIN n.schema, NEW id \in DOMAIN n.generation.records[k],
                   NEW p \in Range(n.schema[k].properties)
            PROVE  CellOf(n.generation.records[k][id][p.name], p.type)
        <5>1. HasProperty(n.schema[k], p.name) BY Named
        <5>2. id \in DOMAIN n.generation.lake[k] BY <3>1, <4>1, GenerationServes
        <5>3. QED BY <3>1, <4>1, <5>1, <5>2, GenerationServes
      <4>4. QED BY <4>2, <4>3 DEF RecordsConform
    <3>3. QED BY <3>1, <3>2 DEF IsSchema
  <2>2. \A n \in {node, former} \ {NotRunning} : IsProcess(n) BY <1>1 DEF RolloutInv
  <2>3. coordinator # NotRunning => \E f \in Files : Parses(f) /\ coordinator = Parsed(f)
    BY <1>1 DEF RolloutInv, IsSchema
  <2>4. QED BY <1>1, <2>1, <2>2, <2>3 DEF RolloutInv, TypeOK
<1>2. QED BY <1>1, RolloutHolds, PTL

\* What the diff compares is the first property of a name on both sides: all
\* the declarations of a name in the old schema had the type the new one
\* looks up.
LEMMA CompatibleTypes ==
  ASSUME NEW from, IsSchema(from), NEW to, Compatible(from, to),
         NEW k \in DOMAIN from, NEW p \in Range(from[k].properties)
  PROVE  /\ k \in DOMAIN to /\ HasProperty(to[k], p.name)
         /\ FirstNamed(to[k], p.name).type = p.type
         /\ FirstNamed(from[k], p.name).type = p.type
<1>1. k \in DOMAIN to /\ \A q \in Range(from[k].properties) : PropertyKept(q, to[k])
  BY DEF Compatible
<1>2. PropertyKept(p, to[k]) BY <1>1
<1> DEFINE q == FirstNamed(from[k], p.name)
<1>3. q \in Range(from[k].properties) /\ q.name = p.name BY Declared, FirstIs, Named
<1>4. PropertyKept(q, to[k]) BY <1>1, <1>3
<1>5. QED BY <1>1, <1>2, <1>3, <1>4 DEF PropertyKept

\* A compatible change of schema keeps every filter valid and every answer
\* about a cell that did not change (SpecSchemaEvolution::diff).
THEOREM CompatibleChangesAreSafe == Spec => []CompatibleKeepsAnswers
<1>1. ASSUME RolloutInv, Serving, former # NotRunning, Compatible(former.schema, node.schema),
             NEW k \in DOMAIN former.schema, NEW p \in Range(former.schema[k].properties)
      PROVE  /\ \A op \in CompareOps :
                  Accepts(former.schema, k, p.name, op) => Accepts(node.schema, k, p.name, op)
             /\ \A id \in DOMAIN former.generation.lake[k] \cap DOMAIN node.generation.lake[k] :
                  former.generation.lake[k][id][p.name] = node.generation.lake[k][id][p.name] =>
                    Fetched(former.generation, k, id, p.name)
                      = Fetched(node.generation, k, id, p.name)
  <2>1. IsSchema(former.schema) /\ Built(former.generation, former.schema)
    BY <1>1 DEF RolloutInv, IsProcess
  <2>2. IsSchema(node.schema) /\ Built(node.generation, node.schema)
    BY <1>1 DEF RolloutInv, IsProcess, Serving
  <2>3. /\ k \in DOMAIN node.schema /\ HasProperty(node.schema[k], p.name)
        /\ FirstNamed(node.schema[k], p.name).type = FirstNamed(former.schema[k], p.name).type
    BY <1>1, <2>1, CompatibleTypes
  <2>4. ASSUME NEW op \in CompareOps, Accepts(former.schema, k, p.name, op)
        PROVE  Accepts(node.schema, k, p.name, op)
    BY <2>3, <2>4 DEF Accepts
  <2>5. ASSUME NEW id \in DOMAIN former.generation.lake[k] \cap DOMAIN node.generation.lake[k],
               former.generation.lake[k][id][p.name] = node.generation.lake[k][id][p.name]
        PROVE  Fetched(former.generation, k, id, p.name) = Fetched(node.generation, k, id, p.name)
    <3>1. HasProperty(former.schema[k], p.name) BY Named
    <3>2. former.generation.records[k][id][p.name] = former.generation.lake[k][id][p.name]
      BY <2>1, <3>1, GenerationServes
    <3>3. node.generation.records[k][id][p.name] = node.generation.lake[k][id][p.name]
      BY <2>2, <2>3, GenerationServes
    <3>4. QED BY <2>5, <3>2, <3>3 DEF Fetched
  <2>6. QED BY <2>4, <2>5
<1>2. RolloutInv => CompatibleKeepsAnswers BY <1>1 DEF CompatibleKeepsAnswers
<1>3. QED BY <1>2, RolloutHolds, PTL

----------------------------------------------------------------------------
(* Filters.                                                                *)

\* What is compared and is not NaN is ordered, and one of an operator and its
\* negation accepts the order.
LEMMA OrderedIsDecided ==
  ASSUME NEW value, NEW literal, Compared(value, literal) \in Ordering, NEW op \in CompareOps
  PROVE  LiteralMatches(value, op, literal) # LiteralMatches(value, Negation(op), literal)
<1> DEFINE order == Compared(value, literal)
<1> HIDE DEF order
<1>1. order \in {"Less", "Equal", "Greater"} BY DEF order, Ordering
<1>2. op \in {"Eq", "Ne", "Lt", "Lte", "Gt", "Gte"} BY DEF CompareOps
<1>3. (order \in Accepted(op)) # (order \in Accepted(Negation(op)))
  BY <1>1, <1>2 DEF Accepted, Negation
<1>4. QED BY <1>3 DEF LiteralMatches, order

\* A stored value of a type that admits an operator, and a literal of that
\* type, compare.
LEMMA ComparableTypes ==
  ASSUME NEW type \in Type, NEW op \in CompareOps, OperatorCompatible(type, op),
         NEW literal \in Literal, Denotes(literal, type),
         NEW stored \in Cell, CellOf(stored, type), stored # Null, stored[2] # NaN
  PROVE  Compared(OverTheWire(stored), literal) \in Ordering
<1>1. ~ IsComposite(type) BY DEF OperatorCompatible, IsComposite
<1>2. stored[1] = type[1] BY <1>1 DEF CellOf, IsComposite
<1>3. type[1] \in {"Int64", "Float64", "Bool", "String", "Timestamp", "Bytes"}
  BY <1>1 DEF Type, Simple, IsComposite
<1>4. OverTheWire(stored) = stored BY <1>2, <1>3 DEF OverTheWire
<1>5. literal[1] \in {"Int64", "Float64", "Bool", "String"} /\ literal[2] \in Int
  BY DEF Literal
<1>6. CASE literal[1] = type[1]
  <2>1. Compared(stored, literal) = OrderOf(stored[2], literal[2])
    BY <1>2, <1>5, <1>6 DEF Compared
  <2>2. NaN \notin {stored[2], literal[2]} BY <1>5, ValuesAssumption
  <2>3. QED BY <1>4, <2>1, <2>2 DEF OrderOf, Ordering
<1>7. CASE type[1] = "Timestamp" /\ literal[1] = "String" /\ literal[2] \in DOMAIN TimeOf
  <2>1. Compared(stored, literal) = OrderOf(stored[2], TimeOf[literal[2]])
    BY <1>2, <1>7 DEF Compared
  <2>2. NaN \notin {stored[2], TimeOf[literal[2]]} BY <1>7, ValuesAssumption
  <2>3. QED BY <1>4, <2>1, <2>2 DEF OrderOf, Ordering
<1>8. QED BY <1>6, <1>7 DEF Denotes

\* A filter the coordinator accepts, with a literal of the type it knows, is
\* decided of every stored value, also while the node's schema is a compatible
\* successor of the coordinator's (the validator's operator_compatible,
\* literal_matches).
THEOREM FiltersAreDecided == Spec => []AcceptedFiltersAreDecided
<1>1. ASSUME RolloutInv, Serving, coordinator # NotRunning, Compatible(coordinator, node.schema),
             NEW k \in DOMAIN coordinator, NEW p \in Range(coordinator[k].properties),
             NEW id \in DOMAIN node.generation.lake[k], NEW op \in CompareOps,
             NEW literal \in Literals,
             Accepts(coordinator, k, p.name, op), Denotes(literal, p.type),
             node.generation.lake[k][id][p.name] # Null,
             node.generation.lake[k][id][p.name][2] # NaN
      PROVE  LET value == Fetched(node.generation, k, id, p.name)
             IN  LiteralMatches(value, op, literal) # LiteralMatches(value, Negation(op), literal)
  <2> DEFINE stored == node.generation.lake[k][id][p.name]
             value  == Fetched(node.generation, k, id, p.name)
             q      == FirstNamed(node.schema[k], p.name)
  <2>1. IsSchema(coordinator) BY <1>1 DEF RolloutInv
  <2>2. IsSchema(node.schema) /\ Built(node.generation, node.schema)
    BY <1>1 DEF RolloutInv, IsProcess, Serving
  <2>3. /\ k \in DOMAIN node.schema /\ HasProperty(node.schema[k], p.name)
        /\ q.type = p.type /\ FirstNamed(coordinator[k], p.name).type = p.type
    BY <1>1, <2>1, CompatibleTypes
  <2>4. q \in Range(node.schema[k].properties) /\ q.name = p.name
    BY <2>2, <2>3, Declared, FirstIs
  <2>5. value = OverTheWire(stored) /\ stored \in Cell
    BY <2>2, <2>3, GenerationServes DEF Fetched
  <2>6. CellOf(stored, p.type)
    <3>1. \A r \in Range(node.schema[k].properties) :
            CellOf(node.generation.lake[k][id][r.name], r.type)
      BY <2>2, <2>3, GenerationServes
    <3>2. CellOf(node.generation.lake[k][id][q.name], q.type) BY <2>4, <3>1
    <3>3. QED BY <2>3, <2>4, <3>2
  <2>7. OperatorCompatible(p.type, op) BY <1>1, <2>3 DEF Accepts
  <2>8. p.type \in Type /\ literal \in Literal BY <2>1, PropertyTyped, RolloutAssumption
  <2>9. stored # Null /\ stored[2] # NaN BY <1>1
  <2> HIDE DEF stored, value, q
  <2>10. Compared(value, literal) \in Ordering
    BY <1>1, <2>5, <2>6, <2>7, <2>8, <2>9, ComparableTypes
  <2>11. LiteralMatches(value, op, literal) # LiteralMatches(value, Negation(op), literal)
    BY <2>10, OrderedIsDecided
  <2>12. QED BY <2>11 DEF value
<1>2. RolloutInv => AcceptedFiltersAreDecided BY <1>1 DEF AcceptedFiltersAreDecided
<1>3. QED BY <1>2, RolloutHolds, PTL

----------------------------------------------------------------------------
(* The property index.                                                     *)

LEMMA KeysCompare ==
  ASSUME NEW v \in Cell, NEW type \in Type, CellOf(v, type), type # <<"Timestamp">>,
         NEW literal \in Literal, HasKey(literal)
  PROVE  /\ PropertyKeyOf(v) = LiteralKey(literal) =>
              LiteralMatches(OverTheWire(v), "Eq", literal)
         /\ LiteralMatches(OverTheWire(v), "Eq", literal) =>
              PropertyKeyOf(v) = LiteralKey(literal) /\ PropertyKeyOf(v) # NoKey
<1>1. /\ literal = <<literal[1], literal[2]>> /\ literal[2] \in Int
      /\ literal[1] \in {"Int64", "Bool", "String"}
  BY DEF Literal, HasKey
<1>2. NoKey[1] = "NoKey" /\ Absent[1] = "Absent" BY DEF NoKey, Absent
<1>3. LiteralKey(literal) # NoKey BY <1>1, <1>2 DEF LiteralKey
<1>4. \A x : LiteralMatches(x, "Eq", literal) <=> Compared(x, literal) = "Equal"
  BY DEF LiteralMatches, Accepted
<1>5. CASE v = Null \/ v[1] = "List"
  <2>1. v[1] \in {"List", "Null"} BY <1>5 DEF Null
  <2>2. OverTheWire(v) = Absent /\ PropertyKeyOf(v) = NoKey
    BY <2>1 DEF OverTheWire, PropertyKeyOf
  <2>3. Compared(Absent, literal) # "Equal"
    BY <1>1, <1>2 DEF Compared, Incomparable
  <2>4. QED BY <1>3, <1>4, <2>2, <2>3
<1>6. CASE v # Null /\ v[1] # "List"
  <2>1. v \in Scalar /\ v = <<v[1], v[2]>>
        /\ v[1] \in {"Int64", "Bool", "String", "Timestamp", "Bytes", "Float64"}
    BY <1>6, CellTags
  <2>2. v[1] = type[1] /\ ~ IsComposite(type) BY <1>6 DEF CellOf, IsComposite
  <2>3. v[1] # "Timestamp"
    <3>1. type \in Simple BY <2>2 DEF Type, IsComposite
    <3>2. QED BY <2>2, <3>1 DEF Simple
  <2>4. OverTheWire(v) = v BY <2>1 DEF OverTheWire
  <2>5. CASE v[1] \in {"Int64", "Bool", "String"}
    <3>1. PropertyKeyOf(v) = v BY <2>5 DEF PropertyKeyOf
    <3>2. v[2] \in Int BY <2>1, <2>5 DEF Scalar
    <3>3. CASE v[1] = literal[1]
      <4>1. Compared(v, literal) = OrderOf(v[2], literal[2]) BY <2>3, <2>5, <3>3 DEF Compared
      <4>2. OrderOf(v[2], literal[2]) = "Equal" <=> v[2] = literal[2]
        <5>1. NaN \notin {v[2], literal[2]} BY <1>1, <3>2, ValuesAssumption
        <5>2. QED BY <1>1, <3>2, <5>1 DEF OrderOf
      <4>3. v = literal <=> v[2] = literal[2] BY <1>1, <2>1, <3>3
      <4>4. QED BY <1>3, <1>4, <2>4, <3>1, <4>1, <4>2, <4>3 DEF LiteralKey
    <3>4. CASE v[1] # literal[1]
      <4>1. Compared(v, literal) # "Equal" BY <2>3, <3>4 DEF Compared, Incomparable
      <4>2. v # literal BY <3>4
      <4>3. QED BY <1>4, <2>4, <3>1, <4>1, <4>2 DEF LiteralKey
    <3>5. QED BY <3>3, <3>4
  <2>6. CASE v[1] \in {"Bytes", "Float64"}
    <3>1. PropertyKeyOf(v) = NoKey BY <2>6 DEF PropertyKeyOf
    <3>2. v[1] # literal[1] BY <1>1, <2>6
    <3>3. Compared(v, literal) # "Equal" BY <2>3, <3>2 DEF Compared, Incomparable
    <3>4. QED BY <1>3, <1>4, <2>4, <3>1, <3>3
  <2>7. QED BY <2>1, <2>3, <2>5, <2>6
<1>7. QED BY <1>5, <1>6

\* A lookup finds the nodes whose record has that key.
LEMMA LookupReadsRecords ==
  ASSUME NEW s, NEW g, g.index = KeyedEntries(IndexEntries(s, g.records)),
         NEW k \in DOMAIN s, k[1] = "node", NEW a \in Indexed(s[k]), NEW key, NEW id
  PROVE  id \in LookupEq(g, k, a, key) <=>
           /\ id \in DOMAIN g.records[k]
           /\ PropertyKeyOf(g.records[k][id][a]) = key /\ key # NoKey
<1> DEFINE Of(l, b, n) == <<l, b, n, PropertyKeyOf(g.records[l][n][b])>>
           Nodes       == {d \in DOMAIN s : d[1] = "node"}
           Entries(l)  == {Of(l, b, n) : b \in Indexed(s[l]), n \in DOMAIN g.records[l]}
<1>1. IndexEntries(s, g.records) = UNION {Entries(l) : l \in Nodes} BY DEF IndexEntries
<1> HIDE DEF Nodes
<1>2. ASSUME NEW x
      PROVE  x \in g.index <=>
               /\ \E l \in Nodes : \E b \in Indexed(s[l]) : \E n \in DOMAIN g.records[l] :
                    x = Of(l, b, n)
               /\ x[4] # NoKey
  BY <1>1 DEF KeyedEntries
<1>3. ASSUME id \in LookupEq(g, k, a, key)
      PROVE  /\ id \in DOMAIN g.records[k]
             /\ PropertyKeyOf(g.records[k][id][a]) = key /\ key # NoKey
  <2>1. PICK x \in g.index : x[1] = k /\ x[2] = a /\ x[4] = key /\ x[3] = id
    BY <1>3 DEF LookupEq
  <2>2. PICK l \in Nodes : \E b \in Indexed(s[l]) : \E n \in DOMAIN g.records[l] : x = Of(l, b, n)
    BY <1>2, <2>1
  <2>3. PICK b \in Indexed(s[l]) : \E n \in DOMAIN g.records[l] : x = Of(l, b, n) BY <2>2
  <2>4. PICK n \in DOMAIN g.records[l] : x = Of(l, b, n) BY <2>3
  <2>5. l = k /\ b = a /\ n = id BY <2>1, <2>4
  <2>6. x[4] = PropertyKeyOf(g.records[k][id][a]) /\ x[4] # NoKey BY <1>2, <2>1, <2>4, <2>5
  <2>7. QED BY <2>1, <2>4, <2>5, <2>6
<1>4. ASSUME id \in DOMAIN g.records[k],
             PropertyKeyOf(g.records[k][id][a]) = key, key # NoKey
      PROVE  id \in LookupEq(g, k, a, key)
  <2> DEFINE x == Of(k, a, id)
  <2>1. x[1] = k /\ x[2] = a /\ x[3] = id /\ x[4] = key BY <1>4
  <2>2. k \in Nodes BY DEF Nodes
  <2> HIDE DEF x
  <2>3. x \in g.index
    <3>1. \E l \in Nodes : \E b \in Indexed(s[l]) : \E n \in DOMAIN g.records[l] : x = Of(l, b, n)
      BY <1>4, <2>2 DEF x
    <3>2. QED BY <1>2, <1>4, <2>1, <3>1
  <2>4. QED BY <2>1, <2>3 DEF LookupEq
<1>5. QED BY <1>3, <1>4

\* A condition on an indexed property selects the same nodes through the
\* index and on their records, whatever the type of its literal
\* (build_property_index, lookup_eq and literal_matches).
THEOREM IndexAgreesWithRecords == Spec => []LookupFindsWhatMatches
<1>1. ASSUME RolloutInv, Serving, NEW k \in DOMAIN node.schema,
             NEW p \in IndexedNodeProperties(k),
             NEW literal \in {l \in Literals : HasKey(l)}, p.type # <<"Timestamp">>
      PROVE  FoundFor(k, p, literal) = Matching(k, p.name, literal)
  <2> DEFINE g == node.generation
  <2>1. IsSchema(node.schema) /\ Built(g, node.schema)
    BY <1>1 DEF RolloutInv, IsProcess, Serving
  <2>2. p \in Range(node.schema[k].properties) /\ p.indexed /\ k[1] = "node"
    BY <1>1 DEF IndexedNodeProperties
  <2>3. p.name \in Indexed(node.schema[k]) BY <2>2 DEF Indexed
  <2>4. HasProperty(node.schema[k], p.name) /\ p.type \in Type BY <2>1, <2>2, Named, PropertyTyped
  <2>5. literal \in Literal /\ HasKey(literal) BY RolloutAssumption
  <2>6. g.index = KeyedEntries(IndexEntries(node.schema, g.records))
    BY <2>1, GenerationServes
  <2>7. LiteralKey(literal) = literal BY DEF LiteralKey
  <2> HIDE DEF g
  <2>8. ASSUME NEW id
        PROVE  id \in FoundFor(k, p, literal) <=>
                 /\ id \in DOMAIN g.records[k]
                 /\ PropertyKeyOf(g.records[k][id][p.name]) = LiteralKey(literal)
                 /\ LiteralKey(literal) # NoKey
    BY <2>2, <2>3, <2>6, LookupReadsRecords DEF FoundFor, g
  <2>9. ASSUME NEW id \in DOMAIN g.records[k]
        PROVE  LET v == g.records[k][id][p.name] IN
               v \in Cell /\ CellOf(v, p.type)
    <3>1. id \in DOMAIN g.lake[k] BY <2>1, GenerationServes
    <3>2. g.records[k][id][p.name] = g.lake[k][id][p.name] /\ g.lake[k][id][p.name] \in Cell
      BY <2>1, <2>4, <3>1, GenerationServes
    <3>3. CellOf(g.lake[k][id][p.name], p.type) BY <2>1, <2>2, <3>1, GenerationServes
    <3>4. QED BY <3>2, <3>3
  <2>10. ASSUME NEW id \in DOMAIN g.records[k]
         PROVE  LET v == g.records[k][id][p.name] IN
                LiteralMatches(OverTheWire(v), "Eq", literal) <=>
                  PropertyKeyOf(v) = LiteralKey(literal) /\ LiteralKey(literal) # NoKey
    <3> DEFINE v == g.records[k][id][p.name]
    <3>1. v \in Cell /\ CellOf(v, p.type) BY <2>9
    <3> HIDE DEF v
    <3>2. LiteralMatches(OverTheWire(v), "Eq", literal) <=>
            PropertyKeyOf(v) = LiteralKey(literal) /\ LiteralKey(literal) # NoKey
      BY <1>1, <2>4, <2>5, <3>1, KeysCompare
    <3>3. QED BY <3>2 DEF v
  <2>11. ASSUME NEW id
         PROVE  id \in Matching(k, p.name, literal) <=>
                  /\ id \in DOMAIN g.records[k]
                  /\ LiteralMatches(OverTheWire(g.records[k][id][p.name]), "Eq", literal)
    BY DEF Matching, Fetched, g
  <2>12. QED BY <2>8, <2>10, <2>11
<1>2. RolloutInv => LookupFindsWhatMatches BY <1>1 DEF LookupFindsWhatMatches
<1>3. QED BY <1>2, RolloutHolds, PTL

=============================================================================
