--------------------------- MODULE SchemaRollout ----------------------------
(***************************************************************************)
(* A schema file over its life: it is edited and deployed while the tables *)
(* change under the ingestion pipeline, and the coordinator and a node of  *)
(* the partition read it when they start, each at its own time.  The node  *)
(* reads the rows of the tables under the types the file declares; the     *)
(* coordinator accepts queries by the file it read.                        *)
(*                                                                         *)
(* The file is given as the declarations the grammar finds in it.  A build *)
(* is one step, and a node owns every row: builds across commits are       *)
(* PartitionNode's subject, partitions are GraphIndex's.                   *)
(***************************************************************************)
EXTENDS TypedValues, TLC

CONSTANTS
  Files,        \* the schema files that may be deployed
  Contents,     \* for each table, the contents ingestion may give it
  InitialTables,\* the lakes a deployment may begin with
  NoTable,      \* the table does not exist, or has no snapshot yet
  LargestDim,   \* u32::MAX
  Literals,     \* what a filter may compare with
  NotRunning,   \* no process
  MaxChanges    \* bound on deployments, commits and stops, together

\* A declaration of a file: its key, <<"node", label>> or <<"edge", type>>, the
\* labels an edge names, and its properties in the order they are written.
Property == [name : STRING, type : Type, optional : BOOLEAN, indexed : BOOLEAN]

\* nodes_<label>, edges_<edge_type>, lowercased: no two labels of a file
\* share a table.
Tables == DOMAIN Contents

IsLake(l) ==
  l = [t \in Tables |-> l[t]] /\ \A t \in Tables : l[t] \in Contents[t] \cup {NoTable}

ASSUME RolloutAssumption ==
  /\ MaxChanges \in Nat /\ LargestDim \in Nat
  /\ \A f \in Files : \A d \in Range(f) : d.key \in Tables /\ d.properties \in Seq(Property)
  /\ \A t \in Tables : \A c \in Contents[t] : \A id \in DOMAIN c :
       \A column \in DOMAIN c[id] : c[id][column] \in Cell
  /\ \A l \in InitialTables : IsLake(l)
  /\ Literals \subseteq Literal

VARIABLES
  file,         \* the file at GRAPH_SCHEMA_PATH
  tables,       \* the lake: the contents of each table's latest snapshot
  node,         \* the partition node: NotRunning, or what it read and serves
  former,       \* history: the node process that last served, as it ended
  coordinator,  \* the schema the coordinator validates with, or NotRunning
  changes       \* how many changes there have been

vars == <<file, tables, node, former, coordinator, changes>>

----------------------------------------------------------------------------
(* PestSchemaParser.                                                       *)

DeclaredTwice(f) == \E i, j \in DOMAIN f : i # j /\ f[i].key = f[j].key

KeysOf(f) == {d.key : d \in Range(f)}

UnknownEnds(f) == \E d \in Range(f) : \E e \in Range(d.ends) : <<"node", e>> \notin KeysOf(f)

\* parse::<u32> of a dimension out of range panics, which ends the process
\* as an error does.
TooLong(f) ==
  \E d \in Range(f) : \E p \in Range(d.properties) :
    p.type[1] = "Vector" /\ p.type[2] > LargestDim

Parses(f) == ~ DeclaredTwice(f) /\ ~ UnknownEnds(f) /\ ~ TooLong(f)

\* A property declared twice is not refused.
Parsed(f) == [k \in KeysOf(f) |-> CHOOSE d \in Range(f) : d.key = k]

----------------------------------------------------------------------------
(* SpecSchemaEvolution.                                                    *)

\* A property is looked up by name with find: the first of that name.
HasProperty(decl, name) == \E p \in Range(decl.properties) : p.name = name
FirstNamed(decl, name) ==
  LET ps == decl.properties
      first == CHOOSE i \in DOMAIN ps :
                 ps[i].name = name /\ \A j \in 1 .. (i - 1) : ps[j].name # name
  IN  ps[first]

\* A mutant: a property whose type changed is not looked at.
NameKept(p, to) == HasProperty(to, p.name)

PropertyKept(p, to) == HasProperty(to, p.name) /\ FirstNamed(to, p.name).type = p.type

Compatible(from, to) ==
  \A k \in DOMAIN from :
    /\ k \in DOMAIN to
    /\ \A p \in Range(from[k].properties) : PropertyKept(p, to[k])

----------------------------------------------------------------------------
(* A build: every declared table is read, a row at a time.                 *)

\* A mutant: a required property must have a value.
ReadRequired(row, p) ==
  IF p.name \in DOMAIN row /\ (p.optional \/ row[p.name] # Null)
  THEN ReadPropertyValue(row[p.name], p.type) ELSE Bad

\* A missing column fails the row, and one failed row the build.
ReadProperty(row, p) ==
  IF p.name \in DOMAIN row THEN ReadPropertyValue(row[p.name], p.type) ELSE Bad

RowConforms(row, decl) == \A p \in Range(decl.properties) : ReadProperty(row, p) # Bad

BuildSucceeds(schema, lake) ==
  \A k \in DOMAIN schema :
    /\ lake[k] # NoTable
    /\ \A id \in DOMAIN lake[k] : RowConforms(lake[k][id], schema[k])

\* The properties of a row are collected into a map: of two declarations of
\* one name the last one read stays.
LastNamed(decl, name) ==
  LET ps == decl.properties
      last == CHOOSE i \in DOMAIN ps :
                ps[i].name = name /\ \A j \in (i + 1) .. Len(ps) : ps[j].name # name
  IN  ps[last]

RecordOf(row, decl) ==
  [a \in {p.name : p \in Range(decl.properties)} |-> ReadProperty(row, LastNamed(decl, a))]

RecordsOf(schema, lake) ==
  [k \in DOMAIN schema |-> [id \in DOMAIN lake[k] |-> RecordOf(lake[k][id], schema[k])]]

\* build_property_index: node properties marked @indexed whose value has a
\* key, as triples of label, property and key with the nodes that have it.
Indexed(decl) == {p.name : p \in {q \in Range(decl.properties) : q.indexed}}

IndexEntries(schema, records) ==
  UNION {{<<k, a, id, PropertyKeyOf(records[k][id][a])>> :
            a \in Indexed(schema[k]), id \in DOMAIN records[k]} :
            k \in {d \in DOMAIN schema : d[1] = "node"}}

\* A mutant: strings are given no key.
KeyedNonStrings(entries) == {e \in entries : e[4] # NoKey /\ e[4][1] # "String"}

KeyedEntries(entries) == {e \in entries : e[4] # NoKey}

Generation(schema, lake) ==
  LET records == RecordsOf(schema, lake)
  IN  [records |-> records,
       index   |-> KeyedEntries(IndexEntries(schema, records)),
       lake    |-> lake]          \* history: what was read

LookupEq(g, k, a, key) == {e[3] : e \in {x \in g.index : x[1] = k /\ x[2] = a /\ x[4] = key}}

----------------------------------------------------------------------------
(* The processes.                                                          *)

NoGeneration == <<>>
Serving == node # NotRunning /\ node.generation # NoGeneration

\* main: the schema is read once, before the bootstrap.  A file that does not
\* parse ends the process, and its supervisor starts another.
StartNode ==
  /\ node = NotRunning
  /\ Parses(file)
  /\ node' = [schema |-> Parsed(file), generation |-> NoGeneration]
  /\ UNCHANGED <<file, tables, former, coordinator, changes>>

\* bootstrap: main returns the build's error, or serves what was built.
Bootstrap ==
  /\ node # NotRunning /\ ~ Serving
  /\ node' = IF BuildSucceeds(node.schema, tables)
             THEN [node EXCEPT !.generation = Generation(node.schema, tables)]
             ELSE NotRunning
  /\ UNCHANGED <<file, tables, former, coordinator, changes>>

\* periodic_rebuild_loop: with the schema of the start.  A failed build is
\* logged and the generation before it stays.
Rebuild ==
  /\ Serving
  /\ node' = IF BuildSucceeds(node.schema, tables)
             THEN [node EXCEPT !.generation = Generation(node.schema, tables)]
             ELSE node
  /\ UNCHANGED <<file, tables, former, coordinator, changes>>

\* The coordinator's main reads its file the same way and builds nothing.
StartCoordinator ==
  /\ coordinator' = IF Parses(file) THEN Parsed(file) ELSE NotRunning
  /\ UNCHANGED <<file, tables, node, former, changes>>

Change == changes < MaxChanges /\ changes' = changes + 1

\* The node crashes, or a rollout stops it.
StopNode ==
  /\ Change
  /\ node # NotRunning
  /\ former' = IF Serving THEN node ELSE former
  /\ node' = NotRunning
  /\ UNCHANGED <<file, tables, coordinator>>

Deploy ==
  /\ Change
  /\ \E f \in Files \ {file} : file' = f
  /\ UNCHANGED <<tables, node, former, coordinator>>

\* The pipeline commits rows or another shape of a table; a table once
\* created is not dropped.
Ingest ==
  /\ Change
  /\ \E t \in Tables : \E c \in Contents[t] \ {tables[t]} : tables' = [tables EXCEPT ![t] = c]
  /\ UNCHANGED <<file, node, former, coordinator>>

Init ==
  /\ file \in Files
  /\ tables \in InitialTables
  /\ node = NotRunning /\ former = NotRunning
  /\ coordinator = NotRunning
  /\ changes = 0

Next ==
  \/ StartNode \/ Bootstrap \/ Rebuild \/ StartCoordinator
  \/ StopNode \/ Deploy \/ Ingest

Spec == Init /\ [][Next]_vars

\* The supervisor restarts a node that ended, a bootstrap ends, and the timer
\* of the rebuilds fires.
FairSpec == Spec /\ WF_vars(StartNode) /\ WF_vars(Bootstrap) /\ WF_vars(Rebuild)

----------------------------------------------------------------------------
(* Correctness.                                                            *)

\* What a cell of a column of that type may hold.  A list's elements may be
\* null; a vector is stored as a list of Float64.
CellOf(cell, type) ==
  \/ cell = Null
  \/ type[1] = "List" /\ cell[1] = "List" /\ \A e \in Range(cell[2]) : e = Null \/ e[1] = type[2][1]
  \/ type[1] = "Vector" /\ cell[1] = "List" /\ \A e \in Range(cell[2]) : e = Null \/ e[1] = "Float64"
  \/ ~ IsComposite(type) /\ cell[1] = type[1]

RecordsConform(schema, records) ==
  /\ DOMAIN records = DOMAIN schema
  /\ \A k \in DOMAIN schema : \A id \in DOMAIN records[k] :
       \A p \in Range(schema[k].properties) : CellOf(records[k][id][p.name], p.type)

\* Every value served is null or of the type its schema declares, whatever
\* the tables have become since: no filter meets a value of another type.
TypeOK ==
  /\ file \in Files
  /\ changes \in 0 .. MaxChanges
  /\ IsLake(tables)
  /\ coordinator # NotRunning => \E f \in Files : Parses(f) /\ coordinator = Parsed(f)
  /\ \A n \in {node, former} \ {NotRunning} :
       /\ \E f \in Files : Parses(f) /\ n.schema = Parsed(f)
       /\ n.generation # NoGeneration => RecordsConform(n.schema, n.generation.records)

\* A value as the coordinator sees it once it has fetched the record.
Fetched(g, k, id, a) == OverTheWire(g.records[k][id][a])

\* The validator's check of a filter on property a of label or type k.
Accepts(schema, k, a, op) ==
  HasProperty(schema[k], a) /\ OperatorCompatible(FirstNamed(schema[k], a).type, op)

\* Spec 3.5: a compatible change needs no migration.  Between two lives of a
\* node whose schemas the diff calls compatible, every filter stays valid and
\* every cell that did not change is served with the value it had.
CompatibleKeepsAnswers ==
  (Serving /\ former # NotRunning /\ Compatible(former.schema, node.schema)) =>
    LET was == former.generation  is == node.generation IN
    \A k \in DOMAIN former.schema : \A p \in Range(former.schema[k].properties) :
      /\ \A op \in CompareOps :
           Accepts(former.schema, k, p.name, op) => Accepts(node.schema, k, p.name, op)
      /\ \A id \in DOMAIN was.lake[k] \cap DOMAIN is.lake[k] :
           was.lake[k][id][p.name] = is.lake[k][id][p.name] =>
             Fetched(was, k, id, p.name) = Fetched(is, k, id, p.name)

\* The literals that name a value of the type.  There is none for Bytes.
Denotes(literal, type) ==
  \/ literal[1] = type[1] /\ literal[2] # NaN
  \/ type[1] = "Timestamp" /\ literal[1] = "String" /\ literal[2] \in DOMAIN TimeOf

Negation(op) ==
  CASE op = "Eq" -> "Ne"  [] op = "Ne"  -> "Eq" [] op = "Lt" -> "Gte"
    [] op = "Gte" -> "Lt" [] op = "Gt" -> "Lte" [] op = "Lte" -> "Gt"

\* While a rollout leaves the coordinator with an older schema than the
\* node's, or with the same: a filter it accepts, with a literal of the type
\* it knows, holds of a stored value or its negation does.  The value crosses
\* the table, the index, the wire and the comparison on its way.
AcceptedFiltersAreDecided ==
  (Serving /\ coordinator # NotRunning /\ Compatible(coordinator, node.schema)) =>
    \A k \in DOMAIN coordinator : \A p \in Range(coordinator[k].properties) :
      \A id \in DOMAIN node.generation.lake[k], op \in CompareOps, literal \in Literals :
        LET stored == node.generation.lake[k][id][p.name]
            value  == Fetched(node.generation, k, id, p.name)
        IN  (/\ Accepts(coordinator, k, p.name, op) /\ Denotes(literal, p.type)
             /\ stored # Null /\ stored[2] # NaN) =>
              LiteralMatches(value, op, literal) # LiteralMatches(value, Negation(op), literal)

\* The nodes of a label a condition on one of its properties selects, when it
\* is evaluated on their records.
Matching(k, a, literal) ==
  {id \in DOMAIN node.generation.records[k] :
     LiteralMatches(Fetched(node.generation, k, id, a), "Eq", literal)}

FoundFor(k, p, literal) == LookupEq(node.generation, k, p.name, LiteralKey(literal))

IndexedNodeProperties(k) == {p \in Range(node.schema[k].properties) : p.indexed /\ k[1] = "node"}

\* A condition on the first node of a pattern goes through the index, the same
\* condition on any other node is evaluated on records: they select the same
\* nodes, also when the literal is of another type.  Timestamps are set apart,
\* see StringsNameTimestamps.
LookupFindsWhatMatches ==
  Serving => \A k \in DOMAIN node.schema : \A p \in IndexedNodeProperties(k) :
    \A literal \in {l \in Literals : HasKey(l)} :
      p.type # <<"Timestamp">> => FoundFor(k, p, literal) = Matching(k, p.name, literal)

\* The tables have what the file declares, column by column and row by row.
Fit(schema, lake) ==
  \A k \in DOMAIN schema :
    /\ lake[k] # NoTable
    /\ \A id \in DOMAIN lake[k] : \A p \in Range(schema[k].properties) :
         p.name \in DOMAIN lake[k][id] /\ CellOf(lake[k][id][p.name], p.type)

\* Whatever was deployed, committed and stopped before, in whatever order:
\* once the tables fit a file that parses, the node serves for good, and
\* serves the present tables if they fit the schema it started with.
ServesOnceTablesFit ==
  <>[](Parses(file) /\ Fit(Parsed(file), tables)) =>
    <>[](Serving /\ (Fit(node.schema, tables) => node.generation.lake = tables))

----------------------------------------------------------------------------
(* What the repository says and the code does not do.                      *)

\* docs/graph-engine-spec.md:434-438: a String compared with a Timestamp
\* property is read as an RFC3339 instant, wherever the condition stands.
StringsNameTimestamps ==
  Serving => \A k \in DOMAIN node.schema : \A p \in IndexedNodeProperties(k) :
    \A literal \in {l \in Literals : HasKey(l)} :
      p.type = <<"Timestamp">> => FoundFor(k, p, literal) = Matching(k, p.name, literal)
=============================================================================
