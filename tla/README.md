# A TLA+ development of the graph engine

The repository (`src/graph-engine`) is a read-only graph query engine over
Iceberg tables. Partition-node processes each hold an in-memory index of one
logical partition and rebuild it on a timer; a coordinator parses a query,
plans it, and walks the graph by scatter-gather: rounds of gRPC calls to the
partitions that own the nodes reached so far. This directory models the part
of it where the order of events decides the result, checks it with TLC on
small instances and proves its main properties with TLAPS.

Paths below are relative to `src/graph-engine` unless they start with `docs/`.

## 1. Inventory

| Component | State it keeps | Operations | Hard part | Correct when |
|---|---|---|---|---|
| Query vocabulary (`crates/graph-query/src/lib.rs`, `filter_eval.rs`, `crates/graph-dsl/src/lib.rs`) | none | compare a stored property with a literal; bind an alias | absent and incomparable values | nothing absent satisfies a condition, `<>` included |
| Index builder (`crates/graph-index/src/builder.rs`) | none, returns an `IndexGeneration` | `build` | edges whose two ends live in different partitions; endpoints that no table holds | the partitions' indexes together hold each edge once per direction |
| Generation handle (`crates/graph-index/src/lib.rs`) | the generation served | `acquire`, `swap` | a swap between two reads | what an answer mixes was true of some generation served meanwhile |
| Local executor (`crates/graph-query/src/local_executor.rs`) | none | `resolve_start`, `resolve_all`, `expand_hop`, `check_anti_join` | parallel edges, remote neighbours | one call reads one generation |
| Scatter-gather executor (`distributed_executor.rs`) | frontier, accepted bindings, round | `execute` and the phases below it | partitions asked in any order, partitions without a replica, failing calls, cyclic graphs | returns what one search of the whole graph returns |
| Partition node (`bin/graph-partition-node`) | the generation it serves | bootstrap, periodic rebuild, the RPC handlers | commits during a build, failed builds, crashes | serves a cut of the lake of the time of its build; never goes back; catches up |
| Iceberg reader (`crates/graph-storage`) | none | `latest_snapshot`, `scan_nodes`, `scan_edges` | a table without a snapshot, a column or a cell that does not conform | what it yields is of the declared type; a build that cannot conform serves nothing new |
| Cluster map, discovery (`crates/graph-cluster/src/lib.rs`, `discovery.rs`) | none, polls Kubernetes | `current_map`, `healthy_replicas` | the map is stale when used; annotation against configuration | a routed call reaches a process of the partition meant |
| Rebalance planner (`rebalance.rs`) | none | `plan`, `target_machines` | pairing adds and removes; leftover removes | a machine that joins or leaves moves only what it must |
| Query parser (`graph-dsl/src/parser.rs`, `dsl.pest`) | none | `parse` | ordered alternatives that take a prefix of one another; optional parts; numbers too large | a text is read as the query it was written for, or refused |
| Planner, validator (`planner.rs`, `graph-dsl/src/validator.rs`) | none | `plan`, `validate` | conditions that no step carries | what the query says is in the plan, or is refused |
| Coordinator service (`bin/graph-coordinator/src/service.rs`) | schema | `execute_query`, `get_index_status` | hydration after the walk; ORDER BY with absent keys | rows sorted as the direction says, absent keys last |
| Partition client cache (`grpc_partition_rpc.rs`) | clients by address, behind a mutex | `client` | the lock is held while connecting; nothing is evicted; addresses change hands | one connection per address; every waiting query gets its turn; a right map gives right answers |
| Schema parser, schema evolution (`graph-schema/src/parser.rs`, `evolution.rs`) | none; each process keeps the schema it read at its start | `parse`, `diff` | declarations written twice; processes that read different versions | a compatible change keeps filters valid and values as they were |
| Protocol, metrics, viewer, examples | none | generated code, I/O | - | not modelled |

How they interact: the coordinator calls discovery once per query, then the
executor; the executor calls `PartitionRpc`, one awaited call at a time; each
call is answered by a partition node's handler from the generation it acquires
at that moment; the rebuild task of that process replaces the generation
independently of every query. The ingestion pipeline, outside the engine,
commits to one Iceberg table at a time.

The behaviours that are hard to test are listed, each with its source line, in
`PROJECT.json` under `hazards`.

## 2. Modules

| Module | What it is | Composes |
|---|---|---|
| `PropertyGraph` | rows, filters, plan steps, bindings | |
| `GraphIndex` | `build`, and each operation of the local executor, as operators on one generation | `PropertyGraph` |
| `PlanSemantics` | what each step of a plan means on one graph; `Answer`, the bindings that satisfy a plan, stated without any search | `PropertyGraph` |
| `GraphSearch` | abstract specification: one search over the whole graph, restricted to the nodes that can be read | `PlanSemantics` |
| `ScatterGather` | the distributed execution of one query, an action per RPC | `GraphIndex`; refines `GraphSearch` |
| `QueryOverRebuilds` | the same while replicas swap generations | `ScatterGather` with the swap of a partition node |
| `QueryText` | the grammar of the query language | `Queries` |
| `Queries` | what a query is: patterns, conditions, what RETURN names | `PropertyGraph` |
| `Planner` | validation and planning of any query; what a query means | `PlanSemantics`, `Queries` |
| `Planning` | a query from its text, whatever that is, to its plan | `Planner`, `QueryText`; refines `Planner` |
| `WrittenQueries` | the texts users write for the queries they mean | `Planning` |
| `QueryResult` | hydration, ORDER BY, LIMIT and projection after the walk, while replicas swap generations | `GraphIndex` |
| `Placement` | which machines host a partition: pods, rebalance plans, the controller that applies them | |
| `PartitionClients` | queries that share the cache of connections, over pods that come and go | |
| `TypedValues` | one property value from the cell of a table to the comparison with a literal | |
| `SchemaRollout` | a schema file over its life: edits, changes of the tables, restarts of the node and of the coordinator | `TypedValues` |
| `PartitionNode` | builds, failures, crashes and restarts of partition-node processes | |
| `GraphSearch_proofs`, `QueryOverRebuilds_proofs`, `PartitionNode_proofs`, `PartitionClients_proofs`, `QueryResult_proofs`, `Placement_proofs`, `SchemaRollout_proofs`, `Planner_proofs` | theorems; those of `ScatterGather` are in `QueryOverRebuilds_proofs`, which builds on them | the module each is named after |
| `MCScatterGather`, `MCQueryOverRebuilds`, `MCPartitionNode`, `MCPlanning`, `MCQueryResult`, `MCPlacement`, `MCPartitionClients`, `MCSchemaRollout` | the instances TLC checks | |

### PropertyGraph and GraphIndex

A graph is a pair of functions: node id to row (label and properties), edge id
to row (type, source, destination, properties). A property is an integer,
`Missing`, or `Opaque` (a list or null). Strings, floats, booleans and
timestamps are integers here: the code compares two values of one type by
their order only. One consequence is left out: a timestamp can be compared
with a literal but cannot be turned into one, so a NOT EXISTS that refers to a
timestamp of the outer pattern drops its binding; in the model an `Opaque`
value does that.
Ids name one row each, so the `HashMap`s the builder collects are functions.

`Build(p, g)` is `IcebergIndexBuilder::build` after its scans: the nodes owned
(`Owned`, `nodes.retain`), the two adjacencies (`BuildCsr`, `Entry`) and the
record maps. `Entry` keeps the code's two options as sets of at most one node.
`Resolve`, `ExpandHop`, `Survives`, `NodeProperties` and `EdgeProperties` are
the local executor and the two hydration handlers, each on the one generation
its call acquired. `Wire` is what `property_value_to_proto` does to a record:
values without a wire form are dropped. `ExpandHop` is `expand_hop` in the form
the coordinator sends it, one physical hop without filters. `ExpandHops` is
the whole function, with its loop over the depth and `apply_filters` on
`lookup_range`; the repository's tests call that form. Keys of several types in
one index are not represented there, nor the error of a `<>`, which
`Answerable` excludes.

### ScatterGather

| State | Code |
|---|---|
| `plan`, `route` | the plan, and `pick_replica`'s answer per partition: the map is read once per query, so it is fixed |
| `served` | the graph each replica's generation was built from |
| `phase`, `pos` | where `execute` is: `resolve` (`broadcast_resolve`), `hop` (`scatter_gather_hop`), `filter` (`filter_frontier`), `nodes` and `edges` (hydration in `resolve_and_group_by_condition`), `anti` (`execute_anti_join`), `done`, `failed` |
| `depth` | the loop variable of `scatter_gather_hop` |
| `current`, `next`, `accepted` | the locals of the same names (`survivors` and `merged` are `next`) |
| `asked` | the requests of the loop in progress that are behind it |
| `hydrated` | the properties fetched so far |

Each of the six RPC actions is one awaited call with the fold of its answer,
or the `continue` when the partition has no replica. `Requests` is the set the
`for` loop ranges over; which is next is free, as the order of a hash map is.
The `End...` and `BeginFilter` actions are what the coordinator does when a
loop is exhausted. `RpcFails` is the `?` after any call to a replica.
Collections of bindings are sets: every place that could tell a list from its
set deduplicates before anything depends on it. Only the size of a frontier is lost.

### QueryOverRebuilds

Adds `Swap`: a replica begins to serve the graph of another build. `seen`
records what each replica served since the query began; it is a history
variable for the properties. Builds come in any order, which includes the
order of the lake.

### PartitionNode

`lake` is the history of the catalog: each state gives the latest snapshot of
each table, counted in commits. `proc`, `pins` and `current` are what a process
is doing, the snapshots the build in progress has pinned, and the
`GenerationHandle`. `began`, and `began` and `built_at` inside a generation,
are positions in the history kept for the properties. A build reads the tables
in the order of the schema's `BTreeMap`s, node tables first (`Scan`), each at
the snapshot it finds then. The actions are `Tick` and `Publish` of the
rebuild loop, `ReadTable`, `NoSnapshot` and `StorageFails` inside `build`, and
the environment's `Commit`, `Crash` and `Restart`. The row contents belong to `GraphIndex`.

### Queries, Planner and Planning

A query is the AST of `graph-dsl`: a chain of node patterns and edge patterns,
a sequence of WHERE conditions (the planner counts them), and what RETURN
names. `Valid` is `SchemaValidator::validate` with its list of errors as one
verdict; the scope of an alias is read off the patterns (`Bound`, `LabelOf`,
`TypeOf`), and the scope inside a NOT EXISTS is the outer one with one more
edge. `Plan` is `NaivePlanner::plan`, and `Panics` the shapes it panics on.
`Parse`, `Validate`, `MakePlan` and `Panic` are `execute_query` up to its first
RPC. `Planner` has everything but the text: its `Receive` lets any query be
read, or none, so what holds of it holds of every parser. `Planning` puts the
grammar in that place: `source` is the text, any sequence of tokens, and
`PlansWhatItReads` says that it implements `Planner`. `WrittenQueries` narrows
the texts to those written for a query (`asked`), since only of them can one ask
whether they are read as they were meant.

`QueryText` has one operator per rule of `dsl.pest`, each a function of a text
and a position: alternatives in the order of the file, optional parts taken
whenever they match, nothing taken given back. The operators build the query
as the walk of `parser.rs` does, and `Fits` says when that walk panics on a
number. A text is a sequence of tokens, with `<=` two of them and `1..3` four,
because these are the places where one alternative is a prefix of another;
white space, comments and words written together are left out. What repeats is
a recursive function on the positions of the text (`Many`), and what nests one
on the depth (`WhereAt`): a WHERE clause at depth d reads its NOT EXISTS with
the clauses of depth d - 1, and no text nests deeper than it is long.
`QueryAsText` in `WrittenQueries`, the reference, is written from the shape of a
query and not from the rules.

`Meaning` says which rows a query asks for, on the AST and without a plan. It
follows the code in one documented choice: a row whose outer reference in a
NOT EXISTS has no value is no answer. `Sound` sets aside queries whose meaning
the executor is known to change: an alias used twice (run `repeated_alias`)
and a lookup on a property without an index.

### QueryResult

Starts where `execute` returns. `bindings` is the vector, in any order;
`phase` is `nodes` or `edges` while `get_node_properties` and
`get_edge_properties` ask their partitions, one `NodesRpc` or `EdgesRpc` each;
`records` is what they found. `Needed` is `needed_node_ids` and
`needed_edge_ids`, `Remaining` the ids `get_edge_properties` still looks for.
`Finish` is `sort_bindings_by_property` (a stable sort with the code's
comparator, DESC reversing all of it) and `truncate`; `Projection` is one row
of the result. `Swap` is a partition node installing another generation.
What the walk found is a constant operator of the graph (`Matches`): how it is
found is `ScatterGather`'s subject.

### PartitionClients

| State | Code |
|---|---|
| `pods`, `discovery` | what Kubernetes lists (address, annotation, readiness) and whether a process listens; or the static addresses of the configuration |
| `clients`, `owner`, `waiters` | `GrpcPartitionRpc::clients` and the tokio mutex around it, first come, first served |
| `query` | each handler: where it is, the routes it read once, the partitions still to ask, the replica it is calling |
| `dialed`, and `misled`, `current` of a query | history, for the properties |

`Pick` is `pick_replica` with `lock().await`, `Hit`, `Dial`, `Connected` and
`Refused` the section under the lock with the await inside it, `Answered` and
`CallFails` the call, over a channel that connects again by itself to whoever
listens at the address. `Cancel` is tonic dropping a handler whose caller has
gone, at any await. A handler may also be a `get_index_status`, which dials on
its own: its comment says it asks partition 0, the code asks the least
partition the map has.

### TypedValues and SchemaRollout

A value is a tag and a datum, so that what one conversion does to the type is
kept. `ReadPropertyValue` is the reader's downcast by declared type,
`PropertyKeyOf` and `LiteralKey` the two makers of index keys, `OverTheWire`
the protobuf message and back, `LiteralMatches` the comparison, and
`OperatorCompatible` the validator's only look at a type.

`file` is the schema file, `tables` the latest content of each table, `node` a
partition node with the schema of its start and its generation, `coordinator`
the schema the coordinator read, `former` (history) the node process before.
`StartNode`, `Bootstrap`, `Rebuild` and `StartCoordinator` are the two `main`s
and the rebuild loop; `Deploy`, `Ingest` and `StopNode` are the world around
them. `Compatible` is `SpecSchemaEvolution::diff`. Simplified: a build is one
step and owns every row (builds across commits are `PartitionNode`'s subject,
partitions `GraphIndex`'s); a file is given as its declarations; lists nest one
level; no two labels share a table (labels that differ only by case would, see
the hazards); a table is not dropped once created.

### Placement

`pods` is what the Kubernetes API lists: an address and the annotation.
`CurrentMap` is `KubernetesDiscovery::current_map`; readiness does not matter
to a plan and is left out. `Target` is `target_machines` for an unknown
`score`, `Paired` the sorted pairing of adds with removes, `PlanMoves` the
plan. The repository has no controller that applies a plan
(`discovery.rs:22-24` says so), so `CarryOut` and `Retire` model the one its
comments describe, and `PodStarts`, `PodDies`, `Offer` and `Withdraw` the
cluster around it; `PROJECT.json` marks them external.

## 3. Runs

| Run | What it asks | Result |
|---|---|---|
| `scatter_gather` | is the distributed answer that of the whole graph? | holds, 69,929 states |
| `query_over_rebuilds` | what is true of an answer that mixes generations, and does the query end? | holds, 103,413 states |
| `partition_node` | which snapshots are served, and does the index catch up? | holds, 151,417 states |
| `query_result` | are the best rows sent, with consistent records? | holds, 22,136 states |
| `planning` | is a query read as written, and does its plan mean what it means? | holds, 168,410 states |
| `placement` | does a plan move only what a change forces? | holds, 360,448 states |
| `partition_clients` | do queries that share the cache end, and hear the right processes? | holds, 280,495 states |
| `schema_rollout` | what do compatible changes, accepted filters and lookups guarantee while versions are mixed? | holds, 84,399 states |
| `repeated_alias` | is a repeated alias a reference? | violated |
| `nulls_last` | do rows without a key sort last? | violated |
| `dropped_conditions` | is the inline filter of a hop's target kept? | violated |
| `timestamp_lookup` | does a string name a timestamp wherever the condition stands? | violated |

`scatter_gather`: `RefinesSearch` says that no binding is lost, repeated or
invented by splitting a round over partitions. `AnswerIsExact` compares the
result with `Answer`, which knows nothing of rounds: a walk between `min` and
`max` edges exists, or does not. With partitions missing, the answer is the
one restricted to what can be read. `PartialAnswerIsSound` is the part of it a
user relies on: a missing partition can hide rows and never makes a NOT EXISTS
hold. `OneCallWalksItsPart` judges the other way to walk a hop, all of it in
one call: the same walks, inside one partition, and every way out of it (for a
hop that names its edge, where the planner allows one edge only).
`IInv` is the inductive invariant of the proof.

`query_over_rebuilds`: `EveryStepWasTrue` is what remains when generations
move: every step of the plan, alone, held of the binding in generations served
during the query. `AgreedAnswersAreFound` is the converse: what follows from
rows that no swap changed is found. `Terminates` includes failing calls and
partitions nobody serves. `StepsRunOut` is the part of it that needs no
fairness: every step of the query lowers a measure (steps of the plan, phases
of the step, rounds of the hop, requests of the phase, in this order), and a
swap leaves it where it was.

`partition_node`: `ServedCutIsBracketed` is the consistency a generation
really has. Each pinned snapshot was the latest at an instant of the build, the
instants ordered as the scan is. `ServesOnceBootstrapped` relates what is
served to the life of the process. `ServedNeverGoesBack` is an action
property. `CatchesUp` is liveness.

`query_result`: `BestFirst` compares the rows sent with all rows found: the
cut comes after the sort, and ties and absent keys lose no row that should be
there. `UntouchedRecordsAreFetched` says that no order of RPCs and no early
find hides a record that no swap touched. `SameIdSameProperties` is what a
reader of one result sees: one edge, one set of properties, even if the edge
moved to another partition's build while the hydration ran.

`planning`: `ReadAsWritten` compares the parser with the way queries are
written, in both directions: a query, with its optional parts written or left
out, is read as itself, and a text with one token lost is read as the query it
then spells, or refused. `PlansWhatItReads` is a refinement: what the parser
hands on is a query of the AST's type, and what follows is a behaviour of
`Planner`. `PlansAreExecutable` is the contract between validator, planner
and executor: no `UnknownAlias` half way through a query. A NOT EXISTS that
compares two properties of its own edge breaks it (its right side becomes an
outer reference to an alias nobody binds) and is excluded by name. Conditions
are dropped in the code, so the meaning of a plan is stated in two parts:
`PlanLosesNoRow`, dropping only widens an answer; `PlanMeansQuery`, a query all
of whose conditions have a place in a plan is answered exactly. The second
assumes graphs that conform to the schema, since no step checks the label of a
hop's target.

`dropped_conditions`: `TargetFiltersAreKept` is `PlanMeansQuery` with one
premise less: the targets of hops may have inline filters. Since
`PlanMeansQuery` holds, any counterexample has such a filter; TLC's is
`MATCH (x:L)-[g:T]->(y:M {k: 0}) RETURN x, y`, planned as a hop without
filters, which `planner.rs:10-20` does not announce. It announces that
comparisons between aliases or their properties are dropped. The premises that
remain (`FullyCarried`) name what else the planner drops: every inline filter
of the start node after the first (`planner.rs:144`), WHERE conditions on a
start node that has an inline filter, conditions on a target without a label
(`planner.rs:87-91`), conditions on an edge's alias, and NOT EXISTS conditions
that are not about the inner edge. `PlanLosesNoRow` is all that is checked of
those.

`partition_clients`: `OneConnectionPerAddress` is what the lock is held for.
`CurrentMapAnswers` is the strongest statement about right answers the code
allows: the map has to be right when it is read and the cluster must stand
still; the past of the cache, filled while addresses belonged to others, must
not matter. Nothing in the code compares the partition asked for with the one
that answers, so it fails as soon as either premise does. `EveryQueryEnds` is
liveness of the lock: every way out of the section hands it on, the failed
connection and the cancelled caller included.

`schema_rollout`: `CompatibleKeepsAnswers` compares two lives of a node whose
schemas the diff calls compatible: filters stay valid, cells that did not
change are served as before. (A property that loses its index is a compatible
change too, and lookups on it then find nothing: the property is about filters
evaluated on records.) `AcceptedFiltersAreDecided`: with the coordinator on the
same schema or an older compatible one, a condition it accepts or its negation
holds of every stored value, so no conversion on the way lost the type; it
needs a literal that names a value of the type, because the validator never
looks at literals. `LookupFindsWhatMatches`: the index and the evaluation of
records agree on equality. `ServesOnceTablesFit` is liveness: whatever happened
before, a node serves once the tables have what the file declares.

`placement`: `PlanSettles` says a carried-out plan needs no other one.
`ChangeMovesOnlyItsOwn` is the reason for rendezvous hashing, as
`rebalance.rs:11-14` gives it, for any number of machines that come or go.
`ControllerKeepsReplicas` is about plans that are stale when applied: pods die
in between and no partition has fewer replicas for a move.

The four violations are disagreements between the code and its own comments or
specification; `PROJECT.json` quotes both sides under `findings`. Three more
are visible in the modules and have no run of their own. A query acquires a
generation per RPC and not once (`crates/graph-index/src/lib.rs:197-198`), so
`EveryStepWasTrue` is as much as an answer over rebuilds guarantees. A build
pins each table when it comes to it
(`crates/graph-storage/src/lib.rs:24-26` says one logical point in time), so a
generation is bracketed, not an instant. An edge to an absent node is dropped
only when that node hashes to the partition being built
(`crates/graph-index/src/builder.rs:18-22` says always).

Bounds. Two partitions of one and two nodes are the smallest in which an edge
stays, crosses over and comes back; three nodes and three edges make cycles,
parallel edges and self-loops; three rounds exceed the longest simple path.
Every assignment of a replica or none to the partitions is an initial state.
Two swaps let both replicas move, or one move twice, between any two calls.
Two tables, two commits and two faults give a commit inside a build, a build
that fails and one that succeeds after it, and a crash in either. TLC does not
check deadlock in the query runs: a query stops when it has answered.
The 37,387 queries of `planning` combine every shape of first node, edge,
second node and pair of conditions, valid or not, and chains of two hops; 5,234
of them are planned, 687 of these carry all their conditions, 640 with a
NOT EXISTS. Nine graphs hold parallel edges, a node without the property, and
an edge back. `query_result` allows two swaps, of either replica, between the
calls of one hydration. Four machines with two replicas are the smallest in which a placement by
position moves more than it must; one partition is enough because `plan` treats
each on its own, and scores of 0 and 1 give every order with ties.

For the 414 queries that vary their ends, conditions and edges, `planning` also
starts from the text written in full and from every text with one token lost.
`partition_clients` has two queries, two pods of different partitions and two
addresses: enough for one to wait while the other connects, and, in four
changes, for a pod to be deleted and its address given to the other, which
comes up and is probed. `schema_rollout` has nine files, among them a retyped,
a smaller and a wider one, one that declares a property twice and three that do
not parse, and three changes: a commit, a deployment and a restart between two
lives of the node.

Fairness. `Terminates` assumes weak fairness of the coordinator: an RPC that
was sent is answered or fails. The client sets no timeout, so for a replica
that accepts a connection and never answers this is an assumption and not a
property of the code. `CatchesUp` assumes, for each process, that its timer
fires, that its supervisor restarts it and that a read of the storage returns;
the premise of the property waits for every table to have a snapshot, and
commits, crashes and failures are bounded. `EveryQueryEnds` assumes that the
runtime polls what is ready and that a connection and a call are answered or
refused, with the same reservation about timeouts as `Terminates`; nobody is
obliged to send a query or to stay for its answer. `ServesOnceTablesFit`
assumes that a node that ended is started again, that its bootstrap ends, and
that the timer of the rebuilds fires. A process needs no fairness
between its actions: at most one of them is enabled at a time.

## 4. Proofs

| Theorem | States |
|---|---|
| `TypeCorrect` | `Spec => []TypeOK` of `ScatterGather` |
| `ProgressInvariant` | `Spec => []IInv`, for graphs whose edges have their endpoints |
| `ScatterGatherRefinesSearch` | `Spec => Search!Spec`, under the same assumption |
| `SearchIsExact` | the search of `GraphSearch` ends with `Answer`, the declarative meaning of its plan |
| `AnswersAreExact`, `PartialAnswersAreSound` | `AnswerIsExact` and `PartialAnswerIsSound` of `ScatterGather` always hold |
| `OneCallIsItsRounds` | `OneCallWalksItsPart` of `ScatterGather` always holds, for closed graphs and scoped plans |
| `RebuildTyped`, `AnswersWereTrue`, `AgreedAreFound` | `RebuildTypeOK`, `EveryStepWasTrue` and `AgreedAnswersAreFound` of `QueryOverRebuilds` always hold |
| `QueriesRunOut` | the action property `StepsRunOut` of `QueryOverRebuilds`, over finite graphs and partitions |
| `BuildInvariant` | `Spec => []IInv` of `PartitionNode` |
| `NodeTypeCorrect`, `ServesOnceBootstrappedHolds`, `ServedGenerationsAreBracketed` | `TypeOK`, `ServesOnceBootstrapped` and `ServedCutIsBracketed` of `PartitionNode` always hold |
| `ServedNeverGoesBackHolds` | the action property of the same name |
| `OneConnectionHolds`, `CurrentMapHolds`, `CacheTyped` | `OneConnectionPerAddress`, `CurrentMapAnswers` and `TypeOK` of `PartitionClients` always hold |
| `TypeCorrect`, `BestAreSent`, `SameIdShownAlike`, `UntouchedAreFetched` | `TypeOK`, `BestFirst`, `SameIdSameProperties` and `UntouchedRecordsAreFetched` of `QueryResult` always hold |
| `WellFormedPlans`, `PlansSettle`, `ChangesMoveOnlyTheirOwn`, `ReplicasAreKept` | `TypeOK`, `PlanSettles`, `ChangeMovesOnlyItsOwn` and the action property `ControllerKeepsReplicas` of `Placement` |
| `StagesAreKept` | `PInv` of `Planner`: what was read is a query, what was accepted is valid, a plan is the lowering of the accepted query |
| `PlansCanBeExecuted`, `PlansLoseNoRow`, `PlansMeanTheirQuery` | `PlansAreExecutable`, `PlanLosesNoRow` and `PlanMeansQuery` of `Planner` always hold |
| `TextsAreReadAsQueries`, `AnyTextIsPlannedAsMeant` | `PlansWhatItReads` of `Planning`, for any text: what is read is a query, its literals have values, and the rest is `Planner`; hence the three properties above hold of texts |
| `ClusterAnswersQuery` | `ScatterGather` run on the plans of queries that a plan can carry whole ends with rows they mean, and with all of them when every partition has a replica |
| `ServedAsDeclared`, `CompatibleChangesAreSafe`, `FiltersAreDecided`, `IndexAgreesWithRecords` | `TypeOK`, `CompatibleKeepsAnswers`, `AcceptedFiltersAreDecided` and `LookupFindsWhatMatches` of `SchemaRollout` always hold |

They hold for all queries, plans, graphs, partitions, replicas, tables, processes,
machines and schema files that satisfy the assumptions the modules name:

- `DataAssumption`: ids and markers are distinct. `OwnerAssumption`: every id
  hashes to a partition.
- `ClusterAssumption`: in `ScatterGather`, plans are what the planner emits and
  graphs are graphs; in `PartitionClients`, a pod is configured for a
  partition, and no two initial pods share an address.
- `ScanAssumption`: a scan reads a finite, non-empty sequence of tables.
- `PlacementAssumption`: finitely many machines with ordered names, a
  replication factor of at least one.
- `MatchesAssumption` of `QueryResult`: the walk yields finitely many bindings,
  and an alias that RETURN or ORDER BY names is a node in all of them or an
  edge in all of them. `service.rs:139-141` states it of a validated query.
  No check of the validator forbids an alias to name both; what such a plan
  does is `repeated_alias`'s subject.
- `TextAssumption`: what the literal rules match stands for a literal, a run of
  digits for a number, and no word is a run of digits.
- `ValuesAssumption`, `RolloutAssumption`: a cell holds a scalar, a null or a
  list of them (lists of lists, which the grammar allows, are left out), NaN is
  no number, an RFC 3339 string names an instant.
- `SchemaAssumption` and `GraphsAssumption` of `Planner`: an edge type joins
  declared labels, and the graphs conform to the schema. `QueriesAssumption`:
  the marks for a missing label or property are neither.
- `SwapsAssumption`: the bound on swaps is a number. Any number will do.

Three more are hypotheses of the theorems that need them. `FiniteLake`: the
partitions and the rows of a graph are finitely many. `GraphsClosed`: an edge
to an absent node is treated differently by where its id hashes, so the
distributed search then depends on the partitioning. `PlansScoped`: no plan
reads an alias before it is bound or binds one twice. `PlansCanBeExecuted`
proves that the plans made of valid queries satisfy the first half, unless a
NOT EXISTS compares two properties of its own edge, and the second for queries
that use no alias twice; the code does not refuse the others (run
`repeated_alias`).

The refinement. In the middle of a phase `current` and `accepted` are those of
the search, and `next` and `hydrated` are only there in the code. The mapping
keeps the former and forgets the latter, so an RPC is a stutter and the end of
a phase is the search's step. For this to hold, `next` must be exactly what
the search would compute when every request was settled. The invariant
`Progress` says so at each point in between: it is the search's result over
the nodes whose partition was asked. It is inductive because a round of the
search is a union over the nodes it leaves from, and partitions split the
nodes: one RPC adds one partition's part (`ResolveSlice`, `ExpandSlice`,
`HydrateSlice`, `SurvivesSlice`). Three points needed care. An edge's record
lives with its source, so its hydration is counted by its source's partition.
The coordinator does not ask for edges it already found, and these are edges
whose rows it has. Values dropped by the wire denote no literal and satisfy no
condition (`WireKeepsLiterals`), so dropping them changes no result.

The answer. `Answer` speaks of walks, which are functions of any length, and
the search of rounds. No induction over the length is needed: the search makes
it, one round a step. Its invariant says that the frontier at depth `d` is the
set of bindings that satisfy the steps behind and have a walk of `d` edges for
the step in progress, and that a walk of `d + 1` edges is one of `d` and an
edge. A frontier that runs empty before the maximum needs the converse, that a
longer walk has a prefix of every length. A binding that is extended still
satisfies the steps behind it because no alias is bound twice. The exactness of
the distributed answer is then the refinement and this. Of a partial
answer, soundness on the whole graph follows by comparing the two readings of
a plan, with the readable rows and with all.

Over rebuilds there is no single graph to refine, and the answer is no search's
answer. What survives is the past: that a node had a label in a generation
served during the query stays true whatever is swapped in later (`Grows`). So
the invariant (`Honest`) gives each binding what it owes to the steps behind
it, in generations seen, and an RPC adds what it read from the generation its
replica serves at that moment, which is one of those seen (`ServedSeen`). The
NOT EXISTS needs more: its conditions are made of values hydrated earlier, and
they are the values of one row for each id only because an id is hydrated once
(`Hydration`): each partition is asked once for its own nodes, and edges already
found are not asked for again.

The converse, `AgreedAnswersAreFound`, cannot follow one graph either: the rows
that all generations share become fewer while the query runs, and a binding of
the final answer is only known to be one at the end. The invariant (`Found`)
therefore speaks of the bindings agreed on so far, and is inductive because
what it asks falls with the shared rows. For each of them and each walk over the
shared rows that fits the hop in progress (`KeepsHop`), the binding is on that
walk as far as the rounds went: in the frontier before its node's partition is
asked, among the gathered bindings after, and accepted once the round has
passed the walk's length. A swap leaves fewer walks to account for
(`KeepsFewer`). A hop reads only rows that the replica asked serves as well,
since the shared rows are within every generation's (`WithinExits`). For a NOT
EXISTS the row hydrated for a shared id is the shared row whatever generation
sent it, so the conditions sent are those every generation would have made
(`ConditionsAgreed`), and no generation has an edge that meets them.

The partition node. That a served generation is bracketed is not inductive:
during a build the pins are only a prefix. `BuildsFollowOneAnother` brackets
the prefix between the beginning of the build and now, and says that a build
begins after the previous one ended; `LakeGrows` says snapshots of a table
only grow. The last two give `ServedNeverGoesBack`: a later bracket lies
after an earlier one.

The client cache. That an address is dialed once is not inductive: what
matters is who is in the section. The invariant adds that only the owner of the
lock is connecting, that it connects to an address the cache lacks, and that
the addresses dialed, once each, are those in the cache.
`CurrentMapAnswers` needs no such thing, which is the point of it: its
invariant does not mention the cache. It says that the routes and the target of
a current query lead to processes that listen and serve the partition asked.
They do when the map is read, because no two pods share an address
(`PodsDiffer`, assumed of the initial clusters and kept by every change), and a
change of the cluster ends the query's currency.

The result. `HydrationInv` follows the fetched records: one per id, each from
the generation of its keeper, and, of the rows no swap touched, all of the
partitions asked so far; an edge that is still looked for is one that nobody
asked has. Sorting is by rank: a row's place is one more than the number of
rows ahead of it. Because the comparison with ties broken by position is a
strict total order, the places are exactly `1 .. n` and the sorted rows a
permutation, which is all `BestFirst` needs; no recursion over the list is
involved.

Placement. A target is a machine that fewer than the replication factor
outrank, and because scores with ties broken by name are a strict total order,
there are exactly as many targets as the factor asks, or as there are machines
(`TargetSize`). A machine that stays and becomes a target replaces one that
left, and a newcomer that becomes a target displaces one: that is
`ChangesMoveOnlyTheirOwn`, by counting. The pairing is by place in the order of
names; no two machines have the same place (`PlacesDiffer`), so each addition is
paired with a removal of its own and none is used twice, which makes a
carried-out plan the target itself. For `ReplicasAreKept` the invariant
(`PlanInv`) says that a pending move's target does not have the partition yet,
whatever died since the plan was made: the controller adds it there before, in
the same step, it strips the replica that moves, so the count never drops.

Schemas. The invariant is short: each process serves the generation of a
parsed schema file over tables it could read. From there each property is a
fact about the conversions: a cell the reader accepts is served as it is
stored, reading under a type yields null or a value of that type, a key of an
indexed value is the value, and the comparison of two values of one type is
decided unless one is NaN. A property declared twice needed care: the diff
compares the first declarations of both sides, and what it calls compatible has
the same type on both (`CompatibleTypes`).

The planner. A validated query is a chain of patterns and a list of conditions,
its plan a list of steps; the argument is that each step asks for what some part
of the query says and for no more. `PlanSteps` says which step stands where, and
`SameRows` that the plan's candidates are the query's rows. Then one lemma per
kind of step: `FirstMeans` (a lookup key is one of the conditions on the first
node), `HopMeans` (an edge pattern, and the conditions on its target) and
`AntiMeans` (an edge that meets the lowered conditions is one that meets the
written ones). The last is where the code turns an operator round when the edge's
own property stands on the right (`FlipMeans`); it needs every inner condition
to mention its own edge on one side (`Correlated`), since lowering drops the
others and an absence would become too strong. `NoRowIsLost` reads the lemmas
from the query to the plan: whatever condition was dropped, every step still
follows. `AnswersAreMeant` reads them backwards and has to find a step for each
condition: a condition on a node is in the first step or in the hop that binds
it (`HeldFilters`), and the label of a hop's target, which no step checks,
follows from the edge's type in a graph that conforms (`TargetLabel`).
That no step reads an unbound alias is a fact about scopes: the validator
accepts an alias inside a NOT EXISTS if the outer pattern or its own edge binds
it, and the planner takes the edge's own side away (`OuterScope`).

One call. `OneCallIsItsRounds` compares two computations of a hop: rounds over
partitions, and `Levels`, which recurses over the depth inside one call. The
recursive function is characterised by its equations (`LevelsOf`), and that its
levels are the ends of walks (`LevelsAreWalks`) is proved by the least depth at
which it would fail; no induction theorem is needed. What the call takes out of
its partition is a walk inside and one edge more (`TakenAreWalks`).

The end of a query. `QueriesRunOut` needs the requests of a phase to be
finitely many, so the invariant (`Sized`) follows the finiteness of the frontier
through the rounds: a call answers with at most one binding for each edge of the
graph it reads and each binding it was sent (`ExpandFinite`). Then each action
lowers one place of the measure and leaves those before it: a call the requests
of its phase (`PendingFalls`; `OuterEdgesRpc` also changes which requests there
are, but only to fewer), the end of a round the rounds, the end of a phase the
phases, the end of a step the steps.

From query to answer. `ClusterAnswersQuery` puts the planner's meaning of a plan
and the execution's together: both speak of `Answer`. Plans of valid queries are
the plans the executor assumes, and graphs that conform to the schema have the
endpoints of their edges (`PlansAreFit`), so `AnswersAreExact` and
`PartialAnswersAreSound` apply to them, over any placement and with any
partitions missing. Its hypothesis `AllCarried` says that the questions are
planned, that all their conditions have a place in a plan and that they use no
alias twice; `Deployed` that there is a cluster at all.

From text to query. `TextsAreReadAsQueries` proves `PlansWhatItReads` for every
text, so `Planner`'s theorems hold of texts (`AnyTextIsPlannedAsMeant`). Each rule
of the grammar has a lemma of one form (`Takes`): where it matches it reads a
token at least, stays in the text and builds a value of its type. A rule that
repeats is a function defined by itself, so its lemma (`ManyTakes`) first shows
that such a function exists, from the end of the text backwards (`Backwards`),
which is where "a token at least" is needed: a repetition of an item that could
match nothing would not end. Nested WHERE clauses go by depth (`Forwards`,
`WhereReads`). Both are inductions by the least position or depth at which the
claim fails. That no literal is out of its type is `Fits`, the panic of the walk:
`PatternsInclude` shows that it looks into every NOT EXISTS the planner sees.
The hypothesis, `OneAlphabet`, is the grammar's: an alias, a label, an edge type
and a property name are the same identifiers, keywords included (`ident`), and
whatever the literal rules match stands for some literal. The run gives each
kind of name a set of its own, to keep its queries few.

Checked by TLC only. Liveness (`Terminates`, `CatchesUp`, `EveryQueryEnds`,
`ServesOnceTablesFit`), since TLAPS does not handle fairness here; of
`Terminates` the half that needs none is `StepsRunOut`. `ReadAsWritten`, which
compares what the grammar reads with `QueryAsText`, a recursive definition: that
the two agree on every query, not just that something of the right type is read,
is an induction over the structure of a query.

## 5. Not modelled, and the plan

Next, in this order:

1. One composition from query to result for TLC: `Planning`'s plan run by
   `ScatterGather`, its answer handed to `QueryResult`. `ClusterAnswersQuery`
   proves the first half of it.
2. The length of a frontier: bindings are sets here, while the code sends the
   duplicates that several walks to one node make.
3. Partial orders in `ORDER BY` (NaN), which need a value equal to all others.

Proof to add: from the answer of `ClusterAnswersQuery` to the rows of
`QueryResult`.

Outside the scope: generated protocol code, metrics and tracing, the viewer,
the sample programs and data sets, opening a catalog, and Iceberg itself, which
appears only as `Commit` and `Ingest`, `latest_snapshot` and scans that succeed
or fail. The characters of a query or a schema file (white space, comments,
escapes in strings) are outside too: no property here depends on them.
