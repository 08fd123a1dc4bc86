----------------------------- MODULE GraphIndex -----------------------------
(***************************************************************************)
(* One partition's index generation: what IcebergIndexBuilder keeps of the *)
(* tables it scanned, and what SimpleLocalExecutor answers from it.        *)
(*                                                                         *)
(* A node belongs to the partition its id hashes to; its outgoing and its  *)
(* incoming adjacency live there.  The far end of an adjacency entry is a  *)
(* local node, a RemoteRef, or neither.                                    *)
(***************************************************************************)
EXTENDS PropertyGraph

CONSTANTS
  Partition,     \* the logical partitions 0 .. n_partitions - 1
  Owner          \* partition_of: the partition a node id hashes to

ASSUME OwnerAssumption == Owner \in [NodeId -> Partition]

----------------------------------------------------------------------------
(* Building.                                                               *)

Owned(p, g) == {n \in DOMAIN g.node : Owner[n] = p}

\* One AdjacencyEntry.  dst_local and dst_remote are options: a set of at
\* most one node.  A missing node that hashes to p itself yields neither.
Entry(p, g, e, dir) ==
  LET far == Far(g.edge[e], dir) IN
  [edge       |-> e,
   type       |-> g.edge[e].type,
   dst_local  |-> {far} \cap Owned(p, g),
   dst_remote |-> IF far \notin Owned(p, g) /\ Owner[far] # p THEN {far} ELSE {}]

BuildCsr(p, g, dir) ==
  [n \in Owned(p, g) |->
     {Entry(p, g, e, dir) :
        e \in {f \in DOMAIN g.edge : Near(g.edge[f], dir) = n}}]

\* Mutant: an edge's record lives with its destination.
EdgeRecordsByDst(p, g) == {e \in DOMAIN g.edge : Owner[g.edge[e].dst] = p}

\* An edge's record lives with the partition that owns its source.
EdgeRecords(p, g) == {e \in DOMAIN g.edge : Owner[g.edge[e].src] = p}

Build(p, g) ==
  [node_records |-> [n \in Owned(p, g) |-> g.node[n]],
   edge_records |-> [e \in EdgeRecords(p, g) |-> g.edge[e].props],
   adjacency    |-> [dir \in Direction |-> BuildCsr(p, g, dir)]]

----------------------------------------------------------------------------
(* Reading: TopologicalIndex::neighbors and PropertyIndex::lookup_eq.      *)

Neighbors(idx, n, dir) ==
  IF n \in DOMAIN idx.adjacency[dir] THEN idx.adjacency[dir][n] ELSE {}

LookupEq(idx, label, prop, key) ==
  {n \in DOMAIN idx.node_records :
     /\ <<label, prop>> \in Indexed
     /\ idx.node_records[n].label = label
     /\ idx.node_records[n].props[prop] = key}

----------------------------------------------------------------------------
(* SimpleLocalExecutor: each operation reads the one generation its RPC    *)
(* acquired.                                                               *)

\* resolve_start and resolve_all
Resolve(idx, s) ==
  LET found == IF s.kind = "start"
               THEN LookupEq(idx, s.label, s.prop, s.key)
               ELSE {n \in DOMAIN idx.node_records :
                       idx.node_records[n].label = s.label}
  IN {FromNode(s.to, n) : n \in found}

\* Mutant: an entry that leads to another partition is skipped.
ExpandHopLocalOnly(idx, s, from, edge, b) ==
  UNION {{Extend(b, s.to, n, edge, entry.edge) : n \in entry.dst_local} :
         entry \in {x \in Neighbors(idx, b[from], s.dir) :
                      TypeMatches(s.type, x.type)}}

\* expand_hop for one binding and one physical hop: a local neighbour and a
\* RemoteRef both come back bound to s.to (the wire merges the two lists).
ExpandHop(idx, s, from, edge, b) ==
  UNION {{Extend(b, s.to, n, edge, entry.edge) :
            n \in entry.dst_local \cup entry.dst_remote} :
         entry \in {x \in Neighbors(idx, b[from], s.dir) :
                      TypeMatches(s.type, x.type)}}

\* lookup_range, for the operators an index answers.  Keys are compared as
\* values are.
LookupRange(idx, label, f) ==
  {n \in DOMAIN idx.node_records :
     /\ <<label, f.prop>> \in Indexed
     /\ idx.node_records[n].label = label
     /\ Holds(idx.node_records[n].props, f)}

\* apply_filters fails on `<>`, which the index does not answer.
Answerable(s) == \A f \in s.filters : f.op # "ne"

ApplyFilters(idx, s, label, B) ==
  {b \in B : \A f \in s.filters : b[s.to] \in LookupRange(idx, label, f)}

\* The entries a walk can take away from the nodes ns.
Onward(idx, s, ns) ==
  {x \in UNION {Neighbors(idx, n, s.dir) : n \in ns} : TypeMatches(s.type, x.type)}

\* Mutant: a walk does not come back to a node.
LevelsVisitedOnce(idx, s, start) ==
  LET level[d \in 0 .. s.max] ==
        IF d = 0 THEN {start}
        ELSE UNION {x.dst_local : x \in Onward(idx, s, level[d - 1])}
               \ UNION {level[c] : c \in 0 .. d - 1}
  IN level

\* The local nodes d edges away from start, for every d up to the maximum.
Levels(idx, s, start) ==
  LET level[d \in 0 .. s.max] ==
        IF d = 0 THEN {start} ELSE UNION {x.dst_local : x \in Onward(idx, s, level[d - 1])}
  IN level

\* expand_hop for one binding with all its hops and filters in one call, as a
\* partition that holds the whole graph can be asked.  A way out of the
\* partition is handed back wherever it is met, below the minimum too, and
\* without the filters.
ExpandHops(idx, s, label, b) ==
  LET level == Levels(idx, s, b[s.from])
      taken == UNION {Onward(idx, s, level[d]) : d \in 0 .. s.max - 1}
      Over(x, ns) == {Extend(b, s.to, n, s.edge, x.edge) : n \in ns}
      local == IF s.edge # NoAlias THEN UNION {Over(x, x.dst_local) : x \in taken}
               ELSE {[b EXCEPT ![s.to] = n] :
                       n \in UNION {level[d] : d \in {c \in 1 .. s.max : c >= s.min}}}
  IN [local  |-> ApplyFilters(idx, s, label, local),
      remote |-> UNION {Over(x, x.dst_remote) : x \in taken}]

\* check_anti_join for one binding: no edge from the one node to the other
\* whose record satisfies every condition.
Survives(idx, s, conditions, b) ==
  ~ \E entry \in Neighbors(idx, b[s.from], s.dir) :
      /\ TypeMatches(s.type, entry.type)
      /\ b[s.to] \in entry.dst_local \cup entry.dst_remote
      /\ entry.edge \in DOMAIN idx.edge_records
      /\ AllHold(idx.edge_records[entry.edge], conditions)

\* property_value_to_proto: a value without a wire representation is dropped
\* from the record sent.
Wire(props) ==
  [q \in Property |-> IF props[q] = Opaque THEN Missing ELSE props[q]]

\* Mutant: an edge this generation does not know has an empty record.
EdgePropertiesOrNone(idx, ids) ==
  {<<e, IF e \in DOMAIN idx.edge_records THEN Wire(idx.edge_records[e]) ELSE Missing>> :
     e \in ids}

\* get_node_properties and get_edge_properties: <<id, properties>> for the
\* ids this generation knows, the others skipped.
NodeProperties(idx, ids) ==
  {<<n, Wire(idx.node_records[n].props)>> : n \in ids \cap DOMAIN idx.node_records}
EdgeProperties(idx, ids) ==
  {<<e, Wire(idx.edge_records[e])>> : e \in ids \cap DOMAIN idx.edge_records}

=============================================================================
