---------------------------- MODULE QueryResult ----------------------------
(***************************************************************************)
(* What the coordinator does with the bindings a query's walk returned:    *)
(* hydrate what RETURN and ORDER BY name, sort, cut to LIMIT, project.     *)
(* The records are fetched by one RPC per partition, after the walk, from  *)
(* the generation each replica serves by then; replicas keep swapping.     *)
(***************************************************************************)
EXTENDS GraphIndex, SequencesExt

CONSTANTS
  Queries, Graphs,       \* the RETURN clauses and the graphs they read
  Matches(_, _),         \* what the walk found: graph, readable partitions
  Replica, Host,         \* replicas, and the partition each one serves
  NoReplica,             \* pick_replica found no healthy replica
  Whole,                 \* the property of a RETURN item that is a bare alias
  NoOrder, NoLimit,      \* a query without ORDER BY, without LIMIT
  NoKey,                 \* a row without a value to sort by
  MaxSwaps               \* swaps while one result is prepared

ReturnItem == [alias : Alias, prop : Property \cup {Whole}]
OrderBy == [alias : Alias, prop : Property, dir : {"asc", "desc"}]
ReturnClause == [items : SUBSET ReturnItem, order : OrderBy \cup {NoOrder},
                 limit : Nat \cup {NoLimit}]

ASSUME ResultAssumption ==
  /\ Queries \subseteq ReturnClause
  /\ \A g \in Graphs : IsGraph(g)
  /\ Host \in [Replica -> Partition]
  /\ NoReplica \notin Replica /\ Whole \notin Property
  /\ NoKey \notin Value /\ NoLimit \notin Nat
  /\ MaxSwaps \in Nat

\* A walk returns finitely many rows, and an alias is "exclusively a node alias
\* or an edge alias, fixed by the pattern" (service.rs:139-141).
ASSUME MatchesAssumption ==
  \A g \in Graphs, readable \in SUBSET Partition :
    LET rows == Matches(g, readable) IN
    /\ rows \subseteq Binding /\ IsFiniteSet(rows)
    /\ \A a \in Alias : \E kind \in {NodeId, EdgeId} :
         \A b \in rows : b[a] \in kind \cup {Unbound}

VARIABLES
  query,      \* RETURN, ORDER BY and LIMIT of the query
  route,      \* pick_replica's answer for each partition
  served,     \* the graph each replica's generation was built from
  seen,       \* the graphs each replica served since the hydration began
  swaps,      \* swaps so far
  phase,      \* which records are being fetched, or how the query ended
  bindings,   \* the rows: as the walk returned them, then as they are sent
  matched,    \* the bindings the walk returned
  asked,      \* the partitions this phase is done with
  records     \* <<id, properties>> fetched

cluster == <<query, route, matched>>
vars == <<query, route, served, seen, swaps, phase, bindings, matched, asked, records>>

Routed(p) == route[p] # NoReplica
Idx(p) == Build(Host[route[p]], served[route[p]])

----------------------------------------------------------------------------
(* What has to be fetched.                                                 *)

\* Mutant: an alias that only ORDER BY names is not hydrated.
ReturnedAliases == {item.alias : item \in query.items}

\* `project` and `order_by_aliases`.
NeededAliases ==
  {item.alias : item \in query.items} \cup
    (IF query.order = NoOrder THEN {} ELSE {query.order.alias})

\* alias_is_edge, read off the first binding that has the alias.
IsEdge(a) ==
  \E i \in DOMAIN bindings :
    /\ bindings[i][a] \in EdgeId
    /\ \A j \in 1 .. i - 1 : bindings[j][a] = Unbound

Needed(edges) ==
  {b[a] : b \in ToSet(bindings), a \in {c \in NeededAliases : IsEdge(c) = edges}}
    \ {Unbound}

Fetched == {h[1] : h \in records}

\* Mutant: an edge found is asked for again.
EveryEdge == Needed(TRUE)

\* get_edge_properties asks every partition for the edges not found yet.
Remaining == Needed(TRUE) \ Fetched

Pending ==
  CASE phase = "nodes" -> {p \in Partition : \E n \in Needed(FALSE) : Owner[n] = p} \ asked
    [] phase = "edges" -> IF Remaining = {} THEN {} ELSE Partition \ asked
    [] OTHER -> {}

----------------------------------------------------------------------------
(* Hydration.                                                              *)

NodesRpc(p) ==
  /\ phase = "nodes" /\ p \in Pending
  /\ asked' = asked \cup {p}
  /\ records' = records \cup
       (IF Routed(p)
        THEN NodeProperties(Idx(p), {n \in Needed(FALSE) : Owner[n] = p})
        ELSE {})
  /\ UNCHANGED <<cluster, served, seen, swaps, phase, bindings>>

EndNodes ==
  /\ phase = "nodes" /\ Pending = {}
  /\ phase' = "edges" /\ asked' = {}
  /\ UNCHANGED <<cluster, served, seen, swaps, bindings, records>>

EdgesRpc(p) ==
  /\ phase = "edges" /\ p \in Pending
  /\ asked' = asked \cup {p}
  /\ records' = records \cup
       (IF Routed(p) THEN EdgeProperties(Idx(p), Remaining) ELSE {})
  /\ UNCHANGED <<cluster, served, seen, swaps, phase, bindings>>

\* An RPC to a replica the map called healthy fails, and the query with it.
RpcFails ==
  /\ \E p \in Pending : Routed(p)
  /\ phase' = "failed"
  /\ UNCHANGED <<cluster, served, seen, swaps, bindings, asked, records>>

----------------------------------------------------------------------------
(* Sorting.                                                                *)

\* The value a row is sorted by, if its record was fetched and has one.
Key(b) ==
  LET values == {h[2][query.order.prop] : h \in {x \in records : x[1] = b[query.order.alias]}}
                  \cap Value
  IN IF values = {} THEN NoKey ELSE CHOOSE v \in values : TRUE

\* A row without a key compares as greater than any other.
Less(j, k) == j # NoKey /\ (k = NoKey \/ j < k)

\* The comparator of sort_bindings_by_property; DESC reverses all of it.
Before(b, c) ==
  IF query.order.dir = "asc" THEN Less(Key(b), Key(c)) ELSE Less(Key(c), Key(b))

\* sort_by is stable: equal rows stay in the order they came in.
Ahead(j, k) ==
  \/ Before(bindings[j], bindings[k])
  \/ j < k /\ ~ Before(bindings[k], bindings[j])

Place(k) == Cardinality({j \in DOMAIN bindings : Ahead(j, k)}) + 1

SortedRows ==
  [i \in DOMAIN bindings |-> bindings[CHOOSE k \in DOMAIN bindings : Place(k) = i]]

Truncated(rows) ==
  IF query.limit = NoLimit \/ query.limit >= Len(rows) THEN rows
  ELSE SubSeq(rows, 1, query.limit)

\* Mutant: the rows are cut before they are sorted.
FinishCutFirst ==
  /\ phase = "edges" /\ Pending = {}
  /\ phase' = "done"
  /\ LET cut == ToSet(Truncated(bindings))
         Kept(b) == b \in cut
     IN bindings' = IF query.order = NoOrder THEN Truncated(bindings)
                    ELSE SelectSeq(SortedRows, Kept)
  /\ UNCHANGED <<cluster, served, seen, swaps, asked, records>>

Finish ==
  /\ phase = "edges" /\ Pending = {}
  /\ phase' = "done"
  /\ bindings' = Truncated(IF query.order = NoOrder THEN bindings ELSE SortedRows)
  /\ UNCHANGED <<cluster, served, seen, swaps, asked, records>>

\* The QueryResult of a row: for each RETURN item, the id of a bare alias and
\* the properties known of it, or the one property named.
Projection(b) ==
  {[item |-> i, prop |-> Whole, val |-> b[i.alias]] :
     i \in {x \in query.items : x.prop = Whole /\ b[x.alias] # Unbound}}
  \cup
  {c \in [item : query.items, prop : Property, val : Value] :
     /\ c.item.prop \in {Whole, c.prop}
     /\ \E h \in records : h[1] = b[c.item.alias] /\ h[2][c.prop] = c.val}

----------------------------------------------------------------------------

\* GenerationHandle::swap at replica r.
Swap(r, g) ==
  /\ phase \in {"nodes", "edges"}
  /\ swaps < MaxSwaps
  /\ g # served[r]
  /\ served' = [served EXCEPT ![r] = g]
  /\ seen' = [seen EXCEPT ![r] = @ \cup {g}]
  /\ swaps' = swaps + 1
  /\ UNCHANGED <<cluster, phase, bindings, asked, records>>

\* The walk returned its bindings, in whatever order hash maps gave them.
Init ==
  /\ query \in Queries
  /\ route \in [Partition -> Replica \cup {NoReplica}]
  /\ \A p \in Partition : Routed(p) => Host[route[p]] = p
  /\ \E g \in Graphs :
       /\ served = [r \in Replica |-> g]
       /\ matched = Matches(g, {p \in Partition : Routed(p)})
  /\ bindings \in SetToSeqs(matched)
  /\ seen = [r \in Replica |-> {served[r]}] /\ swaps = 0
  /\ phase = "nodes" /\ asked = {} /\ records = {}

Next ==
  \/ \E p \in Partition : NodesRpc(p) \/ EdgesRpc(p)
  \/ EndNodes \/ Finish \/ RpcFails
  \/ \E r \in Replica, g \in Graphs : Swap(r, g)

Spec == Init /\ [][Next]_vars

----------------------------------------------------------------------------
(* Correctness.                                                            *)

TypeOK ==
  /\ query \in Queries
  /\ route \in [Partition -> Replica \cup {NoReplica}]
  /\ served \in [Replica -> Graphs]
  /\ seen \in [Replica -> SUBSET Graphs]
  /\ swaps \in 0 .. MaxSwaps
  /\ phase \in {"nodes", "edges", "done", "failed"}
  /\ matched \subseteq Binding
  /\ bindings \in Seq(matched)
  /\ asked \subseteq Partition
  /\ records \subseteq (NodeId \cup EdgeId) \X Props

\* The rows sent are the best of all rows found: as many as LIMIT allows, none
\* twice, and no row that has a key is left out, or sent later, in favour of
\* one whose key the direction ranks after it.
BestFirst ==
  phase = "done" =>
    /\ IsInjective(bindings)
    /\ Len(bindings) = IF query.limit = NoLimit \/ query.limit > Cardinality(matched)
                       THEN Cardinality(matched) ELSE query.limit
    /\ query.order # NoOrder =>
         \A i \in DOMAIN bindings :
           \A b \in matched \ ToSet(SubSeq(bindings, 1, i)) :
             NoKey \notin {Key(b), Key(bindings[i])} => ~ Before(b, bindings[i])

\* Rows that show the same node or edge show the same properties of it,
\* whatever generations answered and wherever an edge moved meanwhile.
SameIdSameProperties ==
  phase = "done" =>
    \A b, c \in ToSet(bindings) :
      \A s \in Projection(b), t \in Projection(c) :
        /\ b[s.item.alias] = c[t.item.alias]
        /\ s.prop = t.prop
        => s.val = t.val

AllSeen == UNION {seen[r] : r \in Replica}

\* The partition that keeps the record of a row.
Keeper(t, id, g) == IF t = "node" THEN Owner[id] ELSE Owner[g.edge[id].src]

\* A row that no swap touched is shown, or sorted by, as it is in the graph,
\* unless nobody serves its partition: no reordering of the RPCs, no edge
\* found early and no alias that only ORDER BY names hides it.
UntouchedRecordsAreFetched ==
  phase = "done" =>
    \A b \in matched : \A t \in {"node", "edge"} :
      \A id \in {b[o.alias] : o \in query.items \cup ({query.order} \ {NoOrder})} :
        \A g \in AllSeen :
          /\ \A h \in AllSeen : id \in DOMAIN h[t] /\ h[t][id] = g[t][id]
          /\ Routed(Keeper(t, id, g))
          => <<id, Wire(g[t][id].props)>> \in records

----------------------------------------------------------------------------
(* What the repository says and the code does not do.                      *)

\* "une propriete optionnelle absente [...] ou un alias qui ne resout [...]
\* sur aucune valeur trie toujours en dernier, quelle que soit la direction -
\* convention NULLS LAST" (TASKS.md:672-675).
NullsLast ==
  phase = "done" /\ query.order # NoOrder =>
    \A i, j \in DOMAIN bindings :
      i < j /\ Key(bindings[i]) = NoKey => Key(bindings[j]) = NoKey

=============================================================================
