-------------------------- MODULE PartitionClients --------------------------
(***************************************************************************)
(* The coordinator's way to the partitions: the map of replicas a query    *)
(* reads once, the cache of connections all queries share behind one lock, *)
(* and the calls.  The processes behind the addresses come and go: a pod   *)
(* is given an address, listens, dies, is deleted, and its address may be  *)
(* given to another pod, of another partition.                             *)
(*                                                                         *)
(* A query is one phase of the scatter-gather executor: every partition is *)
(* asked once, in any order, with the map read at the start.  Of an answer *)
(* the module keeps whether the process that gave it serves the partition  *)
(* it was asked for.                                                       *)
(*                                                                         *)
(* Left out: a host that vanishes without closing its connections; neither *)
(* the connection nor the calls have a timeout, so such a call never ends. *)
(***************************************************************************)
EXTENDS Integers, FiniteSetsExt, SequencesExt

CONSTANTS
  Partition,       \* 0 .. n_partitions - 1
  Pod, Address,
  Query,           \* the requests the coordinator handles at once
  Free,            \* nobody holds the lock
  ConfiguredFor,   \* a pod's GRAPH_PARTITION_ID
  Annotations,     \* the values graph.io/partitions may take
  Discoveries,     \* "kubernetes", or the entries of GRAPH_PARTITION_NODE_ADDRS
  InitialPods,     \* the clusters a coordinator may start in
  MaxChanges       \* bound on the changes of the cluster

Kubernetes == <<"kubernetes">>
PodRecord == [address : Address, annotated : SUBSET Partition, up : BOOLEAN, ready : BOOLEAN]

ASSUME ClusterAssumption ==
  /\ Partition \subseteq Nat /\ Free \notin Query /\ MaxChanges \in Nat
  /\ ConfiguredFor \in [Pod -> Partition]
  /\ Annotations \subseteq SUBSET Partition
  /\ \A d \in Discoveries : d = Kubernetes \/ d \in Seq(Partition \X Address)
  /\ \A ps \in InitialPods :
       /\ DOMAIN ps \subseteq Pod /\ \A n \in DOMAIN ps : ps[n] \in PodRecord
       /\ \A m, n \in DOMAIN ps : ps[m].address = ps[n].address => m = n

VARIABLES
  discovery,       \* how the coordinator was configured
  pods,            \* the pods that have an address
  changes,         \* how often the cluster has changed
  clients,         \* GrpcPartitionRpc::clients: the addresses with a client
  dialed,          \* history: connections made for the cache, per address
  owner, waiters,  \* the lock around clients; tokio's is first come, first served
  query            \* the handlers: a query, or a get_index_status

cluster == <<discovery, pods, changes>>
lock    == <<owner, waiters>>
vars    == <<cluster, clients, dialed, lock, query>>

----------------------------------------------------------------------------
(* The map of the replicas.                                                *)

Endpoint == [address : Address, healthy : BOOLEAN]
Map == [Partition -> SUBSET Endpoint]

\* The addresses given for a partition end up in one HashMap: the last wins.
StaticMap(entries) ==
  [p \in Partition |->
     LET at == {i \in DOMAIN entries : entries[i][1] = p}
     IN IF at = {} THEN {} ELSE {[address |-> entries[Max(at)][2], healthy |-> TRUE]}]

\* Mutant: every pod with an address is a healthy replica.
PodsMapUnready ==
  [p \in Partition |->
     {[address |-> pods[n].address, healthy |-> TRUE] :
        n \in {m \in DOMAIN pods : p \in pods[m].annotated}}]

PodsMap ==
  [p \in Partition |->
     {[address |-> pods[n].address, healthy |-> pods[n].ready] :
        n \in {m \in DOMAIN pods : p \in pods[m].annotated}}]

CurrentMap == IF discovery = Kubernetes THEN PodsMap ELSE StaticMap(discovery)

\* PartitionMap::healthy_replicas, for every partition.
Routes == [p \in Partition |-> {e.address : e \in {f \in CurrentMap[p] : f.healthy}}]

Discovered == {p \in Partition : CurrentMap[p] # {}}

\* The process that listens at an address, and the partition it serves.
At(a) == {n \in DOMAIN pods : pods[n].address = a /\ pods[n].up}
Listens(a) == At(a) # {}
Served(a) == ConfiguredFor[CHOOSE n \in At(a) : TRUE]

\* What the map is made from is right: every ready pod listens and serves
\* what its annotation says; behind each address given is its partition.
MapIsRight ==
  IF discovery = Kubernetes
  THEN \A n \in DOMAIN pods :
         pods[n].ready => pods[n].up /\ pods[n].annotated = {ConfiguredFor[n]}
  ELSE \A p \in Partition : \A e \in StaticMap(discovery)[p] :
         Listens(e.address) /\ Served(e.address) = p

----------------------------------------------------------------------------
(* The cluster.                                                            *)

Changes ==
  /\ changes < MaxChanges /\ changes' = changes + 1
  /\ query' = [q \in Query |-> [query[q] EXCEPT !.current = FALSE]]
  /\ UNCHANGED <<discovery, clients, dialed, lock>>

Schedule(n, a, s) ==
  /\ n \notin DOMAIN pods /\ \A m \in DOMAIN pods : pods[m].address # a
  /\ pods' = [m \in DOMAIN pods \cup {n} |->
                IF m = n THEN [address |-> a, annotated |-> s, up |-> FALSE, ready |-> FALSE]
                ELSE pods[m]]
  /\ Changes

Listen(n) == ~ pods[n].up /\ pods' = [pods EXCEPT ![n].up = TRUE] /\ Changes
Die(n)    ==   pods[n].up /\ pods' = [pods EXCEPT ![n].up = FALSE] /\ Changes

\* The readiness probe sees what changed, later.
Probe(n) ==
  /\ pods[n].ready # pods[n].up
  /\ pods' = [pods EXCEPT ![n].ready = pods[n].up]
  /\ Changes

Annotate(n, s) == pods[n].annotated # s /\ pods' = [pods EXCEPT ![n].annotated = s] /\ Changes

Delete(n) == pods' = [m \in DOMAIN pods \ {n} |-> pods[m]] /\ Changes

ClusterChanges ==
  \/ \E n \in Pod, a \in Address, s \in Annotations : Schedule(n, a, s)
  \/ \E n \in DOMAIN pods :
       \/ Listen(n) \/ Die(n) \/ Probe(n) \/ Delete(n)
       \/ \E s \in Annotations : Annotate(n, s)

----------------------------------------------------------------------------
(* A query.                                                                *)

Ended == {"idle", "done", "failed"}
NeedsClient == {"waiting", "connecting", "calling"}
Stage == Ended \cup NeedsClient \cup {"asking", "relaying"}

\* History: misled, an answer for a partition came from a process that
\* serves another; current, the map was right when it was read and the
\* cluster has not changed since.
Handler ==
  [stage : Stage, routes : [Partition -> SUBSET Address], todo : SUBSET Partition,
   target : {<<>>} \cup (Partition \X Address), misled : BOOLEAN, current : BOOLEAN]

NoRoutes == [p \in Partition |-> {}]
Idle ==
  [stage |-> "idle", routes |-> NoRoutes, todo |-> {}, target |-> <<>>, misled |-> FALSE,
   current |-> FALSE]

\* A handler that has ended has let go of its map.
Ends(h, stage) == [h EXCEPT !.stage = stage, !.routes = NoRoutes, !.todo = {}, !.target = <<>>]

StageOf(q) == query[q].stage
Partner(q) == query[q].target[1]
Target(q)  == query[q].target[2]
Moves(q, stage) == query' = [query EXCEPT ![q].stage = stage]
Stops(q, stage) == query' = [query EXCEPT ![q] = Ends(@, stage)]

\* Dropping the guard hands the lock to the next in line.
Release ==
  IF waiters = <<>> THEN owner' = Free /\ UNCHANGED waiters
  ELSE owner' = Head(waiters) /\ waiters' = Tail(waiters)

ReadMap(q) ==
  /\ StageOf(q) \in Ended
  /\ query' = [query EXCEPT ![q] =
                 [Idle EXCEPT !.stage = "asking", !.routes = Routes, !.todo = Partition,
                              !.current = MapIsRight]]
  /\ UNCHANGED <<cluster, clients, dialed, lock>>

\* The Kubernetes API fails; a static map cannot.
NoMapRead(q) ==
  /\ StageOf(q) \in Ended /\ discovery = Kubernetes
  /\ query' = [query EXCEPT ![q] = Ends(Idle, "failed")]
  /\ UNCHANGED <<cluster, clients, dialed, lock>>

Skip(q, p) ==
  /\ StageOf(q) = "asking" /\ p \in query[q].todo /\ query[q].routes[p] = {}
  /\ query' = [query EXCEPT ![q].todo = @ \ {p}]
  /\ UNCHANGED <<cluster, clients, dialed, lock>>

\* pick_replica takes the first healthy replica, in the order of the pods'
\* list; then `self.clients.lock().await`.
Pick(q, p) ==
  /\ StageOf(q) = "asking" /\ p \in query[q].todo
  /\ \E a \in query[q].routes[p] :
       query' = [query EXCEPT ![q].stage = "waiting", ![q].target = <<p, a>>]
  /\ IF owner = Free THEN owner' = q /\ UNCHANGED waiters
     ELSE waiters' = Append(waiters, q) /\ UNCHANGED owner
  /\ UNCHANGED <<cluster, clients, dialed>>

Hit(q) ==
  /\ StageOf(q) = "waiting" /\ owner = q /\ Target(q) \in clients
  /\ Moves(q, "calling") /\ Release
  /\ UNCHANGED <<cluster, clients, dialed>>

\* Mutant: the lock is not held while the connection is made.
DialUnlocked(q) ==
  /\ StageOf(q) = "waiting" /\ owner = q /\ Target(q) \notin clients
  /\ Moves(q, "connecting") /\ Release
  /\ UNCHANGED <<cluster, clients, dialed>>

Dial(q) ==
  /\ StageOf(q) = "waiting" /\ owner = q /\ Target(q) \notin clients
  /\ Moves(q, "connecting")
  /\ UNCHANGED <<cluster, clients, dialed, lock>>

Connected(q) ==
  /\ StageOf(q) = "connecting" /\ Listens(Target(q))
  /\ clients' = clients \cup {Target(q)}
  /\ dialed' = [dialed EXCEPT ![Target(q)] = @ + 1]
  /\ Moves(q, "calling") /\ Release
  /\ UNCHANGED <<cluster>>

\* Mutant: the error path keeps the lock.
RefusedLocked(q) ==
  /\ StageOf(q) = "connecting" /\ ~ Listens(Target(q))
  /\ Stops(q, "failed")
  /\ UNCHANGED <<cluster, clients, dialed, lock>>

\* `?` after connect: the guard is dropped, nothing is cached, the query fails.
Refused(q) ==
  /\ StageOf(q) = "connecting" /\ ~ Listens(Target(q))
  /\ Stops(q, "failed") /\ Release
  /\ UNCHANGED <<cluster, clients, dialed>>

\* Mutant: the partition answered for stays on the list.
AnsweredAgain(q) ==
  /\ StageOf(q) = "calling" /\ Listens(Target(q)) /\ Moves(q, "asking")
  /\ UNCHANGED <<cluster, clients, dialed, lock>>

\* A cached channel connects again by itself: a call reaches whoever
\* listens at the address now.
Answered(q) ==
  /\ StageOf(q) = "calling" /\ Listens(Target(q))
  /\ query' = [query EXCEPT ![q].stage = "asking", ![q].todo = @ \ {Partner(q)},
                 ![q].target = <<>>, ![q].misled = @ \/ Served(Target(q)) # Partner(q)]
  /\ UNCHANGED <<cluster, clients, dialed, lock>>

CallFails(q) ==
  /\ StageOf(q) = "calling" /\ ~ Listens(Target(q))
  /\ Stops(q, "failed")
  /\ UNCHANGED <<cluster, clients, dialed, lock>>

Finish(q) ==
  /\ StageOf(q) = "asking" /\ query[q].todo = {}
  /\ Stops(q, "done")
  /\ UNCHANGED <<cluster, clients, dialed, lock>>

\* The caller goes away and tonic drops the handler, wherever it waits.
Cancel(q) ==
  /\ StageOf(q) \in NeedsClient
  /\ query' = [query EXCEPT ![q] = Idle]
  /\ IF owner = q THEN Release
     ELSE waiters' = RemoveFirst(waiters, q) /\ UNCHANGED owner
  /\ UNCHANGED <<cluster, clients, dialed>>

----------------------------------------------------------------------------
(* get_index_status: the least partition discovered, over a connection of  *)
(* its own.                                                                *)

StatusTargets ==
  LET least == {p \in Discovered : \A o \in Discovered : p <= o} IN
  {<<p, a>> : p \in least, a \in UNION {Routes[p] : p \in least}}

ReadStatusMap(q) ==
  /\ StageOf(q) \in Ended
  /\ \E t \in StatusTargets :
       query' = [query EXCEPT ![q] = [Idle EXCEPT !.stage = "relaying", !.target = t,
                                                  !.current = MapIsRight]]
  /\ UNCHANGED <<cluster, clients, dialed, lock>>

\* No partition is discovered, or the least one has no healthy replica.
NoStatus(q) ==
  /\ StageOf(q) \in Ended /\ StatusTargets = {}
  /\ query' = [query EXCEPT ![q] = Ends(Idle, "failed")]
  /\ UNCHANGED <<cluster, clients, dialed, lock>>

RelayStatus(q) ==
  /\ StageOf(q) = "relaying"
  /\ \/ /\ Listens(Target(q))
        /\ query' = [query EXCEPT ![q] =
                       [Ends(@, "done") EXCEPT !.misled = Served(Target(q)) # Partner(q)]]
     \/ ~ Listens(Target(q)) /\ Stops(q, "failed")
  /\ UNCHANGED <<cluster, clients, dialed, lock>>

----------------------------------------------------------------------------

Init ==
  /\ discovery \in Discoveries /\ pods \in InitialPods /\ changes = 0
  /\ clients = {} /\ dialed = [a \in Address |-> 0]
  /\ owner = Free /\ waiters = <<>>
  /\ query = [q \in Query |-> Idle]

Begins(q)   == ReadMap(q) \/ NoMapRead(q) \/ ReadStatusMap(q) \/ NoStatus(q)
Proceeds(q) ==
  \/ \E p \in Partition : Skip(q, p) \/ Pick(q, p)
  \/ Hit(q) \/ Dial(q) \/ Connected(q) \/ Refused(q)
  \/ Answered(q) \/ CallFails(q) \/ Finish(q)
  \/ RelayStatus(q)

Next ==
  \/ ClusterChanges
  \/ \E q \in Query : Begins(q) \/ Proceeds(q) \/ Cancel(q)

\* The runtime polls every ready future, and a connection or a call is
\* answered or refused.  Nobody is obliged to send another query.
Fairness == \A q \in Query : WF_vars(Proceeds(q))

Spec == Init /\ [][Next]_vars /\ Fairness

----------------------------------------------------------------------------
(* Properties.                                                             *)

\* Every variable has its type; in particular a query knows its target
\* exactly while it needs a client (client and the RPC wrappers).
TypeOK ==
  /\ discovery \in Discoveries
  /\ DOMAIN pods \subseteq Pod /\ \A n \in DOMAIN pods : pods[n] \in PodRecord
  /\ changes \in 0 .. MaxChanges
  /\ clients \subseteq Address /\ dialed \in [Address -> Nat]
  /\ owner \in Query \cup {Free} /\ waiters \in Seq(Query)
  /\ query \in [Query -> Handler]
  /\ \A q \in Query : (StageOf(q) \in NeedsClient \cup {"relaying"}) <=> (query[q].target # <<>>)

\* However many queries need a replica at once, at most one connection to
\* its address is made in the life of the coordinator: the lock is held from
\* the look-up to the insertion, over the await between them
\* (grpc_partition_rpc.rs:56-87).
OneConnectionPerAddress == \A a \in Address : dialed[a] <= 1

\* A query whose map was right when it was read, in a cluster that has not
\* changed since, does not fail and hears each partition from a process that
\* serves it, whatever the cache kept from the cluster's past: connections
\* are found by address, a failed one is not kept, and one that outlived its
\* process leads to whoever listens there now.  So does get_index_status.
CurrentMapAnswers ==
  \A q \in Query :
    query[q].current => StageOf(q) # "failed" /\ ~ query[q].misled

\* Every query ends: the queue for the lock is served in order, and every
\* way out of the locked section hands the lock on (client).
EveryQueryEnds == \A q \in Query : (StageOf(q) \notin Ended) ~> (StageOf(q) \in Ended)

=============================================================================
