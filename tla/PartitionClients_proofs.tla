----------------------- MODULE PartitionClients_proofs -----------------------
(***************************************************************************)
(* Proofs about PartitionClients, for any number of queries, partitions,   *)
(* pods and addresses: the cache makes one connection per address; a query *)
(* whose map is right and whose cluster stands still is answered, by the   *)
(* right processes, whatever the cache kept; and every variable keeps its  *)
(* type.                                                                   *)
(***************************************************************************)
EXTENDS PartitionClients, SequenceTheorems, WellFoundedInduction, TLAPS

----------------------------------------------------------------------------
(* One connection per address.                                             *)

\* The argument: only the owner of the lock is ever connecting, its target
\* has no client yet, and each address with a client was dialled once.
OwnerDials ==
  \A q \in Query : StageOf(q) = "connecting" => owner = q /\ Target(q) \notin clients

DialedOnce ==
  \A a \in Address : dialed[a] = IF a \in clients THEN 1 ELSE 0

\* As much of the types as the argument needs.
HasStage(h) == "stage" \in DOMAIN h /\ "target" \in DOMAIN h
Typed ==
  /\ dialed \in [Address -> Nat]
  /\ query = [q \in Query |-> query[q]] /\ \A q \in Query : HasStage(query[q])

IInv == Typed /\ OwnerDials /\ DialedOnce

\* A step that changes the handler of q alone.
Touches(q) ==
  /\ query' = [r \in Query |-> query'[r]] /\ HasStage(query'[q])
  /\ \A r \in Query \ {q} : query'[r] = query[r]

----------------------------------------------------------------------------
(* What the updates of a handler keep.                                     *)

LEMMA Moved ==
  ASSUME Typed, NEW q \in Query, NEW s, Moves(q, s)
  PROVE  Touches(q) /\ query'[q].stage = s /\ query'[q].target = query[q].target
<1>1. query' = [query EXCEPT ![q].stage = s] BY DEF Moves
<1>2. query'[q] = [query[q] EXCEPT !.stage = s] BY <1>1 DEF Typed
<1>3. HasStage(query[q]) BY DEF Typed
<1>4. \A r \in Query \ {q} : query'[r] = query[r] BY <1>1 DEF Typed
<1>5. query' = [r \in Query |-> query'[r]] BY <1>1 DEF Typed
<1>6. QED BY <1>2, <1>3, <1>4, <1>5 DEF Touches, HasStage

LEMMA Replaced ==
  ASSUME Typed, NEW q \in Query, NEW h, HasStage(h), query' = [query EXCEPT ![q] = h]
  PROVE  Touches(q) /\ query'[q].stage = h.stage
BY DEF Touches, Typed

LEMMA Stopped ==
  ASSUME Typed, NEW q \in Query, NEW s, Stops(q, s)
  PROVE  Touches(q) /\ query'[q].stage = s
<1> DEFINE h == Ends(query[q], s)
<1>1. HasStage(query[q]) BY DEF Typed
<1>2. HasStage(h) /\ h.stage = s BY <1>1 DEF Ends, HasStage
<1>3. query' = [query EXCEPT ![q] = h] BY DEF Stops, Typed
<1> HIDE DEF h
<1>4. QED BY <1>2, <1>3, Replaced

LEMMA TouchedTyped ==
  ASSUME Typed, NEW q \in Query, Touches(q), dialed' \in [Address -> Nat]
  PROVE  Typed'
BY DEF Typed, Touches

----------------------------------------------------------------------------
(* The two ways a step leaves nobody newly connecting.                     *)

\* q does not connect, and cache and lock are left alone.
LEMMA QuietMove ==
  ASSUME IInv, UNCHANGED <<clients, dialed, owner>>, NEW q \in Query, Touches(q),
         query'[q].stage # "connecting"
  PROVE  IInv'
<1>1. Typed' BY TouchedTyped DEF IInv, Typed
<1>2. ASSUME NEW r \in Query, query'[r].stage = "connecting" PROVE query'[r] = query[r]
  BY <1>2 DEF Touches
<1>3. OwnerDials' BY <1>2 DEF OwnerDials, IInv, StageOf, Target
<1>4. DialedOnce' BY DEF IInv, DialedOnce
<1>5. QED BY <1>1, <1>3, <1>4 DEF IInv

\* The owner leaves the locked section: whoever owns the lock next is not
\* connecting, because only the owner was.
LEMMA NobodyConnects ==
  ASSUME IInv, NEW q \in Query, owner = q, Touches(q), query'[q].stage # "connecting"
  PROVE  OwnerDials'
<1>1. ASSUME NEW r \in Query, query'[r].stage = "connecting" PROVE FALSE
  <2>1. r # q /\ query'[r] = query[r] BY <1>1 DEF Touches
  <2>2. QED BY <1>1, <2>1 DEF IInv, OwnerDials, StageOf
<1>2. QED BY <1>1 DEF OwnerDials, StageOf

LEMMA LeavingTheLock ==
  ASSUME IInv, UNCHANGED <<clients, dialed>>, NEW q \in Query, owner = q, Touches(q),
         query'[q].stage # "connecting"
  PROVE  IInv'
<1>1. Typed' BY TouchedTyped DEF IInv, Typed
<1>2. OwnerDials' BY NobodyConnects
<1>3. DialedOnce' BY DEF IInv, DialedOnce
<1>4. QED BY <1>1, <1>2, <1>3 DEF IInv

----------------------------------------------------------------------------
(* One lemma per action, or per kind of action.                            *)

LEMMA ClusterStep == ASSUME IInv, ClusterChanges PROVE IInv'
<1>1. Changes
  BY DEF ClusterChanges, Schedule, Listen, Die, Probe, Annotate, Delete
<1>2. UNCHANGED <<clients, dialed, owner>> BY <1>1 DEF Changes, lock
<1>3. query' = [q \in Query |-> [query[q] EXCEPT !.current = FALSE]] BY <1>1 DEF Changes
<1>4. ASSUME NEW q \in Query
      PROVE  /\ HasStage(query'[q])
             /\ query'[q].stage = query[q].stage /\ query'[q].target = query[q].target
  <2>1. HasStage(query[q]) BY DEF IInv, Typed
  <2>2. query'[q] = [query[q] EXCEPT !.current = FALSE] BY <1>3
  <2>3. QED BY <2>1, <2>2 DEF HasStage
<1>5. Typed' BY <1>2, <1>3, <1>4 DEF IInv, Typed
<1>6. OwnerDials' BY <1>2, <1>4 DEF IInv, OwnerDials, StageOf, Target
<1>7. DialedOnce' BY <1>2 DEF IInv, DialedOnce
<1>8. QED BY <1>5, <1>6, <1>7 DEF IInv

LEMMA BeginsStep == ASSUME IInv, NEW q \in Query, Begins(q) PROVE IInv'
<1>1. UNCHANGED <<clients, dialed, owner>>
  BY DEF Begins, ReadMap, NoMapRead, ReadStatusMap, NoStatus, lock
<1>2. ASSUME NEW h, HasStage(h), h.stage # "connecting", query' = [query EXCEPT ![q] = h]
      PROVE  Touches(q) /\ query'[q].stage # "connecting"
  BY <1>2, Replaced DEF IInv
<1>3. Touches(q) /\ query'[q].stage # "connecting"
  <2>1. CASE ReadMap(q)
    <3> DEFINE h == [Idle EXCEPT !.stage = "asking", !.routes = Routes, !.todo = Partition,
                                 !.current = MapIsRight]
    <3>1. HasStage(h) /\ h.stage # "connecting" BY DEF Idle, HasStage
    <3>2. query' = [query EXCEPT ![q] = h] BY <2>1 DEF ReadMap
    <3> HIDE DEF h
    <3>3. QED BY <1>2, <3>1, <3>2
  <2>2. CASE NoMapRead(q) \/ NoStatus(q)
    <3> DEFINE h == Ends(Idle, "failed")
    <3>1. HasStage(h) /\ h.stage # "connecting" BY DEF Ends, Idle, HasStage
    <3>2. query' = [query EXCEPT ![q] = h] BY <2>2 DEF NoMapRead, NoStatus
    <3> HIDE DEF h
    <3>3. QED BY <1>2, <3>1, <3>2
  <2>3. CASE ReadStatusMap(q)
    <3>1. PICK t \in StatusTargets :
            query' = [query EXCEPT ![q] = [Idle EXCEPT !.stage = "relaying", !.target = t,
                                                       !.current = MapIsRight]]
      BY <2>3 DEF ReadStatusMap
    <3> DEFINE h == [Idle EXCEPT !.stage = "relaying", !.target = t, !.current = MapIsRight]
    <3>2. HasStage(h) /\ h.stage # "connecting" BY DEF Idle, HasStage
    <3>3. query' = [query EXCEPT ![q] = h] BY <3>1
    <3> HIDE DEF h
    <3>4. QED BY <1>2, <3>2, <3>3
  <2>4. QED BY <2>1, <2>2, <2>3 DEF Begins
<1>4. QED BY <1>1, <1>3, QuietMove

LEMMA SkipStep == ASSUME IInv, NEW q \in Query, NEW p \in Partition, Skip(q, p) PROVE IInv'
<1>1. UNCHANGED <<clients, dialed, owner>> BY DEF Skip, lock
<1> DEFINE h == [query[q] EXCEPT !.todo = @ \ {p}]
<1>2. HasStage(query[q]) BY DEF IInv, Typed
<1>3. HasStage(h) /\ h.stage = "asking" BY <1>2 DEF HasStage, Skip, StageOf
<1>4. query' = [query EXCEPT ![q] = h] BY DEF Skip, IInv, Typed
<1> HIDE DEF h
<1>5. Touches(q) /\ query'[q].stage = "asking" BY <1>3, <1>4, Replaced DEF IInv
<1>6. QED BY <1>1, <1>5, QuietMove

\* Whoever connects owns the lock, so q did not find it free.
LEMMA PickStep == ASSUME IInv, NEW q \in Query, NEW p \in Partition, Pick(q, p) PROVE IInv'
<1>1. PICK a \in query[q].routes[p] :
        query' = [query EXCEPT ![q].stage = "waiting", ![q].target = <<p, a>>]
  BY DEF Pick
<1> DEFINE h == [query[q] EXCEPT !.stage = "waiting", !.target = <<p, a>>]
<1>2. HasStage(query[q]) BY DEF IInv, Typed
<1>3. HasStage(h) /\ h.stage = "waiting" BY <1>2 DEF HasStage
<1>4. query' = [query EXCEPT ![q] = h] BY <1>1 DEF IInv, Typed
<1> HIDE DEF h
<1>5. Touches(q) /\ query'[q].stage = "waiting" BY <1>3, <1>4, Replaced DEF IInv
<1>6. UNCHANGED <<clients, dialed>> BY DEF Pick
<1>7. Typed' BY <1>5, <1>6, TouchedTyped DEF IInv, Typed
<1>8. ASSUME NEW r \in Query, query'[r].stage = "connecting"
      PROVE  query'[r] = query[r] /\ owner' = owner
  <2>1. query'[r] = query[r] BY <1>5, <1>8 DEF Touches
  <2>2. owner = r BY <1>8, <2>1 DEF IInv, OwnerDials, StageOf
  <2>3. owner # Free BY <2>2, ClusterAssumption
  <2>4. QED BY <2>1, <2>3 DEF Pick
<1>9. OwnerDials' BY <1>6, <1>8 DEF IInv, OwnerDials, StageOf, Target
<1>10. DialedOnce' BY <1>6 DEF IInv, DialedOnce
<1>11. QED BY <1>7, <1>9, <1>10 DEF IInv

LEMMA HitStep == ASSUME IInv, NEW q \in Query, Hit(q) PROVE IInv'
<1>1. owner = q /\ Moves(q, "calling") /\ UNCHANGED <<clients, dialed>> BY DEF Hit
<1>2. Touches(q) /\ query'[q].stage = "calling" BY <1>1, Moved DEF IInv
<1>3. QED BY <1>1, <1>2, LeavingTheLock

LEMMA DialStep == ASSUME IInv, NEW q \in Query, Dial(q) PROVE IInv'
<1>1. /\ owner = q /\ Target(q) \notin clients /\ Moves(q, "connecting")
      /\ UNCHANGED <<clients, dialed, owner>>
  BY DEF Dial, lock
<1>2. Touches(q) /\ query'[q].target = query[q].target BY <1>1, Moved DEF IInv
<1>3. Typed' BY <1>1, <1>2, TouchedTyped DEF IInv, Typed
<1>4. ASSUME NEW r \in Query, query'[r].stage = "connecting"
      PROVE  owner' = r /\ query'[r].target[2] \notin clients'
  <2>1. CASE r = q BY <1>1, <1>2, <2>1 DEF Target
  <2>2. CASE r # q
    <3>1. query'[r] = query[r] BY <1>2, <2>2 DEF Touches
    <3>2. QED BY <1>1, <1>4, <3>1 DEF IInv, OwnerDials, StageOf, Target
  <2>3. QED BY <2>1, <2>2
<1>5. OwnerDials' BY <1>4 DEF OwnerDials, StageOf, Target
<1>6. DialedOnce' BY <1>1 DEF IInv, DialedOnce
<1>7. QED BY <1>3, <1>5, <1>6 DEF IInv

\* The only step that adds a client: its address had none, and nobody else
\* is connecting.
LEMMA ConnectedStep == ASSUME IInv, NEW q \in Query, Connected(q) PROVE IInv'
<1>1. /\ owner = q /\ Target(q) \notin clients
      /\ dialed' = [dialed EXCEPT ![Target(q)] = @ + 1] /\ clients' = clients \cup {Target(q)}
      /\ Moves(q, "calling")
  BY DEF Connected, IInv, OwnerDials
<1>2. Touches(q) /\ query'[q].stage = "calling" BY <1>1, Moved DEF IInv
<1>3. Typed'
  <2>1. dialed \in [Address -> Nat] BY DEF IInv, Typed
  <2>2. \A a \in Address : dialed[a] + 1 \in Nat BY <2>1
  <2>3. dialed' \in [Address -> Nat] BY <1>1, <2>1, <2>2
  <2>4. QED BY <1>2, <2>3, TouchedTyped DEF IInv
<1>4. OwnerDials' BY <1>1, <1>2, NobodyConnects
<1>5. ASSUME NEW a \in Address PROVE dialed'[a] = IF a \in clients' THEN 1 ELSE 0
  <2>1. CASE a = Target(q)
    <3>1. dialed[a] = 0 BY <1>1, <2>1 DEF IInv, DialedOnce
    <3>2. dialed'[a] = dialed[a] + 1 BY <1>1, <2>1 DEF IInv, Typed
    <3>3. QED BY <1>1, <2>1, <3>1, <3>2
  <2>2. CASE a # Target(q)
    <3>1. dialed'[a] = dialed[a] BY <1>1, <2>2 DEF IInv, Typed
    <3>2. (a \in clients') <=> (a \in clients) BY <1>1, <2>2
    <3>3. QED BY <3>1, <3>2 DEF IInv, DialedOnce
  <2>3. QED BY <2>1, <2>2
<1>6. DialedOnce' BY <1>5 DEF DialedOnce
<1>7. QED BY <1>3, <1>4, <1>6 DEF IInv

LEMMA RefusedStep == ASSUME IInv, NEW q \in Query, Refused(q) PROVE IInv'
<1>1. owner = q /\ Stops(q, "failed") /\ UNCHANGED <<clients, dialed>>
  BY DEF Refused, IInv, OwnerDials
<1>2. Touches(q) /\ query'[q].stage = "failed" BY <1>1, Stopped DEF IInv
<1>3. QED BY <1>1, <1>2, LeavingTheLock

LEMMA AnsweredStep == ASSUME IInv, NEW q \in Query, Answered(q) PROVE IInv'
<1>1. UNCHANGED <<clients, dialed, owner>> BY DEF Answered, lock
<1> DEFINE h == [query[q] EXCEPT !.stage = "asking", !.todo = @ \ {Partner(q)},
                   !.target = <<>>, !.misled = @ \/ Served(Target(q)) # Partner(q)]
<1>2. HasStage(query[q]) BY DEF IInv, Typed
<1>3. HasStage(h) /\ h.stage = "asking" BY <1>2 DEF HasStage
<1>4. query' = [query EXCEPT ![q] = h] BY DEF Answered, IInv, Typed
<1> HIDE DEF h
<1>5. Touches(q) /\ query'[q].stage = "asking" BY <1>3, <1>4, Replaced DEF IInv
<1>6. QED BY <1>1, <1>5, QuietMove

LEMMA EndingStep ==
  ASSUME IInv, NEW q \in Query, CallFails(q) \/ Finish(q) \/ RelayStatus(q)
  PROVE  IInv'
<1>1. UNCHANGED <<clients, dialed, owner>> BY DEF CallFails, Finish, RelayStatus, lock
<1>2. Touches(q) /\ query'[q].stage \in Ended
  <2>1. CASE \E s \in {"done", "failed"} : Stops(q, s)
    BY <2>1, Stopped DEF IInv, Ended
  <2>2. CASE query' = [query EXCEPT ![q] =
                 [Ends(@, "done") EXCEPT !.misled = Served(Target(q)) # Partner(q)]]
    <3> DEFINE h == [Ends(query[q], "done") EXCEPT !.misled = Served(Target(q)) # Partner(q)]
    <3>1. HasStage(query[q]) BY DEF IInv, Typed
    <3>2. HasStage(h) /\ h.stage = "done" BY <3>1 DEF HasStage, Ends
    <3>3. query' = [query EXCEPT ![q] = h] BY <2>2 DEF IInv, Typed
    <3> HIDE DEF h
    <3>4. QED BY <3>2, <3>3, Replaced DEF IInv, Ended
  <2>3. QED BY <2>1, <2>2 DEF CallFails, Finish, RelayStatus
<1>3. QED BY <1>1, <1>2, QuietMove DEF Ended

LEMMA CancelStep == ASSUME IInv, NEW q \in Query, Cancel(q) PROVE IInv'
<1>1. UNCHANGED <<clients, dialed>> /\ query' = [query EXCEPT ![q] = Idle] BY DEF Cancel
<1>2. HasStage(Idle) /\ Idle.stage = "idle" BY DEF Idle, HasStage
<1>3. Touches(q) /\ query'[q].stage = "idle" BY <1>1, <1>2, Replaced DEF IInv
<1>4. CASE owner = q BY <1>1, <1>3, <1>4, LeavingTheLock
<1>5. CASE owner # q
  <2>1. UNCHANGED owner BY <1>5 DEF Cancel
  <2>2. QED BY <1>1, <1>3, <2>1, QuietMove
<1>6. QED BY <1>4, <1>5

----------------------------------------------------------------------------

LEMMA ProceedsStep == ASSUME IInv, NEW q \in Query, Proceeds(q) PROVE IInv'
BY SkipStep, PickStep, HitStep, DialStep, ConnectedStep, RefusedStep, AnsweredStep,
   EndingStep DEF Proceeds

LEMMA InitStep == ASSUME Init PROVE IInv
<1>1. Typed BY DEF Init, Typed, Idle, HasStage
<1>2. OwnerDials BY DEF Init, OwnerDials, StageOf, Idle
<1>3. DialedOnce BY DEF Init, DialedOnce
<1>4. QED BY <1>1, <1>2, <1>3 DEF IInv

LEMMA NextStep == ASSUME IInv, [Next]_vars PROVE IInv'
<1>1. CASE UNCHANGED vars
  BY <1>1 DEF vars, lock, cluster, IInv, Typed, OwnerDials, DialedOnce, StageOf, Target
<1>2. CASE ClusterChanges BY <1>2, ClusterStep
<1>3. ASSUME NEW q \in Query, Begins(q) \/ Proceeds(q) \/ Cancel(q) PROVE IInv'
  BY <1>3, BeginsStep, ProceedsStep, CancelStep
<1>4. QED BY <1>1, <1>2, <1>3 DEF Next

\* At most one connection to an address is ever made for the cache, for any
\* number of concurrent queries and whatever the cluster does: the lock is
\* held from the look-up to the insertion (grpc_partition_rpc.rs:56-87).
THEOREM OneConnectionHolds == Spec => []OneConnectionPerAddress
<1>1. Init => IInv BY InitStep
<1>2. IInv /\ [Next]_vars => IInv' BY NextStep
<1>3. IInv => OneConnectionPerAddress BY DEF IInv, DialedOnce, OneConnectionPerAddress
<1>4. QED BY <1>1, <1>2, <1>3, PTL DEF Spec

----------------------------------------------------------------------------
(* The right processes answer.                                             *)

\* The cluster never gives one address to two pods, so what is right for one
\* process at an address is right for the address.
PodsDiffer ==
  /\ \A n \in DOMAIN pods : pods[n] \in PodRecord
  /\ \A m, n \in DOMAIN pods : pods[m].address = pods[n].address => m = n

RightAt(p, a) == Listens(a) /\ \A n \in At(a) : ConfiguredFor[n] = p

\* A current query has asked nobody wrong, and its routes and its target are
\* right still: whatever changes the cluster makes it current no longer.
Informed(h) ==
  h.current =>
    /\ h.stage # "failed" /\ ~ h.misled
    /\ \A p \in Partition : \A a \in h.routes[p] : RightAt(p, a)
    /\ h.target # <<>> => RightAt(h.target[1], h.target[2])

\* As much of the type of a handler as the argument needs.
Shape(h) ==
  /\ {"stage", "routes", "todo", "target", "misled", "current"} \subseteq DOMAIN h
  /\ h.stage \in NeedsClient \cup {"relaying"} => h.target # <<>>

Handlers ==
  /\ query = [q \in Query |-> query[q]]
  /\ \A q \in Query : Shape(query[q])

MapInv == PodsDiffer /\ Handlers /\ \A q \in Query : Informed(query[q])

----------------------------------------------------------------------------
(* The map.                                                                *)

LEMMA OneAt ==
  ASSUME PodsDiffer, NEW a, NEW n \in At(a)  PROVE At(a) = {n}
BY DEF PodsDiffer, At

LEMMA ServedRight ==
  ASSUME NEW p, NEW a, RightAt(p, a)  PROVE Listens(a) /\ Served(a) = p
<1>1. At(a) # {} BY DEF RightAt, Listens
<1>2. (CHOOSE n \in At(a) : TRUE) \in At(a) BY <1>1
<1>3. QED BY <1>2 DEF RightAt, Served

LEMMA MapLeadsRight ==
  ASSUME PodsDiffer, MapIsRight, NEW p \in Partition, NEW a \in Routes[p]
  PROVE  RightAt(p, a)
<1>1. PICK e \in CurrentMap[p] : e.healthy /\ e.address = a BY DEF Routes
<1>2. CASE discovery = Kubernetes
  <2>1. PICK n \in DOMAIN pods : /\ p \in pods[n].annotated
                                 /\ e = [address |-> pods[n].address, healthy |-> pods[n].ready]
    BY <1>2 DEF CurrentMap, PodsMap
  <2>2. pods[n].ready /\ pods[n].address = a BY <1>1, <2>1
  <2>3. pods[n].up /\ pods[n].annotated = {ConfiguredFor[n]} BY <1>2, <2>2 DEF MapIsRight
  <2>4. n \in At(a) /\ p = ConfiguredFor[n] BY <2>1, <2>2, <2>3 DEF At
  <2>5. At(a) = {n} BY <2>4, OneAt
  <2>6. QED BY <2>4, <2>5 DEF RightAt, Listens
<1>3. CASE discovery # Kubernetes
  <2>1. e \in StaticMap(discovery)[p] BY <1>1, <1>3 DEF CurrentMap
  <2>2. Listens(a) /\ Served(a) = p BY <1>1, <1>3, <2>1 DEF MapIsRight
  <2>3. (CHOOSE n \in At(a) : TRUE) \in At(a) BY <2>2 DEF Listens
  <2>4. At(a) = {CHOOSE n \in At(a) : TRUE} BY <2>3, OneAt
  <2>5. \A n \in At(a) : n = CHOOSE m \in At(a) : TRUE BY <2>4
  <2>6. QED BY <2>2, <2>5 DEF RightAt, Served
<1>4. QED BY <1>2, <1>3

LEMMA StatusLeadsRight ==
  ASSUME PodsDiffer, MapIsRight, NEW t \in StatusTargets
  PROVE  t # <<>> /\ RightAt(t[1], t[2])
<1> DEFINE least == {p \in Discovered : \A o \in Discovered : p <= o}
<1>1. PICK p \in least, a \in UNION {Routes[o] : o \in least} : t = <<p, a>>
  BY DEF StatusTargets
<1>2. PICK o \in least : a \in Routes[o] BY <1>1
<1>3. o = p /\ p \in Partition
  <2>1. o \in Partition /\ p \in Partition BY DEF Discovered
  <2>2. o \in Nat /\ p \in Nat BY <2>1, ClusterAssumption
  <2>3. o <= p /\ p <= o OBVIOUS
  <2>4. QED BY <2>1, <2>2, <2>3
<1>4. RightAt(p, a) BY <1>2, <1>3, MapLeadsRight
<1>5. QED BY <1>1, <1>4

----------------------------------------------------------------------------
(* The steps of the cluster.                                               *)

LEMMA PodsStayApart ==
  ASSUME PodsDiffer, ClusterChanges  PROVE PodsDiffer'
<1>1. CASE \E n \in Pod, a \in Address, s \in Annotations : Schedule(n, a, s)
  <2>1. PICK n \in Pod, a \in Address, s \in Annotations : Schedule(n, a, s) BY <1>1
  <2> DEFINE pod == [address |-> a, annotated |-> s, up |-> FALSE, ready |-> FALSE]
  <2>2. pod \in PodRecord BY ClusterAssumption DEF PodRecord
  <2>3. /\ DOMAIN pods' = DOMAIN pods \cup {n} /\ n \notin DOMAIN pods
        /\ pods'[n] = pod /\ \A m \in DOMAIN pods : pods'[m] = pods[m]
    BY <2>1 DEF Schedule
  <2>4. pod.address = a /\ \A m \in DOMAIN pods : pods[m].address # a BY <2>1 DEF Schedule
  <2> HIDE DEF pod
  <2>5. \A m \in DOMAIN pods' : pods'[m] \in PodRecord BY <2>2, <2>3 DEF PodsDiffer
  <2>6. ASSUME NEW m \in DOMAIN pods', NEW o \in DOMAIN pods', pods'[m].address = pods'[o].address
        PROVE  m = o
    BY <2>3, <2>4, <2>6 DEF PodsDiffer
  <2>7. QED BY <2>5, <2>6 DEF PodsDiffer
<1>2. ASSUME NEW n \in DOMAIN pods,
             \/ Listen(n) \/ Die(n) \/ Probe(n)
             \/ \E s \in Annotations : Annotate(n, s)
      PROVE  PodsDiffer'
  <2>1. pods[n] \in PodRecord BY DEF PodsDiffer
  <2>2. PICK pod \in PodRecord : pod.address = pods[n].address /\ pods' = [pods EXCEPT ![n] = pod]
    <3>1. CASE Listen(n)
      <4>1. [pods[n] EXCEPT !.up = TRUE] \in PodRecord BY <2>1 DEF PodRecord
      <4>2. [pods[n] EXCEPT !.up = TRUE].address = pods[n].address BY <2>1 DEF PodRecord
      <4>3. QED BY <3>1, <4>1, <4>2 DEF Listen
    <3>2. CASE Die(n)
      <4>1. [pods[n] EXCEPT !.up = FALSE] \in PodRecord BY <2>1 DEF PodRecord
      <4>2. [pods[n] EXCEPT !.up = FALSE].address = pods[n].address BY <2>1 DEF PodRecord
      <4>3. QED BY <3>2, <4>1, <4>2 DEF Die
    <3>3. CASE Probe(n)
      <4>1. [pods[n] EXCEPT !.ready = pods[n].up] \in PodRecord BY <2>1 DEF PodRecord
      <4>2. [pods[n] EXCEPT !.ready = pods[n].up].address = pods[n].address
        BY <2>1 DEF PodRecord
      <4>3. QED BY <3>3, <4>1, <4>2 DEF Probe
    <3>4. ASSUME NEW s \in Annotations, Annotate(n, s)
          PROVE  \E pod \in PodRecord :
                   pod.address = pods[n].address /\ pods' = [pods EXCEPT ![n] = pod]
      <4>1. s \in SUBSET Partition BY ClusterAssumption
      <4>2. [pods[n] EXCEPT !.annotated = s] \in PodRecord BY <2>1, <4>1 DEF PodRecord
      <4>3. [pods[n] EXCEPT !.annotated = s].address = pods[n].address BY <2>1 DEF PodRecord
      <4>4. QED BY <3>4, <4>2, <4>3 DEF Annotate
    <3>5. QED BY <1>2, <3>1, <3>2, <3>3, <3>4
  <2>3. QED BY <2>2 DEF PodsDiffer
<1>3. ASSUME NEW n \in DOMAIN pods, Delete(n)
      PROVE  PodsDiffer'
  BY <1>3 DEF PodsDiffer, Delete
<1>4. QED BY <1>1, <1>2, <1>3 DEF ClusterChanges

LEMMA ClusterKeepsMap == ASSUME MapInv, ClusterChanges PROVE MapInv'
<1>1. Changes BY DEF ClusterChanges, Schedule, Listen, Die, Probe, Annotate, Delete
<1>2. query' = [q \in Query |-> [query[q] EXCEPT !.current = FALSE]] BY <1>1 DEF Changes
<1>3. ASSUME NEW q \in Query
      PROVE  Shape(query'[q]) /\ query'[q].current = FALSE
  <2>1. Shape(query[q]) BY DEF MapInv, Handlers
  <2>2. query'[q] = [query[q] EXCEPT !.current = FALSE] BY <1>2
  <2>3. QED BY <2>1, <2>2 DEF Shape
<1>4. Handlers' BY <1>2, <1>3 DEF Handlers, Shape
<1>5. \A q \in Query : Informed(query[q])' BY <1>3 DEF Informed
<1>6. QED BY <1>4, <1>5, PodsStayApart DEF MapInv

----------------------------------------------------------------------------
(* The steps of a handler: the cluster stands still, and what was right    *)
(* stays right.                                                            *)

LEMMA HandlerInformed ==
  ASSUME MapInv, UNCHANGED pods, NEW q \in Query, NEW h, Shape(h), Informed(h),
         query' = [query EXCEPT ![q] = h]
  PROVE  MapInv'
<1>1. PodsDiffer' BY DEF MapInv, PodsDiffer
<1>2. \A r \in Query : query'[r] = h \/ query'[r] = query[r] BY DEF MapInv, Handlers
<1>3. Handlers'
  <2>1. query' = [r \in Query |-> query'[r]] BY DEF MapInv, Handlers
  <2>2. \A r \in Query : Shape(query'[r]) BY <1>2 DEF MapInv, Handlers
  <2>3. QED BY <2>1, <2>2 DEF Handlers, Shape
<1>4. \A p, a : RightAt(p, a)' <=> RightAt(p, a) BY DEF RightAt, Listens, At
<1>5. ASSUME NEW r \in Query PROVE Informed(query[r])'
  <2>1. CASE query'[r] = h BY <1>4, <2>1 DEF Informed
  <2>2. CASE query'[r] = query[r]
    <3>1. Informed(query[r]) BY DEF MapInv
    <3>2. QED BY <1>4, <2>2, <3>1 DEF Informed
  <2>3. QED BY <1>2, <2>1, <2>2
<1>6. QED BY <1>1, <1>3, <1>5 DEF MapInv

LEMMA MovesInformed ==
  ASSUME MapInv, UNCHANGED pods, NEW q \in Query, NEW s \in NeedsClient,
         query[q].stage \in NeedsClient, Moves(q, s)
  PROVE  MapInv'
<1> DEFINE h == [query[q] EXCEPT !.stage = s]
<1>1. Shape(query[q]) /\ Informed(query[q]) BY DEF MapInv, Handlers
<1>2. Shape(h) BY <1>1 DEF Shape
<1>3. /\ h.stage # "failed" /\ h.misled = query[q].misled /\ h.current = query[q].current
      /\ h.routes = query[q].routes /\ h.target = query[q].target
  BY <1>1 DEF Shape, NeedsClient
<1>4. query' = [query EXCEPT ![q] = h] BY DEF Moves, MapInv, Handlers
<1> HIDE DEF h
<1>5. Informed(h) BY <1>1, <1>3 DEF Informed
<1>6. QED BY <1>2, <1>4, <1>5, HandlerInformed

\* A handler that stops is uninformed, or stops well.
LEMMA StopsInformed ==
  ASSUME MapInv, UNCHANGED pods, NEW q \in Query, NEW s \in {"done", "failed"}, Stops(q, s),
         s = "failed" => ~ query[q].current
  PROVE  MapInv'
<1> DEFINE h == Ends(query[q], s)
<1>1. Shape(query[q]) /\ Informed(query[q]) BY DEF MapInv, Handlers
<1>2. /\ h.stage = s /\ h.misled = query[q].misled /\ h.current = query[q].current
      /\ h.routes = NoRoutes /\ h.target = <<>>
  BY <1>1 DEF Shape, Ends
<1>3. Shape(h) BY <1>1, <1>2 DEF Shape, Ends, NeedsClient
<1>4. query' = [query EXCEPT ![q] = h] BY DEF Stops, MapInv, Handlers
<1> HIDE DEF h
<1>5. Informed(h) BY <1>1, <1>2 DEF Informed, NoRoutes
<1>6. QED BY <1>3, <1>4, <1>5, HandlerInformed

LEMMA BeginsInformed == ASSUME MapInv, NEW q \in Query, Begins(q) PROVE MapInv'
<1>1. UNCHANGED pods
  BY DEF Begins, ReadMap, NoMapRead, ReadStatusMap, NoStatus, cluster
<1>2. CASE ReadMap(q)
  <2> DEFINE h == [Idle EXCEPT !.stage = "asking", !.routes = Routes, !.todo = Partition,
                               !.current = MapIsRight]
  <2>1. Shape(h) BY DEF Shape, Idle, NeedsClient
  <2>2. /\ h.stage = "asking" /\ h.misled = FALSE /\ h.current = MapIsRight
        /\ h.routes = Routes /\ h.target = <<>>
    BY DEF Idle
  <2>3. query' = [query EXCEPT ![q] = h] BY <1>2 DEF ReadMap
  <2> HIDE DEF h
  <2>4. Informed(h) BY <2>2, MapLeadsRight DEF Informed, MapInv
  <2>5. QED BY <1>1, <2>1, <2>3, <2>4, HandlerInformed
<1>3. CASE NoMapRead(q) \/ NoStatus(q)
  <2> DEFINE h == Ends(Idle, "failed")
  <2>1. Shape(h) /\ h.current = FALSE BY DEF Shape, Ends, Idle, NeedsClient
  <2>2. query' = [query EXCEPT ![q] = h] BY <1>3 DEF NoMapRead, NoStatus
  <2> HIDE DEF h
  <2>3. Informed(h) BY <2>1 DEF Informed
  <2>4. QED BY <1>1, <2>1, <2>2, <2>3, HandlerInformed
<1>4. CASE ReadStatusMap(q)
  <2>1. PICK t \in StatusTargets :
          query' = [query EXCEPT ![q] = [Idle EXCEPT !.stage = "relaying", !.target = t,
                                                     !.current = MapIsRight]]
    BY <1>4 DEF ReadStatusMap
  <2>2. t # <<>> BY DEF StatusTargets
  <2> DEFINE h == [Idle EXCEPT !.stage = "relaying", !.target = t, !.current = MapIsRight]
  <2>3. Shape(h) BY <2>2 DEF Shape, Idle
  <2>4. /\ h.stage = "relaying" /\ h.misled = FALSE /\ h.current = MapIsRight
        /\ h.routes = NoRoutes /\ h.target = t
    BY DEF Idle
  <2>5. query' = [query EXCEPT ![q] = h] BY <2>1
  <2> HIDE DEF h
  <2>6. Informed(h) BY <2>4, StatusLeadsRight DEF Informed, MapInv, NoRoutes
  <2>7. QED BY <1>1, <2>3, <2>5, <2>6, HandlerInformed
<1>5. QED BY <1>2, <1>3, <1>4 DEF Begins

LEMMA SkipInformed == ASSUME MapInv, NEW q \in Query, NEW p \in Partition, Skip(q, p) PROVE MapInv'
<1> DEFINE h == [query[q] EXCEPT !.todo = @ \ {p}]
<1>1. Shape(query[q]) /\ Informed(query[q]) BY DEF MapInv, Handlers
<1>2. Shape(h) BY <1>1 DEF Shape
<1>3. /\ h.stage = query[q].stage /\ h.misled = query[q].misled /\ h.current = query[q].current
      /\ h.routes = query[q].routes /\ h.target = query[q].target
  BY <1>1 DEF Shape
<1>4. query' = [query EXCEPT ![q] = h] BY DEF Skip, MapInv, Handlers
<1> HIDE DEF h
<1>5. Informed(h) BY <1>1, <1>3 DEF Informed
<1>6. UNCHANGED pods BY DEF Skip, cluster
<1>7. QED BY <1>2, <1>4, <1>5, <1>6, HandlerInformed

\* The target is one of the routes.
LEMMA PickInformed == ASSUME MapInv, NEW q \in Query, NEW p \in Partition, Pick(q, p) PROVE MapInv'
<1>1. PICK a \in query[q].routes[p] :
        query' = [query EXCEPT ![q].stage = "waiting", ![q].target = <<p, a>>]
  BY DEF Pick
<1> DEFINE h == [query[q] EXCEPT !.stage = "waiting", !.target = <<p, a>>]
<1>2. Shape(query[q]) /\ Informed(query[q]) BY DEF MapInv, Handlers
<1>3. Shape(h) BY <1>2 DEF Shape
<1>4. /\ h.stage = "waiting" /\ h.misled = query[q].misled /\ h.current = query[q].current
      /\ h.routes = query[q].routes /\ h.target = <<p, a>>
  BY <1>2 DEF Shape
<1>5. query' = [query EXCEPT ![q] = h] BY <1>1 DEF MapInv, Handlers
<1> HIDE DEF h
<1>6. query[q].current => RightAt(p, a) BY <1>2 DEF Informed
<1>7. Informed(h) BY <1>2, <1>4, <1>6 DEF Informed
<1>8. UNCHANGED pods BY DEF Pick, cluster
<1>9. QED BY <1>3, <1>5, <1>7, <1>8, HandlerInformed

LEMMA ClientInformed ==
  ASSUME MapInv, NEW q \in Query, Hit(q) \/ Dial(q) \/ Connected(q)  PROVE MapInv'
<1>1. \E s \in NeedsClient : Moves(q, s) BY DEF Hit, Dial, Connected, NeedsClient
<1>2. query[q].stage \in NeedsClient /\ UNCHANGED pods
  BY DEF Hit, Dial, Connected, NeedsClient, StageOf, cluster
<1>3. QED BY <1>1, <1>2, MovesInformed

\* What a current query needs answers, as its partition.
LEMMA TargetAnswers ==
  ASSUME MapInv, NEW q \in Query, StageOf(q) \in NeedsClient \cup {"relaying"}, query[q].current
  PROVE  Listens(Target(q)) /\ Served(Target(q)) = Partner(q)
<1>1. Shape(query[q]) /\ Informed(query[q]) BY DEF MapInv, Handlers
<1>2. RightAt(Partner(q), Target(q)) BY <1>1 DEF Shape, Informed, StageOf, Partner, Target
<1>3. QED BY <1>2, ServedRight

LEMMA AnsweredInformed == ASSUME MapInv, NEW q \in Query, Answered(q) PROVE MapInv'
<1> DEFINE wrong == Served(Target(q)) # Partner(q)
           h == [query[q] EXCEPT !.stage = "asking", !.todo = @ \ {Partner(q)},
                                 !.target = <<>>, !.misled = @ \/ wrong]
<1>1. Shape(query[q]) /\ Informed(query[q]) BY DEF MapInv, Handlers
<1>2. Shape(h) BY <1>1 DEF Shape, NeedsClient
<1>3. /\ h.stage = "asking" /\ h.misled = (query[q].misled \/ wrong)
      /\ h.current = query[q].current /\ h.routes = query[q].routes /\ h.target = <<>>
  BY <1>1 DEF Shape
<1>4. query' = [query EXCEPT ![q] = h] BY DEF Answered, MapInv, Handlers
<1>5. query[q].current => ~ wrong BY TargetAnswers DEF Answered, NeedsClient
<1> HIDE DEF h, wrong
<1>6. Informed(h) BY <1>1, <1>3, <1>5 DEF Informed
<1>7. UNCHANGED pods BY DEF Answered, cluster
<1>8. QED BY <1>2, <1>4, <1>6, <1>7, HandlerInformed

LEMMA EndingInformed ==
  ASSUME MapInv, NEW q \in Query, Refused(q) \/ CallFails(q) \/ Finish(q) \/ RelayStatus(q)
  PROVE  MapInv'
<1>1. UNCHANGED pods BY DEF Refused, CallFails, Finish, RelayStatus, cluster
<1>2. CASE Finish(q) BY <1>1, <1>2, StopsInformed DEF Finish
<1>3. CASE ~ Listens(Target(q)) /\ Stops(q, "failed")
           /\ StageOf(q) \in NeedsClient \cup {"relaying"}
  BY <1>1, <1>3, TargetAnswers, StopsInformed
<1>4. CASE /\ StageOf(q) = "relaying"
           /\ query' = [query EXCEPT ![q] =
                          [Ends(@, "done") EXCEPT !.misled = Served(Target(q)) # Partner(q)]]
  <2> DEFINE wrong == Served(Target(q)) # Partner(q)
             h == [Ends(query[q], "done") EXCEPT !.misled = wrong]
  <2>1. Shape(query[q]) BY DEF MapInv, Handlers
  <2>2. Shape(h) BY <2>1 DEF Shape, Ends, NeedsClient
  <2>3. /\ h.stage = "done" /\ h.misled = wrong /\ h.current = query[q].current
        /\ h.routes = NoRoutes /\ h.target = <<>>
    BY <2>1 DEF Shape, Ends
  <2>4. query' = [query EXCEPT ![q] = h] BY <1>4 DEF MapInv, Handlers
  <2>5. query[q].current => ~ wrong BY <1>4, TargetAnswers
  <2> HIDE DEF h, wrong
  <2>6. Informed(h) BY <2>3, <2>5 DEF Informed, NoRoutes
  <2>7. QED BY <1>1, <2>2, <2>4, <2>6, HandlerInformed
<1>5. QED BY <1>2, <1>3, <1>4 DEF Refused, CallFails, RelayStatus, NeedsClient

LEMMA CancelInformed == ASSUME MapInv, NEW q \in Query, Cancel(q) PROVE MapInv'
<1>1. UNCHANGED pods /\ query' = [query EXCEPT ![q] = Idle] BY DEF Cancel, cluster
<1>2. Shape(Idle) /\ Idle.current = FALSE BY DEF Shape, Idle, NeedsClient
<1>3. Informed(Idle) BY <1>2 DEF Informed
<1>4. QED BY <1>1, <1>2, <1>3, HandlerInformed

----------------------------------------------------------------------------

LEMMA InitInformed == Init => MapInv
<1> SUFFICES ASSUME Init PROVE MapInv OBVIOUS
<1>1. PodsDiffer BY ClusterAssumption DEF Init, PodsDiffer
<1>2. \A q \in Query : query[q] = Idle BY DEF Init
<1>3. Shape(Idle) /\ Idle.current = FALSE BY DEF Shape, Idle, NeedsClient
<1>4. Handlers BY <1>2, <1>3 DEF Init, Handlers
<1>5. \A q \in Query : Informed(query[q]) BY <1>2, <1>3 DEF Informed
<1>6. QED BY <1>1, <1>4, <1>5 DEF MapInv

LEMMA StepInformed == MapInv /\ [Next]_vars => MapInv'
<1> SUFFICES ASSUME MapInv, [Next]_vars PROVE MapInv' OBVIOUS
<1>1. CASE ClusterChanges BY <1>1, ClusterKeepsMap
<1>2. ASSUME NEW q \in Query, Begins(q) PROVE MapInv' BY <1>2, BeginsInformed
<1>3. ASSUME NEW q \in Query, Proceeds(q) PROVE MapInv'
  <2>1. ASSUME NEW p \in Partition, Skip(q, p) \/ Pick(q, p) PROVE MapInv'
    BY <2>1, SkipInformed, PickInformed
  <2>2. QED BY <1>3, <2>1, ClientInformed, AnsweredInformed, EndingInformed DEF Proceeds
<1>4. ASSUME NEW q \in Query, Cancel(q) PROVE MapInv' BY <1>4, CancelInformed
<1>5. CASE UNCHANGED vars
  BY <1>5 DEF vars, cluster, MapInv, PodsDiffer, Handlers, Shape, Informed, RightAt, Listens, At,
              StageOf
<1>6. QED BY <1>1, <1>2, <1>3, <1>4, <1>5 DEF Next

\* A query whose map was right when it was read, in a cluster that has not
\* changed since, does not fail and is answered by the partitions it asked:
\* connections are looked up by address (client), a dead one is not kept, and
\* no two pods share an address.
THEOREM CurrentMapHolds == Spec => []CurrentMapAnswers
<1>1. MapInv => CurrentMapAnswers BY DEF MapInv, Informed, CurrentMapAnswers, StageOf
<1>2. QED BY <1>1, InitInformed, StepInformed, PTL DEF Spec

----------------------------------------------------------------------------
(* The types.                                                              *)

\* A handler, and its target exactly while it needs one.
HandlerOK(h) ==
  h \in Handler /\ (h.stage \in NeedsClient \cup {"relaying"} <=> h.target # <<>>)

PodsOK  == DOMAIN pods \subseteq Pod /\ PodsDiffer
CacheOK == clients \subseteq Address /\ dialed \in [Address -> Nat]
LockOK  == owner \in Query \cup {Free} /\ waiters \in Seq(Query)
QueryOK == query \in [Query -> Handler] /\ \A q \in Query : HandlerOK(query[q])

TypeInv ==
  /\ discovery \in Discoveries /\ PodsOK /\ changes \in 0 .. MaxChanges
  /\ CacheOK /\ LockOK /\ QueryOK

LEMMA LeastOf ==
  ASSUME NEW T \in SUBSET Nat, T # {}
  PROVE  \E n \in T : \A m \in T : n <= m
<1>1. PICK n \in T : \A m \in T : <<m, n>> \notin OpToRel(<, Nat)
  BY NatLessThanWellFounded, WFMin
<1>2. \A m \in T : ~ (m < n) BY <1>1 DEF OpToRel
<1>3. QED BY <1>2

\* A bounded set of numbers has a greatest: the least distance to the bound.
LEMMA GreatestIn ==
  ASSUME NEW k \in Nat, NEW T \in SUBSET (1 .. k), T # {}
  PROVE  Max(T) \in T
<1> DEFINE D == {k - i : i \in T}
<1>1. D \in SUBSET Nat /\ D # {}
  <2>1. ASSUME NEW d \in D PROVE d \in Nat
    <3>1. PICK i \in T : d = k - i OBVIOUS
    <3>2. i \in 1 .. k OBVIOUS
    <3>3. QED BY <3>1, <3>2
  <2>2. PICK i \in T : TRUE OBVIOUS
  <2>3. k - i \in D OBVIOUS
  <2>4. QED BY <2>1, <2>3
<1>2. PICK d \in D : \A m \in D : d <= m BY <1>1, LeastOf
<1>3. PICK i \in T : d = k - i OBVIOUS
<1>4. ASSUME NEW j \in T PROVE j =< i
  <2>1. k - j \in D OBVIOUS
  <2>2. k - i <= k - j BY <1>2, <1>3, <2>1
  <2>3. i \in 1 .. k /\ j \in 1 .. k OBVIOUS
  <2>4. QED BY <2>2, <2>3
<1>5. \E x \in T : \A y \in T : x >= y BY <1>4
<1>6. QED BY <1>5 DEF Max

LEMMA Shorter ==
  ASSUME NEW S, NEW s \in Seq(S), NEW e
  PROVE  RemoveFirst(s, e) \in Seq(S)
<1>1. ASSUME NEW k \in 1 .. Len(s) PROVE RemoveAt(s, k) \in Seq(S)
  <2>1. SubSeq(s, 1, k - 1) \in Seq(S) /\ SubSeq(s, k + 1, Len(s)) \in Seq(S)
    BY <1>1, SubSeqProperties
  <2>2. QED BY <2>1 DEF RemoveAt
<1> DEFINE I == {i \in 1 .. Len(s) : s[i] = e}
<1>2. ASSUME I # {} PROVE Min(I) \in 1 .. Len(s)
  <2>1. I \in SUBSET Nat OBVIOUS
  <2>2. \E x \in I : \A y \in I : x =< y BY <1>2, <2>1, LeastOf
  <2>3. QED BY <2>2 DEF Min
<1>3. SelectInSeq(s, LAMBDA v : v = e) = IF I # {} THEN Min(I) ELSE 0 BY DEF SelectInSeq
<1>4. (\E i \in 1 .. Len(s) : s[i] = e) <=> I # {} OBVIOUS
<1> HIDE DEF I
<1>5. QED BY <1>1, <1>2, <1>3, <1>4 DEF RemoveFirst

----------------------------------------------------------------------------
(* The map has its type, so a query's routes and target do.                *)

LEMMA StaticTyped ==
  ASSUME NEW entries \in Seq(Partition \X Address), NEW p \in Partition,
         NEW e \in StaticMap(entries)[p]
  PROVE  e.address \in Address
<1> DEFINE at == {i \in DOMAIN entries : entries[i][1] = p}
<1>1. at # {} /\ e = [address |-> entries[Max(at)][2], healthy |-> TRUE] BY DEF StaticMap
<1>2. DOMAIN entries = 1 .. Len(entries) /\ Len(entries) \in Nat OBVIOUS
<1>3. at \in SUBSET (1 .. Len(entries)) BY <1>2
<1>4. Max(at) \in at BY <1>1, <1>2, <1>3, GreatestIn
<1> HIDE DEF at
<1>5. Max(at) \in DOMAIN entries BY <1>2, <1>3, <1>4
<1>6. entries[Max(at)] \in Partition \X Address BY <1>5
<1>7. QED BY <1>1, <1>6

LEMMA RoutesTyped ==
  ASSUME discovery \in Discoveries, PodsOK  PROVE Routes \in [Partition -> SUBSET Address]
<1>1. ASSUME NEW p \in Partition, NEW e \in CurrentMap[p] PROVE e.address \in Address
  <2>1. CASE discovery = Kubernetes
    <3>1. PICK n \in DOMAIN pods : e = [address |-> pods[n].address, healthy |-> pods[n].ready]
      BY <1>1, <2>1 DEF CurrentMap, PodsMap
    <3>2. pods[n] \in PodRecord BY DEF PodsOK, PodsDiffer
    <3>3. QED BY <3>1, <3>2 DEF PodRecord
  <2>2. CASE discovery # Kubernetes
    <3>1. discovery \in Seq(Partition \X Address) BY <2>2, ClusterAssumption
    <3>2. e \in StaticMap(discovery)[p] BY <1>1, <2>2 DEF CurrentMap
    <3>3. QED BY <3>1, <3>2, StaticTyped
  <2>3. QED BY <2>1, <2>2
<1>2. QED BY <1>1 DEF Routes

LEMMA StatusTyped ==
  ASSUME discovery \in Discoveries, PodsOK, NEW t \in StatusTargets
  PROVE  t \in Partition \X Address
<1> DEFINE least == {p \in Discovered : \A o \in Discovered : p <= o}
<1>1. PICK p \in least, a \in UNION {Routes[o] : o \in least} : t = <<p, a>> BY DEF StatusTargets
<1>2. least \subseteq Partition BY DEF Discovered
<1>3. a \in Address BY <1>2, RoutesTyped
<1>4. QED BY <1>1, <1>2, <1>3

----------------------------------------------------------------------------
(* What the steps keep.                                                    *)

LEMMA QueryTyped ==
  ASSUME QueryOK, NEW q \in Query, NEW h, HandlerOK(h), query' = [query EXCEPT ![q] = h]
  PROVE  QueryOK'
<1>1. query' \in [Query -> Handler] BY DEF QueryOK, HandlerOK
<1>2. ASSUME NEW r \in Query PROVE HandlerOK(query'[r]) BY DEF QueryOK
<1>3. QED BY <1>1, <1>2 DEF QueryOK, HandlerOK

LEMMA IdleTyped == HandlerOK(Idle) /\ HandlerOK(Ends(Idle, "failed"))
BY DEF HandlerOK, Handler, Idle, Ends, NoRoutes, Stage, Ended, NeedsClient

LEMMA MovesTyped ==
  ASSUME QueryOK, NEW q \in Query, StageOf(q) \in NeedsClient, NEW s \in NeedsClient, Moves(q, s)
  PROVE  QueryOK'
<1> DEFINE h == [query[q] EXCEPT !.stage = s]
<1>1. HandlerOK(query[q]) BY DEF QueryOK
<1>2. HandlerOK(h) BY <1>1 DEF HandlerOK, Handler, Stage, StageOf
<1>3. query' = [query EXCEPT ![q] = h] BY DEF Moves, QueryOK
<1> HIDE DEF h
<1>4. QED BY <1>2, <1>3, QueryTyped

LEMMA StopsTyped ==
  ASSUME QueryOK, NEW q \in Query, NEW s \in {"done", "failed"}, Stops(q, s)
  PROVE  QueryOK'
<1> DEFINE h == Ends(query[q], s)
<1>1. HandlerOK(query[q]) BY DEF QueryOK
<1>2. HandlerOK(h)
  BY <1>1 DEF HandlerOK, Handler, Ends, NoRoutes, Stage, Ended, NeedsClient
<1>3. query' = [query EXCEPT ![q] = h] BY DEF Stops, QueryOK
<1> HIDE DEF h
<1>4. QED BY <1>2, <1>3, QueryTyped

LEMMA TargetTyped ==
  ASSUME QueryOK, NEW q \in Query, StageOf(q) \in NeedsClient \cup {"relaying"}
  PROVE  Target(q) \in Address
<1>1. query[q].target \in Partition \X Address BY DEF QueryOK, HandlerOK, Handler, StageOf
<1>2. QED BY <1>1 DEF Target

LEMMA ReleaseTyped == ASSUME LockOK, Release PROVE LockOK'
<1>1. CASE waiters = <<>> BY <1>1 DEF LockOK, Release
<1>2. CASE waiters # <<>>
  <2>1. Head(waiters) \in Query /\ Tail(waiters) \in Seq(Query) BY <1>2, HeadTailProperties DEF LockOK
  <2>2. QED BY <1>2, <2>1 DEF LockOK, Release
<1>3. QED BY <1>1, <1>2

----------------------------------------------------------------------------
(* One lemma per action, or per kind of action.                            *)

LEMMA ClusterTyped == ASSUME TypeInv, ClusterChanges PROVE TypeInv'
<1>1. Changes BY DEF ClusterChanges, Schedule, Listen, Die, Probe, Annotate, Delete
<1>2. UNCHANGED <<discovery, clients, dialed, owner, waiters>> BY <1>1 DEF Changes, lock
<1>3. changes' \in 0 .. MaxChanges BY <1>1, ClusterAssumption DEF TypeInv, Changes
<1>4. PodsOK'
  <2>1. DOMAIN pods' \subseteq Pod
    <3>1. \/ \E n \in Pod : DOMAIN pods' = DOMAIN pods \cup {n}
          \/ DOMAIN pods' = DOMAIN pods
          \/ \E n \in DOMAIN pods : DOMAIN pods' = DOMAIN pods \ {n}
      BY DEF ClusterChanges, Schedule, Listen, Die, Probe, Annotate, Delete
    <3>2. QED BY <3>1 DEF TypeInv, PodsOK
  <2>2. QED BY <2>1, PodsStayApart DEF TypeInv, PodsOK
<1>5. QueryOK'
  <2>1. query' = [q \in Query |-> [query[q] EXCEPT !.current = FALSE]] BY <1>1 DEF Changes
  <2>2. ASSUME NEW q \in Query PROVE HandlerOK(query'[q])
    <3>1. HandlerOK(query[q]) BY DEF TypeInv, QueryOK
    <3>2. query'[q] = [query[q] EXCEPT !.current = FALSE] BY <2>1
    <3>3. QED BY <3>1, <3>2 DEF HandlerOK, Handler
  <2>3. query' \in [Query -> Handler] BY <2>1, <2>2 DEF HandlerOK
  <2>4. QED BY <2>2, <2>3 DEF QueryOK, HandlerOK
<1>6. QED BY <1>2, <1>3, <1>4, <1>5 DEF TypeInv, CacheOK, LockOK

\* A handler's step leaves the cluster alone.
LEMMA HandlerStepTyped ==
  ASSUME TypeInv, UNCHANGED cluster, CacheOK', LockOK', QueryOK'  PROVE TypeInv'
BY DEF TypeInv, cluster, PodsOK, PodsDiffer

LEMMA QuietTyped ==
  ASSUME TypeInv, UNCHANGED <<cluster, clients, dialed, lock>>, QueryOK'  PROVE TypeInv'
<1>1. CacheOK' /\ LockOK' BY DEF TypeInv, CacheOK, LockOK, lock
<1>2. QED BY <1>1, HandlerStepTyped

LEMMA BeginsTyped == ASSUME TypeInv, NEW q \in Query, Begins(q) PROVE TypeInv'
<1>1. UNCHANGED <<cluster, clients, dialed, lock>>
  BY DEF Begins, ReadMap, NoMapRead, ReadStatusMap, NoStatus
<1>2. QueryOK BY DEF TypeInv
<1>3. MapIsRight \in BOOLEAN BY DEF MapIsRight
<1>4. CASE ReadMap(q)
  <2> DEFINE h == [Idle EXCEPT !.stage = "asking", !.routes = Routes, !.todo = Partition,
                               !.current = MapIsRight]
  <2>1. Routes \in [Partition -> SUBSET Address] BY RoutesTyped DEF TypeInv
  <2>2. HandlerOK(h) BY <1>3, <2>1 DEF HandlerOK, Handler, Idle, Stage, NeedsClient
  <2>3. query' = [query EXCEPT ![q] = h] BY <1>4 DEF ReadMap
  <2> HIDE DEF h
  <2>4. QED BY <1>1, <1>2, <2>2, <2>3, QueryTyped, QuietTyped
<1>5. CASE NoMapRead(q) \/ NoStatus(q)
  <2>1. query' = [query EXCEPT ![q] = Ends(Idle, "failed")] BY <1>5 DEF NoMapRead, NoStatus
  <2>2. QED BY <1>1, <1>2, <2>1, IdleTyped, QueryTyped, QuietTyped
<1>6. CASE ReadStatusMap(q)
  <2>1. PICK t \in StatusTargets :
          query' = [query EXCEPT ![q] = [Idle EXCEPT !.stage = "relaying", !.target = t,
                                                     !.current = MapIsRight]]
    BY <1>6 DEF ReadStatusMap
  <2>2. t \in Partition \X Address BY StatusTyped DEF TypeInv
  <2>3. t # <<>> BY DEF StatusTargets
  <2> DEFINE h == [Idle EXCEPT !.stage = "relaying", !.target = t, !.current = MapIsRight]
  <2>4. h.stage = "relaying" /\ h.target = t BY DEF Idle
  <2>5. h \in Handler BY <1>3, <2>2 DEF Handler, Idle, NoRoutes, Stage
  <2>6. query' = [query EXCEPT ![q] = h] BY <2>1
  <2> HIDE DEF h
  <2>7. HandlerOK(h) BY <2>3, <2>4, <2>5 DEF HandlerOK
  <2>8. QED BY <1>1, <1>2, <2>6, <2>7, QueryTyped, QuietTyped
<1>7. QED BY <1>4, <1>5, <1>6 DEF Begins

LEMMA SkipTyped == ASSUME TypeInv, NEW q \in Query, NEW p \in Partition, Skip(q, p) PROVE TypeInv'
<1> DEFINE h == [query[q] EXCEPT !.todo = @ \ {p}]
<1>1. HandlerOK(query[q]) /\ QueryOK BY DEF TypeInv, QueryOK
<1>2. HandlerOK(h) BY <1>1 DEF HandlerOK, Handler
<1>3. query' = [query EXCEPT ![q] = h] BY <1>1 DEF Skip, QueryOK
<1> HIDE DEF h
<1>4. QED BY <1>1, <1>2, <1>3, QueryTyped, QuietTyped DEF Skip

LEMMA PickTyped == ASSUME TypeInv, NEW q \in Query, NEW p \in Partition, Pick(q, p) PROVE TypeInv'
<1>1. PICK a \in query[q].routes[p] :
        query' = [query EXCEPT ![q].stage = "waiting", ![q].target = <<p, a>>]
  BY DEF Pick
<1> DEFINE h == [query[q] EXCEPT !.stage = "waiting", !.target = <<p, a>>]
<1>2. HandlerOK(query[q]) /\ QueryOK BY DEF TypeInv, QueryOK
<1>3. a \in Address BY <1>2 DEF HandlerOK, Handler
<1>4. HandlerOK(h) BY <1>2, <1>3 DEF HandlerOK, Handler, Stage, NeedsClient
<1>5. query' = [query EXCEPT ![q] = h] BY <1>1, <1>2 DEF QueryOK
<1> HIDE DEF h
<1>6. QueryOK' BY <1>2, <1>4, <1>5, QueryTyped
<1>7. LockOK'
  <2>1. Append(waiters, q) \in Seq(Query) BY DEF TypeInv, LockOK
  <2>2. QED BY <2>1 DEF Pick, TypeInv, LockOK
<1>8. CacheOK' BY DEF Pick, TypeInv, CacheOK
<1>9. QED BY <1>6, <1>7, <1>8, HandlerStepTyped DEF Pick

LEMMA ClientTyped ==
  ASSUME TypeInv, NEW q \in Query, Hit(q) \/ Dial(q) \/ Connected(q)  PROVE TypeInv'
<1>1. QueryOK'
  <2>1. \E s \in NeedsClient : Moves(q, s) BY DEF Hit, Dial, Connected, NeedsClient
  <2>2. StageOf(q) \in NeedsClient BY DEF Hit, Dial, Connected, NeedsClient
  <2>3. QED BY <2>1, <2>2, MovesTyped DEF TypeInv
<1>2. LockOK' BY ReleaseTyped DEF Hit, Dial, Connected, TypeInv, LockOK, lock
<1>3. CacheOK'
  <2>1. Target(q) \in Address
    BY TargetTyped DEF TypeInv, Hit, Dial, Connected, NeedsClient
  <2>2. QED BY <2>1 DEF Hit, Dial, Connected, TypeInv, CacheOK
<1>4. QED BY <1>1, <1>2, <1>3, HandlerStepTyped DEF Hit, Dial, Connected

LEMMA AnsweredTyped == ASSUME TypeInv, NEW q \in Query, Answered(q) PROVE TypeInv'
<1> DEFINE wrong == Served(Target(q)) # Partner(q)
           h == [query[q] EXCEPT !.stage = "asking", !.todo = @ \ {Partner(q)},
                                 !.target = <<>>, !.misled = @ \/ wrong]
<1>1. HandlerOK(query[q]) /\ QueryOK BY DEF TypeInv, QueryOK
<1>2. query' = [query EXCEPT ![q] = h] BY <1>1 DEF Answered, QueryOK
<1> HIDE DEF wrong
<1>3. (query[q].misled \/ wrong) \in BOOLEAN OBVIOUS
<1>4. HandlerOK(h) BY <1>1, <1>3 DEF HandlerOK, Handler, Stage, NeedsClient
<1> HIDE DEF h
<1>5. QED BY <1>1, <1>2, <1>4, QueryTyped, QuietTyped DEF Answered

LEMMA EndingTyped ==
  ASSUME TypeInv, NEW q \in Query, CallFails(q) \/ Finish(q) \/ RelayStatus(q)  PROVE TypeInv'
<1>1. UNCHANGED <<cluster, clients, dialed, lock>> BY DEF CallFails, Finish, RelayStatus
<1>2. QueryOK BY DEF TypeInv
<1>3. CASE \E s \in {"done", "failed"} : Stops(q, s)
  BY <1>1, <1>2, <1>3, StopsTyped, QuietTyped
<1>4. CASE query' = [query EXCEPT ![q] =
                       [Ends(@, "done") EXCEPT !.misled = Served(Target(q)) # Partner(q)]]
  <2> DEFINE wrong == Served(Target(q)) # Partner(q)
             h == [Ends(query[q], "done") EXCEPT !.misled = wrong]
  <2>1. HandlerOK(query[q]) BY <1>2 DEF QueryOK
  <2>2. query' = [query EXCEPT ![q] = h] BY <1>2, <1>4 DEF QueryOK
  <2>3. wrong \in BOOLEAN OBVIOUS
  <2> HIDE DEF wrong
  <2>4. HandlerOK(h)
    BY <2>1, <2>3 DEF HandlerOK, Handler, Ends, NoRoutes, Stage, Ended, NeedsClient
  <2> HIDE DEF h
  <2>5. QED BY <1>1, <1>2, <2>2, <2>4, QueryTyped, QuietTyped
<1>5. QED BY <1>3, <1>4 DEF CallFails, Finish, RelayStatus

LEMMA RefusedTyped == ASSUME TypeInv, NEW q \in Query, Refused(q) PROVE TypeInv'
<1>1. QueryOK' BY StopsTyped DEF Refused, TypeInv
<1>2. LockOK' BY ReleaseTyped DEF Refused, TypeInv
<1>3. CacheOK' BY DEF Refused, TypeInv, CacheOK
<1>4. QED BY <1>1, <1>2, <1>3, HandlerStepTyped DEF Refused

LEMMA CancelTyped == ASSUME TypeInv, NEW q \in Query, Cancel(q) PROVE TypeInv'
<1>1. query' = [query EXCEPT ![q] = Idle] BY DEF Cancel
<1>2. QueryOK' BY <1>1, IdleTyped, QueryTyped DEF TypeInv
<1>3. LockOK'
  <2>1. waiters \in Seq(Query) BY DEF TypeInv, LockOK
  <2>2. RemoveFirst(waiters, q) \in Seq(Query) BY <2>1, Shorter
  <2>3. QED BY <2>2, ReleaseTyped DEF Cancel, TypeInv, LockOK
<1>4. CacheOK' BY DEF Cancel, TypeInv, CacheOK
<1>5. QED BY <1>2, <1>3, <1>4, HandlerStepTyped DEF Cancel

----------------------------------------------------------------------------

LEMMA InitTyped == Init => TypeInv
<1> SUFFICES ASSUME Init PROVE TypeInv OBVIOUS
<1>1. discovery \in Discoveries /\ changes \in 0 .. MaxChanges BY ClusterAssumption DEF Init
<1>2. PodsOK BY ClusterAssumption DEF Init, PodsOK, PodsDiffer
<1>3. CacheOK /\ LockOK BY DEF Init, CacheOK, LockOK
<1>4. QueryOK BY IdleTyped DEF Init, QueryOK, HandlerOK
<1>5. QED BY <1>1, <1>2, <1>3, <1>4 DEF TypeInv

LEMMA StepTyped == TypeInv /\ [Next]_vars => TypeInv'
<1> SUFFICES ASSUME TypeInv, [Next]_vars PROVE TypeInv' OBVIOUS
<1>1. CASE ClusterChanges BY <1>1, ClusterTyped
<1>2. ASSUME NEW q \in Query, Begins(q) PROVE TypeInv' BY <1>2, BeginsTyped
<1>3. ASSUME NEW q \in Query, Proceeds(q) PROVE TypeInv'
  <2>1. ASSUME NEW p \in Partition, Skip(q, p) \/ Pick(q, p) PROVE TypeInv'
    BY <2>1, SkipTyped, PickTyped
  <2>2. QED BY <1>3, <2>1, ClientTyped, AnsweredTyped, EndingTyped, RefusedTyped DEF Proceeds
<1>4. ASSUME NEW q \in Query, Cancel(q) PROVE TypeInv' BY <1>4, CancelTyped
<1>5. CASE UNCHANGED vars
  BY <1>5 DEF vars, cluster, lock, TypeInv, PodsOK, PodsDiffer, CacheOK, LockOK, QueryOK
<1>6. QED BY <1>1, <1>2, <1>3, <1>4, <1>5 DEF Next

\* Every variable has its type: the queue for the lock holds requests, the
\* cache holds addresses the map gave, and a handler knows its target exactly
\* while it needs a client (client and the RPC wrappers).
THEOREM CacheTyped == Spec => []TypeOK
<1>1. TypeInv => TypeOK
  BY DEF TypeInv, TypeOK, PodsOK, PodsDiffer, CacheOK, LockOK, QueryOK, HandlerOK, StageOf
<1>2. QED BY <1>1, InitTyped, StepTyped, PTL DEF Spec

=============================================================================
