------------------------------ MODULE Placement ------------------------------
(***************************************************************************)
(* Which machines host which logical partition: what KubernetesDiscovery   *)
(* reads off the pods, what RendezvousRebalancePlanner plans for a set of  *)
(* available machines, and the controller outside this repository that     *)
(* carries the moves out one at a time while pods come and go.             *)
(***************************************************************************)
EXTENDS Integers, FiniteSets

CONSTANTS
  Partition,              \* the n_partitions logical partitions
  Machine,                \* machine (pod) names; integers, for their order
  NoMachine,              \* `from_machine: None`
  ReplicationFactor,
  Scores                  \* the values rendezvous_score may turn out to have

ASSUME PlacementAssumption ==
  /\ Machine \subseteq Int /\ IsFiniteSet(Machine) /\ NoMachine \notin Machine
  /\ ReplicationFactor \in Nat \ {0}
  /\ Scores \subseteq [Partition \X Machine -> Nat]

VARIABLES
  score,                  \* the hash of each (partition, machine)
  pods,                   \* what the Kubernetes API lists of each machine
  available,              \* the machines the planner is told to use
  moves                   \* the moves not carried out yet

vars == <<score, pods, available, moves>>

Pod == [ip : BOOLEAN, partitions : SUBSET Partition]
Move == [partition : Partition, from : Machine \cup {NoMachine}, to : Machine]

----------------------------------------------------------------------------
(* Discovery: a pod without an address is no replica.                      *)

CurrentMap(ps) ==
  [p \in Partition |-> {m \in Machine : ps[m].ip /\ p \in ps[m].partitions}]

----------------------------------------------------------------------------
(* The planner.                                                            *)

\* Sorted by descending score, equal scores by name.
Outranks(p, m, n) ==
  \/ score[p, m] > score[p, n]
  \/ score[p, m] = score[p, n] /\ m < n

Replicas(machines) ==
  IF ReplicationFactor < Cardinality(machines) THEN ReplicationFactor
  ELSE Cardinality(machines)

\* How many machines of S come before m in name order.
Before(S, m) == Cardinality({n \in S : n < m})

\* Mutant: machines are taken by position, modulo how many there are.
TargetByPosition(p, machines) ==
  LET first == Cardinality({m \in Machine : score[p, m] > 0})
  IN {m \in machines :
        Before(machines, m) \in {(first + i) % Cardinality(machines) :
                                   i \in 0 .. Replicas(machines) - 1}}

Target(p, machines) ==
  {m \in machines :
     Cardinality({n \in machines : Outranks(p, n, m)}) < Replicas(machines)}

\* The machine of removes that is paired with m, the two lists being sorted.
Partner(adds, removes, m) ==
  IF \E n \in removes : Before(removes, n) = Before(adds, m)
  THEN CHOOSE n \in removes : Before(removes, n) = Before(adds, m)
  ELSE NoMachine

Pairing(p, adds, removes) ==
  {[partition |-> p, to |-> m, from |-> Partner(adds, removes, m)] : m \in adds}

\* Mutants of Paired: any present replica gives way, targets that are there
\* already are added again, the first remove is taken every time.
PairedWithAny(p, current, target) == Pairing(p, target \ current, current)

PairedUnfiltered(p, current, target) == Pairing(p, target, current \ target)

PairedWithFirst(p, current, target) ==
  LET removes == current \ target
  IN {[partition |-> p, to |-> m,
       from |-> IF removes = {} THEN NoMachine
                ELSE CHOOSE n \in removes : Before(removes, n) = 0] :
        m \in target \ current}

\* Each add takes the place of a remove while there are any.
Paired(p, current, target) == Pairing(p, target \ current, current \ target)

PlanMoves(map, machines) ==
  IF machines = {} THEN {}
  ELSE UNION {Paired(p, map[p], Target(p, machines)) : p \in Partition}

----------------------------------------------------------------------------
(* The cluster.                                                            *)

Init ==
  /\ score \in Scores
  /\ pods = [m \in Machine |-> [ip |-> FALSE, partitions |-> {}]]
  /\ available = {} /\ moves = {}

\* A pod gets its address, or is deleted with its annotation.
PodStarts(m) ==
  /\ ~ pods[m].ip
  /\ pods' = [pods EXCEPT ![m].ip = TRUE]
  /\ UNCHANGED <<score, available, moves>>

PodDies(m) ==
  /\ pods[m].ip
  /\ pods' = [pods EXCEPT ![m] = [ip |-> FALSE, partitions |-> {}]]
  /\ UNCHANGED <<score, available, moves>>

\* A running machine is offered to the planner, or any machine withdrawn.
Offer(m) ==
  /\ m \notin available /\ pods[m].ip
  /\ available' = available \cup {m}
  /\ UNCHANGED <<score, pods, moves>>

Withdraw(m) ==
  /\ m \in available
  /\ available' = available \ {m}
  /\ UNCHANGED <<score, pods, moves>>

\* One plan at a time.
MakePlan ==
  /\ moves = {}
  /\ moves' = PlanMoves(CurrentMap(pods), available)
  /\ UNCHANGED <<score, pods, available>>

\* The new replica is annotated and the old one stripped in one go; a move to
\* a machine that is gone is given up.
CarryOut(mv) ==
  /\ mv \in moves /\ moves' = moves \ {mv}
  /\ pods' = IF pods[mv.to].ip
             THEN [m \in Machine |->
                     IF m = mv.to THEN [pods[m] EXCEPT !.partitions = @ \cup {mv.partition}]
                     ELSE IF m = mv.from THEN [pods[m] EXCEPT !.partitions = @ \ {mv.partition}]
                     ELSE pods[m]]
             ELSE pods
  /\ UNCHANGED <<score, available>>

\* A replica that is no target any more and in no move is decommissioned.
Retire(p, m) ==
  /\ moves = {} /\ available # {}
  /\ p \in pods[m].partitions /\ m \notin Target(p, available)
  /\ Target(p, available) \subseteq CurrentMap(pods)[p]
  /\ pods' = [pods EXCEPT ![m].partitions = @ \ {p}]
  /\ UNCHANGED <<score, available, moves>>

Next ==
  \/ \E m \in Machine : PodStarts(m) \/ PodDies(m) \/ Offer(m) \/ Withdraw(m)
  \/ MakePlan
  \/ \E mv \in moves : CarryOut(mv)
  \/ \E p \in Partition, m \in Machine : Retire(p, m)

Spec == Init /\ [][Next]_vars

----------------------------------------------------------------------------
(* Properties.                                                             *)

\* The moves of one plan take no machine twice for a partition, neither to
\* add a replica nor to give one up.
TypeOK ==
  /\ score \in Scores
  /\ pods \in [Machine -> Pod]
  /\ available \subseteq Machine
  /\ moves \subseteq Move
  /\ \A v, w \in moves :
       v # w /\ v.partition = w.partition =>
         v.to # w.to /\ (v.from = w.from => v.from = NoMachine)

\* The map a plan leaves behind when nothing else happens.
After(map, mvs) ==
  [p \in Partition |->
     (map[p] \ {mv.from : mv \in {v \in mvs : v.partition = p}})
       \cup {mv.to : mv \in {v \in mvs : v.partition = p}}]

\* Once a plan is carried out, planning again for the same machines moves
\* nothing, from whatever placement the plan started and with or without the
\* replicas left over (rebalance.rs, plan).
PlanSettles ==
  LET map == CurrentMap(pods) IN
  PlanMoves(After(map, PlanMoves(map, available)), available) = {}

\* From a settled placement on the machines S, a change of machines moves a
\* partition at most once per machine that came or went, only onto machines
\* that came if none went, and only partitions of machines that went if none
\* came: "adding or removing one machine only moves the partitions assigned
\* to/from that machine" (rebalance.rs:11-14).
ChangeMovesOnlyItsOwn ==
  LET map == CurrentMap(pods)
      mvs == PlanMoves(map, available)
  IN \A S \in SUBSET Machine :
       LET came == available \ S
           went == S \ available
       IN (\A p \in Partition : map[p] = Target(p, S)) =>
            /\ \A p \in Partition :
                 Cardinality({mv \in mvs : mv.partition = p})
                   <= Cardinality(came) + Cardinality(went)
            /\ went = {} => \A mv \in mvs : mv.to \in came
            /\ came = {} => \A mv \in mvs : map[mv.partition] \cap went # {}

\* Carrying out a plan, or decommissioning what it left over, never leaves a
\* partition with fewer replicas than it had or than the machines allow, even
\* when pods died after the plan was made (rebalance.rs:74-88).
ControllerKeepsReplicas ==
  [][(\E mv \in moves : CarryOut(mv)) \/ (\E p \in Partition, m \in Machine : Retire(p, m))
     => \A p \in Partition :
          LET old == Cardinality(CurrentMap(pods)[p]) IN
          \/ Cardinality(CurrentMap(pods')[p]) >= old
          \/ Cardinality(CurrentMap(pods')[p]) >= Replicas(available)]_vars

=============================================================================
