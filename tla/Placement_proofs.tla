-------------------------- MODULE Placement_proofs --------------------------
(***************************************************************************)
(* Proofs about Placement: a plan is well formed, settles, and moves only  *)
(* what a change of machines forces it to; carrying it out never costs a   *)
(* partition a replica it had.                                             *)
(*                                                                         *)
(* The argument is about ranks.  A finite set of machines has a best one   *)
(* in the order of any partition, so a target has exactly as many machines *)
(* as it should; what a machine newly targeted outranks is then counted    *)
(* against the machines that went.                                         *)
(***************************************************************************)
EXTENDS Placement, FiniteSetTheorems, TLAPS

----------------------------------------------------------------------------
(* Least elements and cardinalities.                                       *)

LEMMA LeastOf ==
  ASSUME NEW T \in SUBSET Nat, T # {}
  PROVE  \E n \in T : \A m \in T : n <= m
<1>1. PICK n \in T : \A m \in T : <<m, n>> \notin OpToRel(<, Nat)
  BY NatLessThanWellFounded, WFMin
<1>2. \A m \in T : ~ (m < n)
  BY <1>1 DEF OpToRel
<1>3. QED  BY <1>2

\* Sets of machines are finite, and a proper subset is smaller.
LEMMA MachinesFinite ==
  ASSUME NEW S \in SUBSET Machine
  PROVE  /\ IsFiniteSet(S) /\ Cardinality(S) \in Nat
         /\ \A T \in SUBSET S : /\ IsFiniteSet(T) /\ Cardinality(T) \in Nat
                                /\ Cardinality(T) <= Cardinality(S)
                                /\ T # S => Cardinality(T) < Cardinality(S)
<1>1. IsFiniteSet(S)
  BY PlacementAssumption, FS_Subset
<1>2. ASSUME NEW T \in SUBSET S
      PROVE  /\ IsFiniteSet(T) /\ Cardinality(T) \in Nat /\ Cardinality(S) \in Nat
             /\ Cardinality(T) <= Cardinality(S)
             /\ T # S => Cardinality(T) < Cardinality(S)
  BY <1>1, FS_Subset, FS_CardinalityType
<1>3. QED  BY <1>1, <1>2, FS_CardinalityType

LEMMA UnionSize ==
  ASSUME NEW S, NEW T, IsFiniteSet(S), IsFiniteSet(T)
  PROVE  /\ IsFiniteSet(S \cup T) /\ Cardinality(S \cup T) \in Nat
         /\ Cardinality(S \cup T) <= Cardinality(S) + Cardinality(T)
         /\ S \cap T = {} => Cardinality(S \cup T) = Cardinality(S) + Cardinality(T)
<1>1. IsFiniteSet(S \cup T) /\ IsFiniteSet(S \cap T)
      /\ Cardinality(S \cup T) = Cardinality(S) + Cardinality(T) - Cardinality(S \cap T)
  BY FS_Union, FS_Intersection
<1>2. /\ Cardinality(S) \in Nat /\ Cardinality(T) \in Nat
      /\ Cardinality(S \cup T) \in Nat /\ Cardinality(S \cap T) \in Nat
  BY <1>1, FS_CardinalityType
<1>3. S \cap T = {} => Cardinality(S \cap T) = 0
  BY FS_EmptySet
<1> HIDE DEF Cardinality
<1>4. Cardinality(S \cup T) <= Cardinality(S) + Cardinality(T)
  BY <1>1, <1>2
<1>5. S \cap T = {} => Cardinality(S \cup T) = Cardinality(S) + Cardinality(T)
  BY <1>1, <1>2, <1>3
<1>6. QED  BY <1>1, <1>2, <1>4, <1>5

----------------------------------------------------------------------------
(* Ranks in name order.                                                    *)

\* No two machines of a set have the same place in it.
LEMMA PlacesDiffer ==
  ASSUME NEW S \in SUBSET Machine, NEW m \in S, NEW n \in S, Before(S, m) = Before(S, n)
  PROVE  m = n
<1>1. ASSUME NEW x \in S, NEW y \in S, x < y PROVE Before(S, x) < Before(S, y)
  <2> DEFINE X == {z \in S : z < x}
             Y == {z \in S : z < y}
  <2>0. (\A z \in S : z < x => z < y) /\ ~ (x < x)
    <3>1. \A z \in S : z \in Int
      BY PlacementAssumption
    <3>2. QED  BY <1>1, <3>1
  <2>1. X \in SUBSET Y /\ x \in Y /\ x \notin X
    BY <1>1, <2>0
  <2>2. Y \in SUBSET Machine /\ X # Y
    BY <2>1
  <2> HIDE DEF X, Y
  <2>3. Cardinality(X) < Cardinality(Y)
    BY <2>1, <2>2, MachinesFinite
  <2>4. QED  BY <2>3 DEF Before, X, Y
<1>2. Before(S, m) \in Nat /\ m \in Int /\ n \in Int
  BY MachinesFinite, PlacementAssumption DEF Before
<1>3. QED  BY <1>1, <1>2

\* What the pairing of two sets of machines is made of.
LEMMA PairingMoves ==
  ASSUME NEW p, NEW adds \in SUBSET Machine, NEW removes \in SUBSET Machine
  PROVE  /\ \A v \in Pairing(p, adds, removes) :
              /\ v.partition = p /\ v.to \in adds /\ v.from \in removes \cup {NoMachine}
              /\ v = [partition |-> p, to |-> v.to, from |-> v.from]
         /\ \A v, w \in Pairing(p, adds, removes) :
              v # w => v.to # w.to /\ (v.from = w.from => v.from = NoMachine)
<1>1. ASSUME NEW m
      PROVE  /\ Partner(adds, removes, m) \in removes \cup {NoMachine}
             /\ Partner(adds, removes, m) # NoMachine =>
                  Before(removes, Partner(adds, removes, m)) = Before(adds, m)
  BY DEF Partner
<1>2. ASSUME NEW m \in adds, NEW n \in adds, Partner(adds, removes, m) # NoMachine,
             Partner(adds, removes, m) = Partner(adds, removes, n)
      PROVE  m = n
  BY <1>1, <1>2, PlacesDiffer
<1>3. QED
  BY <1>1, <1>2 DEF Pairing

----------------------------------------------------------------------------
(* Ranks in the order of a partition.                                      *)

Scored == score \in Scores

LEMMA RankOrder ==
  ASSUME Scored, NEW p \in Partition
  PROVE  /\ \A m \in Machine : ~ Outranks(p, m, m)
         /\ \A l, m, n \in Machine : Outranks(p, l, m) /\ Outranks(p, m, n) => Outranks(p, l, n)
         /\ \A m, n \in Machine : m = n \/ Outranks(p, m, n) \/ Outranks(p, n, m)
<1>1. score \in [Partition \X Machine -> Nat] /\ Machine \subseteq Int
  BY PlacementAssumption DEF Scored
<1> DEFINE s(m) == score[p, m]
<1>2. \A m \in Machine : s(m) \in Nat /\ m \in Int
  BY <1>1
<1>3. \A m, n : Outranks(p, m, n) <=> s(m) > s(n) \/ (s(m) = s(n) /\ m < n)
  BY DEF Outranks
<1> HIDE DEF s
<1>4. QED  BY <1>2, <1>3

Above(p, m, S) == {n \in S : Outranks(p, n, m)}

LEMMA AboveGrows ==
  ASSUME Scored, NEW p \in Partition, NEW S \in SUBSET Machine,
         NEW m \in S, NEW n \in Machine, Outranks(p, m, n)
  PROVE  Cardinality(Above(p, m, S)) < Cardinality(Above(p, n, S))
<1>1. /\ Above(p, m, S) \in SUBSET Above(p, n, S)
      /\ m \in Above(p, n, S) /\ m \notin Above(p, m, S)
  BY RankOrder DEF Above
<1>2. Above(p, n, S) \in SUBSET Machine /\ Above(p, m, S) # Above(p, n, S)
  BY <1>1 DEF Above
<1>3. QED  BY <1>1, <1>2, MachinesFinite

\* A set of machines has a best one, and a worst one.
LEMMA BestOf ==
  ASSUME Scored, NEW p \in Partition, NEW S \in SUBSET Machine, S # {}
  PROVE  \E x \in S : \A n \in S : n # x => Outranks(p, x, n)
<1> DEFINE rank(m) == Cardinality(Above(p, m, S))
           T == {rank(m) : m \in S}
<1>1. ASSUME NEW m \in S PROVE rank(m) \in Nat
  BY MachinesFinite DEF Above
<1>2. T \in SUBSET Nat /\ T # {}
  BY <1>1
<1>3. PICK r \in T : \A s \in T : r <= s
  BY <1>2, LeastOf
<1>4. PICK x \in S : r = rank(x)
  BY <1>3
<1>5. ASSUME NEW n \in S, n # x PROVE Outranks(p, x, n)
  <2>1. CASE Outranks(p, n, x)
    <3>1. rank(n) < rank(x)
      BY <2>1, AboveGrows
    <3>2. rank(x) <= rank(n)
      BY <1>3, <1>4
    <3>3. QED  BY <1>1, <3>1, <3>2
  <2>2. QED  BY <1>5, <2>1, RankOrder
<1>6. QED  BY <1>5

LEMMA WorstOf ==
  ASSUME Scored, NEW p \in Partition, NEW S \in SUBSET Machine, S # {}
  PROVE  \E x \in S : \A n \in S : n # x => Outranks(p, n, x)
<1> DEFINE under(m) == {n \in S : Outranks(p, m, n)}
           rank(m) == Cardinality(under(m))
           T == {rank(m) : m \in S}
<1>1. ASSUME NEW m \in S PROVE rank(m) \in Nat
  BY MachinesFinite
<1>2. T \in SUBSET Nat /\ T # {}
  BY <1>1
<1>3. PICK r \in T : \A s \in T : r <= s
  BY <1>2, LeastOf
<1>4. PICK x \in S : r = rank(x)
  BY <1>3
<1>5. ASSUME NEW n \in S, n # x PROVE Outranks(p, n, x)
  <2>1. CASE Outranks(p, x, n)
    <3>1. under(n) \in SUBSET under(x) /\ n \in under(x) /\ n \notin under(n)
      BY <2>1, RankOrder
    <3>2. under(x) \in SUBSET Machine /\ under(n) # under(x)
      BY <3>1
    <3> HIDE DEF under
    <3>3. rank(n) < rank(x)
      BY <3>1, <3>2, MachinesFinite
    <3>4. rank(x) <= rank(n)
      BY <1>3, <1>4
    <3>5. QED  BY <1>1, <3>3, <3>4
  <2>2. QED  BY <1>5, <2>1, RankOrder
<1>6. QED  BY <1>5

----------------------------------------------------------------------------
(* What a plan is made of.                                                 *)

LEMMA CurrentMapType ==
  ASSUME NEW ps
  PROVE  CurrentMap(ps) \in [Partition -> SUBSET Machine]
  BY DEF CurrentMap

LEMMA MovesOfPlan ==
  ASSUME NEW map \in [Partition -> SUBSET Machine], NEW S \in SUBSET Machine
  PROVE  /\ \A v \in PlanMoves(map, S) :
              /\ v \in Move /\ S # {}
              /\ v.to \in Target(v.partition, S) \ map[v.partition]
              /\ v.from \in (map[v.partition] \ Target(v.partition, S)) \cup {NoMachine}
         /\ \A v, w \in PlanMoves(map, S) :
              v # w /\ v.partition = w.partition =>
                v.to # w.to /\ (v.from = w.from => v.from = NoMachine)
         /\ S # {} =>
              \A p \in Partition : \A t \in Target(p, S) \ map[p] :
                \E v \in PlanMoves(map, S) : v.partition = p /\ v.to = t
<1> DEFINE adds(p) == Target(p, S) \ map[p]
           removes(p) == map[p] \ Target(p, S)
<1>1. ASSUME NEW p \in Partition PROVE adds(p) \in SUBSET Machine /\ removes(p) \in SUBSET Machine
  BY DEF Target
<1>2. \A v : v \in PlanMoves(map, S)
               <=> S # {} /\ \E p \in Partition : v \in Pairing(p, adds(p), removes(p))
  BY DEF PlanMoves, Paired
<1> HIDE DEF adds, removes
<1>3. \A v \in PlanMoves(map, S) :
        /\ v.partition \in Partition /\ S # {}
        /\ v \in Pairing(v.partition, adds(v.partition), removes(v.partition))
  BY <1>1, <1>2, PairingMoves
<1>4. \A v \in PlanMoves(map, S) :
        /\ v \in Move /\ v.to \in adds(v.partition)
        /\ v.from \in removes(v.partition) \cup {NoMachine}
  <2> TAKE v \in PlanMoves(map, S)
  <2>1. v.partition \in Partition /\ adds(v.partition) \in SUBSET Machine
        /\ removes(v.partition) \in SUBSET Machine
    BY <1>1, <1>3
  <2>2. /\ v.to \in adds(v.partition) /\ v.from \in removes(v.partition) \cup {NoMachine}
        /\ v = [partition |-> v.partition, to |-> v.to, from |-> v.from]
    BY <1>3, <2>1, PairingMoves
  <2>3. QED  BY <2>1, <2>2 DEF Move
<1>5. ASSUME NEW v \in PlanMoves(map, S), NEW w \in PlanMoves(map, S),
             v # w, v.partition = w.partition
      PROVE  v.to # w.to /\ (v.from = w.from => v.from = NoMachine)
  BY <1>1, <1>3, <1>5, PairingMoves
<1>6. ASSUME NEW p \in Partition, NEW t \in adds(p), S # {}
      PROVE  \E v \in PlanMoves(map, S) : v.partition = p /\ v.to = t
  <2> DEFINE v == [partition |-> p, to |-> t, from |-> Partner(adds(p), removes(p), t)]
  <2>1. v \in Pairing(p, adds(p), removes(p))
    BY DEF Pairing
  <2>2. v \in PlanMoves(map, S)
    BY <1>2, <1>6, <2>1
  <2>3. v.partition = p /\ v.to = t
    OBVIOUS
  <2>4. QED  BY <2>2, <2>3
<1>7. \A v \in PlanMoves(map, S) :
        /\ v.to \in Target(v.partition, S) \ map[v.partition]
        /\ v.from \in (map[v.partition] \ Target(v.partition, S)) \cup {NoMachine}
  BY <1>4 DEF adds, removes
<1>8. S # {} => \A p \in Partition : \A t \in Target(p, S) \ map[p] :
                  \E v \in PlanMoves(map, S) : v.partition = p /\ v.to = t
  BY <1>6 DEF adds
<1>9. QED  BY <1>3, <1>4, <1>5, <1>7, <1>8

----------------------------------------------------------------------------
(* Types, and plans that settle.                                           *)

LEMMA TypeInit == Init => TypeOK
  BY DEF Init, TypeOK, Pod

LEMMA TypeNext ==
  ASSUME TypeOK, [Next]_vars
  PROVE  TypeOK'
<1> USE DEF TypeOK
<1>1. CASE \E m \in Machine : PodStarts(m) \/ PodDies(m) \/ Offer(m) \/ Withdraw(m)
  <2>1. PICK m \in Machine : PodStarts(m) \/ PodDies(m) \/ Offer(m) \/ Withdraw(m)
    BY <1>1
  <2>2. CASE PodStarts(m)
    BY <2>2 DEF PodStarts, Pod
  <2>3. CASE PodDies(m)
    BY <2>3 DEF PodDies, Pod
  <2>4. CASE Offer(m)
    BY <2>4 DEF Offer
  <2>5. CASE Withdraw(m)
    BY <2>5 DEF Withdraw
  <2>6. QED  BY <2>1, <2>2, <2>3, <2>4, <2>5
<1>2. CASE MakePlan
  BY <1>2, CurrentMapType, MovesOfPlan DEF MakePlan
<1>3. ASSUME NEW mv \in moves, CarryOut(mv) PROVE TypeOK'
  <2>1. mv.partition \in Partition
    BY DEF Move
  <2>2. pods' \in [Machine -> Pod]
    BY <1>3, <2>1 DEF CarryOut, Pod
  <2>3. QED  BY <1>3, <2>2 DEF CarryOut
<1>4. ASSUME NEW p \in Partition, NEW m \in Machine, Retire(p, m) PROVE TypeOK'
  BY <1>4 DEF Retire, Pod
<1>5. CASE UNCHANGED vars
  BY <1>5 DEF vars
<1>6. QED  BY <1>1, <1>2, <1>3, <1>4, <1>5 DEF Next

\* Type correctness: pods and moves are what they should be, and the moves of
\* a plan take no machine twice for one partition (rebalance.rs, plan).
THEOREM WellFormedPlans == Spec => []TypeOK
  BY TypeInit, TypeNext, PTL DEF Spec

LEMMA SettlesOf == TypeOK => PlanSettles
<1> SUFFICES ASSUME TypeOK PROVE PlanSettles
  OBVIOUS
<1> DEFINE map == CurrentMap(pods)
           mvs == PlanMoves(map, available)
           left == After(map, mvs)
<1>1. map \in [Partition -> SUBSET Machine] /\ available \in SUBSET Machine
  BY CurrentMapType DEF TypeOK
<1>2. ASSUME available # {}, NEW p \in Partition
      PROVE  Paired(p, left[p], Target(p, available)) = {}
  <2>1. ASSUME NEW t \in Target(p, available) PROVE t \in left[p]
    <3>0. t \in Machine /\ t # NoMachine
      BY <1>1, PlacementAssumption DEF Target
    <3>1. CASE t \in map[p]
      <4>1. \A v \in mvs : v.partition = p => v.from # t
        BY <1>1, <2>1, <3>0, MovesOfPlan
      <4> HIDE DEF mvs, map
      <4>2. QED  BY <3>1, <4>1 DEF After
    <3>2. CASE t \notin map[p]
      <4>1. \E v \in mvs : v.partition = p /\ v.to = t
        BY <1>1, <1>2, <3>2, MovesOfPlan
      <4> HIDE DEF mvs, map
      <4>2. QED  BY <4>1 DEF After
    <3>3. QED  BY <3>1, <3>2
  <2> HIDE DEF left
  <2>2. Target(p, available) \ left[p] = {}
    BY <2>1
  <2>3. QED  BY <2>2 DEF Paired, Pairing
<1>3. PlanMoves(left, available) = {}
  <2> HIDE DEF left
  <2>1. QED  BY <1>2 DEF PlanMoves
<1>4. QED  BY <1>3 DEF PlanSettles

\* A plan that is carried out leaves nothing for the next one to move
\* (rebalance.rs, plan).
THEOREM PlansSettle == Spec => []PlanSettles
  BY WellFormedPlans, SettlesOf, PTL

----------------------------------------------------------------------------
(* How many machines a target has.                                         *)

LEMMA ReplicasType ==
  ASSUME NEW S \in SUBSET Machine
  PROVE  /\ Replicas(S) \in Nat /\ Replicas(S) <= Cardinality(S)
         /\ Replicas(S) <= ReplicationFactor
         /\ Replicas(S) < ReplicationFactor => Replicas(S) = Cardinality(S)
<1>1. Cardinality(S) \in Nat /\ ReplicationFactor \in Nat
  BY MachinesFinite, PlacementAssumption
<1>2. QED  BY <1>1 DEF Replicas

LEMMA TargetByRank ==
  ASSUME NEW p, NEW S
  PROVE  Target(p, S) = {m \in S : Cardinality(Above(p, m, S)) < Replicas(S)}
  BY DEF Target, Above

\* What outranks a target is a target.
LEMMA UpClosed ==
  ASSUME Scored, NEW p \in Partition, NEW S \in SUBSET Machine, NEW n \in Target(p, S)
  PROVE  Above(p, n, S) \in SUBSET Target(p, S)
<1>1. ASSUME NEW m \in Above(p, n, S) PROVE m \in Target(p, S)
  <2>1. n \in S /\ m \in S /\ n \in Machine /\ m \in Machine /\ Outranks(p, m, n)
    BY DEF Above, Target
  <2>2. Cardinality(Above(p, m, S)) < Cardinality(Above(p, n, S))
    BY <2>1, AboveGrows
  <2>3. Cardinality(Above(p, n, S)) < Replicas(S)
    BY TargetByRank
  <2>4. /\ Cardinality(Above(p, m, S)) \in Nat /\ Cardinality(Above(p, n, S)) \in Nat
        /\ Replicas(S) \in Nat
    BY MachinesFinite, ReplicasType DEF Above
  <2>5. Cardinality(Above(p, m, S)) < Replicas(S)
    BY <2>2, <2>3, <2>4
  <2>6. QED  BY <2>1, <2>5, TargetByRank
<1>2. QED  BY <1>1

LEMMA TargetSize ==
  ASSUME Scored, NEW p \in Partition, NEW S \in SUBSET Machine
  PROVE  Target(p, S) \in SUBSET S /\ Cardinality(Target(p, S)) = Replicas(S)
<1> DEFINE T == Target(p, S)
<1>1. T \in SUBSET S /\ T \in SUBSET Machine
  BY DEF Target
<1>2. Cardinality(T) \in Nat /\ Cardinality(S) \in Nat /\ IsFiniteSet(T) /\ Replicas(S) \in Nat
      /\ Replicas(S) <= Cardinality(S)
  BY <1>1, MachinesFinite, ReplicasType
<1>3. ASSUME Cardinality(T) < Replicas(S) PROVE FALSE
  <2>1. S \ T # {} /\ S \ T \in SUBSET Machine
    BY <1>1, <1>2, <1>3
  <2>2. PICK x \in S \ T : \A n \in S \ T : n # x => Outranks(p, x, n)
    BY <2>1, BestOf
  <2>3. Above(p, x, S) \in SUBSET T
    BY <2>2, RankOrder DEF Above
  <2>4. Cardinality(Above(p, x, S)) <= Cardinality(T) /\ Cardinality(Above(p, x, S)) \in Nat
    BY <1>1, <2>3, MachinesFinite
  <2>5. Cardinality(Above(p, x, S)) < Replicas(S)
    BY <1>2, <1>3, <2>4
  <2>6. QED  BY <2>2, <2>5, TargetByRank
<1>4. Cardinality(T) <= Replicas(S)
  <2>1. CASE T = {}
    BY <1>2, <2>1, FS_EmptySet
  <2>2. CASE T # {}
    <3>1. PICK x \in T : \A n \in T : n # x => Outranks(p, n, x)
      BY <1>1, <2>2, WorstOf
    <3>2. T \ {x} \in SUBSET Above(p, x, S) /\ Above(p, x, S) \in SUBSET Machine
      BY <1>1, <3>1 DEF Above
    <3>3. Cardinality(T \ {x}) <= Cardinality(Above(p, x, S))
          /\ Cardinality(Above(p, x, S)) \in Nat
      BY <3>2, MachinesFinite
    <3>4. Cardinality(T \ {x}) = Cardinality(T) - 1
      BY <1>2, <3>1, FS_RemoveElement
    <3>5. Cardinality(Above(p, x, S)) < Replicas(S)
      BY <3>1, TargetByRank
    <3>6. QED  BY <1>2, <3>3, <3>4, <3>5
  <2>3. QED  BY <2>1, <2>2
<1>5. QED  BY <1>1, <1>2, <1>3, <1>4

----------------------------------------------------------------------------
(* What a change of machines can bring into a target.                      *)

Newcomers(p, A, S) == Target(p, A) \ Target(p, S)

\* The newcomers that were there before are no more than the machines that went.
LEMMA Promoted ==
  ASSUME Scored, NEW p \in Partition, NEW A \in SUBSET Machine, NEW S \in SUBSET Machine
  PROVE  Cardinality(Newcomers(p, A, S) \cap S) <= Cardinality(S \ A)
<1> DEFINE N == Newcomers(p, A, S) \cap S
<1>1. N \in SUBSET Machine /\ N \in SUBSET Target(p, A)
  BY DEF Newcomers
<1>2. Cardinality(S \ A) \in Nat /\ Cardinality(N) \in Nat /\ IsFiniteSet(N) /\ IsFiniteSet(S \ A)
  BY <1>1, MachinesFinite
<1>3. CASE N = {}
  BY <1>2, <1>3, FS_EmptySet
<1>4. CASE N # {}
  <2>1. PICK b \in N : \A n \in N : n # b => Outranks(p, b, n)
    BY <1>1, <1>4, BestOf
  <2> DEFINE B == Above(p, b, A)
             C == Above(p, b, S)
  <2>2. b \in Target(p, A) /\ b \in S /\ b \notin Target(p, S) /\ b \in Machine
    BY DEF Newcomers
  <2>3. B \in SUBSET Target(p, A)
    BY <2>2, UpClosed
  <2>4. B \cap N = {}
    BY <1>1, <2>1, RankOrder DEF Above
  <2>5. B \in SUBSET Machine /\ C \in SUBSET S /\ C \in SUBSET Machine /\ b \notin C
    BY <2>2, RankOrder DEF Above
  <2>6. C \in SUBSET (B \cup (S \ A))
    BY DEF Above
  <2>7. ~ (Cardinality(C) < Replicas(S))
    BY <2>2, TargetByRank
  <2> HIDE DEF B, C, N
  <2>8. /\ IsFiniteSet(B) /\ Cardinality(B) \in Nat /\ Cardinality(C) \in Nat
        /\ Cardinality(S) \in Nat /\ Replicas(S) \in Nat /\ Replicas(A) \in Nat
        /\ ReplicationFactor \in Nat
    BY <2>5, MachinesFinite, ReplicasType, PlacementAssumption
  <2>9. Cardinality(B) + Cardinality(N) <= Replicas(A)
    <3>1. Cardinality(B \cup N) = Cardinality(B) + Cardinality(N)
      BY <1>2, <2>4, <2>8, UnionSize
    <3>2. B \cup N \in SUBSET Target(p, A) /\ Target(p, A) \in SUBSET Machine
      BY <1>1, <2>3, TargetSize
    <3>3. Cardinality(B \cup N) <= Cardinality(Target(p, A))
      BY <3>2, MachinesFinite
    <3>4. Cardinality(Target(p, A)) = Replicas(A)
      BY TargetSize
    <3>5. QED  BY <3>1, <3>3, <3>4
  <2>10. Cardinality(C) <= Cardinality(B) + Cardinality(S \ A)
    <3>1. /\ IsFiniteSet(B \cup (S \ A)) /\ Cardinality(B \cup (S \ A)) \in Nat
          /\ Cardinality(B \cup (S \ A)) <= Cardinality(B) + Cardinality(S \ A)
      BY <1>2, <2>8, UnionSize
    <3>2. Cardinality(C) <= Cardinality(B \cup (S \ A))
      BY <2>6, <3>1, FS_Subset
    <3>3. QED  BY <1>2, <2>8, <3>1, <3>2
  <2>11. Cardinality(C) < Cardinality(S)
    BY <2>2, <2>5, MachinesFinite
  <2>12. Replicas(A) <= Replicas(S)
    BY <2>7, <2>8, <2>11, ReplicasType
  <2>13. Cardinality(N) <= Cardinality(S \ A)
    BY <1>2, <2>7, <2>8, <2>9, <2>10, <2>12
  <2>14. QED  BY <2>13 DEF N
<1>5. QED  BY <1>3, <1>4

\* What a change of machines adds to a target: no more machines than came or
\* went, nothing but machines that came when none went, and nothing at all to
\* a target that lost no machine when none came.
LEMMA NewcomersOf ==
  ASSUME Scored, NEW p \in Partition, NEW A \in SUBSET Machine, NEW S \in SUBSET Machine
  PROVE  /\ Cardinality(Newcomers(p, A, S)) <= Cardinality(A \ S) + Cardinality(S \ A)
         /\ S \ A = {} => Newcomers(p, A, S) \in SUBSET (A \ S)
         /\ A \ S = {} /\ Newcomers(p, A, S) # {} => Target(p, S) \cap (S \ A) # {}
<1> DEFINE N == Newcomers(p, A, S)
<1>1. N \in SUBSET A /\ N \in SUBSET Machine /\ N \in SUBSET ((N \cap S) \cup (A \ S))
  BY DEF Newcomers, Target
<1>2. /\ IsFiniteSet(N \cap S) /\ Cardinality(N \cap S) \in Nat
      /\ IsFiniteSet(A \ S) /\ Cardinality(A \ S) \in Nat
      /\ Cardinality(S \ A) \in Nat
  <2>1. N \cap S \in SUBSET Machine
    BY <1>1
  <2>2. QED  BY <2>1, MachinesFinite
<1>3. Cardinality(N \cap S) <= Cardinality(S \ A)
  BY Promoted
<1>4. Cardinality(N) <= Cardinality(A \ S) + Cardinality(S \ A)
  <2> HIDE DEF N
  <2>1. /\ IsFiniteSet((N \cap S) \cup (A \ S)) /\ Cardinality((N \cap S) \cup (A \ S)) \in Nat
        /\ Cardinality((N \cap S) \cup (A \ S)) <= Cardinality(N \cap S) + Cardinality(A \ S)
    BY <1>2, UnionSize
  <2>2. Cardinality(N) <= Cardinality((N \cap S) \cup (A \ S)) /\ Cardinality(N) \in Nat
    BY <1>1, <2>1, FS_Subset, FS_CardinalityType
  <2>3. QED  BY <1>2, <1>3, <2>1, <2>2
<1>5. ASSUME S \ A = {} PROVE N \in SUBSET (A \ S)
  <2> HIDE DEF N
  <2>1. Cardinality(S \ A) = 0
    BY <1>5, FS_EmptySet
  <2>2. Cardinality(N \cap S) = 0
    BY <1>2, <1>3, <2>1
  <2>3. N \cap S = {}
    BY <1>2, <2>2, FS_EmptySet
  <2>4. QED  BY <1>1, <2>3
<1>6. ASSUME A \ S = {}, N # {}, Target(p, S) \cap (S \ A) = {} PROVE FALSE
  <2>1. PICK n \in N : TRUE
    BY <1>6
  <2>2. n \in A /\ n \in S /\ n \in Machine /\ n \in Target(p, A) /\ n \notin Target(p, S)
    BY <1>1, <1>6, <2>1 DEF Newcomers
  <2>3. A \in SUBSET S /\ Target(p, S) \in SUBSET S /\ Target(p, S) \in SUBSET Machine
    BY <1>6, TargetSize
  <2>4. Target(p, S) \in SUBSET Above(p, n, A)
    <3>1. ASSUME NEW t \in Target(p, S) PROVE Outranks(p, t, n)
      <4>1. t \in Machine /\ n # t
        BY <2>2, <2>3
      <4>2. ~ Outranks(p, n, t)
        BY <2>2, UpClosed DEF Above
      <4>3. QED  BY <2>2, <4>1, <4>2, RankOrder
    <3>2. QED  BY <1>6, <2>3, <3>1 DEF Above
  <2>5. /\ Cardinality(Target(p, S)) <= Cardinality(Above(p, n, A))
        /\ Cardinality(Above(p, n, A)) \in Nat
    <3>1. Above(p, n, A) \in SUBSET Machine
      BY DEF Above
    <3>2. QED  BY <2>4, <3>1, MachinesFinite
  <2>6. Cardinality(Target(p, S)) = Replicas(S)
    BY TargetSize
  <2>7. Cardinality(Above(p, n, A)) < Replicas(A)
    BY <2>2, TargetByRank
  <2>8. Cardinality(A) <= Cardinality(S) /\ Cardinality(A) \in Nat /\ Cardinality(S) \in Nat
    BY <2>3, MachinesFinite
  <2>9. Replicas(A) <= Replicas(S) /\ Replicas(A) \in Nat /\ Replicas(S) \in Nat
    BY <2>8, ReplicasType, PlacementAssumption DEF Replicas
  <2>10. QED  BY <2>5, <2>6, <2>7, <2>9
<1>7. QED  BY <1>4, <1>5, <1>6

LEMMA MovesOwnOf == TypeOK => ChangeMovesOnlyItsOwn
<1> SUFFICES ASSUME TypeOK, NEW S \in SUBSET Machine,
                    \A p \in Partition : CurrentMap(pods)[p] = Target(p, S)
             PROVE  LET map == CurrentMap(pods)
                        mvs == PlanMoves(map, available)
                        came == available \ S
                        went == S \ available
                    IN /\ \A p \in Partition :
                            Cardinality({mv \in mvs : mv.partition = p})
                              <= Cardinality(came) + Cardinality(went)
                       /\ went = {} => \A mv \in mvs : mv.to \in came
                       /\ came = {} => \A mv \in mvs : map[mv.partition] \cap went # {}
  BY DEF ChangeMovesOnlyItsOwn
<1> DEFINE map == CurrentMap(pods)
           mvs == PlanMoves(map, available)
           of(p) == {mv \in mvs : mv.partition = p}
           new(p) == Newcomers(p, available, S)
<1>1. /\ map \in [Partition -> SUBSET Machine] /\ available \in SUBSET Machine /\ Scored
      /\ \A p \in Partition : map[p] = Target(p, S)
  BY CurrentMapType DEF TypeOK, Scored
<1> HIDE DEF map
<1>2. \A mv \in mvs : mv.partition \in Partition /\ mv.to \in new(mv.partition)
  BY <1>1, MovesOfPlan DEF Newcomers, Move
<1>3. ASSUME NEW p \in Partition
      PROVE  Cardinality(of(p)) <= Cardinality(available \ S) + Cardinality(S \ available)
  <2> DEFINE f == [mv \in of(p) |-> mv.to]
  <2>1. \A v, w \in of(p) : v # w => v.to # w.to
    BY <1>1, MovesOfPlan
  <2>2. \A v \in of(p) : v.to \in new(p)
    BY <1>2
  <2>3. new(p) \in SUBSET Machine
    BY <1>1 DEF Newcomers, Target
  <2>4. IsFiniteSet(new(p)) /\ Cardinality(new(p)) \in Nat
    BY <2>3, MachinesFinite
  <2>5. Cardinality(new(p)) <= Cardinality(available \ S) + Cardinality(S \ available)
    BY <1>1, NewcomersOf
  <2> HIDE DEF of, new
  <2>6. f \in Injection(of(p), new(p))
    BY <2>1, <2>2 DEF Injection, IsInjective
  <2> HIDE DEF f
  <2>7. IsFiniteSet(of(p)) /\ Cardinality(of(p)) <= Cardinality(new(p))
    BY <2>4, <2>6, FS_Injection
  <2>8. Cardinality(of(p)) \in Nat
    BY <2>7, FS_CardinalityType
  <2>9. Cardinality(available \ S) \in Nat /\ Cardinality(S \ available) \in Nat
    BY <1>1, MachinesFinite
  <2>10. QED  BY <2>4, <2>5, <2>7, <2>8, <2>9
<1>4. ASSUME S \ available = {}, NEW mv \in mvs PROVE mv.to \in available \ S
  <2>1. mv.partition \in Partition /\ mv.to \in new(mv.partition)
    BY <1>2
  <2>2. new(mv.partition) \in SUBSET (available \ S)
    BY <1>1, <1>4, <2>1, NewcomersOf
  <2>3. QED  BY <2>1, <2>2
<1>5. ASSUME available \ S = {}, NEW mv \in mvs
      PROVE  map[mv.partition] \cap (S \ available) # {}
  <2>1. mv.partition \in Partition /\ new(mv.partition) # {}
    BY <1>2
  <2>2. Target(mv.partition, S) \cap (S \ available) # {}
    BY <1>1, <1>5, <2>1, NewcomersOf
  <2>3. QED  BY <1>1, <2>1, <2>2
<1>6. QED  BY <1>3, <1>4, <1>5 DEF map

\* A change of machines moves only what it must (rebalance.rs:11-14).
THEOREM ChangesMoveOnlyTheirOwn == Spec => []ChangeMovesOnlyItsOwn
  BY WellFormedPlans, MovesOwnOf, PTL

----------------------------------------------------------------------------
(* Carrying a plan out.                                                    *)

\* The inductive invariant.  A pod without an address hosts nothing, so what is
\* missing from the map is missing from the pod; the target of a move still
\* lacks the partition, because no other move brings it there.
PlanInv ==
  /\ TypeOK
  /\ \A m \in Machine : ~ pods[m].ip => pods[m].partitions = {}
  /\ \A mv \in moves : mv.from # mv.to /\ mv.partition \notin pods[mv.to].partitions

LEMMA PlanInit == Init => PlanInv
  BY TypeInit DEF Init, PlanInv

\* What carrying out a move makes of the partitions of a machine.
LEMMA CarryOutDoes ==
  ASSUME TypeOK, NEW mv \in moves, CarryOut(mv)
  PROVE  /\ mv \in Move
         /\ ~ pods[mv.to].ip => pods' = pods
         /\ pods[mv.to].ip =>
              \A m \in Machine :
                /\ pods'[m].ip = pods[m].ip
                /\ \A p : p \in pods'[m].partitions <=>
                           \/ m = mv.to /\ p = mv.partition
                           \/ /\ p \in pods[m].partitions
                              /\ ~ (m = mv.from /\ m # mv.to /\ p = mv.partition)
<1>1. mv \in Move /\ \A m \in Machine : pods[m] \in Pod
  BY DEF TypeOK
<1>2. ASSUME pods[mv.to].ip, NEW m \in Machine
      PROVE  /\ pods'[m].ip = pods[m].ip
             /\ pods'[m].partitions =
                  IF m = mv.to THEN pods[m].partitions \cup {mv.partition}
                  ELSE IF m = mv.from THEN pods[m].partitions \ {mv.partition}
                  ELSE pods[m].partitions
  BY <1>1, <1>2 DEF CarryOut, Pod
<1>3. ~ pods[mv.to].ip => pods' = pods
  BY DEF CarryOut
<1>4. ASSUME pods[mv.to].ip, NEW m \in Machine, NEW p
      PROVE  p \in pods'[m].partitions <=>
               \/ m = mv.to /\ p = mv.partition
               \/ /\ p \in pods[m].partitions
                  /\ ~ (m = mv.from /\ m # mv.to /\ p = mv.partition)
  <2>1. CASE m = mv.to
    <3>1. pods'[m].partitions = pods[m].partitions \cup {mv.partition}
      BY <1>2, <1>4, <2>1
    <3>2. QED  BY <2>1, <3>1
  <2>2. CASE m # mv.to /\ m = mv.from
    BY <1>2, <1>4, <2>2
  <2>3. CASE m # mv.to /\ m # mv.from
    BY <1>2, <1>4, <2>3
  <2>4. QED  BY <2>1, <2>2, <2>3
<1>5. QED  BY <1>1, <1>2, <1>3, <1>4

LEMMA RetireDoes ==
  ASSUME TypeOK, NEW p \in Partition, NEW m \in Machine, Retire(p, m)
  PROVE  \A n \in Machine :
           /\ pods'[n].ip = pods[n].ip
           /\ \A q : q \in pods'[n].partitions <=>
                      q \in pods[n].partitions /\ (n = m => q # p)
<1>1. pods \in [Machine -> Pod]
  BY DEF TypeOK
<1>2. ASSUME NEW n \in Machine
      PROVE  /\ pods'[n].ip = pods[n].ip
             /\ pods'[n].partitions =
                  IF n = m THEN pods[n].partitions \ {p} ELSE pods[n].partitions
  BY <1>1 DEF Retire, Pod
<1>3. QED  BY <1>2

LEMMA PlanNext ==
  ASSUME PlanInv, [Next]_vars
  PROVE  PlanInv'
<1>0. TypeOK'
  BY TypeNext DEF PlanInv
<1> USE DEF PlanInv
<1>1. ASSUME NEW m \in Machine, PodStarts(m) PROVE PlanInv'
  <2>1. \A n \in Machine : /\ pods'[n].partitions = pods[n].partitions
                           /\ pods[n].ip => pods'[n].ip
    BY <1>1 DEF PodStarts, TypeOK, Pod
  <2>2. moves' = moves /\ \A mv \in moves : mv.to \in Machine
    BY <1>1 DEF PodStarts, TypeOK, Move
  <2>3. QED  BY <1>0, <2>1, <2>2
<1>2. ASSUME NEW m \in Machine, PodDies(m) PROVE PlanInv'
  <2>1. \A n \in Machine : /\ pods'[n].partitions \in SUBSET pods[n].partitions
                           /\ ~ pods'[n].ip => pods'[n].partitions = {}
    BY <1>2 DEF PodDies, TypeOK, Pod
  <2>2. moves' = moves /\ \A mv \in moves : mv.to \in Machine
    BY <1>2 DEF PodDies, TypeOK, Move
  <2>3. QED  BY <1>0, <2>1, <2>2
<1>3. ASSUME NEW m \in Machine, Offer(m) \/ Withdraw(m) PROVE PlanInv'
  BY <1>0, <1>3 DEF Offer, Withdraw
<1>4. CASE MakePlan
  <2>1. /\ CurrentMap(pods) \in [Partition -> SUBSET Machine] /\ available \in SUBSET Machine
        /\ pods' = pods /\ moves' = PlanMoves(CurrentMap(pods), available)
    BY <1>4, CurrentMapType DEF MakePlan, TypeOK
  <2>2. ASSUME NEW mv \in moves'
        PROVE  mv.from # mv.to /\ mv.partition \notin pods[mv.to].partitions
    <3>1. /\ mv \in Move
          /\ mv.to \in Target(mv.partition, available) \ CurrentMap(pods)[mv.partition]
          /\ mv.from \in (CurrentMap(pods)[mv.partition] \ Target(mv.partition, available))
                           \cup {NoMachine}
      BY <2>1, MovesOfPlan
    <3>2. mv.partition \in Partition /\ mv.to \in Machine
      BY <3>1 DEF Move
    <3>3. ~ (pods[mv.to].ip /\ mv.partition \in pods[mv.to].partitions)
      BY <3>1, <3>2 DEF CurrentMap
    <3>4. mv.from # mv.to
      BY <3>1, <3>2, PlacementAssumption
    <3>5. QED  BY <3>2, <3>3, <3>4
  <2>3. QED  BY <1>0, <2>1, <2>2
<1>5. ASSUME NEW mv \in moves, CarryOut(mv) PROVE PlanInv'
  <2>1. moves' = moves \ {mv}
    BY <1>5 DEF CarryOut
  <2>2. CASE ~ pods[mv.to].ip
    BY <1>0, <1>5, <2>1, <2>2, CarryOutDoes
  <2>3. CASE pods[mv.to].ip
    <3>1. \A m \in Machine : ~ pods'[m].ip => pods'[m].partitions = {}
      BY <1>5, <2>3, CarryOutDoes
    <3>2. ASSUME NEW w \in moves' PROVE w.partition \notin pods'[w.to].partitions
      <4>1. w \in moves /\ w # mv /\ w.to \in Machine /\ w.partition \notin pods[w.to].partitions
        BY <2>1 DEF TypeOK, Move
      <4>2. w.to # mv.to \/ w.partition # mv.partition
        BY <4>1 DEF TypeOK
      <4>3. QED  BY <1>5, <2>3, <4>1, <4>2, CarryOutDoes
    <3>3. QED  BY <1>0, <2>1, <3>1, <3>2
  <2>4. QED  BY <2>2, <2>3
<1>6. ASSUME NEW p \in Partition, NEW m \in Machine, Retire(p, m) PROVE PlanInv'
  BY <1>0, <1>6, RetireDoes DEF Retire
<1>7. CASE UNCHANGED vars
  BY <1>0, <1>7 DEF vars
<1>8. QED  BY <1>1, <1>2, <1>3, <1>4, <1>5, <1>6, <1>7 DEF Next

KeepsReplicas ==
  (\E mv \in moves : CarryOut(mv)) \/ (\E p \in Partition, m \in Machine : Retire(p, m))
    => \A p \in Partition :
         LET old == Cardinality(CurrentMap(pods)[p]) IN
         \/ Cardinality(CurrentMap(pods')[p]) >= old
         \/ Cardinality(CurrentMap(pods')[p]) >= Replicas(available)

LEMMA StepKeepsReplicas == PlanInv /\ [Next]_vars => KeepsReplicas
<1> SUFFICES ASSUME PlanInv PROVE KeepsReplicas
  OBVIOUS
<1> DEFINE map == CurrentMap(pods)
           new == CurrentMap(pods')
<1>0. \A p \in Partition : /\ map[p] = {m \in Machine : pods[m].ip /\ p \in pods[m].partitions}
                           /\ new[p] = {m \in Machine : pods'[m].ip /\ p \in pods'[m].partitions}
  BY DEF CurrentMap
<1> HIDE DEF map, new
<1>1. ASSUME NEW p \in Partition
      PROVE  /\ map[p] \in SUBSET Machine /\ new[p] \in SUBSET Machine
             /\ IsFiniteSet(map[p]) /\ Cardinality(map[p]) \in Nat /\ Cardinality(new[p]) \in Nat
  <2>1. map[p] \in SUBSET Machine /\ new[p] \in SUBSET Machine
    BY <1>0
  <2>2. QED  BY <2>1, MachinesFinite
<1>2. ASSUME NEW mv \in moves, CarryOut(mv), NEW p \in Partition
      PROVE  Cardinality(new[p]) >= Cardinality(map[p])
  <2>1. mv.to \in Machine /\ mv.from # mv.to /\ mv.partition \notin pods[mv.to].partitions
    BY DEF PlanInv, TypeOK, Move
  <2>2. CASE ~ pods[mv.to].ip \/ p # mv.partition
    <3>1. new[p] = map[p]
      <4>1. \A m \in Machine : /\ pods'[m].ip = pods[m].ip
                               /\ p \in pods'[m].partitions <=> p \in pods[m].partitions
        BY <1>2, <2>2, CarryOutDoes DEF PlanInv
      <4>2. QED  BY <1>0, <4>1
    <3>2. QED  BY <1>1, <3>1
  <2>3. CASE pods[mv.to].ip /\ p = mv.partition
    <3>1. map[p] \ {mv.from} \in SUBSET new[p] /\ mv.to \in new[p]
      BY <1>0, <1>2, <2>1, <2>3, CarryOutDoes DEF PlanInv
    <3>2. mv.to \notin map[p]
      BY <1>0, <2>1, <2>3
    <3> DEFINE rest == map[p] \ {mv.from}
    <3>3. /\ IsFiniteSet(rest) /\ Cardinality(rest) \in Nat
          /\ Cardinality(rest) >= Cardinality(map[p]) - 1
      <4>1. /\ IsFiniteSet(rest)
            /\ Cardinality(rest) = IF mv.from \in map[p] THEN Cardinality(map[p]) - 1
                                   ELSE Cardinality(map[p])
        BY <1>1, FS_RemoveElement
      <4> HIDE DEF rest
      <4>2. Cardinality(rest) \in Nat
        BY <4>1, FS_CardinalityType
      <4>3. QED  BY <1>1, <4>1, <4>2
    <3>4. rest \in SUBSET new[p] /\ mv.to \in new[p] /\ mv.to \notin rest
      BY <3>1, <3>2
    <3> HIDE DEF rest
    <3>5. Cardinality(rest) < Cardinality(new[p])
      BY <1>1, <3>4, MachinesFinite
    <3>6. QED  BY <1>1, <3>3, <3>5
  <2>4. QED  BY <2>2, <2>3
<1>3. ASSUME NEW q \in Partition, NEW m \in Machine, Retire(q, m), NEW p \in Partition
      PROVE  \/ Cardinality(new[p]) >= Cardinality(map[p])
             \/ Cardinality(new[p]) >= Replicas(available)
  <2>1. CASE p # q
    <3>1. \A n \in Machine : /\ pods'[n].ip = pods[n].ip
                             /\ p \in pods'[n].partitions <=> p \in pods[n].partitions
      BY <1>3, <2>1, RetireDoes DEF PlanInv
    <3>2. new[p] = map[p]
      BY <1>0, <3>1
    <3>3. QED  BY <1>1, <3>2
  <2>2. CASE p = q
    <3>1. Target(p, available) \in SUBSET map[p] /\ m \notin Target(p, available)
      BY <1>3, <2>2 DEF Retire, map
    <3>2. map[p] \ {m} \in SUBSET new[p]
      BY <1>0, <1>3, <2>2, RetireDoes DEF PlanInv
    <3>3. Target(p, available) \in SUBSET new[p]
      BY <3>1, <3>2
    <3>4. available \in SUBSET Machine /\ Scored
      BY DEF PlanInv, TypeOK, Scored
    <3>5. Cardinality(Target(p, available)) = Replicas(available)
      BY <3>4, TargetSize
    <3>6. /\ Cardinality(Target(p, available)) <= Cardinality(new[p])
          /\ Cardinality(Target(p, available)) \in Nat
      BY <1>1, <3>3, MachinesFinite
    <3>7. QED  BY <1>1, <3>5, <3>6
  <2>3. QED  BY <2>1, <2>2
<1>4. QED  BY <1>2, <1>3 DEF KeepsReplicas, map, new

\* No step of the controller costs a partition a replica that the plan does not
\* bring back or that the machines allow, even when pods died after the plan
\* was made (rebalance.rs:74-88).
THEOREM ReplicasAreKept == Spec => ControllerKeepsReplicas
<1>1. PlanInv /\ [Next]_vars => PlanInv'
  BY PlanNext
<1>2. Spec => [][KeepsReplicas]_vars
  BY <1>1, PlanInit, StepKeepsReplicas, PTL DEF Spec
<1>3. QED  BY <1>2 DEF ControllerKeepsReplicas, KeepsReplicas

=============================================================================
