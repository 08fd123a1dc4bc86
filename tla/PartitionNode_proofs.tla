------------------------ MODULE PartitionNode_proofs ------------------------
(***************************************************************************)
(* Proofs about PartitionNode: every generation served is bracketed by its *)
(* build, and while a process lives no table it serves goes back.          *)
(***************************************************************************)
EXTENDS PartitionNode, TLAPS

----------------------------------------------------------------------------
(* Facts about cuts.                                                       *)

LEMMA ScanType == Scan \in Seq(Table) /\ Len(Scan) \in Nat \ {0}
<1>1. Scan \in Seq(Table) /\ Len(Scan) > 0
  BY ScanAssumption, Zenon
<1>2. QED  BY <1>1

\* A commit changes no earlier state of the lake.
LEMMA CommitAppends ==
  ASSUME TypeOK, NEW t \in Table, Commit(t)
  PROVE  /\ lake' \in Seq([Table -> Nat]) /\ lake' # <<>> /\ Len(lake') = Now + 1
         /\ \A k \in 1 .. Now : lake'[k] = lake[k]
         /\ \A u \in Table : lake[Now][u] <= lake'[Now + 1][u]
<1>1. Now \in Nat \ {0} /\ lake[Now] \in [Table -> Nat]
  BY DEF TypeOK, Now
<1>2. [lake[Now] EXCEPT ![t] = @ + 1] \in [Table -> Nat]
  BY <1>1
<1>3. QED
  BY <1>1, <1>2 DEF Commit, TypeOK, Now

LEMMA LakeGrowsStep ==
  ASSUME IInv, [Next]_vars
  PROVE  /\ lake' \in Seq([Table -> Nat]) /\ lake' # <<>>
         /\ Len(lake') >= Len(lake)
         /\ \A k \in 1 .. Len(lake) : lake'[k] = lake[k]
         /\ LakeGrows'
<1>0. lake \in Seq([Table -> Nat]) /\ lake # <<>> /\ Len(lake) \in Nat \ {0}
  BY DEF IInv, TypeOK
<1>1. CASE lake' = lake
  BY <1>0, <1>1 DEF IInv, LakeGrows, Now
<1>2. ASSUME NEW t \in Table, Commit(t)
      PROVE  /\ lake' \in Seq([Table -> Nat]) /\ lake' # <<>>
             /\ Len(lake') >= Len(lake)
             /\ \A k \in 1 .. Len(lake) : lake'[k] = lake[k]
             /\ LakeGrows'
  <2>1. /\ lake' \in Seq([Table -> Nat]) /\ lake' # <<>> /\ Len(lake') = Now + 1
        /\ \A k \in 1 .. Now : lake'[k] = lake[k]
        /\ \A u \in Table : lake[Now][u] <= lake'[Now + 1][u]
    BY <1>2, CommitAppends DEF IInv
  <2>2. ASSUME NEW i \in 1 .. Now + 1, NEW j \in 1 .. Now + 1, i <= j, NEW u \in Table
        PROVE  lake'[i][u] <= lake'[j][u]
    <3>0. Now \in Nat \ {0}
      BY <1>0 DEF Now
    <3>1. /\ lake'[i][u] \in Nat /\ lake'[j][u] \in Nat
          /\ lake[Now][u] \in Nat
      <4>1. lake'[i] \in [Table -> Nat] /\ lake'[j] \in [Table -> Nat]
        <5>1. i \in 1 .. Len(lake') /\ j \in 1 .. Len(lake')
          BY <2>1, <2>2
        <5>2. QED  BY <2>1, <5>1
      <4>2. lake[Now] \in [Table -> Nat]
        BY <1>0, <3>0 DEF Now
      <4>3. QED  BY <4>1, <4>2
    <3>2. \A k, l \in 1 .. Now : k <= l => lake[k][u] <= lake[l][u]
      BY DEF IInv, LakeGrows
    <3>3. CASE j <= Now
      <4>1. i \in 1 .. Now /\ j \in 1 .. Now
        BY <2>2, <3>0, <3>3
      <4>2. QED  BY <2>1, <2>2, <3>2, <4>1
    <3>4. CASE j = Now + 1 /\ i <= Now
      <4>1. i \in 1 .. Now /\ Now \in 1 .. Now
        BY <2>2, <3>0, <3>4
      <4>2. lake'[i][u] <= lake[Now][u] /\ lake[Now][u] <= lake'[j][u]
        BY <2>1, <3>0, <3>2, <3>4, <4>1
      <4>3. QED  BY <3>1, <4>2
    <3>5. CASE i = Now + 1
      <4>1. i = j
        BY <2>2, <3>0, <3>5
      <4>2. QED  BY <3>1, <4>1
    <3>6. QED  BY <2>2, <3>0, <3>3, <3>4, <3>5
  <2>3. LakeGrows'
    BY <2>1, <2>2 DEF LakeGrows, Now
  <2>4. QED  BY <1>0, <2>1, <2>3 DEF Now
<1>3. lake' = lake \/ \E t \in Table : Commit(t)
  BY DEF Next, Work, Restart, ReadTable, NoSnapshot, Publish, Tick, Crash, StorageFails,
         Abort, vars
<1>4. QED  BY <1>1, <1>2, <1>3

\* A cut of the lake stays one as the lake grows and its bracket widens.
LEMMA CutStays ==
  ASSUME IInv, [Next]_vars,
         NEW ps \in Seq(Nat), NEW first \in Nat \ {0}, NEW last \in Nat, NEW last2 \in Nat,
         CutWithin(lake, ps, first, last), last <= Now, last <= last2
  PROVE  CutWithin(lake', ps, first, last2)
<1>1. PICK at \in [1 .. Len(ps) -> first .. last] :
        /\ \A i \in 1 .. Len(ps) : ps[i] = lake[at[i]][Scan[i]]
        /\ \A i, j \in 1 .. Len(ps) : i <= j => at[i] <= at[j]
  BY DEF CutWithin
<1>2. at \in [1 .. Len(ps) -> first .. last2]
  BY <1>1
<1>3. ASSUME NEW i \in 1 .. Len(ps) PROVE at[i] \in 1 .. Len(lake)
  <2>1. Now = Len(lake) /\ Now \in Nat
    BY DEF Now, IInv, TypeOK
  <2>2. at[i] \in first .. last
    BY <1>1
  <2>3. QED  BY <2>1, <2>2
<1>4. \A i \in 1 .. Len(ps) : ps[i] = lake'[at[i]][Scan[i]]
  BY <1>1, <1>3, LakeGrowsStep
<1>5. QED  BY <1>1, <1>2, <1>4 DEF CutWithin

\* Reading the next table extends the cut.
LEMMA CutExtends ==
  ASSUME TypeOK, NEW ps \in Seq(Nat), NEW first \in Nat \ {0}, first <= Now,
         CutWithin(lake, ps, first, Now), Len(ps) < Len(Scan),
         NEW v \in Nat, v = lake[Now][Scan[Len(ps) + 1]]
  PROVE  CutWithin(lake, Append(ps, v), first, Now)
<1>0. Now \in Nat \ {0} /\ Len(ps) \in Nat
  BY DEF TypeOK, Now
<1>1. PICK at \in [1 .. Len(ps) -> first .. Now] :
        /\ \A i \in 1 .. Len(ps) : ps[i] = lake[at[i]][Scan[i]]
        /\ \A i, j \in 1 .. Len(ps) : i <= j => at[i] <= at[j]
  BY DEF CutWithin
<1> DEFINE qs == Append(ps, v)
           n == Len(ps) + 1
           to == [i \in 1 .. n |-> IF i = n THEN Now ELSE at[i]]
<1>2. Len(qs) = n /\ qs[n] = v /\ \A i \in 1 .. Len(ps) : qs[i] = ps[i]
  BY <1>0
<1>3. to \in [1 .. n -> first .. Now]
  BY <1>0, <1>1
<1>4. ASSUME NEW i \in 1 .. n PROVE qs[i] = lake[to[i]][Scan[i]]
  <2>1. CASE i = n
    BY <1>2, <2>1
  <2>2. CASE i # n
    <3>1. i \in 1 .. Len(ps) /\ to[i] = at[i]
      BY <1>0, <2>2
    <3> HIDE DEF to, qs
    <3>2. QED  BY <1>1, <1>2, <3>1
  <2>3. QED  BY <2>1, <2>2
<1>5. ASSUME NEW i \in 1 .. n, NEW j \in 1 .. n, i <= j PROVE to[i] <= to[j]
  <2>1. CASE j = n
    <3>1. to[i] \in first .. Now /\ to[j] = Now
      BY <1>3, <2>1
    <3> HIDE DEF to, n
    <3>2. QED  BY <1>0, <3>1
  <2>2. CASE j # n
    <3>1. /\ i \in 1 .. Len(ps) /\ to[i] = at[i]
          /\ j \in 1 .. Len(ps) /\ to[j] = at[j]
      BY <1>0, <1>5, <2>2
    <3> HIDE DEF to, n
    <3>2. QED  BY <1>1, <1>5, <3>1
  <2>3. QED  BY <2>1, <2>2
<1> HIDE DEF to, n, qs
<1>6. \E f \in [1 .. Len(qs) -> first .. Now] :
        /\ \A i \in 1 .. Len(qs) : qs[i] = lake[f[i]][Scan[i]]
        /\ \A i, j \in 1 .. Len(qs) : i <= j => f[i] <= f[j]
  BY <1>2, <1>3, <1>4, <1>5
<1>7. QED  BY <1>6 DEF CutWithin, qs

\* A cut taken after another is nowhere older.
LEMMA LaterCutIsNewer ==
  ASSUME TypeOK, LakeGrows,
         NEW ps \in Seq(Nat), NEW qs \in Seq(Nat),
         Len(ps) = Len(Scan), Len(qs) = Len(Scan),
         NEW a \in Nat \ {0}, NEW b \in Nat, NEW c \in Nat \ {0}, NEW d \in Nat,
         CutWithin(lake, ps, a, b), CutWithin(lake, qs, c, d), b <= c, d <= Now
  PROVE  \A i \in 1 .. Len(Scan) : ps[i] <= qs[i]
<1>0. Now \in Nat
  BY DEF TypeOK, Now
<1>1. PICK at \in [1 .. Len(ps) -> a .. b] :
        \A i \in 1 .. Len(ps) : ps[i] = lake[at[i]][Scan[i]]
  BY DEF CutWithin
<1>2. PICK to \in [1 .. Len(qs) -> c .. d] :
        \A i \in 1 .. Len(qs) : qs[i] = lake[to[i]][Scan[i]]
  BY DEF CutWithin
<1>3. ASSUME NEW i \in 1 .. Len(Scan) PROVE ps[i] <= qs[i]
  <2>1. Scan[i] \in Table
    BY ScanType
  <2>2. at[i] \in 1 .. Now /\ to[i] \in 1 .. Now /\ at[i] <= to[i]
    <3>1. at[i] \in a .. b
      BY <1>1
    <3>2. to[i] \in c .. d
      BY <1>2
    <3>3. QED  BY <1>0, <3>1, <3>2
  <2>3. lake[at[i]][Scan[i]] <= lake[to[i]][Scan[i]]
    BY <2>1, <2>2 DEF LakeGrows
  <2>4. QED  BY <1>1, <1>2, <2>3
<1>4. QED  BY <1>3

----------------------------------------------------------------------------
(* The invariant, one process at a time.                                   *)

State == {"down", "bootstrapping", "waiting", "rebuilding"}

ProcessTypes(r) ==
  /\ proc[r] \in State /\ pins[r] \in Seq(Nat \ {0}) /\ began[r] \in Nat \ {0}
  /\ current[r] \in Generation \cup {NoGeneration}

ServedCut(r) ==
  Serves(r) => /\ Len(current[r].pins) = Len(Scan)
               /\ CutWithin(lake, current[r].pins, current[r].began, current[r].built_at)

BuildCut(r) ==
  /\ began[r] <= Now
  /\ ~ Building(r) => pins[r] = <<>>
  /\ Len(pins[r]) <= Len(Scan) /\ CutWithin(lake, pins[r], began[r], Now)
  /\ Serves(r) => /\ current[r].began <= began[r] /\ current[r].built_at <= Now
                  /\ Building(r) => current[r].built_at <= began[r]

ProcessInv(r) ==
  /\ ProcessTypes(r)
  /\ Serves(r) <=> proc[r] \in {"waiting", "rebuilding"}
  /\ ServedCut(r)
  /\ BuildCut(r)

\* The variables are functions on the processes.
Shape ==
  /\ proc \in [Process -> State] /\ pins \in [Process -> Seq(Nat \ {0})]
  /\ began \in [Process -> Nat \ {0}]
  /\ current \in [Process -> Generation \cup {NoGeneration}]
  /\ faults \in Nat

LEMMA IInvByProcess ==
  IInv <=> /\ lake \in Seq([Table -> Nat]) /\ lake # <<>> /\ LakeGrows
           /\ Shape /\ \A r \in Process : ProcessInv(r)
BY DEF IInv, TypeOK, ServesOnceBootstrapped, ServedCutIsBracketed,
       BuildsFollowOneAnother, Shape, State, ProcessInv, ProcessTypes, ServedCut, BuildCut

LEMMA SnapshotSeq ==
  ASSUME NEW ps \in Seq(Nat \ {0})
  PROVE  ps \in Seq(Nat) /\ Len(ps) \in Nat
OBVIOUS

\* A process a step leaves alone keeps its invariant as the lake grows.
LEMMA Untouched ==
  ASSUME IInv, [Next]_vars, NEW q \in Process,
         proc'[q] = proc[q], pins'[q] = pins[q], began'[q] = began[q],
         current'[q] = current[q]
  PROVE  ProcessInv(q)'
<1>1. /\ Now \in Nat /\ Now' \in Nat /\ Now <= Now'
      /\ \A k \in 1 .. Len(lake) : lake'[k] = lake[k]
  <2>1. /\ lake' \in Seq([Table -> Nat]) /\ Len(lake') >= Len(lake)
        /\ \A k \in 1 .. Len(lake) : lake'[k] = lake[k]
    BY LakeGrowsStep
  <2>2. lake \in Seq([Table -> Nat])
    BY DEF IInv, TypeOK
  <2>3. Len(lake) \in Nat /\ Len(lake') \in Nat
    BY <2>1, <2>2
  <2>4. Now \in Nat /\ Now' \in Nat /\ Now <= Now'
    BY <2>1, <2>3 DEF Now
  <2>5. QED  BY <2>1, <2>4
<1>2. ProcessInv(q)
  BY IInvByProcess
<1>3. /\ pins[q] \in Seq(Nat) /\ began[q] \in Nat \ {0}
      /\ current[q] \in Generation \cup {NoGeneration}
  BY <1>2, SnapshotSeq DEF ProcessInv, ProcessTypes
<1>4. CutWithin(lake, pins[q], began[q], Now)
  BY <1>2 DEF ProcessInv, BuildCut
<1>5. CutWithin(lake', pins[q], began[q], Now')
  BY <1>1, <1>3, <1>4, CutStays
<1>6. ASSUME Serves(q)
      PROVE  CutWithin(lake', current[q].pins, current[q].began, current[q].built_at)
  <2>1. /\ current[q].pins \in Seq(Nat) /\ current[q].began \in Nat \ {0}
        /\ current[q].built_at \in Nat
    BY <1>3, <1>6, SnapshotSeq DEF Serves, Generation
  <2>2. /\ CutWithin(lake, current[q].pins, current[q].began, current[q].built_at)
        /\ current[q].built_at <= Now
    BY <1>2, <1>6 DEF ProcessInv, ServedCut, BuildCut
  <2>3. QED
    <3>1. current[q].built_at <= Now'
      BY <1>1, <2>1, <2>2
    <3>2. QED  BY <2>1, <2>2, <3>1, <1>1, CutStays
<1>7. BuildCut(q)'
  <2>1. current[q].built_at <= Now' \/ ~ Serves(q)
    <3>1. Serves(q) => current[q].built_at \in Nat /\ current[q].built_at <= Now
      BY <1>2, <1>3 DEF Serves, Generation, ProcessInv, BuildCut
    <3>2. QED  BY <1>1, <3>1
  <2>2. began[q] <= Now'
    BY <1>1, <1>2, <1>3 DEF ProcessInv, BuildCut
  <2>3. QED
    BY <1>2, <1>5, <2>1, <2>2 DEF ProcessInv, BuildCut, Serves, Building
<1>8. ServedCut(q)'
  BY <1>2, <1>6 DEF ProcessInv, ServedCut, Serves
<1>9. QED
  BY <1>2, <1>7, <1>8 DEF ProcessInv, ProcessTypes, Serves

\* What is known of a process before one of its own steps.
LEMMA Before ==
  ASSUME IInv, NEW r \in Process
  PROVE  /\ ProcessInv(r) /\ Shape
         /\ Now \in Nat \ {0} /\ lake \in Seq([Table -> Nat])
         /\ pins[r] \in Seq(Nat \ {0}) /\ began[r] \in Nat \ {0} /\ began[r] <= Now
         /\ CutWithin(lake, pins[r], began[r], Now)
         /\ Serves(r) => current[r] \in Generation
BY IInvByProcess DEF ProcessInv, ProcessTypes, BuildCut, Now, Serves

\* The empty cut.
LEMMA NothingPinned ==
  ASSUME NEW states, NEW first, NEW last
  PROVE  CutWithin(states, <<>>, first, last)
<1> DEFINE none == [i \in 1 .. 0 |-> first]
<1>1. Len(<<>>) = 0 /\ 1 .. 0 = {}
  OBVIOUS
<1>2. none \in [1 .. 0 -> first .. last]
  BY <1>1
<1>3. QED  BY <1>1, <1>2 DEF CutWithin

\* A step of r leaves the other processes alone.
LEMMA OthersKeep ==
  ASSUME IInv, NEW r \in Process, Work(r) \/ Crash(r) \/ StorageFails(r),
         NEW q \in Process, q # r
  PROVE  ProcessInv(q)'
<1>1. /\ proc'[q] = proc[q] /\ pins'[q] = pins[q]
      /\ began'[q] = began[q] /\ current'[q] = current[q]
  BY Before DEF Shape, Work, Restart, ReadTable, NoSnapshot, Publish, Tick, Crash,
                StorageFails, Abort
<1>2. [Next]_vars
  BY DEF Next
<1>3. QED  BY <1>1, <1>2, Untouched

\* A build begins: Restart and Tick.
LEMMA BeginKeeps ==
  ASSUME IInv, NEW r \in Process, Restart(r) \/ Tick(r)
  PROVE  ProcessInv(r)'
<1>1. /\ proc'[r] \in {"bootstrapping", "rebuilding"} /\ began'[r] = Now
      /\ proc'[r] = "rebuilding" <=> proc[r] = "waiting"
      /\ proc[r] \in {"down", "waiting"}
      /\ pins'[r] = <<>> /\ current'[r] = current[r] /\ lake' = lake
  BY Before DEF Restart, Tick, Shape, ProcessInv, BuildCut, Building
<1>2. CutWithin(lake', pins'[r], began'[r], Now')
  BY <1>1, NothingPinned
<1>3. Now' = Now
  BY <1>1 DEF Now
<1>4. ServedCut(r)'
  BY <1>1, Before DEF ProcessInv, ServedCut, Serves
<1>5. BuildCut(r)'
  <2>1. Serves(r) => current[r].began <= Now /\ current[r].built_at <= Now
    BY Before DEF ProcessInv, BuildCut, Generation
  <2>2. Len(<<>>) <= Len(Scan)
    BY ScanType
  <2>3. QED
    BY <1>1, <1>2, <1>3, <2>1, <2>2, Before DEF BuildCut, Serves, Building
<1>6. QED
  BY <1>1, <1>4, <1>5, Before DEF ProcessInv, ProcessTypes, Serves, State

\* A build ends without a generation: NoSnapshot, StorageFails, and Crash.
LEMMA AbortKeeps ==
  ASSUME IInv, NEW r \in Process, NoSnapshot(r) \/ StorageFails(r) \/ Crash(r)
  PROVE  ProcessInv(r)'
<1>1. /\ pins'[r] = <<>> /\ began'[r] = began[r] /\ lake' = lake
      /\ \/ /\ Building(r) /\ current'[r] = current[r]
            /\ proc'[r] = IF proc[r] = "bootstrapping" THEN "down" ELSE "waiting"
         \/ proc'[r] = "down" /\ current'[r] = NoGeneration
  BY Before DEF NoSnapshot, StorageFails, Crash, Abort, Shape
<1>2. CutWithin(lake', pins'[r], began'[r], Now')
  BY <1>1, NothingPinned
<1>3. Now' = Now
  BY <1>1 DEF Now
<1>4. ServedCut(r)'
  BY <1>1, Before DEF ProcessInv, ServedCut, Serves
<1>5. BuildCut(r)'
  <2>1. Serves(r) => current[r].began <= began[r] /\ current[r].built_at <= Now
    BY Before DEF ProcessInv, BuildCut
  <2>2. Len(<<>>) <= Len(Scan)
    BY ScanType
  <2>3. QED
    BY <1>1, <1>2, <1>3, <2>1, <2>2, Before DEF BuildCut, Serves, Building
<1>6. QED
  BY <1>1, <1>4, <1>5, Before DEF ProcessInv, ProcessTypes, Serves, State, Building

LEMMA ReadKeeps ==
  ASSUME IInv, NEW r \in Process, ReadTable(r)
  PROVE  ProcessInv(r)'
<1> DEFINE v == lake[Now][Scan[Len(pins[r]) + 1]]
<1>1. /\ proc'[r] = proc[r] /\ began'[r] = began[r] /\ current'[r] = current[r]
      /\ lake' = lake /\ pins'[r] = Append(pins[r], v)
  BY Before DEF ReadTable, Shape, Latest, NextTable
<1>2. /\ Building(r) /\ v > 0 /\ Len(pins[r]) # Len(Scan)
  BY DEF ReadTable, Complete, Latest, NextTable
<1>3. Len(pins[r]) < Len(Scan) /\ Len(pins[r]) \in Nat
  BY <1>2, ScanType, Before, SnapshotSeq DEF ProcessInv, BuildCut
<1>4. v \in Nat \ {0}
  <2>1. Len(pins[r]) + 1 \in 1 .. Len(Scan)
    BY <1>3, ScanType
  <2>2. Scan[Len(pins[r]) + 1] \in Table
    BY <2>1, ScanType
  <2>3. lake[Now] \in [Table -> Nat]
    BY Before DEF Now
  <2>4. QED  BY <1>2, <2>2, <2>3
<1> HIDE DEF v
<1>5. CutWithin(lake', pins'[r], began'[r], Now')
  <2>1. CutWithin(lake, Append(pins[r], v), began[r], Now)
    BY <1>3, <1>4, Before, SnapshotSeq, CutExtends DEF v, IInv
  <2>2. QED  BY <1>1, <2>1 DEF Now
<1>6. pins'[r] \in Seq(Nat \ {0}) /\ Len(pins'[r]) <= Len(Scan)
  BY <1>1, <1>3, <1>4, Before, ScanType
<1>7. Now' = Now
  BY <1>1 DEF Now
<1>8. ServedCut(r)'
  BY <1>1, Before DEF ProcessInv, ServedCut, Serves
<1>9. BuildCut(r)'
  BY <1>1, <1>2, <1>5, <1>6, <1>7, Before DEF ProcessInv, BuildCut, Serves, Building
<1>10. QED
  BY <1>1, <1>6, <1>8, <1>9, Before DEF ProcessInv, ProcessTypes, Serves

LEMMA PublishKeeps ==
  ASSUME IInv, NEW r \in Process, Publish(r)
  PROVE  ProcessInv(r)'
<1> DEFINE gen == [pins |-> pins[r], began |-> began[r], built_at |-> Now]
<1>1. /\ proc'[r] = "waiting" /\ began'[r] = began[r] /\ current'[r] = gen
      /\ lake' = lake /\ pins'[r] = <<>> /\ Len(pins[r]) = Len(Scan)
  BY Before DEF Publish, Shape, Complete
<1>2. gen \in Generation /\ gen # NoGeneration
  <2>1. gen \in Generation
    BY Before DEF Generation
  <2>2. gen \in [pins : Seq(Nat), began : Nat, built_at : Nat]
    BY Before, SnapshotSeq
  <2>3. NoGeneration \notin [pins : Seq(Nat), began : Nat, built_at : Nat]
    BY ScanAssumption, Zenon
  <2> HIDE DEF gen
  <2>4. QED  BY <2>1, <2>2, <2>3
<1>3. Now' = Now
  BY <1>1 DEF Now
<1>4. CutWithin(lake', pins'[r], began'[r], Now')
  BY <1>1, NothingPinned
<1>5. ServedCut(r)'
  BY <1>1, Before DEF ServedCut
<1>6. BuildCut(r)'
  <2>1. Len(<<>>) <= Len(Scan)
    BY ScanType
  <2>2. gen.began = began[r] /\ gen.built_at = Now
    OBVIOUS
  <2> HIDE DEF gen
  <2>3. QED
    BY <1>1, <1>3, <1>4, <2>1, <2>2, Before DEF BuildCut, Serves, Building
<1>7. QED
  BY <1>1, <1>2, <1>5, <1>6, Before DEF ProcessInv, ProcessTypes, Serves, State

----------------------------------------------------------------------------
(* The theorems.                                                           *)

LEMMA InitIInv == Init => IInv
<1> SUFFICES ASSUME Init PROVE IInv
  OBVIOUS
<1>1. PICK first \in [Table -> {0, 1}] : lake = <<first>>
  BY DEF Init
<1>2. lake \in Seq([Table -> Nat]) /\ lake # <<>> /\ Now = 1
  BY <1>1 DEF Now
<1>3. LakeGrows
  <2>1. \A t \in Table : lake[1][t] \in Nat
    BY <1>1
  <2>2. QED  BY <1>2, <2>1 DEF LakeGrows
<1>4. Shape
  BY DEF Init, Shape, State
<1>5. ASSUME NEW r \in Process PROVE ProcessInv(r)
  <2>1. /\ proc[r] = "down" /\ pins[r] = <<>> /\ began[r] = 1
        /\ current[r] = NoGeneration
    BY DEF Init
  <2>2. CutWithin(lake, pins[r], began[r], Now) /\ Len(<<>>) <= Len(Scan)
    BY <2>1, NothingPinned, ScanType
  <2>3. QED
    BY <1>2, <2>1, <2>2
    DEF ProcessInv, ProcessTypes, ServedCut, BuildCut, Serves, Building, State
<1>6. QED  BY <1>2, <1>3, <1>4, <1>5, IInvByProcess

LEMMA NextIInv == IInv /\ [Next]_vars => IInv'
<1> SUFFICES ASSUME IInv, [Next]_vars PROVE IInv'
  OBVIOUS
<1>1. lake' \in Seq([Table -> Nat]) /\ lake' # <<>> /\ LakeGrows'
  BY LakeGrowsStep
<1>2. Shape'
  <2>1. CASE UNCHANGED vars \/ \E t \in Table : Commit(t)
    BY <2>1, IInvByProcess DEF vars, Commit, Shape
  <2>2. ASSUME NEW r \in Process, Work(r) \/ Crash(r) \/ StorageFails(r)
        PROVE  Shape'
    <3>1. ProcessInv(r)'
      BY <2>2, BeginKeeps, AbortKeeps, ReadKeeps, PublishKeeps DEF Work
    <3>2. ProcessTypes(r)'
      BY <3>1 DEF ProcessInv
    <3>3. Shape
      BY Before
    <3>4. faults' \in Nat
      BY <2>2, <3>3 DEF Shape, Work, Restart, ReadTable, NoSnapshot, Publish, Tick, Crash,
                        StorageFails
    <3>5. /\ proc' = [proc EXCEPT ![r] = proc'[r]] /\ pins' = [pins EXCEPT ![r] = pins'[r]]
          /\ began' = [began EXCEPT ![r] = began'[r]]
          /\ current' = [current EXCEPT ![r] = current'[r]]
      BY <2>2, <3>3 DEF Shape, Work, Restart, ReadTable, NoSnapshot, Publish, Tick, Crash,
                        StorageFails, Abort
    <3>6. QED  BY <3>2, <3>3, <3>4, <3>5 DEF Shape, ProcessTypes
  <2>3. QED  BY <2>1, <2>2 DEF Next
<1>3. ASSUME NEW q \in Process PROVE ProcessInv(q)'
  <2>1. CASE UNCHANGED vars \/ \E t \in Table : Commit(t)
    BY <2>1, Untouched DEF vars, Commit
  <2>2. ASSUME NEW r \in Process, Work(r) \/ Crash(r) \/ StorageFails(r)
        PROVE  ProcessInv(q)'
    <3>1. CASE q = r
      BY <2>2, <3>1, BeginKeeps, AbortKeeps, ReadKeeps, PublishKeeps DEF Work
    <3>2. CASE q # r
      BY <2>2, <3>2, OthersKeep
    <3>3. QED  BY <3>1, <3>2
  <2>3. QED  BY <2>1, <2>2 DEF Next
<1>4. (lake \in Seq([Table -> Nat]) /\ lake # <<>> /\ LakeGrows
        /\ Shape /\ \A r \in Process : ProcessInv(r))'
  BY <1>1, <1>2, <1>3
<1>5. QED  BY <1>4, IInvByProcess DEF IInv, TypeOK, ServesOnceBootstrapped,
       ServedCutIsBracketed, BuildsFollowOneAnother, Shape, State, ProcessInv,
       ProcessTypes, ServedCut, BuildCut

\* The invariant holds whatever the processes, the tables and their order, and
\* however commits, crashes and failed reads fall into a build.
THEOREM BuildInvariant == Spec => []IInv
<1>1. QED  BY InitIInv, NextIInv, PTL DEF Spec

\* Every variable of a process keeps its type: pins are snapshots and a served
\* generation knows when its build began and ended.
THEOREM NodeTypeCorrect == Spec => []TypeOK
<1>1. IInv => TypeOK  BY DEF IInv
<1>2. QED  BY <1>1, BuildInvariant, PTL

\* A process serves exactly from the end of its bootstrap to its death: no
\* failed rebuild takes a generation away.
THEOREM ServesOnceBootstrappedHolds == Spec => []ServesOnceBootstrapped
<1>1. IInv => ServesOnceBootstrapped  BY DEF IInv
<1>2. QED  BY <1>1, BuildInvariant, PTL

\* What a process serves was pinned during one build: no failed rebuild leaves
\* a table of an older build in it.
THEOREM ServedGenerationsAreBracketed == Spec => []ServedCutIsBracketed
<1>1. IInv => ServedCutIsBracketed  BY DEF IInv
<1>2. QED  BY <1>1, BuildInvariant, PTL

\* A swap installs a generation at least as new as the one it replaces, in
\* every table: the next build began after the last one ended.
LEMMA SwapIsNewer ==
  ASSUME IInv, [Next]_vars, NEW r \in Process, Serves(r), Serves(r)'
  PROVE  \A i \in 1 .. Len(Scan) : current[r].pins[i] <= current[r].pins[i]'
<1>0. current[r] \in Generation
  BY Before
<1>1. CASE current'[r] = current[r]
  <2>1. \A i \in 1 .. Len(Scan) : current[r].pins[i] \in Nat
    <3>1. Len(current[r].pins) = Len(Scan) /\ current[r].pins \in Seq(Nat \ {0})
      BY <1>0, Before DEF ProcessInv, ServedCut, Generation
    <3>2. QED  BY <3>1, ScanType
  <2>2. QED  BY <1>1, <2>1
<1>2. CASE Publish(r)
  <2>1. current'[r].pins = pins[r]
    BY <1>2, Before DEF Publish, Shape
  <2>2. /\ Len(pins[r]) = Len(Scan) /\ Building(r)
        /\ CutWithin(lake, pins[r], began[r], Now) /\ pins[r] \in Seq(Nat)
    <3>1. Len(pins[r]) = Len(Scan) /\ Building(r)
      BY <1>2 DEF Publish, Complete
    <3>2. BuildCut(r) /\ pins[r] \in Seq(Nat \ {0})
      BY Before DEF ProcessInv, ProcessTypes
    <3>3. QED  BY <3>1, <3>2, SnapshotSeq DEF BuildCut
  <2>3. /\ Len(current[r].pins) = Len(Scan) /\ current[r].pins \in Seq(Nat)
        /\ CutWithin(lake, current[r].pins, current[r].began, current[r].built_at)
        /\ current[r].began \in Nat \ {0} /\ current[r].built_at \in Nat
        /\ current[r].built_at <= began[r]
    BY <1>0, <2>2, Before, SnapshotSeq DEF ProcessInv, ServedCut, BuildCut, Generation
  <2>4. began[r] \in Nat \ {0} /\ Now \in Nat
    BY Before
  <2>5. \A i \in 1 .. Len(Scan) : current[r].pins[i] <= pins[r][i]
    <3>1. TypeOK /\ LakeGrows /\ Now <= Now
      BY <2>4 DEF IInv
    <3>2. ASSUME NEW ps \in Seq(Nat), NEW a \in Nat \ {0}, NEW b \in Nat,
                 Len(ps) = Len(Scan), CutWithin(lake, ps, a, b), b <= began[r]
          PROVE  \A i \in 1 .. Len(Scan) : ps[i] <= pins[r][i]
      BY <2>2, <2>4, <3>1, <3>2, LaterCutIsNewer
    <3>3. QED  BY <2>3, <3>2
  <2>6. QED  BY <2>1, <2>5
<1>3. current'[r] = current[r] \/ Publish(r)
  <2>1. CASE UNCHANGED vars \/ \E t \in Table : Commit(t)
    BY <2>1 DEF vars, Commit
  <2>2. ASSUME NEW q \in Process, Work(q) \/ Crash(q) \/ StorageFails(q), ~ Publish(r)
        PROVE  current'[r] = current[r]
    BY <2>2, Before DEF Shape, Serves, Work, Restart, ReadTable, NoSnapshot, Publish, Tick,
                        Crash, StorageFails, Abort
  <2>3. QED  BY <2>1, <2>2 DEF Next
<1>4. QED  BY <1>1, <1>2, <1>3

\* While a process lives, none of the tables it serves goes back.
THEOREM ServedNeverGoesBackHolds == Spec => ServedNeverGoesBack
<1>1. IInv /\ [Next]_vars =>
        [\A r \in Process : Serves(r) /\ Serves(r)' =>
           \A i \in 1 .. Len(Scan) : current[r].pins[i] <= current[r].pins[i]']_vars
  BY SwapIsNewer
<1>2. QED  BY <1>1, BuildInvariant, PTL DEF Spec, ServedNeverGoesBack

=============================================================================
