--------------------------- MODULE PartitionNode ---------------------------
(***************************************************************************)
(* The partition-node processes and the lake they rebuild their index from *)
(* (bin/graph-partition-node).  A build reads the tables one at a time, in *)
(* the fixed order of the schema's maps with the node tables first, and    *)
(* pins the latest snapshot of each as it comes to it.  The ingestion      *)
(* pipeline commits to any table at any moment, one table per commit.      *)
(*                                                                         *)
(* A snapshot is the number of commits its table had; 0 is a table that    *)
(* has none.  What the rows say is GraphIndex's concern, not this          *)
(* module's.                                                               *)
(***************************************************************************)
EXTENDS Integers, Sequences

CONSTANTS
  Process,       \* the partition-node processes (replicas of any partition)
  Table,         \* the Iceberg tables
  Scan,          \* the order in which a build reads them
  MaxCommits,    \* how often the ingestion pipeline commits
  MaxFaults,     \* how often a process crashes or a read fails
  NoGeneration   \* a process that serves nothing

ASSUME ScanAssumption ==
  /\ Scan \in Seq(Table) /\ Len(Scan) > 0
  /\ MaxCommits \in Nat /\ MaxFaults \in Nat
  /\ NoGeneration \notin [pins : Seq(Nat), began : Nat, built_at : Nat]

VARIABLES
  lake,       \* the lake's successive states: each table's latest snapshot
  proc,       \* what each process is doing
  pins,       \* snapshot_by_table of the build in progress, in Scan order
  began,      \* when that build began, as an index into lake
  current,    \* GenerationHandle: the generation each process serves
  faults      \* crashes and failed reads so far

vars == <<lake, proc, pins, began, current, faults>>

Now == Len(lake)
Building(r) == proc[r] \in {"bootstrapping", "rebuilding"}
Complete(r) == Len(pins[r]) = Len(Scan)

\* The table the build comes to next, and its latest snapshot.
NextTable(r) == Scan[Len(pins[r]) + 1]
Latest(t) == lake[Now][t]

----------------------------------------------------------------------------
(* The environment.                                                        *)

\* The pipeline commits to one table; a commit is atomic, the set of them not.
Commit(t) ==
  /\ Now <= MaxCommits
  /\ lake' = Append(lake, [lake[Now] EXCEPT ![t] = @ + 1])
  /\ UNCHANGED <<proc, pins, began, current, faults>>

\* Whatever supervises the process starts it again.
Restart(r) ==
  /\ proc[r] = "down"
  /\ proc' = [proc EXCEPT ![r] = "bootstrapping"]
  /\ began' = [began EXCEPT ![r] = Now]
  /\ UNCHANGED <<lake, pins, current, faults>>

\* Nothing a process holds survives it.
Crash(r) ==
  /\ proc[r] # "down"
  /\ faults < MaxFaults
  /\ faults' = faults + 1
  /\ proc' = [proc EXCEPT ![r] = "down"]
  /\ pins' = [pins EXCEPT ![r] = <<>>]
  /\ current' = [current EXCEPT ![r] = NoGeneration]
  /\ UNCHANGED <<lake, began>>

----------------------------------------------------------------------------
(* One build.                                                              *)

\* Mutants of ReadTable: a table without a snapshot is pinned, and the
\* catalog answers with any snapshot it ever had.
ReadTableUnchecked(r) ==
  /\ Building(r) /\ ~ Complete(r)
  /\ pins' = [pins EXCEPT ![r] = Append(@, Latest(NextTable(r)))]
  /\ UNCHANGED <<lake, proc, began, current, faults>>

ReadTableStale(r) ==
  /\ Building(r) /\ ~ Complete(r)
  /\ \E k \in 1 .. Now :
       /\ lake[k][NextTable(r)] > 0
       /\ pins' = [pins EXCEPT ![r] = Append(@, lake[k][NextTable(r)])]
  /\ UNCHANGED <<lake, proc, began, current, faults>>

\* latest_snapshot and the scan of that snapshot, every row conforming.
ReadTable(r) ==
  /\ Building(r) /\ ~ Complete(r)
  /\ Latest(NextTable(r)) > 0
  /\ pins' = [pins EXCEPT ![r] = Append(@, Latest(NextTable(r)))]
  /\ UNCHANGED <<lake, proc, began, current, faults>>

\* Mutants of Abort: any failed build ends the process's work, and the next
\* build resumes where the failed one stopped.
AbortAlwaysDown(r) ==
  /\ proc' = [proc EXCEPT ![r] = "down"]
  /\ pins' = [pins EXCEPT ![r] = <<>>]
  /\ UNCHANGED <<lake, began, current>>

AbortResumes(r) ==
  /\ proc' = [proc EXCEPT ![r] = IF @ = "bootstrapping" THEN "down" ELSE "waiting"]
  /\ UNCHANGED <<lake, pins, began, current>>

\* The build returns an error: main returns it during the bootstrap, the
\* rebuild loop logs it and keeps the generation it serves.
Abort(r) ==
  /\ proc' = [proc EXCEPT ![r] = IF @ = "bootstrapping" THEN "down" ELSE "waiting"]
  /\ pins' = [pins EXCEPT ![r] = <<>>]
  /\ UNCHANGED <<lake, began, current>>

\* SnapshotResolution: the table has no committed snapshot.
NoSnapshot(r) ==
  /\ Building(r) /\ ~ Complete(r)
  /\ Latest(NextTable(r)) = 0
  /\ Abort(r)
  /\ UNCHANGED faults

\* The catalog, the object store or a non-conforming row fails the scan.
StorageFails(r) ==
  /\ Building(r) /\ ~ Complete(r)
  /\ faults < MaxFaults
  /\ faults' = faults + 1
  /\ Abort(r)

\* Mutants of Publish: the snapshots pinned stay for the next build, and a
\* build that found the first table unchanged is not swapped in.
PublishKeepsPins(r) ==
  /\ Building(r) /\ Complete(r)
  /\ current' = [current EXCEPT ![r] =
                   [pins |-> pins[r], began |-> began[r], built_at |-> Now]]
  /\ proc' = [proc EXCEPT ![r] = "waiting"]
  /\ UNCHANGED <<lake, pins, began, faults>>

PublishIfFirstChanged(r) ==
  /\ Building(r) /\ Complete(r)
  /\ current' = [current EXCEPT ![r] =
                   IF @ # NoGeneration /\ @.pins[1] = pins[r][1] THEN @
                   ELSE [pins |-> pins[r], began |-> began[r], built_at |-> Now]]
  /\ proc' = [proc EXCEPT ![r] = "waiting"]
  /\ pins' = [pins EXCEPT ![r] = <<>>]
  /\ UNCHANGED <<lake, began, faults>>

\* The generation is complete: bootstrap hands it to a new GenerationHandle
\* and the process begins to serve; the rebuild loop swaps it in.
Publish(r) ==
  /\ Building(r) /\ Complete(r)
  /\ current' = [current EXCEPT ![r] =
                   [pins |-> pins[r], began |-> began[r], built_at |-> Now]]
  /\ proc' = [proc EXCEPT ![r] = "waiting"]
  /\ pins' = [pins EXCEPT ![r] = <<>>]
  /\ UNCHANGED <<lake, began, faults>>

\* The interval elapses.  The loop awaits the build, so builds never overlap.
Tick(r) ==
  /\ proc[r] = "waiting"
  /\ proc' = [proc EXCEPT ![r] = "rebuilding"]
  /\ began' = [began EXCEPT ![r] = Now]
  /\ UNCHANGED <<lake, pins, current, faults>>

----------------------------------------------------------------------------

Init ==
  /\ \E first \in [Table -> {0, 1}] : lake = <<first>>
  /\ proc = [r \in Process |-> "down"]
  /\ pins = [r \in Process |-> <<>>]
  /\ began = [r \in Process |-> 1]
  /\ current = [r \in Process |-> NoGeneration]
  /\ faults = 0

\* What the process and its supervisor do when nothing goes wrong.
Work(r) == Restart(r) \/ ReadTable(r) \/ NoSnapshot(r) \/ Publish(r) \/ Tick(r)

Next ==
  \/ \E t \in Table : Commit(t)
  \/ \E r \in Process : Work(r) \/ Crash(r) \/ StorageFails(r)

Spec == Init /\ [][Next]_vars

\* The timer fires, the supervisor restarts and storage answers; commits,
\* crashes and failures owe nothing.
FairSpec == Spec /\ \A r \in Process : WF_vars(Work(r))

----------------------------------------------------------------------------
(* Correctness.                                                            *)

Generation == [pins : Seq(Nat \ {0}), began : Nat \ {0}, built_at : Nat \ {0}]

TypeOK ==
  /\ lake \in Seq([Table -> Nat]) /\ lake # <<>>
  /\ proc \in [Process -> {"down", "bootstrapping", "waiting", "rebuilding"}]
  /\ pins \in [Process -> Seq(Nat \ {0})]
  /\ began \in [Process -> Nat \ {0}]
  /\ current \in [Process -> Generation \cup {NoGeneration}]
  /\ faults \in Nat

Serves(r) == current[r] # NoGeneration

\* A process serves exactly when its bootstrap succeeded and it has not died
\* since: there is no "serve with an empty index" state, and a failed rebuild
\* takes no generation away.
ServesOnceBootstrapped ==
  \A r \in Process : Serves(r) <=> proc[r] \in {"waiting", "rebuilding"}

\* The snapshots ps of the first tables scanned were the latest at instants
\* between first and last, a later table's at a later instant.
CutWithin(states, ps, first, last) ==
  \E at \in [1 .. Len(ps) -> first .. last] :
    /\ \A i \in 1 .. Len(ps) : ps[i] = states[at[i]][Scan[i]]
    /\ \A i, j \in 1 .. Len(ps) : i <= j => at[i] <= at[j]

\* A generation holds one snapshot of every table, and none is older than the
\* lake was when its build began or newer than when its build ended.
ServedCutIsBracketed ==
  \A r \in Process : Serves(r) =>
    /\ Len(current[r].pins) = Len(Scan)
    /\ CutWithin(lake, current[r].pins, current[r].began, current[r].built_at)

\* While a process lives, no table it serves goes back to an older snapshot.
ServedNeverGoesBack ==
  [][\A r \in Process : Serves(r) /\ Serves(r)' =>
       \A i \in 1 .. Len(Scan) : current[r].pins[i] <= current[r].pins[i]']_vars

\* Once every table has a snapshot, and commits, crashes and failures cease,
\* every process ends up serving the lake as it is, and so do all replicas.
ServesTheLake(r) ==
  Serves(r) /\ \A i \in 1 .. Len(Scan) : current[r].pins[i] = Latest(Scan[i])
CatchesUp ==
  <>(\A t \in Table : Latest(t) > 0) => <>[](\A r \in Process : ServesTheLake(r))

----------------------------------------------------------------------------
(* The inductive invariant: the same bracket holds in the middle of a      *)
(* build, and a build begins no earlier than the last one ended.           *)

LakeGrows == \A i, j \in 1 .. Now : i <= j => \A t \in Table : lake[i][t] <= lake[j][t]

BuildsFollowOneAnother ==
  \A r \in Process :
    /\ began[r] <= Now
    /\ ~ Building(r) => pins[r] = <<>>
    /\ Len(pins[r]) <= Len(Scan) /\ CutWithin(lake, pins[r], began[r], Now)
    /\ Serves(r) => /\ current[r].began <= began[r] /\ current[r].built_at <= Now
                    /\ Building(r) => current[r].built_at <= began[r]

IInv ==
  /\ TypeOK /\ ServesOnceBootstrapped /\ ServedCutIsBracketed
  /\ LakeGrows /\ BuildsFollowOneAnother

=============================================================================
