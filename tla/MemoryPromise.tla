--------------------------- MODULE MemoryPromise ---------------------------
(***************************************************************************)
(* SnapshotMemory implements SnapshotPromise.  last is a history variable: *)
(* it says whose step it was, so that a restore has to be a restore of the *)
(* promise and cannot pass for something the program did.                  *)
(***************************************************************************)
EXTENDS SnapshotMemory

CONSTANT Unmapped

ASSUME UnmappedAssumption == Unmapped \notin Data

VARIABLE last

\* The guard of recover_snapshot, which the one of exit_restores implies.
MayRestore == alive /\ has_data /\ have_snapshot

PromiseNext ==
  \/ Program /\ last' = "run"
  \/ (\E r \in ExcludeRanges : exclude_vmrange(r)) /\ last' = "run"
  \/ (\E r \in IncludeRanges : include_vmrange(r)) /\ last' = "run"
  \/ (\E cfg \in Configs : take_snapshot(cfg)) /\ last' = "take"
  \/ MayRestore /\ restore_completes /\ last' = "restore"
  \/ MayRestore /\ restore_gives_up /\ last' = "give up"
  \/ ioctl_clean /\ last' = "drop"
  \/ null_dereference /\ last' = "exit"
  \/ process_exit /\ last' = "exit"

PromiseInit == Init /\ last = "run"

PromiseSpec == PromiseInit /\ [][PromiseNext]_<<vars, last>>

\* What the process sees, and the pages a restore still has to bring back.
View  == [p \in Pages |-> IF VmaOf(p).mapped THEN page[p].mem ELSE Unmapped]
Scope == covered \ failed

P == INSTANCE SnapshotPromise WITH Bytes <- Data, view <- View, scope <- Scope

\* The memory snapshot keeps its promise: a take changes nothing, a restore by
\* ioctl or by exit_group brings the bytes of every page in scope back and
\* unmaps none of them, one that gives up leaves them to the next restore, and
\* nothing else but a failure to save takes a page out of scope
\* (snapshot.c:45-154, memory.c:446-771).
PromiseKept == P!Spec
=============================================================================
