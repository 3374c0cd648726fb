------------------------------ MODULE MCMemory ------------------------------
(***************************************************************************)
(* Small processes for SnapshotMemory.  Pages meet only through the area   *)
(* they lie in and through the lists, so two pages are enough: in one area *)
(* (a munmap, an mprotect or a zap that hits both) or in two.              *)
(***************************************************************************)
EXTENDS MemoryPromise

TwoPages == 1..2

Rw(kind) == [mapped |-> TRUE, w |-> TRUE, kind |-> kind]

\* Two pages of one private mapping, the heap or the data of a library; one of
\* them may be excluded.
PrivateAreaOf  == [p \in TwoPages |-> "map"]
PrivateVmas    == {[a \in {"map"} |-> Rw(kind)] : kind \in {"anon", "file"}}
PrivateConfigs == {{"EXIT", "MMAP"}}
PrivateExclude == {{2}}
ExcludeFirst   == {{1}}
PrivateVmaTurn  == [a \in {"map"} |-> 0]
PrivatePageTurn == [p \in TwoPages |-> p]

\* The stack and a shared mapping that may be included.
SharedAreaOf  == [p \in TwoPages |-> IF p = 1 THEN "stack" ELSE "shm"]
SharedVmas    == {[a \in {"stack", "shm"} |-> Rw(IF a = "stack" THEN "anon" ELSE "shared")]}
SharedConfigs == {{"BLOCK", "MMAP"}, {"NOSTACK"}}
SharedInclude == {{2}}
SharedVmaTurn  == [a \in {"stack", "shm"} |-> IF a = "stack" THEN 2 ELSE 0]
SharedPageTurn == [p \in TwoPages |-> IF p = 1 THEN 3 ELSE 1]
=============================================================================
