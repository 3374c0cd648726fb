---------------------------- MODULE ProgramBreak ----------------------------
(***************************************************************************)
(* The program break across a snapshot: restore_brk of memory.c and the    *)
(* calls of snapshot.c that lead to it.  Between the snapshot and the      *)
(* restore the program moves its break and maps and unmaps pages around    *)
(* it.                                                                     *)
(*                                                                         *)
(* Addresses count units of 1/PageSize of a page, so that a break can lie  *)
(* inside a page.  The program's image ends where its heap starts; address *)
(* 0 stands below the image.                                               *)
(***************************************************************************)
EXTENDS Integers

CONSTANTS PageSize,   \* units per page
          NPages,     \* pages 0 .. NPages - 1 of the address space
          StartPage,  \* the first page of the heap
          Breaks      \* the breaks the program asks for

ASSUME BreakAssumption ==
  /\ PageSize \in Nat \ {0}
  /\ NPages \in Nat
  /\ StartPage \in 1 .. NPages - 1
  /\ Breaks \subseteq StartPage * PageSize .. (NPages - 1) * PageSize

Pages     == 0 .. NPages - 1
start_brk == StartPage * PageSize

VARIABLES
  brk,       \* mm->brk
  mem,       \* what is mapped at each page
  has_data,  \* the task has a task_data
  made,      \* which holds a snapshot
  oldbrk     \* and data->ss.oldbrk, zero in a fresh task_data

vars == <<brk, mem, has_data, made, oldbrk>>

PAGE_ALIGN(x) == ((x + PageSize - 1) \div PageSize) * PageSize
Aligned(x)    == x % PageSize = 0

\* The pages that overlap the addresses from a up to b.
Span(a, b) == {q \in Pages : a < (q + 1) * PageSize /\ q * PageSize < b}

\* The mappings once the pages of S hold what.
Mapping(S, what) == [q \in Pages |-> IF q \in S THEN what ELSE mem[q]]

Init ==
  /\ brk = start_brk
  /\ mem = [q \in Pages |-> IF q < StartPage THEN "image" ELSE "none"]
  /\ has_data = FALSE /\ made = FALSE
  /\ oldbrk = 0

-----------------------------------------------------------------------------
(* The program. *)

\* A program whose image is gone runs no further.
Running == \A q \in Pages : q < StartPage => mem[q] = "image"

\* The first mapping that ends above x starts before y.
find_vma(x, y) == \E q \in Span(x, y) : mem[q] # "none"

\* The brk system call of mm/mmap.c, which works on aligned breaks.
sys_brk(b) ==
  LET new == PAGE_ALIGN(b)
      old == PAGE_ALIGN(brk)
  IN  /\ Running /\ b # brk
      /\ \/ b <= brk /\ mem' = Mapping(Span(new, old), "none")
         \/ b > brk /\ new = old /\ mem' = mem
         \/ /\ b > brk /\ new # old
            /\ ~find_vma(old, new + PageSize)
            /\ mem' = Mapping(Span(old, new), "heap")
      /\ brk' = b
      /\ UNCHANGED <<has_data, made, oldbrk>>

Mmap(q) ==
  /\ Running /\ mem[q] = "none"
  /\ mem' = [mem EXCEPT ![q] = "other"]
  /\ UNCHANGED <<brk, has_data, made, oldbrk>>

Munmap(q) ==
  /\ Running /\ mem[q] \in {"heap", "other"}
  /\ mem' = [mem EXCEPT ![q] = "none"]
  /\ UNCHANGED <<brk, has_data, made, oldbrk>>

-----------------------------------------------------------------------------
(* The module. *)

\* The ways vm_munmap and vm_brk can end.  They refuse an address inside a page,
\* and any other when the kernel has no memory for them or the task is killed.
Remap(a, len, what) ==
  {[ok |-> FALSE, mem |-> mem]} \cup
  {[ok |-> TRUE, mem |-> m] :
     m \in IF Aligned(a) THEN {Mapping(Span(a, a + PAGE_ALIGN(len)), what)} ELSE {}}

vm_munmap(a, len) == Remap(a, len, "none")
vm_brk(a, len)    == Remap(a, len, "heap")

Failure == [ok |-> FALSE, brk |-> brk, mem |-> mem]
Success(b, m) == [ok |-> TRUE, brk |-> b, mem |-> m]

\* mm->brk follows the mappings when the call that changes them succeeds.
After(calls, b) == {IF c.ok THEN Success(b, c.mem) ELSE Failure : c \in calls}

\* Mutant: the room below the next mapping is not looked at.
restore_brk_unchecked(b) ==
  IF PAGE_ALIGN(brk) = PAGE_ALIGN(b) THEN {Success(b, mem)}
  ELSE IF b <= brk THEN After(vm_munmap(b, brk - b), b)
  ELSE After(vm_brk(brk, b - brk), b)

\* Mutant: the result of vm_munmap is not looked at.
restore_brk_moved(b) ==
  IF PAGE_ALIGN(brk) = PAGE_ALIGN(b) THEN {Success(b, mem)}
  ELSE IF b <= brk THEN {Success(b, c.mem) : c \in vm_munmap(b, brk - b)}
  ELSE IF find_vma(brk, b + PageSize) THEN {Failure}
  ELSE After(vm_brk(brk, b - brk), b)

\* The outcomes of restore_brk(b): does it return 0, the break, the mappings.
restore_brk(b) ==
  IF PAGE_ALIGN(brk) = PAGE_ALIGN(b) THEN {Success(b, mem)}
  ELSE IF b <= brk THEN After(vm_munmap(b, brk - b), b)
  ELSE IF find_vma(brk, b + PageSize) THEN {Failure}
  ELSE After(vm_brk(brk, b - brk), b)

\* exclude_vmrange or include_vmrange: a task_data without a snapshot.
vmrange ==
  /\ Running /\ ~has_data /\ has_data' = TRUE
  /\ UNCHANGED <<brk, mem, made, oldbrk>>

take_snapshot ==
  /\ Running /\ ~made
  /\ has_data' = TRUE /\ made' = TRUE
  /\ oldbrk' = brk
  /\ UNCHANGED <<brk, mem>>

\* Mutant: clear_snapshot is not called, and the task_data is gone.
clean_snapshot_made ==
  /\ Running /\ has_data
  /\ has_data' = FALSE
  /\ UNCHANGED <<brk, mem, made, oldbrk>>

clean_snapshot ==
  /\ Running /\ has_data
  /\ has_data' = FALSE /\ made' = FALSE
  /\ oldbrk' = 0
  /\ UNCHANGED <<brk, mem>>

\* Any task_data will do; a restore_brk that fails only logs.
recover_snapshot ==
  /\ Running /\ has_data
  /\ \E r \in restore_brk(oldbrk) : brk' = r.brk /\ mem' = r.mem
  /\ UNCHANGED <<has_data, made, oldbrk>>

Next ==
  \/ \E b \in Breaks : sys_brk(b)
  \/ \E q \in Pages : Mmap(q) \/ Munmap(q)
  \/ vmrange \/ take_snapshot \/ clean_snapshot \/ recover_snapshot

Spec == Init /\ [][Next]_vars

-----------------------------------------------------------------------------
\* Breaks are addresses, and a snapshot needs a task_data (snapshot.c:27-43, 136-154).
TypeOK ==
  /\ brk \in 0 .. NPages * PageSize
  /\ mem \in [Pages -> {"none", "image", "heap", "other"}]
  /\ has_data \in BOOLEAN /\ made \in BOOLEAN
  /\ oldbrk \in 0 .. NPages * PageSize
  /\ made => has_data

InTheWay == find_vma(PAGE_ALIGN(brk), PAGE_ALIGN(oldbrk) + PageSize)

\* However the calls of a restore end, the break and the mappings go together: it
\* brings the break of the snapshot back, with the heap the program grew since then
\* unmapped and the heap it gave back mapped again, or it fails and leaves both as
\* they are.  Between page-aligned breaks, with nothing mapped where the heap was or
\* in the page above it, it is only the kernel that can make it fail
\* (memory.c:512-557).
BreakRestored ==
  made =>
    /\ \A r \in restore_brk(oldbrk) :
         IF r.ok
         THEN /\ r.brk = oldbrk
              /\ \A q \in Span(PAGE_ALIGN(oldbrk), PAGE_ALIGN(brk)) : r.mem[q] = "none"
              /\ \A q \in Span(PAGE_ALIGN(brk), PAGE_ALIGN(oldbrk)) : r.mem[q] = "heap"
         ELSE r.brk = brk /\ r.mem = mem
    /\ Aligned(brk) /\ Aligned(oldbrk) /\ (oldbrk > brk => ~InTheWay) =>
         \E r \in restore_brk(oldbrk) : r.ok

\* Restoring the break touches no page outside the heap the two breaks differ
\* by, and takes no page from another mapping for the heap (memory.c:528-552).
NeighboursKept ==
  made => \A r \in restore_brk(oldbrk) : \A q \in Pages :
            /\ q \notin Span(PAGE_ALIGN(oldbrk), PAGE_ALIGN(brk))
                 \cup Span(PAGE_ALIGN(brk), PAGE_ALIGN(oldbrk)) => r.mem[q] = mem[q]
            /\ r.mem[q] = "heap" => mem[q] \in {"heap", "none"}

\* A break the program had is as good as any: with nothing in its way, and a kernel
\* that serves the call, the restore brings it back (memory.c:520, "The snapshotted
\* break was a valid break, so no need to check it here").
ValidBreakRestored ==
  made /\ (oldbrk > brk => ~InTheWay) => \E r \in restore_brk(oldbrk) : r.ok

\* A restore is refused when there is no snapshot: it changes neither the
\* mappings nor the break (snapshot.c:100-104, "no snapshot found to restore").
NoSnapshotNoRestore ==
  [][recover_snapshot /\ ~made => UNCHANGED <<brk, mem>>]_vars
=============================================================================
