---------------------------- MODULE RestoreVmas ----------------------------
(***************************************************************************)
(* restore_vmas (memory.c): one pass over two sorted lists, the mappings   *)
(* the process has and the ones it had when the snapshot was taken, that   *)
(* unmaps what is new and maps back what is missing, while vm_munmap and   *)
(* vm_mmap change the first list under the iterator.                       *)
(*                                                                         *)
(* Addresses are pages 0..Top-1; a mapping ends at Top at most.  A         *)
(* vm_area_struct is a record with the identity of its allocation, so that *)
(* the iterator is a pointer that a merge or an unmapping can leave        *)
(* dangling.  What the kernel does to the list is modelled from how the    *)
(* loop uses vm_munmap and vm_mmap.                                        *)
(***************************************************************************)
EXTENDS Integers

CONSTANTS Top,
          SnapshotKinds,  \* what a page can be mapped as in the snapshot
          CurrentKinds    \* and when restore_vmas is called

NULL == 0
ListHead == Top
ULONG_MAX == Top + 1

\* rw: anonymous private.  rwx: the same as restore_vmas maps it back, with all
\* permissions.  file: anything that is not anonymous and private.
MappedKinds == {"rw", "rwx", "file"}
Anon        == {"rw", "rwx"}

ASSUME RestoreVmasAssumption ==
  /\ Top \in Nat \ {0}
  /\ SnapshotKinds \subseteq MappedKinds
  /\ CurrentKinds \subseteq MappedKinds

Page    == 0 .. Top - 1
Ids     == 1 .. 2 * Top + 1
Layouts(kinds) == [Page -> kinds \cup {"none"}]

VARIABLES
  snap,          \* the layout at the snapshot
  before,        \* the layout restore_vmas is called with
  mm,            \* the vm_area_structs of the process
  vma_iter,      \* the identity of a vm_area_struct, or NULL
  all_vmas,      \* data->ss.all_vmas, made from snap
  ss_vma_iter,   \* the start of one of all_vmas, or ListHead
  cursor, in_vmas, in_ss_vmas,
  gave_up,       \* vm_mmap failed: the function returned 0
  pc

layoutVars == <<snap, before, all_vmas>>
iterVars   == <<vma_iter, ss_vma_iter, cursor, in_vmas, in_ss_vmas>>
vars       == <<layoutVars, mm, iterVars, gave_up, pc>>

\* The mappings of a layout: adjacent pages of one kind are one mapping.
Intervals(l) ==
  {i \in [start : Page, end : 1 .. Top] :
     /\ i.start < i.end
     /\ l[i.start] # "none"
     /\ \A p \in i.start .. i.end - 1 : l[p] = l[i.start]
     /\ i.start > 0 => l[i.start - 1] # l[i.start]
     /\ i.end < Top => l[i.end] # l[i.start]}

\* The vm_area_structs of a layout, each with an identity of its own.
VmasOf(l) ==
  {[id |-> i.start + 1, start |-> i.start, end |-> i.end, kind |-> l[i.start]] : i \in Intervals(l)}

Live(id)   == \E v \in mm : v.id = id
Vma(id)    == CHOOSE v \in mm : v.id = id
First(S)   == CHOOSE v \in S : \A u \in S : v.start <= u.start
IdOf(S)    == IF S = {} THEN NULL ELSE First(S).id
VmNext(m, id) == LET v == CHOOSE u \in m : u.id = id IN IdOf({u \in m : u.start >= v.end})
FreshId(m) == CHOOSE i \in Ids : i > Top /\ \A v \in m : v.id # i

\* The entry of all_vmas the iterator is at, and the one that follows.
SsVma   == CHOOSE i \in all_vmas : i.start = ss_vma_iter
SsStart(S) == IF S = {} THEN ListHead ELSE First(S).start
SsNext  == SsStart({i \in all_vmas : i.start >= SsVma.end})

Init ==
  /\ snap \in Layouts(SnapshotKinds)
  /\ before \in Layouts(CurrentKinds)
  /\ mm = VmasOf(before)
  /\ vma_iter = IdOf(mm)
  /\ all_vmas = Intervals(snap)
  /\ ss_vma_iter = SsStart(all_vmas)
  /\ cursor = 0
  /\ in_vmas = FALSE /\ in_ss_vmas = FALSE
  /\ gave_up = FALSE
  /\ pc = "loop"

-----------------------------------------------------------------------------
(* The kernel. *)

\* __do_munmap of [s, e): the struct of a mapping that is cut keeps its lower
\* part if it has one, else its upper part.
Munmapped(m, s, e) ==
  LET Lower(v) == IF v.start < s THEN {[v EXCEPT !.end = s]} ELSE {}
      Upper(v) == IF v.end > e
                  THEN {[v EXCEPT !.start = e, !.id = IF v.start < s THEN FreshId(m) ELSE @]}
                  ELSE {}
  IN  UNION {IF v.start < e /\ s < v.end THEN Lower(v) \cup Upper(v) ELSE {v} : v \in m}

\* mmap of [s, e) as rwx: the kernel merges it with equal neighbours where it
\* can (merge); the struct before it survives the one after it.
Mmapped(m, s, e, merge) ==
  LET prev == {v \in m : merge /\ v.end = s /\ v.kind = "rwx"}
      next == {v \in m : merge /\ v.start = e /\ v.kind = "rwx"}
      id   == IF prev # {} THEN (CHOOSE v \in prev : TRUE).id
              ELSE IF next # {} THEN (CHOOSE v \in next : TRUE).id ELSE FreshId(m)
      lo   == IF prev # {} THEN (CHOOSE v \in prev : TRUE).start ELSE s
      hi   == IF next # {} THEN (CHOOSE v \in next : TRUE).end ELSE e
  IN  (m \ (prev \cup next)) \cup {[id |-> id, start |-> lo, end |-> hi, kind |-> "rwx"]}

-----------------------------------------------------------------------------
(* The loop. *)

AtHead == ss_vma_iter = ListHead

next_vma_pos ==
  IF vma_iter = NULL THEN ULONG_MAX
  ELSE IF in_vmas THEN Vma(vma_iter).end ELSE Vma(vma_iter).start

next_ss_vma_pos ==
  IF AtHead THEN ULONG_MAX
  ELSE IF in_ss_vmas THEN SsVma.end ELSE SsVma.start

next_cursor == IF next_vma_pos < next_ss_vma_pos THEN next_vma_pos ELSE next_ss_vma_pos

\* The loop is entered once more and the structs it reads are still allocated.
Looping ==
  /\ pc = "loop"
  /\ vma_iter # NULL \/ ~AtHead
  /\ vma_iter # NULL => Live(vma_iter)

\* Mutant: mappings of the snapshot count as new.
New_all == next_cursor # cursor /\ in_vmas

\* [cursor, next_cursor) is to be unmapped; is to be mapped back.
New     == next_cursor # cursor /\ in_vmas /\ ~in_ss_vmas
Missing == next_cursor # cursor /\ ~in_vmas /\ in_ss_vmas

\* vm_next is read before vm_munmap may free the struct.
next_vma_iter == IF vma_iter = NULL THEN NULL ELSE VmNext(mm, vma_iter)

\* Mutant: vm_next is read after the call.
advance_late ==
  LET vb == next_cursor = next_vma_pos
      sb == next_cursor = next_ss_vma_pos
  IN  /\ in_vmas' = IF vb THEN ~in_vmas ELSE in_vmas
      /\ vma_iter' = IF ~(vb /\ in_vmas) THEN vma_iter
                     ELSE IF \E v \in mm' : v.id = vma_iter THEN VmNext(mm', vma_iter)
                     ELSE vma_iter
      /\ in_ss_vmas' = IF sb THEN ~in_ss_vmas ELSE in_ss_vmas
      /\ ss_vma_iter' = IF sb /\ in_ss_vmas THEN SsNext ELSE ss_vma_iter
      /\ cursor' = next_cursor

\* Mutant: the end of a mapping is looked for without having entered it.
advance_stuck ==
  LET vb == next_cursor = next_vma_pos
      sb == next_cursor = next_ss_vma_pos
  IN  /\ in_vmas' = in_vmas
      /\ vma_iter' = IF vb /\ in_vmas THEN next_vma_iter ELSE vma_iter
      /\ in_ss_vmas' = IF sb THEN ~in_ss_vmas ELSE in_ss_vmas
      /\ ss_vma_iter' = IF sb /\ in_ss_vmas THEN SsNext ELSE ss_vma_iter
      /\ cursor' = next_cursor

\* Mutant: all_vmas is advanced where an entry begins, not where it ends.
advance_entering ==
  LET vb == next_cursor = next_vma_pos
      sb == next_cursor = next_ss_vma_pos
  IN  /\ in_vmas' = IF vb THEN ~in_vmas ELSE in_vmas
      /\ vma_iter' = IF vb /\ in_vmas THEN next_vma_iter ELSE vma_iter
      /\ in_ss_vmas' = IF sb THEN ~in_ss_vmas ELSE in_ss_vmas
      /\ ss_vma_iter' = IF sb /\ ~in_ss_vmas THEN SsNext ELSE ss_vma_iter
      /\ cursor' = next_cursor

\* The end of an iteration.
advance ==
  LET vb == next_cursor = next_vma_pos
      sb == next_cursor = next_ss_vma_pos
  IN  /\ in_vmas' = IF vb THEN ~in_vmas ELSE in_vmas
      /\ vma_iter' = IF vb /\ in_vmas THEN next_vma_iter ELSE vma_iter
      /\ in_ss_vmas' = IF sb THEN ~in_ss_vmas ELSE in_ss_vmas
      /\ ss_vma_iter' = IF sb /\ in_ss_vmas THEN SsNext ELSE ss_vma_iter
      /\ cursor' = next_cursor

Unmap ==
  /\ Looping /\ New
  /\ mm' = Munmapped(mm, cursor, next_cursor)
  /\ advance
  /\ UNCHANGED <<layoutVars, gave_up, pc>>

\* Mutant: a missing mapping that is not anonymous is mapped back as well.
MapBack_any ==
  /\ Looping /\ Missing
  /\ \E merge \in BOOLEAN : mm' = Mmapped(mm, cursor, next_cursor, merge)
  /\ advance
  /\ UNCHANGED <<layoutVars, gave_up, pc>>

\* Mutant: the length is one page too much, and nothing checks what is there.
MapBack_long ==
  /\ Looping /\ Missing
  /\ snap[ss_vma_iter] \in Anon
  /\ \E merge \in BOOLEAN : mm' = Mmapped(mm, cursor, next_cursor + 1, merge)
  /\ advance
  /\ UNCHANGED <<layoutVars, gave_up, pc>>

MapBack ==
  /\ Looping /\ Missing
  /\ snap[ss_vma_iter] \in Anon
  /\ \E merge \in BOOLEAN : mm' = Mmapped(mm, cursor, next_cursor, merge)
  /\ advance
  /\ UNCHANGED <<layoutVars, gave_up, pc>>

\* Nothing to do in [cursor, next_cursor), or memory that cannot be mapped back.
Skip ==
  /\ Looping /\ ~New
  /\ Missing => snap[ss_vma_iter] \notin Anon
  /\ UNCHANGED mm
  /\ advance
  /\ UNCHANGED <<layoutVars, gave_up, pc>>

\* vm_munmap fails: its error is returned, and the dirty pages are not restored.
UnmapFails ==
  /\ Looping /\ New
  /\ pc' = "error"
  /\ UNCHANGED <<layoutVars, mm, iterVars, gave_up>>

\* vm_mmap fails: res is returned, and res is 0.
MapBackFails ==
  /\ Looping /\ Missing
  /\ snap[ss_vma_iter] \in Anon
  /\ pc' = "done"
  /\ gave_up' = TRUE
  /\ UNCHANGED <<layoutVars, mm, iterVars>>

Finish ==
  /\ pc = "loop" /\ vma_iter = NULL /\ AtHead
  /\ pc' = "done"
  /\ UNCHANGED <<layoutVars, mm, iterVars, gave_up>>

Next == Unmap \/ MapBack \/ Skip \/ UnmapFails \/ MapBackFails \/ Finish

\* The function runs to its end in the task that called it.
Spec == Init /\ [][Next]_vars /\ WF_vars(Next)

-----------------------------------------------------------------------------
\* A mapping spans two mappings of the snapshot and the gap between them: the
\* kernel merged a new mapping with its neighbours.
Merged ==
  \E i \in Intervals(before), x, y \in Page :
    /\ i.start < x /\ x < y /\ y < i.end
    /\ snap[x - 1] # "none" /\ snap[y] # "none"
    /\ \A p \in x .. y - 1 : snap[p] = "none"

KindAt(p) ==
  IF \E v \in mm : v.start <= p /\ p < v.end
  THEN (CHOOSE v \in mm : v.start <= p /\ p < v.end).kind ELSE "none"

\* No mapping was put back by an earlier restore, with all permissions.
FirstRestore == \A p \in Page : before[p] # "rwx"

\* What RestoredVma of SnapshotMemory says of a page.
Target(p) ==
  CASE before[p] # "none" /\ snap[p] = "none" -> "none"
    [] before[p] = "none" /\ snap[p] \in Anon -> "rwx"
    [] OTHER -> before[p]

\* The vm_area_structs stay disjoint, within the address space and distinct
\* allocations through every vm_munmap and vm_mmap of the loop (memory.c:559-650).
TypeOK ==
  /\ snap \in Layouts(SnapshotKinds)
  /\ before \in Layouts(CurrentKinds)
  /\ \A v \in mm : /\ v.id \in Ids /\ v.kind \in MappedKinds
                   /\ 0 <= v.start /\ v.start < v.end /\ v.end <= Top
  /\ \A u, v \in mm : u # v => u.id # v.id /\ (u.end <= v.start \/ v.end <= u.start)
  /\ vma_iter \in Ids \cup {NULL}
  /\ ss_vma_iter \in {i.start : i \in all_vmas} \cup {ListHead}
  /\ cursor \in 0 .. Top
  /\ {in_vmas, in_ss_vmas, gave_up} \subseteq BOOLEAN
  /\ pc \in {"loop", "done", "error"}

\* A finished restore_vmas leaves exactly the mappings of the snapshot: new ones
\* are gone, missing anonymous ones are back, and where both lists agree nothing
\* changed, if no new mapping was merged with two old ones and none is left from an
\* earlier restore, which vm_mmap could merge with (memory.c:602-631).
MappingsRestored ==
  pc = "done" /\ ~gave_up /\ FirstRestore /\ ~Merged => \A p \in Page : KindAt(p) = Target(p)

\* On the way, failed calls included, a page is mapped as before or as it has to
\* be: nothing is unmapped or mapped that has to stay (memory.c:604-626).
OnlyTowardsSnapshot ==
  ~Merged => \A p \in Page : KindAt(p) \in {before[p], Target(p)}

\* "in_vmas and in_ss_vmas hold for the interval [cursor, next_cursor)"
\* (memory.c:602): what the loop decides on is what the two lists say.
FlagsHold ==
  Looping /\ FirstRestore /\ ~Merged =>
    \A p \in cursor .. next_cursor - 1 : /\ in_vmas <=> KindAt(p) # "none"
                                         /\ in_ss_vmas <=> snap[p] # "none"

\* The iterator never points to a freed vm_area_struct: "vm_munmap may free the
\* vm_area_struct, so save vm_next here" (memory.c:583).  Only a merge with a
\* mapping of an earlier restore frees it (memory.c:618).
IteratorLive == FirstRestore /\ vma_iter # NULL => Live(vma_iter)

\* The loop ends, although an unmapping inside a mapping makes cursor go back
\* (memory.c:579).
Terminates == FirstRestore => <>(pc # "loop")

\* "Trace new mmaped ares and unmap them on restore" (README.md:76): what was not
\* mapped at the snapshot is not mapped after a restore.  Where a new mapping was
\* merged with two old ones, vm_munmap cuts it, the iterator's struct keeps the
\* lower part, the cursor goes back, and the gap is mapped again.
NewAreasUnmapped ==
  pc = "done" /\ ~gave_up => \A p \in Page : snap[p] = "none" => KindAt(p) = "none"
=============================================================================
