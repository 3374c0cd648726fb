--------------------------- MODULE SnapshotMemory ---------------------------
(***************************************************************************)
(* The memory snapshot of one single-threaded process: memory.c, driven by *)
(* snapshot.c.  The program touches, maps, unmaps and protects memory; the *)
(* kernel's fault and munmap paths run the hooks; the ioctls and the exit  *)
(* hooks take, restore and drop the snapshot.                              *)
(*                                                                         *)
(* An area stands for a VMA: the program maps, unmaps and protects whole   *)
(* areas.  A vmrange is the set of pages it spans.                         *)
(***************************************************************************)
EXTENDS SnapshotPage, Integers

CONSTANTS Pages,
          Areas,
          AreaOf,         \* the area each page lies in
          InitialVmas,    \* the mappings a program can start with
          StackAreas,     \* the areas is_stack answers yes for
          Configs,        \* the config masks afl_snapshot_take is called with
          ExcludeRanges,  \* arguments of afl_snapshot_exclude_vmrange
          IncludeRanges,  \* arguments of afl_snapshot_include_vmrange
          VmaTurn,        \* the order, by address, in which a take allocates
          PageTurn,       \*   the struct of an area, then those of its pages,
          End             \*   and the turn after the last one

Flags == {"MMAP", "BLOCK", "EXIT", "NOSTACK"}

ASSUME MemoryAssumption ==
  /\ AreaOf \in [Pages -> Areas]
  /\ InitialVmas \subseteq [Areas -> Vma]
  /\ \A m \in InitialVmas, a \in Areas : m[a].mapped \/ m[a] = NoVma
  /\ StackAreas \subseteq Areas
  /\ Configs \subseteq SUBSET Flags
  /\ ExcludeRanges \subseteq SUBSET Pages
  /\ IncludeRanges \subseteq SUBSET Pages
  \* snapshot_walk_check_range decides differently where the two lists overlap
  /\ \A x \in ExcludeRanges, i \in IncludeRanges : x \cap i = {}
  /\ End \in Nat
  /\ VmaTurn \in [Areas -> 0 .. (End - 1)]
  /\ PageTurn \in [Pages -> 0 .. (End - 1)]
  /\ \A p \in Pages : VmaTurn[AreaOf[p]] < PageTurn[p]

VARIABLES
  alive,             \* the process has not exited
  vma,               \* its mappings, by area
  page,              \* its pages and their struct snapshot_page
  has_data,          \* it has a task_data
  status, config,    \* data->ss.status, data->config
  allowlist,         \* data->allowlist, as the pages it spans
  blocklist,         \* data->blocklist, as the pages it spans
  all_vmas,          \* data->ss.all_vmas
  anon_private,      \* the all_vmas with is_anonymous_private
  snapshotted_vmas,  \* data->ss.snapshotted_vmas
  saved,             \* history: what the pages to snapshot showed then
  covered,           \* history: the pages whose changes the hooks can see
  failed             \* history: the pages the module ever failed to save or to write
                     \*   back, or that became writable behind its back

programVars == <<alive, vma, page>>
dataVars    == <<has_data, status, config, allowlist, blocklist,
                 all_vmas, anon_private, snapshotted_vmas>>
historyVars == <<saved, covered, failed>>
vars        == <<programVars, dataVars, historyVars>>

\* The state has its type; snapshotted_vmas and the anonymous private entries are
\* always among all_vmas (memory.c:162-194, 740-754).
TypeOK ==
  /\ alive \in BOOLEAN
  /\ vma \in [Areas -> Vma]
  /\ page \in [Pages -> PageState]
  /\ has_data \in BOOLEAN
  /\ status \subseteq {"MADE", "HAD"}
  /\ config \subseteq Flags
  /\ allowlist \subseteq Pages
  /\ blocklist \subseteq Pages
  /\ all_vmas \subseteq Areas
  /\ anon_private \subseteq all_vmas
  /\ snapshotted_vmas \subseteq all_vmas
  /\ saved \in [Pages -> Data]
  /\ covered \subseteq Pages
  /\ failed \subseteq Pages

have_snapshot == "MADE" \in status
had_snapshot  == "HAD" \in status

PagesOf(a) == {p \in Pages : AreaOf[p] = a}
VmaOf(p)   == vma[AreaOf[p]]

\* The context of a fault or a walk: vm the mappings, A the pages kmalloc serves,
\* T the pages that have a page table.
ContextOf(p, vm, A, T, copy) ==
  LET v == vm[AreaOf[p]]
  IN  [have |-> have_snapshot, tracked |-> AreaOf[p] \in snapshotted_vmas,
       mapped |-> v.mapped, writable |-> v.mapped /\ v.w, kind |-> v.kind,
       alloc |-> p \in A, copy |-> copy, table |-> p \in T]

\* The pages of S a write or an unmapping would have to allocate a copy for, and
\* those whose page table may or may not exist.
Uncopied(S) == {p \in S : have_snapshot /\ Recordable(page[p]) /\ ~page[p].has_been_copied}
NoPte(S)    == {p \in S : page[p].pte = "none"}

Init ==
  /\ alive = TRUE
  /\ vma \in InitialVmas
  /\ page = [p \in Pages |-> UntouchedPage(VmaOf(p).kind)]
  /\ has_data = FALSE
  /\ status = {} /\ config = {}
  /\ allowlist = {} /\ blocklist = {}
  /\ all_vmas = {} /\ anon_private = {} /\ snapshotted_vmas = {}
  /\ saved = [p \in Pages |-> Junk]
  /\ covered = {} /\ failed = {}

-----------------------------------------------------------------------------
(* The program, and the kernel paths it enters. *)

Load(p) ==
  /\ alive /\ VmaOf(p).mapped
  /\ page' = [page EXCEPT ![p] = load(@, ContextOf(p, vma, {}, {}, FALSE))]
  /\ UNCHANGED <<alive, vma, dataVars, historyVars>>

Store(p, v) ==
  /\ alive /\ VmaOf(p).mapped /\ VmaOf(p).w
  /\ LET copied == IF page[p].pte = "ro" THEN Uncopied({p}) ELSE {}
     IN  \E A \in SUBSET copied, copy \in BOOLEAN :
           /\ page' = [page EXCEPT ![p] = store(@, ContextOf(p, vma, A, {}, copy), v)]
           /\ failed' = failed \cup (copied \ A)
  /\ UNCHANGED <<alive, vma, dataVars, saved, covered>>

\* fork() write protects the writable pages of private mappings.
Fork ==
  /\ alive
  /\ page' = [p \in Pages |->
                IF VmaOf(p).kind # "shared" THEN wrprotect(page[p]) ELSE page[p]]
  /\ UNCHANGED <<alive, vma, dataVars, historyVars>>

\* mmap() of an anonymous private mapping where nothing is mapped; a read-only
\* one is this followed by Mprotect.
Mmap(a) ==
  /\ alive /\ ~vma[a].mapped
  /\ vma' = [vma EXCEPT ![a] = [mapped |-> TRUE, w |-> TRUE, kind |-> "anon"]]
  /\ UNCHANGED <<alive, page, dataVars, historyVars>>

\* munmap(): __do_munmap_hook walks the range, then the kernel removes it.  A
\* page of a file mapping that is not saved by then is gone for good.
Munmap(a) ==
  /\ alive /\ vma[a].mapped
  /\ \E A \in SUBSET Uncopied(PagesOf(a)), T \in SUBSET NoPte(PagesOf(a)) :
       /\ page' = [p \in Pages |->
                    IF p \in PagesOf(a)
                    THEN munmap_page(page[p], ContextOf(p, vma, A, T, FALSE))
                    ELSE page[p]]
       /\ failed' = failed \cup (Uncopied(PagesOf(a)) \ A)
            \cup {p \in PagesOf(a) : /\ vma[a].kind = "file"
                                     /\ ~page[p].hashed \/ NonePte(page[p])}
  /\ vma' = [vma EXCEPT ![a] = NoVma]
  /\ UNCHANGED <<alive, dataVars, saved, covered>>

\* mprotect().  A saved page of a shared mapping that it makes writable again can
\* change without a fault, and so without do_wp_page_hook.
Mprotect(a, w) ==
  /\ alive /\ vma[a].mapped /\ vma[a].w # w
  /\ vma' = [vma EXCEPT ![a].w = w]
  /\ page' = [p \in Pages |->
                IF p \in PagesOf(a) THEN mprotect_page(page[p], vma[a].kind, w) ELSE page[p]]
  /\ failed' = failed \cup {p \in PagesOf(a) : w /\ vma[a].kind = "shared" /\ Recordable(page[p])}
  /\ UNCHANGED <<alive, dataVars, saved, covered>>

-----------------------------------------------------------------------------
(* The ioctls. *)

\* list_add(&data->blocklist, &n->node) adds the list head after the new node:
\* the list holds the new range and no other.  Without memory for
\* the node it stays as it was.
exclude_vmrange(r) ==
  /\ alive
  /\ has_data' = TRUE
  /\ blocklist' \in {r, blocklist}
  /\ UNCHANGED <<programVars, status, config, allowlist, all_vmas, anon_private,
                 snapshotted_vmas, historyVars>>

include_vmrange(r) ==
  /\ alive
  /\ has_data' = TRUE
  /\ allowlist' \in {r, allowlist}
  /\ UNCHANGED <<programVars, status, config, blocklist, all_vmas, anon_private,
                 snapshotted_vmas, historyVars>>

\* take_memory_snapshot's choice of the mappings to walk.
Snapshottable(cfg, a) ==
  /\ vma[a].mapped
  /\ \/ PagesOf(a) \cap allowlist # {}
     \/ /\ vma[a].w
        /\ vma[a].kind # "shared"
        /\ "BLOCK" \notin cfg
        /\ ~("NOSTACK" \in cfg /\ a \in StackAreas)

\* snapshot_walk_check_range's answer for one page.
Selected(cfg, p) ==
  /\ p \notin blocklist
  /\ p \in allowlist \/ "BLOCK" \notin cfg

\* take_snapshot when there is no snapshot yet.  It stops at the first allocation
\* that fails, the one of turn n, and reports a snapshot all the same.  T: the
\* page tables that exist.
take_snapshot(cfg) ==
  /\ alive /\ ~have_snapshot
  /\ has_data' = TRUE
  /\ status' = {"MADE", "HAD"}
  /\ config' = cfg
  /\ \E n \in 0 .. End :
       /\ all_vmas' = {a \in Areas : vma[a].mapped /\ VmaTurn[a] < n}
       /\ anon_private' = {a \in Areas : vma[a].mapped /\ vma[a].kind = "anon" /\ VmaTurn[a] < n}
       /\ snapshotted_vmas' = {a \in Areas : Snapshottable(cfg, a) /\ VmaTurn[a] < n}
       /\ LET walked == {p \in Pages : /\ Snapshottable(cfg, AreaOf[p]) /\ Selected(cfg, p)
                                       /\ PageTurn[p] < n}
          IN  /\ \E T \in SUBSET NoPte(walked) :
                   page' = [p \in Pages |->
                              IF p \in walked /\ (page[p].pte # "none" \/ p \in T)
                              THEN make_snapshot_page(page[p]) ELSE page[p]]
              /\ covered' = {p \in walked : VmaOf(p).kind # "shared" \/ page[p].pte # "none"}
              /\ saved' = [p \in Pages |-> IF p \in walked THEN page[p].mem ELSE Junk]
  /\ UNCHANGED <<alive, vma, allowlist, blocklist, failed>>

\* The areas restore_vmas unmaps, because the snapshot does not know them, and
\* the anonymous private ones it misses and maps again.
ToUnmap == {a \in Areas : "MMAP" \in config /\ vma[a].mapped /\ a \notin all_vmas}
ToMap   == {a \in Areas : "MMAP" \in config /\ ~vma[a].mapped /\ a \in anon_private}

\* restore_vmas, by its effect on whole areas, up to turn n: End, or the area
\* whose vm_munmap or vm_mmap fails.  What is mapped again is always writable,
\* because of the | where add_snapshot_vma means &.
RestoredVma(a, n) ==
  IF VmaTurn[a] >= n THEN vma[a]
  ELSE IF a \in ToUnmap THEN NoVma
  ELSE IF a \in ToMap THEN [mapped |-> TRUE, w |-> TRUE, kind |-> "anon"]
  ELSE vma[a]

RestoredVmas(n) == [a \in Areas |-> RestoredVma(a, n)]

\* A page after restore_vmas.  T: the page tables that exist; copy: as in Context.
Revmaed(p, n, T, copy) ==
  IF VmaOf(p).mapped /\ ~RestoredVmas(n)[AreaOf[p]].mapped
  THEN munmap_page(page[p], ContextOf(p, vma, Pages, T, copy))
  ELSE page[p]

\* And after the loop over the dirty pages, whose turns do not depend on each
\* other.
RestoredPage(p, n, T, copy) ==
  LET g == Revmaed(p, n, T, copy)
  IN  IF g.listed THEN recover_page(g, ContextOf(p, RestoredVmas(n), Pages, T, copy)) ELSE g

\* The dirty pages copy_to_user cannot write back.
Lost(n, T, copy) ==
  {p \in Pages : LET g == Revmaed(p, n, T, copy)
                     v == RestoredVmas(n)[AreaOf[p]]
                 IN  g.listed /\ g.dirty /\ g.has_been_copied /\ ~(v.mapped /\ v.w)}

\* Where restore_vmas can end with a zero result: behind the last mapping, or at
\* a vm_mmap that fails, whose error it does not return.
MapStops == {End} \cup {VmaTurn[a] : a \in ToMap}

\* restore_snapshot with a snapshot in place, restore_vmas returning zero.
restore_completes ==
  \E n \in MapStops, T \in SUBSET NoPte(Pages), copy \in BOOLEAN :
    /\ vma' = RestoredVmas(n)
    /\ page' = [p \in Pages |-> RestoredPage(p, n, T, copy)]
    /\ failed' = failed \cup Lost(n, T, copy)
    /\ UNCHANGED <<alive, dataVars, saved, covered>>

\* Mutant: the dirty list is emptied although nothing was restored.
restore_gives_up_unlisted ==
  \E a \in ToUnmap, T \in SUBSET NoPte(Pages), copy \in BOOLEAN :
    /\ vma' = RestoredVmas(VmaTurn[a])
    /\ page' = [p \in Pages |-> unlist(Revmaed(p, VmaTurn[a], T, copy))]
    /\ UNCHANGED <<alive, dataVars, historyVars>>

\* vm_munmap fails, and recover_memory_snapshot returns before the dirty pages;
\* restore_snapshot does not look at the result.
restore_gives_up ==
  \E a \in ToUnmap, T \in SUBSET NoPte(Pages), copy \in BOOLEAN :
    /\ vma' = RestoredVmas(VmaTurn[a])
    /\ page' = [p \in Pages |-> Revmaed(p, VmaTurn[a], T, copy)]
    /\ UNCHANGED <<alive, dataVars, historyVars>>

restore_snapshot == restore_completes \/ restore_gives_up

\* Mutant: snapshot_vmas are freed without unlinking snapshotted_vmas_node.
clean_snapshot_dangling ==
  /\ page' = [p \in Pages |-> forget_page(page[p])]
  /\ has_data' = FALSE
  /\ status' = {} /\ config' = {}
  /\ allowlist' = {} /\ blocklist' = {}
  /\ all_vmas' = {} /\ anon_private' = {} /\ UNCHANGED snapshotted_vmas
  /\ saved' = [p \in Pages |-> Junk]
  /\ covered' = {} /\ failed' = failed

\* The dirty pages go, the page table entries stay as they are.
clean_snapshot ==
  /\ page' = [p \in Pages |-> forget_page(page[p])]
  /\ has_data' = FALSE
  /\ status' = {} /\ config' = {}
  /\ allowlist' = {} /\ blocklist' = {}
  /\ all_vmas' = {} /\ anon_private' = {} /\ snapshotted_vmas' = {}
  /\ saved' = [p \in Pages |-> Junk]
  /\ covered' = {} /\ failed' = failed

\* AFL_SNAPSHOT_IOCTL_RESTORE.  A task_data without a snapshot has nothing to
\* recover here; what restore_brk does then is in module ProgramBreak.
recover_snapshot ==
  /\ alive /\ has_data /\ have_snapshot
  /\ restore_snapshot

\* AFL_SNAPSHOT_IOCTL_CLEAN.
ioctl_clean ==
  /\ alive /\ has_data
  /\ clean_snapshot
  /\ UNCHANGED <<alive, vma>>

\* exit_group() of a process that asked for AFL_SNAPSHOT_EXIT restores instead.
exit_restores ==
  /\ alive /\ has_data /\ "EXIT" \in config /\ have_snapshot
  /\ restore_snapshot

\* The process ends, by exit_group() or by a signal: exit_snapshot, do_exit_hook.
process_exit ==
  /\ alive
  /\ alive' = FALSE
  /\ vma' = [a \in Areas |-> NoVma]
  /\ IF has_data /\ had_snapshot THEN clean_snapshot
     ELSE UNCHANGED <<page, dataVars, historyVars>>

\* A store to the page has page_add_new_anon_rmap_hook allocate a struct for it.
NeedsStruct(p) ==
  /\ have_snapshot /\ ~page[p].hashed /\ AreaOf[p] \in snapshotted_vmas
  /\ VmaOf(p).mapped /\ VmaOf(p).w /\ VmaOf(p).kind # "shared" /\ page[p].pte # "rw"

\* kmalloc fails where nobody looks at the result: ensure_task_data in an ioctl of
\* a process that has no task_data yet, or add_snapshot_page in the hook.  The NULL
\* is dereferenced, and the kernel ends the process there.
null_dereference ==
  /\ ~has_data \/ \E p \in Pages : NeedsStruct(p)
  /\ process_exit

-----------------------------------------------------------------------------
Program ==
  \/ \E p \in Pages : Load(p) \/ \E v \in Values : Store(p, v)
  \/ Fork
  \/ \E a \in Areas : Mmap(a) \/ Munmap(a) \/ \E w \in BOOLEAN : Mprotect(a, w)

Ioctl ==
  \/ \E r \in ExcludeRanges : exclude_vmrange(r)
  \/ \E r \in IncludeRanges : include_vmrange(r)
  \/ \E cfg \in Configs : take_snapshot(cfg)
  \/ recover_snapshot
  \/ ioctl_clean

Next == Program \/ Ioctl \/ exit_restores \/ null_dereference \/ process_exit

Spec == Init /\ [][Next]_vars

-----------------------------------------------------------------------------
(* What a careful reader expects of a restore. *)

Restore == recover_snapshot \/ exit_restores

\* Whenever a restore comes, by ioctl or by exit_group, it gives every page the
\* snapshot covers the bytes it had when the snapshot was taken, if the page is
\* mapped afterwards and the module met no failure to save it or to write it
\* back (memory.c:675-738).  It is a state predicate because a restore that
\* changes nothing is a stuttering step.
RestoreExact ==
  alive /\ have_snapshot =>
    \A n \in MapStops, T \in SUBSET NoPte(Pages), copy \in BOOLEAN :
      \A p \in covered \ (failed \cup Lost(n, T, copy)) :
        RestoredVmas(n)[AreaOf[p]].mapped => RestoredPage(p, n, T, copy).mem = saved[p]

\* A restore does not change the bytes of a page in a mapping the snapshot
\* left out: shared or read-only by default, stack with NOSTACK, not in the
\* allowlist with BLOCK (memory.c:476-493 and the hook's test at memory.c:909).
OutsideUntouched ==
  [][Restore => \A p \in Pages :
                  AreaOf[p] \in all_vmas \ snapshotted_vmas /\ VmaOf(p).mapped
                    => page'[p].mem = page[p].mem]_vars

\* Whenever a covered page shows something else than at the snapshot, the
\* restore loop will see it: it is on the dirty list, either with a copy of
\* its old bytes or as a page that had no page table entry (memory.c:773-935).
Recoverable ==
  \A p \in covered \ failed :
    VmaOf(p).mapped /\ page[p].mem # saved[p] =>
      /\ page[p].listed
      /\ \/ page[p].dirty /\ page[p].has_been_copied /\ page[p].page_data = saved[p]
         \/ /\ NonePte(page[p]) /\ page[p].has_had_pte
            /\ saved[p] = Backing(VmaOf(p).kind)

\* in_dirty_list is TRUE exactly for the structs linked in dirty_pages, so
\* list_add_tail never links a node twice and list_del never unlinks a free
\* node (memory.c:733-734, 790-797, 925-933).
DirtyListSync ==
  \A p \in Pages : page[p].in_dirty_list = page[p].listed

\* A writable entry of a private mapping maps an anonymous page of the process:
\* do_wp_page_hook never makes the zero page or a page cache page writable
\* (memory.c:855-868), if the page was not lost by an earlier restore.
OwnFrame == \A p \in Pages \ failed : FrameOK(page[p], VmaOf(p))

-----------------------------------------------------------------------------
(* The inductive invariant behind them. *)

\* Page p is in one of the cases SnapshotPage lists, and only pages of the
\* snapshotted mappings have a struct.
PageInv(p) ==
  /\ StructOK(page[p])
  /\ alive => KernelOK(page[p], VmaOf(p))
  /\ Copied(page[p]) => p \in covered
  /\ p \in covered \ failed => SavedOK(page[p], VmaOf(p), saved[p])
  /\ p \notin failed => FrameOK(page[p], VmaOf(p))
  /\ page[p].hashed => have_snapshot
  /\ page[p].hashed \/ p \in covered => AreaOf[p] \in snapshotted_vmas

\* The strengthening the theorems use: every page of the snapshot is unchanged
\* and write protected, or queued with what its recovery needs, through faults,
\* munmap, mprotect, fork and restores in any order (memory.c, snapshot.c).
Inv ==
  /\ \A p \in Pages : PageInv(p)
  /\ covered # {} => have_snapshot /\ alive
  /\ have_snapshot => had_snapshot
  /\ had_snapshot => has_data
=============================================================================
