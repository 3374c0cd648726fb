---------------------------- MODULE SnapshotPage ----------------------------
(***************************************************************************)
(* One page of the snapshotted process: its page table entry, the bytes it *)
(* shows, and the struct snapshot_page memory.c keeps for it.  Everything  *)
(* here is a function from a page state to a page state, so that the fault *)
(* hooks, the write that caused the fault and the restore loop compose the *)
(* way the kernel composes them: copy_to_user in do_recover_page faults    *)
(* again and re-enters the hooks.                                          *)
(*                                                                         *)
(* The operators that stand for kernel code (do_wp_page, the first-touch   *)
(* fault, zap_page_range) are modelled from how memory.c uses and hooks    *)
(* them.                                                                   *)
(***************************************************************************)

CONSTANTS Values,    \* contents a page can have
          Zero,      \* what a fresh anonymous page shows
          FileData,  \* what a fresh page of a private file mapping shows
          Junk       \* bytes nobody stored: no buffer yet, or page frame 0

ASSUME ValuesAssumption ==
  /\ {Zero, FileData} \subseteq Values
  /\ Junk \notin Values

Data  == Values \cup {Junk}
Kinds == {"anon", "file", "shared"}
Vma   == [mapped : BOOLEAN, w : BOOLEAN, kind : Kinds]
NoVma == [mapped |-> FALSE, w |-> FALSE, kind |-> "anon"]
Prot  == {"PRIVATE", "COW", "NONE_PTE"}

(***************************************************************************)
(* pte, anon and mem belong to the kernel: the entry (absent, write        *)
(* protected, writable), whether it maps an anonymous page of the process  *)
(* (as opposed to the zero page, the page cache or shmem), and the bytes   *)
(* the process sees.  hashed: the struct is in ss_pages.  listed: its      *)
(* dirty_list node is linked in data->ss.dirty_pages.                      *)
(***************************************************************************)
PageState ==
  [pte : {"none", "ro", "rw"}, anon : BOOLEAN, mem : Data,
   hashed : BOOLEAN, page_prot : SUBSET Prot, page_data : Data,
   has_been_copied : BOOLEAN, has_had_pte : BOOLEAN,
   dirty : BOOLEAN, in_dirty_list : BOOLEAN, listed : BOOLEAN]

(***************************************************************************)
(* What a page operation reads besides the page: whether a hook finds a    *)
(* task_data with a snapshot (have), is_snapshotted_address (tracked), the *)
(* mapping the page lies in (mapped, writable, kind) and three choices of  *)
(* the kernel: kmalloc succeeds (alloc), do_wp_page copies an anonymous    *)
(* page rather than reusing it (copy), the page table exists (table).      *)
(***************************************************************************)
Context ==
  [have : BOOLEAN, tracked : BOOLEAN, mapped : BOOLEAN, writable : BOOLEAN,
   kind : Kinds, alloc : BOOLEAN, copy : BOOLEAN, table : BOOLEAN]

\* The bytes behind a page with no page table entry.
Backing(kind) == IF kind = "file" THEN FileData ELSE Zero

\* A page the module knows nothing about, not yet touched by the process.
UntouchedPage(kind) ==
  [pte |-> "none", anon |-> FALSE, mem |-> Backing(kind),
   hashed |-> FALSE, page_prot |-> {}, page_data |-> Junk,
   has_been_copied |-> FALSE, has_had_pte |-> FALSE,
   dirty |-> FALSE, in_dirty_list |-> FALSE, listed |-> FALSE]

NonePte(g)   == "NONE_PTE" \in g.page_prot
IsPrivate(g) == "PRIVATE" \in g.page_prot

\* A page that had an entry at the snapshot: it is saved by copying it.
Copied(g)    == g.hashed /\ ~NonePte(g)

\* ptep_set_wrprotect.
wrprotect(g) == [g EXCEPT !.pte = IF @ = "rw" THEN "ro" ELSE @]

-----------------------------------------------------------------------------
(* Taking the snapshot. *)

add_snapshot_page(g) ==
  [g EXCEPT !.hashed = TRUE, !.page_prot = {}, !.has_been_copied = FALSE,
            !.dirty = FALSE, !.in_dirty_list = FALSE]

\* Mutant: the writable page is recorded but not write protected.
make_snapshot_page_unprotected(g) ==
  LET s == add_snapshot_page(g)
  IN  [s EXCEPT !.has_had_pte = g.pte # "none",
                !.page_prot = CASE g.pte = "none" -> {"NONE_PTE"}
                                [] g.pte = "rw"   -> {"PRIVATE"}
                                [] OTHER          -> {"COW"}]

make_snapshot_page(g) ==
  LET s == wrprotect(add_snapshot_page(g))
  IN  [s EXCEPT !.has_had_pte = g.pte # "none",
                !.page_prot = CASE g.pte = "none" -> {"NONE_PTE"}
                                [] g.pte = "rw"   -> {"PRIVATE"}
                                [] OTHER          -> {"COW"}]

-----------------------------------------------------------------------------
(* The hooks. *)

\* list_add_tail(&sp->dirty_list, ...) unless in_dirty_list says it is there.
enqueue_dirty(g) ==
  [g EXCEPT !.in_dirty_list = TRUE, !.listed = @ \/ ~g.in_dirty_list]

\* record_dirty_page gets past its early returns.
Recordable(g) == Copied(g) /\ ~g.dirty

\* record_dirty_page returns the page rather than NULL.
Recorded(g, c) == Recordable(g) /\ (g.has_been_copied \/ c.alloc)

\* Mutant: in_dirty_list is not set when the page is queued.
record_dirty_page_unflagged(g, c) ==
  IF ~Recordable(g) THEN g
  ELSE LET d == [g EXCEPT !.dirty = TRUE, !.listed = TRUE]
       IN  IF g.has_been_copied \/ ~c.alloc THEN d
           ELSE [d EXCEPT !.page_data = IF g.pte = "none" THEN Junk ELSE g.mem,
                          !.has_been_copied = TRUE]

\* An absent pte has pfn 0, so the copy is of page frame 0.
record_dirty_page(g, c) ==
  IF ~Recordable(g) THEN g
  ELSE LET d == [enqueue_dirty(g) EXCEPT !.dirty = TRUE]
       IN  IF g.has_been_copied \/ ~c.alloc THEN d
           ELSE [d EXCEPT !.page_data = IF g.pte = "none" THEN Junk ELSE g.mem,
                          !.has_been_copied = TRUE]

\* Mutant: is_snapshotted_address is not asked.
page_add_new_anon_rmap_hook_any(g, c) ==
  IF ~c.have THEN g
  ELSE LET s == IF g.hashed THEN g
                ELSE [add_snapshot_page(g) EXCEPT !.page_prot = {"NONE_PTE"}]
           h == [s EXCEPT !.has_had_pte = TRUE]
       IN  IF NonePte(s) THEN enqueue_dirty(h) ELSE h

\* Mutant: only pages the walk has already seen are tracked.
page_add_new_anon_rmap_hook_hashed(g, c) ==
  IF ~c.have \/ ~g.hashed THEN g
  ELSE LET h == [g EXCEPT !.has_had_pte = TRUE]
       IN  IF NonePte(h) THEN enqueue_dirty(h) ELSE h

page_add_new_anon_rmap_hook(g, c) ==
  IF ~c.have \/ (~g.hashed /\ ~c.tracked) THEN g
  ELSE LET s == IF g.hashed THEN g
                ELSE [add_snapshot_page(g) EXCEPT !.page_prot = {"NONE_PTE"}]
           h == [s EXCEPT !.has_had_pte = TRUE]
       IN  IF NonePte(s) THEN enqueue_dirty(h) ELSE h

\* The kernel's own do_wp_page: a shared mapping and an anonymous page nobody
\* else uses are reused, anything else is copied into a new anonymous page.
do_wp_page(g, c) ==
  IF c.kind = "shared" \/ (g.anon /\ ~c.copy) THEN [g EXCEPT !.pte = "rw"]
  ELSE page_add_new_anon_rmap_hook([g EXCEPT !.pte = "rw", !.anon = TRUE], c)

\* Mutant: pages that were COW at the snapshot are also made writable in place.
do_wp_page_hook_cow(g, c) ==
  LET r == IF c.have THEN record_dirty_page(g, c) ELSE g
  IN  IF c.have /\ Recorded(g, c) THEN [r EXCEPT !.pte = "rw"]
      ELSE do_wp_page(r, c)

\* The hook and, unless it skips it, the function it hooks.
do_wp_page_hook(g, c) ==
  LET r == IF c.have THEN record_dirty_page(g, c) ELSE g
  IN  IF c.have /\ Recorded(g, c) /\ IsPrivate(r) THEN [r EXCEPT !.pte = "rw"]
      ELSE do_wp_page(r, c)

\* First touch by a write: do_anonymous_page or do_cow_fault, which call
\* page_add_new_anon_rmap, or do_shared_fault, which does not.
first_touch(g, c) ==
  IF c.kind = "shared" THEN [g EXCEPT !.pte = "rw"]
  ELSE page_add_new_anon_rmap_hook([g EXCEPT !.pte = "rw", !.anon = TRUE], c)

\* Whatever faults a store to the page takes before it can proceed.
write_fault(g, c) ==
  CASE g.pte = "rw" -> g
    [] g.pte = "ro" -> do_wp_page_hook(g, c)
    [] OTHER        -> first_touch(g, c)

store(g, c, v) == [write_fault(g, c) EXCEPT !.mem = v]

\* First touch by a read: the zero page or the page cache, write protected; a
\* shared mapping maps its page with the permissions of the mapping.
load(g, c) ==
  IF g.pte # "none" THEN g
  ELSE [g EXCEPT !.pte = IF c.kind = "shared" /\ c.writable THEN "rw" ELSE "ro"]

\* mprotect: an entry of a private mapping only loses write permission, and the
\* next store gets it back through a write fault; one of a shared mapping gets it
\* back with the mapping.
mprotect_page(g, kind, w) ==
  IF ~w THEN wrprotect(g)
  ELSE IF kind = "shared" /\ g.pte = "ro" THEN [g EXCEPT !.pte = "rw"] ELSE g

\* munmap_pte_entry, called for every entry of the page tables that exist, then
\* the removal of the page.
munmap_page(g, c) ==
  LET r == IF c.have /\ (g.pte # "none" \/ c.table) THEN record_dirty_page(g, c) ELSE g
  IN  [r EXCEPT !.pte = "none", !.anon = FALSE, !.mem = Zero]

-----------------------------------------------------------------------------
(* Restoring. *)

\* Mutant: the dirty flag is cleared before the copy, so the fault the copy takes
\* records the page again.
do_recover_page_early(g, c) ==
  LET d == [g EXCEPT !.dirty = FALSE]
  IN  IF c.writable THEN store(d, c, d.page_data) ELSE d

\* copy_to_user, with the faults it takes; it copies nothing where the mapping
\* is gone or read only, and the page is marked clean all the same.
do_recover_page(g, c) ==
  LET r == IF c.writable THEN store(g, c, g.page_data) ELSE g
  IN  [r EXCEPT !.dirty = FALSE]

do_recover_none_pte(g, c) ==
  IF ~c.mapped THEN g
  ELSE [g EXCEPT !.pte = "none", !.anon = FALSE,
                 !.mem = IF c.kind = "shared" THEN @ ELSE Backing(c.kind)]

unlist(g) == [g EXCEPT !.in_dirty_list = FALSE, !.listed = FALSE]

\* Mutant: the recovered page is left writable.
recover_page_writable(g, c) ==
  IF g.dirty /\ g.has_been_copied
  THEN unlist([do_recover_page(g, c) EXCEPT !.has_had_pte = TRUE,
                                            !.page_prot = @ \cup {"PRIVATE"}])
  ELSE IF ~IsPrivate(g) /\ NonePte(g) /\ g.has_had_pte
       THEN unlist([do_recover_none_pte(g, c) EXCEPT !.has_had_pte = FALSE])
       ELSE unlist(g)

\* One turn of the loop over dirty_pages.  Without a page table the turn ends
\* early and the page stays on the list.
recover_page(g, c) ==
  IF g.dirty /\ g.has_been_copied
  THEN LET r == [do_recover_page(g, c) EXCEPT !.has_had_pte = TRUE]
       IN  IF r.pte = "none" /\ ~c.table THEN r
           ELSE unlist([wrprotect(r) EXCEPT !.page_prot = @ \cup {"PRIVATE"}])
  ELSE IF ~IsPrivate(g) /\ NonePte(g) /\ g.has_had_pte
       THEN unlist([do_recover_none_pte(g, c) EXCEPT !.has_had_pte = FALSE])
       ELSE unlist(g)

\* clean_memory_snapshot frees the struct; the page table entry is not touched.
forget_page(g) ==
  [UntouchedPage("anon") EXCEPT !.pte = g.pte, !.anon = g.anon, !.mem = g.mem]

-----------------------------------------------------------------------------
(* What the operations above keep true of a page: g the page, v its        *)
(* mapping, s the bytes to restore.                                        *)

\* The kernel's half: an unmapped page has no entry, and a page with no entry
\* shows what its mapping starts with.
KernelOK(g, v) ==
  /\ ~v.mapped => v = NoVma /\ g.pte = "none"
  /\ g.pte = "none" => ~g.anon /\ (v.kind = "shared" \/ g.mem = Backing(v.kind))

\* A writable entry of a private mapping maps an anonymous page of the process.
FrameOK(g, v) ==
  g.pte = "rw" /\ v.mapped /\ v.kind # "shared" => g.anon

\* The struct's half: what holds of any struct snapshot_page, and of none.
StructOK(g) ==
  /\ g.in_dirty_list = g.listed
  /\ g.listed => g.hashed
  /\ ~g.hashed => g.page_prot = {} /\ ~g.dirty /\ ~g.has_been_copied
  /\ NonePte(g) => g.page_prot = {"NONE_PTE"} /\ ~g.dirty /\ ~g.has_been_copied

\* A page with an entry at the snapshot: write protected and unchanged, or
\* queued with a copy.
CopyOK(g, v, s) ==
  /\ g.has_been_copied => g.page_data = s
  /\ ~g.dirty => v.mapped /\ g.pte = "ro" /\ g.mem = s
  /\ ~g.dirty /\ IsPrivate(g) /\ v.kind # "shared" => g.anon
  /\ g.dirty => g.has_been_copied /\ g.listed

\* A page without one: unchanged, or queued to be zapped.
ZapOK(g, v, s) ==
  /\ v.kind # "shared"
  /\ s = Backing(v.kind)
  /\ g.pte = "rw" \/ g.anon \/ g.mem # s => g.listed /\ g.has_had_pte

SavedOK(g, v, s) ==
  IF Copied(g) THEN CopyOK(g, v, s) ELSE ZapOK(g, v, s)
=============================================================================
