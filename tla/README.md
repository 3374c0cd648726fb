# A verification of the AFL++ snapshot kernel module

The module lets a fuzzed process take a snapshot of itself once and return to it
after every test case, instead of forking. This directory holds TLA+ models of
it, the TLC runs that check them on small instances, and TLAPS proofs about every
one of them, for every number of pages, mappings, values, descriptors, threads,
tasks and CPUs.

## The system

| component | state | operations | interacts with |
|---|---|---|---|
| memory snapshot: pages (`memory.c`) | `ss_pages` (one `struct snapshot_page` per page), `dirty_pages`, page table entries | take, `do_wp_page_hook`, `page_add_new_anon_rmap_hook`, `__do_munmap_hook`, restore, clean | kernel fault path (ftrace hooks), `copy_to_user` in the restore faults again |
| memory snapshot: mappings (`restore_vmas`) | `all_vmas`, `snapshotted_vmas`, the process's VMA list | walk of two sorted lists | `vm_munmap` (which runs the munmap hook), `vm_mmap` |
| program break (`restore_brk`) | `oldbrk`, `mm->brk` | restore | `vm_munmap`, `vm_brk`, `find_vma` |
| life cycle (`snapshot.c`) | `status` (MADE, HAD), `config`, registers | take, restore, clean, exit | ioctls, `exit_group` and `do_exit` hooks |
| task_data registry and cache (`task_data.c`, `memory.c`) | RCU list, `last_task`/`last_task_data` per CPU | get, ensure, remove, cached get, invalidate | every hook of every process on every CPU |
| range lists (`memory.c`) | `blocklist`, `allowlist` | exclude, include; read by the walk of a take | ioctls, take |
| files (`files.c`) | copy of the descriptor table, offsets | take, restore, clean | life cycle |
| threads (`threads.c`) | none | SIGKILL to the other threads on restore | life cycle |
| hooks and module (`hook.c`, `ftrace_helper.h`, `module.c`) | installed hooks, device | init, exit, ioctl dispatch | kernel |
| user library (`lib/`) | device descriptor | one ioctl per function | device |

What is hard here: a page goes through copy-on-write, write protection, unmapping
and restores in any order, and the kernel changes it between two looks of the
module; the restore loop re-enters the hooks; `vm_munmap` and `vm_mmap` change
the list `restore_vmas` iterates over; the per-CPU cache is written by other CPUs
without a lock; allocations, seeks and copies fail half way; the other threads
open, close, unshare and exit while descriptor tables are replaced under them;
hooks run while they are installed and removed. The hazards are listed, each at
its line, in `PROJECT.json`.

What makes each part correct: a restore gives back the bytes, mappings, break,
descriptors and offsets of the snapshot and touches nothing else; the dirty list
and its flags agree; no frame that is not the process's own becomes writable; the
walk of a take decides every page as the range lists say; a hook finds the
task_data of its process, and only that one; counts of descriptor tables are
exact; an unloaded module leaves nothing behind that leads into it.

## The modules

`SnapshotPage` is one page as a record and everything that happens to it as
functions on that record. `pte`, `anon` and `mem` are the kernel's (entry absent,
write protected or writable; own anonymous page or not; bytes); the other fields
are those of `struct snapshot_page`, with `listed` for the node really being in
`dirty_pages` beside the flag `in_dirty_list` that claims it. Because operations
are functions, `do_recover_page` can contain the store and the fault that
`copy_to_user` causes, as in the code. Contents are members of a small set
`Values`; `Junk` is what a never-filled buffer or page frame 0 holds.

`SnapshotMemory` is the process: mappings (areas), pages, the task_data. One
action per system call or access of the program (`Load`, `Store`, `Fork`, `Mmap`,
`Munmap`, `Mprotect`), per ioctl (`exclude_vmrange`, `include_vmrange`,
`take_snapshot`, `recover_snapshot`, `ioctl_clean`) and per exit path
(`exit_restores`, `process_exit`). The kernel's free choices are existential:
which allocations succeed, whether `do_wp_page` copies or reuses, which page
tables exist. Where the code dereferences the NULL of an allocation it did not
check (memory.c:113, 131, 916, snapshot.c:49) the kernel ends the process
(`null_dereference`). `take_snapshot` allocates in the order given by `VmaTurn` and
`PageTurn` and may stop for want of memory before any turn, up to `End`, where it
is complete; the caller sees a snapshot all the same, as in the code. A restore
either goes on to the dirty pages (`restore_completes`; also behind a failing
`vm_mmap`, whose error `restore_vmas` does not return) or gives up at a failing
`vm_munmap` (`restore_gives_up`). Three history variables carry no behaviour:
`saved` (bytes at the snapshot), `covered` (pages the hooks can see change) and
`failed` (pages the module failed to save or write back, or that `mprotect` made
writable behind its hooks). The program maps, unmaps and protects whole
areas, which is what a VMA is; partial unmapping of VMAs is `RestoreVmas`.

`SnapshotPromise` is what all this is for, without page structs, hooks, page
tables or lists: the process sees bytes, a take saves them, a restore gives the
pages in scope their bytes back, one that gives up leaves them to the next, and
only a failure to save or to write takes a page out of scope. `MemoryPromise` adds
a history variable `last` to `SnapshotMemory` (whose step it was, so that a
restore cannot pass for a store of the program) and the refinement mapping: `view`
is the bytes of mapped pages, `scope` is `covered \ failed`.

`RestoreVmas` is the loop of `restore_vmas`, one action per kind of turn, on every
pair of a layout at the snapshot and a layout at the restore. VMAs are records
with the identity of their allocation, so that `vma_iter` can dangle.

`WalkRange` is the walk of a take over five page table levels: one action per
callback (`pgd_p4d_entry`, `pud_pmd_entry`, `snapshot_pte_entry`), all asking
`snapshot_walk_check_range`, which remembers in `next_allowed_address` and
`next_blocked_address` how far its last answer reaches. The two are carried from
entry to entry and from mapping to mapping, and ranges may begin and end inside
pages. Two history variables, `excluded` and `included`, keep every range the
caller gave, beside the lists, which keep the last one.
`SnapshotMemory` uses the per-page result (`Selected`).

`ProgramBreak` is `restore_brk` against a program that moves its break and maps
and unmaps pages around it. `restore_brk` is the set of its outcomes: each of the
calls it makes may fail, always on an address inside a page, and for want of memory
on any other. Addresses count fractions of a page, since alignment
is what can go wrong.

`FilesSnapshot` is `files.c` and `threads.c` in the order `restore_snapshot` calls
them, one action per step another thread can get between: duplicate the table,
save each offset, send the signals, seek each descriptor, and for every thread
test, read, assign and put its `files`. The other threads open, close, seek,
unshare, create threads and exit in between. A task_data made by `exclude_vmrange`
alone is enough for a restore, which then signals the other threads.
`files_struct`s have counts; a `struct file` and its position are shared by every table that holds it.

`TaskData` interleaves tasks on CPUs: the cached lookup of the hooks (test, read;
or lookup and two stores, with preemption off), the invalidation (test and two
stores per CPU), the ioctls, exits, migrations, reuse of task_struct addresses,
and the RCU callback that frees a task_data. An ioctl whose `ensure_task_data` gets
no memory ends its process (`null_dereference`). Every process has one thread: the
repository's README lists multithreaded applications as a TODO.

`ModuleHooks` is `mod_init` with a failure at each step and its roll back, and
`mod_exit`, with the two ways hooks are installed (the list of `hook.c`, the array
of `ftrace_helper.h`), against tasks that open the device, fault and exit.
Unregistering is two steps: the callback is taken away, and then `mod_init` or
`mod_exit` stands still until no task is in it (`waits`, `synchronize`).

`MCMemory`, `MCWalk` and `MCFiles` give `SnapshotMemory`, `WalkRange` and
`FilesSnapshot` their instances; the other modules get theirs in the `.cfg`.
`MemoryClaims` states what the repository's README and a test say of the memory
snapshot and the code does not do. The modules
ending in `Proofs` hold the proofs about the module they are named after.

How the parts meet: `SnapshotMemory` contains the life cycle, the hooks, the range
lists per page and the effect of `restore_vmas` on whole mappings; `RestoreVmas`,
`WalkRange` and `ProgramBreak` open up three calls it makes; `FilesSnapshot` is the
rest of a restore; `TaskData` decides which task_data a hook of `SnapshotMemory`
works on, `ModuleHooks` whether there is a hook.

Definitions that stand for kernel code (`do_wp_page`, first-touch faults,
`zap_page_range`, `vm_munmap`, `vm_mmap`, `vm_brk`, the brk system call, thread
lists, ftrace, the device layer, RCU) are modelled from how the module uses them
and are marked external in the map. Operators whose comment starts with "Mutant"
are plausible bugs, each a changed copy of the definition that follows it; no
specification uses them.

## The runs

Passing runs (numbers are distinct states):

| run | instance | shows |
|---|---|---|
| `private` (395 k) | two pages of one private mapping, anonymous or of a file, one excludable, EXIT and MMAP | `TypeOK`, `Inv`, `Recoverable`, `RestoreExact`, `DirtyListSync`, `OwnFrame`, `PromiseKept` |
| `shared` (127 k) | stack and includable shared mapping, BLOCK with MMAP, or NOSTACK | `OutsideUntouched`, `PromiseKept` |
| `restore_vmas` (204 k) | all pairs of layouts of four pages, mappings left by an earlier restore included | `TypeOK`, `MappingsRestored`, `OnlyTowardsSnapshot`, `FlagsHold`, `IteratorLive`, `Terminates` |
| `walk_range` (641 k) | six pages in three page tables, one mapping or three, up to two ranges, excluded or included, BLOCK or not, allocations that fail | `TypeOK`, `DecisionsRight`, `FastPathsAgree`, `WalkEnds` |
| `task_data` (2.0 M) | two tasks, none, one or both of them users of the module, two CPUs | `TypeOK`, `HookUsesOwnData`, `HookFindsSnapshot`, `CacheNotDangling`, `OneDataPerTask` |
| `program_break` (9 k) | breaks at and inside pages, calls that fail | `TypeOK`, `BreakRestored`, `NeighboursKept` |
| `files` (1.3 M) | one thread with two descriptors, two with one, of which one may be created, three with none, of which one may end and be replaced; a pipe and a file whose seek can fail | `TypeOK`, `CountsExact`, `FilesRestored`, `FailedRestoreKeeps`, `OthersKilled`, `KilledEnds` |
| `module_hooks` (75 k) | two tasks, loads that fail anywhere, repeated loads | `TypeOK`, `HooksListed`, `IoctlsServed`, `UnloadedClean`, `LoadEnds` |

`PromiseKept` is the main promise, as a refinement; `RestoreExact` says it of
states (whatever restore came now would give every covered page its bytes back).
Both leave out the pages in `failed` and in `Lost`, which the module failed to
save, could not see change or could not write back; `Recoverable` says why they hold, `Inv` is their
inductive form.

Bounds.

- Two pages: pages meet only through the area they share and through the lists,
  so one page alone and two pages that meet are all the cases; the proofs remove
  the bound. Two values, because properties compare bytes for equality. `End` is
  one more than the number of allocations a take makes.
- Four page positions in `RestoreVmas`: enough for a gap between two mappings,
  with a neighbour on one side, and a cut in the middle of a merged mapping. Proved
  without the bound, but for `Terminates`.
- `WalkRange`: two pages per page table and two tables per pud entry, so that an
  answer given at each level is carried into the next entry, the next table and
  the next mapping; pages of two addresses, so that ranges cut pages. `MaxCalls` is
  two, for one range in each list or two in one. Proved without the bounds.
- Two CPUs and two task_datas: an entry that is being filled, one that is not, and
  an address that is used again; when both task_datas are taken, the next
  allocation fails or waits. Proved without the bound.
- Five to seven pages around the break: image, heap, a gap and a neighbour above.
- `FilesSnapshot`: three threads, the fewest for which one can leave the list in
  front of another; two descriptors, so that one seek fails after another
  succeeded; four tables, for the caller's, the saved, the new and an own one. `clones`
  says which threads may be created; a thread comes at the end of the list, as in the
  kernel. Proved without the bound, but for `KilledEnds`.
- `MaxPending`: one queued RCU callback at a time; the properties do not count
  them. Proved without the bound.

Deadlock is not checked, because a process may exit, a function return and a
module be gone.

Runs that TLC refutes show disagreements between the code and what the
repository says of it (quotes and lines are under `findings`):

| run | property | what happens |
|---|---|---|
| `claim_threads` | `CallerSurvives` | SIGKILL to another thread ends the caller too |
| `claim_read_only` | `ReadOnlyRestored` | a page that is read only at the restore keeps its changes |
| `claim_mappings` | `NewAreasUnmapped` | a gap between two mappings that were merged is unmapped, then mapped again |
| `claim_ranges` | `RangesHonoured` | the second excluded or included range replaces the first |

Four more configurations are kept beside the runs, to be started by hand
(`tlc -config <cfg> <module>`). TLC refutes each of them within a minute:

| configuration, module | property | what the repository says | what happens |
|---|---|---|---|
| `ClaimIncluded.cfg`, `MemoryClaims` | `IncludedRestored` | README.md:66, "These pages will be snapshotted." | an included shared page that `mprotect` made read only and writable again changes unseen (memory.c:833) |
| `ClaimExcluded.cfg`, `MemoryClaims` | `ExcludedUntouched` | README.md:59, "These pages will not be snapshotted." | an excluded page without an entry at the take is tracked when it is written (memory.c:909), and zapped |
| `ClaimBreak.cfg`, `ProgramBreak` | `ValidBreakRestored` | memory.c:520, "The snapshotted break was a valid break, so no need to check it here." | a break inside a page is refused by `vm_munmap` or `vm_brk` (memory.c:531, 549) |
| `ClaimNoSnapshot.cfg`, `ProgramBreak` | `NoSnapshotNoRestore` | snapshot.c:102, "no snapshot found to restore" | a restore after an exclude alone restores break zero and unmaps all below the break |

The passing properties say where their promise ends, and each of these limits is
a behaviour of the code:

- `RestoreExact` and `PromiseKept` leave out `Lost` pages: `ReadOnlyRestored` is
  the same without that exception.
- They leave out shared pages that `mprotect` made writable after the take, whose
  stores cause no fault: `IncludedRestored` does not, and is refuted.
- They speak of `covered` pages. A page of an included shared mapping without a
  page table entry at the take is not among them: no hook sees it change.
- `OutsideUntouched` is about mappings that are left out as a whole. An excluded page
  of a snapshotted mapping that has no entry at the take is tracked all the same
  (memory.c:909 looks at the mapping only): `ExcludedUntouched`.
- `DecisionsRight` is about one range in each list, since `list_add` with its
  arguments swapped (memory.c:113, 131) keeps the last one only, and leaves out the
  pages beside an included one in a shared mapping, which are taken along
  (memory.c:382) where test1.c:78 says "shm_addr[1] is excluded by default".
  `RangesHonoured` has neither exception. `FastPathsAgree` is about the lists as they are, after any
  calls.
- `DecisionsRight` and `FastPathsAgree` leave out pages that are excluded and
  included at once: there the answer depends on the entry the walk is at.
- After a take that ran out of memory, the mappings it did not reach are unknown to
  `restore_vmas`; with AFL_SNAPSHOT_MMAP the restore unmaps them.
  `MappingsRestored` and `PromiseKept` are about those it reached.
- `OwnFrame` leaves out `failed` pages: a page that was COW and could not be
  written back is marked private all the same (memory.c:708), and its next write
  fault makes whatever frame it maps writable in place.
- `MappingsRestored`, `OnlyTowardsSnapshot` and `FlagsHold` leave out layouts where
  a new mapping was merged with two old ones: `NewAreasUnmapped` does not.
- `IteratorLive`, `MappingsRestored`, `FlagsHold` and `Terminates` are for a process
  that has no mapping an earlier restore put back (`FirstRestore`). Those have all
  permissions, since `add_snapshot_vma` computes `prot` with `|` for `&`, and
  `vm_mmap` may merge a page it maps back into such a mapping or merge away the VMA
  the iterator points to (memory.c:618). The cut of a mapping that grew this way
  makes the cursor go back, as `NewAreasUnmapped` shows of merged ones, and the
  pages just unmapped are mapped again. `OnlyTowardsSnapshot` and `TypeOK` hold of
  every restore.
- `HookFindsSnapshot` is for a single user of the module. With two, an
  invalidation that tested an entry before another user filled it leaves that user
  there with NULL (memory.c:46-47), and its writes are not recorded.
- `BreakRestored` says of every restore that break and heap go together, and only of
  aligned breaks that it can succeed: for one inside a page `vm_munmap` and `vm_brk`
  refuse the address (`ValidBreakRestored`).
- `CountsExact`, `FilesRestored` and `FailedRestoreKeeps` hold until a thread
  changes its `files` between the test and the assignment of the loop, which takes
  no `task_lock` (files.c:138-152; history variable `raced`). Positions and
  descriptors are those of the snapshot unless another thread used them during the
  take or the restore (`torn`).
- `OthersKilled` leaves out a walk whose thread left the list under it
  (`vanished`): the threads behind it are not signalled.
- `UnloadedClean` leaves out hooks ftrace refused to unregister (`stuck`), devices
  opened before `mod_init` was done (`early`) and, after a late failure of
  `mod_init`, the exit hooks, which it does not remove (`late`). Tasks inside an
  exit hook and callbacks queued by `call_rcu` may outlive the module: `mod_exit`
  waits for neither.

Fairness.

- `RestoreVmas`: `WF_vars(Next)`; `WalkRange`: `WF_vars(Walk)`. A system call in
  progress runs on.
- `FilesSnapshot`: weak fairness of the module's steps, for the same reason, and of
  the exit of each thread once the group is killed: a pending SIGKILL ends a
  thread when it returns to user mode.
- `ModuleHooks`: weak fairness of the steps of `mod_init` and `mod_exit`, a system
  call that runs on, and of `hook_returns`: a page hook takes no lock that
  `mod_init` or `mod_exit` holds. While `unregister_ftrace_function` waits the
  steps are not enabled, so `LoadEnds` rests on the hooks returning and on nobody
  entering one whose callback has been taken away; its mutant is a hook that does
  not return.

## The proofs

`SnapshotMemoryProofs`, for all `Pages`, `Areas`,
`Values`, `Configs`, ranges and allocation orders that satisfy `ValuesAssumption`
and `MemoryAssumption` (among them that excluded and included ranges do not
overlap):

- `TypeCorrect`: `Spec => []TypeOK`, and `InvHolds`: `Spec => []Inv`;
- `AlwaysRecoverable`, `DirtyListInSync`, `OwnFrames`, `RestoresAreExact`: the
  properties `Recoverable`, `DirtyListSync`, `OwnFrame`, `RestoreExact`, always;
- `RestoresStayInside`: `OutsideUntouched`, as a property of steps.

None of these is inductive alone: that a restore is exact depends on which pages
have been queued, and with what, since the snapshot. `Inv` is the strengthening.
Per page it says: the struct is well formed (`StructOK`); the kernel's half is
consistent (`KernelOK`); a covered page that had an entry is either clean, write
protected, and shows the saved bytes, or dirty, queued and copied (`CopyOK`); one
that had none shows what its mapping starts with, or is queued to be zapped
(`ZapOK`); writable private pages are the process's own (`FrameOK`). The last is
needed because the hook makes a page writable in place only if it is marked
private, and that is sound only if the page it was marked for is still there.
The first part of the module proves what each function on a page returns and that
it keeps these predicates; the second lifts that to the actions, one lemma per
action, and combines them.

`MemoryPromiseProofs`, under the same assumptions and `UnmappedAssumption`:
`MemoryKeepsPromise`, `PromiseSpec => PromiseKept`. Every step of the detailed
specification is the step of `SnapshotPromise` its `last` names; the step of a
restore uses `Inv`, the others little more than types.

`TaskDataProofs`, for any tasks, CPUs and task_datas under `TaskDataAssumption`:
`RegistryTypeCorrect`, `HooksUseOwnData`, `CacheNeverDangles`, `DatasAreUnique`,
`SingleUserFindsSnapshot`. The inductive invariant `CacheInv` rests on one
argument: a task_data is added and removed by the task it belongs to and by nobody
else, and while that task is in the loop of `invalidate_task_data_cache` it fills
no entry, so the CPUs behind the loop stay free of it (`LoopOK`). `EntryOK` is
about the entry a task works on with preemption off (other CPUs may clear it but
put nobody else there), `CacheOK` about entries nobody works on, `DataOK` about
what a task holds in its local variable, `ExitOK` about processes on their way out,
`FreshOK` about a NULL in the cache of a single user.

`ModuleHooksProofs`, for any tasks under `HooksAssumption`: `HooksTypeCorrect`,
`ListsExact`, `IoctlsAreServed`, `UnloadsClean`. `HooksInv` says for every place in
`mod_init` and `mod_exit` what is registered there (`Loading`, `Unloading`), and
who may have the device open in which state of the module (`TasksOK`). `TasksOK` also
says that whoever is in a page hook is in one that is registered or being waited
for, and `WaitsOK` that nobody frees the module while it waits.

`ProgramBreakProofs`, for any page size, address space and breaks under
`BreakAssumption`: `BreakTypeCorrect`, `BreaksComeBack`, `NeighboursAreKept`. The two
properties speak of every outcome of the restore that would come now, so the type invariant is all
the induction they need; the rest is arithmetic of `PAGE_ALIGN`: a distance from an
aligned address is rounded up as its end is.

`RestoreVmasProofs`, for any number of pages and any two layouts under
`RestoreVmasAssumption`: `MappingsWellFormed`, `IteratorNeverFreed`,
`TowardsSnapshotOnly`, `FlagsHoldAlways`, `SnapshotMappingsBack`. Four invariants:

- `TypeInv`: `vm_munmap` of a part of one mapping and `vm_mmap` of a free place keep
  the list well formed (`WellFormed`; the identity a cut needs exists because there
  are more identities than pages, by the pigeonhole principle), and each iterator
  is at the first entry the cursor has not passed (`IterOK`, `SsOK`). Inside a
  mapping the cursor may be behind the end of what a cut left of it, but only
  inside a mapping of the snapshot;
- `AheadOK`: on a first restore nothing from the iterator on has all permissions, so
  what `vm_mmap` merges with lies behind it;
- `TowardsOK`: where the cursor goes back it goes over pages that had all
  permissions. A cut needs a mapping that reaches from before the cursor over a gap
  of the snapshot (`EdgeOK`: the page before the cursor was mapped then). Either it
  did so when the restore began, which is `Merged`, or `vm_mmap` made it grow
  (`PartOK`), and only mappings with all permissions grow. `CutOK` and `BackOK` carry
  this over the two iterations in which the cursor goes back and forth. From it
  follow `OnlyTowardsSnapshot` and, as no page has all permissions on a first
  restore, `FlagsHold`;
- `KindsOK`: on a first restore, where the cursor so never goes back, the pages below
  it are as they have to be and the others as they were. At the end both lists are
  exhausted, and nothing above the cursor is mapped or was.

`WalkRangeProofs`, for any page size, fan-out of the page tables, layout, ranges and
set of tables that exist, under `WalkAssumption` (mappings are page-aligned, ordered
and disjoint, an entry's span is a multiple of the one below it): `WalkTypeCorrect`,
`TakesTheWanted`, `FastPathsNeverStale`. That the decisions so far were right
(`DecisionsRight`) says nothing of the next one, which a fast path may take from an
address left by an entry of another level or another mapping. `WalkInv` adds that
what the two addresses claim of every page from the walk on is what the lists say
(`FreshFrom`): the walk only moves up, and an answer replaces one address by one
that is right up to where the range it met ends. `ListsGiven` and `ListsObeyed` tie
the lists to what the caller gave: with one range per list, the two agree.

`FilesSnapshotProofs`, for any threads, tables, files, descriptors and positions
under `FilesAssumption`: `FilesTypeCorrect`, `NobodyGoesOn`, `CountsAreExact`,
`FilesAreRestored`, `FailureKeepsFiles`. Six invariants, each with
the help of the ones before:

- `TypeInv`: types and what Tsk holds at each place of the module (`PlaceOK`), races
  included;
- `EndedOK`: only a thread that runs has a table, so that one that is created brings
  no reference of an earlier one along;
- `KillOK`: the walk of `recover_threads_snapshot` has not passed a thread that runs,
  since `next_thread` skips only threads that are gone;
- `RefsOK`: `CountsExact`, which table Tsk has before and after the loop reached it
  (`LoopOK`: the loop cannot pass over Tsk, which runs), and that nobody else has the
  snapshot's table (`OwnOK`). Counting is done by two numbers per table, the threads
  that hold it and the local variables that do; every step moves a reference from
  one to the other or changes the count with it;
- `AloneOK`: a process that was alone when a take began is alone until it ends;
- `ContentsOK`: descriptors and positions at each step. It needs `RefsOK` because a
  thread that exits puts its table, and the tables of Tsk and of the snapshot survive
  that only if they are counted.

`KillOK`, `RefsOK` and `ContentsOK` hold, as the properties do, up to the races that
`vanished`, `raced` and `torn` record.

Only model-checked: `Terminates`, `WalkEnds`, `KilledEnds` and `LoadEnds`, which are
liveness and out of the prover's reach.

## Not modelled

- Excluded and included ranges that overlap, in `SnapshotMemory` (`WalkRange` has
  them).
- The frame a parent and its child share after `fork` (memory.c:868 makes the
  parent's entry writable in place): `SnapshotMemory` has one process and sees the
  parent's side. `MADV_DONTNEED` and `mremap`, which the module does not hook.
- Processes with several threads in the memory snapshot and the registry, where
  the hooks look data up by `mm->owner` and the ioctls by `current`
  (memory.c:901); the threads of `FilesSnapshot` share descriptors only.
- What a process that ends at a NULL dereference leaves locked in the kernel: the
  models end the process as any other, and only where a task_data or a page struct
  is what could not be allocated (`SnapshotMemory`, `TaskData`).
- Registers: one assignment each way. TLB flushes, debug output, `unhook`, which
  nothing calls; `copy_from_user` failures and unknown ioctls, which return before
  any state changes; the user library, one ioctl per function; the build scripts;
  the tests.

## Plan

1. Done: `SnapshotPage`, `SnapshotMemory`, `RestoreVmas`, `TaskData`,
   `ProgramBreak`.
2. Done: `FilesSnapshot`, `WalkRange`, `ModuleHooks`; partial takes and restores
   that give up in `SnapshotMemory`; `SnapshotPromise` and its refinement.
3. Done: proofs of the memory snapshot, of the refinement, and of every other
   module: all safety properties the passing runs check are theorems.
4. Left: a second address space for the child of a fork.
