--------------------------- MODULE FilesSnapshot ---------------------------
(***************************************************************************)
(* The descriptor table and the threads of a process that restores itself: *)
(* files.c and threads.c, in the order restore_snapshot calls them.  The   *)
(* thread that took the snapshot runs the module's code step by step; the  *)
(* other threads of its process share its files_struct or have their own,  *)
(* and open, close, seek, unshare and exit meanwhile.                      *)
(*                                                                         *)
(* files_structs are addresses with a count; a struct file is shared by    *)
(* every table that holds it, and so is its position.  A position of -1 is *)
(* the error vfs_llseek returns for a file that cannot seek.               *)
(***************************************************************************)
EXTENDS Integers, Sequences, FiniteSets, FiniteSetsExt

CONSTANTS ThreadList,  \* the threads of the group, the leader first
          Tsk,         \* data->tsk, the one that took the snapshot
          Processes,   \* threads at first and later, files, limit on descriptors
          MaxFds,
          Files,       \* struct files
          Unseekable,  \* pipes, terminals
          Fickle,      \* files whose seek can fail
          MaxPos,
          Tables,      \* files_structs
          NULL

Threads == {ThreadList[k] : k \in 1 .. Len(ThreadList)}
Leader  == ThreadList[1]
Others  == Threads \ {Tsk}
Fds     == 0 .. MaxFds - 1
IndexOf(t) == CHOOSE k \in 1 .. Len(ThreadList) : ThreadList[k] = t

ASSUME FilesAssumption ==
  /\ Len(ThreadList) \in Nat /\ Tsk \in Threads
  /\ \A j, k \in 1 .. Len(ThreadList) : ThreadList[j] = ThreadList[k] => j = k
  /\ MaxFds \in Nat /\ MaxPos \in Nat
  /\ \A r \in Processes : /\ Tsk \in r.threads /\ r.threads \subseteq Threads /\ r.clones \subseteq Others
                           /\ r.nofile \in 0 .. MaxFds /\ r.files \subseteq Files
  /\ Unseekable \subseteq Files /\ Fickle \subseteq Files \ Unseekable
  /\ Tables # {} /\ NULL \notin Tables \cup Files \cup Threads

VARIABLES
  proc,               \* the process: which files it uses, RLIMIT_NOFILE
  state,              \* of each thread: running, past exit_files, or unhashed
  killed,             \* the group has SIGKILL pending: from the restore, or otherwise
  files,              \* task->files
  table,              \* the files_structs: count and fd array
  pos,                \* file->f_pos
  ss,                 \* a task_data is there, have_snapshot, config & AFL_SNAPSHOT_FDS, ss_files
  pc,                 \* where Tsk is in the module
  n,                  \* the descriptor iterate_fd is at
  iter,               \* t of recover_threads_snapshot, task_iter
  new_files,          \* files_copy, restored_files
  offsets,            \* offsets of take_files_snapshot
  current_old_files, old_files,
  at_take,            \* history: descriptors and positions when take began
  at_restore,         \* history: the same when the restore began
  torn,               \* history: another thread used files during a take or a restore
  vanished,           \* history: the walk of recover_threads_snapshot lost its thread
  raced               \* history: a thread changed task->files while the loop was at it

processVars == <<proc, state, killed, files, table, pos>>
localVars   == <<n, iter, new_files, offsets, current_old_files, old_files>>
historyVars == <<at_take, at_restore, torn, vanished, raced>>
vars        == <<processVars, ss, pc, localVars, historyVars>>

NoFds      == [fd \in Fds |-> NULL]
NoOffsets  == [fd \in Fds |-> -1]
NoSnapshot == [data |-> FALSE, made |-> FALSE, fds |-> FALSE, files |-> NULL, offsets |-> NULL]
Free(tb)   == table[tb].count = 0
Running(t) == state[t] = "run"

Alone      == \A t \in Others : ~Running(t)

\* The descriptors of Tsk and the positions of all files.
View   == [fd |-> table[files[Tsk]].fd, pos |-> pos, alone |-> Alone]
NoView == [fd |-> NoFds, pos |-> [f \in Files |-> 0], alone |-> FALSE]

Init ==
  /\ \E r \in Processes : LET tb == CHOOSE x \in Tables : TRUE IN
       /\ proc = r
       /\ state = [t \in Threads |-> IF t \in r.threads THEN "run"
                                     ELSE IF t = Leader THEN "exiting" ELSE "gone"]   \* a zombie
       /\ files = [t \in Threads |-> IF t \in r.threads THEN tb ELSE NULL]
       /\ table = [x \in Tables |-> [count |-> IF x = tb THEN Cardinality(r.threads) ELSE 0,
                                     fd |-> NoFds]]
  /\ killed = "no"
  /\ pos = [f \in Files |-> 0]
  /\ ss = NoSnapshot
  /\ pc = "user"
  /\ n = 0 /\ iter = NULL
  /\ new_files = NULL /\ offsets = NoOffsets
  /\ current_old_files = NULL /\ old_files = NULL
  /\ at_take = NoView /\ at_restore = NoView
  /\ torn = FALSE /\ vanished = FALSE /\ raced = FALSE

-----------------------------------------------------------------------------
(* The kernel. *)

\* dup_fd: a table of its own with the same struct files.  Which free address it
\* gets makes no difference.
CanAllocate == \E tb \in Tables : Free(tb)
NewTable    == CHOOSE tb \in Tables : Free(tb)
dup_fd(tb)  == [table EXCEPT ![NewTable] = [count |-> 1, fd |-> table[tb].fd]]

\* put_files_struct: the last reference closes the descriptors and frees the table.
\* One put too many, which only a race brings about, finds it freed.
Put(tbl, tb) ==
  IF tbl[tb].count > 1 THEN [tbl EXCEPT ![tb].count = @ - 1]
  ELSE [tbl EXCEPT ![tb] = [count |-> 0, fd |-> NoFds]]

\* The loop of recover_files_snapshot has looked at task t and not yet replaced
\* its files.
LoopAt(t) == pc \in {"read", "assign"} /\ iter = t

\* A thread in user mode makes a call; SIGKILL keeps it from making another.
Calls(t) ==
  /\ Running(t) /\ killed = "no"
  /\ t = Tsk => pc = "user"

Torn(t) == torn' = (torn \/ (t # Tsk /\ pc # "user"))

CallLeaves == <<proc, state, killed, ss, pc, localVars, at_take, at_restore, vanished>>

InUse(f) == \E tb \in Tables : \E fd \in Fds : table[tb].fd[fd] = f

\* open() of a file nobody has open, or dup() of a descriptor, at the lowest
\* descriptor that is free.
Open(t, f) ==
  /\ Calls(t) /\ f \in proc.files
  /\ LET cur  == table[files[t]].fd
         free == {fd \in 0 .. proc.nofile - 1 : cur[fd] = NULL}
     IN  /\ free # {}
         /\ InUse(f) => \E fd \in Fds : cur[fd] = f
         /\ table' = [table EXCEPT ![files[t]].fd[Min(free)] = f]
         /\ pos' = IF InUse(f) THEN pos ELSE [pos EXCEPT ![f] = 0]
  /\ Torn(t)
  /\ UNCHANGED <<CallLeaves, files, raced>>

Close(t, fd) ==
  /\ Calls(t) /\ table[files[t]].fd[fd] # NULL
  /\ table' = [table EXCEPT ![files[t]].fd[fd] = NULL]
  /\ Torn(t)
  /\ UNCHANGED <<CallLeaves, files, pos, raced>>

\* lseek(), read() or write().
Seek(t, fd, o) ==
  /\ Calls(t)
  /\ LET f == table[files[t]].fd[fd]
     IN  f # NULL /\ f \notin Unseekable /\ pos' = [pos EXCEPT ![f] = o]
  /\ Torn(t)
  /\ UNCHANGED <<CallLeaves, files, table, raced>>

\* unshare(CLONE_FILES).
Unshare(t) ==
  /\ t # Tsk /\ Calls(t) /\ CanAllocate /\ table[files[t]].count > 1
  /\ table' = Put(dup_fd(files[t]), files[t])
  /\ files' = [files EXCEPT ![t] = NewTable]
  /\ raced' = (raced \/ LoopAt(t))
  /\ Torn(t)
  /\ UNCHANGED <<CallLeaves, pos>>

\* clone(): a thread more, at the end of the list, with the table of its creator.
\* It has the place of one that was released, never of the one a walk is at.
Clone(t, new) ==
  /\ Calls(t) /\ new \in proc.clones \ {iter}
  /\ \A u \in Threads : IndexOf(new) <= IndexOf(u) => state[u] = "gone"
  /\ state' = [state EXCEPT ![new] = "run"]
  /\ files' = [files EXCEPT ![new] = files[t]]
  /\ table' = [table EXCEPT ![files[t]].count = @ + 1]
  /\ UNCHANGED <<proc, killed, pos, ss, pc, localVars, historyVars>>

\* A signal from outside, or exit_group() of another thread.
Kill ==
  /\ killed = "no" /\ \E t \in Others : Running(t)
  /\ killed' = "exit"
  /\ UNCHANGED <<proc, state, files, table, pos, ss, pc, localVars, historyVars>>

\* exit_files of another thread, which ends or was killed.
exit_files(t) ==
  /\ t # Tsk /\ Running(t)
  /\ state' = [state EXCEPT ![t] = "exiting"]
  /\ files' = [files EXCEPT ![t] = NULL]
  /\ table' = Put(table, files[t])
  /\ raced' = (raced \/ LoopAt(t))
  /\ UNCHANGED <<proc, killed, pos, ss, pc, localVars, at_take, at_restore, torn, vanished>>

\* release_task: the thread leaves the list.  A leader waits for the others.
\* Neither loop of the module holds a lock that keeps the thread there.
release_task(t) ==
  /\ state[t] = "exiting"
  /\ t = Leader => \A u \in Threads \ {t} : state[u] = "gone"
  /\ state' = [state EXCEPT ![t] = "gone"]
  /\ vanished' = (vanished \/ (pc = "kill" /\ iter = t))
  /\ raced' = (raced \/ (pc \in {"test", "read", "assign", "put"} /\ iter = t))
  /\ UNCHANGED <<proc, killed, files, table, pos, ss, pc, localVars, at_take, at_restore, torn>>

-----------------------------------------------------------------------------
(* take_files_snapshot, called by Tsk. *)

\* exclude_vmrange and include_vmrange: ensure_task_data makes a zeroed task_data.
exclude_vmrange ==
  /\ Calls(Tsk) /\ ~ss.data
  /\ ss' = [NoSnapshot EXCEPT !.data = TRUE]
  /\ UNCHANGED <<processVars, pc, localVars, historyVars>>

\* take_snapshot: without AFL_SNAPSHOT_FDS nothing is saved.
take_snapshot(fds) ==
  /\ Calls(Tsk) /\ ~ss.made
  /\ ss' = [NoSnapshot EXCEPT !.data = TRUE, !.made = TRUE, !.fds = fds]
  /\ pc' = IF fds THEN "take_dup" ELSE "user"
  /\ at_take' = View
  /\ torn' = FALSE
  /\ UNCHANGED <<processVars, localVars, at_restore, vanished, raced>>

\* dup_fd and the array of offsets; if either fails there is no files snapshot.
take_dup ==
  /\ pc = "take_dup"
  /\ \/ pc' = "user" /\ UNCHANGED <<table, n, new_files, offsets>>
     \/ /\ CanAllocate
        /\ table' = dup_fd(files[Tsk]) /\ new_files' = NewTable
        /\ pc' = "take_save" /\ n' = 0 /\ offsets' = NoOffsets
  /\ UNCHANGED <<proc, state, killed, files, pos, ss, iter, current_old_files, old_files,
                 historyVars>>

\* Mutant: SEEK_SET for SEEK_CUR: the file is rewound and 0 is saved.
save_file_offset_set ==
  /\ pc = "take_save" /\ n < MaxFds
  /\ n' = n + 1
  /\ LET f == table[new_files].fd[n]
     IN  /\ offsets' = [offsets EXCEPT ![n] = IF f = NULL \/ f \in Unseekable THEN -1 ELSE 0]
         /\ pos' = IF f = NULL \/ f \in Unseekable THEN pos ELSE [pos EXCEPT ![f] = 0]
  /\ UNCHANGED <<proc, state, killed, files, table, ss, pc, iter, new_files,
                 current_old_files, old_files, historyVars>>

\* iterate_fd with save_file_offset, one descriptor a step.
save_file_offset ==
  /\ pc = "take_save" /\ n < MaxFds
  /\ n' = n + 1
  /\ LET f == table[new_files].fd[n]
     IN  offsets' = [offsets EXCEPT ![n] = IF f = NULL \/ f \in Unseekable THEN -1 ELSE pos[f]]
  /\ UNCHANGED <<processVars, ss, pc, iter, new_files, current_old_files, old_files, historyVars>>

take_done ==
  /\ pc = "take_save" /\ n = MaxFds
  /\ ss' = [ss EXCEPT !.files = new_files, !.offsets = offsets]
  /\ pc' = "user"
  /\ new_files' = NULL /\ offsets' = NoOffsets /\ n' = 0
  /\ UNCHANGED <<processVars, iter, current_old_files, old_files, historyVars>>

-----------------------------------------------------------------------------
(* restore_snapshot, called by Tsk: the threads first, the files last. *)

\* recover_snapshot, which asks only for a task_data, or exit_snapshot with
\* AFL_SNAPSHOT_EXIT.
restore_snapshot ==
  /\ Calls(Tsk) /\ ss.data
  /\ iter' = Leader
  /\ pc' = "kill"
  /\ at_restore' = View
  /\ torn' = FALSE /\ vanished' = FALSE
  /\ UNCHANGED <<processVars, ss, n, new_files, offsets, current_old_files, old_files,
                 at_take, raced>>

\* The thread after t that is still in the list; NULL where it wraps around.
next_thread(t) ==
  LET after == {k \in IndexOf(t) + 1 .. Len(ThreadList) : state[ThreadList[k]] # "gone"}
  IN  IF after = {} THEN NULL ELSE ThreadList[Min(after)]

\* Mutant: the walk starts over at the thread that called.
next_tid_late(t) == IF state[t] = "gone" \/ t = Tsk THEN NULL ELSE next_thread(t)

\* next_tid: the walk ends at a thread that is no longer alive.
next_tid(t) == IF state[t] = "gone" THEN NULL ELSE next_thread(t)

\* One turn of recover_threads_snapshot.  SIGKILL for a thread that is not yet
\* exiting is SIGKILL for its group, the caller included.
recover_threads_snapshot ==
  /\ pc = "kill" /\ iter # NULL
  /\ killed' = IF iter # Tsk /\ Running(iter) /\ killed = "no" THEN "restore" ELSE killed
  /\ iter' = next_tid(iter)
  /\ UNCHANGED <<proc, state, files, table, pos, ss, pc, n, new_files, offsets,
                 current_old_files, old_files, historyVars>>

\* out_release, out.
Fail ==
  /\ pc' = "failed"
  /\ table' = IF new_files = NULL THEN table ELSE Put(table, new_files)
  /\ new_files' = NULL

\* recover_files_snapshot up to the seeks.
recover_files_snapshot ==
  /\ pc = "kill" /\ iter = NULL
  /\ \/ ~ss.fds /\ pc' = "restored" /\ UNCHANGED <<table, new_files, n>>
     \/ ss.fds /\ Fail /\ UNCHANGED n
     \/ /\ ss.fds /\ ss.files # NULL /\ CanAllocate
        /\ table' = dup_fd(ss.files) /\ new_files' = NewTable
        /\ pc' = "seek" /\ n' = 0
  /\ UNCHANGED <<proc, state, killed, files, pos, ss, iter, offsets, current_old_files,
                 old_files, historyVars>>

\* Mutant: descriptors saved without a position are rewound.
MustSeek_any(fd) == table[new_files].fd[fd] # NULL

\* Mutant: a file at its beginning is taken for one that cannot seek.
MustSeek_positive(fd) == table[new_files].fd[fd] # NULL /\ ss.offsets[fd] > 0

MustSeek(fd) == table[new_files].fd[fd] # NULL /\ ss.offsets[fd] >= 0

\* iterate_fd with restore_file_offset, one descriptor a step.
restore_file_offset ==
  /\ pc = "seek" /\ n < MaxFds
  /\ n' = n + 1
  /\ pos' = IF MustSeek(n) THEN [pos EXCEPT ![table[new_files].fd[n]] = ss.offsets[n]] ELSE pos
  /\ UNCHANGED <<proc, state, killed, files, table, ss, pc, iter, new_files, offsets,
                 current_old_files, old_files, historyVars>>

\* vfs_llseek fails, or ends elsewhere.
seek_fails ==
  /\ pc = "seek" /\ n < MaxFds
  /\ MustSeek(n) /\ table[new_files].fd[n] \in Fickle
  /\ \E o \in 0 .. MaxPos : pos' = [pos EXCEPT ![table[new_files].fd[n]] = o]
  /\ Fail
  /\ UNCHANGED <<proc, state, killed, files, ss, n, iter, offsets, current_old_files,
                 old_files, historyVars>>

\* for_each_thread begins.
seeks_done ==
  /\ pc = "seek" /\ n = MaxFds
  /\ current_old_files' = files[Tsk]
  /\ iter' = CHOOSE t \in Threads : /\ state[t] # "gone"
                                    /\ \A u \in Threads : state[u] # "gone" => IndexOf(t) <= IndexOf(u)
  /\ pc' = "test" /\ n' = 0
  /\ UNCHANGED <<processVars, ss, new_files, offsets, old_files, historyVars>>

NextTask ==
  /\ iter' = next_thread(iter)
  /\ pc' = IF next_thread(iter) = NULL THEN "restored" ELSE "test"

\* Mutant: the other threads get no reference of their own.
loop_test_uncounted ==
  /\ pc = "test"
  /\ IF files[iter] # current_old_files THEN NextTask ELSE pc' = "read" /\ UNCHANGED iter
  /\ UNCHANGED <<processVars, ss, n, new_files, offsets, current_old_files, old_files, historyVars>>

\* The loop: the test and the reference for another thread, ...
loop_test ==
  /\ pc = "test"
  /\ IF files[iter] # current_old_files THEN NextTask /\ UNCHANGED table
     ELSE /\ pc' = "read" /\ UNCHANGED iter
          /\ table' = IF iter = Tsk THEN table ELSE [table EXCEPT ![new_files].count = @ + 1]
  /\ UNCHANGED <<proc, state, killed, files, pos, ss, n, new_files, offsets,
                 current_old_files, old_files, historyVars>>

\* ... task_iter->files read once more, without task_lock, ...
loop_read ==
  /\ pc = "read"
  /\ old_files' = files[iter]
  /\ pc' = "assign"
  /\ UNCHANGED <<processVars, ss, n, iter, new_files, offsets, current_old_files, historyVars>>

\* ... replaced, ...
loop_assign ==
  /\ pc = "assign"
  /\ files' = [files EXCEPT ![iter] = new_files]
  /\ pc' = "put"
  /\ UNCHANGED <<proc, state, killed, table, pos, ss, localVars, historyVars>>

\* ... and put.  The thread may have left a NULL there.
loop_put ==
  /\ pc = "put"
  /\ old_files' = NULL
  /\ IF old_files = NULL THEN pc' = "oops" /\ UNCHANGED <<table, iter>>
     ELSE table' = Put(table, old_files) /\ NextTask
  /\ UNCHANGED <<proc, state, killed, files, pos, ss, n, new_files, offsets,
                 current_old_files, historyVars>>

\* The ioctl, or the exit_group that became a restore, returns.
Return ==
  /\ pc \in {"restored", "failed"}
  /\ pc' = "user"
  /\ new_files' = NULL /\ current_old_files' = NULL /\ iter' = NULL /\ n' = 0
  /\ at_restore' = NoView /\ torn' = FALSE /\ vanished' = FALSE
  /\ UNCHANGED <<processVars, ss, offsets, old_files, at_take, raced>>

-----------------------------------------------------------------------------
CleanTable == IF ss.files = NULL THEN table ELSE Put(table, ss.files)

\* AFL_SNAPSHOT_IOCTL_CLEAN: the task_data goes too.
clean_files_snapshot ==
  /\ Calls(Tsk) /\ ss.data
  /\ table' = CleanTable
  /\ ss' = NoSnapshot
  /\ at_take' = NoView
  /\ UNCHANGED <<proc, state, killed, files, pos, pc, localVars, at_restore, torn, vanished, raced>>

\* Mutant: do_exit_hook does not clean the snapshot.
process_exit_uncleaned ==
  /\ pc = "user" /\ Running(Tsk)
  /\ state' = [state EXCEPT ![Tsk] = "exiting"]
  /\ files' = [files EXCEPT ![Tsk] = NULL]
  /\ table' = Put(table, files[Tsk])
  /\ ss' = NoSnapshot
  /\ killed' \in {killed, IF killed = "no" THEN "exit" ELSE killed}
  /\ at_take' = NoView
  /\ UNCHANGED <<proc, pos, pc, localVars, at_restore, torn, vanished, raced>>

\* Tsk ends, alone or with its group: exit_snapshot or do_exit_hook cleans up.
process_exit ==
  /\ pc = "user" /\ Running(Tsk)
  /\ state' = [state EXCEPT ![Tsk] = "exiting"]
  /\ files' = [files EXCEPT ![Tsk] = NULL]
  /\ table' = Put(CleanTable, files[Tsk])
  /\ ss' = NoSnapshot
  /\ killed' \in {killed, IF killed = "no" THEN "exit" ELSE killed}
  /\ at_take' = NoView
  /\ UNCHANGED <<proc, pos, pc, localVars, at_restore, torn, vanished, raced>>

-----------------------------------------------------------------------------
Program(t) ==
  \/ \E f \in Files : Open(t, f)
  \/ \E fd \in Fds : Close(t, fd) \/ \E o \in 0 .. MaxPos : Seek(t, fd, o)
  \/ Unshare(t)

Module ==
  \/ take_dup \/ save_file_offset \/ take_done
  \/ recover_threads_snapshot \/ recover_files_snapshot
  \/ restore_file_offset \/ seek_fails \/ seeks_done
  \/ loop_test \/ loop_read \/ loop_assign \/ loop_put \/ Return

Exit(t) == exit_files(t) \/ release_task(t) \/ (t = Tsk /\ process_exit)

Next ==
  \/ \E t \in Threads : Program(t) \/ Exit(t) \/ \E new \in Others : Clone(t, new)
  \/ \E fds \in BOOLEAN : take_snapshot(fds)
  \/ exclude_vmrange \/ restore_snapshot \/ clean_files_snapshot \/ Kill
  \/ Module

\* The scheduler runs the task in the module and the threads that were killed.
Spec ==
  /\ Init /\ [][Next]_vars
  /\ WF_vars(Module)
  /\ \A t \in Threads : WF_vars(killed # "no" /\ Exit(t))

-----------------------------------------------------------------------------
\* The state has its type: a position that was never saved stays -1, and
\* whoever runs has a table (files.c).
TypeOK ==
  /\ proc \in Processes
  /\ state \in [Threads -> {"run", "exiting", "gone"}]
  /\ killed \in {"no", "restore", "exit"}
  /\ files \in [Threads -> Tables \cup {NULL}]
  /\ \A t \in Threads : Running(t) => files[t] # NULL
  /\ table \in [Tables -> [count : Nat, fd : [Fds -> Files \cup {NULL}]]]
  /\ pos \in [Files -> 0 .. MaxPos]
  /\ ss.made \in BOOLEAN /\ ss.fds \in BOOLEAN /\ ss.data \in BOOLEAN
  /\ (ss.fds => ss.made) /\ (ss.made => ss.data)
  /\ torn \in BOOLEAN /\ vanished \in BOOLEAN /\ raced \in BOOLEAN
  /\ ss.files \in Tables \cup {NULL}
  /\ ss.files # NULL => ss.made /\ ss.fds /\ ss.offsets \in [Fds -> -1 .. MaxPos]
  /\ offsets \in [Fds -> -1 .. MaxPos]
  /\ n \in 0 .. MaxFds /\ iter \in Threads \cup {NULL}
  /\ {new_files, old_files, current_old_files} \subseteq Tables \cup {NULL}
  /\ pc \in {"user", "take_dup", "take_save", "kill", "seek", "test", "read", "assign", "put",
             "oops", "restored", "failed"}

\* The references to a table: threads, the snapshot, and the locals of Tsk.
B(b) == IF b THEN 1 ELSE 0
References(tb) ==
  Cardinality({t \in Threads : files[t] = tb}) + B(ss.files = tb) + B(old_files = tb /\ pc = "put")
    + B(new_files = tb /\ pc \in {"take_save", "seek", "test", "read", "assign", "put"}
                       /\ files[Tsk] # new_files)
    + B(new_files = tb /\ pc \in {"read", "assign"} /\ iter # Tsk)

\* Every table is counted as often as it is referred to, in every step of a take
\* and a restore, whatever fails and whoever exits: none is freed under a thread
\* or the snapshot, and none is kept by nobody.  Only a thread that exits or
\* unshares its table while the loop is at it breaks this (files.c:140-155).
CountsExact ==
  ~raced => pc # "oops" /\ \A tb \in Tables : table[tb].count = References(tb)

\* A restore that succeeds gives the process the descriptors it had at the
\* snapshot, closed ones opened again and new ones closed, with every file at the
\* position it had then if the process was alone, and one that was read during
\* the take otherwise (README.md:78, test5.c:48; files.c:108-157).
FilesRestored ==
  pc = "restored" /\ ss.fds /\ ~torn /\ ~raced =>
    /\ table[files[Tsk]].fd = table[ss.files].fd
    /\ at_take.alone => table[files[Tsk]].fd = at_take.fd
    /\ \A fd \in Fds :
         LET f == table[files[Tsk]].fd[fd]
         IN  at_take.alone /\ f # NULL /\ f \notin Unseekable => pos[f] = at_take.pos[f]

\* A restore that fails leaves the process its table and every descriptor where
\* it was; files before the one whose seek failed are at their old positions,
\* those after it were not moved (files.c:133-136, 159-163).
FailedRestoreKeeps ==
  pc = "failed" /\ ~torn /\ ~raced =>
    /\ table[files[Tsk]].fd = at_restore.fd
    /\ \A f \in Files :
         LET saved == {fd \in Fds : ss.files # NULL /\ table[ss.files].fd[fd] = f}
         IN  /\ (\A fd \in saved : fd > n) => pos[f] = at_restore.pos[f]
             /\ at_take.alone /\ f \notin Unseekable /\ saved # {} /\ (\A fd \in saved : fd < n)
                  => pos[f] = at_take.pos[f]

\* After recover_threads_snapshot no other thread of the process goes on in user
\* mode, unless one exited while the walk was at it (threads.c:40-52).
OthersKilled ==
  pc \in {"seek", "test", "read", "assign", "put", "restored", "failed"} /\ ~vanished =>
    killed # "no" \/ Alone

\* A group that was killed ends, whatever the module was doing, and gives back
\* the snapshot's table with its own (snapshot.c:6-25).
KilledEnds ==
  killed # "no" ~> raced \/ \A tb \in Tables : Free(tb)

\* "Snapshot restored" (test6.c:32), whose program runs a second thread: the
\* thread that restores goes on.  SIGKILL for the second thread is for all of them
\* (threads.c:47).
CallerSurvives == killed # "restore"
=============================================================================
