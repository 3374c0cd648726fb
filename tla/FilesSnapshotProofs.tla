----------------------- MODULE FilesSnapshotProofs -----------------------
(***************************************************************************)
(* The descriptors of a process that restores itself, for any number of    *)
(* threads, descriptors, files and tables.  Six invariants, each proved    *)
(* with the ones before it: what Tsk holds where (TypeInv), whom the       *)
(* threads' walk has passed (KillOK), who has a table at all (EndedOK),    *)
(* who refers to one (RefsOK), who is alone in a take (AloneOK), and what  *)
(* the tables and positions are (ContentsOK).                              *)
(***************************************************************************)
EXTENDS FilesSnapshot, TLAPS, FiniteSetTheorems, WellFoundedInduction

Loop == {"test", "read", "assign", "put"}
Busy == {"take_save", "seek"} \cup Loop

\* Where Tsk is in the module, and what it holds there.
PlaceOK ==
  /\ pc # "user" => Running(Tsk) /\ ss.data
  /\ pc \in Busy => new_files # NULL
  /\ pc \in {"user", "take_dup", "kill", "failed"} => new_files = NULL
  /\ pc = "restored" /\ ~ss.fds => new_files = NULL
  /\ pc \in {"take_dup", "take_save"} => ss.made /\ ss.files = NULL /\ ss.fds
  /\ pc \in {"seek"} \cup Loop => ss.files # NULL
  /\ pc \in Loop => iter # NULL /\ current_old_files # NULL
  /\ pc = "restored" /\ ss.fds => ss.files # NULL

Views == [fd : [Fds -> Files \cup {NULL}], pos : [Files -> 0 .. MaxPos], alone : BOOLEAN]

RecordsOK ==
  /\ ss \in [data : BOOLEAN, made : BOOLEAN, fds : BOOLEAN, files : Tables \cup {NULL},
             offsets : [Fds -> -1 .. MaxPos] \cup {NULL}]
  /\ at_take \in Views /\ at_restore \in Views

TypeInv == TypeOK /\ RecordsOK /\ PlaceOK

\* The walk of recover_threads_snapshot has not passed a thread that runs.
KillOK ==
  /\ state[Leader] = "gone" => \A t \in Threads : state[t] = "gone"
  /\ pc = "kill" /\ iter # NULL /\ ~vanished => state[iter] # "gone"
  /\ pc = "kill" /\ ~vanished /\ killed = "no" =>
       \A t \in Others : Running(t) => iter # NULL /\ IndexOf(iter) <= IndexOf(t)
  /\ OthersKilled

\* Only a thread that runs has a table, and the loop replaces that of none that
\* has ended.
EndedOK ==
  ~raced => /\ \A t \in Threads : files[t] # NULL => Running(t)
            /\ pc \in {"read", "assign"} => Running(iter)

\* Which table Tsk has in the loop.
Swapped == files[Tsk] = new_files
LoopOK ==
  /\ pc \in {"take_save", "seek"} => \A t \in Threads : files[t] # new_files
  /\ pc \in Loop => current_old_files # new_files
  /\ pc \in {"test", "read", "assign"} =>
       IF IndexOf(iter) <= IndexOf(Tsk) THEN files[Tsk] = current_old_files ELSE Swapped
  /\ pc = "put" =>
       IF IndexOf(iter) < IndexOf(Tsk) THEN files[Tsk] = current_old_files ELSE Swapped
  /\ pc \in {"read", "assign"} => files[iter] = current_old_files
  /\ pc \in {"assign", "put"} => old_files = current_old_files
  /\ pc = "restored" /\ ss.fds => Swapped

\* Nobody else has the snapshot's table.
OwnOK ==
  ss.files # NULL =>
    /\ \A t \in Threads : files[t] # ss.files
    /\ new_files # ss.files
    /\ pc \in Loop => current_old_files # ss.files

RefsOK == CountsExact /\ (~raced => LoopOK /\ OwnOK)

\* What save_file_offset finds if nobody interferes.
Saved(fd) ==
  LET f == at_take.fd[fd]
  IN  IF f = NULL \/ f \in Unseekable THEN -1 ELSE at_take.pos[f]

\* A process that was alone when its take began is while it takes, and no
\* iterate_fd is under way where none is.
AloneOK ==
  /\ pc \in {"take_dup", "take_save"} /\ at_take.alone => Alone
  /\ pc \in {"user", "take_dup", "kill"} => n = 0

\* What was saved for a process that was alone is what it had.
TakeOK ==
  ~raced /\ ss.made /\ at_take.alone =>
    /\ pc \in {"take_dup", "take_save"} => table[files[Tsk]].fd = at_take.fd /\ pos = at_take.pos
    /\ pc = "take_save" => /\ table[new_files].fd = at_take.fd
                           /\ \A fd \in 0 .. n - 1 : offsets[fd] = Saved(fd)
    /\ ss.files # NULL => /\ table[ss.files].fd = at_take.fd
                          /\ \A fd \in Fds : ss.offsets[fd] = Saved(fd)

\* The position of fd's file is the one of the snapshot.
Back(fd) ==
  LET f == table[ss.files].fd[fd]
  IN  f # NULL /\ f \notin Unseekable => pos[f] = at_take.pos[f]

RestoreOK ==
  ~raced /\ ~torn =>
    /\ pc \in {"kill", "seek", "failed"} => table[files[Tsk]].fd = at_restore.fd
    /\ pc = "kill" => pos = at_restore.pos
    /\ pc = "seek" =>
         \A f \in Files : (\A fd \in Fds : table[ss.files].fd[fd] = f => fd >= n)
                            => pos[f] = at_restore.pos[f]
    /\ pc \in {"seek"} \cup Loop => table[new_files].fd = table[ss.files].fd
    /\ pc = "seek" /\ at_take.alone => \A fd \in 0 .. n - 1 : Back(fd)
    /\ pc \in Loop /\ at_take.alone => \A fd \in Fds : Back(fd)

ContentsOK == TakeOK /\ RestoreOK /\ FilesRestored /\ FailedRestoreKeeps

-----------------------------------------------------------------------------
(* The list of threads. *)

LEMMA MinExists ==
  ASSUME NEW S \in SUBSET Nat, S # {}
  PROVE  Min(S) \in S /\ \A y \in S : Min(S) <= y
<1> DEFINE R == OpToRel(<, Nat)
<1>1. \A x, y \in Nat : <<y, x>> \in R <=> y < x
  BY DEF OpToRel
<1>2. IsWellFoundedOn(R, Nat)
  BY NatLessThanWellFounded
<1> HIDE DEF R
<1>3. PICK x \in S : \A y \in S : ~(<<y, x>> \in R)
  BY <1>2, WFMin
<1>4. \A y \in S : ~(y < x)
  BY <1>1, <1>3
<1>5. \A y \in S : x =< y
  BY <1>4
<1>6. \E z \in S : \A y \in S : z =< y
  BY <1>5
<1>7. QED
  BY <1>6 DEF Min

LEMMA IndexFacts ==
  /\ Len(ThreadList) \in Nat /\ Tsk \in Threads /\ Leader \in Threads /\ IndexOf(Leader) = 1
  /\ \A t \in Threads : IndexOf(t) \in 1 .. Len(ThreadList) /\ ThreadList[IndexOf(t)] = t
  /\ \A k \in 1 .. Len(ThreadList) : ThreadList[k] \in Threads /\ IndexOf(ThreadList[k]) = k
<1>1. \A t \in Threads : IndexOf(t) \in 1 .. Len(ThreadList) /\ ThreadList[IndexOf(t)] = t
  BY DEF IndexOf, Threads
<1>2. \A k \in 1 .. Len(ThreadList) : ThreadList[k] \in Threads
  BY DEF Threads
<1>3. \A k \in 1 .. Len(ThreadList) : IndexOf(ThreadList[k]) = k
  BY <1>1, <1>2, FilesAssumption
<1>4. Len(ThreadList) \in Nat /\ Tsk \in Threads
  BY FilesAssumption
<1>5. 1 \in 1 .. Len(ThreadList)
  BY <1>1, <1>4
<1>6. QED
  BY <1>1, <1>2, <1>3, <1>4, <1>5 DEF Leader

LEMMA ThreadsFinite == IsFiniteSet(Threads)
<1>1. IsFiniteSet(1 .. Len(ThreadList))
  BY FS_Interval, IndexFacts
<1> DEFINE g == [k \in 1 .. Len(ThreadList) |-> ThreadList[k]]
<1>2. g \in Surjection(1 .. Len(ThreadList), Threads)
  BY DEF Surjection, Threads
<1>3. QED
  BY <1>1, <1>2, FS_Surjection

LEMMA NullFacts ==
  NULL \notin Tables /\ NULL \notin Files /\ NULL \notin Threads
BY FilesAssumption

\* next_thread skips only threads that are gone.
LEMMA NextThread ==
  ASSUME NEW t \in Threads
  PROVE  /\ next_thread(t) \in Threads \cup {NULL}
         /\ next_thread(t) = NULL =>
              \A u \in Threads : IndexOf(t) < IndexOf(u) => state[u] = "gone"
         /\ next_thread(t) # NULL =>
              /\ state[next_thread(t)] # "gone" /\ IndexOf(t) < IndexOf(next_thread(t))
              /\ \A u \in Threads : IndexOf(t) < IndexOf(u) /\ IndexOf(u) < IndexOf(next_thread(t))
                                      => state[u] = "gone"
<1> DEFINE after == {k \in IndexOf(t) + 1 .. Len(ThreadList) : state[ThreadList[k]] # "gone"}
<1>1. IndexOf(t) \in 1 .. Len(ThreadList) /\ Len(ThreadList) \in Nat
  BY IndexFacts
<1>2. ASSUME NEW u \in Threads, IndexOf(t) < IndexOf(u), state[u] # "gone"
      PROVE  IndexOf(u) \in after
  BY <1>1, <1>2, IndexFacts
<1>3. CASE after = {}
  <2>1. next_thread(t) = NULL
    BY <1>3 DEF next_thread
  <2>2. QED
    BY <2>1, <1>2, <1>3
<1>4. CASE after # {}
  <2>1. after \in SUBSET Nat
    BY <1>1
  <2>2. PICK k : k = Min(after) /\ k \in after /\ \A y \in after : k <= y
    BY <1>4, <2>1, MinExists
  <2>3. next_thread(t) = ThreadList[k]
    BY <1>4, <2>2 DEF next_thread
  <2>4. k \in 1 .. Len(ThreadList) /\ IndexOf(t) < k /\ state[ThreadList[k]] # "gone"
    BY <2>2, <1>1
  <2>5. ThreadList[k] \in Threads /\ IndexOf(ThreadList[k]) = k /\ ThreadList[k] # NULL
    BY <2>4, IndexFacts, NullFacts
  <2>6. ASSUME NEW u \in Threads, IndexOf(t) < IndexOf(u), IndexOf(u) < k
        PROVE  state[u] = "gone"
    <3>1. SUFFICES ASSUME state[u] # "gone" PROVE FALSE
      OBVIOUS
    <3>2. k <= IndexOf(u)
      BY <3>1, <2>6, <1>2, <2>2
    <3>3. QED
      BY <3>2, <2>6, <2>4, IndexFacts
  <2> HIDE DEF after
  <2>7. QED
    BY <2>3, <2>4, <2>5, <2>6
<1>5. QED
  BY <1>3, <1>4

\* for_each_thread begins at the first thread that is not gone.
LEMMA FirstThread ==
  ASSUME state[Tsk] # "gone",
         NEW x, x = CHOOSE t \in Threads :
                      /\ state[t] # "gone"
                      /\ \A u \in Threads : state[u] # "gone" => IndexOf(t) <= IndexOf(u)
  PROVE  x \in Threads /\ state[x] # "gone" /\ IndexOf(x) <= IndexOf(Tsk)
<1> DEFINE S == {IndexOf(u) : u \in {v \in Threads : state[v] # "gone"}}
<1>1. S \in SUBSET Nat /\ S # {}
  BY IndexFacts
<1>2. PICK k : k \in S /\ \A y \in S : k <= y
  BY <1>1, MinExists
<1>3. PICK t \in Threads : state[t] # "gone" /\ k = IndexOf(t)
  BY <1>2
<1>4. \A u \in Threads : state[u] # "gone" => IndexOf(t) <= IndexOf(u)
  BY <1>2, <1>3
<1>5. QED
  BY <1>3, <1>4, IndexFacts

-----------------------------------------------------------------------------
(* The kernel's operations on tables. *)

TableType == [Tables -> [count : Nat, fd : [Fds -> Files \cup {NULL}]]]

LEMMA NoFdsType == NoFds \in [Fds -> Files \cup {NULL}]
BY DEF NoFds

LEMMA PutFacts ==
  ASSUME NEW tbl \in TableType, NEW tb \in Tables
  PROVE  /\ Put(tbl, tb) \in TableType
         /\ \A x \in Tables \ {tb} : Put(tbl, tb)[x] = tbl[x]
         /\ Put(tbl, tb)[tb].count = IF tbl[tb].count >= 1 THEN tbl[tb].count - 1 ELSE 0
         /\ tbl[tb].count > 1 => Put(tbl, tb)[tb].fd = tbl[tb].fd
<1>1. tbl[tb] \in [count : Nat, fd : [Fds -> Files \cup {NULL}]] /\ Len(ThreadList) \in Nat
  BY IndexFacts DEF TableType
<1>2. CASE tbl[tb].count > 1
  <2>1. Put(tbl, tb) = [tbl EXCEPT ![tb].count = @ - 1]
    BY <1>2 DEF Put
  <2>2. QED
    BY <2>1, <1>1, <1>2 DEF TableType
<1>3. CASE ~(tbl[tb].count > 1)
  <2>1. Put(tbl, tb) = [tbl EXCEPT ![tb] = [count |-> 0, fd |-> NoFds]]
    BY <1>3 DEF Put
  <2>2. QED
    BY <2>1, <1>1, <1>3, NoFdsType DEF TableType
<1>4. QED
  BY <1>2, <1>3

LEMMA DupFacts ==
  ASSUME table \in TableType, NEW tb \in Tables, CanAllocate
  PROVE  /\ NewTable \in Tables /\ table[NewTable].count = 0
         /\ dup_fd(tb) \in TableType
         /\ dup_fd(tb)[NewTable] = [count |-> 1, fd |-> table[tb].fd]
         /\ \A x \in Tables \ {NewTable} : dup_fd(tb)[x] = table[x]
<1>1. NewTable \in Tables /\ table[NewTable].count = 0
  BY DEF CanAllocate, NewTable, Free
<1>2. [count |-> 1, fd |-> table[tb].fd] \in [count : Nat, fd : [Fds -> Files \cup {NULL}]]
  BY IndexFacts DEF TableType
<1>3. QED
  BY <1>1, <1>2 DEF dup_fd, TableType

LEMMA ViewType ==
  ASSUME TypeOK, files[Tsk] # NULL
  PROVE  View \in Views
BY IndexFacts DEF TypeOK, View, Views, Alone

LEMMA NoViewType == NoView \in Views
BY FilesAssumption, NoFdsType DEF NoView, Views

-----------------------------------------------------------------------------
(* Types, and what Tsk holds: the program and the kernel. *)

LEMMA RunningFiles ==
  ASSUME TypeInv, NEW t \in Threads, Running(t)
  PROVE  files[t] \in Tables /\ table[files[t]].fd \in [Fds -> Files \cup {NULL}]
                             /\ table[files[t]].count \in Nat
BY DEF TypeInv, TypeOK

\* A step that leaves Tsk's variables and its files alone.
LEMMA OthersKeep ==
  ASSUME TypeInv, UNCHANGED <<proc, pc, ss, localVars, at_take, at_restore>>,
         killed' \in {"no", "restore", "exit"}, state' \in [Threads -> {"run", "exiting", "gone"}],
         files' \in [Threads -> Tables \cup {NULL}],
         \A t \in Threads : state'[t] = "run" => files'[t] # NULL,
         Running(Tsk) => state'[Tsk] = "run",
         table' \in TableType, pos' \in [Files -> 0 .. MaxPos],
         torn' \in BOOLEAN, vanished' \in BOOLEAN, raced' \in BOOLEAN
  PROVE  TypeInv'
<1>1. TypeOK'
  BY DEF TypeInv, TypeOK, TableType, localVars, Running
<1>2. RecordsOK'
  BY DEF TypeInv, RecordsOK
<1>3. PlaceOK'
  BY DEF TypeInv, PlaceOK, localVars, Running
<1>4. QED
  BY <1>1, <1>2, <1>3 DEF TypeInv

LEMMA TypeFacts ==
  ASSUME TypeInv
  PROVE  /\ table \in TableType /\ files \in [Threads -> Tables \cup {NULL}]
         /\ state \in [Threads -> {"run", "exiting", "gone"}] /\ killed \in {"no", "restore", "exit"}
         /\ pos \in [Files -> 0 .. MaxPos]
         /\ torn \in BOOLEAN /\ vanished \in BOOLEAN /\ raced \in BOOLEAN
         /\ \A t \in Threads : state[t] = "run" => files[t] # NULL
         /\ \A x \in Tables : table[x].count \in Nat /\ table[x].count <= table[x].count
BY IndexFacts DEF TypeInv, TypeOK, TableType, Running

LEMMA OpenTypes ==
  ASSUME TypeInv, NEW t \in Threads, NEW f \in Files, Open(t, f)
  PROVE  TypeInv'
<1>1. files[t] \in Tables /\ table[files[t]].fd \in [Fds -> Files \cup {NULL}]
  BY RunningFiles DEF Open, Calls
<1>2. PICK d : table' = [table EXCEPT ![files[t]].fd[d] = f]
  BY DEF Open
<1>3. table' \in TableType /\ \A x \in Tables : table'[x].count = table[x].count
  BY <1>1, <1>2, TypeFacts DEF TableType
<1>4. pos' \in [Files -> 0 .. MaxPos]
  BY TypeFacts, FilesAssumption DEF Open
<1>5. torn' \in BOOLEAN
  BY TypeFacts DEF Open, Torn
<1>6. QED
  BY <1>3, <1>4, <1>5, TypeFacts, OthersKeep DEF Open, CallLeaves, Running

LEMMA CloseTypes ==
  ASSUME TypeInv, NEW t \in Threads, NEW fd \in Fds, Close(t, fd)
  PROVE  TypeInv'
<1>1. files[t] \in Tables /\ table[files[t]].fd \in [Fds -> Files \cup {NULL}]
  BY RunningFiles DEF Close, Calls
<1>2. table' \in TableType /\ \A x \in Tables : table'[x].count = table[x].count
  BY <1>1, TypeFacts DEF TableType, Close
<1>3. torn' \in BOOLEAN
  BY TypeFacts DEF Close, Torn
<1>4. QED
  BY <1>2, <1>3, TypeFacts, OthersKeep DEF Close, CallLeaves, Running

LEMMA SeekTypes ==
  ASSUME TypeInv, NEW t \in Threads, NEW fd \in Fds, NEW o \in 0 .. MaxPos, Seek(t, fd, o)
  PROVE  TypeInv'
<1>1. pos' \in [Files -> 0 .. MaxPos]
  BY TypeFacts DEF Seek
<1>2. torn' \in BOOLEAN
  BY TypeFacts DEF Seek, Torn
<1>3. QED
  BY <1>1, <1>2, TypeFacts, OthersKeep DEF Seek, CallLeaves, Running

LEMMA UnshareTypes ==
  ASSUME TypeInv, NEW t \in Threads, Unshare(t)
  PROVE  TypeInv'
<1>1. files[t] \in Tables /\ table \in TableType /\ CanAllocate
  BY RunningFiles, TypeFacts DEF Unshare, Calls
<1> DEFINE d == dup_fd(files[t])
<1>2. /\ d \in TableType /\ NewTable \in Tables /\ d[NewTable].count = 1
      /\ \A x \in Tables \ {NewTable} : d[x] = table[x]
  <2>1. /\ d \in TableType /\ NewTable \in Tables
        /\ d[NewTable] = [count |-> 1, fd |-> table[files[t]].fd]
        /\ \A x \in Tables \ {NewTable} : d[x] = table[x]
    BY <1>1, DupFacts
  <2> HIDE DEF d
  <2>2. QED
    BY <2>1
<1>3. table' = Put(d, files[t])
  BY DEF Unshare
<1> HIDE DEF d
<1>4. /\ table' \in TableType
      /\ \A x \in Tables \ {files[t]} : table'[x] = d[x]
      /\ table'[files[t]].count = IF d[files[t]].count >= 1 THEN d[files[t]].count - 1 ELSE 0
  BY <1>1, <1>2, <1>3, PutFacts
<1>6. files' \in [Threads -> Tables \cup {NULL}] /\ \A u \in Threads : files'[u] = files[u] \/ files'[u] # NULL
  BY <1>2, TypeFacts, NullFacts DEF Unshare
<1>7. torn' \in BOOLEAN /\ raced' \in BOOLEAN
  BY TypeFacts DEF Unshare, Torn, LoopAt
<1>8. QED
  BY <1>4, <1>6, <1>7, TypeFacts, OthersKeep DEF Unshare, CallLeaves, Running

LEMMA ExitFilesTypes ==
  ASSUME TypeInv, NEW t \in Threads, exit_files(t)
  PROVE  TypeInv'
<1>1. files[t] \in Tables /\ table \in TableType /\ t # Tsk /\ table' = Put(table, files[t])
  BY RunningFiles, TypeFacts DEF exit_files
<1>2. table' \in TableType /\ \A x \in Tables : table'[x].count <= table[x].count
  <2>1. /\ table' \in TableType
        /\ \A x \in Tables \ {files[t]} : table'[x] = table[x]
        /\ table'[files[t]].count = IF table[files[t]].count >= 1 THEN table[files[t]].count - 1 ELSE 0
    BY <1>1, PutFacts
  <2>2. QED
    BY <2>1, <1>1, TypeFacts
<1>3. /\ files' \in [Threads -> Tables \cup {NULL}] /\ state' \in [Threads -> {"run", "exiting", "gone"}]
      /\ \A u \in Threads : state'[u] = "run" => files'[u] # NULL
      /\ Running(Tsk) => state'[Tsk] = "run"
  BY <1>1, TypeFacts, IndexFacts DEF exit_files, Running
<1>4. raced' \in BOOLEAN
  BY TypeFacts DEF exit_files, LoopAt
<1>5. QED
  BY <1>2, <1>3, <1>4, TypeFacts, OthersKeep DEF exit_files

LEMMA ReleaseTypes ==
  ASSUME TypeInv, NEW t \in Threads, release_task(t)
  PROVE  TypeInv'
<1>1. /\ state' \in [Threads -> {"run", "exiting", "gone"}]
      /\ \A u \in Threads : state'[u] = "run" => state[u] = "run"
      /\ Running(Tsk) => state'[Tsk] = "run"
  BY TypeFacts, IndexFacts DEF release_task, Running
<1>2. raced' \in BOOLEAN /\ vanished' \in BOOLEAN
  BY TypeFacts DEF release_task
<1>3. QED
  BY <1>1, <1>2, TypeFacts, OthersKeep DEF release_task

LEMMA CloneTypes ==
  ASSUME TypeInv, NEW t \in Threads, NEW new \in Others, Clone(t, new)
  PROVE  TypeInv'
<1>1. files[t] \in Tables /\ table \in TableType /\ new \in Threads /\ new # Tsk /\ files[t] # NULL
  BY RunningFiles, TypeFacts, NullFacts DEF Clone, Calls, Others
<1>2. table' \in TableType
  BY <1>1 DEF Clone, TableType
<1>3. /\ files' \in [Threads -> Tables \cup {NULL}] /\ state' \in [Threads -> {"run", "exiting", "gone"}]
      /\ \A u \in Threads : state'[u] = "run" => files'[u] # NULL
      /\ Running(Tsk) => state'[Tsk] = "run"
  BY <1>1, TypeFacts, IndexFacts DEF Clone, Running
<1>4. QED
  BY <1>2, <1>3, TypeFacts, OthersKeep DEF Clone, historyVars

LEMMA KillTypes ==
  ASSUME TypeInv, Kill
  PROVE  TypeInv'
BY TypeFacts, OthersKeep DEF Kill, historyVars, Running

-----------------------------------------------------------------------------
(* The same for Tsk in the module. *)

LEMMA InitTypes == Init => TypeInv
<1>1. SUFFICES ASSUME Init PROVE TypeInv
  OBVIOUS
<1>2. PICK r \in Processes, tb \in Tables :
        /\ proc = r
        /\ state = [t \in Threads |-> IF t \in r.threads THEN "run"
                                      ELSE IF t = Leader THEN "exiting" ELSE "gone"]
        /\ files = [t \in Threads |-> IF t \in r.threads THEN tb ELSE NULL]
        /\ table = [x \in Tables |-> [count |-> IF x = tb THEN Cardinality(r.threads) ELSE 0,
                                      fd |-> NoFds]]
  <2> DEFINE first == CHOOSE x \in Tables : TRUE
  <2>1. first \in Tables
    BY FilesAssumption
  <2>2. PICK r \in Processes :
          /\ proc = r
          /\ state = [t \in Threads |-> IF t \in r.threads THEN "run"
                                        ELSE IF t = Leader THEN "exiting" ELSE "gone"]
          /\ files = [t \in Threads |-> IF t \in r.threads THEN first ELSE NULL]
          /\ table = [x \in Tables |-> [count |-> IF x = first THEN Cardinality(r.threads) ELSE 0,
                                        fd |-> NoFds]]
    BY <1>1 DEF Init
  <2> HIDE DEF first
  <2>3. QED
    BY <2>1, <2>2
<1>3. Cardinality(r.threads) \in Nat
  BY ThreadsFinite, FilesAssumption, FS_Subset, FS_CardinalityType
<1>4. table \in TableType
  BY <1>2, <1>3, NoFdsType, IndexFacts DEF TableType
<1>5. /\ state \in [Threads -> {"run", "exiting", "gone"}]
      /\ files \in [Threads -> Tables \cup {NULL}]
      /\ \A t \in Threads : state[t] = "run" => files[t] # NULL
  BY <1>2, NullFacts
<1>6. /\ n \in 0 .. MaxFds /\ offsets \in [Fds -> -1 .. MaxPos] /\ pos \in [Files -> 0 .. MaxPos]
  BY <1>1, FilesAssumption DEF Init, NoOffsets
<1>7. TypeOK
  BY <1>1, <1>2, <1>4, <1>5, <1>6 DEF Init, TypeOK, TableType, NoSnapshot, Running
<1>8. RecordsOK
  BY <1>1, NoViewType DEF Init, RecordsOK, NoSnapshot
<1>9. PlaceOK
  BY <1>1 DEF Init, PlaceOK, Busy, Loop
<1>10. QED
  BY <1>7, <1>8, <1>9 DEF TypeInv

LEMMA ExcludeTypes ==
  ASSUME TypeInv, exclude_vmrange
  PROVE  TypeInv'
<1>1. pc = "user" /\ UNCHANGED <<processVars, pc, localVars, historyVars>>
  BY DEF exclude_vmrange, Calls
<1>2. ss' = [data |-> TRUE, made |-> FALSE, fds |-> FALSE, files |-> NULL, offsets |-> NULL]
  BY DEF exclude_vmrange, NoSnapshot
<1>3. TypeOK'
  BY <1>1, <1>2 DEF TypeInv, TypeOK, processVars, localVars, historyVars, Running
<1>4. RecordsOK'
  BY <1>1, <1>2 DEF TypeInv, RecordsOK, historyVars
<1>5. PlaceOK'
  BY <1>1 DEF TypeInv, PlaceOK, localVars, Busy, Loop
<1>6. QED
  BY <1>3, <1>4, <1>5 DEF TypeInv

LEMMA TakeSnapshotTypes ==
  ASSUME TypeInv, NEW fds \in BOOLEAN, take_snapshot(fds)
  PROVE  TypeInv'
<1>1. /\ Running(Tsk) /\ pc = "user" /\ pc' \in {"take_dup", "user"} /\ (pc' = "take_dup" => fds)
      /\ UNCHANGED <<processVars, localVars, at_restore, vanished, raced>>
      /\ at_take' = View /\ torn' = FALSE
  BY DEF take_snapshot, Calls
<1>2. ss' = [data |-> TRUE, made |-> TRUE, fds |-> fds, files |-> NULL, offsets |-> NULL]
  BY DEF take_snapshot, NoSnapshot
<1>3. View \in Views
  BY <1>1, ViewType, RunningFiles, NullFacts, IndexFacts DEF TypeInv
<1>4. TypeOK'
  BY <1>1, <1>2 DEF TypeInv, TypeOK, processVars, localVars, Running
<1>5. RecordsOK'
  BY <1>1, <1>2, <1>3 DEF TypeInv, RecordsOK
<1>6. PlaceOK'
  BY <1>1, <1>2 DEF TypeInv, PlaceOK, processVars, localVars, Running, Busy, Loop
<1>7. QED
  BY <1>4, <1>5, <1>6 DEF TypeInv

LEMMA TakeDupTypes ==
  ASSUME TypeInv, take_dup
  PROVE  TypeInv'
<1>1. /\ pc = "take_dup" /\ Running(Tsk) /\ files[Tsk] \in Tables
      /\ UNCHANGED <<proc, state, killed, files, pos, ss, iter, current_old_files, old_files, historyVars>>
  BY RunningFiles, IndexFacts DEF take_dup, TypeInv, PlaceOK
<1>2. CASE pc' = "user" /\ UNCHANGED <<table, n, new_files, offsets>>
  BY <1>1, <1>2 DEF TypeInv, TypeOK, RecordsOK, PlaceOK, Busy, Loop, historyVars, Running
<1>3. CASE /\ CanAllocate /\ table' = dup_fd(files[Tsk]) /\ new_files' = NewTable
           /\ pc' = "take_save" /\ n' = 0 /\ offsets' = NoOffsets
  <2>1. /\ NewTable \in Tables /\ NewTable # NULL /\ table' \in TableType
        /\ table'[NewTable] = [count |-> 1, fd |-> table[files[Tsk]].fd]
    BY <1>1, <1>3, DupFacts, TypeFacts, NullFacts
  <2>2. 0 \in 0 .. MaxFds /\ NoOffsets \in [Fds -> -1 .. MaxPos]
    BY FilesAssumption DEF NoOffsets
  <2>3. TypeOK'
    BY <1>1, <1>3, <2>1, <2>2 DEF TypeInv, TypeOK, TableType, historyVars, Running
  <2>4. RecordsOK' /\ PlaceOK'
    BY <1>1, <1>3, <2>1 DEF TypeInv, RecordsOK, PlaceOK, Busy, Loop, historyVars, Running
  <2>5. QED
    BY <2>3, <2>4 DEF TypeInv
<1>4. QED
  BY <1>2, <1>3 DEF take_dup

LEMMA SaveTypes ==
  ASSUME TypeInv, save_file_offset
  PROVE  TypeInv'
<1>1. /\ pc = "take_save" /\ n' = n + 1 /\ n < MaxFds /\ n \in Fds
      /\ UNCHANGED <<processVars, ss, pc, iter, new_files, current_old_files, old_files, historyVars>>
  BY FilesAssumption DEF save_file_offset, TypeInv, TypeOK, Fds
<1>2. new_files \in Tables /\ table[new_files].fd[n] \in Files \cup {NULL}
  BY <1>1 DEF TypeInv, TypeOK, PlaceOK, Busy
<1>3. offsets' \in [Fds -> -1 .. MaxPos]
  <2>1. \A f \in Files : pos[f] \in -1 .. MaxPos
    BY TypeFacts, FilesAssumption
  <2>2. -1 \in -1 .. MaxPos
    BY FilesAssumption
  <2>3. QED
    BY <1>1, <1>2, <2>1, <2>2 DEF save_file_offset, TypeInv, TypeOK
<1>4. n' \in 0 .. MaxFds
  BY <1>1, FilesAssumption DEF TypeInv, TypeOK
<1>5. TypeOK'
  BY <1>1, <1>3, <1>4 DEF TypeInv, TypeOK, processVars, historyVars, Running
<1>6. RecordsOK' /\ PlaceOK'
  BY <1>1 DEF TypeInv, RecordsOK, PlaceOK, Busy, Loop, processVars, historyVars, Running
<1>7. QED
  BY <1>5, <1>6 DEF TypeInv

LEMMA TakeDoneTypes ==
  ASSUME TypeInv, take_done
  PROVE  TypeInv'
<1>1. /\ pc = "take_save" /\ pc' = "user" /\ new_files' = NULL /\ offsets' = NoOffsets /\ n' = 0
      /\ UNCHANGED <<processVars, iter, current_old_files, old_files, historyVars>>
      /\ ss' = [ss EXCEPT !.files = new_files, !.offsets = offsets]
      /\ new_files \in Tables /\ ss.data /\ ss.made /\ ss.fds /\ offsets \in [Fds -> -1 .. MaxPos]
  BY DEF take_done, TypeInv, TypeOK, PlaceOK, Busy
<1>2. ss' = [data |-> TRUE, made |-> TRUE, fds |-> TRUE, files |-> new_files, offsets |-> offsets]
  BY <1>1 DEF TypeInv, RecordsOK
<1>3. 0 \in 0 .. MaxFds /\ NoOffsets \in [Fds -> -1 .. MaxPos]
  BY FilesAssumption DEF NoOffsets
<1>4. TypeOK'
  BY <1>1, <1>2, <1>3 DEF TypeInv, TypeOK, processVars, historyVars, Running
<1>5. RecordsOK'
  BY <1>1, <1>2 DEF TypeInv, RecordsOK, historyVars
<1>6. PlaceOK'
  BY <1>1 DEF PlaceOK, Busy, Loop
<1>7. QED
  BY <1>4, <1>5, <1>6 DEF TypeInv

LEMMA RestoreSnapshotTypes ==
  ASSUME TypeInv, restore_snapshot
  PROVE  TypeInv'
<1>1. /\ Running(Tsk) /\ pc = "user" /\ pc' = "kill" /\ iter' = Leader /\ ss.data
      /\ at_restore' = View /\ torn' = FALSE /\ vanished' = FALSE
      /\ UNCHANGED <<processVars, ss, n, new_files, offsets, current_old_files, old_files, at_take, raced>>
  BY DEF restore_snapshot, Calls
<1>2. View \in Views /\ Leader \in Threads
  BY <1>1, ViewType, RunningFiles, NullFacts, IndexFacts DEF TypeInv
<1>3. TypeOK'
  BY <1>1, <1>2 DEF TypeInv, TypeOK, processVars, Running
<1>4. RecordsOK' /\ PlaceOK'
  BY <1>1, <1>2 DEF TypeInv, RecordsOK, PlaceOK, Busy, Loop, processVars, Running
<1>5. QED
  BY <1>3, <1>4 DEF TypeInv

LEMMA RecoverThreadsTypes ==
  ASSUME TypeInv, recover_threads_snapshot
  PROVE  TypeInv'
<1>1. /\ pc = "kill" /\ iter \in Threads /\ iter' = next_tid(iter) /\ killed' \in {"no", "restore", "exit"}
      /\ UNCHANGED <<proc, state, files, table, pos, ss, pc, n, new_files, offsets,
                     current_old_files, old_files, historyVars>>
  BY DEF recover_threads_snapshot, TypeInv, TypeOK
<1>2. iter' \in Threads \cup {NULL}
  BY <1>1, NextThread DEF next_tid
<1>3. TypeOK'
  BY <1>1, <1>2 DEF TypeInv, TypeOK, historyVars, Running
<1>4. RecordsOK' /\ PlaceOK'
  BY <1>1 DEF TypeInv, RecordsOK, PlaceOK, Busy, Loop, historyVars, Running
<1>5. QED
  BY <1>3, <1>4 DEF TypeInv

\* out_release and out.
LEMMA FailTypes ==
  ASSUME TypeInv, pc \in {"kill", "seek"}, Fail, pos' \in [Files -> 0 .. MaxPos],
         UNCHANGED <<proc, state, killed, files, ss, n, iter, offsets, current_old_files, old_files, historyVars>>
  PROVE  TypeInv'
<1>1. table' \in TableType /\ pc' = "failed" /\ new_files' = NULL
  BY TypeFacts, PutFacts DEF Fail, TypeInv, TypeOK
<1>2. TypeOK'
  BY <1>1 DEF TypeInv, TypeOK, TableType, historyVars, Running
<1>3. RecordsOK' /\ PlaceOK'
  BY <1>1 DEF TypeInv, RecordsOK, PlaceOK, Busy, Loop, historyVars, Running
<1>4. QED
  BY <1>2, <1>3 DEF TypeInv

LEMMA RecoverFilesTypes ==
  ASSUME TypeInv, recover_files_snapshot
  PROVE  TypeInv'
<1>1. /\ pc = "kill" /\ Running(Tsk) /\ ss.data
      /\ UNCHANGED <<proc, state, killed, files, pos, ss, iter, offsets, current_old_files, old_files, historyVars>>
  BY DEF recover_files_snapshot, TypeInv, PlaceOK
<1>2. CASE ~ss.fds /\ pc' = "restored" /\ UNCHANGED <<table, new_files, n>>
  BY <1>1, <1>2 DEF TypeInv, TypeOK, RecordsOK, PlaceOK, Busy, Loop, historyVars, Running
<1>3. CASE ss.fds /\ Fail /\ UNCHANGED n
  BY <1>1, <1>3, FailTypes, TypeFacts
<1>4. CASE /\ ss.fds /\ ss.files # NULL /\ CanAllocate
           /\ table' = dup_fd(ss.files) /\ new_files' = NewTable
           /\ pc' = "seek" /\ n' = 0
  <2>1. /\ NewTable \in Tables /\ NewTable # NULL /\ table' \in TableType
        /\ table'[NewTable] = [count |-> 1, fd |-> table[ss.files].fd]
    <3>1. ss.files \in Tables
      BY <1>4 DEF TypeInv, TypeOK
    <3>2. QED
      BY <3>1, <1>4, DupFacts, TypeFacts, NullFacts
  <2>2. 0 \in 0 .. MaxFds
    BY FilesAssumption
  <2>3. TypeOK'
    BY <1>1, <1>4, <2>1, <2>2 DEF TypeInv, TypeOK, TableType, historyVars, Running
  <2>4. RecordsOK' /\ PlaceOK'
    BY <1>1, <1>4, <2>1 DEF TypeInv, RecordsOK, PlaceOK, Busy, Loop, historyVars, Running
  <2>5. QED
    BY <2>3, <2>4 DEF TypeInv
<1>5. QED
  BY <1>2, <1>3, <1>4 DEF recover_files_snapshot

\* What a seek needs: the descriptor has a file and a saved position.
LEMMA MustSeekFacts ==
  ASSUME TypeInv, pc = "seek", n < MaxFds
  PROVE  /\ n \in Fds /\ new_files \in Tables /\ ss.files \in Tables
         /\ MustSeek(n) => table[new_files].fd[n] \in Files /\ ss.offsets[n] \in 0 .. MaxPos
<1>1. n \in Fds
  BY FilesAssumption DEF TypeInv, TypeOK, Fds
<1>2. new_files \in Tables /\ ss.files \in Tables /\ ss.offsets \in [Fds -> -1 .. MaxPos]
  BY DEF TypeInv, TypeOK, PlaceOK, Busy
<1>3. table[new_files].fd[n] \in Files \cup {NULL} /\ ss.offsets[n] \in -1 .. MaxPos
  BY <1>1, <1>2 DEF TypeInv, TypeOK
<1>4. QED
  BY <1>1, <1>2, <1>3, FilesAssumption DEF MustSeek

LEMMA RestoreOffsetTypes ==
  ASSUME TypeInv, restore_file_offset
  PROVE  TypeInv'
<1>1. /\ pc = "seek" /\ n < MaxFds /\ n' = n + 1
      /\ UNCHANGED <<proc, state, killed, files, table, ss, pc, iter, new_files, offsets,
                     current_old_files, old_files, historyVars>>
  BY DEF restore_file_offset
<1>2. pos' \in [Files -> 0 .. MaxPos]
  BY <1>1, MustSeekFacts, TypeFacts DEF restore_file_offset
<1>3. n' \in 0 .. MaxFds
  BY <1>1, FilesAssumption DEF TypeInv, TypeOK
<1>4. TypeOK'
  BY <1>1, <1>2, <1>3 DEF TypeInv, TypeOK, historyVars, Running
<1>5. RecordsOK' /\ PlaceOK'
  BY <1>1 DEF TypeInv, RecordsOK, PlaceOK, Busy, Loop, historyVars, Running
<1>6. QED
  BY <1>4, <1>5 DEF TypeInv

LEMMA SeekFailsTypes ==
  ASSUME TypeInv, seek_fails
  PROVE  TypeInv'
<1>1. pos' \in [Files -> 0 .. MaxPos]
  BY MustSeekFacts, TypeFacts DEF seek_fails
<1>2. QED
  BY <1>1, FailTypes DEF seek_fails

LEMMA SeeksDoneTypes ==
  ASSUME TypeInv, seeks_done
  PROVE  TypeInv'
<1>1. /\ pc = "seek" /\ pc' = "test" /\ n' = 0 /\ current_old_files' = files[Tsk]
      /\ UNCHANGED <<processVars, ss, new_files, offsets, old_files, historyVars>>
      /\ Running(Tsk) /\ files[Tsk] \in Tables /\ new_files \in Tables
  BY RunningFiles, IndexFacts DEF seeks_done, TypeInv, TypeOK, PlaceOK, Busy
<1>2. iter' \in Threads
  BY <1>1, FirstThread DEF seeks_done, Running
<1>3. 0 \in 0 .. MaxFds
  BY FilesAssumption
<1>4. TypeOK'
  BY <1>1, <1>2, <1>3 DEF TypeInv, TypeOK, processVars, historyVars, Running
<1>5. RecordsOK' /\ PlaceOK'
  BY <1>1, <1>2, NullFacts DEF TypeInv, RecordsOK, PlaceOK, Busy, Loop, processVars, historyVars, Running
<1>6. QED
  BY <1>4, <1>5 DEF TypeInv

\* The loop goes on to the next thread or ends.
LEMMA NextTaskTypes ==
  ASSUME TypeInv, pc \in Loop, NextTask, table' \in TableType,
         old_files' \in Tables \cup {NULL},
         UNCHANGED <<proc, state, killed, files, pos, ss, n, new_files, offsets,
                     current_old_files, historyVars>>
  PROVE  TypeInv'
<1>1. iter \in Threads /\ new_files \in Tables /\ current_old_files # NULL /\ ss.files # NULL /\ ss.fds
  BY DEF TypeInv, TypeOK, PlaceOK, Busy
<1>2. iter' \in Threads \cup {NULL} /\ pc' \in {"test", "restored"} /\ (pc' = "test" => iter' # NULL)
  BY <1>1, NextThread DEF NextTask
<1>3. TypeOK'
  BY <1>2 DEF TypeInv, TypeOK, TableType, historyVars, Running
<1>4. RecordsOK' /\ PlaceOK'
  BY <1>1, <1>2 DEF TypeInv, RecordsOK, PlaceOK, Busy, Loop, historyVars, Running
<1>5. QED
  BY <1>3, <1>4 DEF TypeInv

LEMMA LoopTestTypes ==
  ASSUME TypeInv, loop_test
  PROVE  TypeInv'
<1>1. /\ pc = "test" /\ iter \in Threads /\ new_files \in Tables
      /\ UNCHANGED <<proc, state, killed, files, pos, ss, n, new_files, offsets,
                     current_old_files, old_files, historyVars>>
  BY DEF loop_test, TypeInv, TypeOK, PlaceOK, Busy, Loop
<1>2. CASE files[iter] # current_old_files
  <2>1. NextTask /\ table' = table
    BY <1>2 DEF loop_test
  <2>2. table' \in TableType /\ old_files' \in Tables \cup {NULL}
    BY <1>1, <2>1, TypeFacts DEF TypeInv, TypeOK
  <2>3. QED
    BY <1>1, <2>1, <2>2, NextTaskTypes DEF Loop
<1>3. CASE files[iter] = current_old_files
  <2>1. /\ pc' = "read" /\ iter' = iter
        /\ table' = IF iter = Tsk THEN table ELSE [table EXCEPT ![new_files].count = @ + 1]
    BY <1>3 DEF loop_test
  <2>2. table' \in TableType
    BY <1>1, <2>1, TypeFacts DEF TableType
  <2>3. TypeOK'
    BY <1>1, <2>1, <2>2 DEF TypeInv, TypeOK, TableType, historyVars, Running
  <2>4. RecordsOK' /\ PlaceOK'
    BY <1>1, <2>1 DEF TypeInv, RecordsOK, PlaceOK, Busy, Loop, historyVars, Running
  <2>5. QED
    BY <2>3, <2>4 DEF TypeInv
<1>4. QED
  BY <1>2, <1>3

LEMMA LoopReadTypes ==
  ASSUME TypeInv, loop_read
  PROVE  TypeInv'
<1>1. /\ pc = "read" /\ pc' = "assign" /\ iter \in Threads /\ old_files' \in Tables \cup {NULL}
      /\ UNCHANGED <<processVars, ss, n, iter, new_files, offsets, current_old_files, historyVars>>
  BY DEF loop_read, TypeInv, TypeOK, PlaceOK, Loop
<1>2. TypeOK'
  BY <1>1 DEF TypeInv, TypeOK, processVars, historyVars, Running
<1>3. RecordsOK' /\ PlaceOK'
  BY <1>1 DEF TypeInv, RecordsOK, PlaceOK, Busy, Loop, IndexOf, processVars, historyVars, Running
<1>4. QED
  BY <1>2, <1>3 DEF TypeInv

LEMMA LoopAssignTypes ==
  ASSUME TypeInv, loop_assign
  PROVE  TypeInv'
<1>1. /\ pc = "assign" /\ pc' = "put" /\ iter \in Threads /\ new_files \in Tables /\ new_files # NULL
      /\ files' = [files EXCEPT ![iter] = new_files]
      /\ UNCHANGED <<proc, state, killed, table, pos, ss, localVars, historyVars>>
  BY DEF loop_assign, TypeInv, TypeOK, PlaceOK, Busy, Loop
<1>2. TypeOK'
  BY <1>1 DEF TypeInv, TypeOK, localVars, historyVars, Running
<1>3. RecordsOK' /\ PlaceOK'
  BY <1>1 DEF TypeInv, RecordsOK, PlaceOK, Busy, Loop, IndexOf, localVars, historyVars, Running
<1>4. QED
  BY <1>2, <1>3 DEF TypeInv

LEMMA LoopPutTypes ==
  ASSUME TypeInv, loop_put
  PROVE  TypeInv'
<1>1. /\ pc = "put" /\ iter \in Threads /\ new_files \in Tables /\ old_files' = NULL
      /\ UNCHANGED <<proc, state, killed, files, pos, ss, n, new_files, offsets,
                     current_old_files, historyVars>>
  BY DEF loop_put, TypeInv, TypeOK, PlaceOK, Busy, Loop
<1>2. CASE old_files = NULL
  <2>1. pc' = "oops" /\ UNCHANGED <<table, iter>>
    BY <1>2 DEF loop_put
  <2>2. TypeOK'
    BY <1>1, <2>1 DEF TypeInv, TypeOK, historyVars, Running
  <2>3. RecordsOK' /\ PlaceOK'
    BY <1>1, <2>1 DEF TypeInv, RecordsOK, PlaceOK, Busy, Loop, historyVars, Running
  <2>4. QED
    BY <2>2, <2>3 DEF TypeInv
<1>3. CASE old_files # NULL
  <2>1. table' = Put(table, old_files) /\ NextTask /\ old_files \in Tables
    BY <1>3 DEF loop_put, TypeInv, TypeOK
  <2>2. table' \in TableType
    BY <2>1, TypeFacts, PutFacts
  <2>3. QED
    BY <1>1, <2>1, <2>2, NextTaskTypes DEF Loop
<1>4. QED
  BY <1>2, <1>3

LEMMA ReturnTypes ==
  ASSUME TypeInv, Return
  PROVE  TypeInv'
<1>1. /\ pc' = "user" /\ new_files' = NULL /\ current_old_files' = NULL /\ iter' = NULL /\ n' = 0
      /\ at_restore' = NoView /\ torn' = FALSE /\ vanished' = FALSE
      /\ UNCHANGED <<processVars, ss, offsets, old_files, at_take, raced>>
  BY DEF Return
<1>2. 0 \in 0 .. MaxFds
  BY FilesAssumption
<1>3. TypeOK'
  BY <1>1, <1>2 DEF TypeInv, TypeOK, processVars, Running
<1>4. RecordsOK' /\ PlaceOK'
  BY <1>1, NoViewType DEF TypeInv, RecordsOK, PlaceOK, Busy, Loop
<1>5. QED
  BY <1>3, <1>4 DEF TypeInv

LEMMA CleanTableType ==
  ASSUME TypeInv
  PROVE  CleanTable \in TableType
BY TypeFacts, PutFacts DEF CleanTable, TypeInv, TypeOK

LEMMA CleanTypes ==
  ASSUME TypeInv, clean_files_snapshot
  PROVE  TypeInv'
<1>1. /\ pc = "user" /\ table' \in TableType /\ at_take' = NoView
      /\ ss' = [data |-> FALSE, made |-> FALSE, fds |-> FALSE, files |-> NULL, offsets |-> NULL]
      /\ UNCHANGED <<proc, state, killed, files, pos, pc, localVars, at_restore, torn, vanished, raced>>
  BY CleanTableType DEF clean_files_snapshot, Calls, NoSnapshot
<1>2. TypeOK'
  BY <1>1 DEF TypeInv, TypeOK, TableType, localVars, Running
<1>3. RecordsOK'
  BY <1>1, NoViewType DEF TypeInv, RecordsOK
<1>4. PlaceOK'
  BY <1>1 DEF TypeInv, PlaceOK, Busy, Loop, localVars
<1>5. QED
  BY <1>2, <1>3, <1>4 DEF TypeInv

LEMMA ProcessExitTypes ==
  ASSUME TypeInv, process_exit
  PROVE  TypeInv'
<1>1. /\ pc = "user" /\ Running(Tsk) /\ files[Tsk] \in Tables /\ table' = Put(CleanTable, files[Tsk])
      /\ at_take' = NoView /\ ss' = [data |-> FALSE, made |-> FALSE, fds |-> FALSE, files |-> NULL, offsets |-> NULL]
      /\ UNCHANGED <<proc, pos, pc, localVars, at_restore, torn, vanished, raced>>
  BY RunningFiles, IndexFacts DEF process_exit, NoSnapshot
<1>2. table' \in TableType
  BY <1>1, CleanTableType, PutFacts
<1>3. /\ files' \in [Threads -> Tables \cup {NULL}] /\ state' \in [Threads -> {"run", "exiting", "gone"}]
      /\ \A u \in Threads : state'[u] = "run" => files'[u] # NULL
      /\ killed' \in {"no", "restore", "exit"}
  BY TypeFacts, IndexFacts DEF process_exit
<1>4. TypeOK'
  BY <1>1, <1>2, <1>3 DEF TypeInv, TypeOK, TableType, localVars, Running
<1>5. RecordsOK'
  BY <1>1, NoViewType DEF TypeInv, RecordsOK
<1>6. PlaceOK'
  BY <1>1 DEF TypeInv, PlaceOK, Busy, Loop, localVars
<1>7. QED
  BY <1>4, <1>5, <1>6 DEF TypeInv

LEMMA TypesPreserved == TypeInv /\ [Next]_vars => TypeInv'
<1>1. SUFFICES ASSUME TypeInv, [Next]_vars PROVE TypeInv'
  OBVIOUS
<1>2. ASSUME NEW t \in Threads, Program(t) PROVE TypeInv'
  BY <1>1, <1>2, OpenTypes, CloseTypes, SeekTypes, UnshareTypes DEF Program
<1>3. ASSUME NEW t \in Threads, Exit(t) PROVE TypeInv'
  BY <1>1, <1>3, ExitFilesTypes, ReleaseTypes, ProcessExitTypes DEF Exit
<1>4. ASSUME Module PROVE TypeInv'
  BY <1>1, <1>4, TakeDupTypes, SaveTypes, TakeDoneTypes, RecoverThreadsTypes, RecoverFilesTypes,
     RestoreOffsetTypes, SeekFailsTypes, SeeksDoneTypes, LoopTestTypes, LoopReadTypes,
     LoopAssignTypes, LoopPutTypes, ReturnTypes DEF Module
<1>5. ASSUME UNCHANGED vars PROVE TypeInv'
  BY <1>1, <1>5 DEF vars, processVars, localVars, historyVars, TypeInv, TypeOK, RecordsOK, PlaceOK,
     Running, IndexOf
<1>6. QED
  BY <1>1, <1>2, <1>3, <1>4, <1>5, TakeSnapshotTypes, RestoreSnapshotTypes, CleanTypes, KillTypes,
     CloneTypes, ExcludeTypes
     DEF Next

\* Every variable keeps its type and Tsk holds what its place in the module says.
THEOREM FilesTypeInv == Spec => []TypeInv
BY InitTypes, TypesPreserved, PTL DEF Spec

\* Whoever runs has a table, whichever threads are created, exit and are reaped,
\* and no position is saved or restored that a file cannot have (files.c).
THEOREM FilesTypeCorrect == Spec => []TypeOK
<1>1. TypeInv => TypeOK
  BY DEF TypeInv
<1>2. QED
  BY <1>1, FilesTypeInv, PTL

-----------------------------------------------------------------------------
(* The walk of recover_threads_snapshot. *)

After == {"seek", "test", "read", "assign", "put", "restored", "failed"}

\* Threads only leave, SIGKILL stays, and Tsk is neither at the walk nor coming
\* from it, or stays where it is.
LEMMA KillStable ==
  ASSUME KillOK, TypeInv, killed # "no" => killed' # "no",
         state' \in [Threads -> {"run", "exiting", "gone"}],
         \A t \in Threads : state'[t] = "run" => state[t] = "run",
         state'[Leader] = "gone" => \A t \in Threads : state'[t] = "gone",
         \A t \in Threads : state[t] # "gone" /\ state'[t] = "gone" /\ pc = "kill" /\ iter = t => vanished',
         vanished /\ pc' \in {"kill"} \cup After => vanished',
         \/ UNCHANGED <<pc, iter>>
         \/ pc' \notin {"kill"} \cup After
         \/ pc \in After /\ pc' \in After
  PROVE  KillOK'
<1>1. Alone => Alone'
  BY DEF Alone, Running, Others
<1>2. OthersKilled'
  BY <1>1 DEF KillOK, OthersKilled, After
<1>3. ASSUME pc' = "kill"
      PROVE  /\ iter' # NULL /\ ~vanished' => state'[iter'] # "gone"
             /\ ~vanished' /\ killed' = "no" =>
                  \A t \in Others : state'[t] = "run" => iter' # NULL /\ IndexOf(iter') <= IndexOf(t)
  <2>1. pc = "kill" /\ iter' = iter /\ (vanished => vanished')
    BY <1>3 DEF After
  <2>2. iter # NULL => iter \in Threads
    BY DEF TypeInv, TypeOK
  <2>3. QED
    BY <2>1, <2>2 DEF KillOK, Others, Running
<1>4. QED
  BY <1>2, <1>3 DEF KillOK, Running, IndexOf

LEMMA InitKill == Init => KillOK
<1>1. SUFFICES ASSUME Init PROVE KillOK
  OBVIOUS
<1>2. PICK r \in Processes :
        state = [t \in Threads |-> IF t \in r.threads THEN "run"
                                   ELSE IF t = Leader THEN "exiting" ELSE "gone"]
  BY <1>1 DEF Init
<1>3. state[Leader] # "gone"
  BY <1>2, IndexFacts
<1>4. QED
  BY <1>1, <1>3 DEF Init, KillOK, OthersKilled

LEMMA TskRuns ==
  ASSUME TypeInv, pc # "user"
  PROVE  state[Tsk] = "run" /\ ss.data
BY DEF TypeInv, PlaceOK, Running

\* The thread the walk goes on to is the next one that may run.
LEMMA WalkKill ==
  ASSUME TypeInv, KillOK, recover_threads_snapshot
  PROVE  KillOK'
<1>1. /\ pc = "kill" /\ pc' = "kill" /\ iter \in Threads /\ iter' = next_tid(iter)
      /\ killed' = IF iter # Tsk /\ Running(iter) /\ killed = "no" THEN "restore" ELSE killed
      /\ state' = state /\ vanished' = vanished
  BY DEF recover_threads_snapshot, TypeInv, TypeOK, historyVars
<1>2. ASSUME ~vanished
      PROVE  /\ iter' # NULL => state[iter'] # "gone"
             /\ killed' = "no" => \A t \in Others : Running(t) => iter' # NULL /\ IndexOf(iter') <= IndexOf(t)
  <2>1. state[iter] # "gone" /\ iter # NULL
    BY <1>1, <1>2, NullFacts DEF KillOK
  <2>2. iter' = next_thread(iter)
    BY <1>1, <2>1 DEF next_tid
  <2>3. iter' # NULL => state[iter'] # "gone"
    BY <1>1, <2>2, NextThread
  <2>4. ASSUME killed' = "no", NEW t \in Others, Running(t)
        PROVE  iter' # NULL /\ IndexOf(iter') <= IndexOf(t)
    <3>1. killed = "no" /\ ~(iter # Tsk /\ Running(iter))
      BY <1>1, <2>4
    <3>2. t \in Threads /\ t # Tsk /\ IndexOf(iter) <= IndexOf(t)
      BY <1>1, <1>2, <2>4, <3>1 DEF KillOK, Others
    <3>3. t # iter
      BY <3>1, <3>2, <2>4
    <3>4. IndexOf(iter) \in Nat /\ IndexOf(t) \in Nat /\ IndexOf(iter) < IndexOf(t)
      BY <3>2, <3>3, <1>1, IndexFacts
    <3>5. state[t] # "gone"
      BY <2>4 DEF Running
    <3>6. iter' # NULL
      BY <3>2, <3>4, <3>5, <2>2, <1>1, NextThread
    <3>7. iter' \in Threads /\ IndexOf(iter') \in Nat
      <4>1. iter' \in Threads
        BY <3>6, <2>2, <1>1, NextThread
      <4>2. QED
        BY <4>1, IndexFacts
    <3>8. ~(IndexOf(t) < IndexOf(iter'))
      BY <3>2, <3>4, <3>5, <3>6, <2>2, <1>1, NextThread
    <3>9. QED
      BY <3>4, <3>6, <3>7, <3>8
  <2>5. QED
    BY <2>3, <2>4
<1>3. QED
  BY <1>1, <1>2 DEF KillOK, OthersKilled, Running, IndexOf

LEMMA EnterKill ==
  ASSUME TypeInv, KillOK, restore_snapshot
  PROVE  KillOK'
<1>1. /\ pc' = "kill" /\ iter' = Leader /\ state' = state /\ state[Tsk] = "run" /\ Leader # NULL
  BY IndexFacts, NullFacts DEF restore_snapshot, processVars, Calls, Running
<1>2. state[Leader] # "gone"
  BY <1>1, IndexFacts DEF KillOK
<1>3. \A t \in Threads : IndexOf(Leader) <= IndexOf(t)
  BY IndexFacts
<1>4. QED
  BY <1>1, <1>2, <1>3 DEF KillOK, OthersKilled, Others, Running, IndexOf

LEMMA LeaveKill ==
  ASSUME TypeInv, KillOK, recover_files_snapshot
  PROVE  KillOK'
<1>1. /\ pc = "kill" /\ iter = NULL /\ pc' \in {"restored", "failed", "seek"}
      /\ state' = state /\ killed' = killed /\ vanished' = vanished
  BY DEF recover_files_snapshot, Fail, historyVars
<1>2. ~vanished => killed # "no" \/ Alone
  BY <1>1 DEF KillOK, Alone
<1>3. Alone' = Alone
  BY <1>1 DEF Alone, Running
<1>4. OthersKilled'
  BY <1>1, <1>2, <1>3 DEF OthersKilled
<1>5. QED
  BY <1>1, <1>4 DEF KillOK

LEMMA ReleaseKill ==
  ASSUME TypeInv, KillOK, NEW t \in Threads, release_task(t)
  PROVE  KillOK'
<1>1. /\ state[t] = "exiting" /\ state' = [state EXCEPT ![t] = "gone"]
      /\ t = Leader => \A u \in Threads \ {t} : state[u] = "gone"
      /\ vanished' = (vanished \/ (pc = "kill" /\ iter = t))
      /\ UNCHANGED <<pc, iter, killed>>
  BY DEF release_task, localVars
<1>2. state \in [Threads -> {"run", "exiting", "gone"}]
  BY TypeFacts
<1>3. state' \in [Threads -> {"run", "exiting", "gone"}] /\ \A u \in Threads : state'[u] = IF u = t THEN "gone" ELSE state[u]
  BY <1>1, <1>2
<1>4. state'[Leader] = "gone" => \A u \in Threads : state'[u] = "gone"
  BY <1>1, <1>3, IndexFacts DEF KillOK
<1>5. \A u \in Threads : state[u] # "gone" /\ state'[u] = "gone" /\ pc = "kill" /\ iter = u => vanished'
  BY <1>1, <1>3
<1>6. QED
  BY <1>1, <1>3, <1>4, <1>5, KillStable

\* A thread that begins to exit.
LEMMA ExitKill ==
  ASSUME TypeInv, KillOK, NEW t \in Threads, state[t] = "run", state' = [state EXCEPT ![t] = "exiting"],
         UNCHANGED <<pc, iter, vanished>>, killed # "no" => killed' # "no"
  PROVE  KillOK'
<1>1. state \in [Threads -> {"run", "exiting", "gone"}]
  BY TypeFacts
<1>2. state' \in [Threads -> {"run", "exiting", "gone"}] /\ \A u \in Threads : state'[u] = IF u = t THEN "exiting" ELSE state[u]
  BY <1>1
<1>3. state'[Leader] = "gone" => \A u \in Threads : state'[u] = "gone"
  BY <1>2, IndexFacts DEF KillOK
<1>4. QED
  BY <1>2, <1>3, KillStable

\* A thread is created behind its creator, which the walk has not passed.
LEMMA CloneKill ==
  ASSUME TypeInv, KillOK, NEW t \in Threads, NEW new \in Others, Clone(t, new)
  PROVE  KillOK'
<1>1. /\ state[t] = "run" /\ killed = "no" /\ (t = Tsk => pc = "user") /\ new \in Threads /\ new # Tsk
      /\ state' = [state EXCEPT ![new] = "run"] /\ UNCHANGED <<pc, iter, killed, vanished>>
  BY DEF Clone, Calls, Running, Others, localVars, historyVars
<1>2. \A u \in Threads : state'[u] = IF u = new THEN "run" ELSE state[u]
  BY <1>1, TypeFacts
<1>3. IndexOf(t) < IndexOf(new) /\ IndexOf(t) \in Nat /\ IndexOf(new) \in Nat
  <2>1. ~(IndexOf(new) <= IndexOf(t))
    BY <1>1 DEF Clone
  <2>2. QED
    BY <2>1, <1>1, IndexFacts
<1>4. state[Leader] # "gone" /\ state'[Leader] # "gone"
  BY <1>1, <1>2, IndexFacts DEF KillOK
<1>5. OthersKilled'
  <2>1. SUFFICES ASSUME pc \in After, ~vanished PROVE FALSE
    BY <1>1 DEF OthersKilled, After
  <2>2. Alone
    BY <2>1, <1>1 DEF KillOK, OthersKilled, After
  <2>3. t \in Others
    BY <2>1, <1>1 DEF After, Others
  <2>4. QED
    BY <2>2, <2>3, <1>1 DEF Alone, Running
<1>6. ASSUME pc = "kill", ~vanished
      PROVE  /\ iter # NULL => state'[iter] # "gone"
             /\ \A u \in Others : state'[u] = "run" => iter # NULL /\ IndexOf(iter) <= IndexOf(u)
  <2>1. iter # NULL => iter \in Threads
    BY DEF TypeInv, TypeOK
  <2>2. \A u \in Others : state[u] = "run" => iter # NULL /\ IndexOf(iter) <= IndexOf(u)
    BY <1>1, <1>6 DEF KillOK, Running
  <2>3. iter # NULL /\ IndexOf(iter) <= IndexOf(t)
    BY <2>2, <1>1, <1>6 DEF Others
  <2>4. IndexOf(iter) <= IndexOf(new)
    BY <2>1, <2>3, <1>3, IndexFacts
  <2>5. \A u \in Others : state'[u] = "run" => iter # NULL /\ IndexOf(iter) <= IndexOf(u)
    BY <2>2, <2>3, <2>4, <1>2 DEF Others
  <2>6. state'[iter] # "gone"
    BY <2>1, <2>3, <1>2, <1>6 DEF KillOK
  <2>7. QED
    BY <2>5, <2>6
<1>7. QED
  BY <1>1, <1>4, <1>5, <1>6 DEF KillOK, Running, IndexOf

LEMMA KillPreserved == TypeInv /\ KillOK /\ [Next]_vars => KillOK'
<1>1. SUFFICES ASSUME TypeInv, KillOK, [Next]_vars PROVE KillOK'
  OBVIOUS
<1>s. /\ state \in [Threads -> {"run", "exiting", "gone"}]
      /\ state[Leader] = "gone" => \A t \in Threads : state[t] = "gone"
  BY <1>1, TypeFacts DEF KillOK
<1>2. ASSUME UNCHANGED <<state, vanished>>, killed # "no" => killed' # "no",
             \/ UNCHANGED <<pc, iter>>
             \/ pc' \notin {"kill"} \cup After
             \/ pc \in After /\ pc' \in After
      PROVE  KillOK'
  BY <1>1, <1>2, <1>s, KillStable
<1>3. ASSUME NEW t \in Threads, Program(t) PROVE KillOK'
  BY <1>2, <1>3 DEF Program, Open, Close, Seek, Unshare, CallLeaves, localVars
<1>4. ASSUME NEW t \in Threads, exit_files(t) PROVE KillOK'
  BY <1>1, <1>4, ExitKill DEF exit_files, localVars, Running
<1>5. ASSUME process_exit PROVE KillOK'
  <2>1. killed # "no" => killed' # "no"
    BY <1>5 DEF process_exit
  <2>2. QED
    BY <1>1, <1>5, <2>1, ExitKill, IndexFacts DEF process_exit, localVars, Running
<1>6. ASSUME NEW fds \in BOOLEAN, take_snapshot(fds) PROVE KillOK'
  BY <1>2, <1>6 DEF take_snapshot, processVars, After
<1>7. ASSUME clean_files_snapshot \/ Kill \/ exclude_vmrange PROVE KillOK'
  BY <1>2, <1>7 DEF clean_files_snapshot, Kill, exclude_vmrange, processVars, localVars, historyVars
<1>8. ASSUME take_dup \/ save_file_offset \/ take_done PROVE KillOK'
  BY <1>2, <1>8 DEF take_dup, save_file_offset, take_done, processVars, historyVars, After
<1>9. ASSUME restore_file_offset \/ seek_fails \/ seeks_done PROVE KillOK'
  BY <1>2, <1>9 DEF restore_file_offset, seek_fails, seeks_done, Fail, processVars, historyVars, After
<1>10. ASSUME loop_test \/ loop_read \/ loop_assign PROVE KillOK'
  <2>1. UNCHANGED <<state, vanished, killed>> /\ pc \in After /\ pc' \in After
    BY <1>10 DEF loop_test, loop_read, loop_assign, NextTask, processVars, historyVars, After
  <2>2. QED
    BY <2>1, <1>2
<1>11. ASSUME loop_put PROVE KillOK'
  <2>1. UNCHANGED <<state, vanished, killed>> /\ ((pc \in After /\ pc' \in After) \/ pc' = "oops")
    BY <1>11 DEF loop_put, NextTask, historyVars, After
  <2>2. QED
    BY <2>1, <1>2 DEF After
<1>12. ASSUME Return PROVE KillOK'
  <2>1. UNCHANGED <<state, killed>> /\ pc' = "user"
    BY <1>12 DEF Return, processVars
  <2>2. QED
    BY <2>1, <1>1, <1>s, KillStable DEF After
<1>13. ASSUME UNCHANGED vars PROVE KillOK'
  BY <1>2, <1>13 DEF vars, processVars, localVars, historyVars
<1>14. QED
  BY <1>1, <1>3, <1>4, <1>5, <1>6, <1>7, <1>8, <1>9, <1>10, <1>11, <1>12, <1>13,
     WalkKill, EnterKill, LeaveKill, ReleaseKill, CloneKill
     DEF Next, Module, Exit

\* After the walk over the threads none goes on, however many there are and
\* whenever they exit, unless the walk lost its thread (threads.c:40-52).
THEOREM NobodyGoesOn == Spec => []OthersKilled
<1>1. Spec => []KillOK
  BY InitKill, KillPreserved, FilesTypeInv, PTL DEF Spec
<1>2. KillOK => OthersKilled
  BY DEF KillOK
<1>3. QED
  BY <1>1, <1>2, PTL

-----------------------------------------------------------------------------
(* Who has a table. *)

LEMMA EndedPreserved == TypeInv /\ EndedOK /\ [Next]_vars => EndedOK'
<1>1. SUFFICES ASSUME TypeInv, EndedOK, [Next]_vars, ~raced' PROVE EndedOK'
  BY DEF EndedOK
<1>2. /\ files \in [Threads -> Tables \cup {NULL}] /\ state \in [Threads -> {"run", "exiting", "gone"}]
      /\ pc \in Loop => iter \in Threads /\ current_old_files # NULL
      /\ Tsk \in Threads
  BY <1>1, TypeFacts, IndexFacts DEF TypeInv, TypeOK, PlaceOK
<1>3. ASSUME ~raced, UNCHANGED <<state, files>>,
             UNCHANGED <<pc, iter>> \/ pc' \notin {"read", "assign"}
      PROVE  EndedOK'
  BY <1>1, <1>3 DEF EndedOK, Running
<1>4. ASSUME NEW t \in Threads, Program(t) PROVE EndedOK'
  <2>1. CASE Unshare(t)
    <3>1. /\ ~raced /\ Running(t) /\ files' = [files EXCEPT ![t] = NewTable]
          /\ UNCHANGED <<state, pc, iter>>
      BY <1>1, <2>1 DEF Unshare, Calls, CallLeaves, localVars
    <3>2. QED
      BY <3>1, <1>1, <1>2 DEF EndedOK, Running
  <2>2. ASSUME NEW f \in Files, Open(t, f) PROVE EndedOK'
    BY <1>1, <1>3, <2>2 DEF Open, CallLeaves, localVars
  <2>3. ASSUME NEW fd \in Fds, Close(t, fd) PROVE EndedOK'
    BY <1>1, <1>3, <2>3 DEF Close, CallLeaves, localVars
  <2>4. ASSUME NEW fd \in Fds, NEW o \in 0 .. MaxPos, Seek(t, fd, o) PROVE EndedOK'
    BY <1>1, <1>3, <2>4 DEF Seek, CallLeaves, localVars
  <2>5. QED
    BY <1>4, <2>1, <2>2, <2>3, <2>4 DEF Program
<1>5. ASSUME NEW t \in Threads, NEW new \in Others, Clone(t, new) PROVE EndedOK'
  <2>1. /\ ~raced /\ state' = [state EXCEPT ![new] = "run"] /\ files' = [files EXCEPT ![new] = files[t]]
        /\ UNCHANGED <<pc, iter>> /\ new \in Threads
    BY <1>1, <1>5 DEF Clone, Others, localVars, historyVars
  <2>2. QED
    BY <2>1, <1>1, <1>2 DEF EndedOK, Running, Loop
<1>6. ASSUME NEW t \in Threads, exit_files(t) PROVE EndedOK'
  <2>1. /\ ~raced /\ ~LoopAt(t) /\ state' = [state EXCEPT ![t] = "exiting"]
        /\ files' = [files EXCEPT ![t] = NULL] /\ UNCHANGED <<pc, iter>>
    BY <1>1, <1>6 DEF exit_files, localVars
  <2>2. QED
    BY <2>1, <1>1, <1>2 DEF EndedOK, Running, LoopAt, Loop
<1>7. ASSUME NEW t \in Threads, release_task(t) PROVE EndedOK'
  <2>1. /\ ~raced /\ state[t] = "exiting" /\ state' = [state EXCEPT ![t] = "gone"]
        /\ UNCHANGED <<files, pc, iter>>
    BY <1>1, <1>7 DEF release_task, localVars
  <2>2. QED
    BY <2>1, <1>1, <1>2 DEF EndedOK, Running, Loop
<1>8. ASSUME process_exit PROVE EndedOK'
  <2>1. /\ ~raced /\ pc' = "user" /\ state' = [state EXCEPT ![Tsk] = "exiting"]
        /\ files' = [files EXCEPT ![Tsk] = NULL]
    BY <1>1, <1>8 DEF process_exit, localVars
  <2>2. QED
    BY <2>1, <1>1, <1>2 DEF EndedOK, Running
<1>9. ASSUME loop_test PROVE EndedOK'
  <2>1. /\ ~raced /\ pc = "test" /\ UNCHANGED <<state, files>>
        /\ pc' \in {"read", "assign"} => iter' = iter /\ files[iter] = current_old_files
    BY <1>1, <1>9 DEF loop_test, NextTask, historyVars
  <2>2. QED
    BY <2>1, <1>1, <1>2 DEF EndedOK, Running, Loop
<1>10. ASSUME loop_read PROVE EndedOK'
  BY <1>1, <1>10 DEF loop_read, EndedOK, Running, processVars, historyVars
<1>11. ASSUME loop_assign PROVE EndedOK'
  <2>1. /\ ~raced /\ pc = "assign" /\ pc' = "put" /\ state' = state
        /\ files' = [files EXCEPT ![iter] = new_files]
    BY <1>1, <1>11 DEF loop_assign, historyVars
  <2>2. QED
    BY <2>1, <1>1, <1>2 DEF EndedOK, Running, Loop
<1>12. ASSUME \/ exclude_vmrange \/ restore_snapshot \/ clean_files_snapshot \/ Kill
              \/ UNCHANGED vars
       PROVE  EndedOK'
  <2>1. /\ ~raced /\ UNCHANGED <<state, files>>
        /\ UNCHANGED <<pc, iter>> \/ pc' \notin {"read", "assign"}
    BY <1>1, <1>12 DEF exclude_vmrange, restore_snapshot, clean_files_snapshot, Kill, vars,
                       processVars, localVars, historyVars
  <2>2. QED
    BY <2>1, <1>3
<1>13. ASSUME NEW fds \in BOOLEAN, take_snapshot(fds) PROVE EndedOK'
  BY <1>1, <1>3, <1>13 DEF take_snapshot, processVars
<1>14. ASSUME \/ take_dup \/ save_file_offset \/ take_done \/ recover_threads_snapshot
              \/ recover_files_snapshot
       PROVE  EndedOK'
  <2>1. ~raced /\ UNCHANGED <<state, files>> /\ pc' \notin {"read", "assign"}
    BY <1>1, <1>14 DEF take_dup, save_file_offset, take_done, recover_threads_snapshot,
                       recover_files_snapshot, Fail, processVars, historyVars
  <2>2. QED
    BY <2>1, <1>3
<1>15. ASSUME restore_file_offset \/ seek_fails \/ seeks_done \/ loop_put \/ Return PROVE EndedOK'
  <2>1. ~raced /\ UNCHANGED <<state, files>> /\ pc' \notin {"read", "assign"}
    BY <1>1, <1>15 DEF restore_file_offset, seek_fails, seeks_done, loop_put, Return, Fail,
                       NextTask, processVars, historyVars
  <2>2. QED
    BY <2>1, <1>3
<1>16. QED
  BY <1>1, <1>4, <1>5, <1>6, <1>7, <1>8, <1>9, <1>10, <1>11, <1>12, <1>13, <1>14, <1>15
     DEF Next, Module, Exit

\* A thread that has ended has no table (files.c:140-155).
LEMMA EndedHolds == Spec => []EndedOK
<1>1. Init => EndedOK
  <2>1. SUFFICES ASSUME Init PROVE EndedOK
    OBVIOUS
  <2> DEFINE first == CHOOSE x \in Tables : TRUE
  <2>2. PICK r \in Processes :
          /\ state = [t \in Threads |-> IF t \in r.threads THEN "run"
                                        ELSE IF t = Leader THEN "exiting" ELSE "gone"]
          /\ files = [t \in Threads |-> IF t \in r.threads THEN first ELSE NULL]
    BY <2>1 DEF Init
  <2> HIDE DEF first
  <2>3. \A t \in Threads : files[t] # NULL => state[t] = "run"
    BY <2>2
  <2>4. pc = "user"
    BY <2>1 DEF Init
  <2>5. QED
    BY <2>3, <2>4 DEF EndedOK, Running
<1>2. QED
  BY <1>1, EndedPreserved, FilesTypeInv, PTL DEF Spec

-----------------------------------------------------------------------------
(* Who refers to a table. *)

Held(tb) == Cardinality({t \in Threads : files[t] = tb})
Locals(tb) ==
  B(ss.files = tb) + B(old_files = tb /\ pc = "put")
    + B(new_files = tb /\ pc \in Busy /\ files[Tsk] # new_files)
    + B(new_files = tb /\ pc \in {"read", "assign"} /\ iter # Tsk)

LEMMA HeldFacts ==
  ASSUME NEW tb
  PROVE  /\ Held(tb) \in Nat
         /\ Held(tb) = 0 <=> \A t \in Threads : files[t] # tb
         /\ \A t, u \in Threads : t # u /\ files[t] = tb /\ files[u] = tb => Held(tb) >= 2
<1> DEFINE H == {t \in Threads : files[t] = tb}
<1>1. IsFiniteSet(H) /\ Cardinality(H) \in Nat /\ (Cardinality(H) = 0 <=> H = {})
  BY ThreadsFinite, FS_Subset, FS_CardinalityType, FS_EmptySet
<1>2. ASSUME NEW t \in Threads, NEW u \in Threads, t # u, files[t] = tb, files[u] = tb
      PROVE  Cardinality(H) >= 2
  <2>1. IsFiniteSet(H \ {t}) /\ Cardinality(H \ {t}) = Cardinality(H) - 1
    BY <1>1, <1>2, FS_RemoveElement
  <2>2. u \in H \ {t}
    BY <1>2
  <2> HIDE DEF H
  <2>3. Cardinality(H \ {t}) \in Nat /\ Cardinality(H \ {t}) # 0
    BY <2>1, <2>2, FS_CardinalityType, FS_EmptySet
  <2>4. QED
    BY <2>1, <2>3, <1>1
<1>3. QED
  BY <1>1, <1>2 DEF Held

\* One thread gets another table, or none.
LEMMA HeldChange ==
  ASSUME files \in [Threads -> Tables \cup {NULL}], NEW t \in Threads, NEW x,
         files' = [files EXCEPT ![t] = x], NEW tb
  PROVE  Held(tb)' = Held(tb) - (IF tb = files[t] THEN 1 ELSE 0) + (IF tb = x THEN 1 ELSE 0)
<1> DEFINE H == {u \in Threads : files[u] = tb}
           G == {u \in Threads : files'[u] = tb}
<1>1. Held(tb) = Cardinality(H) /\ Held(tb)' = Cardinality(G)
  BY DEF Held
<1>2. IsFiniteSet(H) /\ Cardinality(H) \in Nat
  BY ThreadsFinite, FS_Subset, FS_CardinalityType
<1>3. /\ IsFiniteSet(H \ {t})
      /\ Cardinality(H \ {t}) = IF t \in H THEN Cardinality(H) - 1 ELSE Cardinality(H)
  BY <1>2, FS_RemoveElement
<1>4. t \in H <=> tb = files[t]
  OBVIOUS
<1>5. G = IF tb = x THEN (H \ {t}) \cup {t} ELSE H \ {t}
  OBVIOUS
<1>6. Cardinality((H \ {t}) \cup {t}) = Cardinality(H \ {t}) + 1
  <2>1. t \notin H \ {t}
    OBVIOUS
  <2> HIDE DEF H
  <2>2. QED
    BY <2>1, <1>3, FS_AddElement
<1>7. Cardinality(H \ {t}) \in Nat
  BY <1>3, FS_CardinalityType
<1> HIDE DEF H, G
<1>8. QED
  BY <1>1, <1>2, <1>3, <1>4, <1>5, <1>6, <1>7

LEMMA RefsSum ==
  ASSUME NEW tb
  PROVE  References(tb) = Held(tb) + Locals(tb) /\ Held(tb) \in Nat /\ Locals(tb) \in Nat
<1>1. Held(tb) \in Nat
  BY HeldFacts
<1>2. QED
  BY <1>1 DEF References, Held, Locals, B, Busy, Loop

\* A reference is counted, and a free table has none.
LEMMA Referred ==
  ASSUME TypeInv, RefsOK, ~raced, NEW tb \in Tables
  PROVE  /\ table[tb].count = Held(tb) + Locals(tb) /\ table[tb].count \in Nat
         /\ Held(tb) \in Nat /\ Locals(tb) \in Nat
         /\ (\E t \in Threads : files[t] = tb) => Held(tb) >= 1
         /\ pc # "oops" /\ LoopOK /\ OwnOK
         /\ Free(tb) => /\ \A t \in Threads : files[t] # tb
                        /\ ss.files # tb
                        /\ pc \in Busy => new_files # tb
<1>1. table[tb].count = Held(tb) + Locals(tb) /\ Held(tb) \in Nat /\ Locals(tb) \in Nat
  BY RefsSum DEF RefsOK, CountsExact
<1>2. (\E t \in Threads : files[t] = tb) => Held(tb) >= 1
  BY HeldFacts
<1>3. Free(tb) => Held(tb) = 0 /\ Locals(tb) = 0
  BY <1>1 DEF Free
<1>4. Locals(tb) = 0 => ss.files # tb /\ (pc \in Busy /\ files[Tsk] # new_files => new_files # tb)
  BY DEF Locals, B
<1>5. Free(tb) => \A t \in Threads : files[t] # tb
  BY <1>3, HeldFacts
<1>6. QED
  BY <1>1, <1>2, <1>3, <1>4, <1>5, IndexFacts DEF RefsOK, CountsExact

\* A put of a table that is counted.
LEMMA PutCounts ==
  ASSUME NEW tbl \in TableType, NEW tb \in Tables, tbl[tb].count >= 1, NEW x \in Tables
  PROVE  Put(tbl, tb)[x].count = tbl[x].count - B(x = tb) /\ tbl[x].count \in Nat
<1>1. tbl[x].count \in Nat /\ tbl[tb].count \in Nat
  BY IndexFacts DEF TableType
<1>2. /\ x # tb => Put(tbl, tb)[x] = tbl[x]
      /\ Put(tbl, tb)[tb].count = tbl[tb].count - 1
  BY <1>1, PutFacts
<1>3. CASE x = tb
  BY <1>1, <1>2, <1>3 DEF B
<1>4. CASE x # tb
  BY <1>1, <1>2, <1>4 DEF B
<1>5. QED
  BY <1>3, <1>4

LEMMA RefsSumAll == \A tb : References(tb) = Held(tb) + Locals(tb)
BY RefsSum

\* What a step has to show.
LEMMA RefsStep ==
  ASSUME pc' # "oops", LoopOK', OwnOK',
         \A tb \in Tables : table'[tb].count = Held(tb)' + Locals(tb)'
  PROVE  RefsOK'
<1>1. (\A tb : References(tb) = Held(tb) + Locals(tb))'
  BY RefsSumAll, PTL
<1>2. QED
  BY <1>1 DEF RefsOK, CountsExact

LEMMA HeldSame ==
  ASSUME files' = files, NEW tb
  PROVE  Held(tb)' = Held(tb)
BY DEF Held

\* Steps that change neither a count nor a reference.
LEMMA RefsSame ==
  ASSUME TypeInv, RefsOK, ~raced, files' = files, pc' # "oops", LoopOK', OwnOK',
         \A tb \in Tables : table'[tb].count = table[tb].count,
         \A tb \in Tables : Locals(tb)' = Locals(tb)
  PROVE  RefsOK'
<1>1. \A tb \in Tables : table'[tb].count = Held(tb)' + Locals(tb)'
  BY Referred, HeldSame
<1>2. QED
  BY <1>1, RefsStep

\* Steps in which Tsk does nothing and no thread's table changes.
LEMMA RefsStable ==
  ASSUME TypeInv, RefsOK, ~raced, UNCHANGED <<files, pc, ss, iter, new_files, old_files, current_old_files>>,
         \A tb \in Tables : table'[tb].count = table[tb].count
  PROVE  RefsOK'
<1>1. \A tb \in Tables : Locals(tb)' = Locals(tb)
  BY DEF Locals
<1>2. LoopOK' /\ OwnOK' /\ pc' # "oops"
  BY DEF RefsOK, CountsExact, LoopOK, OwnOK, Swapped, IndexOf
<1>3. QED
  BY <1>1, <1>2, RefsSame

-----------------------------------------------------------------------------
(* The references, step by step. *)

LEMMA InitRefs == Init => RefsOK
<1>1. SUFFICES ASSUME Init PROVE RefsOK
  OBVIOUS
<1> DEFINE first == CHOOSE x \in Tables : TRUE
<1>2. PICK r \in Processes :
        /\ files = [t \in Threads |-> IF t \in r.threads THEN first ELSE NULL]
        /\ table = [x \in Tables |-> [count |-> IF x = first THEN Cardinality(r.threads) ELSE 0,
                                      fd |-> NoFds]]
  BY <1>1 DEF Init
<1> HIDE DEF first
<1>3. r.threads \subseteq Threads
  BY FilesAssumption
<1>4. ASSUME NEW tb \in Tables PROVE table[tb].count = References(tb)
  <2>1. References(tb) = Held(tb) + Locals(tb) /\ Held(tb) \in Nat
    BY RefsSum
  <2>2. Locals(tb) = 0
    BY <1>1, NullFacts DEF Init, NoSnapshot, Locals, B, Busy, Loop
  <2>3. CASE tb = first
    <3>1. {t \in Threads : files[t] = tb} = r.threads
      BY <1>2, <1>3, <2>3, NullFacts
    <3>2. Held(tb) = Cardinality(r.threads)
      BY <3>1 DEF Held
    <3>3. table[tb].count = Cardinality(r.threads)
      BY <1>2, <2>3
    <3>4. QED
      BY <2>1, <2>2, <3>2, <3>3
  <2>4. CASE tb # first
    <3>1. Held(tb) = 0
      BY <1>2, <2>4, NullFacts, HeldFacts
    <3>2. table[tb].count = 0
      BY <1>2, <2>4
    <3>3. QED
      BY <2>1, <2>2, <3>1, <3>2
  <2>5. QED
    BY <2>3, <2>4
<1>5. LoopOK /\ OwnOK /\ pc # "oops"
  BY <1>1 DEF Init, LoopOK, OwnOK, Loop, NoSnapshot
<1>6. QED
  BY <1>4, <1>5 DEF RefsOK, CountsExact

LEMMA ExitFilesRefs ==
  ASSUME TypeInv, RefsOK, NEW t \in Threads, exit_files(t), ~raced'
  PROVE  RefsOK'
<1>1. /\ ~raced /\ ~LoopAt(t) /\ t # Tsk /\ files[t] \in Tables
      /\ files' = [files EXCEPT ![t] = NULL] /\ table' = Put(table, files[t])
      /\ UNCHANGED <<pc, ss, iter, new_files, old_files, current_old_files>>
  BY RunningFiles DEF exit_files, localVars
<1>2. files \in [Threads -> Tables \cup {NULL}] /\ table \in TableType
  BY TypeFacts
<1>3. \A u \in Threads : files'[u] = IF u = t THEN NULL ELSE files[u]
  BY <1>1, <1>2
<1>4. ASSUME NEW tb \in Tables PROVE table'[tb].count = Held(tb)' + Locals(tb)'
  <2>1. table[files[t]].count >= 1
    BY <1>1, Referred
  <2>2. table'[tb].count = table[tb].count - B(tb = files[t])
    BY <2>1, <1>1, <1>2, PutCounts
  <2>3. Held(tb)' = Held(tb) - B(tb = files[t]) + B(tb = NULL)
    <3>1. PICK x : x = NULL
      OBVIOUS
    <3>2. files' = [files EXCEPT ![t] = x]
      BY <3>1, <1>1
    <3>3. Held(tb)' = Held(tb) - (IF tb = files[t] THEN 1 ELSE 0) + (IF tb = x THEN 1 ELSE 0)
      BY <3>2, <1>2, HeldChange
    <3>4. QED
      BY <3>1, <3>3 DEF B
  <2>4. B(tb = NULL) = 0 /\ B(tb = files[t]) \in Int
    BY NullFacts DEF B
  <2>5. files'[Tsk] = files[Tsk]
    BY <1>1, <1>3, IndexFacts
  <2>6. Locals(tb)' = Locals(tb)
    BY <2>5, <1>1 DEF Locals
  <2>7. table[tb].count = Held(tb) + Locals(tb) /\ Held(tb) \in Nat /\ Locals(tb) \in Nat
    BY <1>1, Referred
  <2>8. QED
    BY <2>2, <2>3, <2>4, <2>6, <2>7
<1>5. pc' # "oops" /\ LoopOK /\ OwnOK
  BY <1>1 DEF RefsOK, CountsExact
<1>6. LoopOK'
  <2>1. pc \in Busy => new_files # NULL
    BY DEF TypeInv, PlaceOK
  <2>2. pc \in {"read", "assign"} => iter # t /\ iter \in Threads
    BY <1>1 DEF LoopAt, TypeInv, TypeOK, PlaceOK, Loop
  <2>3. QED
    BY <1>1, <1>3, <1>5, <2>1, <2>2, IndexFacts DEF LoopOK, Swapped, IndexOf, Busy, Loop
<1>7. OwnOK'
  BY <1>1, <1>3, <1>5 DEF OwnOK
<1>8. QED
  BY <1>4, <1>5, <1>6, <1>7, RefsStep

\* A thread more, and a reference more.
LEMMA CloneRefs ==
  ASSUME TypeInv, EndedOK, RefsOK, NEW t \in Threads, NEW new \in Others, Clone(t, new), ~raced'
  PROVE  RefsOK'
<1>1. /\ ~raced /\ new \in Threads /\ new # Tsk /\ new # iter /\ files[t] \in Tables
      /\ files' = [files EXCEPT ![new] = files[t]]
      /\ table' = [table EXCEPT ![files[t]].count = @ + 1]
      /\ UNCHANGED <<pc, ss, iter, new_files, old_files, current_old_files>>
  BY RunningFiles DEF Clone, Calls, Others, localVars, historyVars
<1>2. files \in [Threads -> Tables \cup {NULL}] /\ table \in TableType
  BY TypeFacts
<1>3. \A u \in Threads : files'[u] = IF u = new THEN files[t] ELSE files[u]
  BY <1>1, <1>2
<1>4. files[new] = NULL
  <2>1. state[new] = "gone"
    BY <1>1, IndexFacts DEF Clone
  <2>2. QED
    BY <2>1, <1>1 DEF EndedOK, Running
<1>5. ASSUME NEW tb \in Tables PROVE table'[tb].count = Held(tb)' + Locals(tb)'
  <2>1. table[tb].count = Held(tb) + Locals(tb) /\ Held(tb) \in Nat /\ Locals(tb) \in Nat
    BY <1>1, Referred
  <2>2. table'[tb].count = table[tb].count + B(tb = files[t])
    <3>1. table'[tb].count = IF tb = files[t] THEN table[tb].count + 1 ELSE table[tb].count
      BY <1>1, <1>2 DEF TableType
    <3>2. QED
      BY <3>1, <2>1 DEF B
  <2>3. Held(tb)' = Held(tb) + B(tb = files[t])
    <3>1. PICK x : x = files[t]
      OBVIOUS
    <3>2. files' = [files EXCEPT ![new] = x]
      BY <3>1, <1>1
    <3>3. new \in Threads
      BY <1>1
    <3>4. Held(tb)' = Held(tb) - (IF tb = files[new] THEN 1 ELSE 0) + (IF tb = x THEN 1 ELSE 0)
      BY <3>2, <3>3, <1>2, HeldChange
    <3>5. tb # files[new]
      BY <1>4, NullFacts
    <3>6. QED
      BY <2>1, <3>1, <3>4, <3>5 DEF B
  <2>4. files'[Tsk] = files[Tsk]
    BY <1>1, <1>3, IndexFacts
  <2>5. Locals(tb)' = Locals(tb)
    BY <2>4, <1>1 DEF Locals
  <2>6. B(tb = files[t]) \in Int
    BY DEF B
  <2>7. QED
    BY <2>1, <2>2, <2>3, <2>5, <2>6
<1>6. pc' # "oops" /\ LoopOK /\ OwnOK
  BY <1>1 DEF RefsOK, CountsExact
<1>7. LoopOK'
  <2>1. pc \in {"read", "assign"} => iter \in Threads
    BY DEF TypeInv, TypeOK, PlaceOK, Loop
  <2>2. QED
    BY <1>1, <1>3, <1>6, <2>1, IndexFacts DEF LoopOK, Swapped, IndexOf, Busy, Loop
<1>8. OwnOK'
  BY <1>1, <1>3, <1>6 DEF OwnOK
<1>9. QED
  BY <1>5, <1>6, <1>7, <1>8, RefsStep

LEMMA UnshareRefs ==
  ASSUME TypeInv, RefsOK, NEW t \in Threads, Unshare(t), ~raced'
  PROVE  RefsOK'
<1> DEFINE old == files[t]
           d   == dup_fd(old)
<1>1. /\ ~raced /\ ~LoopAt(t) /\ t # Tsk /\ old \in Tables /\ table[old].count > 1 /\ CanAllocate
      /\ files' = [files EXCEPT ![t] = NewTable] /\ table' = Put(d, old)
      /\ UNCHANGED <<pc, ss, iter, new_files, old_files, current_old_files>>
  BY RunningFiles DEF Unshare, CallLeaves, localVars, Calls
<1>2. files \in [Threads -> Tables \cup {NULL}] /\ table \in TableType
  BY TypeFacts
<1>3. /\ NewTable \in Tables /\ table[NewTable].count = 0 /\ d \in TableType
      /\ d[NewTable] = [count |-> 1, fd |-> table[old].fd]
      /\ \A x \in Tables \ {NewTable} : d[x] = table[x]
  BY <1>1, <1>2, DupFacts
<1>4. /\ \A u \in Threads : files[u] # NewTable
      /\ ss.files # NewTable
      /\ pc \in Busy => new_files # NewTable
  BY <1>1, <1>3, Referred DEF Free
<1>5. \A u \in Threads : files'[u] = IF u = t THEN NewTable ELSE files[u]
  BY <1>1, <1>2
<1> HIDE DEF d
<1>6. ASSUME NEW tb \in Tables PROVE table'[tb].count = Held(tb)' + Locals(tb)'
  <2>1. old # NewTable /\ d[old] = table[old] /\ d[NewTable].count = 1
    BY <1>1, <1>3, <1>4
  <2>2. d[old].count >= 1
    BY <2>1, <1>1, TypeFacts
  <2>3. table'[tb].count = d[tb].count - B(tb = old)
    BY <2>2, <1>1, <1>3, PutCounts
  <2>4. d[tb].count = table[tb].count + B(tb = NewTable)
    <3>1. CASE tb = NewTable
      BY <3>1, <2>1, <1>3 DEF B
    <3>2. CASE tb # NewTable
      <4>1. table[tb].count \in Nat
        BY TypeFacts
      <4>2. d[tb] = table[tb]
        BY <3>2, <1>3
      <4>3. QED
        BY <3>2, <4>1, <4>2 DEF B
    <3>3. QED
      BY <3>1, <3>2
  <2>5. Held(tb)' = Held(tb) - B(tb = old) + B(tb = NewTable)
    <3>1. PICK x : x = NewTable
      OBVIOUS
    <3>2. files' = [files EXCEPT ![t] = x]
      BY <3>1, <1>1
    <3>3. Held(tb)' = Held(tb) - (IF tb = files[t] THEN 1 ELSE 0) + (IF tb = x THEN 1 ELSE 0)
      BY <3>2, <1>2, HeldChange
    <3>4. QED
      BY <3>1, <3>3 DEF B
  <2>6. B(tb = NewTable) \in Int /\ B(tb = old) \in Int
    BY DEF B
  <2>7. files'[Tsk] = files[Tsk]
    BY <1>1, <1>5, IndexFacts
  <2>8. Locals(tb)' = Locals(tb)
    BY <2>7, <1>1 DEF Locals
  <2>9. table[tb].count = Held(tb) + Locals(tb) /\ Held(tb) \in Nat /\ Locals(tb) \in Nat
    BY <1>1, Referred
  <2>10. QED
    BY <2>3, <2>4, <2>5, <2>6, <2>8, <2>9
<1>7. pc' # "oops" /\ LoopOK /\ OwnOK
  BY <1>1 DEF RefsOK, CountsExact
<1>8. LoopOK'
  <2>1. pc \in {"read", "assign"} => iter # t /\ iter \in Threads
    BY <1>1 DEF LoopAt, TypeInv, TypeOK, PlaceOK, Loop
  <2>2. QED
    BY <1>1, <1>4, <1>5, <1>7, <2>1, IndexFacts DEF LoopOK, Swapped, IndexOf, Busy, Loop
<1>9. OwnOK'
  BY <1>1, <1>4, <1>5, <1>7 DEF OwnOK
<1>10. QED
  BY <1>6, <1>7, <1>8, <1>9, RefsStep

\* dup_fd for Tsk: the only reference is its local variable.
LEMMA DupRefs ==
  ASSUME TypeInv, RefsOK, ~raced, NEW from \in Tables, CanAllocate,
         table' = dup_fd(from), new_files' = NewTable,
         pc \notin Busy, pc' \in {"take_save", "seek"},
         UNCHANGED <<files, ss, iter, old_files>>
  PROVE  RefsOK'
<1>1. /\ NewTable \in Tables /\ table[NewTable].count = 0
      /\ table'[NewTable] = [count |-> 1, fd |-> table[from].fd]
      /\ \A x \in Tables \ {NewTable} : table'[x] = table[x]
  BY TypeFacts, DupFacts
<1>2. /\ \A u \in Threads : files[u] # NewTable
      /\ ss.files # NewTable
  BY <1>1, Referred DEF Free
<1>3. ASSUME NEW tb \in Tables PROVE table'[tb].count = Held(tb)' + Locals(tb)'
  <2>1. table'[tb].count = table[tb].count + B(tb = NewTable)
    <3>1. CASE tb = NewTable
      BY <3>1, <1>1 DEF B
    <3>2. CASE tb # NewTable
      <4>1. table[tb].count \in Nat
        BY TypeFacts
      <4>2. QED
        BY <3>2, <4>1, <1>1 DEF B
    <3>3. QED
      BY <3>1, <3>2
  <2>2. Locals(tb) = B(ss.files = tb)
    BY DEF Locals, Busy, Loop, B
  <2>3. Locals(tb)' = B(ss.files = tb) + B(tb = NewTable)
    BY <1>2, IndexFacts DEF Locals, Busy, Loop, B
  <2>4. Held(tb)' = Held(tb)
    BY HeldSame
  <2>5. table[tb].count = Held(tb) + Locals(tb) /\ Held(tb) \in Nat /\ Locals(tb) \in Nat
    BY Referred
  <2>6. B(tb = NewTable) \in Int
    BY DEF B
  <2>7. QED
    BY <2>1, <2>2, <2>3, <2>4, <2>5, <2>6
<1>4. pc' # "oops" /\ LoopOK'
  BY <1>2 DEF LoopOK, Loop
<1>5. OwnOK'
  BY <1>2 DEF RefsOK, OwnOK, Loop
<1>6. QED
  BY <1>3, <1>4, <1>5, RefsStep

LEMMA TakeDupRefs ==
  ASSUME TypeInv, RefsOK, take_dup, ~raced'
  PROVE  RefsOK'
<1>1. /\ pc = "take_dup" /\ ~raced /\ UNCHANGED <<files, ss, iter, current_old_files, old_files>>
      /\ files[Tsk] \in Tables /\ ss.files = NULL
  BY RunningFiles, IndexFacts DEF take_dup, historyVars, TypeInv, PlaceOK
<1>2. CASE pc' = "user" /\ UNCHANGED <<table, n, new_files, offsets>>
  <2>1. \A tb \in Tables : Locals(tb)' = Locals(tb)
    BY <1>1, <1>2 DEF Locals, Busy, Loop, B
  <2>2. LoopOK' /\ OwnOK' /\ pc' # "oops"
    BY <1>1, <1>2 DEF LoopOK, OwnOK, Loop
  <2>3. QED
    BY <1>1, <1>2, <2>1, <2>2, RefsSame
<1>3. CASE CanAllocate /\ table' = dup_fd(files[Tsk]) /\ new_files' = NewTable /\ pc' = "take_save"
  BY <1>1, <1>3, DupRefs DEF Busy, Loop
<1>4. QED
  BY <1>2, <1>3 DEF take_dup

LEMMA TakeDoneRefs ==
  ASSUME TypeInv, RefsOK, take_done, ~raced'
  PROVE  RefsOK'
<1>1. /\ pc = "take_save" /\ pc' = "user" /\ ~raced /\ new_files' = NULL /\ ss.files = NULL
      /\ UNCHANGED <<files, table, iter, old_files>>
      /\ new_files \in Tables /\ ss' = [ss EXCEPT !.files = new_files, !.offsets = offsets]
  BY DEF take_done, processVars, historyVars, TypeInv, TypeOK, PlaceOK, Busy
<1>2. ss'.files = new_files
  BY <1>1 DEF TypeInv, RecordsOK
<1>3. \A t \in Threads : files[t] # new_files
  BY <1>1 DEF RefsOK, LoopOK
<1>4. \A tb \in Tables : Locals(tb)' = Locals(tb)
  BY <1>1, <1>2, <1>3, IndexFacts, NullFacts DEF Locals, Busy, Loop, B
<1>5. LoopOK' /\ OwnOK' /\ pc' # "oops"
  BY <1>1, <1>2, <1>3, NullFacts DEF LoopOK, OwnOK, Loop
<1>6. QED
  BY <1>1, <1>4, <1>5, RefsSame

LEMMA RecoverFilesRefs ==
  ASSUME TypeInv, RefsOK, recover_files_snapshot, ~raced'
  PROVE  RefsOK'
<1>1. /\ pc = "kill" /\ ~raced /\ new_files = NULL /\ UNCHANGED <<files, ss, iter, old_files, current_old_files>>
  BY DEF recover_files_snapshot, historyVars, TypeInv, PlaceOK
<1>2. CASE /\ ss.fds /\ ss.files # NULL /\ CanAllocate
           /\ table' = dup_fd(ss.files) /\ new_files' = NewTable /\ pc' = "seek"
  <2>1. ss.files \in Tables
    BY <1>2 DEF TypeInv, TypeOK
  <2>2. QED
    BY <1>1, <1>2, <2>1, DupRefs DEF Busy, Loop
<1>3. CASE ((~ss.fds /\ pc' = "restored") \/ pc' = "failed") /\ UNCHANGED <<table, new_files>>
  <2>1. \A tb \in Tables : Locals(tb)' = Locals(tb)
    BY <1>1, <1>3 DEF Locals, Busy, Loop, B
  <2>2. LoopOK' /\ OwnOK' /\ pc' # "oops"
    BY <1>1, <1>3 DEF RefsOK, LoopOK, OwnOK, Loop
  <2>3. QED
    BY <1>1, <1>3, <2>1, <2>2, RefsSame
<1>4. QED
  BY <1>1, <1>2, <1>3 DEF recover_files_snapshot, Fail

LEMMA SeekFailsRefs ==
  ASSUME TypeInv, RefsOK, seek_fails, ~raced'
  PROVE  RefsOK'
<1>1. /\ pc = "seek" /\ pc' = "failed" /\ ~raced /\ new_files' = NULL /\ new_files \in Tables /\ new_files # NULL
      /\ table' = Put(table, new_files) /\ UNCHANGED <<files, ss, iter, old_files, current_old_files>>
  BY DEF seek_fails, Fail, historyVars, TypeInv, TypeOK, PlaceOK, Busy
<1>2. \A t \in Threads : files[t] # new_files
  BY <1>1 DEF RefsOK, LoopOK
<1>3. ASSUME NEW tb \in Tables PROVE table'[tb].count = Held(tb)' + Locals(tb)'
  <2>1. Locals(tb) = B(ss.files = tb) + B(tb = new_files)
    BY <1>1, <1>2, IndexFacts DEF Locals, Busy, Loop, B
  <2>2. Locals(tb)' = B(ss.files = tb)
    BY <1>1 DEF Locals, Busy, Loop, B
  <2>3. table[new_files].count = Held(new_files) + Locals(new_files) /\ Held(new_files) \in Nat
        /\ Locals(new_files) >= 1 /\ Locals(new_files) \in Nat
    BY <1>1, <1>2, IndexFacts, Referred DEF Locals, Busy, Loop, B
  <2>4. table'[tb].count = table[tb].count - B(tb = new_files)
    BY <2>3, <1>1, TypeFacts, PutCounts
  <2>5. Held(tb)' = Held(tb)
    BY <1>1, HeldSame
  <2>6. table[tb].count = Held(tb) + Locals(tb) /\ Held(tb) \in Nat /\ Locals(tb) \in Nat
    BY <1>1, Referred
  <2>7. B(tb = new_files) \in Int /\ B(ss.files = tb) \in Int
    BY DEF B
  <2>8. QED
    BY <2>1, <2>2, <2>4, <2>5, <2>6, <2>7
<1>4. LoopOK' /\ OwnOK' /\ pc' # "oops"
  BY <1>1 DEF RefsOK, LoopOK, OwnOK, Loop
<1>5. QED
  BY <1>3, <1>4, RefsStep

LEMMA SeeksDoneRefs ==
  ASSUME TypeInv, RefsOK, seeks_done, ~raced'
  PROVE  RefsOK'
<1>1. /\ pc = "seek" /\ pc' = "test" /\ ~raced /\ current_old_files' = files[Tsk]
      /\ UNCHANGED <<files, table, ss, new_files, old_files>>
  BY DEF seeks_done, processVars, historyVars
<1>2. IndexOf(iter') <= IndexOf(Tsk)
  BY <1>1, FirstThread, TskRuns DEF seeks_done
<1>3. \A t \in Threads : files[t] # new_files
  BY <1>1 DEF RefsOK, LoopOK
<1>4. \A tb \in Tables : Locals(tb)' = Locals(tb)
  BY <1>1 DEF Locals, Busy, Loop, B
<1>5. LoopOK' /\ OwnOK' /\ pc' # "oops"
  BY <1>1, <1>2, <1>3, IndexFacts DEF RefsOK, LoopOK, OwnOK, Loop, IndexOf
<1>6. QED
  BY <1>1, <1>4, <1>5, RefsSame

\* for_each_thread does not pass over Tsk, which runs.
LEMMA NextTaskPlace ==
  ASSUME TypeInv, pc \in Loop, NextTask,
         IF IndexOf(iter) < IndexOf(Tsk) THEN files[Tsk] = current_old_files ELSE Swapped
  PROVE  /\ pc' \in {"test", "restored"}
         /\ pc' = "restored" => Swapped
         /\ pc' = "test" => IF IndexOf(iter') <= IndexOf(Tsk) THEN files[Tsk] = current_old_files
                            ELSE Swapped
<1> DEFINE x == next_thread(iter)
<1>1. iter \in Threads /\ iter' = x /\ pc' = (IF x = NULL THEN "restored" ELSE "test")
  BY DEF TypeInv, TypeOK, PlaceOK, NextTask
<1>2. state[Tsk] # "gone" /\ Tsk \in Threads
  BY TskRuns, IndexFacts DEF Loop
<1>3. IndexOf(iter) \in Nat /\ IndexOf(Tsk) \in Nat
  BY <1>1, <1>2, IndexFacts
<1>4. CASE x = NULL
  <2>1. ~(IndexOf(iter) < IndexOf(Tsk))
    BY <1>1, <1>2, <1>4, NextThread
  <2>2. QED
    BY <1>1, <1>4, <2>1
<1>5. CASE x # NULL
  <2>1. x \in Threads /\ IndexOf(iter) < IndexOf(x)
    BY <1>1, <1>5, NextThread
  <2>2. ~(IndexOf(iter) < IndexOf(Tsk) /\ IndexOf(Tsk) < IndexOf(x))
    BY <1>1, <1>2, <1>5, NextThread
  <2>3. IndexOf(x) \in Nat
    BY <2>1, IndexFacts
  <2> HIDE DEF x
  <2>4. QED
    BY <1>1, <1>3, <1>5, <2>1, <2>2, <2>3 DEF IndexOf
<1>6. QED
  BY <1>4, <1>5

\* What Tsk refers to in the loop.
LEMMA LoopFacts ==
  ASSUME TypeInv, RefsOK, ~raced, pc \in Loop
  PROVE  /\ iter \in Threads /\ new_files \in Tables /\ current_old_files \in Tables
         /\ LoopOK /\ OwnOK /\ ss.files # NULL /\ current_old_files # new_files
BY DEF TypeInv, TypeOK, PlaceOK, Busy, RefsOK, LoopOK

LEMMA LoopTestRefs ==
  ASSUME TypeInv, RefsOK, loop_test, ~raced'
  PROVE  RefsOK'
<1>1. /\ pc = "test" /\ ~raced /\ UNCHANGED <<files, ss, new_files, old_files, current_old_files>>
  BY DEF loop_test, historyVars
<1>2. /\ iter \in Threads /\ new_files \in Tables /\ current_old_files \in Tables
      /\ LoopOK /\ OwnOK /\ current_old_files # new_files
  BY <1>1, LoopFacts DEF Loop
<1>3. IF IndexOf(iter) <= IndexOf(Tsk) THEN files[Tsk] = current_old_files ELSE Swapped
  BY <1>1, <1>2 DEF LoopOK
<1>4. CASE files[iter] # current_old_files
  <2>1. NextTask /\ table' = table
    BY <1>4 DEF loop_test
  <2>2. IndexOf(iter) = IndexOf(Tsk) => iter = Tsk
    BY <1>2, IndexFacts
  <2>3. IF IndexOf(iter) < IndexOf(Tsk) THEN files[Tsk] = current_old_files ELSE Swapped
    BY <1>2, <1>3, <1>4, <2>2, IndexFacts
  <2>4. /\ pc' \in {"test", "restored"}
        /\ pc' = "restored" => Swapped
        /\ pc' = "test" => IF IndexOf(iter') <= IndexOf(Tsk) THEN files[Tsk] = current_old_files
                           ELSE Swapped
    BY <1>1, <2>1, <2>3, NextTaskPlace DEF Loop
  <2>5. \A tb \in Tables : Locals(tb)' = Locals(tb)
    BY <1>1, <2>4 DEF Locals, Busy, Loop, B, Swapped
  <2>6. LoopOK' /\ OwnOK'
    BY <1>1, <1>2, <2>4 DEF LoopOK, OwnOK, Loop, Swapped, IndexOf
  <2>7. pc' # "oops"
    BY <2>4
  <2>8. QED
    BY <1>1, <2>1, <2>5, <2>6, <2>7, RefsSame
<1>5. CASE files[iter] = current_old_files
  <2>1. /\ pc' = "read" /\ iter' = iter
        /\ table' = IF iter = Tsk THEN table ELSE [table EXCEPT ![new_files].count = @ + 1]
    BY <1>5 DEF loop_test
  <2>2. ASSUME NEW tb \in Tables PROVE table'[tb].count = Held(tb)' + Locals(tb)'
    <3>1. table[tb].count = Held(tb) + Locals(tb) /\ Held(tb) \in Nat /\ Locals(tb) \in Nat
      BY <1>1, Referred
    <3>2. table'[tb].count = table[tb].count + B(new_files = tb /\ iter # Tsk)
      <4>1. table \in TableType /\ table[tb].count \in Nat
        BY TypeFacts
      <4>2. CASE iter = Tsk
        BY <4>1, <4>2, <2>1 DEF B
      <4>3. CASE iter # Tsk
        <5>1. table'[tb].count = IF tb = new_files THEN table[tb].count + 1 ELSE table[tb].count
          BY <4>1, <4>3, <2>1, <1>2 DEF TableType
        <5>2. QED
          BY <5>1, <4>1, <4>3 DEF B
      <4>4. QED
        BY <4>2, <4>3
    <3>3. Locals(tb)' = Locals(tb) + B(new_files = tb /\ iter # Tsk)
      BY <1>1, <2>1 DEF Locals, Busy, Loop, B
    <3>4. Held(tb)' = Held(tb)
      BY <1>1, HeldSame
    <3>5. B(new_files = tb /\ iter # Tsk) \in Int
      BY DEF B
    <3>6. QED
      BY <3>1, <3>2, <3>3, <3>4, <3>5
  <2>3. LoopOK'
    BY <1>1, <1>2, <1>3, <1>5, <2>1 DEF LoopOK, Loop, Swapped, IndexOf
  <2>4. OwnOK' /\ pc' # "oops"
    BY <1>1, <1>2, <2>1 DEF OwnOK, Loop
  <2>5. QED
    BY <2>2, <2>3, <2>4, RefsStep
<1>6. QED
  BY <1>4, <1>5

LEMMA LoopReadRefs ==
  ASSUME TypeInv, RefsOK, loop_read, ~raced'
  PROVE  RefsOK'
<1>1. /\ pc = "read" /\ pc' = "assign" /\ ~raced /\ old_files' = files[iter]
      /\ UNCHANGED <<files, table, ss, iter, new_files, current_old_files>>
  BY DEF loop_read, processVars, historyVars
<1>2. LoopOK /\ OwnOK
  BY <1>1 DEF RefsOK
<1>3. \A tb \in Tables : Locals(tb)' = Locals(tb)
  BY <1>1 DEF Locals, Busy, Loop, B
<1>4. LoopOK' /\ OwnOK' /\ pc' # "oops"
  BY <1>1, <1>2 DEF LoopOK, OwnOK, Loop, Swapped, IndexOf
<1>5. QED
  BY <1>1, <1>3, <1>4, RefsSame

LEMMA LoopAssignRefs ==
  ASSUME TypeInv, RefsOK, loop_assign, ~raced'
  PROVE  RefsOK'
<1>1. /\ pc = "assign" /\ pc' = "put" /\ ~raced /\ files' = [files EXCEPT ![iter] = new_files]
      /\ UNCHANGED <<table, ss, iter, new_files, old_files, current_old_files>>
  BY DEF loop_assign, localVars, historyVars
<1>2. /\ iter \in Threads /\ new_files \in Tables /\ current_old_files \in Tables
      /\ LoopOK /\ OwnOK /\ current_old_files # new_files /\ ss.files # NULL
  BY <1>1, LoopFacts DEF Loop
<1>3. /\ files[iter] = current_old_files /\ old_files = current_old_files
      /\ IF IndexOf(iter) <= IndexOf(Tsk) THEN files[Tsk] = current_old_files ELSE Swapped
  BY <1>1, <1>2 DEF LoopOK
<1>4. files \in [Threads -> Tables \cup {NULL}]
  BY TypeFacts
<1>5. \A u \in Threads : files'[u] = IF u = iter THEN new_files ELSE files[u]
  BY <1>1, <1>4
<1>6. ASSUME NEW tb \in Tables PROVE table'[tb].count = Held(tb)' + Locals(tb)'
  <2>1. PICK x, i : x = new_files /\ i = iter
    OBVIOUS
  <2>2. i \in Threads /\ files' = [files EXCEPT ![i] = x]
    BY <2>1, <1>1, <1>2
  <2>3. Held(tb)' = Held(tb) - (IF tb = files[i] THEN 1 ELSE 0) + (IF tb = x THEN 1 ELSE 0)
    BY <2>2, <1>4, HeldChange
  <2>4. Held(tb)' = Held(tb) - B(tb = current_old_files) + B(tb = new_files)
    BY <2>1, <2>3, <1>3 DEF B
  <2>5. table[tb].count = Held(tb) + Locals(tb) /\ Held(tb) \in Nat /\ Locals(tb) \in Nat
    BY <1>1, Referred
  <2>6. Locals(tb)' = Locals(tb) + B(tb = current_old_files) - B(tb = new_files)
    <3>1. CASE iter = Tsk
      <4>1. files'[Tsk] = new_files /\ files[Tsk] = current_old_files
        BY <3>1, <1>2, <1>3, <1>5
      <4>2. QED
        BY <3>1, <4>1, <1>1, <1>2, <1>3 DEF Locals, Busy, Loop, B
    <3>2. CASE iter # Tsk
      <4>1. files'[Tsk] = files[Tsk]
        BY <3>2, <1>5, IndexFacts
      <4>2. QED
        BY <3>2, <4>1, <1>1, <1>2, <1>3 DEF Locals, Busy, Loop, B
    <3>3. QED
      BY <3>1, <3>2
  <2>7. B(tb = current_old_files) \in Int /\ B(tb = new_files) \in Int
    BY DEF B
  <2>8. QED
    BY <1>1, <2>4, <2>5, <2>6, <2>7
<1>7. IF IndexOf(iter) < IndexOf(Tsk) THEN files'[Tsk] = current_old_files ELSE files'[Tsk] = new_files
  <2>1. /\ IndexOf(iter) \in Nat /\ IndexOf(Tsk) \in Nat /\ Tsk \in Threads
        /\ IndexOf(iter) = IndexOf(Tsk) => iter = Tsk
    BY <1>2, IndexFacts
  <2>2. QED
    BY <2>1, <1>3, <1>5 DEF Swapped
<1>8. LoopOK'
  BY <1>1, <1>2, <1>3, <1>7 DEF LoopOK, Loop, Swapped, IndexOf
<1>9. OwnOK' /\ pc' # "oops"
  BY <1>1, <1>2, <1>5 DEF OwnOK, Loop
<1>10. QED
  BY <1>6, <1>8, <1>9, RefsStep

LEMMA LoopPutRefs ==
  ASSUME TypeInv, RefsOK, loop_put, ~raced'
  PROVE  RefsOK'
<1>1. /\ pc = "put" /\ ~raced /\ old_files' = NULL
      /\ UNCHANGED <<files, ss, new_files, current_old_files>>
  BY DEF loop_put, historyVars
<1>2. /\ iter \in Threads /\ new_files \in Tables /\ current_old_files \in Tables
      /\ LoopOK /\ OwnOK /\ current_old_files # new_files /\ ss.files # NULL
  BY <1>1, LoopFacts DEF Loop
<1>3. /\ old_files = current_old_files
      /\ IF IndexOf(iter) < IndexOf(Tsk) THEN files[Tsk] = current_old_files ELSE Swapped
  BY <1>1, <1>2 DEF LoopOK
<1>4. table' = Put(table, current_old_files) /\ NextTask
  BY <1>2, <1>3, NullFacts DEF loop_put
<1>5. /\ pc' \in {"test", "restored"}
      /\ pc' = "restored" => Swapped
      /\ pc' = "test" => IF IndexOf(iter') <= IndexOf(Tsk) THEN files[Tsk] = current_old_files
                         ELSE Swapped
  BY <1>1, <1>3, <1>4, NextTaskPlace DEF Loop
<1>6. ASSUME NEW tb \in Tables PROVE table'[tb].count = Held(tb)' + Locals(tb)'
  <2>1. table[tb].count = Held(tb) + Locals(tb) /\ Held(tb) \in Nat /\ Locals(tb) \in Nat
    BY <1>1, Referred
  <2>2. table[current_old_files].count >= 1
    <3>1. Locals(current_old_files) >= 1
      BY <1>1, <1>3 DEF Locals, B
    <3>2. QED
      BY <3>1, <1>1, <1>2, Referred
  <2>3. table'[tb].count = table[tb].count - B(tb = current_old_files)
    BY <2>2, <1>2, <1>4, TypeFacts, PutCounts
  <2>4. Locals(tb)' = Locals(tb) - B(tb = current_old_files)
    BY <1>1, <1>2, <1>3, <1>5, NullFacts DEF Locals, Busy, Loop, B, Swapped
  <2>5. Held(tb)' = Held(tb)
    BY <1>1, HeldSame
  <2>6. B(tb = current_old_files) \in Int
    BY DEF B
  <2>7. QED
    BY <2>1, <2>3, <2>4, <2>5, <2>6
<1>7. LoopOK'
  BY <1>1, <1>2, <1>5 DEF LoopOK, Loop, Swapped, IndexOf
<1>8. OwnOK' /\ pc' # "oops"
  BY <1>1, <1>2, <1>5 DEF OwnOK, Loop
<1>9. QED
  BY <1>6, <1>7, <1>8, RefsStep

\* The snapshot gives up its table.
LEMMA CleanCounts ==
  ASSUME TypeInv, RefsOK, ~raced, pc = "user", NEW tb \in Tables
  PROVE  /\ CleanTable \in TableType /\ CleanTable[tb].count = Held(tb)
         /\ ss.files # tb => CleanTable[tb] = table[tb]
<1>1. table[tb].count = Held(tb) + Locals(tb) /\ Held(tb) \in Nat /\ table \in TableType
  BY Referred, TypeFacts
<1>2. Locals(tb) = B(ss.files = tb) /\ ss.files \in Tables \cup {NULL}
  BY DEF Locals, Busy, Loop, B, TypeInv, TypeOK
<1>3. CASE ss.files = NULL
  BY <1>1, <1>2, <1>3, NullFacts DEF CleanTable, B
<1>4. CASE ss.files \in Tables
  <2>1. CleanTable = Put(table, ss.files)
    BY <1>4, NullFacts DEF CleanTable
  <2>2. table[ss.files].count >= 1
    <3>1. Locals(ss.files) >= 1
      BY DEF Locals, B
    <3>2. QED
      BY <3>1, <1>4, Referred
  <2>3. /\ CleanTable \in TableType /\ CleanTable[tb].count = table[tb].count - B(tb = ss.files)
        /\ ss.files # tb => CleanTable[tb] = table[tb]
    BY <2>1, <2>2, <1>1, <1>4, PutCounts, PutFacts
  <2>4. B(tb = ss.files) = B(ss.files = tb) /\ B(tb = ss.files) \in Int
    BY DEF B
  <2>5. QED
    BY <2>3, <2>4, <1>1, <1>2
<1>5. QED
  BY <1>2, <1>3, <1>4

LEMMA CleanRefs ==
  ASSUME TypeInv, RefsOK, clean_files_snapshot, ~raced'
  PROVE  RefsOK'
<1>1. /\ pc = "user" /\ ~raced /\ table' = CleanTable /\ ss'.files = NULL
      /\ UNCHANGED <<pc, files, iter, new_files, old_files, current_old_files>>
  BY DEF clean_files_snapshot, Calls, localVars, NoSnapshot
<1>2. ASSUME NEW tb \in Tables PROVE table'[tb].count = Held(tb)' + Locals(tb)'
  <2>1. table'[tb].count = Held(tb) /\ Held(tb)' = Held(tb) /\ Held(tb) \in Nat
    BY <1>1, CleanCounts, HeldSame, HeldFacts
  <2>2. Locals(tb)' = 0
    BY <1>1, NullFacts DEF Locals, Busy, Loop, B
  <2>3. QED
    BY <2>1, <2>2
<1>3. LoopOK' /\ OwnOK' /\ pc' # "oops"
  BY <1>1 DEF LoopOK, OwnOK, Loop
<1>4. QED
  BY <1>2, <1>3, RefsStep

LEMMA ProcessExitRefs ==
  ASSUME TypeInv, RefsOK, process_exit, ~raced'
  PROVE  RefsOK'
<1>1. /\ pc = "user" /\ ~raced /\ table' = Put(CleanTable, files[Tsk]) /\ ss'.files = NULL
      /\ files[Tsk] \in Tables /\ files' = [files EXCEPT ![Tsk] = NULL] /\ Tsk \in Threads
      /\ UNCHANGED <<pc, iter, new_files, old_files, current_old_files>>
  BY RunningFiles, IndexFacts DEF process_exit, localVars, NoSnapshot
<1>2. files \in [Threads -> Tables \cup {NULL}]
  BY TypeFacts
<1>3. ASSUME NEW tb \in Tables PROVE table'[tb].count = Held(tb)' + Locals(tb)'
  <2>1. CleanTable \in TableType /\ CleanTable[tb].count = Held(tb) /\ Held(tb) \in Nat
    BY <1>1, CleanCounts, HeldFacts
  <2>2. CleanTable[files[Tsk]].count >= 1
    BY <1>1, CleanCounts, Referred
  <2>3. table'[tb].count = CleanTable[tb].count - B(tb = files[Tsk])
    BY <2>1, <2>2, <1>1, PutCounts
  <2>4. Held(tb)' = Held(tb) - B(tb = files[Tsk])
    <3>1. PICK x : x = NULL
      OBVIOUS
    <3>2. files' = [files EXCEPT ![Tsk] = x]
      BY <3>1, <1>1
    <3>3. Held(tb)' = Held(tb) - (IF tb = files[Tsk] THEN 1 ELSE 0) + (IF tb = x THEN 1 ELSE 0)
      BY <3>2, <1>1, <1>2, HeldChange
    <3>4. QED
      BY <2>1, <3>1, <3>3, NullFacts DEF B
  <2>5. Locals(tb)' = 0
    BY <1>1, NullFacts DEF Locals, Busy, Loop, B
  <2>6. B(tb = files[Tsk]) \in Int
    BY DEF B
  <2>7. QED
    BY <2>1, <2>3, <2>4, <2>5, <2>6
<1>4. LoopOK' /\ OwnOK' /\ pc' # "oops"
  BY <1>1 DEF LoopOK, OwnOK, Loop
<1>5. QED
  BY <1>3, <1>4, RefsStep

LEMMA CallRefs ==
  ASSUME TypeInv, RefsOK, NEW t \in Threads, Program(t), ~raced'
  PROVE  RefsOK'
<1>1. CASE Unshare(t)
  BY <1>1, UnshareRefs
<1>2. ASSUME NEW f \in Files, Open(t, f) PROVE RefsOK'
  <2>1. files[t] \in Tables
    BY <1>2, RunningFiles DEF Open, Calls
  <2>2. PICK d : table' = [table EXCEPT ![files[t]].fd[d] = f]
    BY <1>2 DEF Open
  <2>3. \A x \in Tables : table'[x].count = table[x].count
    BY <2>1, <2>2, TypeFacts DEF TableType
  <2>4. QED
    BY <1>2, <2>3, RefsStable DEF Open, CallLeaves, localVars
<1>3. ASSUME NEW fd \in Fds, Close(t, fd) PROVE RefsOK'
  <2>1. files[t] \in Tables
    BY <1>3, RunningFiles DEF Close, Calls
  <2>2. \A x \in Tables : table'[x].count = table[x].count
    BY <1>3, <2>1, TypeFacts DEF Close, TableType
  <2>3. QED
    BY <1>3, <2>2, RefsStable DEF Close, CallLeaves, localVars
<1>4. ASSUME NEW fd \in Fds, NEW o \in 0 .. MaxPos, Seek(t, fd, o) PROVE RefsOK'
  BY <1>4, RefsStable DEF Seek, CallLeaves, localVars
<1>5. QED
  BY <1>1, <1>2, <1>3, <1>4 DEF Program

\* Steps of Tsk that keep its references.
LEMMA KeepRefs ==
  ASSUME TypeInv, RefsOK, ~raced',
         \/ \E fds \in BOOLEAN : take_snapshot(fds)
         \/ exclude_vmrange \/ restore_snapshot \/ recover_threads_snapshot \/ Return
  PROVE  RefsOK'
<1>1. /\ ~raced /\ UNCHANGED <<files, table, old_files>> /\ ss'.files = ss.files
      /\ pc \in {"user", "kill", "restored", "failed"} /\ pc' \in {"user", "take_dup", "kill"}
      /\ new_files' = NULL
  <2>1. CASE \E fds \in BOOLEAN : take_snapshot(fds)
    <3>1. PICK fds \in BOOLEAN : take_snapshot(fds)
      BY <2>1
    <3>2. /\ ~raced /\ UNCHANGED <<files, table, old_files, new_files>> /\ pc = "user" /\ ~ss.made
          /\ pc' \in {"user", "take_dup"} /\ ss' = [NoSnapshot EXCEPT !.data = TRUE, !.made = TRUE, !.fds = fds]
      BY <3>1 DEF take_snapshot, Calls, processVars, localVars
    <3>3. ss'.files = NULL
      BY <3>2 DEF NoSnapshot
    <3>4. ss.files = NULL /\ new_files = NULL
      BY <3>2 DEF TypeInv, TypeOK, PlaceOK
    <3>5. QED
      BY <3>2, <3>3, <3>4
  <2>2. CASE restore_snapshot
    BY <2>2 DEF restore_snapshot, Calls, processVars, TypeInv, PlaceOK
  <2>3. CASE recover_threads_snapshot
    BY <2>3 DEF recover_threads_snapshot, historyVars, TypeInv, PlaceOK
  <2>4. CASE Return
    BY <2>4 DEF Return, processVars
  <2>5. CASE exclude_vmrange
    <3>1. /\ ~raced /\ UNCHANGED <<files, table, old_files, new_files>> /\ pc = "user" /\ pc' = "user"
          /\ ~ss.data /\ ss' = [NoSnapshot EXCEPT !.data = TRUE]
      BY <2>5 DEF exclude_vmrange, Calls, processVars, localVars, historyVars
    <3>2. ss'.files = NULL
      BY <3>1 DEF NoSnapshot
    <3>3. ss.files = NULL /\ new_files = NULL
      BY <3>1 DEF TypeInv, TypeOK, PlaceOK
    <3>4. QED
      BY <3>1, <3>2, <3>3
  <2>6. QED
    BY <2>1, <2>2, <2>3, <2>4, <2>5
<1>2. \A tb \in Tables : Locals(tb)' = Locals(tb)
  BY <1>1 DEF Locals, Busy, Loop, B
<1>3. LoopOK' /\ OwnOK' /\ pc' # "oops"
  BY <1>1 DEF RefsOK, LoopOK, OwnOK, Loop
<1>4. QED
  BY <1>1, <1>2, <1>3, RefsSame

\* Steps that touch no reference at all.
LEMMA QuietRefs ==
  ASSUME TypeInv, RefsOK, ~raced',
         \/ Kill \/ save_file_offset \/ restore_file_offset \/ UNCHANGED vars
         \/ \E t \in Threads : release_task(t)
  PROVE  RefsOK'
<1>1. /\ ~raced /\ UNCHANGED <<files, table, pc, ss, iter, new_files, old_files, current_old_files>>
  <2>1. CASE Kill
    BY <2>1 DEF Kill, localVars, historyVars
  <2>2. CASE save_file_offset
    BY <2>2 DEF save_file_offset, processVars, historyVars
  <2>3. CASE restore_file_offset
    BY <2>3 DEF restore_file_offset, historyVars
  <2>4. CASE \E t \in Threads : release_task(t)
    BY <2>4 DEF release_task, localVars
  <2>5. CASE UNCHANGED vars
    BY <2>5 DEF vars, processVars, localVars, historyVars
  <2>6. QED
    BY <2>1, <2>2, <2>3, <2>4, <2>5
<1>2. QED
  BY <1>1, RefsStable

LEMMA RefsPreserved == TypeInv /\ EndedOK /\ RefsOK /\ [Next]_vars => RefsOK'
<1>1. SUFFICES ASSUME TypeInv, EndedOK, RefsOK, [Next]_vars PROVE RefsOK'
  OBVIOUS
<1>2. SUFFICES ASSUME ~raced' PROVE RefsOK'
  BY DEF RefsOK, CountsExact
<1>3. QED
  BY <1>1, <1>2, CallRefs, CloneRefs, KeepRefs, QuietRefs, ExitFilesRefs, ProcessExitRefs, CleanRefs,
     TakeDupRefs, TakeDoneRefs, RecoverFilesRefs, SeekFailsRefs, SeeksDoneRefs,
     LoopTestRefs, LoopReadRefs, LoopAssignRefs, LoopPutRefs
     DEF Next, Module, Exit

\* Counts are exact, Tsk has in the loop of recover_files_snapshot the table its
\* place says, and nobody has the snapshot's (files.c:138-157).
THEOREM RefsHold == Spec => []RefsOK
BY InitRefs, RefsPreserved, FilesTypeInv, EndedHolds, PTL DEF Spec

\* Every table is counted as often as it is referred to, in every step, for any
\* number of threads that are created, open, unshare, exit and are reaped, unless
\* one of them changed its files while the loop was at it (files.c:133-163).
THEOREM CountsAreExact == Spec => []CountsExact
<1>1. RefsOK => CountsExact
  BY DEF RefsOK
<1>2. QED
  BY <1>1, RefsHold, PTL

-----------------------------------------------------------------------------
(* What the tables and the positions are. *)

\* Where nobody else runs, nobody is created while Tsk is in the module.
LEMMA NobodyStarts ==
  ASSUME TypeInv, [Next]_vars, Alone, pc # "user"
  PROVE  Alone'
<1>1. state' = state \/ \E t \in Threads : \E s \in {"exiting", "gone"} : state' = [state EXCEPT ![t] = s]
  <2>1. ASSUME NEW t \in Threads, Exit(t)
        PROVE  \E u \in Threads : \E s \in {"exiting", "gone"} : state' = [state EXCEPT ![u] = s]
    BY <2>1, IndexFacts DEF Exit, exit_files, release_task, process_exit
  <2>2. CASE \E t \in Threads : Program(t)
    BY <2>2 DEF Program, Open, Close, Seek, Unshare, CallLeaves
  <2>3. CASE \/ \E fds \in BOOLEAN : take_snapshot(fds)
             \/ exclude_vmrange \/ restore_snapshot \/ clean_files_snapshot \/ Kill
    BY <2>3 DEF take_snapshot, exclude_vmrange, restore_snapshot, clean_files_snapshot, Kill, processVars
  <2>4. CASE Module
    BY <2>4 DEF Module, take_dup, save_file_offset, take_done, recover_threads_snapshot,
           recover_files_snapshot, restore_file_offset, seek_fails, seeks_done, loop_test,
           loop_read, loop_assign, loop_put, Return, processVars
  <2>5. CASE UNCHANGED vars
    BY <2>5 DEF vars, processVars
  <2>6. ASSUME NEW t \in Threads, NEW new \in Others, Clone(t, new) PROVE FALSE
    BY <2>6 DEF Clone, Calls, Alone, Others
  <2>7. QED
    BY <2>1, <2>2, <2>3, <2>4, <2>5, <2>6 DEF Next
<1>2. state \in [Threads -> {"run", "exiting", "gone"}]
  BY TypeFacts
<1>3. \A t \in Threads : state'[t] = "run" => state[t] = "run"
  BY <1>1, <1>2
<1>4. QED
  BY <1>3 DEF Alone, Others, Running

LEMMA AlonePreserved == TypeInv /\ AloneOK /\ [Next]_vars => AloneOK'
<1>1. SUFFICES ASSUME TypeInv, AloneOK, [Next]_vars PROVE AloneOK'
  OBVIOUS
<1>2. Alone /\ pc # "user" => Alone'
  BY <1>1, NobodyStarts
<1>3. ASSUME UNCHANGED <<pc, n, at_take>> PROVE AloneOK'
  BY <1>1, <1>2, <1>3 DEF AloneOK
<1>4. ASSUME pc' \notin {"take_dup", "take_save"}, pc' \in {"user", "kill"} => n' = 0 PROVE AloneOK'
  BY <1>4 DEF AloneOK
<1>5. ASSUME NEW t \in Threads, \/ Program(t) \/ exit_files(t) \/ release_task(t)
                                 \/ \E new \in Others : Clone(t, new)
      PROVE  AloneOK'
  <2>1. UNCHANGED <<at_take, pc, n>>
    BY <1>5 DEF Program, Open, Close, Seek, Unshare, exit_files, release_task, Clone, CallLeaves,
                localVars, historyVars
  <2>2. QED
    BY <2>1, <1>3
<1>6. ASSUME NEW fds \in BOOLEAN, take_snapshot(fds) PROVE AloneOK'
  <2>1. at_take' = View /\ pc = "user" /\ n' = n /\ state' = state /\ pc' \in {"user", "take_dup"}
    BY <1>6 DEF take_snapshot, Calls, localVars, processVars
  <2>2. at_take'.alone = Alone
    BY <2>1 DEF View
  <2>3. Alone' = Alone
    BY <2>1 DEF Alone, Running
  <2>4. QED
    BY <2>1, <2>2, <2>3, <1>1 DEF AloneOK
<1>7. ASSUME \/ process_exit \/ clean_files_snapshot \/ exclude_vmrange \/ restore_snapshot
             \/ take_done \/ recover_threads_snapshot \/ Return
      PROVE  AloneOK'
  <2>1. pc' \in {"user", "kill"} /\ n' = 0
    BY <1>1, <1>7 DEF process_exit, clean_files_snapshot, exclude_vmrange, restore_snapshot, take_done,
                      recover_threads_snapshot, Return, Calls, AloneOK, localVars
  <2>2. QED
    BY <2>1, <1>4
<1>8. ASSUME Kill \/ UNCHANGED vars PROVE AloneOK'
  BY <1>3, <1>8 DEF Kill, vars, localVars, historyVars
<1>9. ASSUME take_dup \/ save_file_offset PROVE AloneOK'
  <2>1. /\ at_take' = at_take /\ pc \in {"take_dup", "take_save"}
        /\ pc' \in {"user", "take_save"} /\ (pc' = "user" => n' = 0)
    BY <1>1, <1>9 DEF take_dup, save_file_offset, AloneOK, historyVars
  <2>2. QED
    BY <2>1, <1>1, <1>2 DEF AloneOK
<1>10. ASSUME \/ recover_files_snapshot \/ restore_file_offset \/ seek_fails \/ seeks_done
              \/ loop_test \/ loop_read \/ loop_assign \/ loop_put
       PROVE  AloneOK'
  <2>1. pc' \notin {"user", "take_dup", "take_save", "kill"}
    BY <1>10 DEF recover_files_snapshot, restore_file_offset, seek_fails, seeks_done, loop_test,
                 loop_read, loop_assign, loop_put, Fail, NextTask
  <2>2. QED
    BY <2>1, <1>4
<1>11. QED
  BY <1>1, <1>5, <1>6, <1>7, <1>8, <1>9, <1>10 DEF Next, Module, Exit

LEMMA AloneHolds == Spec => []AloneOK
<1>1. Init => AloneOK
  BY DEF Init, AloneOK, NoSnapshot
<1>2. QED
  BY <1>1, AlonePreserved, FilesTypeInv, PTL DEF Spec

\* With everything that has been shown.
BaseInv == TypeInv /\ RefsOK /\ AloneOK

\* Steps of other threads, and of Tsk as a program.
LEMMA ContentsStable ==
  ASSUME BaseInv, ContentsOK, ~raced, ~raced', torn => torn',
         UNCHANGED <<pc, ss, n, new_files, offsets, at_take, at_restore>>, files'[Tsk] = files[Tsk],
         ss.files # NULL => table'[ss.files].fd = table[ss.files].fd,
         pc # "user" /\ (~torn' \/ Alone) =>
           /\ pos' = pos /\ table'[files[Tsk]].fd = table[files[Tsk]].fd
           /\ pc \in Busy => table'[new_files].fd = table[new_files].fd
  PROVE  ContentsOK'
<1>1. pc \in {"take_dup", "take_save"} /\ at_take.alone => Alone
  BY DEF BaseInv, AloneOK
<1>2. TakeOK'
  BY <1>1 DEF ContentsOK, TakeOK, Saved, Busy, Loop
<1>3. RestoreOK'
  BY DEF ContentsOK, RestoreOK, Back, Busy, Loop, BaseInv, TypeInv, PlaceOK
<1>4. FilesRestored'
  BY DEF ContentsOK, FilesRestored, BaseInv, TypeInv, PlaceOK
<1>5. FailedRestoreKeeps'
  BY DEF ContentsOK, FailedRestoreKeeps
<1>6. QED
  BY <1>2, <1>3, <1>4, <1>5 DEF ContentsOK

\* A thread that exits leaves the tables of Tsk alone: the last reference is not its own.
LEMMA ExitFilesContents ==
  ASSUME BaseInv, ContentsOK, NEW t \in Threads, exit_files(t), ~raced'
  PROVE  ContentsOK'
<1>1. /\ TypeInv /\ RefsOK /\ ~raced /\ t # Tsk /\ files[t] \in Tables /\ torn' = torn
      /\ files' = [files EXCEPT ![t] = NULL] /\ table' = Put(table, files[t]) /\ pos' = pos
      /\ UNCHANGED <<pc, ss, n, new_files, offsets, at_take, at_restore>>
  BY RunningFiles DEF BaseInv, exit_files, localVars
<1>2. files'[Tsk] = files[Tsk] /\ Tsk \in Threads
  BY <1>1, TypeFacts, IndexFacts
<1>3. ASSUME NEW x \in Tables, x = files[t] => table[x].count > 1
      PROVE  table'[x].fd = table[x].fd
  <2>1. CASE x = files[t]
    BY <1>1, <1>3, <2>1, TypeFacts, PutFacts
  <2>2. CASE x # files[t]
    BY <1>1, <2>2, TypeFacts, PutFacts
  <2>3. QED
    BY <2>1, <2>2
<1>4. ss.files # NULL => table'[ss.files].fd = table[ss.files].fd
  <2>1. ss.files # NULL => ss.files \in Tables /\ files[t] # ss.files
    BY <1>1 DEF TypeInv, TypeOK, RefsOK, OwnOK
  <2>2. QED
    BY <2>1, <1>3
<1>5. ASSUME pc # "user" PROVE table'[files[Tsk]].fd = table[files[Tsk]].fd
  <2>1. files[Tsk] \in Tables
    BY <1>1, <1>2, <1>5, TskRuns, RunningFiles DEF Running
  <2>2. files[Tsk] = files[t] => Held(files[Tsk]) >= 2
    BY <1>1, <1>2, HeldFacts
  <2>3. /\ table[files[Tsk]].count = Held(files[Tsk]) + Locals(files[Tsk])
        /\ Held(files[Tsk]) \in Nat /\ Locals(files[Tsk]) \in Nat
    BY <1>1, <2>1, Referred
  <2>4. files[Tsk] = files[t] => table[files[Tsk]].count > 1
    BY <2>2, <2>3
  <2>5. QED
    BY <2>1, <2>4, <1>3
<1>6. ASSUME pc \in Busy PROVE table'[new_files].fd = table[new_files].fd
  <2>1. new_files \in Tables /\ pc # "user"
    BY <1>1, <1>6 DEF TypeInv, TypeOK, PlaceOK, Busy, Loop
  <2>2. CASE files[Tsk] = new_files
    BY <1>5, <2>1, <2>2
  <2>3. CASE files[Tsk] # new_files
    <3>1. Locals(new_files) >= 1
      BY <1>6, <2>3 DEF Locals, B
    <3>2. files[t] = new_files => Held(new_files) >= 1
      BY <1>1, <2>1, Referred
    <3>3. /\ table[new_files].count = Held(new_files) + Locals(new_files)
          /\ Held(new_files) \in Nat /\ Locals(new_files) \in Nat
      BY <1>1, <2>1, Referred
    <3>4. new_files = files[t] => table[new_files].count > 1
      BY <3>1, <3>2, <3>3
    <3>5. QED
      BY <2>1, <3>4, <1>3
  <2>4. QED
    BY <2>2, <2>3
<1>7. QED
  BY <1>1, <1>2, <1>4, <1>5, <1>6, ContentsStable

\* A call of a thread changes its own table, never the snapshot's; in a take or a
\* restore it counts as interference.
LEMMA CallContents ==
  ASSUME BaseInv, ContentsOK, NEW t \in Threads, Program(t), ~raced'
  PROVE  ContentsOK'
<1>1. /\ TypeInv /\ RefsOK /\ ~raced /\ Running(t) /\ Torn(t) /\ (t = Tsk => pc = "user")
      /\ UNCHANGED <<pc, ss, n, new_files, offsets, at_take, at_restore>>
      /\ files'[Tsk] = files[Tsk]
  <2>1. CASE Unshare(t)
    BY <2>1, TypeFacts, IndexFacts DEF Unshare, Calls, CallLeaves, localVars, BaseInv
  <2>2. CASE \E f \in Files : Open(t, f)
    BY <2>2 DEF Open, Calls, CallLeaves, localVars, BaseInv
  <2>3. CASE \E fd \in Fds : Close(t, fd)
    BY <2>3 DEF Close, Calls, CallLeaves, localVars, BaseInv
  <2>4. CASE \E fd \in Fds : \E o \in 0 .. MaxPos : Seek(t, fd, o)
    BY <2>4 DEF Seek, Calls, CallLeaves, localVars, BaseInv
  <2>5. QED
    BY <2>1, <2>2, <2>3, <2>4 DEF Program
<1>2. pc # "user" => t # Tsk /\ torn' /\ ~Alone
  BY <1>1 DEF Torn, Alone, Others
<1>3. files[t] \in Tables /\ table \in TableType
  BY <1>1, RunningFiles, TypeFacts
<1>4. ASSUME ss.files # NULL PROVE table'[ss.files].fd = table[ss.files].fd
  <2>1. ss.files \in Tables /\ files[t] # ss.files
    BY <1>1, <1>4 DEF TypeInv, TypeOK, RefsOK, OwnOK
  <2>2. ASSUME NEW f \in Files, Open(t, f) PROVE table'[ss.files] = table[ss.files]
    <3>1. PICK d : table' = [table EXCEPT ![files[t]].fd[d] = f]
      BY <2>2 DEF Open
    <3>2. QED
      BY <3>1, <2>1, <1>3 DEF TableType
  <2>3. ASSUME NEW fd \in Fds, Close(t, fd) PROVE table'[ss.files] = table[ss.files]
    BY <2>1, <2>3, <1>3 DEF Close, TableType
  <2>4. ASSUME NEW fd \in Fds, NEW o \in 0 .. MaxPos, Seek(t, fd, o) PROVE table'[ss.files] = table[ss.files]
    BY <2>4 DEF Seek
  <2>5. ASSUME Unshare(t) PROVE table'[ss.files] = table[ss.files]
    <3>1. CanAllocate /\ table' = Put(dup_fd(files[t]), files[t])
      BY <2>5 DEF Unshare
    <3>2. NewTable \in Tables /\ Free(NewTable)
      BY <3>1 DEF CanAllocate, NewTable
    <3>3. ss.files # NewTable
      BY <3>2, <1>1, Referred
    <3>4. dup_fd(files[t]) \in TableType /\ dup_fd(files[t])[ss.files] = table[ss.files]
      BY <3>1, <3>3, <2>1, <1>3, DupFacts
    <3>5. QED
      BY <3>1, <3>4, <2>1, <1>3, PutFacts
  <2>6. QED
    BY <2>2, <2>3, <2>4, <2>5 DEF Program
<1>5. torn => torn'
  BY <1>1 DEF Torn
<1>6. QED
  BY <1>1, <1>2, <1>4, <1>5, ContentsStable

\* A new thread shares its creator's table.
LEMMA CloneContents ==
  ASSUME BaseInv, ContentsOK, NEW t \in Threads, NEW new \in Others, Clone(t, new), ~raced'
  PROVE  ContentsOK'
<1>1. /\ TypeInv /\ ~raced /\ torn' = torn /\ new \in Threads /\ new # Tsk /\ files[t] \in Tables
      /\ files' = [files EXCEPT ![new] = files[t]]
      /\ table' = [table EXCEPT ![files[t]].count = @ + 1]
      /\ UNCHANGED <<pos, pc, ss, n, new_files, offsets, at_take, at_restore>>
  BY RunningFiles DEF Clone, Calls, Others, localVars, historyVars, BaseInv
<1>2. files'[Tsk] = files[Tsk]
  BY <1>1, TypeFacts, IndexFacts
<1>3. \A x \in Tables : table'[x].fd = table[x].fd
  BY <1>1, TypeFacts DEF TableType
<1>4. ss.files # NULL => ss.files \in Tables
  BY <1>1 DEF TypeInv, TypeOK
<1>5. pc # "user" => files[Tsk] \in Tables
  BY <1>1, TskRuns, RunningFiles, IndexFacts DEF Running
<1>6. pc \in Busy => new_files \in Tables
  BY <1>1 DEF TypeInv, TypeOK, PlaceOK
<1>7. QED
  BY <1>1, <1>2, <1>3, <1>4, <1>5, <1>6, ContentsStable

\* Steps that change neither a table, nor a position, nor what Tsk is doing.
LEMMA QuietContents ==
  ASSUME BaseInv, ContentsOK, ~raced',
         \/ Kill \/ recover_threads_snapshot \/ UNCHANGED vars
         \/ \E t \in Threads : release_task(t)
  PROVE  ContentsOK'
<1>1. /\ ~raced /\ torn' = torn
      /\ UNCHANGED <<files, table, pos, pc, ss, n, new_files, offsets, at_take, at_restore>>
  <2>1. CASE Kill
    BY <2>1 DEF Kill, localVars, historyVars
  <2>2. CASE recover_threads_snapshot
    BY <2>2 DEF recover_threads_snapshot, historyVars
  <2>3. CASE \E t \in Threads : release_task(t)
    BY <2>3 DEF release_task, localVars
  <2>4. CASE UNCHANGED vars
    BY <2>4 DEF vars, processVars, localVars, historyVars
  <2>5. QED
    BY <2>1, <2>2, <2>3, <2>4
<1>2. QED
  BY <1>1, ContentsStable

\* Steps that end in user mode or at a restore's beginning: only the snapshot counts.
LEMMA IdleContents ==
  ASSUME ContentsOK, ~raced, pc' \in {"user", "take_dup", "kill"},
         pc' = "take_dup" => TakeOK', pc' = "kill" => RestoreOK',
         \/ ss'.made = FALSE
         \/ ss'.files = NULL
         \/ ss' = ss /\ at_take' = at_take /\ table'[ss.files].fd = table[ss.files].fd
  PROVE  ContentsOK'
BY DEF ContentsOK, TakeOK, RestoreOK, FilesRestored, FailedRestoreKeeps, Saved, Loop

LEMMA BoundaryContents ==
  ASSUME BaseInv, ContentsOK, ~raced',
         restore_snapshot \/ Return \/ clean_files_snapshot \/ process_exit \/ exclude_vmrange
  PROVE  ContentsOK'
<1>1. CASE restore_snapshot
  <2>1. /\ ~raced /\ pc' = "kill" /\ at_restore' = View
        /\ UNCHANGED <<ss, at_take, table, files, pos>>
    BY <1>1 DEF restore_snapshot, processVars
  <2>2. at_restore'.fd = table[files[Tsk]].fd /\ at_restore'.pos = pos
    BY <2>1 DEF View
  <2>3. RestoreOK'
    BY <2>1, <2>2 DEF RestoreOK, Loop
  <2>4. QED
    BY <2>1, <2>3, IdleContents
<1>2. CASE Return
  BY <1>2, IdleContents DEF Return, processVars
<1>3. CASE clean_files_snapshot \/ process_exit \/ exclude_vmrange
  <2>1. ~raced /\ pc' = "user" /\ ss'.made = FALSE
    BY <1>3 DEF clean_files_snapshot, process_exit, exclude_vmrange, Calls, NoSnapshot, historyVars
  <2>2. QED
    BY <2>1, IdleContents
<1>4. QED
  BY <1>1, <1>2, <1>3

LEMMA TakeSnapshotContents ==
  ASSUME BaseInv, ContentsOK, ~raced', NEW fds \in BOOLEAN, take_snapshot(fds)
  PROVE  ContentsOK'
<1>1. /\ ~raced /\ pc' \in {"user", "take_dup"} /\ ss' = [NoSnapshot EXCEPT !.data = TRUE, !.made = TRUE, !.fds = fds]
      /\ at_take' = View /\ UNCHANGED <<table, files, pos>>
  BY DEF take_snapshot, processVars
<1>2. at_take'.fd = table[files[Tsk]].fd /\ at_take'.pos = pos /\ ss'.files = NULL
  BY <1>1 DEF View, NoSnapshot
<1>3. pc' = "take_dup" => TakeOK'
  BY <1>1, <1>2 DEF TakeOK
<1>4. QED
  BY <1>1, <1>2, <1>3, IdleContents

LEMMA TakeDupContents ==
  ASSUME BaseInv, ContentsOK, ~raced', take_dup
  PROVE  ContentsOK'
<1>1. /\ TypeInv /\ RefsOK /\ ~raced /\ pc = "take_dup" /\ ss.files = NULL /\ files[Tsk] \in Tables
      /\ UNCHANGED <<files, pos, ss, at_take, at_restore, torn>>
  BY RunningFiles, IndexFacts DEF take_dup, historyVars, BaseInv, TypeInv, PlaceOK
<1>2. CASE pc' = "user"
  BY <1>1, <1>2, IdleContents
<1>3. CASE /\ CanAllocate /\ table' = dup_fd(files[Tsk]) /\ new_files' = NewTable
           /\ pc' = "take_save" /\ n' = 0 /\ offsets' = NoOffsets
  <2>1. NewTable \in Tables /\ Free(NewTable)
    BY <1>3 DEF CanAllocate, NewTable
  <2>2. files[Tsk] # NewTable
    BY <2>1, <1>1, Referred, IndexFacts
  <2>3. table'[new_files'].fd = table[files[Tsk]].fd /\ table'[files[Tsk]] = table[files[Tsk]]
    <3>1. /\ dup_fd(files[Tsk])[NewTable] = [count |-> 1, fd |-> table[files[Tsk]].fd]
          /\ \A x \in Tables \ {NewTable} : dup_fd(files[Tsk])[x] = table[x]
      BY <1>1, <1>3, TypeFacts, DupFacts
    <3>2. table'[new_files'] = [count |-> 1, fd |-> table[files[Tsk]].fd]
      BY <3>1, <1>3
    <3>3. QED
      BY <3>1, <3>2, <2>2, <1>1, <1>3
  <2>4. TakeOK'
    BY <2>3, <1>1, <1>3 DEF ContentsOK, TakeOK
  <2>5. QED
    BY <2>4, <1>3 DEF ContentsOK, RestoreOK, FilesRestored, FailedRestoreKeeps, Loop
<1>4. QED
  BY <1>2, <1>3 DEF take_dup

LEMMA SaveContents ==
  ASSUME BaseInv, ContentsOK, ~raced', save_file_offset
  PROVE  ContentsOK'
<1> DEFINE f == table[new_files].fd[n]
<1>1. /\ TypeInv /\ ~raced /\ pc = "take_save" /\ pc' = "take_save" /\ ss.files = NULL /\ n' = n + 1 /\ n < MaxFds
      /\ offsets' = [offsets EXCEPT ![n] = IF f = NULL \/ f \in Unseekable THEN -1 ELSE pos[f]]
      /\ UNCHANGED <<files, table, pos, ss, new_files, at_take>>
  BY DEF save_file_offset, processVars, historyVars, BaseInv, TypeInv, PlaceOK
<1>2. n \in Nat /\ n \in Fds /\ offsets \in [Fds -> -1 .. MaxPos] /\ MaxFds \in Nat
  BY <1>1, FilesAssumption DEF TypeInv, TypeOK, Fds
<1>3. TakeOK'
  <2>1. SUFFICES ASSUME ss.made, at_take.alone PROVE \A d \in 0 .. n : offsets'[d] = Saved(d)
    BY <1>1, <1>2 DEF ContentsOK, TakeOK, Saved
  <2>2. /\ table[new_files].fd = at_take.fd /\ pos = at_take.pos
        /\ \A d \in 0 .. n - 1 : offsets[d] = Saved(d)
    BY <1>1, <2>1 DEF ContentsOK, TakeOK
  <2>3. offsets'[n] = Saved(n)
    BY <1>1, <1>2, <2>2 DEF Saved
  <2>4. ASSUME NEW d \in 0 .. n - 1 PROVE offsets'[d] = Saved(d)
    BY <1>1, <1>2, <2>2, <2>4
  <2>5. \A d \in 0 .. n : d = n \/ d \in 0 .. n - 1
    BY <1>2
  <2>6. QED
    BY <2>3, <2>4, <2>5
<1>4. QED
  BY <1>1, <1>3 DEF ContentsOK, RestoreOK, FilesRestored, FailedRestoreKeeps, Loop

LEMMA TakeDoneContents ==
  ASSUME BaseInv, ContentsOK, ~raced', take_done
  PROVE  ContentsOK'
<1>1. /\ ~raced /\ pc = "take_save" /\ pc' = "user" /\ n = MaxFds
      /\ ss' = [ss EXCEPT !.files = new_files, !.offsets = offsets]
      /\ UNCHANGED <<files, table, pos, at_take>>
  BY DEF take_done, processVars, historyVars
<1>2. ss'.files = new_files /\ ss'.offsets = offsets /\ ss'.made = ss.made
  BY <1>1 DEF BaseInv, TypeInv, RecordsOK
<1>3. TakeOK'
  BY <1>1, <1>2 DEF ContentsOK, TakeOK, Saved, Fds
<1>4. QED
  BY <1>1, <1>3 DEF ContentsOK, RestoreOK, FilesRestored, FailedRestoreKeeps, Loop

LEMMA RecoverFilesContents ==
  ASSUME BaseInv, ContentsOK, ~raced', recover_files_snapshot
  PROVE  ContentsOK'
<1>1. /\ TypeInv /\ RefsOK /\ ~raced /\ pc = "kill" /\ new_files = NULL /\ n = 0
      /\ files[Tsk] \in Tables
      /\ UNCHANGED <<files, pos, ss, at_take, at_restore, torn>>
  BY TskRuns, RunningFiles, IndexFacts
     DEF recover_files_snapshot, historyVars, BaseInv, AloneOK, TypeInv, PlaceOK, Running
<1>2. ~torn => table[files[Tsk]].fd = at_restore.fd /\ pos = at_restore.pos
  BY <1>1 DEF ContentsOK, RestoreOK
<1>3. CASE ~ss.fds /\ pc' = "restored" /\ UNCHANGED <<table, new_files, n>>
  BY <1>1, <1>3 DEF ContentsOK, TakeOK, RestoreOK, FilesRestored, FailedRestoreKeeps, Saved, Loop
<1>4. CASE pc' = "failed" /\ UNCHANGED <<table, n>>
  <2>1. TakeOK' /\ RestoreOK' /\ FilesRestored'
    BY <1>1, <1>2, <1>4 DEF ContentsOK, TakeOK, RestoreOK, FilesRestored, Saved, Loop
  <2>2. FailedRestoreKeeps'
    BY <1>1, <1>2, <1>4 DEF FailedRestoreKeeps, Fds
  <2>3. QED
    BY <2>1, <2>2 DEF ContentsOK
<1>5. CASE /\ ss.files # NULL /\ CanAllocate
           /\ table' = dup_fd(ss.files) /\ new_files' = NewTable /\ pc' = "seek" /\ n' = 0
  <2>1. ss.files \in Tables /\ NewTable \in Tables /\ Free(NewTable)
    BY <1>1, <1>5 DEF TypeInv, TypeOK, CanAllocate, NewTable
  <2>2. files[Tsk] # NewTable /\ ss.files # NewTable
    BY <2>1, <1>1, Referred, IndexFacts
  <2>3. /\ dup_fd(ss.files)[NewTable] = [count |-> 1, fd |-> table[ss.files].fd]
        /\ \A x \in Tables \ {NewTable} : dup_fd(ss.files)[x] = table[x]
    BY <2>1, <1>5, TypeFacts, <1>1, DupFacts
  <2>4. table'[new_files'] = [count |-> 1, fd |-> table[ss.files].fd]
    BY <2>3, <1>5
  <2>5. /\ table'[new_files'].fd = table[ss.files].fd
        /\ table'[files[Tsk]] = table[files[Tsk]] /\ table'[ss.files] = table[ss.files]
    BY <2>1, <2>2, <2>3, <2>4, <1>1, <1>5
  <2>6. TakeOK'
    BY <2>5, <1>1, <1>5 DEF ContentsOK, TakeOK, Saved
  <2>7. RestoreOK'
    BY <2>5, <1>1, <1>2, <1>5 DEF RestoreOK, Loop
  <2>8. QED
    BY <2>6, <2>7, <1>5 DEF ContentsOK, FilesRestored, FailedRestoreKeeps
<1>6. QED
  BY <1>1, <1>3, <1>4, <1>5 DEF recover_files_snapshot, Fail

\* What holds at the seek of descriptor n.
LEMMA SeekFacts ==
  ASSUME BaseInv, ContentsOK, ~raced, ~torn, pc = "seek", n < MaxFds
  PROVE  /\ table[files[Tsk]].fd = at_restore.fd /\ table[new_files].fd = table[ss.files].fd
         /\ \A f \in Files : (\A fd \in Fds : table[ss.files].fd[fd] = f => fd >= n)
                               => pos[f] = at_restore.pos[f]
         /\ at_take.alone => /\ \A fd \in 0 .. n - 1 : Back(fd)
                             /\ table[ss.files].fd = at_take.fd
                             /\ \A fd \in Fds : ss.offsets[fd] = Saved(fd)
<1>1. ss.files # NULL /\ ss.made
  BY DEF BaseInv, TypeInv, TypeOK, PlaceOK
<1>2. QED
  BY <1>1 DEF ContentsOK, TakeOK, RestoreOK

\* The position saved for a descriptor, if there is one, is the one at the snapshot.
LEMMA SavedPosition ==
  ASSUME BaseInv, ContentsOK, ~raced, ~torn, pc = "seek", n < MaxFds, at_take.alone
  PROVE  LET g == table[new_files].fd[n]
         IN  /\ MustSeek(n) => g \notin Unseekable /\ ss.offsets[n] = at_take.pos[g]
             /\ ~MustSeek(n) => g = NULL \/ g \in Unseekable
<1> DEFINE g == table[new_files].fd[n]
<1>1. n \in Fds /\ g = at_take.fd[n] /\ ss.offsets[n] = Saved(n)
  BY SeekFacts, MustSeekFacts DEF BaseInv
<1>2. g \in Files \cup {NULL} /\ at_take.pos \in [Files -> 0 .. MaxPos] /\ MaxPos \in Nat
  BY <1>1, FilesAssumption DEF BaseInv, TypeInv, RecordsOK, Views
<1>3. g \in Files => at_take.pos[g] >= 0
  BY <1>2
<1>4. Saved(n) = IF g = NULL \/ g \in Unseekable THEN -1 ELSE at_take.pos[g]
  BY <1>1 DEF Saved
<1>5. MustSeek(n) <=> g # NULL /\ ss.offsets[n] >= 0
  BY DEF MustSeek
<1> HIDE DEF g
<1>6. (MustSeek(n) => g \notin Unseekable /\ ss.offsets[n] = at_take.pos[g])
        /\ (~MustSeek(n) => g = NULL \/ g \in Unseekable)
  BY <1>1, <1>2, <1>3, <1>4, <1>5
<1>7. QED
  BY <1>6 DEF g

LEMMA RestoreOffsetContents ==
  ASSUME BaseInv, ContentsOK, ~raced', restore_file_offset
  PROVE  ContentsOK'
<1> DEFINE g == table[new_files].fd[n]
<1>1. /\ TypeInv /\ ~raced /\ pc = "seek" /\ pc' = "seek" /\ n < MaxFds /\ n' = n + 1
      /\ pos' = IF MustSeek(n) THEN [pos EXCEPT ![g] = ss.offsets[n]] ELSE pos
      /\ UNCHANGED <<files, table, ss, new_files, at_take, at_restore, torn>>
  BY DEF restore_file_offset, historyVars, BaseInv
<1>2. n \in Fds /\ n \in Nat /\ pos \in [Files -> 0 .. MaxPos] /\ MaxFds \in Nat
  BY <1>1, MustSeekFacts, TypeFacts, FilesAssumption DEF TypeInv, TypeOK
<1>3. TakeOK'
  BY <1>1 DEF ContentsOK, TakeOK, Saved
<1>4. \A h \in Files : h # g => pos'[h] = pos[h]
  BY <1>1, <1>2
<1>5. ASSUME ~torn PROVE RestoreOK'
  <2>1. table[files[Tsk]].fd = at_restore.fd /\ table[new_files].fd = table[ss.files].fd
    BY <1>1, <1>5, SeekFacts
  <2>2. ASSUME NEW f \in Files, \A fd \in Fds : table[ss.files].fd[fd] = f => fd >= n + 1
        PROVE  pos'[f] = at_restore.pos[f]
    <3>1. f # g
      BY <2>1, <2>2, <1>2
    <3>2. \A fd \in Fds : table[ss.files].fd[fd] = f => fd >= n
      BY <2>2, <1>2 DEF Fds
    <3>3. QED
      BY <3>1, <3>2, <1>1, <1>4, <1>5, SeekFacts
  <2>3. ASSUME at_take.alone, NEW fd \in 0 .. n,
               table[ss.files].fd[fd] # NULL, table[ss.files].fd[fd] \notin Unseekable
        PROVE  pos'[table[ss.files].fd[fd]] = at_take.pos[table[ss.files].fd[fd]]
    <3> DEFINE f == table[ss.files].fd[fd]
    <3>1. fd \in Fds /\ f \in Files
      <4>1. fd \in Fds
        BY <1>1, <1>2 DEF Fds
      <4>2. QED
        BY <4>1, <2>3, <1>1, MustSeekFacts, TypeFacts DEF TableType
    <3>2. CASE f = g
      <4>1. MustSeek(n) /\ ss.offsets[n] = at_take.pos[g]
        BY <3>2, <2>3, <1>1, <1>5, SavedPosition
      <4>2. pos'[g] = ss.offsets[n]
        BY <4>1, <3>1, <3>2, <1>1, <1>2
      <4>3. QED
        BY <3>2, <4>1, <4>2
    <3>3. CASE f # g
      <4>1. fd # n
        BY <3>3, <2>1
      <4>2. fd \in 0 .. n - 1
        BY <4>1, <1>2
      <4>3. Back(fd)
        BY <4>2, <2>3, <1>1, <1>5, SeekFacts
      <4>4. pos[f] = at_take.pos[f]
        BY <4>3, <2>3 DEF Back
      <4>5. QED
        BY <4>4, <3>1, <3>3, <1>4
    <3>4. QED
      BY <3>2, <3>3
  <2>4. at_take.alone => \A fd \in 0 .. n : Back(fd)'
    BY <2>3, <1>1 DEF Back
  <2>5. n' - 1 = n
    BY <1>1, <1>2
  <2>6. QED
    BY <2>1, <2>2, <2>4, <2>5, <1>1 DEF RestoreOK, Loop
<1>6. QED
  BY <1>1, <1>3, <1>5 DEF ContentsOK, RestoreOK, FilesRestored, FailedRestoreKeeps

LEMMA SeekFailsContents ==
  ASSUME BaseInv, ContentsOK, ~raced', seek_fails
  PROVE  ContentsOK'
<1> DEFINE g == table[new_files].fd[n]
<1>1. /\ TypeInv /\ RefsOK /\ ~raced /\ pc = "seek" /\ pc' = "failed" /\ n < MaxFds
      /\ new_files \in Tables /\ ss.files \in Tables /\ table' = Put(table, new_files)
      /\ files[Tsk] \in Tables /\ pos \in [Files -> 0 .. MaxPos]
      /\ \E o \in 0 .. MaxPos : pos' = [pos EXCEPT ![g] = o]
      /\ UNCHANGED <<files, ss, n, at_take, at_restore, torn>>
  BY TskRuns, RunningFiles, IndexFacts, MustSeekFacts, TypeFacts, NullFacts
     DEF seek_fails, Fail, historyVars, BaseInv, Running
<1>2. new_files # files[Tsk] /\ new_files # ss.files
  BY <1>1, IndexFacts, NullFacts DEF RefsOK, LoopOK, OwnOK
<1>3. table'[files[Tsk]] = table[files[Tsk]] /\ table'[ss.files] = table[ss.files]
  BY <1>1, <1>2, TypeFacts, PutFacts
<1>4. n \in Fds /\ \A h \in Files : h # g => pos'[h] = pos[h]
  BY <1>1, MustSeekFacts
<1>5. TakeOK'
  BY <1>1, <1>3 DEF ContentsOK, TakeOK, Saved
<1>6. ASSUME ~torn PROVE FailedRestoreKeeps' /\ table'[files[Tsk]].fd = at_restore.fd
  <2>1. table[files[Tsk]].fd = at_restore.fd /\ table[new_files].fd = table[ss.files].fd
    BY <1>1, <1>6, SeekFacts
  <2>2. ASSUME NEW f \in Files
        PROVE  LET saved == {fd \in Fds : ss.files # NULL /\ table[ss.files].fd[fd] = f}
               IN  /\ (\A fd \in saved : fd > n) => pos'[f] = at_restore.pos[f]
                   /\ at_take.alone /\ f \notin Unseekable /\ saved # {} /\ (\A fd \in saved : fd < n)
                        => pos'[f] = at_take.pos[f]
    <3> DEFINE saved == {fd \in Fds : ss.files # NULL /\ table[ss.files].fd[fd] = f}
    <3>1. f = g => n \in saved
      BY <2>1, <1>1, <1>4, NullFacts
    <3>2. \A fd \in Fds : table[ss.files].fd[fd] = f => fd \in saved
      BY <1>1, NullFacts
    <3>3. n \in Int /\ \A fd \in Fds : fd \in Int
      BY <1>4 DEF Fds
    <3>4. ASSUME \A fd \in saved : fd > n PROVE pos'[f] = at_restore.pos[f]
      <4>1. f # g
        BY <3>1, <3>3, <3>4
      <4>2. \A fd \in Fds : table[ss.files].fd[fd] = f => fd >= n
        BY <3>2, <3>3, <3>4
      <4>3. QED
        BY <4>1, <4>2, <1>1, <1>4, <1>6, SeekFacts
    <3>5. ASSUME at_take.alone, f \notin Unseekable, saved # {}, \A fd \in saved : fd < n
          PROVE  pos'[f] = at_take.pos[f]
      <4>1. f # g
        BY <3>1, <3>3, <3>5
      <4>2. PICK fd \in Fds : table[ss.files].fd[fd] = f /\ fd < n
        BY <3>5
      <4>3. fd \in 0 .. n - 1
        BY <4>2, <1>4 DEF Fds
      <4>4. Back(fd)
        BY <4>3, <3>5, <1>1, <1>6, SeekFacts
      <4>5. pos[f] = at_take.pos[f]
        BY <4>2, <4>4, <3>5, NullFacts DEF Back
      <4>6. QED
        BY <4>1, <4>5, <1>4
    <3>6. QED
      BY <3>4, <3>5
  <2>3. QED
    BY <2>1, <2>2, <1>1, <1>3 DEF FailedRestoreKeeps
<1>7. RestoreOK' /\ FilesRestored'
  BY <1>1, <1>6 DEF RestoreOK, FilesRestored, Loop
<1>8. FailedRestoreKeeps'
  BY <1>1, <1>6 DEF FailedRestoreKeeps
<1>9. QED
  BY <1>5, <1>7, <1>8 DEF ContentsOK

LEMMA SeeksDoneContents ==
  ASSUME BaseInv, ContentsOK, ~raced', seeks_done
  PROVE  ContentsOK'
<1>1. /\ ~raced /\ pc = "seek" /\ pc' = "test" /\ n = MaxFds
      /\ UNCHANGED <<files, table, pos, ss, new_files, at_take, at_restore, torn>>
  BY DEF seeks_done, processVars, historyVars
<1>2. TakeOK'
  BY <1>1 DEF ContentsOK, TakeOK, Saved
<1>3. RestoreOK'
  BY <1>1 DEF ContentsOK, RestoreOK, Back, Loop, Fds
<1>4. QED
  BY <1>1, <1>2, <1>3 DEF ContentsOK, FilesRestored, FailedRestoreKeeps

\* The loop over the threads changes who has which table, never what is in it.
LEMMA LoopContents ==
  ASSUME BaseInv, RefsOK', ContentsOK, ~raced', loop_test \/ loop_read \/ loop_assign \/ loop_put
  PROVE  ContentsOK'
<1>1. /\ TypeInv /\ RefsOK /\ ~raced /\ pc \in Loop /\ ss.made
      /\ UNCHANGED <<pos, ss, new_files, at_take, at_restore, torn>>
  <2>1. pc \in Loop /\ ~raced /\ UNCHANGED <<pos, ss, new_files, at_take, at_restore, torn>>
    BY DEF loop_test, loop_read, loop_assign, loop_put, processVars, localVars, historyVars, Loop
  <2>2. QED
    BY <2>1 DEF BaseInv, TypeInv, TypeOK, PlaceOK
<1>2. /\ new_files \in Tables /\ current_old_files \in Tables /\ ss.files \in Tables
      /\ current_old_files # new_files /\ current_old_files # ss.files
  BY <1>1, LoopFacts DEF OwnOK, TypeInv, TypeOK
<1>3. table'[new_files].fd = table[new_files].fd /\ table'[ss.files].fd = table[ss.files].fd
  <2>1. CASE table' = table
    BY <2>1
  <2>2. CASE table' = [table EXCEPT ![new_files].count = @ + 1]
    BY <2>2, <1>1, <1>2, TypeFacts DEF TableType
  <2>3. CASE loop_put
    <3>1. pc = "put" /\ old_files = current_old_files
      BY <2>3, <1>1 DEF loop_put, RefsOK, LoopOK
    <3>2. table' = Put(table, current_old_files)
      BY <3>1, <2>3, <1>2, NullFacts DEF loop_put
    <3>3. QED
      BY <3>2, <1>1, <1>2, TypeFacts, PutFacts
  <2>4. QED
    BY <2>1, <2>2, <2>3 DEF loop_test, loop_read, loop_assign, processVars
<1>4. pc' \in Loop \cup {"restored"}
  <2>1. pc' \in Loop \cup {"restored", "oops"}
    BY DEF loop_test, loop_read, loop_assign, loop_put, NextTask, Loop
  <2>2. pc' # "oops"
    BY DEF RefsOK, CountsExact
  <2>3. QED
    BY <2>1, <2>2
<1>5. TakeOK'
  BY <1>1, <1>2, <1>3, <1>4 DEF ContentsOK, TakeOK, Saved, Loop
<1>6. RestoreOK'
  BY <1>1, <1>3, <1>4 DEF ContentsOK, RestoreOK, Back, Loop
<1>7. FilesRestored'
  <2>1. SUFFICES ASSUME pc' = "restored", ss.fds, ~torn
                 PROVE  /\ table'[files'[Tsk]].fd = table[ss.files].fd
                        /\ at_take.alone => table[ss.files].fd = at_take.fd
                        /\ \A fd \in Fds : at_take.alone => Back(fd)
    BY <1>1, <1>3 DEF FilesRestored, Back
  <2>2. files'[Tsk] = new_files
    BY <2>1, <1>1 DEF RefsOK, LoopOK, Swapped
  <2>3. QED
    BY <2>1, <2>2, <1>1, <1>2, <1>3, NullFacts DEF ContentsOK, TakeOK, RestoreOK
<1>8. FailedRestoreKeeps'
  BY <1>4 DEF FailedRestoreKeeps, Loop
<1>9. QED
  BY <1>5, <1>6, <1>7, <1>8 DEF ContentsOK

LEMMA ContentsPreserved == BaseInv /\ RefsOK' /\ ContentsOK /\ [Next]_vars => ContentsOK'
<1>1. SUFFICES ASSUME BaseInv, RefsOK', ContentsOK, [Next]_vars PROVE ContentsOK'
  OBVIOUS
<1>2. SUFFICES ASSUME ~raced' PROVE ContentsOK'
  BY DEF ContentsOK, TakeOK, RestoreOK, FilesRestored, FailedRestoreKeeps
<1>3. QED
  BY <1>1, <1>2, CallContents, CloneContents, QuietContents, ExitFilesContents, BoundaryContents,
     TakeSnapshotContents, TakeDupContents, SaveContents, TakeDoneContents,
     RecoverFilesContents, RestoreOffsetContents, SeekFailsContents, SeeksDoneContents, LoopContents
     DEF Next, Module, Exit

\* Tables and positions are what each step of take_files_snapshot and
\* recover_files_snapshot relies on (files.c:53-164).
THEOREM ContentsHold == Spec => []ContentsOK
<1>1. Init => ContentsOK
  BY DEF Init, NoSnapshot, ContentsOK, TakeOK, RestoreOK, FilesRestored, FailedRestoreKeeps, Loop
<1>2. BaseInv <=> TypeInv /\ RefsOK /\ AloneOK
  BY DEF BaseInv
<1>3. QED
  BY <1>1, <1>2, ContentsPreserved, FilesTypeInv, RefsHold, AloneHolds, PTL DEF Spec

\* A restore that succeeds gives the process the descriptors of the snapshot and,
\* if it was alone then, the positions, for any number of descriptors that share
\* files (files.c:15-51, 108-157).
THEOREM FilesAreRestored == Spec => []FilesRestored
<1>1. ContentsOK => FilesRestored
  BY DEF ContentsOK
<1>2. QED
  BY <1>1, ContentsHold, PTL

\* A restore that fails at any descriptor leaves the table of the process, and has
\* moved no file it had not come to (files.c:133-136, 159-163).
THEOREM FailureKeepsFiles == Spec => []FailedRestoreKeeps
<1>1. ContentsOK => FailedRestoreKeeps
  BY DEF ContentsOK
<1>2. QED
  BY <1>1, ContentsHold, PTL
=============================================================================
