--------------------------- MODULE TaskDataProofs ---------------------------
(***************************************************************************)
(* The promises of TaskData for any number of tasks, CPUs and task_datas.  *)
(* The argument: a task_data is added and removed by the task it belongs   *)
(* to and by nobody else, and while that task invalidates the cache it     *)
(* fills no entry; so the CPUs the loop has passed stay free of it.        *)
(***************************************************************************)
EXTENDS TaskData, TLAPS

Own(t, d) == d \in Datas /\ heap[d].state = "listed" /\ heap[d].tsk = t

Invalidates(t) == op[t] \in {"inv_test", "inv_task", "inv_data"}
Cleans(t)      == op[t] = "unlink" \/ (Invalidates(t) /\ ret[t] = "unlink")

\* No task has two task_datas, and only users have one; a dead task is in no call.
HeapOK ==
  /\ \A d, e \in Datas : heap[d].state = "listed" /\ heap[e].state = "listed" /\
                           heap[d].tsk = heap[e].tsk => d = e
  /\ \A d \in Datas : heap[d].state = "listed" => heap[d].tsk \in users
  /\ \A t \in Tasks : t \notin alive => op[t] = "user"
  /\ \A t \in Tasks : Invalidates(t) \/ op[t] = "unlink" => t \in users

\* What a task holds in its local variable is its own.
DataOK ==
  \A t \in Tasks :
    /\ op[t] \in {"fill_task", "fill_data", "hook"} /\ data[t] # NULL => Own(t, data[t])
    /\ Cleans(t) => Own(t, data[t])

\* One task at a time works on the entry of a CPU, and nobody else puts a task
\* there meanwhile.
EntryOK ==
  /\ \A t, u \in Tasks : InCache(t) /\ InCache(u) /\ cpu[t] = cpu[u] => t = u
  /\ \A t \in Tasks : op[t] \in {"hit", "fill_data"} => cache[cpu[t]].task \in {t, NULL}
  /\ \A t \in Tasks : op[t] = "hit" /\ cache[cpu[t]].data # NULL => Own(t, cache[cpu[t]].data)

\* The entries nobody works on.
CacheOK ==
  \A c \in Cpus : \/ cache[c].task = NULL \/ cache[c].data = NULL
                  \/ Own(cache[c].task, cache[c].data)
                  \/ \E t \in Tasks : InCache(t) /\ cpu[t] = c

\* The loop of invalidate_task_data_cache has cleared the CPUs behind it.
LoopOK ==
  \A t \in Tasks :
    /\ Invalidates(t) => \A c \in Cpus : c < i[t] => cache[c].task # t
    /\ op[t] \in {"inv_task", "inv_data"} => i[t] \in Cpus
    /\ op[t] = "inv_data" => cache[i[t]].task # t
    /\ op[t] = "unlink" => \A c \in Cpus : cache[c].task # t

\* A process on its way out has given its snapshot back, or is about to.
ExitOK ==
  /\ \A t \in dying : Invalidates(t) => ret[t] = "unlink"
  /\ \A t \in dying : ~Cleans(t) => \A d \in Datas : Own(t, d) => ~heap[d].had
  /\ \A d \in Datas : heap[d].state = "listed" /\ heap[d].had => heap[d].tsk \in alive

\* With a single user, a NULL in the cache or in its hand means that there is no
\* snapshot, or that the loop has yet to come to that entry.
NoSnapshot(t) == \A d \in Datas : Own(t, d) => ~heap[d].made

FreshOK ==
  \A t \in Tasks : users \subseteq {t} =>
    /\ \A c \in Cpus : cache[c].task = t /\ cache[c].data = NULL =>
         \/ op[t] = "fill_data" /\ cpu[t] = c
         \/ NoSnapshot(t)
         \/ Invalidates(t) /\ c >= i[t]
    /\ op[t] = "hit" => cache[cpu[t]].task = t
    /\ op[t] \in {"fill_task", "fill_data", "hook"} /\ data[t] = NULL => NoSnapshot(t)

CacheInv == TypeOK /\ HeapOK /\ DataOK /\ EntryOK /\ CacheOK /\ LoopOK /\ ExitOK /\ FreshOK

-----------------------------------------------------------------------------
\* get_task_data finds the one task_data of its task, or there is none.
LEMMA Found ==
  ASSUME NEW t \in Tasks
  PROVE  \/ get_task_data(t) = NULL /\ \A d \in Datas : ~Own(t, d)
         \/ get_task_data(t) # NULL /\ Own(t, get_task_data(t))
BY TaskDataAssumption DEF get_task_data, Own

\* ensure_task_data gives a task the one it has, or one nobody has.
LEMMA Ensures ==
  ASSUME NEW t \in Tasks, NEW d \in Datas, CacheInv, ensure_task_data(t, d)
  PROVE  /\ \A e \in Datas : Own(t, e) => e = d
         /\ heap[d].state = "listed" => heap[d].tsk = t
<1>1. CASE get_task_data(t) = NULL
  BY <1>1, Found DEF ensure_task_data, Own
<1>2. CASE get_task_data(t) # NULL
  BY <1>2, Found DEF ensure_task_data, Own, CacheInv, HeapOK
<1>3. QED
  BY <1>1, <1>2

\* The two ways a task_data is changed in place.
DataRecords == [state : {"listed", "removed", "free"}, tsk : Tasks \cup {NULL},
                made : BOOLEAN, had : BOOLEAN]

LEMMA ChangedRecord ==
  ASSUME NEW h \in DataRecords
  PROVE  /\ [h EXCEPT !.state = "removed", !.made = FALSE] \in DataRecords
         /\ [h EXCEPT !.state = "removed", !.made = FALSE].state = "removed"
         /\ [h EXCEPT !.made = TRUE, !.had = TRUE] \in DataRecords
         /\ [h EXCEPT !.made = TRUE, !.had = TRUE].state = h.state
         /\ [h EXCEPT !.made = TRUE, !.had = TRUE].tsk = h.tsk
<1>1. [h EXCEPT !.state = "removed", !.made = FALSE] \in DataRecords
  BY DEF DataRecords
<1>2. [h EXCEPT !.made = TRUE, !.had = TRUE] \in DataRecords
  BY DEF DataRecords
<1>3. QED
  BY <1>1, <1>2 DEF DataRecords

LEMMA InitInv == Init => CacheInv
<1> SUFFICES ASSUME Init PROVE CacheInv
  OBVIOUS
<1> USE TaskDataAssumption DEF Init, Cpus
<1>1. TypeOK
  BY DEF TypeOK, Ops
<1>2. HeapOK /\ DataOK /\ LoopOK
  BY DEF HeapOK, DataOK, LoopOK, Own, Cleans, Invalidates
<1>3. EntryOK /\ CacheOK
  BY DEF EntryOK, CacheOK, Own, InCache
<1>4. ExitOK /\ FreshOK
  BY DEF ExitOK, FreshOK, Own, Cleans, Invalidates, NoSnapshot
<1>5. QED
  BY <1>1, <1>2, <1>3, <1>4 DEF CacheInv

-----------------------------------------------------------------------------
(* The scheduler and the processes. *)

LEMMA SpawnKeeps ==
  ASSUME NEW t \in Tasks, CacheInv, Spawn(t)
  PROVE  CacheInv'
<1> USE TaskDataAssumption DEF CacheInv, TypeOK, Cpus, Spawn
<1>0. op' = op
  BY DEF HeapOK, Spawn
<1>1. TypeOK'
  BY <1>0 DEF Ops
<1>2. HeapOK'
  BY <1>0 DEF HeapOK, Invalidates
<1>3. DataOK'
  BY <1>0 DEF DataOK, Own, Cleans, Invalidates
<1>4. EntryOK'
  BY <1>0 DEF EntryOK, Own, InCache
<1>5. CacheOK'
  BY <1>0 DEF CacheOK, Own, InCache
<1>6. LoopOK'
  BY <1>0 DEF LoopOK, Invalidates
<1>7. ExitOK'
  BY <1>0 DEF ExitOK, Own, Cleans, Invalidates
<1>8. FreshOK'
  BY <1>0 DEF FreshOK, NoSnapshot, Own, Invalidates
<1>9. QED
  BY <1>1, <1>2, <1>3, <1>4, <1>5, <1>6, <1>7, <1>8

LEMMA MigrateKeeps ==
  ASSUME NEW t \in Tasks, CacheInv, NEW c \in Cpus, Migrate(t, c)
  PROVE  CacheInv'
<1> USE TaskDataAssumption DEF CacheInv, TypeOK, Cpus, Migrate
<1>1. TypeOK'
  BY DEF Ops
<1>2. HeapOK'
  BY DEF HeapOK, Invalidates
<1>3. DataOK'
  BY DEF DataOK, Own, Cleans, Invalidates
<1>4. EntryOK'
  BY DEF EntryOK, Own, InCache
<1>5. CacheOK'
  BY DEF CacheOK, Own, InCache
<1>6. LoopOK'
  BY DEF LoopOK, Invalidates
<1>7. ExitOK'
  BY DEF ExitOK, Own, Cleans, Invalidates
<1>8. FreshOK'
  <2>1. op[t] \notin {"hit", "fill_data"} /\ \A u \in Tasks \ {t} : cpu'[u] = cpu[u]
    BY DEF InCache
  <2>2. SUFFICES ASSUME NEW u \in Tasks, users \subseteq {u}
                 PROVE  (/\ \A x \in Cpus : cache[x].task = u /\ cache[x].data = NULL =>
                              \/ op[u] = "fill_data" /\ cpu[u] = x
                              \/ NoSnapshot(u)
                              \/ Invalidates(u) /\ x >= i[u]
                         /\ op[u] = "hit" => cache[cpu[u]].task = u
                         /\ op[u] \in {"fill_task", "fill_data", "hook"} /\ data[u] = NULL =>
                              NoSnapshot(u))'
    BY DEF FreshOK
  <2>3. (NoSnapshot(u)' <=> NoSnapshot(u)) /\ (Invalidates(u)' <=> Invalidates(u))
    BY DEF NoSnapshot, Own, Invalidates
  <2>4. op[u] \in {"hit", "fill_data"} => cpu'[u] = cpu[u]
    BY <2>1
  <2>5. QED
    BY <2>2, <2>3, <2>4 DEF FreshOK
<1>9. QED
  BY <1>1, <1>2, <1>3, <1>4, <1>5, <1>6, <1>7, <1>8

LEMMA DieKeeps ==
  ASSUME NEW t \in Tasks, CacheInv, Die(t)
  PROVE  CacheInv'
<1> USE TaskDataAssumption DEF CacheInv, TypeOK, Cpus, Die, At, Runs
<1>1. TypeOK'
  BY DEF Ops
<1>2. HeapOK'
  BY DEF HeapOK, Invalidates
<1>3. DataOK'
  BY DEF DataOK, Own, Cleans, Invalidates
<1>4. EntryOK'
  BY DEF EntryOK, Own, InCache
<1>5. CacheOK'
  BY DEF CacheOK, Own, InCache
<1>6. LoopOK'
  BY DEF LoopOK, Invalidates
<1>7. ExitOK'
  BY DEF ExitOK, Own, Cleans, Invalidates, HeapOK
<1>8. FreshOK'
  BY DEF FreshOK, NoSnapshot, Own, Invalidates
<1>9. QED
  BY <1>1, <1>2, <1>3, <1>4, <1>5, <1>6, <1>7, <1>8

-----------------------------------------------------------------------------
(* The hooks. *)

LEMMA FaultKeeps ==
  ASSUME NEW t \in Tasks, CacheInv, Fault(t)
  PROVE  CacheInv'
<1> USE TaskDataAssumption DEF CacheInv, TypeOK, Cpus
<1>a. /\ op[t] = "user" /\ t \in alive
      /\ \A u \in alive \ {t} : cpu[u] = cpu[t] => ~InCache(u)
      /\ UNCHANGED <<users, alive, dying, cpu, i, ret, cache, heap>>
  BY DEF Fault, At, Runs
<1>b. PICK o \in {"hit", "fill_task"}, v \in Datas \cup {NULL} :
        /\ op' = [op EXCEPT ![t] = o] /\ data' = [data EXCEPT ![t] = v]
        /\ o = "hit" => cache[cpu[t]].task = t
        /\ o = "fill_task" => Own(t, v) \/ (v = NULL /\ \A d \in Datas : ~Own(t, d))
  <2>1. CASE cache[cpu[t]].task = t /\ Goto(t, "hit") /\ UNCHANGED data
    <3>1. data' = [data EXCEPT ![t] = data[t]] /\ data[t] \in Datas \cup {NULL}
      BY <2>1
    <3>2. QED
      BY <2>1, <3>1 DEF Goto
  <2>2. CASE Goto(t, "fill_task") /\ data' = [data EXCEPT ![t] = get_task_data(t)]
    <3>1. get_task_data(t) \in Datas \cup {NULL}
      BY Found DEF Own
    <3>2. QED
      BY <2>2, <3>1, Found DEF Goto
  <2>3. QED
    BY <2>1, <2>2 DEF Fault
<1>1. TypeOK'
  BY <1>a, <1>b DEF Ops
<1>2. HeapOK'
  BY <1>a, <1>b DEF HeapOK, Invalidates
<1>3. DataOK'
  BY <1>a, <1>b DEF DataOK, Own, Cleans, Invalidates
<1>4. EntryOK'
  <2>1. \A u \in Tasks \ {t} : (InCache(u)' <=> InCache(u)) /\ (InCache(u) => cpu[u] # cpu[t])
    BY <1>a, <1>b DEF InCache, HeapOK
  <2>2. \A c \in Cpus : (\E u \in Tasks : InCache(u) /\ cpu[u] = c) => c # cpu[t]
    BY <1>a, <2>1 DEF InCache
  <2>3. cache[cpu[t]].task = t /\ cache[cpu[t]].data # NULL => Own(t, cache[cpu[t]].data)
    BY <2>2 DEF CacheOK
  <2>4. (\A u, w \in Tasks : InCache(u) /\ InCache(w) /\ cpu[u] = cpu[w] => u = w)'
    BY <1>a, <2>1 DEF EntryOK
  <2>5. (\A u \in Tasks : op[u] \in {"hit", "fill_data"} => cache[cpu[u]].task \in {u, NULL})'
    BY <1>a, <1>b DEF EntryOK
  <2>6. (\A u \in Tasks : op[u] = "hit" /\ cache[cpu[u]].data # NULL =>
                            Own(u, cache[cpu[u]].data))'
    BY <1>a, <1>b, <2>3 DEF EntryOK, Own
  <2>7. QED
    BY <2>4, <2>5, <2>6 DEF EntryOK
<1>5. CacheOK'
  BY <1>a, <1>b DEF CacheOK, Own, InCache
<1>6. LoopOK'
  BY <1>a, <1>b DEF LoopOK, Invalidates
<1>7. ExitOK'
  BY <1>a, <1>b DEF ExitOK, Own, Cleans, Invalidates
<1>8. FreshOK'
  BY <1>a, <1>b DEF FreshOK, NoSnapshot, Own, Invalidates
<1>9. QED
  BY <1>1, <1>2, <1>3, <1>4, <1>5, <1>6, <1>7, <1>8

LEMMA HitKeeps ==
  ASSUME NEW t \in Tasks, CacheInv, hit(t)
  PROVE  CacheInv'
<1> USE TaskDataAssumption DEF CacheInv, TypeOK, Cpus, At, Goto, hit
<1>1. TypeOK'
  BY DEF Ops
<1>2. HeapOK'
  BY DEF HeapOK, Invalidates
<1>3. DataOK'
  BY DEF DataOK, Own, Cleans, Invalidates, EntryOK
<1>4. EntryOK'
  BY DEF EntryOK, Own, InCache
<1>5. CacheOK'
  BY DEF CacheOK, Own, InCache, EntryOK
<1>6. LoopOK'
  BY DEF LoopOK, Invalidates
<1>7. ExitOK'
  BY DEF ExitOK, Own, Cleans, Invalidates
<1>8. FreshOK'
  BY DEF FreshOK, NoSnapshot, Own, Invalidates
<1>9. QED
  BY <1>1, <1>2, <1>3, <1>4, <1>5, <1>6, <1>7, <1>8

LEMMA FillTaskKeeps ==
  ASSUME NEW t \in Tasks, CacheInv, fill_task(t)
  PROVE  CacheInv'
<1> USE TaskDataAssumption DEF CacheInv, TypeOK, Cpus, At, Goto, fill_task
<1>1. TypeOK'
  BY DEF Ops
<1>2. HeapOK'
  BY DEF HeapOK, Invalidates
<1>3. DataOK'
  BY DEF DataOK, Own, Cleans, Invalidates
<1>4. EntryOK'
  BY DEF EntryOK, Own, InCache
<1>5. CacheOK'
  BY DEF CacheOK, Own, InCache
<1>6. LoopOK'
  BY DEF LoopOK, Invalidates
<1>7. ExitOK'
  BY DEF ExitOK, Own, Cleans, Invalidates
<1>8. FreshOK'
  BY DEF FreshOK, NoSnapshot, Own, Invalidates, EntryOK, InCache
<1>9. QED
  BY <1>1, <1>2, <1>3, <1>4, <1>5, <1>6, <1>7, <1>8

LEMMA FillDataKeeps ==
  ASSUME NEW t \in Tasks, CacheInv, fill_data(t)
  PROVE  CacheInv'
<1> USE TaskDataAssumption DEF CacheInv, TypeOK, Cpus, At, Goto, fill_data
<1>1. TypeOK'
  BY DEF Ops
<1>2. HeapOK'
  BY DEF HeapOK, Invalidates
<1>3. DataOK'
  BY DEF DataOK, Own, Cleans, Invalidates
<1>4. EntryOK'
  BY DEF EntryOK, Own, InCache
<1>5. CacheOK'
  BY DEF CacheOK, Own, InCache, EntryOK, DataOK
<1>6. LoopOK'
  BY DEF LoopOK, Invalidates
<1>7. ExitOK'
  BY DEF ExitOK, Own, Cleans, Invalidates
<1>8. FreshOK'
  BY DEF FreshOK, NoSnapshot, Own, Invalidates, EntryOK
<1>9. QED
  BY <1>1, <1>2, <1>3, <1>4, <1>5, <1>6, <1>7, <1>8

LEMMA HookKeeps ==
  ASSUME NEW t \in Tasks, CacheInv, hook(t)
  PROVE  CacheInv'
<1> USE TaskDataAssumption DEF CacheInv, TypeOK, Cpus, At, Goto, hook
<1>1. TypeOK'
  BY DEF Ops
<1>2. HeapOK'
  BY DEF HeapOK, Invalidates
<1>3. DataOK'
  BY DEF DataOK, Own, Cleans, Invalidates
<1>4. EntryOK'
  BY DEF EntryOK, Own, InCache
<1>5. CacheOK'
  BY DEF CacheOK, Own, InCache
<1>6. LoopOK'
  BY DEF LoopOK, Invalidates
<1>7. ExitOK'
  BY DEF ExitOK, Own, Cleans, Invalidates
<1>8. FreshOK'
  BY DEF FreshOK, NoSnapshot, Own, Invalidates
<1>9. QED
  BY <1>1, <1>2, <1>3, <1>4, <1>5, <1>6, <1>7, <1>8

-----------------------------------------------------------------------------
(* The ioctls and the exit of a process. *)

LEMMA VmrangeKeeps ==
  ASSUME NEW t \in Tasks, CacheInv, vmrange(t)
  PROVE  CacheInv'
<1> USE TaskDataAssumption DEF CacheInv, TypeOK, Cpus
<1>a. op[t] = "user" /\ t \in alive \cap users /\ UNCHANGED <<taskVars, cache>>
  BY DEF vmrange, MayCall, At, Runs
<1>b. PICK d \in Datas : ensure_task_data(t, d) /\ heap' = Ensured(t, d, heap)
  BY DEF vmrange
<1>c. \A e \in Datas : Own(t, e) => e = d
  BY <1>b, Ensures
<1>d. heap[d].state = "listed" => UNCHANGED vars
  BY <1>a, <1>b DEF Ensured, vars
<1>e. CASE UNCHANGED vars
  BY <1>e DEF vars, taskVars, HeapOK, DataOK, EntryOK, CacheOK, LoopOK, ExitOK, FreshOK, Own,
              Invalidates, Cleans, NoSnapshot, InCache
<1>f. SUFFICES ASSUME heap[d].state # "listed" PROVE CacheInv'
  BY <1>d, <1>e
<1>g. heap' = [heap EXCEPT ![d] = [state |-> "listed", tsk |-> t, made |-> FALSE, had |-> FALSE]]
  BY <1>b, <1>f DEF Ensured
<1>h. UNCHANGED <<users, alive, dying, op, cpu, data, i, ret, cache>>
  BY <1>a DEF taskVars
<1>1. TypeOK'
  BY <1>a, <1>c, <1>f, <1>g, <1>h DEF Ops
<1>2. HeapOK'
  BY <1>a, <1>c, <1>f, <1>g, <1>h DEF HeapOK, Invalidates, Own
<1>3. DataOK'
  BY <1>a, <1>c, <1>f, <1>g, <1>h DEF DataOK, Own, Cleans, Invalidates
<1>4. EntryOK'
  BY <1>a, <1>c, <1>f, <1>g, <1>h DEF EntryOK, Own, InCache
<1>5. CacheOK'
  BY <1>a, <1>c, <1>f, <1>g, <1>h DEF CacheOK, Own, InCache
<1>6. LoopOK'
  BY <1>a, <1>c, <1>f, <1>g, <1>h DEF LoopOK, Invalidates
<1>7. ExitOK'
  BY <1>a, <1>c, <1>f, <1>g, <1>h DEF ExitOK, Own, Cleans, Invalidates
<1>8. FreshOK'
  BY <1>a, <1>c, <1>f, <1>g, <1>h DEF FreshOK, NoSnapshot, Own, Invalidates
<1>9. QED
  BY <1>1, <1>2, <1>3, <1>4, <1>5, <1>6, <1>7, <1>8

LEMMA TakeKeeps ==
  ASSUME NEW t \in Tasks, CacheInv, take_snapshot(t)
  PROVE  CacheInv'
<1> USE TaskDataAssumption DEF CacheInv, TypeOK, Cpus
<1>a. /\ op[t] = "user" /\ t \in alive /\ t \in users /\ t \notin dying
      /\ op' = [op EXCEPT ![t] = "inv_test"]
      /\ i' = [i EXCEPT ![t] = 1] /\ ret' = [ret EXCEPT ![t] = "user"]
      /\ UNCHANGED <<users, alive, dying, cpu, data, cache>>
  BY DEF take_snapshot, MayCall, At, Runs, invalidate_task_data_cache, Goto
<1>b. PICK d \in Datas :
        /\ ensure_task_data(t, d)
        /\ heap' = [Ensured(t, d, heap) EXCEPT ![d].made = TRUE, ![d].had = TRUE]
  BY DEF take_snapshot
<1>c. (\A e \in Datas : Own(t, e) => e = d) /\ (heap[d].state = "listed" => heap[d].tsk = t)
  BY <1>b, Ensures
<1>d. PICK r \in DataRecords :
        heap' = [heap EXCEPT ![d] = r] /\ r.state = "listed" /\ r.tsk = t
  <2>1. CASE heap[d].state = "listed"
    <3>1. heap[d] \in DataRecords
      BY DEF DataRecords
    <3>2. heap' = [heap EXCEPT ![d] = [heap[d] EXCEPT !.made = TRUE, !.had = TRUE]]
      BY <1>b, <2>1 DEF Ensured
    <3>3. PICK r : r = [heap[d] EXCEPT !.made = TRUE, !.had = TRUE]
      OBVIOUS
    <3>4. r \in DataRecords /\ r.state = "listed" /\ r.tsk = t
      BY <1>c, <2>1, <3>1, <3>3, ChangedRecord, Zenon
    <3>5. QED
      BY <3>2, <3>3, <3>4, Zenon
  <2>2. CASE heap[d].state # "listed"
    <3>1. heap' = [heap EXCEPT ![d] = [state |-> "listed", tsk |-> t, made |-> TRUE, had |-> TRUE]]
      BY <1>b, <2>2 DEF Ensured
    <3>2. PICK r : r = [state |-> "listed", tsk |-> t, made |-> TRUE, had |-> TRUE]
      OBVIOUS
    <3>3. r \in DataRecords /\ r.state = "listed" /\ r.tsk = t
      BY <3>2 DEF DataRecords
    <3>4. QED
      BY <3>1, <3>2, <3>3, Zenon
  <2>3. QED
    BY <2>1, <2>2
<1>e. /\ \A u \in Tasks : InCache(u)' <=> InCache(u)
      /\ \A u, e : Own(u, e) => Own(u, e)'
  BY <1>a, <1>c, <1>d DEF InCache, Own
<1>1. TypeOK'
  BY <1>a, <1>c, <1>d DEF Ops, DataRecords
<1>2. HeapOK'
  BY <1>a, <1>c, <1>d DEF HeapOK, Invalidates, Own
<1>3. DataOK'
  BY <1>a, <1>c, <1>d DEF DataOK, Own, Cleans, Invalidates
<1>4. EntryOK'
  BY <1>a, <1>c, <1>d DEF EntryOK, Own, InCache
<1>5. CacheOK'
  BY <1>a, <1>c, <1>d, <1>e DEF CacheOK
<1>6. LoopOK'
  BY <1>a, <1>c, <1>d DEF LoopOK, Invalidates
<1>7. ExitOK'
  BY <1>a, <1>c, <1>d DEF ExitOK, Own, Cleans, Invalidates
<1>8. FreshOK'
  BY <1>a, <1>c, <1>d DEF FreshOK, NoSnapshot, Own, Invalidates
<1>9. QED
  BY <1>1, <1>2, <1>3, <1>4, <1>5, <1>6, <1>7, <1>8

\* clean_snapshot, from the ioctl and from the exit hooks.
LEMMA CleanKeeps ==
  ASSUME NEW t \in Tasks, CacheInv, t \in alive, t \notin dying, op[t] = "user",
         clean_snapshot(t), dying' = dying \/ dying' = dying \cup {t}
  PROVE  CacheInv'
<1> USE TaskDataAssumption DEF CacheInv, TypeOK, Cpus
<1>a. /\ op' = [op EXCEPT ![t] = "inv_test"]
      /\ i' = [i EXCEPT ![t] = 1] /\ ret' = [ret EXCEPT ![t] = "unlink"]
      /\ UNCHANGED <<users, alive, cpu, cache, heap>>
  BY DEF clean_snapshot, invalidate_task_data_cache, Goto
<1>b. PICK d \in Datas : Own(t, d) /\ data' = [data EXCEPT ![t] = d]
  BY Found DEF clean_snapshot, Own
<1>c. t \in users
  BY <1>b DEF HeapOK, Own
<1>1. TypeOK'
  BY <1>a, <1>b, <1>c DEF Ops
<1>2. HeapOK'
  BY <1>a, <1>b, <1>c DEF HeapOK, Invalidates
<1>3. DataOK'
  BY <1>a, <1>b, <1>c DEF DataOK, Own, Cleans, Invalidates
<1>4. EntryOK'
  BY <1>a, <1>b, <1>c DEF EntryOK, Own, InCache
<1>5. CacheOK'
  BY <1>a, <1>b, <1>c DEF CacheOK, Own, InCache
<1>6. LoopOK'
  BY <1>a, <1>b, <1>c DEF LoopOK, Invalidates
<1>7. ExitOK'
  BY <1>a, <1>b, <1>c DEF ExitOK, Own, Cleans, Invalidates
<1>8. FreshOK'
  BY <1>a, <1>b, <1>c DEF FreshOK, NoSnapshot, Own, Invalidates
<1>9. QED
  BY <1>1, <1>2, <1>3, <1>4, <1>5, <1>6, <1>7, <1>8

LEMMA ExitKeeps ==
  ASSUME NEW t \in Tasks, CacheInv, process_exit(t)
  PROVE  CacheInv'
<1> USE TaskDataAssumption DEF CacheInv, TypeOK, Cpus
<1>a. /\ op[t] = "user" /\ t \in alive /\ t \notin dying
      /\ dying' = dying \cup {t}
  BY DEF process_exit, At, Runs
<1>b. CASE clean_snapshot(t)
  BY <1>a, <1>b, CleanKeeps
<1>c. SUFFICES ASSUME ~(get_task_data(t) # NULL /\ heap[get_task_data(t)].had),
                      UNCHANGED <<users, alive, op, cpu, data, i, ret, cache, heap>>
               PROVE  CacheInv'
  BY <1>b DEF process_exit
<1>d. \A d \in Datas : Own(t, d) => ~heap[d].had
  BY <1>c, Found DEF HeapOK, Own
<1>1. TypeOK'
  BY <1>a, <1>c, <1>d DEF Ops
<1>2. HeapOK'
  BY <1>a, <1>c, <1>d DEF HeapOK, Invalidates
<1>3. DataOK'
  BY <1>a, <1>c, <1>d DEF DataOK, Own, Cleans, Invalidates
<1>4. EntryOK'
  BY <1>a, <1>c, <1>d DEF EntryOK, Own, InCache
<1>5. CacheOK'
  BY <1>a, <1>c, <1>d DEF CacheOK, Own, InCache
<1>6. LoopOK'
  BY <1>a, <1>c, <1>d DEF LoopOK, Invalidates
<1>7. ExitOK'
  BY <1>a, <1>c, <1>d DEF ExitOK, Own, Cleans, Invalidates
<1>8. FreshOK'
  BY <1>a, <1>c, <1>d DEF FreshOK, NoSnapshot, Own, Invalidates
<1>9. QED
  BY <1>1, <1>2, <1>3, <1>4, <1>5, <1>6, <1>7, <1>8

LEMMA InvTestKeeps ==
  ASSUME NEW t \in Tasks, CacheInv, invalidate_test(t)
  PROVE  CacheInv'
<1> USE TaskDataAssumption DEF CacheInv, TypeOK, Cpus
<1>a. op[t] = "inv_test" /\ UNCHANGED <<users, alive, dying, cpu, data, ret, cache, heap>>
  BY DEF invalidate_test, At
<1>b. PICK o \in {"inv_test", "inv_task", "user", "unlink"}, k \in 1 .. NCpus + 1 :
        /\ op' = [op EXCEPT ![t] = o] /\ i' = [i EXCEPT ![t] = k]
        /\ o = "inv_test" => k = i[t] + 1 /\ cache[i[t]].task # t
        /\ o = "inv_task" => k = i[t] /\ k \in Cpus
        /\ o \in {"user", "unlink"} => o = ret[t] /\ i[t] > NCpus
  <2>1. CASE i[t] > NCpus /\ Goto(t, ret[t]) /\ i' = [i EXCEPT ![t] = 1]
    <3>1. ret[t] \in {"user", "unlink"} /\ 1 \in 1 .. NCpus + 1
      OBVIOUS
    <3>2. op' = [op EXCEPT ![t] = ret[t]] /\ i' = [i EXCEPT ![t] = 1] /\ i[t] > NCpus
      BY <2>1 DEF Goto
    <3>3. QED
      BY <3>1, <3>2
  <2>2. CASE i[t] <= NCpus /\ cache[i[t]].task = t /\ Goto(t, "inv_task") /\ UNCHANGED i
    BY <2>2 DEF Goto
  <2>3. CASE i[t] <= NCpus /\ cache[i[t]].task # t /\ i' = [i EXCEPT ![t] = @ + 1] /\ UNCHANGED op
    <3>1. op' = [op EXCEPT ![t] = "inv_test"] /\ i' = [i EXCEPT ![t] = i[t] + 1]
      BY <1>a, <2>3
    <3>2. QED
      BY <2>3, <3>1
  <2>4. QED
    BY <2>1, <2>2, <2>3 DEF invalidate_test
<1>c. \A u \in Tasks : InCache(u)' <=> InCache(u)
  BY <1>a, <1>b DEF InCache
<1>1. TypeOK'
  BY <1>a, <1>b DEF Ops
<1>2. HeapOK'
  BY <1>a, <1>b DEF HeapOK, Invalidates
<1>3. DataOK'
  BY <1>a, <1>b DEF DataOK, Own, Cleans, Invalidates
<1>4. EntryOK'
  BY <1>a, <1>b, <1>c DEF EntryOK, Own
<1>5. CacheOK'
  BY <1>a, <1>b, <1>c DEF CacheOK, Own
<1>6. LoopOK'
  BY <1>a, <1>b DEF LoopOK, Invalidates
<1>7. ExitOK'
  BY <1>a, <1>b DEF ExitOK, Own, Cleans, Invalidates
<1>8. FreshOK'
  BY <1>a, <1>b DEF FreshOK, NoSnapshot, Own, Invalidates, LoopOK
<1>9. QED
  BY <1>1, <1>2, <1>3, <1>4, <1>5, <1>6, <1>7, <1>8

LEMMA InvTaskKeeps ==
  ASSUME NEW t \in Tasks, CacheInv, invalidate_task(t)
  PROVE  CacheInv'
<1> USE TaskDataAssumption DEF CacheInv, TypeOK, Cpus, At, Goto, invalidate_task
<1>b. i[t] \in Cpus /\ cache[i[t]] \in [task : Tasks \cup {NULL}, data : Datas \cup {NULL}]
  BY DEF LoopOK
<1>c. cache' \in [Cpus -> [task : Tasks \cup {NULL}, data : Datas \cup {NULL}]]
  BY <1>b
<1>a. \A u \in Tasks : InCache(u)' <=> InCache(u)
  BY DEF InCache
<1>1. TypeOK'
  BY <1>b, <1>c DEF Ops
<1>2. HeapOK'
  BY DEF HeapOK, Invalidates
<1>3. DataOK'
  BY DEF DataOK, Own, Cleans, Invalidates
<1>4. EntryOK'
  BY <1>a DEF EntryOK, Own
<1>5. CacheOK'
  BY <1>a DEF CacheOK, Own, LoopOK
<1>6. LoopOK'
  BY DEF LoopOK, Invalidates
<1>7. ExitOK'
  BY DEF ExitOK, Own, Cleans, Invalidates
<1>8. FreshOK'
  BY DEF FreshOK, NoSnapshot, Own, Invalidates, LoopOK, HeapOK
<1>9. QED
  BY <1>1, <1>2, <1>3, <1>4, <1>5, <1>6, <1>7, <1>8

LEMMA InvDataKeeps ==
  ASSUME NEW t \in Tasks, CacheInv, invalidate_data(t)
  PROVE  CacheInv'
<1> USE TaskDataAssumption DEF CacheInv, TypeOK, Cpus, At, Goto, invalidate_data
<1>b. i[t] \in Cpus /\ cache[i[t]] \in [task : Tasks \cup {NULL}, data : Datas \cup {NULL}]
  BY DEF LoopOK
<1>c. cache' \in [Cpus -> [task : Tasks \cup {NULL}, data : Datas \cup {NULL}]]
  BY <1>b
<1>a. \A u \in Tasks : InCache(u)' <=> InCache(u)
  BY DEF InCache
<1>1. TypeOK'
  BY <1>b, <1>c DEF Ops
<1>2. HeapOK'
  BY DEF HeapOK, Invalidates
<1>3. DataOK'
  BY DEF DataOK, Own, Cleans, Invalidates
<1>4. EntryOK'
  BY <1>a DEF EntryOK, Own
<1>5. CacheOK'
  BY <1>a DEF CacheOK, Own, LoopOK
<1>6. LoopOK'
  BY DEF LoopOK, Invalidates
<1>7. ExitOK'
  BY DEF ExitOK, Own, Cleans, Invalidates
<1>8. FreshOK'
  BY DEF FreshOK, NoSnapshot, Own, Invalidates, LoopOK, HeapOK
<1>9. QED
  BY <1>1, <1>2, <1>3, <1>4, <1>5, <1>6, <1>7, <1>8

LEMMA RemoveKeeps ==
  ASSUME NEW t \in Tasks, CacheInv, remove_task_data(t)
  PROVE  CacheInv'
<1> USE TaskDataAssumption DEF CacheInv, TypeOK, Cpus
<1>a. /\ op[t] = "unlink" /\ op' = [op EXCEPT ![t] = "user"]
      /\ data' = [data EXCEPT ![t] = NULL]
      /\ UNCHANGED <<users, alive, dying, cpu, i, ret, cache>>
  BY DEF remove_task_data, At, Goto
<1>b. PICK d \in Datas : d = data[t] /\ Own(t, d)
  BY <1>a DEF DataOK, Cleans, Own
<1>c. PICK r \in DataRecords : heap' = [heap EXCEPT ![d] = r] /\ r.state = "removed"
  <2>1. heap' = [heap EXCEPT ![d] = [heap[d] EXCEPT !.state = "removed", !.made = FALSE]]
    BY <1>b DEF remove_task_data
  <2>2. heap[d] \in DataRecords
    BY DEF DataRecords
  <2>3. QED
    BY <2>1, <2>2, ChangedRecord
<1>d. \A u \in Tasks, e \in Datas : Own(u, e)' <=> Own(u, e) /\ u # t
  BY <1>b, <1>c DEF HeapOK, Own
<1>e. \A u \in Tasks : InCache(u)' <=> InCache(u)
  BY <1>a DEF InCache
<1>g. \A c \in Cpus : cache[c].task # t
  BY <1>a DEF LoopOK
<1>1. TypeOK'
  BY <1>a, <1>b, <1>c DEF Ops, DataRecords
<1>2. HeapOK'
  BY <1>a, <1>b, <1>c DEF HeapOK, Invalidates
<1>3. DataOK'
  BY <1>a, <1>b, <1>c DEF DataOK, Own, Cleans, Invalidates
<1>4. EntryOK'
  BY <1>a, <1>b, <1>c, <1>d, <1>e DEF EntryOK, Own
<1>5. CacheOK'
  BY <1>a, <1>b, <1>c, <1>d, <1>e, <1>g DEF CacheOK
<1>6. LoopOK'
  BY <1>a, <1>b, <1>c DEF LoopOK, Invalidates
<1>7. ExitOK'
  BY <1>a, <1>b, <1>c DEF ExitOK, Own, Cleans, Invalidates, HeapOK
<1>8. FreshOK'
  BY <1>a, <1>b, <1>c, <1>g DEF FreshOK, NoSnapshot, Own, Invalidates
<1>9. QED
  BY <1>1, <1>2, <1>3, <1>4, <1>5, <1>6, <1>7, <1>8

LEMMA CallbackKeeps ==
  ASSUME NEW d \in Datas, CacheInv, task_data_free_callback(d)
  PROVE  CacheInv'
<1> USE TaskDataAssumption DEF CacheInv, TypeOK, Cpus
<1>a. /\ heap[d].state = "removed"
      /\ heap' = [heap EXCEPT ![d] = [state |-> "free", tsk |-> NULL, made |-> FALSE, had |-> FALSE]]
      /\ UNCHANGED <<users, alive, dying, op, cpu, data, i, ret, cache>>
  BY DEF task_data_free_callback, taskVars
<1>1. TypeOK'
  BY <1>a DEF Ops
<1>2. HeapOK'
  BY <1>a DEF HeapOK, Invalidates
<1>3. DataOK'
  BY <1>a DEF DataOK, Own, Cleans, Invalidates
<1>4. EntryOK'
  BY <1>a DEF EntryOK, Own, InCache
<1>5. CacheOK'
  BY <1>a DEF CacheOK, Own, InCache
<1>6. LoopOK'
  BY <1>a DEF LoopOK, Invalidates
<1>7. ExitOK'
  BY <1>a DEF ExitOK, Own, Cleans, Invalidates
<1>8. FreshOK'
  BY <1>a DEF FreshOK, NoSnapshot, Own, Invalidates
<1>9. QED
  BY <1>1, <1>2, <1>3, <1>4, <1>5, <1>6, <1>7, <1>8

-----------------------------------------------------------------------------
LEMMA NextKeeps == CacheInv /\ [Next]_vars => CacheInv'
<1> SUFFICES ASSUME CacheInv, [Next]_vars PROVE CacheInv'
  OBVIOUS
<1>1. CASE UNCHANGED vars
  BY <1>1 DEF vars, taskVars, CacheInv, TypeOK, HeapOK, DataOK, EntryOK, CacheOK, LoopOK, ExitOK,
              FreshOK, Own, Invalidates, Cleans, NoSnapshot, InCache
<1>2. ASSUME NEW t \in Tasks, Step(t) PROVE CacheInv'
  <2>1. CASE ioctl_clean(t)
    BY <2>1, CleanKeeps DEF ioctl_clean, MayCall, At, Runs
  <2>2. QED
    BY <1>2, <2>1, FaultKeeps, HitKeeps, FillTaskKeeps, FillDataKeeps, HookKeeps, VmrangeKeeps,
       TakeKeeps, ExitKeeps, InvTestKeeps, InvTaskKeeps, InvDataKeeps, RemoveKeeps, DieKeeps
    DEF Step, null_dereference
<1>3. ASSUME NEW t \in Tasks, Spawn(t) PROVE CacheInv'
  BY <1>3, SpawnKeeps
<1>4. ASSUME NEW t \in Tasks, NEW c \in Cpus, Migrate(t, c) PROVE CacheInv'
  BY <1>4, MigrateKeeps
<1>5. ASSUME NEW d \in Datas, task_data_free_callback(d) PROVE CacheInv'
  BY <1>5, CallbackKeeps
<1>6. QED
  BY <1>1, <1>2, <1>3, <1>4, <1>5 DEF Next

\* The inductive invariant holds in every reachable state (memory.c:8-50,
\* task_data.c:13-84).
THEOREM CacheInvHolds == Spec => []CacheInv
<1>1. CacheInv /\ [Next]_vars => CacheInv'
  BY NextKeeps
<1>2. QED
  BY <1>1, InitInv, PTL DEF Spec

\* The state of the registry and of the cache has its type.
THEOREM RegistryTypeCorrect == Spec => []TypeOK
BY CacheInvHolds, PTL DEF CacheInv

\* A hook of any task on any CPU works on a task_data of its own that is in the
\* list, whoever invalidates, exits or gets a used address (memory.c:16-36).
THEOREM HooksUseOwnData == Spec => []HookUsesOwnData
<1>1. CacheInv => HookUsesOwnData
  BY DEF CacheInv, TypeOK, DataOK, Own, HookUsesOwnData
<1>2. QED
  BY <1>1, CacheInvHolds, PTL

\* No cache entry leads to a task_data that is gone (memory.c:38-50, 762).
THEOREM CacheNeverDangles == Spec => []CacheNotDangling
<1>1. CacheInv => CacheNotDangling
  BY TaskDataAssumption
  DEF CacheInv, TypeOK, HeapOK, CacheOK, Own, InCache, Cpus, CacheNotDangling
<1>2. QED
  BY <1>1, CacheInvHolds, PTL

\* A task has one task_data, and none with a history of snapshots outlives its
\* process (task_data.c:45-75, snapshot.c:6-25, 126-129).
THEOREM DatasAreUnique == Spec => []OneDataPerTask
<1>1. CacheInv => OneDataPerTask
  BY DEF CacheInv, TypeOK, HeapOK, ExitOK, OneDataPerTask
<1>2. QED
  BY <1>1, CacheInvHolds, PTL

\* The hooks of the only user of the module find its snapshot, whatever the other
\* tasks do (memory.c:847-849, 901-903, 961-963).
THEOREM SingleUserFindsSnapshot == Spec => []HookFindsSnapshot
<1>1. ASSUME CacheInv, NEW t \in alive, op[t] = "hook", users \subseteq {t}
      PROVE  have_snapshot(get_task_data(t)) <=> have_snapshot(data[t])
  <2>1. t \in Tasks
    BY <1>1 DEF CacheInv, TypeOK
  <2>2. CASE data[t] = NULL
    <3>1. NoSnapshot(t)
      BY <1>1, <2>1, <2>2 DEF CacheInv, FreshOK
    <3>2. QED
      BY <2>1, <2>2, <3>1, Found DEF NoSnapshot, have_snapshot, Own
  <2>3. CASE data[t] # NULL
    <3>1. Own(t, data[t])
      BY <1>1, <2>1, <2>3 DEF CacheInv, DataOK
    <3>2. get_task_data(t) = data[t]
      BY <2>1, <3>1, Found, <1>1 DEF CacheInv, HeapOK, Own
    <3>3. QED
      BY <3>2
  <2>4. QED
    BY <2>2, <2>3
<1>2. CacheInv => HookFindsSnapshot
  BY <1>1 DEF HookFindsSnapshot
<1>3. QED
  BY <1>2, CacheInvHolds, PTL
=============================================================================
