------------------------------ MODULE TaskData ------------------------------
(***************************************************************************)
(* Who finds which task_data: the RCU list of task_data.c, the per-CPU     *)
(* cache in front of it in memory.c, and the tasks that use both at once.  *)
(* Every fault and every munmap of every process asks the cache; the       *)
(* ioctls and the exit of a process add and remove task_datas and          *)
(* invalidate the cache of all CPUs, without a lock.                       *)
(*                                                                         *)
(* Tasks are the addresses of task_structs: a process that ends leaves its *)
(* address to a later one.  Every process has one thread.  The two words   *)
(* of a cache entry are read and written one after the other.              *)
(***************************************************************************)
EXTENDS Integers

CONSTANTS Tasks,   \* addresses of task_structs
          NCpus,
          Datas,   \* addresses of task_datas
          NULL

ASSUME TaskDataAssumption ==
  /\ NCpus \in Nat \ {0}
  /\ NULL \notin Tasks \cup Datas

Cpus == 1 .. NCpus

VARIABLES
  users,   \* the tasks whose processes open the device
  alive,   \* the tasks that run a process
  dying,   \* and those of them that are past exit_group or in do_exit
  op,      \* what each task is doing in the kernel
  cpu,     \* the CPU it is on
  data,    \* its local variable of that name
  i,       \* its loop variable in invalidate_task_data_cache
  ret,     \* where that function returns to
  cache,   \* last_task and last_task_data of each CPU
  heap     \* the task_datas: listed in task_data_list, removed from it, or free

taskVars == <<users, alive, dying, op, cpu, data, i, ret>>
vars     == <<taskVars, cache, heap>>

Ops == {"user", "hit", "fill_task", "fill_data", "hook",
        "inv_test", "inv_task", "inv_data", "unlink"}

\* get_cpu_var disables preemption until put_cpu_var.
InCache(t) == op[t] \in {"hit", "fill_task", "fill_data"}

\* get_task_data.
get_task_data(t) ==
  IF \E d \in Datas : heap[d].state = "listed" /\ heap[d].tsk = t
  THEN CHOOSE d \in Datas : heap[d].state = "listed" /\ heap[d].tsk = t
  ELSE NULL

have_snapshot(d) == d # NULL /\ heap[d].made

Init ==
  /\ users \in SUBSET Tasks
  /\ alive = {} /\ dying = {}
  /\ op = [t \in Tasks |-> "user"]
  /\ cpu = [t \in Tasks |-> 1]
  /\ data = [t \in Tasks |-> NULL]
  /\ i = [t \in Tasks |-> 1]
  /\ ret = [t \in Tasks |-> "user"]
  /\ cache = [c \in Cpus |-> [task |-> NULL, data |-> NULL]]
  /\ heap = [d \in Datas |-> [state |-> "free", tsk |-> NULL, made |-> FALSE, had |-> FALSE]]

\* Task t takes a step: nobody else has disabled preemption on its CPU.
Runs(t) ==
  /\ t \in alive
  /\ \A u \in alive \ {t} : cpu[u] = cpu[t] => ~InCache(u)

At(t, o)     == Runs(t) /\ op[t] = o
Goto(t, o)   == op' = [op EXCEPT ![t] = o]

-----------------------------------------------------------------------------
(* The scheduler and the processes. *)

\* A process starts in a free task_struct.
Spawn(t) ==
  /\ t \notin alive
  /\ alive' = alive \cup {t}
  /\ op' = [op EXCEPT ![t] = "user"]
  /\ data' = [data EXCEPT ![t] = NULL]
  /\ UNCHANGED <<users, dying, cpu, i, ret, cache, heap>>

Migrate(t, c) ==
  /\ t \in alive /\ ~InCache(t) /\ cpu[t] # c
  /\ cpu' = [cpu EXCEPT ![t] = c]
  /\ UNCHANGED <<users, alive, dying, op, data, i, ret, cache, heap>>

\* The rest of do_exit, after the hooks.
Die(t) ==
  /\ At(t, "user") /\ t \in dying
  /\ alive' = alive \ {t}
  /\ dying' = dying \ {t}
  /\ UNCHANGED <<users, op, cpu, data, i, ret, cache, heap>>

-----------------------------------------------------------------------------
(* The hooks: get_task_data_with_cache, then the body of the hook. *)

Fault(t) ==
  /\ At(t, "user")
  /\ \/ cache[cpu[t]].task = t /\ Goto(t, "hit") /\ UNCHANGED data
     \/ /\ cache[cpu[t]].task # t
        /\ Goto(t, "fill_task")
        /\ data' = [data EXCEPT ![t] = get_task_data(t)]
  /\ UNCHANGED <<users, alive, dying, cpu, i, ret, cache, heap>>

hit(t) ==
  /\ At(t, "hit")
  /\ data' = [data EXCEPT ![t] = cache[cpu[t]].data]
  /\ Goto(t, "hook")
  /\ UNCHANGED <<users, alive, dying, cpu, i, ret, cache, heap>>

fill_task(t) ==
  /\ At(t, "fill_task")
  /\ cache' = [cache EXCEPT ![cpu[t]].task = t]
  /\ Goto(t, "fill_data")
  /\ UNCHANGED <<users, alive, dying, cpu, data, i, ret, heap>>

\* Mutant: a task without data is not remembered with its NULL.
fill_data_nonnull(t) ==
  /\ At(t, "fill_data")
  /\ cache' = IF data[t] = NULL THEN cache ELSE [cache EXCEPT ![cpu[t]].data = data[t]]
  /\ Goto(t, "hook")
  /\ UNCHANGED <<users, alive, dying, cpu, data, i, ret, heap>>

fill_data(t) ==
  /\ At(t, "fill_data")
  /\ cache' = [cache EXCEPT ![cpu[t]].data = data[t]]
  /\ Goto(t, "hook")
  /\ UNCHANGED <<users, alive, dying, cpu, data, i, ret, heap>>

\* The hook reads data->ss and returns.
hook(t) ==
  /\ At(t, "hook")
  /\ Goto(t, "user")
  /\ data' = [data EXCEPT ![t] = NULL]
  /\ UNCHANGED <<users, alive, dying, cpu, i, ret, cache, heap>>

-----------------------------------------------------------------------------
(* The ioctls and the exit of a process that uses the module. *)

\* Mutant: a task_data is allocated at every call.
ensure_task_data_always(t, d) == heap[d].state = "free"

\* ensure_task_data, where its allocation succeeds: d is the task_data of t from
\* now on.
ensure_task_data(t, d) ==
  IF get_task_data(t) # NULL THEN d = get_task_data(t) ELSE heap[d].state = "free"

\* The task_datas once d is the one of t.
Ensured(t, d, h) ==
  IF h[d].state = "listed" THEN h
  ELSE [h EXCEPT ![d] = [state |-> "listed", tsk |-> t, made |-> FALSE, had |-> FALSE]]

invalidate_task_data_cache(t, r) ==
  /\ Goto(t, "inv_test")
  /\ i' = [i EXCEPT ![t] = 1]
  /\ ret' = [ret EXCEPT ![t] = r]

MayCall(t) == At(t, "user") /\ t \in users \ dying

\* exclude_vmrange or include_vmrange.
vmrange(t) ==
  /\ MayCall(t)
  /\ \E d \in Datas : ensure_task_data(t, d) /\ heap' = Ensured(t, d, heap)
  /\ UNCHANGED <<taskVars, cache>>

\* Mutant: take_memory_snapshot does not invalidate the cache.
take_snapshot_cached(t) ==
  /\ MayCall(t)
  /\ \E d \in Datas :
       /\ ensure_task_data(t, d)
       /\ ~Ensured(t, d, heap)[d].made
       /\ heap' = [Ensured(t, d, heap) EXCEPT ![d].made = TRUE, ![d].had = TRUE]
  /\ UNCHANGED <<taskVars, cache>>

\* take_snapshot up to the invalidation in take_memory_snapshot.
take_snapshot(t) ==
  /\ MayCall(t)
  /\ \E d \in Datas :
       /\ ensure_task_data(t, d)
       /\ ~Ensured(t, d, heap)[d].made
       /\ heap' = [Ensured(t, d, heap) EXCEPT ![d].made = TRUE, ![d].had = TRUE]
  /\ invalidate_task_data_cache(t, "user")
  /\ UNCHANGED <<users, alive, dying, cpu, data, cache>>

\* Mutant: clean_memory_snapshot does not invalidate the cache.
clean_snapshot_cached(t) ==
  /\ get_task_data(t) # NULL
  /\ data' = [data EXCEPT ![t] = get_task_data(t)]
  /\ Goto(t, "unlink")
  /\ UNCHANGED <<users, alive, cpu, i, ret, cache, heap>>

\* clean_snapshot up to the invalidation in clean_memory_snapshot.
clean_snapshot(t) ==
  /\ get_task_data(t) # NULL
  /\ data' = [data EXCEPT ![t] = get_task_data(t)]
  /\ invalidate_task_data_cache(t, "unlink")
  /\ UNCHANGED <<users, alive, cpu, cache, heap>>

ioctl_clean(t) == MayCall(t) /\ clean_snapshot(t) /\ UNCHANGED dying

\* exit_snapshot and do_exit_hook: a task_data that never had a snapshot stays.
process_exit(t) ==
  /\ At(t, "user") /\ t \notin dying
  /\ dying' = dying \cup {t}
  /\ IF get_task_data(t) # NULL /\ heap[get_task_data(t)].had THEN clean_snapshot(t)
     ELSE UNCHANGED <<users, alive, op, cpu, data, i, ret, cache, heap>>

\* The allocation in ensure_task_data fails.  Its callers dereference the NULL, and
\* the kernel ends the task in its ioctl.
null_dereference(t) == MayCall(t) /\ get_task_data(t) = NULL /\ process_exit(t)

\* invalidate_task_data_cache, for the CPU the loop is at: the test ...
invalidate_test(t) ==
  /\ At(t, "inv_test")
  /\ \/ i[t] > NCpus /\ Goto(t, ret[t]) /\ i' = [i EXCEPT ![t] = 1]
     \/ /\ i[t] <= NCpus
        /\ IF cache[i[t]].task = t THEN Goto(t, "inv_task") /\ UNCHANGED i
           ELSE i' = [i EXCEPT ![t] = @ + 1] /\ UNCHANGED op
  /\ UNCHANGED <<users, alive, dying, cpu, data, ret, cache, heap>>

\* ... and the two stores.
invalidate_task(t) ==
  /\ At(t, "inv_task")
  /\ cache' = [cache EXCEPT ![i[t]].task = NULL]
  /\ Goto(t, "inv_data")
  /\ UNCHANGED <<users, alive, dying, cpu, data, i, ret, heap>>

\* Mutant: the loop skips a CPU after each entry it clears.
invalidate_data_skip(t) ==
  /\ At(t, "inv_data")
  /\ cache' = [cache EXCEPT ![i[t]].data = NULL]
  /\ Goto(t, "inv_test")
  /\ i' = [i EXCEPT ![t] = @ + 2]
  /\ UNCHANGED <<users, alive, dying, cpu, data, ret, heap>>

invalidate_data(t) ==
  /\ At(t, "inv_data")
  /\ cache' = [cache EXCEPT ![i[t]].data = NULL]
  /\ Goto(t, "inv_test")
  /\ i' = [i EXCEPT ![t] = @ + 1]
  /\ UNCHANGED <<users, alive, dying, cpu, data, ret, heap>>

\* The rest of clean_snapshot: clear_snapshot and remove_task_data.
remove_task_data(t) ==
  /\ At(t, "unlink")
  /\ heap' = [heap EXCEPT ![data[t]].state = "removed", ![data[t]].made = FALSE]
  /\ data' = [data EXCEPT ![t] = NULL]
  /\ Goto(t, "user")
  /\ UNCHANGED <<users, alive, dying, cpu, i, ret, cache>>

\* call_rcu runs the callback when every CPU has left the sections that may have
\* found the task_data in the list.
task_data_free_callback(d) ==
  /\ heap[d].state = "removed"
  /\ \A t \in alive : InCache(t) => data[t] # d
  /\ heap' = [heap EXCEPT ![d] = [state |-> "free", tsk |-> NULL, made |-> FALSE, had |-> FALSE]]
  /\ UNCHANGED <<taskVars, cache>>

-----------------------------------------------------------------------------
Step(t) ==
  \/ Fault(t) \/ hit(t) \/ fill_task(t) \/ fill_data(t) \/ hook(t)
  \/ vmrange(t) \/ take_snapshot(t) \/ ioctl_clean(t) \/ null_dereference(t) \/ process_exit(t)
  \/ invalidate_test(t) \/ invalidate_task(t) \/ invalidate_data(t)
  \/ remove_task_data(t) \/ Die(t)

Next ==
  \/ \E t \in Tasks : Step(t) \/ Spawn(t) \/ \E c \in Cpus : Migrate(t, c)
  \/ \E d \in Datas : task_data_free_callback(d)

Spec == Init /\ [][Next]_vars

-----------------------------------------------------------------------------
\* The state has its type: the invalidation visits each CPU once and no CPU beyond
\* the last (memory.c:38-50).
TypeOK ==
  /\ users \subseteq Tasks
  /\ dying \subseteq alive /\ alive \subseteq Tasks
  /\ op \in [Tasks -> Ops]
  /\ cpu \in [Tasks -> Cpus]
  /\ data \in [Tasks -> Datas \cup {NULL}]
  /\ i \in [Tasks -> 1 .. NCpus + 1]
  /\ ret \in [Tasks -> {"user", "unlink"}]
  /\ cache \in [Cpus -> [task : Tasks \cup {NULL}, data : Datas \cup {NULL}]]
  /\ heap \in [Datas -> [state : {"listed", "removed", "free"}, tsk : Tasks \cup {NULL},
                         made : BOOLEAN, had : BOOLEAN]]

\* A hook never works on a task_data that is removed or belongs to another
\* task: what get_task_data_with_cache returned is in the list for as long as
\* the hook runs (memory.c:16-36, 847, 901, 961; task_data.c:77-84).
HookUsesOwnData ==
  \A t \in alive : op[t] = "hook" /\ data[t] # NULL =>
                     heap[data[t]].state = "listed" /\ heap[data[t]].tsk = t

\* With one process that uses the module, its hooks find its snapshot, so that the
\* write or the unmapping they are called for is recorded, whoever else runs on
\* the CPUs (memory.c:847-849, 901-903, 961-963).
HookFindsSnapshot ==
  \A t \in alive : op[t] = "hook" /\ users \subseteq {t} =>
                     (have_snapshot(get_task_data(t)) <=> have_snapshot(data[t]))

\* A cache entry that names a task never leads to a task_data that is gone,
\* whoever gets its address next (memory.c:38-50, 762).
CacheNotDangling ==
  \A c \in Cpus :
    cache[c].task # NULL /\ cache[c].data # NULL /\
      (\A t \in alive : ~(InCache(t) /\ cpu[t] = c)) =>
      heap[cache[c].data].state = "listed" /\ heap[cache[c].data].tsk = cache[c].task

\* A task has one task_data in the list at most, and a task_struct whose process
\* ended keeps none that ever held a snapshot (task_data.c:45-75,
\* snapshot.c:6-25, 126-129).
OneDataPerTask ==
  \A d \in Datas : heap[d].state = "listed" =>
    /\ \A e \in Datas \ {d} : heap[e].state = "listed" => heap[e].tsk # heap[d].tsk
    /\ heap[d].had => heap[d].tsk \in alive
=============================================================================
