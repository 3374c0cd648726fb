------------------------- MODULE ModuleHooksProofs -------------------------
(***************************************************************************)
(* What ModuleHooks promises, for any number of tasks and of queued        *)
(* callbacks.  The inductive invariant says, for each place in mod_init    *)
(* and mod_exit, what has been registered and not undone by then, and who  *)
(* may have the device open in each state of the module.                   *)
(***************************************************************************)
EXTENDS ModuleHooks, TLAPS

Fns == ExitFns \cup PageFns

\* The exit hooks before, and from, the k-th.
ExitBefore(k) == {ftrace_hooks[j] : j \in 1 .. k - 1}
ExitFrom(k)   == {ftrace_hooks[j] : j \in k .. 2}
PageBefore(k) == {page_hooks[j] : j \in 1 .. k - 1}

\* What a load that fails after fh_install_hooks leaves behind.
LeftOver == stuck \cup (IF late THEN ExitFns ELSE {})

\* mod_init on its way: what it has registered so far.
Loading ==
  /\ pc = "misc_register" => mod = "coming" /\ ~device /\ ops = {} /\ stuck = {} /\ ~late
  /\ pc = "fh_install" =>
       mod = "coming" /\ device /\ i \in 1 .. 2 /\ ops = ExitBefore(i) /\ stuck = {} /\ ~late
  /\ pc = "fh_rollback" =>
       mod = "coming" /\ i \in 1 .. 2 /\ ops \subseteq ExitBefore(i) \cup stuck /\ hooks = {}
  /\ pc = "try_hook" =>
       mod = "coming" /\ device /\ i \in 1 .. 3 /\ ops = ExitFns \cup PageBefore(i) /\ stuck = {}
  /\ pc = "resolve" => mod = "coming" /\ device /\ ops = Fns /\ stuck = {}
  /\ mod = "live" => device /\ resolved /\ ops = Fns /\ stuck = {}

\* mod_exit, and the end of a mod_init that failed: what is still registered.
Unloading ==
  /\ pc = "unhook_all" => mod = "going" \/ (mod = "coming" /\ late)
  /\ pc = "fh_remove" =>
       mod = "going" /\ i \in 1 .. 2 /\ hooks = {} /\ ops \subseteq ExitFrom(i) \cup stuck
  /\ pc = "misc_deregister" =>
       mod \in {"coming", "going"} /\ hooks = {} /\ ops \subseteq LeftOver
  /\ pc = "free" =>
       mod \in {"coming", "going"} /\ hooks = {} /\ ops \subseteq LeftOver /\ ~device
  /\ mod = "out" => pc = "idle" /\ hooks = {} /\ ops \subseteq LeftOver /\ ~device

\* The tasks: an ioctl is run through an open device, a page hook is one that is
\* registered or that unregistering still waits for; the device is open in a module that is not live only if it was
\* opened early.
TasksOK ==
  /\ \A t \in Tasks : at[t] = "ioctl" => t \in fd
  /\ \A t \in Tasks : at[t] \in PageFns => at[t] \in ops \cup {waits}
  /\ mod \in {"out", "coming"} => fd \subseteq early
  /\ mod = "going" => fd = {}

\* Only the steps that undo a load wait, and the module is not freed before.
WaitsOK == waits # "none" => pc \in {"fh_rollback", "unhook_all", "fh_remove", "misc_deregister"}

HooksInv == TypeOK /\ HooksListed /\ Loading /\ Unloading /\ TasksOK /\ WaitsOK

-----------------------------------------------------------------------------
\* The two arrays, element by element.
LEMMA HookNames ==
  /\ Len(ftrace_hooks) = 2 /\ Len(page_hooks) = 3
  /\ ftrace_hooks[1] = "sys_exit_group" /\ ftrace_hooks[2] = "do_exit"
  /\ page_hooks[1] = "do_wp_page" /\ page_hooks[2] = "page_add_new_anon_rmap"
  /\ page_hooks[3] = "__do_munmap"
  /\ ExitFns = {"sys_exit_group", "do_exit"}
  /\ PageFns = {"do_wp_page", "page_add_new_anon_rmap", "__do_munmap"}
<1>1. /\ Len(ftrace_hooks) = 2 /\ Len(page_hooks) = 3
      /\ ftrace_hooks[1] = "sys_exit_group" /\ ftrace_hooks[2] = "do_exit"
      /\ page_hooks[1] = "do_wp_page" /\ page_hooks[2] = "page_add_new_anon_rmap"
      /\ page_hooks[3] = "__do_munmap"
  BY DEF ftrace_hooks, page_hooks
<1>2. 1 .. Len(ftrace_hooks) = {1, 2} /\ 1 .. Len(page_hooks) = {1, 2, 3}
  BY <1>1
<1>3. QED
  BY <1>1, <1>2 DEF ExitFns, PageFns

\* How far the loops over the arrays have come.
LEMMA HookPrefixes ==
  /\ ExitBefore(1) = {} /\ ExitBefore(2) = {"sys_exit_group"}
  /\ ExitFrom(1) = ExitFns /\ ExitFrom(2) = {"do_exit"}
  /\ PageBefore(1) = {} /\ PageBefore(2) = {"do_wp_page"}
  /\ PageBefore(3) = {"do_wp_page", "page_add_new_anon_rmap"}
<1>1. 1 .. 0 = {} /\ 1 .. 1 = {1} /\ 1 .. 2 = {1, 2} /\ 2 .. 2 = {2}
  OBVIOUS
<1>2. QED
  BY <1>1, HookNames DEF ExitBefore, ExitFrom, PageBefore

\* The element a loop is at.
LEMMA HookElements ==
  /\ \A k \in 1 .. 2 : ftrace_hooks[k] \in ExitFns
  /\ \A k \in 1 .. 3 : page_hooks[k] \in PageFns
  /\ ExitFns \cap PageFns = {}
<1>1. 1 .. 2 = {1, 2} /\ 1 .. 3 = {1, 2, 3}
  OBVIOUS
<1>2. QED
  BY <1>1, HookNames

-----------------------------------------------------------------------------
(* The steps of mod_init and mod_exit. *)

LEMMA InitInv == Init => HooksInv
<1> SUFFICES ASSUME Init PROVE HooksInv
  OBVIOUS
<1>1. TypeOK
  <2>1. device \in BOOLEAN /\ resolved \in BOOLEAN /\ late \in BOOLEAN
    BY Zenon DEF Init
  <2>2. at \in [Tasks -> {"user", "ioctl", "exit_hook"} \cup PageFns]
    BY DEF Init
  <2>3. pending \in 0 .. MaxPending
    BY HooksAssumption DEF Init
  <2>4. QED
    BY <2>1, <2>2, <2>3, HookNames DEF Init, TypeOK
<1>2. HooksListed /\ Loading /\ Unloading /\ TasksOK /\ WaitsOK
  BY HookNames DEF Init, WaitsOK, HooksListed, Loading, Unloading, TasksOK, LeftOver
<1>3. QED
  BY <1>1, <1>2 DEF HooksInv

LEMMA InsmodKeeps == ASSUME HooksInv, insmod PROVE HooksInv'
<1>1. TypeOK'
  BY HookNames, HookPrefixes DEF HooksInv, TypeOK, Loading, insmod, Goto, taskVars
<1>2. HooksListed'
  BY HookNames, HookPrefixes DEF HooksInv, HooksListed, Loading, Unloading, insmod, Goto, taskVars
<1>3. Loading'
  BY HookNames, HookPrefixes
  DEF HooksInv, TypeOK, HooksListed, Loading, Unloading, insmod, Goto, taskVars
<1>4. Unloading'
  BY HookNames, HookPrefixes
  DEF HooksInv, TypeOK, HooksListed, Loading, Unloading, LeftOver, insmod, Goto, taskVars
<1>5. TasksOK'
  BY HookNames, HookPrefixes
  DEF HooksInv, TypeOK, Loading, Unloading, TasksOK, insmod, Goto, taskVars
<1>6. WaitsOK'
  BY DEF HooksInv, Unloading, WaitsOK, insmod, Goto
<1>7. QED
  BY <1>1, <1>2, <1>3, <1>4, <1>5, <1>6 DEF HooksInv

LEMMA MiscRegisterKeeps == ASSUME HooksInv, waits = "none", misc_register PROVE HooksInv'
<1>1. TypeOK'
  <2>1. device' \in BOOLEAN /\ resolved' \in BOOLEAN /\ late' \in BOOLEAN
    BY DEF HooksInv, TypeOK, misc_register, Goto, taskVars
  <2>2. pc' # "idle" /\ mod' = mod /\ mod # "live"
    BY DEF HooksInv, TypeOK, misc_register, Goto, taskVars
  <2>3. /\ pc' \in {"fh_install", "fh_remove"} => i' \in 1 .. 2
        /\ pc' = "try_hook" => i' \in 1 .. 3
    BY HookNames DEF HooksInv, TypeOK, Loading, Unloading, misc_register, Goto, taskVars
  <2>4. pc' \in {"idle", "misc_register", "fh_install", "fh_rollback", "try_hook", "resolve",
                "unhook_all", "fh_remove", "misc_deregister", "free"}
    BY DEF HooksInv, misc_register, Goto, taskVars
  <2>5. ops' \subseteq ExitFns \cup PageFns /\ hooks' \subseteq PageFns
    BY HookNames DEF HooksInv, TypeOK, misc_register, Goto, taskVars
  <2>6. QED
    BY <2>1, <2>2, <2>3, <2>4, <2>5, HookNames DEF HooksInv, TypeOK, misc_register, Goto, taskVars
<1>2. HooksListed'
  BY HookNames, HookPrefixes
  DEF HooksInv, HooksListed, Loading, Unloading, misc_register, Goto, taskVars
<1>3. Loading'
  <2>1. mod' = "coming" /\ ops' = {} /\ stuck' = {} /\ ~late'
    BY DEF HooksInv, Loading, misc_register
  <2>2. CASE device' = TRUE /\ Goto("fh_install", 1)
    BY <2>1, <2>2, HookPrefixes DEF Loading, Goto
  <2>3. CASE UNCHANGED device /\ Goto("free", 0)
    BY <2>1, <2>3 DEF Loading, Goto
  <2>4. QED
    BY <2>2, <2>3 DEF misc_register
<1>4. Unloading'
  BY HookNames, HookPrefixes
  DEF HooksInv, TypeOK, HooksListed, Loading, Unloading, LeftOver, misc_register, Goto, taskVars
<1>5. TasksOK'
  BY HookNames, HookPrefixes
  DEF HooksInv, TypeOK, Loading, Unloading, TasksOK, misc_register, Goto, taskVars
<1>6. WaitsOK'
  BY DEF HooksInv, TypeOK, WaitsOK, misc_register, Goto
<1>7. QED
  BY <1>1, <1>2, <1>3, <1>4, <1>5, <1>6 DEF HooksInv

LEMMA FhInstallKeeps == ASSUME HooksInv, waits = "none", fh_install_hook PROVE HooksInv'
<1>1. TypeOK'
  BY HookNames, HookPrefixes DEF HooksInv, TypeOK, Loading, fh_install_hook, Goto, taskVars
<1>2. HooksListed'
  BY HookNames, HookPrefixes
  DEF HooksInv, HooksListed, Loading, Unloading, fh_install_hook, Goto, taskVars
<1>3. Loading'
  <2>1. /\ mod' = "coming" /\ device' /\ stuck' = {} /\ ~late'
        /\ i \in 1 .. 2 /\ ops = ExitBefore(i)
    BY DEF HooksInv, Loading, fh_install_hook
  <2>2. CASE i = 1 /\ ops' = ops \cup {ftrace_hooks[i]} /\ Goto("fh_install", i + 1)
    BY <2>1, <2>2, HookNames, HookPrefixes DEF Loading, Goto
  <2>3. CASE i = 2 /\ ops' = ops \cup {ftrace_hooks[i]} /\ Goto("try_hook", 1)
    BY <2>1, <2>3, HookNames, HookPrefixes DEF Loading, Goto
  <2>4. CASE UNCHANGED ops /\ Goto("fh_rollback", i)
    <3>1. hooks' = {}
      BY HookElements, HookPrefixes, HookNames, <2>1
      DEF HooksInv, HooksListed, Loading, fh_install_hook
    <3>2. QED
      BY <2>1, <2>4, <3>1 DEF Loading, Goto
  <2>5. QED
    BY <2>1, <2>2, <2>3, <2>4, HookNames DEF fh_install_hook
<1>4. Unloading'
  BY HookNames, HookPrefixes
  DEF HooksInv, TypeOK, HooksListed, Loading, Unloading, LeftOver, fh_install_hook, Goto, taskVars
<1>5. TasksOK'
  BY HookNames, HookPrefixes
  DEF HooksInv, TypeOK, Loading, Unloading, TasksOK, fh_install_hook, Goto, taskVars
<1>6. WaitsOK'
  BY DEF HooksInv, TypeOK, WaitsOK, fh_install_hook, Goto
<1>7. QED
  BY <1>1, <1>2, <1>3, <1>4, <1>5, <1>6 DEF HooksInv

LEMMA FhRollbackKeeps == ASSUME HooksInv, waits = "none", fh_rollback PROVE HooksInv'
<1>1. TypeOK'
  <2>1. i \in 1 .. 2 /\ (i > 1 => ftrace_hooks[i - 1] \in ExitFns)
    BY HookNames DEF HooksInv, Loading, fh_rollback
  <2>2. waits' \in {"none"} \cup ExitFns \cup PageFns /\ ops' \subseteq ops
    BY <2>1, Zenon DEF fh_rollback, unregister
  <2>3. pc' \in {"fh_rollback", "misc_deregister"} /\ mod' = mod /\ mod # "live"
    BY DEF HooksInv, TypeOK, fh_rollback, Goto
  <2>4. QED
    BY <2>2, <2>3 DEF HooksInv, TypeOK, fh_rollback, taskVars
<1>2. HooksListed'
  BY HookNames, HookPrefixes
  DEF HooksInv, HooksListed, Loading, Unloading, fh_rollback, unregister, Goto, taskVars
<1>3. Loading'
  <2>1. /\ mod' = "coming" /\ i \in 1 .. 2 /\ ops \subseteq ExitBefore(i) \cup stuck
        /\ hooks' = {}
    BY DEF HooksInv, Loading, fh_rollback
  <2>2. CASE i = 2 /\ unregister(ftrace_hooks[i - 1]) /\ Goto("fh_rollback", i - 1)
    <3>1. ops' \subseteq ExitBefore(1) \cup stuck'
      BY <2>1, <2>2, HookNames, HookPrefixes DEF unregister
    <3>2. QED
      BY <2>1, <2>2, <3>1 DEF Loading, Goto
  <2>3. CASE i = 1 /\ Goto("misc_deregister", 0)
    BY <2>1, <2>3 DEF Loading, Goto
  <2>4. QED
    BY <2>1, <2>2, <2>3 DEF fh_rollback
<1>4. Unloading'
  BY HookNames, HookPrefixes
  DEF HooksInv, TypeOK, HooksListed, Loading, Unloading, LeftOver, fh_rollback, unregister, Goto,
      taskVars
<1>5. TasksOK'
  BY HookNames, HookPrefixes
  DEF HooksInv, TypeOK, Loading, Unloading, TasksOK, fh_rollback, unregister, Goto, taskVars
<1>6. WaitsOK'
  BY DEF HooksInv, TypeOK, WaitsOK, fh_rollback, unregister, Goto
<1>7. QED
  BY <1>1, <1>2, <1>3, <1>4, <1>5, <1>6 DEF HooksInv

LEMMA TryHookKeeps == ASSUME HooksInv, waits = "none", try_hook PROVE HooksInv'
<1>1. TypeOK'
  <2>1. device' \in BOOLEAN /\ resolved' \in BOOLEAN /\ late' \in BOOLEAN
    BY DEF HooksInv, TypeOK, try_hook, Fns, Goto, taskVars
  <2>2. pc' # "idle" /\ mod' = mod /\ mod # "live"
    BY DEF HooksInv, TypeOK, try_hook, Fns, Goto, taskVars
  <2>3. /\ pc' \in {"fh_install", "fh_remove"} => i' \in 1 .. 2
        /\ pc' = "try_hook" => i' \in 1 .. 3
    BY HookNames DEF HooksInv, TypeOK, Loading, Unloading, try_hook, Fns, Goto, taskVars
  <2>4. pc' \in {"idle", "misc_register", "fh_install", "fh_rollback", "try_hook", "resolve",
                "unhook_all", "fh_remove", "misc_deregister", "free"}
    BY DEF HooksInv, try_hook, Fns, Goto, taskVars
  <2>5. ops' \subseteq ExitFns \cup PageFns /\ hooks' \subseteq PageFns
    BY <2>3, HookElements, HookNames DEF HooksInv, TypeOK, try_hook, taskVars
  <2>6. QED
    BY <2>1, <2>2, <2>3, <2>4, <2>5, HookNames DEF HooksInv, TypeOK, try_hook, Fns, Goto, taskVars
<1>2. HooksListed'
  BY HookNames, HookPrefixes
  DEF HooksInv, HooksListed, Loading, Unloading, try_hook, Fns, Goto, taskVars
<1>3. Loading'
  BY HookNames, HookPrefixes
  DEF HooksInv, TypeOK, HooksListed, Loading, Unloading, try_hook, Fns, Goto, taskVars
<1>4. Unloading'
  BY HookNames, HookPrefixes
  DEF HooksInv, TypeOK, HooksListed, Loading, Unloading, LeftOver, try_hook, Fns, Goto, taskVars
<1>5. TasksOK'
  BY HookNames, HookPrefixes
  DEF HooksInv, TypeOK, Loading, Unloading, TasksOK, try_hook, Fns, Goto, taskVars
<1>6. WaitsOK'
  BY DEF HooksInv, TypeOK, WaitsOK, try_hook, Goto
<1>7. QED
  BY <1>1, <1>2, <1>3, <1>4, <1>5, <1>6 DEF HooksInv

LEMMA ResolveKeeps == ASSUME HooksInv, waits = "none", resolve_non_exported_symbols PROVE HooksInv'
<1>1. TypeOK'
  BY HookNames, HookPrefixes
  DEF HooksInv, TypeOK, Loading, resolve_non_exported_symbols, Fns, Goto, taskVars
<1>2. HooksListed'
  BY HookNames, HookPrefixes
  DEF HooksInv, HooksListed, Loading, Unloading, resolve_non_exported_symbols, Fns, Goto, taskVars
<1>3. Loading'
  BY HookNames, HookPrefixes
  DEF HooksInv, TypeOK, HooksListed, Loading, Unloading, resolve_non_exported_symbols, Fns, Goto,
      taskVars
<1>4. Unloading'
  BY HookNames, HookPrefixes
  DEF HooksInv, TypeOK, HooksListed, Loading, Unloading, LeftOver, resolve_non_exported_symbols,
      Fns, Goto, taskVars
<1>5. TasksOK'
  BY HookNames, HookPrefixes
  DEF HooksInv, TypeOK, Loading, Unloading, TasksOK, resolve_non_exported_symbols, Fns, Goto,
      taskVars
<1>6. WaitsOK'
  BY DEF HooksInv, TypeOK, WaitsOK, resolve_non_exported_symbols, Goto
<1>7. QED
  BY <1>1, <1>2, <1>3, <1>4, <1>5, <1>6 DEF HooksInv

LEMMA RmmodKeeps == ASSUME HooksInv, rmmod PROVE HooksInv'
<1>1. TypeOK'
  BY HookNames, HookPrefixes DEF HooksInv, TypeOK, Loading, rmmod, Goto, taskVars
<1>2. HooksListed'
  BY HookNames, HookPrefixes DEF HooksInv, HooksListed, Loading, Unloading, rmmod, Goto, taskVars
<1>3. Loading'
  BY HookNames, HookPrefixes
  DEF HooksInv, TypeOK, HooksListed, Loading, Unloading, rmmod, Goto, taskVars
<1>4. Unloading'
  BY HookNames, HookPrefixes
  DEF HooksInv, TypeOK, HooksListed, Loading, Unloading, LeftOver, rmmod, Goto, taskVars
<1>5. TasksOK'
  BY HookNames, HookPrefixes
  DEF HooksInv, TypeOK, Loading, Unloading, TasksOK, rmmod, Goto, taskVars
<1>6. WaitsOK'
  BY DEF HooksInv, TypeOK, WaitsOK, rmmod, Goto
<1>7. QED
  BY <1>1, <1>2, <1>3, <1>4, <1>5, <1>6 DEF HooksInv

LEMMA UnhookAllKeeps == ASSUME HooksInv, waits = "none", unhook_all PROVE HooksInv'
<1>1. TypeOK'
  <2>1. device' \in BOOLEAN /\ resolved' \in BOOLEAN /\ late' \in BOOLEAN
    BY DEF HooksInv, TypeOK, unhook_all, unregister, Goto, taskVars
  <2>2. pc' # "idle" /\ mod' = mod /\ mod # "live"
    BY DEF HooksInv, TypeOK, unhook_all, unregister, Goto, taskVars
  <2>3. /\ pc' \in {"fh_install", "fh_remove"} => i' \in 1 .. 2
        /\ pc' = "try_hook" => i' \in 1 .. 3
    BY HookNames DEF HooksInv, TypeOK, Loading, Unloading, unhook_all, unregister, Goto, taskVars
  <2>4. pc' \in {"idle", "misc_register", "fh_install", "fh_rollback", "try_hook", "resolve",
                "unhook_all", "fh_remove", "misc_deregister", "free"}
    BY DEF HooksInv, unhook_all, unregister, Goto, taskVars
  <2>5. ops' \subseteq ExitFns \cup PageFns /\ hooks' \subseteq PageFns
    BY HookNames DEF HooksInv, TypeOK, unhook_all, unregister, Goto, taskVars
  <2>6. QED
    BY <2>1, <2>2, <2>3, <2>4, <2>5, HookNames
    DEF HooksInv, TypeOK, unhook_all, unregister, Goto, taskVars
<1>2. HooksListed'
  BY HookNames, HookPrefixes
  DEF HooksInv, HooksListed, Loading, Unloading, unhook_all, unregister, Goto, taskVars
<1>3. Loading'
  BY HookNames, HookPrefixes
  DEF HooksInv, TypeOK, HooksListed, Loading, Unloading, unhook_all, unregister, Goto, taskVars
<1>4. Unloading'
  <2>1. mod' = mod /\ device' = device /\ late' = late /\ (mod = "going" \/ (mod = "coming" /\ late))
    BY Zenon DEF HooksInv, Unloading, unhook_all
  <2>2. CASE UNCHANGED <<pc, i>>
    BY <2>1, <2>2 DEF Unloading, unhook_all
  <2>3. CASE hooks = {} /\ UNCHANGED <<ops, hooks, stuck>>
             /\ IF mod = "going" THEN Goto("fh_remove", 1) ELSE Goto("misc_deregister", 0)
    <3>1. ops \subseteq ExitFns \cup stuck
      BY <2>3 DEF HooksInv, TypeOK, HooksListed
    <3>2. CASE mod = "going"
      BY <2>1, <2>3, <3>1, <3>2, HookPrefixes DEF Unloading, Goto
    <3>3. CASE mod = "coming" /\ late
      BY <2>1, <2>3, <3>1, <3>3 DEF Unloading, LeftOver, Goto
    <3>4. QED
      BY <2>1, <3>2, <3>3
  <2>4. QED
    BY <2>2, <2>3 DEF unhook_all
<1>5. TasksOK'
  BY HookNames, HookPrefixes
  DEF HooksInv, TypeOK, Loading, Unloading, TasksOK, unhook_all, unregister, Goto, taskVars
<1>6. WaitsOK'
  BY DEF HooksInv, TypeOK, WaitsOK, unhook_all, unregister, Goto
<1>7. QED
  BY <1>1, <1>2, <1>3, <1>4, <1>5, <1>6 DEF HooksInv

LEMMA FhRemoveKeeps == ASSUME HooksInv, waits = "none", fh_remove_hooks PROVE HooksInv'
<1>1. TypeOK'
  <2>1. device' \in BOOLEAN /\ resolved' \in BOOLEAN /\ late' \in BOOLEAN
    BY DEF HooksInv, TypeOK, fh_remove_hooks, unregister, Goto, taskVars
  <2>2. pc' # "idle" /\ mod' = mod /\ mod # "live"
    BY DEF HooksInv, TypeOK, fh_remove_hooks, unregister, Goto, taskVars
  <2>3. /\ pc' \in {"fh_install", "fh_remove"} => i' \in 1 .. 2
        /\ pc' = "try_hook" => i' \in 1 .. 3
    BY HookNames
    DEF HooksInv, TypeOK, Loading, Unloading, fh_remove_hooks, unregister, Goto, taskVars
  <2>4. pc' \in {"idle", "misc_register", "fh_install", "fh_rollback", "try_hook", "resolve",
                "unhook_all", "fh_remove", "misc_deregister", "free"}
    BY DEF HooksInv, fh_remove_hooks, unregister, Goto, taskVars
  <2>5. ops' \subseteq ExitFns \cup PageFns /\ hooks' \subseteq PageFns
    BY HookNames DEF HooksInv, TypeOK, fh_remove_hooks, unregister, Goto, taskVars
  <2>6. QED
    BY <2>1, <2>2, <2>3, <2>4, <2>5, HookNames
    DEF HooksInv, TypeOK, fh_remove_hooks, unregister, Goto, taskVars
<1>2. HooksListed'
  BY HookNames, HookPrefixes
  DEF HooksInv, HooksListed, Loading, Unloading, fh_remove_hooks, unregister, Goto, taskVars
<1>3. Loading'
  BY HookNames, HookPrefixes
  DEF HooksInv, TypeOK, HooksListed, Loading, Unloading, fh_remove_hooks, unregister, Goto,
      taskVars
<1>4. Unloading'
  <2>1. /\ mod' = "going" /\ i \in 1 .. 2 /\ ops \subseteq ExitFrom(i) \cup stuck
        /\ hooks' = {} /\ unregister(ftrace_hooks[i])
    BY DEF HooksInv, Unloading, fh_remove_hooks
  <2>2. CASE i = 1 /\ Goto("fh_remove", i + 1)
    <3>1. ops' \subseteq ExitFrom(2) \cup stuck'
      BY <2>1, <2>2, HookNames, HookPrefixes DEF unregister
    <3>2. QED
      BY <2>1, <2>2, <3>1 DEF Unloading, Goto
  <2>3. CASE i = 2 /\ Goto("misc_deregister", 0)
    <3>1. ops' \subseteq stuck'
      BY <2>1, <2>3, HookNames, HookPrefixes DEF unregister
    <3>2. QED
      BY <2>1, <2>3, <3>1 DEF Unloading, LeftOver, Goto
  <2>4. QED
    BY <2>1, <2>2, <2>3, HookNames DEF fh_remove_hooks
<1>5. TasksOK'
  BY HookNames, HookPrefixes
  DEF HooksInv, TypeOK, Loading, Unloading, TasksOK, fh_remove_hooks, unregister, Goto, taskVars
<1>6. WaitsOK'
  BY DEF HooksInv, TypeOK, WaitsOK, fh_remove_hooks, unregister, Goto
<1>7. QED
  BY <1>1, <1>2, <1>3, <1>4, <1>5, <1>6 DEF HooksInv

LEMMA MiscDeregisterKeeps == ASSUME HooksInv, waits = "none", misc_deregister PROVE HooksInv'
<1>1. TypeOK'
  BY HookNames, HookPrefixes DEF HooksInv, TypeOK, Loading, misc_deregister, Goto, taskVars
<1>2. HooksListed'
  BY HookNames, HookPrefixes
  DEF HooksInv, HooksListed, Loading, Unloading, misc_deregister, Goto, taskVars
<1>3. Loading'
  BY HookNames, HookPrefixes
  DEF HooksInv, TypeOK, HooksListed, Loading, Unloading, misc_deregister, Goto, taskVars
<1>4. Unloading'
  BY HookNames, HookPrefixes
  DEF HooksInv, TypeOK, HooksListed, Loading, Unloading, LeftOver, misc_deregister, Goto, taskVars
<1>5. TasksOK'
  BY HookNames, HookPrefixes
  DEF HooksInv, TypeOK, Loading, Unloading, TasksOK, misc_deregister, Goto, taskVars
<1>6. WaitsOK'
  BY DEF HooksInv, TypeOK, WaitsOK, misc_deregister, Goto
<1>7. QED
  BY <1>1, <1>2, <1>3, <1>4, <1>5, <1>6 DEF HooksInv

LEMMA SynchronizeKeeps == ASSUME HooksInv, synchronize PROVE HooksInv'
<1>1. TypeOK' /\ HooksListed' /\ Loading' /\ Unloading' /\ WaitsOK'
  BY DEF HooksInv, TypeOK, HooksListed, Loading, Unloading, LeftOver, WaitsOK, synchronize, taskVars
<1>2. TasksOK'
  BY DEF HooksInv, TypeOK, TasksOK, synchronize, taskVars
<1>3. QED
  BY <1>1, <1>2 DEF HooksInv

LEMMA FreeKeeps == ASSUME HooksInv, waits = "none", free_module PROVE HooksInv'
<1>1. TypeOK'
  BY HookNames, HookPrefixes DEF HooksInv, TypeOK, Loading, free_module, Goto
<1>2. HooksListed'
  BY HookNames, HookPrefixes DEF HooksInv, HooksListed, Loading, Unloading, free_module, Goto
<1>3. Loading'
  BY HookNames, HookPrefixes
  DEF HooksInv, TypeOK, HooksListed, Loading, Unloading, free_module, Goto
<1>4. Unloading'
  BY HookNames, HookPrefixes
  DEF HooksInv, TypeOK, HooksListed, Loading, Unloading, LeftOver, free_module, Goto
<1>5. TasksOK'
  BY HookNames, HookPrefixes DEF HooksInv, TypeOK, Loading, Unloading, TasksOK, free_module, Goto
<1>6. WaitsOK'
  BY DEF HooksInv, TypeOK, WaitsOK, free_module, Goto
<1>7. QED
  BY <1>1, <1>2, <1>3, <1>4, <1>5, <1>6 DEF HooksInv

-----------------------------------------------------------------------------
(* The steps of the tasks leave mod_init and mod_exit alone. *)

LEMMA TasksKeep ==
  ASSUME HooksInv, UNCHANGED loadVars,
         fd' \subseteq Tasks, data' \subseteq Tasks, early' \subseteq fd',
         at' \in [Tasks -> {"user", "ioctl", "exit_hook"} \cup PageFns],
         pending' \in 0 .. MaxPending, TasksOK'
  PROVE  HooksInv'
BY DEF HooksInv, TypeOK, HooksListed, Loading, Unloading, LeftOver, WaitsOK, loadVars

LEMMA OpenKeeps == ASSUME NEW t \in Tasks, HooksInv, Open(t) PROVE HooksInv'
<1>1. TasksOK'
  BY DEF HooksInv, TypeOK, TasksOK, Open, loadVars
<1>2. QED
  BY <1>1, TasksKeep DEF HooksInv, TypeOK, Open

LEMMA CloseKeeps == ASSUME NEW t \in Tasks, HooksInv, Close(t) PROVE HooksInv'
<1>1. TasksOK'
  BY DEF HooksInv, TypeOK, TasksOK, Close, loadVars
<1>2. QED
  BY <1>1, TasksKeep DEF HooksInv, TypeOK, Close

\* A task goes somewhere without touching the device or its task_data.
LEMMA GoesKeeps ==
  ASSUME NEW t \in Tasks, NEW l \in {"user", "ioctl", "exit_hook"} \cup PageFns,
         HooksInv, Goes(t, l), UNCHANGED <<loadVars, fd, data, pending, early>>,
         l = "ioctl" => t \in fd, l \in PageFns => l \in ops \cup {waits}
  PROVE  HooksInv'
<1>1. TasksOK'
  BY DEF HooksInv, TypeOK, TasksOK, Goes, loadVars
<1>2. QED
  BY <1>1, TasksKeep DEF HooksInv, TypeOK, Goes

LEMMA IoctlReturnsKeeps == ASSUME NEW t \in Tasks, HooksInv, ioctl_returns(t) PROVE HooksInv'
<1>1. TasksOK'
  BY HookNames DEF HooksInv, TypeOK, TasksOK, ioctl_returns, Goes, loadVars
<1>2. pending' \in 0 .. MaxPending /\ data' \subseteq Tasks
  BY HooksAssumption DEF HooksInv, TypeOK, ioctl_returns
<1>3. QED
  BY <1>1, <1>2, TasksKeep DEF HooksInv, TypeOK, ioctl_returns, Goes

LEMMA ExitReturnsKeeps == ASSUME NEW t \in Tasks, HooksInv, exit_returns(t) PROVE HooksInv'
<1>1. TasksOK'
  BY HookNames DEF HooksInv, TypeOK, TasksOK, exit_returns, Goes, loadVars
<1>2. pending' \in 0 .. MaxPending /\ data' \subseteq Tasks
  BY HooksAssumption DEF HooksInv, TypeOK, exit_returns
<1>3. QED
  BY <1>1, <1>2, TasksKeep DEF HooksInv, TypeOK, exit_returns, Goes

LEMMA ExitUnhookedKeeps == ASSUME NEW t \in Tasks, HooksInv, exit_unhooked(t) PROVE HooksInv'
<1>1. TasksOK'
  BY DEF HooksInv, TypeOK, TasksOK, exit_unhooked, loadVars
<1>2. QED
  BY <1>1, TasksKeep DEF HooksInv, TypeOK, exit_unhooked

LEMMA CallbackKeeps == HooksInv /\ task_data_free_callback => HooksInv'
<1> SUFFICES ASSUME HooksInv, task_data_free_callback PROVE HooksInv'
  OBVIOUS
<1>1. TasksOK'
  BY DEF HooksInv, TasksOK, task_data_free_callback, loadVars
<1>2. pending' \in 0 .. MaxPending
  BY HooksAssumption DEF HooksInv, TypeOK, task_data_free_callback
<1>3. QED
  BY <1>1, <1>2, TasksKeep DEF HooksInv, TypeOK, task_data_free_callback

-----------------------------------------------------------------------------
LEMMA NextKeeps == HooksInv /\ [Next]_vars => HooksInv'
<1> SUFFICES ASSUME HooksInv, [Next]_vars PROVE HooksInv'
  OBVIOUS
<1>1. CASE UNCHANGED vars
  BY <1>1 DEF HooksInv, TypeOK, HooksListed, Loading, Unloading, TasksOK, LeftOver, WaitsOK, vars,
              loadVars, taskVars
<1>2. CASE insmod \/ rmmod
  BY <1>2, InsmodKeeps, RmmodKeeps
<1>3. CASE Load
  BY <1>3, MiscRegisterKeeps, FhInstallKeeps, FhRollbackKeeps, TryHookKeeps, ResolveKeeps,
     UnhookAllKeeps, FhRemoveKeeps, MiscDeregisterKeeps, FreeKeeps, SynchronizeKeeps DEF Load
<1>4. ASSUME NEW t \in Tasks,
             Open(t) \/ Close(t) \/ ioctl_returns(t) \/ exit_returns(t) \/ exit_unhooked(t)
      PROVE  HooksInv'
  BY <1>4, OpenKeeps, CloseKeeps, IoctlReturnsKeeps, ExitReturnsKeeps, ExitUnhookedKeeps
<1>5. ASSUME NEW t \in Tasks, mod_dev_ioctl(t) PROVE HooksInv'
  BY <1>5, GoesKeeps, HookNames DEF mod_dev_ioctl
<1>6. ASSUME NEW t \in Tasks, NEW f \in PageFns, Fault(t, f) PROVE HooksInv'
  BY <1>6, GoesKeeps, HookNames DEF Fault
<1>7. ASSUME NEW t \in Tasks, hook_returns(t) \/ Exit(t) \/ exit_restores(t) PROVE HooksInv'
  BY <1>7, GoesKeeps, HookNames DEF hook_returns, Exit, exit_restores
<1>8. CASE task_data_free_callback
  BY <1>8, CallbackKeeps
<1>9. QED
  BY <1>1, <1>2, <1>3, <1>4, <1>5, <1>6, <1>7, <1>8 DEF Next, InModule

\* The inductive invariant holds in every reachable state: at every step of
\* mod_init and mod_exit, what is registered is what the steps before registered
\* and did not undo (module.c:196-261).
THEOREM HooksInvHolds == Spec => []HooksInv
<1>1. HooksInv /\ [Next]_vars => HooksInv'
  BY NextKeeps
<1>2. QED
  BY <1>1, InitInv, PTL DEF Spec

\* The state has its type, and the loops over the hooks stay within their arrays.
THEOREM HooksTypeCorrect == Spec => []TypeOK
BY HooksInvHolds, PTL DEF HooksInv

\* The list of hook.c is exactly the registered page hooks, whatever fails
\* (hook.c:19-56, 76-89).
THEOREM ListsExact == Spec => []HooksListed
BY HooksInvHolds, PTL DEF HooksInv

\* Who opens the device after mod_init is done finds all hooks in place for as
\* long as an ioctl runs, rmmod included (module.c:204-261).
THEOREM IoctlsAreServed == Spec => []IoctlsServed
<1>1. HooksInv => IoctlsServed
  BY DEF HooksInv, TypeOK, Loading, TasksOK, IoctlsServed, Fns
<1>2. QED
  BY <1>1, HooksInvHolds, PTL

\* An unloaded module leaves behind only what ftrace refused to unregister, what a
\* task opened before mod_init was done, and the exit hooks of a mod_init that
\* failed late (module.c:246-261).
THEOREM UnloadsClean == Spec => []UnloadedClean
<1>1. HooksInv => UnloadedClean
  BY HookNames DEF HooksInv, TypeOK, Unloading, TasksOK, WaitsOK, LeftOver, UnloadedClean
<1>2. QED
  BY <1>1, HooksInvHolds, PTL
=============================================================================
