---------------------------- MODULE ModuleHooks ----------------------------
(***************************************************************************)
(* Loading and unloading: mod_init and mod_exit of module.c with the two   *)
(* ways they install hooks, hook.c (a list of ftrace_ops whose callback is *)
(* the hook) and ftrace_helper.h (an array of ftrace_ops whose callback    *)
(* only diverts the call to the hook), against the tasks that open the     *)
(* device, fault and exit at the same time.                                *)
(*                                                                         *)
(* Modelled from how the module uses them: the device layer and its        *)
(* reference to the module, and ftrace, which waits for callbacks that run *)
(* when it unregisters them but knows nothing of a call it has diverted.   *)
(***************************************************************************)
EXTENDS Integers, Sequences

CONSTANTS Tasks,
          MaxPending   \* the callbacks call_rcu has queued at a time

ASSUME HooksAssumption == MaxPending \in Nat

\* The arguments of fh_install_hooks and of the calls of try_hook, in order.
ftrace_hooks == <<"sys_exit_group", "do_exit">>
page_hooks   == <<"do_wp_page", "page_add_new_anon_rmap", "__do_munmap">>
ExitFns == {ftrace_hooks[k] : k \in 1 .. Len(ftrace_hooks)}
PageFns == {page_hooks[k] : k \in 1 .. Len(page_hooks)}

VARIABLES
  mod,       \* the kernel's state of the module: out, coming, live, going
  pc,        \* where mod_init or mod_exit is
  i,         \* its loop variable, or the number of the try_hook it is at
  device,    \* misc_dev is registered
  ops,       \* the functions with a registered ftrace_ops of the module
  hooks,     \* the list of hook.c
  resolved,  \* the non-exported symbols are resolved
  fd,        \* the tasks that have the device open
  at,        \* where each task is: outside, in an ioctl, or in a hook
  data,      \* the tasks that have a task_data
  pending,   \* task_data_free_callbacks queued by call_rcu
  early,     \* history: tasks that opened the device before mod_init was done
  late,      \* history: mod_init failed after fh_install_hooks
  stuck,     \* history: the functions unregister_ftrace_function failed for
  waits      \* the function whose callbacks unregister_ftrace_function waits for

loadVars == <<mod, pc, i, device, ops, hooks, resolved, late, stuck, waits>>
taskVars == <<fd, at, data, pending, early>>
vars     == <<loadVars, taskVars>>

Init ==
  /\ mod = "out" /\ pc = "idle" /\ i = 0
  /\ device = FALSE /\ ops = {} /\ hooks = {} /\ resolved = FALSE
  /\ fd = {} /\ at = [t \in Tasks |-> "user"] /\ data = {} /\ pending = 0
  /\ early = {} /\ late = FALSE /\ stuck = {} /\ waits = "none"

-----------------------------------------------------------------------------
(* mod_init. *)

Goto(l, k) == pc' = l /\ i' = k

\* Nothing is left of an earlier load that could run.
insmod ==
  /\ mod = "out" /\ ops = {} /\ fd = {} /\ pending = 0
  /\ \A t \in Tasks : at[t] = "user"
  /\ mod' = "coming"
  /\ Goto("misc_register", 0)
  /\ late' = FALSE /\ stuck' = {}
  /\ UNCHANGED <<device, ops, hooks, resolved, waits, taskVars>>

\* Mutant: the loop of fh_install_hooks starts one hook too early.
misc_register_early ==
  /\ pc = "misc_register"
  /\ \/ device' = TRUE /\ Goto("fh_install", 0)
     \/ UNCHANGED device /\ Goto("free", 0)
  /\ UNCHANGED <<mod, ops, hooks, resolved, late, stuck, waits, taskVars>>

misc_register ==
  /\ pc = "misc_register"
  /\ \/ device' = TRUE /\ Goto("fh_install", 1)
     \/ UNCHANGED device /\ Goto("free", 0)
  /\ UNCHANGED <<mod, ops, hooks, resolved, late, stuck, waits, taskVars>>

\* fh_install_hook: the address, the filter or the registration can fail, and the
\* ones before are removed again.
fh_install_hook ==
  /\ pc = "fh_install"
  /\ \/ /\ ops' = ops \cup {ftrace_hooks[i]}
        /\ IF i < Len(ftrace_hooks) THEN Goto("fh_install", i + 1) ELSE Goto("try_hook", 1)
     \/ UNCHANGED ops /\ Goto("fh_rollback", i)
  /\ UNCHANGED <<mod, device, hooks, resolved, late, stuck, waits, taskVars>>

\* unregister_ftrace_function takes the callback away and then waits for the ones
\* that run (synchronize, below).  It can refuse, which is logged and no more.
unregister(f) ==
  \/ ops' = ops \ {f} /\ waits' = f /\ UNCHANGED stuck
  \/ stuck' = stuck \cup {f} /\ UNCHANGED <<ops, waits>>

\* The wait is over when no callback of the function runs any more.
synchronize ==
  /\ waits # "none" /\ \A t \in Tasks : at[t] # waits
  /\ waits' = "none"
  /\ UNCHANGED <<mod, pc, i, device, ops, hooks, resolved, late, stuck, taskVars>>

fh_rollback ==
  /\ pc = "fh_rollback"
  /\ \/ i > 1 /\ unregister(ftrace_hooks[i - 1]) /\ Goto("fh_rollback", i - 1)
     \/ i = 1 /\ Goto("misc_deregister", 0) /\ UNCHANGED <<ops, stuck, waits>>
  /\ UNCHANGED <<mod, device, hooks, resolved, late, taskVars>>

\* Mutant: the hook is put on the list before it is registered.
try_hook_listed ==
  /\ pc = "try_hook"
  /\ hooks' = hooks \cup {page_hooks[i]}
  /\ \/ /\ ops' = ops \cup {page_hooks[i]}
        /\ IF i < Len(page_hooks) THEN Goto("try_hook", i + 1) ELSE Goto("resolve", 0)
        /\ UNCHANGED late
     \/ Goto("unhook_all", 0) /\ late' = TRUE /\ UNCHANGED ops
  /\ UNCHANGED <<mod, device, resolved, stuck, waits, taskVars>>

\* try_hook: the allocation, the filter or the registration can fail, and the
\* struct is freed again.
try_hook ==
  /\ pc = "try_hook"
  /\ \/ /\ ops' = ops \cup {page_hooks[i]}
        /\ hooks' = hooks \cup {page_hooks[i]}
        /\ IF i < Len(page_hooks) THEN Goto("try_hook", i + 1) ELSE Goto("resolve", 0)
        /\ UNCHANGED late
     \/ Goto("unhook_all", 0) /\ late' = TRUE /\ UNCHANGED <<ops, hooks>>
  /\ UNCHANGED <<mod, device, resolved, stuck, waits, taskVars>>

resolve_non_exported_symbols ==
  /\ pc = "resolve"
  /\ \/ resolved' = TRUE /\ mod' = "live" /\ Goto("idle", 0) /\ UNCHANGED late
     \/ Goto("unhook_all", 0) /\ late' = TRUE /\ UNCHANGED <<resolved, mod>>
  /\ UNCHANGED <<device, ops, hooks, stuck, waits, taskVars>>

-----------------------------------------------------------------------------
(* mod_exit, and the end of a mod_init that failed. *)

\* Mutant: without .owner an open device does not keep the module.
rmmod_unowned ==
  /\ mod = "live" /\ pc = "idle"
  /\ mod' = "going"
  /\ Goto("unhook_all", 0)
  /\ UNCHANGED <<device, ops, hooks, resolved, late, stuck, waits, taskVars>>

\* An open device refers to the module (.owner) and keeps it from being removed.
rmmod ==
  /\ mod = "live" /\ pc = "idle" /\ fd = {}
  /\ mod' = "going"
  /\ Goto("unhook_all", 0)
  /\ UNCHANGED <<device, ops, hooks, resolved, late, stuck, waits, taskVars>>

\* err_hooks goes on to err_registration and leaves the exit hooks where they are.
unhook_all ==
  /\ pc = "unhook_all"
  /\ \/ \E f \in hooks : unregister(f) /\ hooks' = hooks \ {f} /\ UNCHANGED <<pc, i>>
     \/ /\ hooks = {}
        /\ IF mod = "going" THEN Goto("fh_remove", 1) ELSE Goto("misc_deregister", 0)
        /\ UNCHANGED <<ops, hooks, stuck, waits>>
  /\ UNCHANGED <<mod, device, resolved, late, taskVars>>

\* Mutant: the loop stops one hook early.
fh_remove_hooks_short ==
  /\ pc = "fh_remove"
  /\ unregister(ftrace_hooks[i])
  /\ IF i < Len(ftrace_hooks) - 1 THEN Goto("fh_remove", i + 1) ELSE Goto("misc_deregister", 0)
  /\ UNCHANGED <<mod, device, hooks, resolved, late, taskVars>>

fh_remove_hooks ==
  /\ pc = "fh_remove"
  /\ unregister(ftrace_hooks[i])
  /\ IF i < Len(ftrace_hooks) THEN Goto("fh_remove", i + 1) ELSE Goto("misc_deregister", 0)
  /\ UNCHANGED <<mod, device, hooks, resolved, late, taskVars>>

misc_deregister ==
  /\ pc = "misc_deregister"
  /\ device' = FALSE
  /\ Goto("free", 0)
  /\ UNCHANGED <<mod, ops, hooks, resolved, late, stuck, waits, taskVars>>

\* The kernel frees the module's text and data, whoever is in it.
free_module ==
  /\ pc = "free"
  /\ mod' = "out" /\ resolved' = FALSE /\ data' = {}
  /\ Goto("idle", 0)
  /\ UNCHANGED <<device, ops, hooks, late, stuck, waits, fd, at, pending, early>>

-----------------------------------------------------------------------------
(* The tasks. *)

Loaded == mod # "out"
Goes(t, l) == at' = [at EXCEPT ![t] = l]

Open(t) ==
  /\ at[t] = "user" /\ t \notin fd /\ device /\ mod \in {"coming", "live"}
  /\ fd' = fd \cup {t}
  /\ early' = IF mod = "coming" THEN early \cup {t} ELSE early
  /\ UNCHANGED <<loadVars, at, data, pending>>

\* There is no .release: what the task did with the device stays.
Close(t) ==
  /\ at[t] = "user" /\ t \in fd /\ Loaded
  /\ fd' = fd \ {t}
  /\ early' = early \ {t}
  /\ UNCHANGED <<loadVars, at, data, pending>>

mod_dev_ioctl(t) ==
  /\ at[t] = "user" /\ t \in fd /\ Loaded
  /\ Goes(t, "ioctl")
  /\ UNCHANGED <<loadVars, fd, data, pending, early>>

\* Its end: a task_data is made, given back to call_rcu, or neither.
ioctl_returns(t) ==
  /\ at[t] = "ioctl" /\ Loaded
  /\ Goes(t, "user")
  /\ \/ data' = data \cup {t} /\ UNCHANGED pending
     \/ t \in data /\ pending < MaxPending /\ data' = data \ {t} /\ pending' = pending + 1
     \/ UNCHANGED <<data, pending>>
  /\ UNCHANGED <<loadVars, fd, early>>

\* A hooked function of the fault and munmap paths is called.
Fault(t, f) ==
  /\ at[t] = "user" /\ f \in ops \cap PageFns /\ Loaded
  /\ Goes(t, f)
  /\ UNCHANGED <<loadVars, fd, data, pending, early>>

\* Mutant: do_wp_page_hook does not come back.
hook_returns_not(t) ==
  /\ at[t] \in PageFns \ {"do_wp_page"} /\ Loaded
  /\ Goes(t, "user")
  /\ UNCHANGED <<loadVars, fd, data, pending, early>>

hook_returns(t) ==
  /\ at[t] \in PageFns /\ Loaded
  /\ Goes(t, "user")
  /\ UNCHANGED <<loadVars, fd, data, pending, early>>

\* exit_group() or a fatal signal, diverted by fh_ftrace_thunk.
Exit(t) ==
  /\ at[t] = "user" /\ ops \cap ExitFns # {} /\ Loaded
  /\ Goes(t, "exit_hook")
  /\ UNCHANGED <<loadVars, fd, data, pending, early>>

\* sys_exit_group_hook restored a snapshot and returns to the program, ...
exit_restores(t) ==
  /\ at[t] = "exit_hook" /\ t \in data /\ Loaded
  /\ Goes(t, "user")
  /\ UNCHANGED <<loadVars, fd, data, pending, early>>

\* ... or the task ends, and a new one may take its place.
exit_returns(t) ==
  /\ at[t] = "exit_hook" /\ Loaded /\ (t \in data => pending < MaxPending)
  /\ Goes(t, "user")
  /\ fd' = fd \ {t} /\ early' = early \ {t}
  /\ data' = data \ {t}
  /\ pending' = IF t \in data THEN pending + 1 ELSE pending
  /\ UNCHANGED loadVars

\* The same without the hook.  A task_data that was left behind stays.
exit_unhooked(t) ==
  /\ at[t] = "user" /\ ops \cap ExitFns = {} /\ t \in fd /\ Loaded
  /\ fd' = fd \ {t} /\ early' = early \ {t}
  /\ UNCHANGED <<loadVars, at, data, pending>>

task_data_free_callback ==
  /\ pending > 0 /\ Loaded
  /\ pending' = pending - 1
  /\ UNCHANGED <<loadVars, fd, at, data, early>>

-----------------------------------------------------------------------------
\* insmod and rmmod go on when the call they are in has returned.
Load ==
  \/ synchronize
  \/ /\ waits = "none"
     /\ \/ misc_register \/ fh_install_hook \/ fh_rollback \/ try_hook
        \/ resolve_non_exported_symbols \/ unhook_all \/ fh_remove_hooks
        \/ misc_deregister \/ free_module

InModule(t) == ioctl_returns(t) \/ hook_returns(t) \/ exit_restores(t) \/ exit_returns(t)

Next ==
  \/ insmod \/ rmmod \/ Load
  \/ \E t \in Tasks :
       \/ Open(t) \/ Close(t) \/ mod_dev_ioctl(t) \/ \E f \in PageFns : Fault(t, f)
       \/ Exit(t) \/ exit_unhooked(t) \/ InModule(t)
  \/ task_data_free_callback

\* insmod and rmmod run on, and so does a task in a page hook, which takes no lock
\* that mod_init or mod_exit holds.
Spec ==
  /\ Init /\ [][Next]_vars
  /\ WF_vars(Load)
  /\ \A t \in Tasks : WF_vars(hook_returns(t))

-----------------------------------------------------------------------------
\* The state has its type; at most the calls of one load are under way.
TypeOK ==
  /\ mod \in {"out", "coming", "live", "going"}
  /\ pc \in {"idle", "misc_register", "fh_install", "fh_rollback", "try_hook", "resolve",
             "unhook_all", "fh_remove", "misc_deregister", "free"}
  /\ pc \in {"fh_install", "fh_remove"} => i \in 1 .. Len(ftrace_hooks)
  /\ pc = "try_hook" => i \in 1 .. Len(page_hooks)
  /\ device \in BOOLEAN /\ resolved \in BOOLEAN /\ late \in BOOLEAN
  /\ ops \subseteq ExitFns \cup PageFns /\ hooks \subseteq PageFns
  /\ fd \subseteq Tasks /\ data \subseteq Tasks /\ early \subseteq fd
  /\ at \in [Tasks -> {"user", "ioctl", "exit_hook"} \cup PageFns]
  /\ pending \in 0 .. MaxPending
  /\ waits \in {"none"} \cup ExitFns \cup PageFns
  /\ mod = "live" <=> pc = "idle" /\ mod # "out"

\* The list of hook.c holds the page hooks that are registered, at every step of a
\* load that fails anywhere: unhook_all misses none and unregisters none twice
\* (hook.c:19-56, 76-89).
HooksListed == hooks = (ops \cap PageFns) \ stuck

\* A task in an ioctl finds the symbols resolved and all hooks in place, so that
\* what it snapshots is tracked, unless it opened the device before mod_init was
\* done (module.c:204-244).
IoctlsServed ==
  \A t \in Tasks : at[t] = "ioctl" /\ t \notin early =>
    mod = "live" /\ resolved /\ device /\ ops = ExitFns \cup PageFns

\* When the module is gone, from a load that failed or from rmmod, nothing leads
\* into it any more: no device, no page hook, no task in one or in an ioctl.  Left
\* out are what ftrace refused to unregister, a device opened before mod_init was
\* done, and the exit hooks mod_init does not remove (module.c:246-261).
UnloadedClean ==
  mod = "out" =>
    /\ ~device /\ hooks = {}
    /\ ops \subseteq stuck \cup (IF late THEN ExitFns ELSE {})
    /\ fd \subseteq early
    /\ \A t \in Tasks : at[t] \in {"user", "exit_hook"} \cup stuck
                            \cup (IF t \in early THEN {"ioctl"} ELSE {})

\* insmod and rmmod come to an end, although unregister_ftrace_function holds them
\* up until the hooks that run have returned: nobody enters a hook that is being
\* waited for, and those in it need nothing the unloading task keeps from them
\* (hook.c:76-89, ftrace_helper.h:173-219).
LoadEnds == pc # "idle" ~> pc = "idle"
=============================================================================
