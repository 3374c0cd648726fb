------------------------ MODULE MemoryPromiseProofs ------------------------
(***************************************************************************)
(* SnapshotMemory implements SnapshotPromise, for every process: the       *)
(* refinement mapping of MemoryPromise takes each step to a step of the    *)
(* promise.  TypeOK and Inv, from SnapshotMemoryProofs, say why.           *)
(***************************************************************************)
EXTENDS MemoryPromise, SnapshotMemoryProofs

\* What the refinement mapping shows of one page.
LEMMA ViewFacts ==
  ASSUME TypeOK
  PROVE  /\ View \in [Pages -> Data \cup {Unmapped}]
         /\ \A p \in Pages : /\ View[p] # Unmapped <=> VmaOf(p).mapped
                             /\ VmaOf(p).mapped => View[p] = page[p].mem
<1>1. ASSUME NEW p \in Pages
      PROVE  page[p].mem \in Data /\ page[p].mem # Unmapped
  BY PageFacts, UnmappedAssumption DEF PageState
<1> QED BY <1>1 DEF View

\* The same after a step.
LEMMA NextViewFacts ==
  ASSUME TypeOK'
  PROVE  /\ View' \in [Pages -> Data \cup {Unmapped}]
         /\ \A p \in Pages : /\ View'[p] # Unmapped <=> vma'[AreaOf[p]].mapped
                             /\ vma'[AreaOf[p]].mapped => View'[p] = page'[p].mem
<1>1. View' = [p \in Pages |-> IF vma'[AreaOf[p]].mapped THEN page'[p].mem ELSE Unmapped]
  BY DEF View, VmaOf
<1>2. ASSUME NEW p \in Pages
      PROVE  page'[p].mem \in Data /\ page'[p].mem # Unmapped
  BY UnmappedAssumption DEF TypeOK, PageState
<1> QED BY <1>1, <1>2

\* The program's steps lose pages but never what was saved.
LEMMA RunRefines ==
  ASSUME TypeOK, TypeOK', last' = "run",
         \/ Program
         \/ \E r \in ExcludeRanges : exclude_vmrange(r)
         \/ \E r \in IncludeRanges : include_vmrange(r)
  PROVE  P!Run
<1>1. saved' = saved /\ covered' = covered /\ failed \subseteq failed'
  <2>1. CASE Program
    BY <2>1 DEF Program, Load, Store, Fork, Mmap, Munmap, Mprotect, historyVars
  <2>2. CASE \E r \in ExcludeRanges : exclude_vmrange(r)
    BY <2>2 DEF exclude_vmrange, historyVars
  <2>3. CASE \E r \in IncludeRanges : include_vmrange(r)
    BY <2>3 DEF include_vmrange, historyVars
  <2> QED BY <2>1, <2>2, <2>3
<1>2. Scope' \subseteq Scope
  BY <1>1 DEF Scope
<1> QED BY <1>1, <1>2, NextViewFacts DEF P!Run

\* A take saves what the process sees of the pages it puts in scope.
LEMMA TakeRefines ==
  ASSUME TypeOK, Inv, TypeOK', last' = "take",
         NEW cfg \in Configs, take_snapshot(cfg)
  PROVE  P!Take
<1> DEFINE walkedTo(n) == {p \in Pages : /\ Snapshottable(cfg, AreaOf[p]) /\ Selected(cfg, p)
                                         /\ PageTurn[p] < n}
<1>1. PICK n \in 0 .. End :
        /\ \E T \in SUBSET NoPte(walkedTo(n)) :
             page' = [p \in Pages |->
                        IF p \in walkedTo(n) /\ (page[p].pte # "none" \/ p \in T)
                        THEN make_snapshot_page(page[p]) ELSE page[p]]
        /\ covered' = {p \in walkedTo(n) : VmaOf(p).kind # "shared" \/ page[p].pte # "none"}
        /\ saved' = [p \in Pages |-> IF p \in walkedTo(n) THEN page[p].mem ELSE Junk]
  BY DEF take_snapshot
<1>2. ~have_snapshot /\ vma' = vma /\ failed' = failed
  BY DEF take_snapshot
<1>3. Scope = {}
  BY <1>2 DEF Inv, Scope
<1>4. ASSUME NEW p \in Pages PROVE page'[p].mem = page[p].mem
  <2>1. page'[p] = page[p] \/ page'[p] = make_snapshot_page(page[p])
    BY <1>1
  <2> QED BY <2>1, PageFacts DEF make_snapshot_page, add_snapshot_page, wrprotect, PageState
<1>5. View' = View
  BY <1>2, <1>4 DEF View, VmaOf
<1>6. ASSUME NEW p \in Scope' PROVE saved'[p] = View[p]
  <2>1. p \in walkedTo(n) /\ p \in Pages
    BY <1>1, <1>6 DEF Scope
  <2>2. VmaOf(p).mapped /\ saved'[p] = page[p].mem
    BY <1>1, <2>1 DEF Snapshottable, VmaOf
  <2> QED BY <2>1, <2>2 DEF View
<1>7. saved' \in [Pages -> Data] /\ Scope' \subseteq Pages
  BY DEF TypeOK, Scope
<1> QED BY <1>3, <1>5, <1>6, <1>7 DEF P!Take

\* A restore that goes through brings the bytes of the pages in scope back.
LEMMA RestoreRefines ==
  ASSUME TypeOK, Inv, TypeOK', last' = "restore", alive, restore_completes
  PROVE  P!Restore
<1>1. PICK n \in MapStops, T \in SUBSET NoPte(Pages), copy \in BOOLEAN :
        /\ vma' = RestoredVmas(n)
        /\ page' = [p \in Pages |-> RestoredPage(p, n, T, copy)]
        /\ failed' = failed \cup Lost(n, T, copy)
        /\ UNCHANGED <<alive, dataVars, saved, covered>>
  BY DEF restore_completes
<1>2. Scope' = covered \ (failed \cup Lost(n, T, copy)) /\ Scope' \subseteq Scope
  BY <1>1 DEF Scope
<1>3. ASSUME NEW p \in Scope
      PROVE  /\ View[p] # Unmapped => View'[p] # Unmapped
             /\ p \in Scope' /\ View'[p] # Unmapped => View'[p] = saved[p]
  <2>1. p \in Pages /\ p \in covered
    BY DEF TypeOK, Scope
  <2>2. VmaOf(p).mapped => vma'[AreaOf[p]].mapped
    <3>1. AreaOf[p] \in all_vmas /\ AreaOf[p] \in Areas
      BY <2>1, Before DEF TypeOK
    <3> QED BY <1>1, <3>1, RestoredVmaCases DEF RestoredVmas, VmaOf
  <2>3. p \in Scope' /\ vma'[AreaOf[p]].mapped => page'[p].mem = saved[p]
    BY <1>1, <1>2, <2>1, RestoredPage_Keeps
  <2> QED BY <2>1, <2>2, <2>3, ViewFacts, NextViewFacts
<1> QED BY <1>1, <1>2, <1>3, NextViewFacts DEF P!Restore

\* One that gives up leaves the pages in scope as they were, mapped ones at
\* least, and in scope.
LEMMA GiveUpRefines ==
  ASSUME TypeOK, Inv, TypeOK', last' = "give up", alive, restore_gives_up
  PROVE  P!GiveUp
<1>1. PICK a \in ToUnmap, T \in SUBSET NoPte(Pages), copy \in BOOLEAN :
        /\ vma' = RestoredVmas(VmaTurn[a])
        /\ page' = [p \in Pages |-> Revmaed(p, VmaTurn[a], T, copy)]
        /\ UNCHANGED <<alive, dataVars, historyVars>>
  BY DEF restore_gives_up
<1>2. saved' = saved /\ Scope' = Scope
  BY <1>1 DEF Scope, historyVars
<1>3. ASSUME NEW p \in Scope, View[p] # Unmapped PROVE View'[p] = View[p]
  <2>1. p \in Pages /\ p \in covered
    BY DEF TypeOK, Scope
  <2>2. VmaOf(p).mapped
    BY <1>3, <2>1, ViewFacts
  <2>3. AreaOf[p] \in all_vmas /\ AreaOf[p] \in Areas
    BY <2>1, Before DEF TypeOK
  <2>4. vma'[AreaOf[p]] = VmaOf(p)
    BY <1>1, <2>2, <2>3, RestoredVmaCases DEF RestoredVmas, VmaOf
  <2>5. page'[p] = page[p]
    BY <1>1, <2>1, <2>2, <2>4 DEF Revmaed
  <2> QED BY <2>1, <2>2, <2>4, <2>5, ViewFacts, NextViewFacts
<1> QED BY <1>2, <1>3, NextViewFacts DEF P!GiveUp

\* Dropping the snapshot changes nothing the process sees.
LEMMA DropRefines ==
  ASSUME TypeOK, TypeOK', last' = "drop", ioctl_clean
  PROVE  P!Drop
<1>1. /\ page' = [p \in Pages |-> forget_page(page[p])]
      /\ vma' = vma /\ covered' = {}
  BY DEF ioctl_clean, clean_snapshot
<1>2. ASSUME NEW p \in Pages PROVE page'[p].mem = page[p].mem
  BY <1>1, PageFacts DEF forget_page, UntouchedPage, PageState
<1>3. View' = View
  BY <1>1, <1>2 DEF View, VmaOf
<1>4. Scope' = {} /\ saved' \in [Pages -> Data]
  BY <1>1 DEF Scope, TypeOK
<1> QED BY <1>3, <1>4 DEF P!Drop

\* The end of the process ends the promise.
LEMMA ExitRefines ==
  ASSUME TypeOK, Inv, TypeOK', last' = "exit", process_exit
  PROVE  P!Exit
<1>1. vma' = [a \in Areas |-> NoVma]
  BY DEF process_exit
<1>2. View' = [p \in Pages |-> Unmapped]
  BY <1>1, MemoryAssumption DEF View, VmaOf, NoVma
<1>3. covered' = {}
  <2>1. CASE has_data /\ had_snapshot
    BY <2>1 DEF process_exit, clean_snapshot
  <2>2. CASE ~(has_data /\ had_snapshot)
    BY <2>2 DEF process_exit, historyVars, Inv
  <2> QED BY <2>1, <2>2
<1>4. Scope' = {} /\ saved' \in [Pages -> Data]
  BY <1>3 DEF Scope, TypeOK
<1> QED BY <1>2, <1>4 DEF P!Exit

\* Every step of SnapshotMemory, with its actor, is a step of Next: what the
\* invariant was proved for.
LEMMA PromiseNextIsNext ==
  ASSUME [PromiseNext]_<<vars, last>>
  PROVE  [Next]_vars
<1>1. MayRestore /\ restore_completes => recover_snapshot
  BY DEF MayRestore, recover_snapshot, restore_snapshot
<1>2. MayRestore /\ restore_gives_up => recover_snapshot
  BY DEF MayRestore, recover_snapshot, restore_snapshot
<1> QED BY <1>1, <1>2 DEF PromiseNext, Next, Ioctl

\* The memory snapshot implements the promise: take, restore, the restore that
\* gives up, clean and exit do to the pages in scope what SnapshotPromise says,
\* whatever the program did before (snapshot.c:45-154, memory.c:446-771).
THEOREM MemoryKeepsPromise == PromiseSpec => PromiseKept
<1>1. Init /\ last = "run" => P!Init
  <2> SUFFICES ASSUME Init, last = "run" PROVE P!Init
    OBVIOUS
  <2>1. TypeOK
    BY InitInv
  <2>2. Scope = {} /\ saved \in [Pages -> Data]
    BY <2>1 DEF Init, Scope, TypeOK
  <2> QED BY <2>1, <2>2, ViewFacts DEF P!Init
<1>2. TypeOK /\ Inv /\ TypeOK' /\ [PromiseNext]_<<vars, last>> => [P!Next]_(P!vars)
  <2> SUFFICES ASSUME TypeOK, Inv, TypeOK', [PromiseNext]_<<vars, last>>
               PROVE  P!Next \/ UNCHANGED P!vars
    OBVIOUS
  <2>1. CASE UNCHANGED <<vars, last>>
    BY <2>1 DEF P!vars, vars, programVars, historyVars, View, Scope, VmaOf
  <2>2. CASE PromiseNext
    BY <2>2, RunRefines, TakeRefines, RestoreRefines, GiveUpRefines, DropRefines,
       ExitRefines DEF PromiseNext, MayRestore, null_dereference, P!Next
  <2> QED BY <2>1, <2>2
<1>3. PromiseSpec => [](TypeOK /\ Inv)
  BY InitInv, NextKeepsInv, PromiseNextIsNext, PTL DEF PromiseSpec, PromiseInit
<1> QED BY <1>1, <1>2, <1>3, PTL DEF PromiseSpec, PromiseInit, PromiseKept, P!Spec
=============================================================================
