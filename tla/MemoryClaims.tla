---------------------------- MODULE MemoryClaims ----------------------------
(***************************************************************************)
(* What the README and a test say of the memory snapshot and the code does *)
(* not do: the properties of the runs TLC refutes.                         *)
(***************************************************************************)
EXTENDS MCMemory

\* A page that is read only when the snapshot is restored is restored as well:
\* "The value of map_ptr should be restored" (test9.c:26).  copy_to_user fails
\* and the page is marked clean (memory.c:658-661).
ReadOnlyRestored ==
  alive /\ have_snapshot =>
    \A n \in MapStops, T \in SUBSET NoPte(Pages), copy \in BOOLEAN :
      \A p \in covered \ failed :
        RestoredVmas(n)[AreaOf[p]].mapped => RestoredPage(p, n, T, copy).mem = saved[p]

\* A page of a shared mapping that was included, had an entry when the snapshot was
\* taken and is writable at the restore is restored, if there was memory for its
\* copy: "These pages will be snapshotted" (README.md:66).  mprotect gives its entry
\* the write permission back, and do_wp_page_hook sees none of the stores that follow
\* (memory.c:833-877).
IncludedRestored ==
  alive /\ have_snapshot =>
    \A n \in MapStops, T \in SUBSET NoPte(Pages), copy \in BOOLEAN : \A p \in covered :
      /\ VmaOf(p).mapped /\ VmaOf(p).kind = "shared" /\ VmaOf(p).w
      /\ page[p].dirty => page[p].has_been_copied
      => RestoredPage(p, n, T, copy).mem = saved[p]

\* A page that was excluded when the snapshot was taken (the walk got as far as a
\* later page and did not cover it) keeps its bytes in a restore: "These pages will
\* not be snapshotted" (README.md:59), "Only shm_addr[0] and priv_addr[1] should be
\* restored" (test1.c:80).  One that had no entry then is tracked by
\* page_add_new_anon_rmap_hook, which does not ask the blocklist (memory.c:908-917).
ExcludedUntouched ==
  alive /\ have_snapshot =>
    \A n \in MapStops, T \in SUBSET NoPte(Pages), copy \in BOOLEAN :
      \A p \in blocklist \ covered :
        /\ \E q \in covered : AreaOf[q] = AreaOf[p] /\ PageTurn[p] < PageTurn[q]
        /\ VmaOf(p).mapped /\ RestoredVmas(n)[AreaOf[p]].mapped
        => RestoredPage(p, n, T, copy).mem = page[p].mem
=============================================================================
