-------------------------- MODULE SnapshotPromise --------------------------
(***************************************************************************)
(* What the module promises a process about its memory, without page       *)
(* structs, hooks, page tables or lists (README.md:74-80).                 *)
(***************************************************************************)
CONSTANTS Pages,
          Bytes,     \* what a mapped page can show
          Unmapped   \* what an unmapped one shows

VARIABLES
  last,    \* whose step it was
  view,    \* what the process sees of each page
  saved,   \* what it saw when the snapshot was taken
  scope    \* the pages whose bytes a restore gives back

vars == <<last, view, saved, scope>>

Init ==
  /\ last = "run"
  /\ view \in [Pages -> Bytes \cup {Unmapped}]
  /\ saved \in [Pages -> Bytes]
  /\ scope = {}

\* The process does what it likes with its memory and its range lists.  It cannot
\* change what was saved; a page whose old bytes could not be kept is lost.
Run ==
  /\ last' = "run"
  /\ view' \in [Pages -> Bytes \cup {Unmapped}]
  /\ scope' \subseteq scope
  /\ saved' = saved

\* A take changes nothing the process sees.
Take ==
  /\ last' = "take"
  /\ scope = {} /\ scope' \subseteq Pages
  /\ saved' \in [Pages -> Bytes]
  /\ \A p \in scope' : saved'[p] = view[p]
  /\ view' = view

\* A restore gives the pages of the scope their bytes back and unmaps none of
\* them; a page that could not be written leaves the scope.
Restore ==
  /\ last' = "restore"
  /\ view' \in [Pages -> Bytes \cup {Unmapped}]
  /\ scope' \subseteq scope
  /\ \A p \in scope :
       /\ view[p] # Unmapped => view'[p] # Unmapped
       /\ p \in scope' /\ view'[p] # Unmapped => view'[p] = saved[p]
  /\ saved' = saved

\* A restore that gives up half way changes no mapped page of the scope, and
\* takes none away from the next restore.
GiveUp ==
  /\ last' = "give up"
  /\ view' \in [Pages -> Bytes \cup {Unmapped}]
  /\ \A p \in scope : view[p] # Unmapped => view'[p] = view[p]
  /\ UNCHANGED <<saved, scope>>

\* The snapshot goes, and the process keeps what it sees.
Drop ==
  /\ last' = "drop"
  /\ scope' = {}
  /\ saved' \in [Pages -> Bytes]
  /\ view' = view

\* The process ends and its memory with it.
Exit ==
  /\ last' = "exit"
  /\ scope' = {}
  /\ saved' \in [Pages -> Bytes]
  /\ view' = [p \in Pages |-> Unmapped]

Next == Run \/ Take \/ Restore \/ GiveUp \/ Drop \/ Exit

Spec == Init /\ [][Next]_vars
=============================================================================
