------------------------------ MODULE MCFiles ------------------------------
(***************************************************************************)
(* Processes for FilesSnapshot: one thread with two descriptors, one that  *)
(* creates a second and two from the start with one, and three, the fewest *)
(* for which one can leave the list in front of another and come back at   *)
(* its end, with none.                                                     *)
(***************************************************************************)
EXTENDS FilesSnapshot

List  == <<"main", "second", "third">>
Shapes ==
  {[threads |-> {"second"}, clones |-> {}, nofile |-> 2, files |-> {"log", "disk"}],
   [threads |-> {"second"}, clones |-> {"third"}, nofile |-> 1, files |-> {"log"}],
   [threads |-> {"second", "third"}, clones |-> {}, nofile |-> 1, files |-> {"pipe", "disk"}],
   [threads |-> {"main", "second", "third"}, clones |-> {"third"}, nofile |-> 0, files |-> {}]}
=============================================================================
