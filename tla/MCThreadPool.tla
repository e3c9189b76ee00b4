---------------------------- MODULE MCThreadPool ----------------------------
(***************************************************************************)
(* The instances of ThreadPool that TLC checks.  Workers are               *)
(* interchangeable, and so are the tasks that are not endless.             *)
(***************************************************************************)
EXTENDS ThreadPool, TLC

Alike == Permutations(Workers) \cup Permutations(Tasks \ Endless)

=============================================================================
