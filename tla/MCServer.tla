------------------------------ MODULE MCServer ------------------------------
(***************************************************************************)
(* The instances of Server that TLC checks.  Neither the connections nor   *)
(* the handles are told apart by any definition, so both may be permuted   *)
(* in the runs that check safety only.                                     *)
(***************************************************************************)
EXTENDS Server, TLC

Alike == Permutations(Conns) \cup Permutations(Handles)

=============================================================================
