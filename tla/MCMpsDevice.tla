---------------------------- MODULE MCMpsDevice ----------------------------
(***************************************************************************)
(* The instances of MpsDevice that TLC checks.  The callers of a run are   *)
(* model values that no definition tells apart, so they may be permuted;   *)
(* the symmetry is used by the runs that check safety only.                *)
(***************************************************************************)
EXTENDS MpsDevice, TLC

ContinuousOrTwo == {0, 2}

CallersAlike == Permutations(Callers)

=============================================================================
