-------------------------------- MODULE MCAgps --------------------------------
(***************************************************************************)
(* Small instances of Agps; handles are interchangeable.                   *)
(***************************************************************************)
EXTENDS Agps, TLC

HandleSymmetry == Permutations(Handles)

=============================================================================
