------------------------------ MODULE MCMappings ------------------------------
(***************************************************************************)
(* A small instance of Mappings for TLC.                                   *)
(***************************************************************************)
EXTENDS Mappings, TLC

CONSTANTS f1, f2

TwoFiles == {f1, f2}
Symmetry == Permutations(Files)

=============================================================================
