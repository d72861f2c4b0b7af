----------------------------- MODULE MCTrapReport -----------------------------
(***************************************************************************)
(* A small instance of TrapReport: two threads, two slots, three objects.  *)
(***************************************************************************)
EXTENDS TrapReport, TLC

CONSTANTS o1, o2, o3

MCObjects == {o1, o2, o3}
Symmetry  == Permutations(MCObjects)

=============================================================================
