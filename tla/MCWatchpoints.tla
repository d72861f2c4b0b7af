---------------------------- MODULE MCWatchpoints ----------------------------
(***************************************************************************)
(* Small instances of Watchpoints for TLC.                                 *)
(***************************************************************************)
EXTENDS WatchpointsInvariants, TLC

CONSTANTS o1, o2, o3

TwoObjects == {o1, o2}
ThreeObjects == {o1, o2, o3}

\* Addresses are compared with each other only.
Symmetry == Permutations(Objects)

=============================================================================
