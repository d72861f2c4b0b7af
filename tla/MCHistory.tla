------------------------------- MODULE MCHistory -------------------------------
(***************************************************************************)
(* Small instances of History for TLC.  An upper bound of 12 is divided    *)
(* by 2, 3, 4 and 5 much as 10000 is.                                      *)
(***************************************************************************)
EXTENDS History, TLC

CONSTANTS s1, s2

OneStack  == {s1}
TwoStacks == {s1, s2}
Symmetry  == Permutations(Stacks)

=============================================================================
