------------------------------ MODULE MCSampling ------------------------------
(***************************************************************************)
(* A small instance of Sampling for TLC: the constants keep the order of   *)
(* those of the code.                                                      *)
(***************************************************************************)
EXTENDS Sampling, TLC

CONSTANTS t1, t2

TwoThreads == {t1, t2}
Symmetry == Permutations(Threads)

=============================================================================
