---------------------------- MODULE MCCallstackMap ----------------------------
(***************************************************************************)
(* A small instance of CallstackMap for TLC: two buckets; two of the three *)
(* call stacks share a hash code, and one is in the history file twice.    *)
(***************************************************************************)
EXTENDS CallstackMap, TLC

CONSTANTS t1, t2, k1, k2, k3

TwoThreads == {t1, t2}
ThreeKeys  == {k1, k2, k3}
SameHash   == (k1 :> 1) @@ (k2 :> 1) @@ (k3 :> 2)
TwoLines   == <<k1, k1>>

=============================================================================
