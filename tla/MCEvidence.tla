------------------------------ MODULE MCEvidence ------------------------------
(***************************************************************************)
(* A small instance of Evidence: three blocks of one-word objects.         *)
(***************************************************************************)
EXTENDS Evidence

\* The tail alone, up to the size in the next header, and the whole next header.
MCLengths == {1, 3, 5}

\* Numbers that, as sizes, are wrong within the mapping, lead out of it, and lead back to the
\* canary of the first object.
MCJunk == {2, 40, -11}

=============================================================================
