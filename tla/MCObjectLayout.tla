---------------------------- MODULE MCObjectLayout ----------------------------
(***************************************************************************)
(* A small instance of ObjectLayout for TLC.  A word is two bytes, the     *)
(* header four words and a granule two, in proportion as in the code; an   *)
(* int has 7 bits and a size_t 8.                                          *)
(***************************************************************************)
EXTENDS ObjectLayout

\* 0, one that is and one that is not a multiple of a word; three that have no room in the buffer:
\* one that overflows the sum of ints, one that is negative and one that is small as an int; and
\* three that malloc refuses, two of which wrap around.
SmallAndHuge == {0, 3, 8, 40, 60, 124, 128, 238, 254}

=============================================================================
