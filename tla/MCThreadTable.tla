---------------------------- MODULE MCThreadTable ----------------------------
(* Four threads in turn for three records, so that a record is used again and the    *)
(* table can be full; a call inside a handler inside a call.                         *)
EXTENDS ThreadTable
==============================================================================
