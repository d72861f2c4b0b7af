----------------------------- MODULE MCCallSites -----------------------------
(***************************************************************************)
(* Three entry points: two have their caller at the same distance, the     *)
(* third one word further, so that at another depth of the application it  *)
(* gives the same offset; two call sites; of the nine frames kept, up to   *)
(* eight are the library's.                                                *)
(***************************************************************************)
EXTENDS CallSites

MCEntries == {"malloc", "memalign", "moved"}

MCOwn == [malloc   |-> <<"startWatch", "install", "xxmalloc", "malloc">>,
          memalign |-> <<"startWatch", "install", "xxmemalign", "memalign">>,
          moved    |-> <<"startWatch", "install", "xxmalloc", "malloc", "realloc">>]

MCDistance == [malloc |-> 4, memalign |-> 4, moved |-> 5]

MCInner == <<"backtrace", "getCallsites", "updateWatchedInfo">>
==============================================================================
