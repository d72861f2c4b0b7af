------------------------------ MODULE CallSites ------------------------------
(***************************************************************************)
(* How a call stack is named (causer.cpp).  An allocation is looked up by  *)
(* the return address of the application's innermost frame and by the      *)
(* distance of the stack pointer from the beginning of the stack.  That    *)
(* frame is found by a walk over the frames of the library the first time  *)
(* (getCallSiteKey), and from then on at the same distance from the top,   *)
(* whatever entry point was called.  What is read there is the key of the  *)
(* record, of which the map's entry keeps a copy.  When the record is new, *)
(* the whole call stack is written into it (getCallsites).  The records go *)
(* through the history file to the next run, the keys do not: there a      *)
(* record's key is its first frame.                                        *)
(*                                                                         *)
(* One thread allocates: what others do to the map between its steps is    *)
(* the matter of CallstackMap; how a saved frame is moved to the address   *)
(* its file has in the next run is the matter of Mappings, so a return     *)
(* address is a name here, the same one in each run.                       *)
(***************************************************************************)
EXTENDS Naturals, Sequences, FiniteSets, SequencesExt

CONSTANTS
  Entries,     \* entry points: malloc, memalign, realloc in place, realloc to a new place
  Own,         \* of each, the return addresses within the library, the innermost first
  Distance,    \* of each, how far the application's frame is from getCallSiteKey's
  Inner,       \* the library's return addresses between getCallSiteKey's caller and backtrace
  Sites,       \* return addresses in the application
  MAX_CALLSTACK_DEPTH,
  MaxFrames,   \* bound: frames of the application
  MaxCalls,    \* bound: allocations of a run
  MaxStarts    \* bound: runs of the program

OwnNames == UNION {ToSet(Own[e]) : e \in Entries} \cup ToSet(Inner)

\* A distance is a constant of the build; getCallSiteKey's own frame is at 1.
ASSUME CallSitesAssumption ==
  /\ \A e \in Entries : Own[e] \in Seq(OwnNames) /\ Own[e] # <<>> /\ Distance[e] \in Nat \ {0, 1}
  /\ Inner \in Seq(OwnNames) /\ {MAX_CALLSTACK_DEPTH, MaxFrames, MaxStarts} \subseteq Nat
  /\ Sites \cap OwnNames = {}
  /\ \A e \in Entries : Len(Inner) + Len(Own[e]) < MAX_CALLSTACK_DEPTH

VARIABLES
  known,     \* whether getTextRegions knows the library: by "/mylibrary" in its path
  starts,    \* which run of the program this is
  causer_stack_offset,   \* the distance found by the walk; 0 before
  records,   \* the map
  last,      \* history: the last allocation; whether its key was read from the right frame,
             \* and whether that of its record was, or is the record's first frame by now
  got,       \* history: the call stack of the record it was given
  calls      \* allocations of this run

siteVars == <<known, starts, causer_stack_offset, records, last, got, calls>>

isCauserLibrary(a) == known /\ a \in OwnNames

\* An allocation: its entry point and the frames of the application, the innermost first.
Allocations == [entry : Entries, app : UNION {[1..n -> Sites] : n \in 1..MaxFrames}]

Caller(a) == a.app[1]

SiteInit ==
  /\ known \in BOOLEAN
  /\ starts = 1
  /\ causer_stack_offset = 0
  /\ records = <<>>
  /\ last = [known |-> FALSE, caller |-> "", right |-> FALSE]
  /\ got = <<>>
  /\ calls = 0

-----------------------------------------------------------------------------
(* getCallSiteKey *)

\* Each frame of the application is one word of stack.
getStackOffset(a) == Distance[a.entry] + Len(a.app)

\* Where the walk ends: at the application if the library is known, else at once.
WalkEnd(a) == IF known THEN [word |-> Caller(a), distance |-> Distance[a.entry]]
                       ELSE [word |-> Own[a.entry][1], distance |-> 1]

\* What is read at the cached distance: a return address if a frame is there, else any word, one that
\* may be a return address of the application as well.
Words(a) ==
  CASE causer_stack_offset = Distance[a.entry] -> {Caller(a)}
    [] causer_stack_offset = 1 -> {Own[a.entry][1]}
    [] OTHER -> Sites \cup {"junk"}

-----------------------------------------------------------------------------
(* getCallsites *)

\* The frames that backtrace finds.
Array(frames) == SubSeq(frames, 1, IF Len(frames) < MAX_CALLSTACK_DEPTH THEN Len(frames) ELSE MAX_CALLSTACK_DEPTH)

\* An array from the index first on; a frame like the one before it is left out.
Collapsed(array, first) ==
  LET take[i \in 0..Len(array)] ==
        CASE i = 0 -> <<>>
          [] i > 0 /\ (i < first \/ (i > 1 /\ array[i] = array[i - 1])) -> take[i - 1]
          [] OTHER -> Append(take[i - 1], array[i])
  IN  take[Len(array)]

\* Mutant of CapturedFrames: the library's own frames are kept.
CapturedWhole(frames) == Collapsed(Array(frames), 1)

\* The stack without the library's frames on top; recursion is written once.
CapturedFrames(frames) ==
  LET array == Array(frames)
  IN  Collapsed(array, CHOOSE i \in DOMAIN array :
                         ~isCauserLibrary(array[i]) /\ \A j \in 1..(i - 1) : isCauserLibrary(array[j]))

-----------------------------------------------------------------------------
(* startWatch *)

\* Mutant of Same: the distance alone is compared.
SameOffset(r, word, offset) == r.offset = offset

\* callstack::operator==, of the key looked up and the entry's own copy of the key that it was
\* made with.
Same(r, word, offset) == r.key = word /\ r.offset = offset

\* The allocation of a is given record r.
Give(a, word, r) ==
  /\ got' = r.stack
  /\ last' = [known |-> word = Caller(a), caller |-> Caller(a), right |-> r.exact \/ r.run < starts]

\* The allocation of a with the word read as the address of its caller.  (Loaded records may have
\* equal keys; which of them findOrAdd meets first depends on the buckets of the run before.)
Allocate(a, word) ==
  LET found == {i \in DOMAIN records : Same(records[i], word, getStackOffset(a))}
      new == [key |-> word, offset |-> getStackOffset(a),
              stack |-> CapturedFrames(Inner \o Own[a.entry] \o a.app),
              site |-> Caller(a), exact |-> word = Caller(a), run |-> starts]
  IN  /\ \/ \E i \in found : Give(a, word, records[i]) /\ UNCHANGED records
         \/ found = {} /\ Give(a, word, new) /\ records' = Append(records, new)
      /\ calls' = calls + 1
      /\ UNCHANGED <<known, starts>>

FirstAllocation ==
  \E a \in Allocations :
    /\ causer_stack_offset = 0
    /\ causer_stack_offset' = WalkEnd(a).distance
    /\ Allocate(a, WalkEnd(a).word)

LaterAllocation ==
  \E a \in Allocations : \E word \in Words(a) :
    /\ causer_stack_offset # 0 /\ calls < MaxCalls
    /\ UNCHANGED causer_stack_offset
    /\ Allocate(a, word)

\* saveHistoryInfo at the exit, loadHistoryInfo at the start: the key is the first frame.
NextRun ==
  /\ starts < MaxStarts /\ calls > 0
  /\ starts' = starts + 1
  /\ records' = [i \in DOMAIN records |-> [records[i] EXCEPT !.key = records[i].stack[1]]]
  /\ causer_stack_offset' = 0
  /\ calls' = 0
  /\ UNCHANGED <<known, last, got>>

SiteNext == FirstAllocation \/ LaterAllocation \/ NextRun

SiteSpec == SiteInit /\ [][SiteNext]_siteVars

-----------------------------------------------------------------------------

(***************************************************************************)
(* What a call site has learned is found again, in this run by the key of  *)
(* its entry and in the next by the first frame of its call stack: of two  *)
(* allocations from the same place at the same depth, both looked up by    *)
(* their caller's address, no record is made for the second (startWatch,   *)
(* findOrAdd).  Only while the library knows its own mapping: else the     *)
(* first frame is the library's own, by which no allocation is looked up.  *)
(***************************************************************************)
Findable ==
  known => \A i, j \in DOMAIN records :
             /\ records[i].exact /\ records[j].exact
             /\ records[i].site = records[j].site /\ records[i].offset = records[j].offset
             => i = j

(***************************************************************************)
(* A report names the application: the call stack of the record that an    *)
(* allocation is given has no frame of the library, and begins with the    *)
(* allocation's caller, for an allocation looked up by it, unless the      *)
(* record was made in this very run for another place, under a word that   *)
(* was not its caller's address.                                           *)
(***************************************************************************)
BlamesCaller ==
  known => /\ ToSet(got) \cap OwnNames = {}
           /\ last.known /\ last.right => got[1] = last.caller

=============================================================================
