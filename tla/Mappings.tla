-------------------------------- MODULE Mappings --------------------------------
(***************************************************************************)
(* The text mappings of the process (selfmap.hh), looked up by address     *)
(* through a std::map ordered by interval::operator< (interval.hh), and    *)
(* what they are for: a frame of a call stack is saved as a file and an    *)
(* offset (operator<< of callstack) and turned back into an address by the *)
(* next run, in which the file may be mapped elsewhere (operator>>).       *)
(***************************************************************************)
EXTENDS Integers, FiniteSets

CONSTANTS
  Files,     \* names of mapped files, each a single word
  NoFile,    \* "_", written for an address in no mapping
  Top,       \* bound: addresses are below Top
  MaxMaps    \* bound: text mappings of a process

ASSUME MappingsAssumption == NoFile \notin Files /\ Top \in Nat /\ MaxMaps \in Nat

Addresses == 0..(Top - 1)

\* No file is mapped at address 0.
Mapping == {m \in [base : 1..Top, limit : 0..Top, file : Files] : m.base < m.limit}

\* What /proc/self/maps may say: mappings do not overlap; a file may have several.
Layouts ==
  {L \in UNION {[1..n -> Mapping] : n \in 0..MaxMaps} :
     \A i, j \in DOMAIN L : i < j => L[i].limit <= L[j].base}

VARIABLES
  layout,    \* the text mappings, in the order of /proc/self/maps
  before,    \* history: those of the run that saved the frame
  address,   \* history: the frame's address in that run
  frame,     \* what was saved of it
  restored,  \* the address it is turned back into
  stage      \* "running", "saved", "restarted" or "loaded"

frameVars == <<layout, before, address, frame, restored, stage>>

contains(m, x) == m.base <= x /\ x < m.limit

\* interval::operator<.
Less(a, b) == a.limit <= b.base

\* std::map::find with interval(ptr, ptr): the entries neither less nor greater.
getMappingByAddress(L, p) ==
  LET k == [base |-> p, limit |-> p]
  IN  {L[i] : i \in {j \in DOMAIN L : ~Less(L[j], k) /\ ~Less(k, L[j])}}

\* The constructor writes _textmappings[file] for each mapping: the last one is kept.
getMappingByFileName(L, f) ==
  {L[i] : i \in {j \in DOMAIN L : L[j].file = f /\ \A k \in DOMAIN L : L[k].file = f => k <= j}}

FrameInit ==
  /\ layout \in Layouts
  /\ before = layout
  /\ address = 0 /\ restored = 0
  /\ frame = [file |-> NoFile, off |-> 0, orig |-> 0]
  /\ stage = "running"

\* Mutant of Offset: the address itself is written.
OffsetAbsolute(p, m) == p

Offset(p, m) == p - m.base

\* operator<< of one frame.
SaveFrame(p) ==
  /\ stage = "running"
  /\ address' = p
  /\ LET found == getMappingByAddress(layout, p) IN
       \/ /\ found = {}
          /\ frame' = [file |-> NoFile, off |-> 0, orig |-> p]
       \/ \E m \in found : frame' = [file |-> m.file, off |-> Offset(p, m), orig |-> p]
  /\ stage' = "saved"
  /\ UNCHANGED <<layout, before, restored>>

\* The program is started again: everything may be mapped elsewhere.
Restart ==
  /\ stage = "saved"
  /\ layout' \in Layouts
  /\ stage' = "restarted"
  /\ UNCHANGED <<before, address, frame, restored>>

\* operator>> of the frame.
Load ==
  /\ stage = "restarted"
  /\ LET found == getMappingByFileName(layout, frame.file) IN
       \/ found = {} /\ restored' = frame.orig
       \/ \E m \in found : restored' = m.base + frame.off
  /\ stage' = "loaded"
  /\ UNCHANGED <<layout, before, address, frame>>

\* The next run saves it again.
Again ==
  /\ stage = "loaded"
  /\ before' = layout
  /\ stage' = "running"
  /\ UNCHANGED <<layout, address, frame, restored>>

FrameNext == (\E p \in Addresses : SaveFrame(p)) \/ Restart \/ Load \/ Again

FrameSpec == FrameInit /\ [][FrameNext]_frameVars

-----------------------------------------------------------------------------
(* Properties *)

\* The one mapping of file f, as a set.
Only(L, f) ==
  LET own == {L[i] : i \in {j \in DOMAIN L : L[j].file = f}}
  IN  IF Cardinality(own) = 1 THEN own ELSE {}

(***************************************************************************)
(* A frame inside a file that has one text mapping in each of two runs     *)
(* comes back as the same place of that file, wherever it is mapped, and   *)
(* so the call stack is recognised; one in no text mapping is never moved  *)
(* along with a file it does not belong to, even one mapped just below.    *)
(***************************************************************************)
SamePlace ==
  stage = "loaded" =>
    /\ \A f \in Files : \A m \in Only(before, f), n \in Only(layout, f) :
         m.base < address /\ address < m.limit
           => restored - n.base = address - m.base
    /\ (\A i \in DOMAIN before : ~contains(before[i], address)) => restored = address

=============================================================================
