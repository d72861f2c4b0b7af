------------------------------- MODULE Evidence -------------------------------
(***************************************************************************)
(* The canaries of CSOD as words of memory (objectguard.hh): what malloc   *)
(* writes around an object, what an overflow does to it and to the header  *)
(* of the next object, what checkPointer makes of it at free, and what the *)
(* scan of the whole heap finds when the program exits, normally or after  *)
(* a fault (segvHandler), before the history is saved (finalizer).  Other  *)
(* threads may still run while the exiting one scans.                      *)
(*                                                                         *)
(* Memory is one data mapping of words.  The real allocator cuts it into   *)
(* blocks of one size; the words it keeps between blocks are left out.  A  *)
(* block begins with the four words of an objectGuard; the object and its  *)
(* tail canary follow.  Reading outside the mapping, locking a call stack  *)
(* that is none, and freeing what is no block are faults.                  *)
(***************************************************************************)
EXTENDS Integers, FiniteSets, FiniteSetsExt

CONSTANTS
  CallStacks,  \* the records an object may point to
  Null,        \* NULL in place of a call stack
  Head, Tail,  \* SENTINEL_HEAD_WORD, SENTINEL_TAIL_WORD
  Blocks,      \* how many blocks the mapping holds
  Size,        \* words of an object
  Lengths,     \* by how many words the application may overflow
  Junk,        \* what it may write there; also what the allocator leaves in a free block
               \* (negative numbers are those close to 2^w, as offsets)
  MaxCalls,    \* bound: calls and overflows of the application
  MaxLate      \* bound: those of other threads once the program exits

ASSUME EvidenceAssumption ==
  /\ Blocks \in Nat \ {0} /\ Size \in Nat /\ MaxCalls \in Nat /\ MaxLate \in Nat
  /\ Null \notin CallStacks
  /\ Lengths \subseteq 1..(Size + 5)
  /\ Junk \subseteq Int

\* Offsets from the beginning of an objectGuard.
RealPtr == 0   ObjectSize == 1   Cs == 2   HeadSentinel == 3   Start == 4

BlockSize == Start + Size + 1
Memory    == 0..(Blocks * BlockSize - 1)
Limit     == Blocks * BlockSize
Index     == 0..(Blocks - 1)
First(b)  == b * BlockSize
BlockOf(a) == a \div BlockSize

\* The sentinels differ from each other and from what headers are made of, and what an
\* overflow writes is neither a sentinel nor the address of a record.
ASSUME WordsAssumption ==
  /\ Head \notin Memory \cup {Size, Null, Tail} \cup CallStacks
  /\ Junk \cap ({Head, Tail} \cup CallStacks) = {}

VARIABLES
  mem,        \* the words
  block,      \* of each block: "free", "live", or "leaked" (never given back)
  proven,     \* call stacks whose watchedRatio is the upper bound
  phase,      \* "run", "scan", "check", "save", then "saved" or "lost"
  it,         \* the word checkAllMemory looks at
  file,       \* what the history file says is proven
  calls,      \* calls and overflows left
  owner,      \* history: the call stack of the last object of a block
  smasher,    \* history: whether the object that broke a block's head is still there
  hurt,       \* history: live objects that overflowed before the exit, header intact
  due,        \* history: call stacks of such objects that were freed
  culprits,   \* history: call stacks whose objects have overflowed
  confused,   \* history: call stacks whose object had its header overwritten in part
  astray,     \* history: a free with a bad head did not meet the object that broke it
  blurred,    \* history: some header was overwritten in part
  raced,      \* history: a header changed between the scan's look at its head and the rest
  crashed     \* history: another thread has faulted during the exit

ghosts == <<owner, smasher, hurt, due, culprits, confused, astray, blurred, raced, crashed>>
vars   == <<mem, block, proven, phase, it, file, calls, ghosts>>

Init ==
  /\ mem = [a \in Memory |-> 0]
  /\ block = [b \in Index |-> "free"]
  /\ proven = {} /\ phase = "run" /\ it = 0 /\ file = {} /\ calls = MaxCalls
  /\ owner = [b \in Index |-> Null]
  /\ smasher = [b \in Index |-> "none"]
  /\ hurt = {} /\ due = {} /\ culprits = {} /\ confused = {}
  /\ astray = FALSE /\ blurred = FALSE /\ raced = FALSE /\ crashed = FALSE

-----------------------------------------------------------------------------
(* objectGuard *)

Word(g, field) == mem[First(g) + field]

IsGoodHead(b) == Word(b, HeadSentinel) = Head

TailAddress(b) == First(b) + Start + Word(b, ObjectSize)

IsGoodTail(b) == mem[TailAddress(b)] = Tail

\* The words of a new object: the constructor, then setCallstack in startWatch unless the
\* detector is off, as it is in calloc and before main.
Guarded(m, b, cs) ==
  [a \in Memory |->
     CASE a = First(b) + RealPtr      -> First(b)
       [] a = First(b) + ObjectSize   -> Size
       [] a = First(b) + Cs           -> cs
       [] a = First(b) + HeadSentinel -> Head
       [] a = First(b) + Start + Size -> Tail
       [] OTHER                       -> m[a]]

\* Mutant of Unguarded: the head is left as it is.
UnguardedNot(m, b) == m

\* resetHead.
Unguarded(m, b) == [m EXCEPT ![First(b) + HeadSentinel] = 0]

\* Real::free keeps its lists in the first words of a free block.
Recycled(m, b, j) ==
  [m EXCEPT ![First(b) + RealPtr] = j, ![First(b) + ObjectSize] = j]

-----------------------------------------------------------------------------
(* The application *)

Running == phase \in {"run", "scan", "check", "save"}

Call ==
  /\ Running /\ ~crashed
  /\ calls > 0
  /\ calls' = calls - 1

\* The object of block b is no longer what it was to the block behind it.
Gone(b) == [c \in Index |-> IF c = b + 1 /\ smasher[c] = "there" THEN "gone" ELSE smasher[c]]

\* The scan has found the head of block b and not yet looked at the rest.
UnderScan(b) == phase = "check" /\ BlockOf(it) = b

\* malloc, or calloc with cs = Null.
Malloc ==
  /\ Call
  /\ \E b \in Index, cs \in CallStacks \cup {Null} :
       /\ block[b] = "free"
       /\ mem' = Guarded(mem, b, cs)
       /\ block' = [block EXCEPT ![b] = "live"]
       /\ owner' = [owner EXCEPT ![b] = cs]
       /\ smasher' = [smasher EXCEPT ![b] = "none"]
       /\ hurt' = hurt \ {b}
       /\ raced' = (raced \/ UnderScan(b))
  /\ UNCHANGED <<proven, phase, it, file, due, culprits, confused, astray, blurred, crashed>>

\* A write behind the end of an object: over its tail, and from there over the header of
\* the next block, which need not be in use.
Overflow ==
  /\ Call
  /\ \E b \in Index, n \in Lengths, j \in Junk :
       LET from == First(b) + Start + Size
           hit == {a \in Memory : from <= a /\ a < from + n}
           whole == First(b + 1) + HeadSentinel \in hit
           partly == First(b + 1) \in hit /\ ~whole IN
       /\ block[b] = "live"
       /\ mem' = [a \in Memory |-> IF a \in hit THEN j ELSE mem[a]]
       /\ culprits' = culprits \cup {owner[b]}
       /\ hurt' = (hurt \cup IF phase = "run" /\ IsGoodHead(b) /\ ~blurred THEN {b} ELSE {})
                    \ (IF whole \/ partly THEN {b + 1} ELSE {})
       /\ smasher' = IF whole THEN [smasher EXCEPT ![b + 1] = "there"] ELSE smasher
       /\ confused' = confused \cup IF partly THEN {owner[b + 1]} ELSE {}
       /\ blurred' = (blurred \/ partly)
       /\ raced' = (raced \/ ((whole \/ partly) /\ UnderScan(b + 1)))
  /\ UNCHANGED <<block, proven, phase, it, file, owner, due, astray, crashed>>

\* Mutant of Fault: the process dies of it.
FaultDies == phase' = "lost" /\ UNCHANGED <<mem, block, proven, crashed>>

\* segvHandler calls exit, and with it the finalizer, unless that is at work already: then
\* the thread that exits may still be the faster one.
Fault ==
  /\ IF phase = "run"
     THEN phase' = "scan" /\ UNCHANGED crashed
     ELSE phase' \in {phase, "lost"} /\ crashed' = TRUE
  /\ UNCHANGED <<mem, block, proven>>

\* watchedRatio = MAX_WATCH_RATIO_UPPERBOUND, if there is a record.
Raise(cs) == proven' = proven \cup ({cs} \cap CallStacks)

\* Mutant of Blame: the tail canary is not looked at.
BlameNothing(b) == UNCHANGED proven

\* checkPointer's look at the tail of an object with a good head.
Blame(b) == IF IsGoodTail(b) THEN UNCHANGED proven ELSE Raise(Word(b, Cs))

\* Not a call stack to be locked, nor NULL.
Wild(w) == w \notin CallStacks \cup {Null}

FreeGood(b) ==
  /\ IsGoodHead(b)
  /\ IF \/ TailAddress(b) \notin Memory
        \/ (~IsGoodTail(b) /\ Wild(Word(b, Cs)))
        \/ Word(b, RealPtr) # First(b) \/ block[b] # "live"
     THEN Fault /\ UNCHANGED <<hurt, due, smasher, raced>>
     ELSE /\ Blame(b)
          /\ \E j \in Junk : mem' = Recycled(Unguarded(mem, b), b, j)
          /\ block' = [block EXCEPT ![b] = "free"]
          /\ due' = due \cup {owner[c] : c \in hurt \cap {b}}
          /\ hurt' = hurt \ {b}
          /\ smasher' = Gone(b)
          /\ raced' = (raced \/ UnderScan(b))
          /\ UNCHANGED <<phase, crashed>>
  /\ UNCHANGED astray

\* The heads below block b, where the search for the previous object may stop.
HeadsBelow(b) == {a \in Memory : a <= First(b) /\ mem[a] = Head}

\* The head is bad: the object before is blamed, and the block is never given back.
FreeBad(b) ==
  /\ ~IsGoodHead(b)
  /\ IF HeadsBelow(b) = {} \/ Wild(mem[Max(HeadsBelow(b)) - 1])
     THEN Fault /\ UNCHANGED astray
     ELSE LET found == Max(HeadsBelow(b)) IN
          /\ Raise(mem[found - 1])
          /\ block' = [block EXCEPT ![b] = IF block[b] = "live" THEN "leaked" ELSE block[b]]
          /\ astray' = (astray \/ smasher[b] # "there" \/ BlockOf(found) # b - 1)
          /\ UNCHANGED <<mem, phase, crashed>>
  /\ UNCHANGED <<hurt, due, smasher, raced>>

\* free of an object, or of one that was freed before.
Free ==
  /\ Call
  /\ \E b \in Index :
       /\ \E a \in Memory : a = First(b) + HeadSentinel /\ (block[b] # "free" \/ mem[a] = 0)
       /\ FreeGood(b) \/ FreeBad(b)
  /\ UNCHANGED <<it, file, owner, culprits, confused, blurred>>

\* realloc to a block of the same size: the canary is written again, unseen.  The block
\* that was taken for comparison is given back.
Realloc ==
  /\ Call
  /\ \E b, c \in Index, cs \in CallStacks, j \in Junk :
       /\ block[b] = "live" /\ block[c] = "free"
       /\ LET m == Recycled(Unguarded(Guarded(mem, c, Null), c), c, j)
              grown == [m EXCEPT ![First(b) + ObjectSize] = Size] IN
          mem' = [grown EXCEPT ![First(b) + Start + Size] = Tail, ![First(b) + Cs] = cs]
       /\ owner' = [owner EXCEPT ![b] = cs]
       /\ hurt' = hurt \ {b, c}
       /\ smasher' = [Gone(b) EXCEPT ![c] = "none"]
       /\ raced' = (raced \/ UnderScan(b) \/ UnderScan(c))
  /\ UNCHANGED <<block, proven, phase, it, file, due, culprits, confused, astray, blurred,
                 crashed>>

-----------------------------------------------------------------------------
(* The end of the program: finalizer *)

\* exit, or the return of main.
Exit ==
  /\ phase = "run"
  /\ phase' = "scan"
  /\ calls' = Min({calls, MaxLate})
  /\ UNCHANGED <<mem, block, proven, it, file, ghosts>>

\* A word that is no head.
ScanOn ==
  /\ phase = "scan" /\ it < Limit
  /\ mem[it] # Head
  /\ it' = it + 1
  /\ UNCHANGED <<mem, block, proven, phase, file, calls, ghosts>>

ScanHead ==
  /\ phase = "scan" /\ it < Limit
  /\ mem[it] = Head
  /\ phase' = "check"
  /\ UNCHANGED <<mem, block, proven, it, file, calls, ghosts>>

\* Mutant of AfterGood: the scan goes back to the beginning of the object.
AfterGoodStart(tail) == it

\* From a good tail the scan goes on behind it.
AfterGood(tail) == tail + 1

\* The scan writes through the pointer it finds in the header, without looking at it.
Unscannable(w) == w \notin CallStacks

\* What the scan does with the object whose head it has found.
ScanCheck ==
  /\ phase = "check"
  /\ LET b == BlockOf(it)
         tail == TailAddress(b) IN
     \/ /\ tail > Limit                    \* break
        /\ phase' = "save"
        /\ UNCHANGED <<proven, it>>
     \/ /\ tail \in Memory /\ IsGoodTail(b)
        /\ it' = AfterGood(tail)
        /\ phase' = "scan"
        /\ UNCHANGED proven
     \/ /\ tail \in Memory /\ ~IsGoodTail(b) /\ ~Unscannable(Word(b, Cs))
        /\ Raise(Word(b, Cs))
        /\ it' = it + 1
        /\ phase' = "scan"
     \/ /\ tail < 0 \/ tail = Limit \/ (tail \in Memory /\ ~IsGoodTail(b) /\ Unscannable(Word(b, Cs)))
        /\ phase' = "lost"
        /\ UNCHANGED <<proven, it>>
  /\ UNCHANGED <<mem, block, file, calls, ghosts>>

ScanEnd ==
  /\ phase = "scan" /\ it >= Limit
  /\ phase' = "save"
  /\ UNCHANGED <<mem, block, proven, it, file, calls, ghosts>>

\* saveHistoryInfo.
Save ==
  /\ phase = "save"
  /\ file' = proven
  /\ phase' = "saved"
  /\ UNCHANGED <<mem, block, proven, it, calls, ghosts>>

\* The process is gone.
Ended == phase \in {"saved", "lost"} /\ UNCHANGED vars

Finalizer == ScanOn \/ ScanHead \/ ScanCheck \/ ScanEnd \/ Save

Next == Malloc \/ Overflow \/ Free \/ Realloc \/ Exit \/ Finalizer \/ Ended

\* The thread that exits is scheduled.
Spec == Init /\ [][Next]_vars /\ WF_vars(Finalizer)

-----------------------------------------------------------------------------
(* Properties *)

(***************************************************************************)
(* checkPointer and checkAllMemory blame the right ones: a call stack is   *)
(* proven only if an object of it has overflowed, or lost part of its own  *)
(* header to a neighbour.  The exception is a free of an object with a bad *)
(* head whose destroyer is not found just before it: then the object below *)
(* it is blamed, whoever that is, and for a second free of an object too.  *)
(***************************************************************************)
BlameIsRight == ~astray /\ ~raced => proven \subseteq culprits \cup confused

(***************************************************************************)
(* No overflow is missed: an object that overflowed, with its own header   *)
(* intact, is noticed when it is freed, or else by the scan, and is in the *)
(* history when that is saved, whatever other threads free meanwhile.      *)
(***************************************************************************)
EvidenceFound ==
  /\ due \ {Null} \subseteq proven
  /\ phase = "saved" /\ ~blurred /\ ~raced => {owner[b] : b \in hurt} \subseteq file

\* A live object that overflowed and whose header names no call stack.
Unknown(b) == IsGoodHead(b) /\ Word(b, Cs) = Null /\ TailAddress(b) \in Memory /\ ~IsGoodTail(b)

(***************************************************************************)
(* The finalizer saves the history, also after a fault, unless it meets an *)
(* overflowed object without a call stack, a header overwritten in part or *)
(* under its eyes, or another thread faults.                               *)
(***************************************************************************)
ExitSaves == phase = "lost" => blurred \/ raced \/ crashed \/ \E b \in Index : Unknown(b)

\* A header whose size an overflow has made a number close to 2^w, which leads backwards.
LeadsBack == \E b \in Index : IsGoodHead(b) /\ Word(b, ObjectSize) < 0

(***************************************************************************)
(* checkAllMemory ends, whatever it finds and others do meanwhile, unless  *)
(* it jumps by a size that leads back: then it may look at the same        *)
(* objects for ever.                                                       *)
(***************************************************************************)
ScanEnds == phase = "scan" ~> phase \in {"saved", "lost"} \/ LeadsBack

=============================================================================
