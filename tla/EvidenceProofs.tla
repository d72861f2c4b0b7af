----------------------------- MODULE EvidenceProofs -----------------------------
(***************************************************************************)
(* Proofs about Evidence: whatever the number and size of the blocks, and  *)
(* whatever is allocated, overflowed, freed, reallocated and scanned, the  *)
(* right call stacks are blamed, and no overflow is missed.                *)
(***************************************************************************)
EXTENDS Evidence, WellFoundedInduction, TLAPS

-----------------------------------------------------------------------------
(* The inductive invariant *)

Offsets == 0..(BlockSize - 1)

TypeInv ==
  /\ DOMAIN mem = Memory
  /\ block \in [Index -> {"free", "live", "leaked"}]
  /\ phase \in {"run", "scan", "check", "save", "saved", "lost"}
  /\ it \in Nat
  /\ phase = "run" => it = 0
  /\ phase = "check" => it < Limit
  /\ owner \in [Index -> CallStacks \cup {Null}]
  /\ smasher \in [Index -> {"none", "there", "gone"}]
  /\ hurt \subseteq Index
  /\ {astray, blurred, raced, crashed} \subseteq BOOLEAN

\* The head sentinel is nowhere but in headers.
HeadInv ==
  \A a \in Memory : mem[a] = Head => \E b \in Index : a = First(b) + HeadSentinel

Named(b)  == Word(b, ObjectSize) = Size /\ Word(b, Cs) = owner[b]
Intact(b) == IsGoodHead(b) /\ Word(b, RealPtr) = First(b) /\ Named(b)

\* The word behind the object of block b is not the canary.
Broken(b) == mem[First(b) + (Start + Size)] # Tail

\* What is known of a header with a good head.
GoodBlock(b) ==
  IsGoodHead(b) =>
    /\ block[b] = "live"
    /\ Named(b) \/ owner[b] \in confused
    /\ Word(b, Cs) \in {owner[b]} \cup Junk
    /\ Broken(b) => owner[b] \in culprits
    /\ ~blurred => Intact(b)

BlockInv == \A b \in Index : GoodBlock(b)

\* A head that is destroyed has the object that did it just below it.
SmashInv ==
  \A b \in Index : smasher[b] = "there" =>
    b > 0 /\ block[b - 1] # "free" /\ owner[b - 1] \in culprits

\* An overflowed object that is to be found can be: nothing but its tail has been destroyed.
HurtInv == \A b \in hurt : Intact(b) /\ Broken(b)

\* What the scan has left behind it is noticed.
ScanInv ==
  /\ phase = "check" /\ ~raced => mem[it] = Head
  /\ ~blurred /\ ~raced => \A b \in hurt :
       /\ phase \in {"scan", "check"} /\ First(b) + HeadSentinel < it => owner[b] \in proven
       /\ phase = "save" => owner[b] \in proven
       /\ phase = "saved" => owner[b] \in file

DueInv == due \ {Null} \subseteq proven

EvidenceInv ==
  /\ TypeInv /\ HeadInv /\ BlockInv /\ SmashInv /\ HurtInv /\ ScanInv /\ DueInv
  /\ BlameIsRight /\ ExitSaves

-----------------------------------------------------------------------------
(* Addresses *)

\* What the constants are.
LEMMA Basics ==
  /\ Blocks \in Nat /\ Blocks >= 1 /\ Size \in Nat /\ BlockSize = Size + 5 /\ BlockSize \in Nat
  /\ Limit \in Nat /\ Limit = Blocks * BlockSize /\ Memory = 0..(Limit - 1)
  /\ Index = 0..(Blocks - 1)
  /\ Null \notin CallStacks /\ Head # Null /\ Head # Tail /\ Head # Size /\ Head \notin CallStacks
  /\ Tail \notin Junk /\ Head \notin Junk /\ CallStacks \cap Junk = {}
  /\ Head \notin Memory
<1>1. BlockSize = Size + 5 /\ BlockSize \in Nat
  BY EvidenceAssumption DEF BlockSize, Start
<1>2. Limit \in Nat /\ Limit = Blocks * BlockSize
  BY EvidenceAssumption, <1>1 DEF Limit
<1> QED
  BY EvidenceAssumption, WordsAssumption, <1>1, <1>2 DEF Limit, Memory, Index

\* A block that is below another ends before it.
LEMMA Order ==
  ASSUME NEW b \in Index, NEW c \in Index, c < b
  PROVE  First(c) \in Nat /\ First(b) \in Nat /\ First(c) + BlockSize <= First(b)
<1> DEFINE d == b - (c + 1)
<1>1. b \in Nat /\ c \in Nat /\ BlockSize \in Nat /\ d \in Nat /\ b = c + 1 + d
  BY Basics
<1> HIDE DEF d
<1>2. b * BlockSize = c * BlockSize + BlockSize + d * BlockSize
  BY <1>1
<1>3. c * BlockSize \in Nat /\ d * BlockSize \in Nat
  BY <1>1
<1> QED
  BY <1>1, <1>2, <1>3 DEF First

\* A block lies in the memory.
LEMMA Place ==
  ASSUME NEW b \in Index, NEW o \in Offsets
  PROVE  /\ First(b) \in Nat /\ First(b) + BlockSize <= Limit /\ First(b) + o \in Memory
         /\ BlockOf(First(b) + o) = b
         /\ b + 1 \in Index => First(b + 1) = First(b) + BlockSize
         /\ b + 1 \notin Index => First(b) + BlockSize = Limit
         /\ First(b + 1) = First(b) + BlockSize
<1>1. b \in Nat /\ b <= Blocks - 1 /\ Blocks \in Nat /\ BlockSize \in Nat /\ BlockSize >= 5
      /\ o \in Nat /\ o < BlockSize
  BY Basics DEF Offsets
<1>2. First(b) \in Nat
  BY <1>1 DEF First
<1>3. First(b + 1) = First(b) + BlockSize
  BY <1>1 DEF First
<1>4. First(b) + BlockSize <= Limit
  <2> DEFINE d == Blocks - (b + 1)
  <2>1. d \in Nat /\ Blocks = (b + 1) + d
    BY <1>1
  <2> HIDE DEF d
  <2>2. Blocks * BlockSize = (b * BlockSize + BlockSize) + d * BlockSize /\ d * BlockSize \in Nat
    BY <1>1, <2>1
  <2> QED
    BY <1>1, <1>2, <2>2, Basics DEF First
<1>5. b + 1 \notin Index => First(b) + BlockSize = Limit
  <2>1. b + 1 \notin Index => b + 1 = Blocks
    BY <1>1, Basics
  <2> QED
    BY <1>1, <1>3, <2>1, Basics DEF First
<1>6. BlockOf(First(b) + o) = b
  <2>1. (b * BlockSize + o) \div BlockSize = b
    BY <1>1
  <2> QED
    BY <2>1 DEF BlockOf, First
<1> QED
  BY <1>1, <1>2, <1>3, <1>4, <1>5, <1>6, Basics

\* An address is in one block, at one offset.
LEMMA Distinct ==
  ASSUME NEW b \in Index, NEW c \in Index, NEW o \in Offsets, NEW p \in Offsets,
         First(b) + o = First(c) + p
  PROVE  b = c /\ o = p
<1>1. b = c
  <2>1. BlockOf(First(b) + o) = b /\ BlockOf(First(c) + p) = c
    BY Place
  <2> QED
    BY <2>1
<1>2. First(b) \in Nat /\ o \in Nat /\ p \in Nat
  BY Place, Basics DEF Offsets
<1> QED
  BY <1>1, <1>2

\* The offsets of an object's own words.
LEMMA Fields ==
  /\ {RealPtr, ObjectSize, Cs, HeadSentinel, Start + Size} \subseteq Offsets
  /\ RealPtr = 0 /\ ObjectSize = 1 /\ Cs = 2 /\ HeadSentinel = 3 /\ Start + Size = Size + 4
  /\ BlockSize = Start + Size + 1 /\ Start = 4
  BY Basics DEF Offsets, RealPtr, ObjectSize, Cs, HeadSentinel, Start

\* A set of addresses has a greatest, which is its maximum.
LEMMA GreatestOf ==
  ASSUME NEW n \in Nat, NEW S \in SUBSET (0..n), S # {}
  PROVE  Max(S) \in S /\ \A j \in S : j <= Max(S)
<1> DEFINE T == {n - j : j \in S}
<1>1. T \subseteq Nat /\ T # {}
  OBVIOUS
<1>2. IsWellFoundedOn(OpToRel(<, Nat), Nat)
  BY NatLessThanWellFounded
<1> HIDE DEF T
<1>3. PICK i \in T : \A j \in T : ~(<<j, i>> \in OpToRel(<, Nat))
  BY <1>1, <1>2, WFMin
<1>4. ASSUME NEW j \in T PROVE i <= j
  <2>1. i \in Nat /\ j \in Nat
    BY <1>1
  <2>2. j < i => <<j, i>> \in OpToRel(<, Nat)
    BY <2>1 DEF OpToRel
  <2>3. ~(j < i)
    BY <1>3, <2>2
  <2> QED
    BY <2>1, <2>3
<1>5. PICK x \in S : i = n - x
  BY DEF T
<1>6. ASSUME NEW j \in S PROVE x >= j
  <2>1. n - j \in T
    BY DEF T
  <2>2. x \in Int /\ j \in Int
    OBVIOUS
  <2> QED
    BY <1>4, <1>5, <2>1, <2>2
<1>7. \E y \in S : \A j \in S : y >= j
  BY <1>6
<1>8. Max(S) \in S /\ \A j \in S : Max(S) >= j
  BY <1>7 DEF Max
<1>9. \A j \in S : j \in Int
  OBVIOUS
<1> QED
  BY <1>8, <1>9

-----------------------------------------------------------------------------
(* What the operations do to memory *)

\* The words that the invariant speaks of, of block c, are the same.
Kept(c) ==
  \A o \in {RealPtr, ObjectSize, Cs, HeadSentinel, Start + Size} :
    mem'[First(c) + o] = mem[First(c) + o]

\* The constructor, at another address, leaves a block alone, and makes one head.
LEMMA GuardedWords ==
  ASSUME NEW b \in Index, NEW m, NEW cs, cs # Head, NEW g, g = Guarded(m, b, cs)
  PROVE  /\ DOMAIN g = Memory
         /\ g[First(b) + RealPtr] = First(b) /\ g[First(b) + ObjectSize] = Size
         /\ g[First(b) + Cs] = cs /\ g[First(b) + HeadSentinel] = Head
         /\ g[First(b) + (Start + Size)] = Tail
         /\ \A c \in Index \ {b}, o \in Offsets : g[First(c) + o] = m[First(c) + o]
         /\ \A a \in Memory : g[a] = Head => m[a] = Head \/ a = First(b) + HeadSentinel
<1> DEFINE w(a) == CASE a = First(b) + RealPtr      -> First(b)
                     [] a = First(b) + ObjectSize   -> Size
                     [] a = First(b) + Cs           -> cs
                     [] a = First(b) + HeadSentinel -> Head
                     [] a = First(b) + Start + Size -> Tail
                     [] OTHER                       -> m[a]
<1>1. g = [a \in Memory |-> w(a)]
  BY DEF Guarded
<1>2. First(b) \in Nat /\ \A o \in Offsets : First(b) + o \in Memory
  BY Place, Fields
<1>3. First(b) + Start + Size = First(b) + (Start + Size)
  BY <1>2, Fields, Basics
<1>4. /\ w(First(b) + RealPtr) = First(b) /\ w(First(b) + ObjectSize) = Size
      /\ w(First(b) + Cs) = cs /\ w(First(b) + HeadSentinel) = Head
      /\ w(First(b) + (Start + Size)) = Tail
  <2>1. Size \in Nat
    BY Basics
  <2>2. /\ First(b) + RealPtr # First(b) + ObjectSize /\ First(b) + RealPtr # First(b) + Cs
        /\ First(b) + RealPtr # First(b) + HeadSentinel
        /\ First(b) + ObjectSize # First(b) + Cs
        /\ First(b) + ObjectSize # First(b) + HeadSentinel
        /\ First(b) + Cs # First(b) + HeadSentinel
    BY <1>2, Fields
  <2>3. \A o \in {RealPtr, ObjectSize, Cs, HeadSentinel} :
          First(b) + o # First(b) + (Start + Size)
    BY <1>2, <2>1, Fields
  <2> QED
    BY <1>3, <2>2, <2>3
<1>5. ASSUME NEW c \in Index \ {b}, NEW o \in Offsets
      PROVE  w(First(c) + o) = m[First(c) + o] /\ First(c) + o \in Memory
  <2>1. \A p \in Offsets : First(c) + o # First(b) + p
    BY Distinct
  <2> QED
    BY <1>3, <2>1, Place, Fields
<1>6. ASSUME NEW a \in Memory, w(a) = Head
      PROVE  m[a] = Head \/ a = First(b) + HeadSentinel
  <2>1. First(b) # Head /\ Size # Head /\ Tail # Head
    BY <1>2, Fields, Basics
  <2> QED
    BY <1>6, <2>1
<1> HIDE DEF w
<1> QED
  BY <1>1, <1>2, <1>4, <1>5, <1>6, Fields

\* free: the head is reset, and the first words are the allocator's.
LEMMA FreedWords ==
  ASSUME NEW b \in Index, NEW m, DOMAIN m = Memory, NEW j \in Junk,
         NEW g, g = Recycled(Unguarded(m, b), b, j)
  PROVE  /\ DOMAIN g = Memory
         /\ g[First(b) + HeadSentinel] # Head
         /\ \A c \in Index \ {b}, o \in Offsets : g[First(c) + o] = m[First(c) + o]
         /\ \A a \in Memory : g[a] = Head => m[a] = Head
<1>1. First(b) \in Nat /\ \A o \in Offsets : First(b) + o \in Memory
  BY Place, Fields
<1>2. g = [m EXCEPT ![First(b) + HeadSentinel] = 0, ![First(b) + RealPtr] = j,
                    ![First(b) + ObjectSize] = j]
  BY DEF Recycled, Unguarded
<1>3. /\ DOMAIN g = Memory
      /\ \A a \in Memory :
           g[a] = IF a \in {First(b) + RealPtr, First(b) + ObjectSize} THEN j
                  ELSE IF a = First(b) + HeadSentinel THEN 0 ELSE m[a]
  BY <1>1, <1>2, Fields
<1>4. 0 # Head /\ j # Head
  BY <1>1, Fields, Basics
<1>5. ASSUME NEW c \in Index \ {b}, NEW o \in Offsets PROVE g[First(c) + o] = m[First(c) + o]
  <2>1. First(c) + o \in Memory /\ \A p \in Offsets : First(c) + o # First(b) + p
    BY Distinct, Place
  <2> QED
    BY <1>3, <2>1, Fields
<1>6. g[First(b) + HeadSentinel] = 0
  BY <1>1, <1>3, Fields
<1> QED
  BY <1>3, <1>4, <1>5, <1>6

\* The words after realloc.
Moved(b, c, cs, j) ==
  LET m == Recycled(Unguarded(Guarded(mem, c, Null), c), c, j)
      grown == [m EXCEPT ![First(b) + ObjectSize] = Size] IN
  [grown EXCEPT ![First(b) + Start + Size] = Tail, ![First(b) + Cs] = cs]

\* realloc: an object's size, call stack and tail are written anew, and a block has been
\* taken and given back.
LEMMA ReallocWords ==
  ASSUME NEW b \in Index, NEW c \in Index, b # c, NEW cs \in CallStacks, NEW j \in Junk,
         DOMAIN mem = Memory, NEW g, g = Moved(b, c, cs, j)
  PROVE  /\ DOMAIN g = Memory
         /\ g[First(c) + HeadSentinel] # Head
         /\ g[First(b) + HeadSentinel] = mem[First(b) + HeadSentinel]
         /\ g[First(b) + RealPtr] = mem[First(b) + RealPtr]
         /\ g[First(b) + ObjectSize] = Size /\ g[First(b) + Cs] = cs
         /\ g[First(b) + (Start + Size)] = Tail
         /\ \A d \in Index \ {b, c}, o \in Offsets : g[First(d) + o] = mem[First(d) + o]
         /\ \A a \in Memory : g[a] = Head => mem[a] = Head
<1> DEFINE k == Guarded(mem, c, Null)
           m == Recycled(Unguarded(k, c), c, j)
<1>1. /\ DOMAIN k = Memory
      /\ \A d \in Index \ {c}, o \in Offsets : k[First(d) + o] = mem[First(d) + o]
      /\ \A a \in Memory : k[a] = Head => mem[a] = Head \/ a = First(c) + HeadSentinel
  BY GuardedWords, Basics
<1>2. /\ DOMAIN m = Memory /\ m[First(c) + HeadSentinel] # Head
      /\ \A d \in Index \ {c}, o \in Offsets : m[First(d) + o] = k[First(d) + o]
      /\ \A a \in Memory : m[a] = Head => k[a] = Head
  <2>1. m = Recycled(Unguarded(k, c), c, j)
    OBVIOUS
  <2>2. DOMAIN k = Memory
    BY <1>1
  <2> HIDE DEF k, m
  <2> QED
    BY <2>1, <2>2, FreedWords, SMTT(30)
<1>3. g = [m EXCEPT ![First(b) + ObjectSize] = Size, ![First(b) + Start + Size] = Tail,
                    ![First(b) + Cs] = cs]
  BY DEF Moved
<1> HIDE DEF k, m
<1>4. First(b) \in Nat /\ \A o \in Offsets : First(b) + o \in Memory
  BY Place, Fields
<1>5. First(b) + Start + Size = First(b) + (Start + Size)
  BY <1>4, Fields, Basics
<1>6. /\ DOMAIN g = Memory
      /\ \A a \in Memory :
           g[a] = IF a = First(b) + Cs THEN cs
                  ELSE IF a = First(b) + (Start + Size) THEN Tail
                  ELSE IF a = First(b) + ObjectSize THEN Size ELSE m[a]
  BY <1>2, <1>3, <1>4, <1>5, Fields
<1>7. /\ g[First(b) + HeadSentinel] = m[First(b) + HeadSentinel]
      /\ g[First(b) + RealPtr] = m[First(b) + RealPtr]
      /\ g[First(b) + ObjectSize] = Size /\ g[First(b) + Cs] = cs
      /\ g[First(b) + (Start + Size)] = Tail
  <2> DEFINE a == First(b)
  <2>1. a \in Nat /\ Size \in Nat
    BY <1>4, Basics
  <2> HIDE DEF a
  <2>2. /\ a + 2 # a + (Size + 4) /\ a + 2 # a + 1 /\ a + (Size + 4) # a + 1
        /\ a + 3 # a + 2 /\ a + 3 # a + (Size + 4) /\ a + 3 # a + 1
        /\ a + 0 # a + 2 /\ a + 0 # a + (Size + 4) /\ a + 0 # a + 1
    BY <2>1
  <2>3. {First(b) + o : o \in {RealPtr, ObjectSize, Cs, HeadSentinel, Start + Size}} \subseteq Memory
    BY <1>4, Fields
  <2> QED
    BY <1>6, <2>2, <2>3, Fields DEF a
<1>8. ASSUME NEW d \in Index \ {b}, NEW o \in Offsets PROVE g[First(d) + o] = m[First(d) + o]
  <2>1. First(d) + o \in Memory /\ \A p \in Offsets : First(d) + o # First(b) + p
    BY Distinct, Place
  <2> QED
    BY <1>6, <2>1, Fields
<1>9. ASSUME NEW a \in Memory, g[a] = Head PROVE mem[a] = Head
  <2>1. m[a] = Head
    BY <1>6, <1>9, Basics
  <2>2. a # First(c) + HeadSentinel
    BY <1>2, <2>1
  <2> QED
    BY <1>1, <1>2, <2>1, <2>2
<1>10. ASSUME NEW d \in Index \ {b, c}, NEW o \in Offsets
       PROVE  g[First(d) + o] = mem[First(d) + o]
  <2>1. k[First(d) + o] = mem[First(d) + o] /\ m[First(d) + o] = k[First(d) + o]
    BY <1>1, <1>2
  <2>2. g[First(d) + o] = m[First(d) + o]
    BY <1>8
  <2> QED
    BY <2>1, <2>2
<1>11. /\ m[First(b) + HeadSentinel] = mem[First(b) + HeadSentinel]
       /\ m[First(b) + RealPtr] = mem[First(b) + RealPtr]
  BY <1>1, <1>2, Fields
<1>12. g[First(c) + HeadSentinel] = m[First(c) + HeadSentinel]
  BY <1>8, Fields
<1> QED
  BY <1>2, <1>6, <1>7, <1>9, <1>10, <1>11, <1>12

\* An overflow destroys the tail of its object, and of the block behind it a part that ends
\* before the tail.
LEMMA OverflowWords ==
  ASSUME NEW b \in Index, NEW n \in Lengths, NEW j \in Junk, DOMAIN mem = Memory,
         NEW hit, hit = {a \in Memory : First(b) + Start + Size <= a /\ a < First(b) + Start + Size + n},
         NEW g, g = [a \in Memory |-> IF a \in hit THEN j ELSE mem[a]]
  PROVE  /\ DOMAIN g = Memory
         /\ g[First(b) + (Start + Size)] # Tail
         /\ \A o \in Offsets : o # Start + Size => g[First(b) + o] = mem[First(b) + o]
         /\ \A c \in Index \ {b, b + 1}, o \in Offsets : g[First(c) + o] = mem[First(c) + o]
         /\ \A a \in Memory : g[a] = Head => mem[a] = Head
         /\ First(b + 1) + HeadSentinel \in hit \/ First(b + 1) \in hit => b + 1 \in Index
         /\ b + 1 \in Index =>
              /\ \A o \in Offsets : g[First(b + 1) + o] \in {mem[First(b + 1) + o], j}
              /\ g[First(b + 1) + (Start + Size)] = mem[First(b + 1) + (Start + Size)]
              /\ First(b + 1) + HeadSentinel \in hit => g[First(b + 1) + HeadSentinel] # Head
              /\ First(b + 1) + HeadSentinel \notin hit =>
                   g[First(b + 1) + HeadSentinel] = mem[First(b + 1) + HeadSentinel]
              /\ First(b + 1) \notin hit =>
                   \A o \in Offsets : g[First(b + 1) + o] = mem[First(b + 1) + o]
<1>1. n \in 1..BlockSize /\ BlockSize = Size + 5 /\ Size \in Nat
  BY EvidenceAssumption, Basics
<1>2. /\ First(b) \in Nat /\ First(b) + BlockSize <= Limit /\ First(b + 1) = First(b) + BlockSize
      /\ \A o \in Offsets : First(b) + o \in Memory
      /\ b + 1 \in Index => \A o \in Offsets : First(b + 1) + o \in Memory
      /\ b + 1 \notin Index => First(b) + BlockSize = Limit
  BY Place, Fields
<1>3. First(b) + Start + Size = First(b) + (Size + 4)
  BY <1>1, <1>2, Fields
<1>4. \A a \in Memory : a \in hit <=> First(b) + (Size + 4) <= a /\ a < First(b) + (Size + 4) + n
  BY <1>3
<1>5. \A a \in hit : a \in Memory
  OBVIOUS
<1>6. /\ DOMAIN g = Memory /\ \A a \in Memory : g[a] = IF a \in hit THEN j ELSE mem[a]
  OBVIOUS

<1>7. \A a \in Memory : a \in Int /\ 0 <= a /\ a < Limit
  BY Basics
<1>8. j # Tail /\ j # Head
  BY Basics
<1>9. g[First(b) + (Start + Size)] = j
  BY <1>1, <1>2, <1>4, <1>6, Fields DEF Offsets
<1>10. ASSUME NEW o \in Offsets, o # Start + Size PROVE g[First(b) + o] = mem[First(b) + o]
  BY <1>1, <1>2, <1>4, <1>6, <1>10, Fields DEF Offsets
<1>11. ASSUME NEW c \in Index \ {b, b + 1}, NEW o \in Offsets
       PROVE  g[First(c) + o] = mem[First(c) + o]
  <2>1. First(c) + o \in Memory /\ First(c) \in Nat /\ o \in 0..(BlockSize - 1)
    BY Place DEF Offsets
  <2>2. CASE c < b
    <3>1. First(c) + BlockSize <= First(b)
      BY <2>2, Order
    <3>2. First(c) + o \notin hit
      BY <1>1, <1>2, <1>4, <2>1, <3>1
    <3> QED
      BY <1>6, <2>1, <3>2
  <2>3. CASE b + 1 < c
    <3>1. b + 1 \in Index
      BY <2>3, Basics
    <3>2. First(b + 1) + BlockSize <= First(c)
      BY <2>3, <3>1, Order
    <3>3. First(c) + o \notin hit
      BY <1>1, <1>2, <1>4, <2>1, <3>2
    <3> QED
      BY <1>6, <2>1, <3>3
  <2>4. c < b \/ b + 1 < c
    <3>1. b \in Int /\ c \in Int /\ c # b /\ c # b + 1
      BY Basics
    <3> QED
      BY <3>1
  <2> QED
    BY <2>2, <2>3, <2>4
<1>12. First(b + 1) + HeadSentinel \in hit \/ First(b + 1) \in hit => b + 1 \in Index
  BY <1>1, <1>2, <1>5, <1>7, Fields
<1>13. ASSUME b + 1 \in Index
       PROVE  /\ \A o \in Offsets : g[First(b + 1) + o] \in {mem[First(b + 1) + o], j}
              /\ g[First(b + 1) + (Start + Size)] = mem[First(b + 1) + (Start + Size)]
              /\ First(b + 1) + HeadSentinel \in hit => g[First(b + 1) + HeadSentinel] # Head
              /\ First(b + 1) + HeadSentinel \notin hit =>
                   g[First(b + 1) + HeadSentinel] = mem[First(b + 1) + HeadSentinel]
              /\ First(b + 1) \notin hit =>
                   \A o \in Offsets : g[First(b + 1) + o] = mem[First(b + 1) + o]
  <2>1. \A o \in Offsets : First(b + 1) + o \in Memory
    BY <1>2, <1>13
  <2>2. \A o \in Offsets : g[First(b + 1) + o] \in {mem[First(b + 1) + o], j}
    BY <1>6, <2>1
  <2>3. First(b + 1) + (Start + Size) \notin hit
    BY <1>1, <1>2, <1>4, <2>1, Fields
  <2>4. ASSUME First(b + 1) \notin hit, NEW o \in Offsets PROVE First(b + 1) + o \notin hit
    <3>1. First(b + 1) + 0 \in Memory /\ First(b + 1) + 0 = First(b + 1)
      BY <1>1, <1>2, <2>1, Fields
    <3>2. n <= 1
      BY <1>1, <1>2, <1>4, <2>4, <3>1
    <3> QED
      BY <1>1, <1>2, <1>4, <2>1, <3>2 DEF Offsets
  <2> QED
    BY <1>6, <1>8, <2>1, <2>2, <2>3, <2>4, Fields
<1>14. \A a \in Memory : g[a] = Head => mem[a] = Head
  BY <1>6, <1>8
<1> QED
  BY <1>6, <1>8, <1>9, <1>10, <1>11, <1>12, <1>13, <1>14

-----------------------------------------------------------------------------
(* What most steps have in common *)

\* What the invariant says of a block that a step leaves alone stays true of it.
LEMMA KeptBlock ==
  ASSUME NEW c \in Index, Kept(c), owner'[c] = owner[c], block'[c] = block[c],
         culprits \subseteq culprits', confused \subseteq confused', blurred => blurred'
  PROVE  /\ GoodBlock(c) => GoodBlock(c)'
         /\ Intact(c) => Intact(c)'
         /\ Broken(c) => Broken(c)'
<1>1. /\ mem'[First(c) + RealPtr] = mem[First(c) + RealPtr]
      /\ mem'[First(c) + ObjectSize] = mem[First(c) + ObjectSize]
      /\ mem'[First(c) + Cs] = mem[First(c) + Cs]
      /\ mem'[First(c) + HeadSentinel] = mem[First(c) + HeadSentinel]
      /\ mem'[First(c) + (Start + Size)] = mem[First(c) + (Start + Size)]
  BY DEF Kept
<1>2. Named(c)' <=> Named(c)
  BY <1>1 DEF Named, Word
<1>3. IsGoodHead(c)' <=> IsGoodHead(c)
  BY <1>1 DEF IsGoodHead, Word
<1>4. Intact(c)' <=> Intact(c)
  BY <1>1, <1>2, <1>3 DEF Intact, Word
<1>5. Broken(c)' <=> Broken(c)
  BY <1>1 DEF Broken
<1>6. Word(c, Cs)' = Word(c, Cs)
  BY <1>1 DEF Word
<1> QED
  BY <1>2, <1>3, <1>4, <1>5, <1>6 DEF GoodBlock

\* A head that is found is that of the block it lies in.
LEMMA HeadPlace ==
  ASSUME HeadInv, NEW a \in Memory, mem[a] = Head
  PROVE  /\ BlockOf(a) \in Index /\ a = First(BlockOf(a)) + HeadSentinel
         /\ IsGoodHead(BlockOf(a))
<1>1. PICK b \in Index : a = First(b) + HeadSentinel
  BY DEF HeadInv
<1>2. BlockOf(a) = b
  BY <1>1, Place, Fields
<1> QED
  BY <1>1, <1>2 DEF IsGoodHead, Word

\* The head that the scan has found is still there, unless it was overtaken.
LEMMA Checked ==
  ASSUME TypeInv, HeadInv, ScanInv, phase = "check", ~raced
  PROVE  /\ it \in Memory /\ BlockOf(it) \in Index
         /\ it = First(BlockOf(it)) + HeadSentinel /\ IsGoodHead(BlockOf(it))
<1>1. it \in Memory
  BY Basics DEF TypeInv
<1>2. mem[it] = Head
  BY DEF ScanInv
<1> QED
  BY <1>1, <1>2, HeadPlace

\* A call that stops no scan, and hurts no object during it, leaves it what it has found.
LEMMA CallScan ==
  ASSUME ScanInv, UNCHANGED <<phase, it, file>>, proven \subseteq proven', blurred => blurred',
         raced => raced',
         \A b \in hurt' : phase = "run" \/ (b \in hurt /\ owner'[b] = owner[b]),
         phase = "check" /\ ~raced' => mem'[it] = Head
  PROVE  ScanInv'
<1>1. ASSUME ~blurred', ~raced', NEW b \in hurt'
      PROVE  /\ phase' \in {"scan", "check"} /\ First(b) + HeadSentinel < it' =>
                  owner'[b] \in proven'
             /\ phase' = "save" => owner'[b] \in proven'
             /\ phase' = "saved" => owner'[b] \in file'
  <2>1. CASE phase = "run"
    BY <2>1
  <2>2. CASE b \in hurt /\ owner'[b] = owner[b]
    <3>1. /\ phase \in {"scan", "check"} /\ First(b) + HeadSentinel < it => owner[b] \in proven
          /\ phase = "save" => owner[b] \in proven
          /\ phase = "saved" => owner[b] \in file
      BY <1>1, <2>2 DEF ScanInv
    <3> QED
      BY <2>2, <3>1
  <2> QED
    BY <2>1, <2>2
<1> QED
  BY <1>1 DEF ScanInv

-----------------------------------------------------------------------------
(* The application's calls *)

\* malloc and calloc.
LEMMA MallocStep ==
  ASSUME EvidenceInv, Malloc
  PROVE  EvidenceInv'
<1>1. /\ TypeInv /\ HeadInv /\ BlockInv /\ SmashInv /\ HurtInv /\ ScanInv /\ DueInv
      /\ BlameIsRight
  BY DEF EvidenceInv
<1>2. PICK b \in Index, cs \in CallStacks \cup {Null} :
        /\ block[b] = "free" /\ mem' = Guarded(mem, b, cs)
        /\ block' = [block EXCEPT ![b] = "live"] /\ owner' = [owner EXCEPT ![b] = cs]
        /\ smasher' = [smasher EXCEPT ![b] = "none"] /\ hurt' = hurt \ {b}
        /\ raced' = (raced \/ UnderScan(b))
  BY DEF Malloc
<1>3. /\ UNCHANGED <<proven, phase, it, file, due, culprits, confused, astray, blurred, crashed>>
      /\ Running
  BY DEF Malloc, Call
<1>4. cs # Head
  BY Basics
<1>5. /\ DOMAIN mem' = Memory
      /\ mem'[First(b) + RealPtr] = First(b) /\ mem'[First(b) + ObjectSize] = Size
      /\ mem'[First(b) + Cs] = cs /\ mem'[First(b) + HeadSentinel] = Head
      /\ mem'[First(b) + (Start + Size)] = Tail
      /\ \A c \in Index \ {b}, o \in Offsets : mem'[First(c) + o] = mem[First(c) + o]
      /\ \A a \in Memory : mem'[a] = Head => mem[a] = Head \/ a = First(b) + HeadSentinel
  BY <1>2, <1>4, GuardedWords
<1>6. owner'[b] = cs /\ block'[b] = "live" /\ smasher'[b] = "none"
  BY <1>1, <1>2 DEF TypeInv
<1>7. ASSUME NEW c \in Index \ {b}
      PROVE  /\ Kept(c) /\ owner'[c] = owner[c] /\ block'[c] = block[c] /\ smasher'[c] = smasher[c]
             /\ GoodBlock(c) => GoodBlock(c)'
             /\ Intact(c) => Intact(c)'
             /\ Broken(c) => Broken(c)'
  <2>1. Kept(c)
    BY <1>5, Fields DEF Kept
  <2>2. owner'[c] = owner[c] /\ block'[c] = block[c] /\ smasher'[c] = smasher[c]
    BY <1>1, <1>2 DEF TypeInv
  <2> QED
    BY <1>3, <2>1, <2>2, KeptBlock
<1>8. TypeInv'
  BY <1>1, <1>2, <1>3, <1>5 DEF TypeInv
<1>9. HeadInv'
  BY <1>1, <1>5 DEF HeadInv
<1>10. BlockInv'
  <2>1. GoodBlock(b)'
    <3>1. Named(b)' /\ Intact(b)' /\ ~Broken(b)' /\ Word(b, Cs)' = owner'[b]
      BY <1>5, <1>6 DEF Named, Intact, IsGoodHead, Broken, Word
    <3> QED
      BY <1>6, <3>1 DEF GoodBlock
  <2>2. ASSUME NEW c \in Index \ {b} PROVE GoodBlock(c)'
    BY <1>1, <1>7 DEF BlockInv
  <2> QED
    BY <2>1, <2>2 DEF BlockInv
<1>11. SmashInv'
  <2>1. ASSUME NEW c \in Index, smasher'[c] = "there"
        PROVE  c > 0 /\ block'[c - 1] # "free" /\ owner'[c - 1] \in culprits'
    <3>1. c # b /\ smasher[c] = "there"
      BY <1>6, <1>7, <2>1
    <3>2. c > 0 /\ block[c - 1] # "free" /\ owner[c - 1] \in culprits
      BY <1>1, <3>1 DEF SmashInv
    <3>3. c - 1 \in Index \ {b}
      BY <1>2, <3>2, Basics
    <3> QED
      BY <1>3, <1>7, <3>2, <3>3
  <2> QED
    BY <2>1 DEF SmashInv
<1>12. HurtInv'
  <2>1. ASSUME NEW c \in hurt' PROVE Intact(c)' /\ Broken(c)'
    <3>1. c \in Index \ {b} /\ c \in hurt
      BY <1>1, <1>2 DEF TypeInv
    <3> QED
      BY <1>1, <1>7, <3>1 DEF HurtInv
  <2> QED
    BY <2>1 DEF HurtInv
<1>13. ScanInv'
  <2>1. ASSUME phase = "check", ~raced' PROVE mem'[it] = Head
    <3>1. BlockOf(it) # b /\ ~raced
      BY <1>2, <2>1 DEF UnderScan
    <3>2. BlockOf(it) \in Index /\ it = First(BlockOf(it)) + HeadSentinel /\ mem[it] = Head
      BY <1>1, <2>1, <3>1, Checked DEF IsGoodHead, Word
    <3> QED
      BY <1>5, <3>1, <3>2, Fields
  <2>2. ASSUME NEW c \in hurt' PROVE c \in hurt /\ owner'[c] = owner[c]
    <3>1. c \in Index \ {b} /\ c \in hurt
      BY <1>1, <1>2 DEF TypeInv
    <3> QED
      BY <1>7, <3>1
  <2>3. raced => raced'
    BY <1>2
  <2> QED
    BY <1>1, <1>3, <2>1, <2>2, <2>3, CallScan
<1>14. DueInv' /\ BlameIsRight' /\ ExitSaves'
  BY <1>1, <1>2, <1>3 DEF DueInv, BlameIsRight, ExitSaves, Running
<1> QED
  BY <1>8, <1>9, <1>10, <1>11, <1>12, <1>13, <1>14 DEF EvidenceInv

\* A write behind an object.
LEMMA OverflowStep ==
  ASSUME EvidenceInv, Overflow
  PROVE  EvidenceInv'
<1>1. /\ TypeInv /\ HeadInv /\ BlockInv /\ SmashInv /\ HurtInv /\ ScanInv /\ DueInv
      /\ BlameIsRight
  BY DEF EvidenceInv
<1>2. PICK b \in Index, n \in Lengths, j \in Junk :
        LET hit == {a \in Memory : First(b) + Start + Size <= a /\ a < First(b) + Start + Size + n}
            whole == First(b + 1) + HeadSentinel \in hit
            partly == First(b + 1) \in hit /\ ~whole IN
        /\ block[b] = "live"
        /\ mem' = [a \in Memory |-> IF a \in hit THEN j ELSE mem[a]]
        /\ culprits' = culprits \cup {owner[b]}
        /\ hurt' = (hurt \cup IF phase = "run" /\ IsGoodHead(b) /\ ~blurred THEN {b} ELSE {})
                     \ (IF whole \/ partly THEN {b + 1} ELSE {})
        /\ smasher' = IF whole THEN [smasher EXCEPT ![b + 1] = "there"] ELSE smasher
        /\ confused' = confused \cup IF partly THEN {owner[b + 1]} ELSE {}
        /\ blurred' = (blurred \/ partly)
        /\ raced' = (raced \/ ((whole \/ partly) /\ UnderScan(b + 1)))
  BY DEF Overflow
<1>3. /\ UNCHANGED <<block, proven, phase, it, file, owner, due, astray, crashed>>
      /\ Running
  BY DEF Overflow, Call
<1> DEFINE hit == {a \in Memory : First(b) + Start + Size <= a /\ a < First(b) + Start + Size + n}
           whole == First(b + 1) + HeadSentinel \in hit
           partly == First(b + 1) \in hit /\ ~whole
<1>4. /\ block[b] = "live" /\ mem' = [a \in Memory |-> IF a \in hit THEN j ELSE mem[a]]
      /\ culprits' = culprits \cup {owner[b]}
      /\ hurt' = (hurt \cup IF phase = "run" /\ IsGoodHead(b) /\ ~blurred THEN {b} ELSE {})
                   \ (IF whole \/ partly THEN {b + 1} ELSE {})
      /\ smasher' = IF whole THEN [smasher EXCEPT ![b + 1] = "there"] ELSE smasher
      /\ confused' = confused \cup IF partly THEN {owner[b + 1]} ELSE {}
      /\ blurred' = (blurred \/ partly)
      /\ raced' = (raced \/ ((whole \/ partly) /\ UnderScan(b + 1)))
  BY <1>2
<1>5. DOMAIN mem = Memory
  BY <1>1 DEF TypeInv
<1>6. /\ DOMAIN mem' = Memory
      /\ mem'[First(b) + (Start + Size)] # Tail
      /\ \A o \in Offsets : o # Start + Size => mem'[First(b) + o] = mem[First(b) + o]
      /\ \A c \in Index \ {b, b + 1}, o \in Offsets : mem'[First(c) + o] = mem[First(c) + o]
      /\ \A a \in Memory : mem'[a] = Head => mem[a] = Head
      /\ whole \/ First(b + 1) \in hit => b + 1 \in Index
      /\ b + 1 \in Index =>
           /\ \A o \in Offsets : mem'[First(b + 1) + o] \in {mem[First(b + 1) + o], j}
           /\ mem'[First(b + 1) + (Start + Size)] = mem[First(b + 1) + (Start + Size)]
           /\ whole => mem'[First(b + 1) + HeadSentinel] # Head
           /\ ~whole => mem'[First(b + 1) + HeadSentinel] = mem[First(b + 1) + HeadSentinel]
           /\ First(b + 1) \notin hit =>
                \A o \in Offsets : mem'[First(b + 1) + o] = mem[First(b + 1) + o]
  <2>1. hit = {a \in Memory : First(b) + Start + Size <= a /\ a < First(b) + Start + Size + n}
    OBVIOUS
  <2>2. mem' = [a \in Memory |-> IF a \in hit THEN j ELSE mem[a]]
    BY <1>4
  <2> HIDE DEF hit
  <2> QED
    BY <1>5, <2>1, <2>2, OverflowWords
<1> HIDE DEF hit
<1>7. whole \/ partly => b + 1 \in Index
  BY <1>6
<1> HIDE DEF whole
<1>8. b \in Nat /\ b + 1 # b /\ Start + Size \notin {RealPtr, ObjectSize, Cs, HeadSentinel}
  BY Basics, Fields
<1>9. /\ mem'[First(b) + RealPtr] = mem[First(b) + RealPtr]
      /\ mem'[First(b) + ObjectSize] = mem[First(b) + ObjectSize]
      /\ mem'[First(b) + Cs] = mem[First(b) + Cs]
      /\ mem'[First(b) + HeadSentinel] = mem[First(b) + HeadSentinel]
  BY <1>6, <1>8, Fields
<1>10. /\ IsGoodHead(b)' <=> IsGoodHead(b)
       /\ Word(b, Cs)' = Word(b, Cs)
       /\ Named(b)' <=> Named(b)
       /\ Intact(b)' <=> Intact(b)
       /\ Broken(b)'
  BY <1>3, <1>6, <1>9 DEF IsGoodHead, Named, Intact, Broken, Word
<1>11. culprits \subseteq culprits' /\ confused \subseteq confused' /\ (blurred => blurred')
       /\ (raced => raced')
  BY <1>4
<1>12. ASSUME NEW c \in Index \ {b}, c # b + 1 \/ (~whole /\ ~partly)
       PROVE  /\ Kept(c)
              /\ GoodBlock(c) => GoodBlock(c)'
              /\ Intact(c) => Intact(c)'
              /\ Broken(c) => Broken(c)'
  <2>1. Kept(c)
    <3>1. CASE c # b + 1
      BY <1>6, <3>1, Fields DEF Kept
    <3>2. CASE c = b + 1 /\ ~whole /\ ~partly
      BY <1>6, <3>2, Fields DEF Kept
    <3> QED
      BY <1>12, <3>1, <3>2
  <2> QED
    BY <1>3, <1>11, <2>1, KeptBlock
<1>13. TypeInv'
  <2>1. hurt' \subseteq Index
    BY <1>1, <1>4 DEF TypeInv
  <2>2. smasher' \in [Index -> {"none", "there", "gone"}]
    BY <1>1, <1>4 DEF TypeInv
  <2>3. blurred' \in BOOLEAN /\ raced' \in BOOLEAN
    BY <1>4
  <2> QED
    BY <1>1, <1>3, <1>6, <2>1, <2>2, <2>3 DEF TypeInv
<1>14. HeadInv'
  BY <1>1, <1>6 DEF HeadInv
<1>15. BlockInv'
  <2>1. GoodBlock(b)'
    <3>1. GoodBlock(b)
      BY <1>1 DEF BlockInv
    <3> QED
      BY <1>3, <1>4, <1>10, <1>11, <3>1 DEF GoodBlock
  <2>2. ASSUME b + 1 \in Index, whole PROVE GoodBlock(b + 1)'
    <3>1. ~IsGoodHead(b + 1)'
      BY <1>6, <2>2 DEF IsGoodHead, Word
    <3> QED
      BY <3>1 DEF GoodBlock
  <2>3. ASSUME b + 1 \in Index, partly PROVE GoodBlock(b + 1)'
    <3>1. IsGoodHead(b + 1)' => IsGoodHead(b + 1)
      BY <1>6, <2>3 DEF IsGoodHead, Word
    <3>2. Word(b + 1, Cs)' \in {Word(b + 1, Cs), j}
      BY <1>6, <2>3, Fields DEF Word
    <3>3. Broken(b + 1)' => Broken(b + 1)
      BY <1>6, <2>3 DEF Broken
    <3>4. owner'[b + 1] \in confused' /\ blurred'
      BY <1>3, <1>4, <2>3
    <3>5. GoodBlock(b + 1)
      BY <1>1, <2>3 DEF BlockInv
    <3> QED
      BY <1>3, <1>11, <3>1, <3>2, <3>3, <3>4, <3>5 DEF GoodBlock
  <2>4. ASSUME NEW c \in Index PROVE GoodBlock(c)'
    <3>1. CASE c = b
      BY <2>1, <3>1
    <3>2. CASE c = b + 1 /\ whole
      BY <2>2, <3>2
    <3>3. CASE c = b + 1 /\ partly
      BY <2>3, <3>3
    <3>4. CASE c # b /\ (c # b + 1 \/ (~whole /\ ~partly))
      BY <1>1, <1>12, <3>4 DEF BlockInv
    <3> QED
      BY <3>1, <3>2, <3>3, <3>4
  <2> QED
    BY <2>4 DEF BlockInv
<1>16. SmashInv'
  <2>1. ASSUME NEW c \in Index, smasher'[c] = "there"
        PROVE  c > 0 /\ block'[c - 1] # "free" /\ owner'[c - 1] \in culprits'
    <3>1. CASE c = b + 1 /\ whole
      <4>1. c > 0 /\ c - 1 = b
        BY <1>8, <3>1
      <4> QED
        BY <1>3, <1>4, <4>1
    <3>2. CASE smasher[c] = "there"
      BY <1>1, <1>3, <1>11, <3>2 DEF SmashInv
    <3>3. smasher'[c] = smasher[c] \/ (c = b + 1 /\ whole)
      BY <1>1, <1>4 DEF TypeInv
    <3> QED
      BY <2>1, <3>1, <3>2, <3>3
  <2> QED
    BY <2>1 DEF SmashInv
<1>17. HurtInv'
  <2>1. ASSUME NEW c \in hurt' PROVE Intact(c)' /\ Broken(c)'
    <3>1. CASE c = b
      <4>1. c \in hurt \/ (IsGoodHead(b) /\ ~blurred)
        BY <1>4, <2>1
      <4>2. Intact(b)
        BY <1>1, <3>1, <4>1 DEF HurtInv, BlockInv, GoodBlock
      <4> QED
        BY <1>10, <3>1, <4>2
    <3>2. CASE c # b
      <4>1. c \in hurt /\ c \in Index \ {b} /\ (c # b + 1 \/ (~whole /\ ~partly))
        BY <1>1, <1>4, <2>1, <3>2 DEF TypeInv
      <4> QED
        BY <1>1, <1>12, <4>1 DEF HurtInv
    <3> QED
      BY <3>1, <3>2
  <2> QED
    BY <2>1 DEF HurtInv
<1>18. ScanInv'
  <2>1. ASSUME phase = "check", ~raced' PROVE mem'[it] = Head
    <3> DEFINE d == BlockOf(it)
    <3>1. ~raced /\ (d # b + 1 \/ (~whole /\ ~partly))
      BY <1>4, <2>1 DEF UnderScan
    <3>2. d \in Index /\ it = First(d) + HeadSentinel /\ mem[it] = Head
      BY <1>1, <2>1, <3>1, Checked DEF IsGoodHead, Word
    <3> HIDE DEF d
    <3>3. CASE d = b
      BY <1>9, <3>2, <3>3
    <3>4. CASE d # b
      <4>1. Kept(d)
        BY <1>12, <3>1, <3>2, <3>4
      <4> QED
        BY <3>2, <4>1 DEF Kept
    <3> QED
      BY <3>3, <3>4
  <2>2. ASSUME NEW c \in hurt' PROVE phase = "run" \/ (c \in hurt /\ owner'[c] = owner[c])
    BY <1>3, <1>4
  <2> QED
    BY <1>1, <1>3, <1>11, <2>1, <2>2, CallScan
<1>19. DueInv' /\ BlameIsRight' /\ ExitSaves'
  BY <1>1, <1>3, <1>11 DEF DueInv, BlameIsRight, ExitSaves, Running
<1> QED
  BY <1>13, <1>14, <1>15, <1>16, <1>17, <1>18, <1>19 DEF EvidenceInv

\* What the invariant says of the heap stays true while nothing touches it.
LEMMA SameHeap ==
  ASSUME HeadInv, BlockInv, SmashInv, HurtInv,
         UNCHANGED <<mem, block, owner, smasher, hurt, culprits, confused, blurred>>
  PROVE  HeadInv' /\ BlockInv' /\ SmashInv' /\ HurtInv'
<1>1. ASSUME NEW c \in Index
      PROVE  /\ GoodBlock(c) => GoodBlock(c)'
             /\ Intact(c) => Intact(c)'
             /\ Broken(c) => Broken(c)'
  <2>1. Kept(c)
    BY DEF Kept
  <2> QED
    BY <2>1, KeptBlock
<1>2. HeadInv'
  BY DEF HeadInv
<1>3. BlockInv'
  BY <1>1 DEF BlockInv
<1>4. SmashInv'
  BY DEF SmashInv
<1>5. ASSUME NEW c \in hurt' PROVE Intact(c)' /\ Broken(c)'
  BY <1>5 DEF HurtInv, Intact, Broken, IsGoodHead, Named, Word
<1>6. HurtInv'
  BY <1>5 DEF HurtInv
<1> QED
  BY <1>2, <1>3, <1>4, <1>6

\* A fault ends the run, or perhaps the exit.
LEMMA FaultStep ==
  ASSUME EvidenceInv, Fault, Running,
         UNCHANGED <<it, file, owner, smasher, hurt, due, culprits, confused, astray, blurred, raced>>
  PROVE  EvidenceInv'
<1>1. /\ TypeInv /\ HeadInv /\ BlockInv /\ SmashInv /\ HurtInv /\ ScanInv /\ DueInv
      /\ BlameIsRight
  BY DEF EvidenceInv
<1>2. UNCHANGED <<mem, block, proven>>
  BY DEF Fault
<1>3. \/ phase = "run" /\ phase' = "scan" /\ crashed' = crashed
      \/ phase # "run" /\ phase' = phase /\ crashed' = TRUE
      \/ phase # "run" /\ phase' = "lost" /\ crashed' = TRUE
  BY DEF Fault
<1>4. TypeInv'
  BY <1>1, <1>2, <1>3 DEF TypeInv
<1>5. HeadInv' /\ BlockInv' /\ SmashInv' /\ HurtInv'
  BY <1>1, <1>2, SameHeap
<1>6. ScanInv'
  <2>1. CASE phase = "run" /\ phase' = "scan"
    <3>1. it' = 0
      BY <1>1, <2>1 DEF TypeInv
    <3>2. ASSUME NEW b \in hurt' PROVE ~(First(b) + HeadSentinel < it')
      <4>1. b \in Index
        BY <1>1 DEF TypeInv
      <4>2. First(b) \in Nat
        BY <4>1, Place, Fields
      <4> QED
        BY <3>1, <4>2, Fields
    <3> QED
      BY <2>1, <3>2 DEF ScanInv
  <2>2. CASE phase # "run" /\ phase' = phase
    BY <1>1, <1>2, <2>2 DEF ScanInv
  <2>3. CASE phase' = "lost"
    BY <2>3 DEF ScanInv
  <2> QED
    BY <1>3, <2>1, <2>2, <2>3
<1>7. DueInv' /\ BlameIsRight'
  BY <1>1, <1>2 DEF DueInv, BlameIsRight
<1>8. ExitSaves'
  BY <1>3 DEF ExitSaves, Running
<1> QED
  BY <1>4, <1>5, <1>6, <1>7, <1>8 DEF EvidenceInv

\* Where the tail of an object with its header intact is.
LEMMA TailPlace ==
  ASSUME NEW b \in Index, Word(b, ObjectSize) = Size
  PROVE  /\ TailAddress(b) = First(b) + (Start + Size) /\ TailAddress(b) \in Memory
         /\ IsGoodTail(b) <=> ~Broken(b)
<1>1. First(b) \in Nat /\ First(b) + (Start + Size) \in Memory
  BY Place, Fields
<1>2. TailAddress(b) = First(b) + (Start + Size)
  BY <1>1, Basics, Fields DEF TailAddress
<1> QED
  BY <1>1, <1>2 DEF IsGoodTail, Broken

\* A call stack in a header with a good head and no canary behind the object has an
\* overflow to answer for, or was the victim of one.
LEMMA BlamedRight ==
  ASSUME BlockInv, NEW b \in Index, IsGoodHead(b), ~IsGoodTail(b), Word(b, Cs) \in CallStacks
  PROVE  Word(b, Cs) \in culprits \cup confused
<1>1. /\ Named(b) \/ owner[b] \in confused
      /\ Word(b, Cs) \in {owner[b]} \cup Junk
      /\ Broken(b) => owner[b] \in culprits
  BY DEF BlockInv, GoodBlock
<1>2. Word(b, Cs) = owner[b]
  BY <1>1, Basics
<1>3. Named(b) => Broken(b)
  BY TailPlace DEF Named
<1> QED
  BY <1>1, <1>2, <1>3

\* An object that is to be found names its call stack, and the word behind it is no canary.
LEMMA HurtFound ==
  ASSUME TypeInv, HurtInv, NEW b \in hurt
  PROVE  /\ b \in Index /\ IsGoodHead(b) /\ Word(b, Cs) = owner[b] /\ owner[b] \in CallStacks \cup {Null}
         /\ TailAddress(b) = First(b) + (Start + Size) /\ TailAddress(b) \in Memory
         /\ ~IsGoodTail(b)
<1>1. b \in Index /\ owner[b] \in CallStacks \cup {Null}
  BY DEF TypeInv
<1>2. IsGoodHead(b) /\ Word(b, ObjectSize) = Size /\ Word(b, Cs) = owner[b] /\ Broken(b)
  BY DEF HurtInv, Intact, Named
<1> QED
  BY <1>1, <1>2, TailPlace

\* free of an object whose head is good: its tail is looked at.
LEMMA FreeGoodStep ==
  ASSUME EvidenceInv, Running, NEW b \in Index, FreeGood(b),
         UNCHANGED <<it, file, owner, culprits, confused, blurred>>
  PROVE  EvidenceInv'
<1>1. /\ TypeInv /\ HeadInv /\ BlockInv /\ SmashInv /\ HurtInv /\ ScanInv /\ DueInv
      /\ BlameIsRight
  BY DEF EvidenceInv
<1>2. IsGoodHead(b) /\ UNCHANGED astray
  BY DEF FreeGood
<1>3. CASE Fault /\ UNCHANGED <<hurt, due, smasher, raced>>
  BY <1>2, <1>3, FaultStep
<1>4. ASSUME /\ Blame(b)
             /\ \E j \in Junk : mem' = Recycled(Unguarded(mem, b), b, j)
             /\ block' = [block EXCEPT ![b] = "free"]
             /\ due' = due \cup {owner[c] : c \in hurt \cap {b}}
             /\ hurt' = hurt \ {b}
             /\ smasher' = Gone(b)
             /\ raced' = (raced \/ UnderScan(b))
             /\ UNCHANGED <<phase, crashed>>
      PROVE  EvidenceInv'
  <2>1. PICK j \in Junk : mem' = Recycled(Unguarded(mem, b), b, j)
    BY <1>4
  <2>2. DOMAIN mem = Memory
    BY <1>1 DEF TypeInv
  <2>3. /\ DOMAIN mem' = Memory
        /\ mem'[First(b) + HeadSentinel] # Head
        /\ \A c \in Index \ {b}, o \in Offsets : mem'[First(c) + o] = mem[First(c) + o]
        /\ \A a \in Memory : mem'[a] = Head => mem[a] = Head
    BY <2>1, <2>2, FreedWords
  <2>4. proven' = proven \/ (~IsGoodTail(b) /\ proven' = proven \cup ({Word(b, Cs)} \cap CallStacks))
    BY <1>4 DEF Blame, Raise
  <2>5. ~IsGoodTail(b) => proven' = proven \cup ({Word(b, Cs)} \cap CallStacks)
    BY <1>4 DEF Blame, Raise
  <2>6. ASSUME NEW c \in Index \ {b}
        PROVE  /\ Kept(c) /\ block'[c] = block[c]
               /\ GoodBlock(c) => GoodBlock(c)'
               /\ Intact(c) => Intact(c)'
               /\ Broken(c) => Broken(c)'
    <3>1. Kept(c)
      BY <2>3, Fields DEF Kept
    <3>2. block'[c] = block[c]
      BY <1>1, <1>4 DEF TypeInv
    <3> QED
      BY <3>1, <3>2, KeptBlock
  <2>7. TypeInv'
    <3>1. smasher' \in [Index -> {"none", "there", "gone"}]
      BY <1>1, <1>4 DEF TypeInv, Gone
    <3>2. raced' \in BOOLEAN
      BY <1>4
    <3> QED
      BY <1>1, <1>2, <1>4, <2>3, <3>1, <3>2 DEF TypeInv
  <2>8. HeadInv'
    BY <1>1, <2>3 DEF HeadInv
  <2>9. BlockInv'
    <3>1. GoodBlock(b)'
      BY <2>3 DEF GoodBlock, IsGoodHead, Word
    <3> QED
      BY <1>1, <2>6, <3>1 DEF BlockInv
  <2>10. SmashInv'
    <3>1. ASSUME NEW c \in Index, smasher'[c] = "there"
          PROVE  c > 0 /\ block'[c - 1] # "free" /\ owner'[c - 1] \in culprits'
      <4>1. smasher[c] = "there" /\ c # b + 1
        BY <1>4, <3>1 DEF Gone
      <4>2. c > 0 /\ block[c - 1] # "free" /\ owner[c - 1] \in culprits
        BY <1>1, <4>1 DEF SmashInv
      <4>3. c - 1 \in Index \ {b}
        BY <4>1, <4>2, Basics
      <4> QED
        BY <2>6, <4>2, <4>3
    <3> QED
      BY <3>1 DEF SmashInv
  <2>11. HurtInv'
    <3>1. ASSUME NEW c \in hurt' PROVE Intact(c)' /\ Broken(c)'
      <4>1. c \in hurt /\ c \in Index \ {b}
        BY <1>1, <1>4 DEF TypeInv
      <4> QED
        BY <1>1, <2>6, <4>1 DEF HurtInv
    <3> QED
      BY <3>1 DEF HurtInv
  <2>12. ScanInv'
    <3>1. ASSUME phase = "check", ~raced' PROVE mem'[it] = Head
      <4>1. BlockOf(it) # b /\ ~raced
        BY <1>4, <3>1 DEF UnderScan
      <4>2. BlockOf(it) \in Index /\ it = First(BlockOf(it)) + HeadSentinel /\ mem[it] = Head
        BY <1>1, <3>1, <4>1, Checked DEF IsGoodHead, Word
      <4> QED
        BY <2>3, <4>1, <4>2, Fields
    <3>2. \A c \in hurt' : c \in hurt /\ owner'[c] = owner[c]
      BY <1>4
    <3>3. proven \subseteq proven' /\ (raced => raced')
      BY <1>4, <2>4
    <3> QED
      BY <1>1, <1>4, <3>1, <3>2, <3>3, CallScan
  <2>13. DueInv'
    <3>1. ASSUME b \in hurt, owner[b] # Null PROVE owner[b] \in proven'
      BY <1>1, <2>5, <3>1, HurtFound
    <3> QED
      BY <1>1, <1>4, <2>4, <3>1 DEF DueInv
  <2>14. BlameIsRight'
    <3>1. ASSUME ~IsGoodTail(b), Word(b, Cs) \in CallStacks
          PROVE  Word(b, Cs) \in culprits \cup confused
      BY <1>1, <1>2, <3>1, BlamedRight
    <3> QED
      BY <1>1, <1>2, <1>4, <2>4, <3>1 DEF BlameIsRight
  <2>15. ExitSaves'
    BY <1>4 DEF ExitSaves, Running
  <2> QED
    BY <2>7, <2>8, <2>9, <2>10, <2>11, <2>12, <2>13, <2>14, <2>15 DEF EvidenceInv
<1> QED
  BY <1>3, <1>4 DEF FreeGood

\* free of an object whose head is bad: the one before it is blamed.
LEMMA FreeBadStep ==
  ASSUME EvidenceInv, Running, NEW b \in Index, FreeBad(b),
         UNCHANGED <<it, file, owner, culprits, confused, blurred>>
  PROVE  EvidenceInv'
<1>1. /\ TypeInv /\ HeadInv /\ BlockInv /\ SmashInv /\ HurtInv /\ ScanInv /\ DueInv
      /\ BlameIsRight
  BY DEF EvidenceInv
<1>2. ~IsGoodHead(b) /\ UNCHANGED <<hurt, due, smasher, raced>>
  BY DEF FreeBad
<1>3. CASE Fault /\ UNCHANGED astray
  BY <1>2, <1>3, FaultStep
<1> DEFINE found == Max(HeadsBelow(b))
<1>4. ASSUME /\ HeadsBelow(b) # {}
             /\ Raise(mem[found - 1])
             /\ block' = [block EXCEPT ![b] = IF block[b] = "live" THEN "leaked" ELSE block[b]]
             /\ astray' = (astray \/ smasher[b] # "there" \/ BlockOf(found) # b - 1)
             /\ UNCHANGED <<mem, phase, crashed>>
      PROVE  EvidenceInv'
  <2>1. found \in Memory /\ mem[found] = Head
    <3>1. HeadsBelow(b) \in SUBSET (0..(Limit - 1)) /\ \A a \in HeadsBelow(b) : mem[a] = Head
      BY Basics DEF HeadsBelow
    <3>2. Limit - 1 \in Nat
      <4>1. First(b) \in Nat /\ First(b) + BlockSize <= Limit
        BY Place, Fields
      <4> QED
        BY <4>1, Basics
    <3>3. found \in HeadsBelow(b)
      BY <1>4, <3>1, <3>2, GreatestOf
    <3> QED
      BY <3>1, <3>3, Basics
  <2> HIDE DEF found
  <2>2. proven' = proven \cup ({mem[found - 1]} \cap CallStacks)
    BY <1>4 DEF Raise
  <2>3. ASSUME NEW c \in Index
        PROVE  block'[c] = block[c] \/ (c = b /\ block[c] = "live" /\ block'[c] = "leaked")
    BY <1>1, <1>4 DEF TypeInv
  <2>4. TypeInv'
    <3>1. block' \in [Index -> {"free", "live", "leaked"}]
      BY <1>1, <1>4 DEF TypeInv
    <3>2. astray' \in BOOLEAN
      BY <1>4
    <3> QED
      BY <1>1, <1>2, <1>4, <3>1, <3>2 DEF TypeInv
  <2>5. HeadInv'
    BY <1>1, <1>4 DEF HeadInv
  <2>6. BlockInv'
    <3>1. GoodBlock(b)'
      BY <1>2, <1>4 DEF GoodBlock, IsGoodHead, Word
    <3>2. ASSUME NEW c \in Index, c # b PROVE GoodBlock(c)'
      <4>1. Kept(c) /\ block'[c] = block[c]
        BY <1>4, <2>3, <3>2 DEF Kept
      <4> QED
        BY <1>1, <4>1, KeptBlock DEF BlockInv
    <3> QED
      BY <3>1, <3>2 DEF BlockInv
  <2>7. SmashInv'
    <3>1. ASSUME NEW c \in Index, smasher'[c] = "there"
          PROVE  c > 0 /\ block'[c - 1] # "free" /\ owner'[c - 1] \in culprits'
      <4>1. c > 0 /\ block[c - 1] # "free" /\ owner[c - 1] \in culprits
        BY <1>1, <1>2, <3>1 DEF SmashInv
      <4>2. c - 1 \in Index
        BY <4>1, Basics
      <4>3. block'[c - 1] # "free"
        BY <2>3, <4>1, <4>2
      <4> QED
        BY <4>1, <4>3
    <3> QED
      BY <3>1 DEF SmashInv
  <2>8. HurtInv'
    BY <1>1, <1>2, <1>4 DEF HurtInv, Intact, Broken, IsGoodHead, Named, Word
  <2>9. ScanInv'
    <3>1. phase = "check" /\ ~raced' => mem'[it] = Head
      BY <1>1, <1>2, <1>4 DEF ScanInv
    <3> QED
      BY <1>1, <1>2, <1>4, <2>2, <3>1, CallScan
  <2>10. DueInv'
    BY <1>1, <1>2, <2>2 DEF DueInv
  <2>11. BlameIsRight'
    <3>1. ASSUME ~astray', mem[found - 1] \in CallStacks PROVE mem[found - 1] \in culprits
      <4>1. smasher[b] = "there" /\ BlockOf(found) = b - 1
        BY <1>4, <3>1
      <4>2. b - 1 \in Index /\ found = First(b - 1) + HeadSentinel /\ IsGoodHead(b - 1)
        BY <1>1, <2>1, <4>1, HeadPlace
      <4>3. First(b - 1) \in Nat
        BY <4>2, Place, Fields
      <4>4. mem[found - 1] = Word(b - 1, Cs)
        BY <4>2, <4>3, Fields DEF Word
      <4>5. Word(b - 1, Cs) \in {owner[b - 1]} \cup Junk
        BY <1>1, <4>2 DEF BlockInv, GoodBlock
      <4>6. owner[b - 1] \in culprits
        BY <1>1, <4>1 DEF SmashInv
      <4> QED
        BY <3>1, <4>4, <4>5, <4>6, Basics
    <3> QED
      BY <1>1, <1>2, <1>4, <2>2, <3>1 DEF BlameIsRight
  <2>12. ExitSaves'
    BY <1>4 DEF ExitSaves, Running
  <2> QED
    BY <2>4, <2>5, <2>6, <2>7, <2>8, <2>9, <2>10, <2>11, <2>12 DEF EvidenceInv
<1> QED
  BY <1>3, <1>4 DEF FreeBad

\* free.
LEMMA FreeStep ==
  ASSUME EvidenceInv, Free
  PROVE  EvidenceInv'
<1>1. Running /\ UNCHANGED <<it, file, owner, culprits, confused, blurred>>
  BY DEF Free, Call
<1>2. PICK b \in Index : FreeGood(b) \/ FreeBad(b)
  BY DEF Free
<1>3. CASE FreeGood(b)
  BY <1>1, <1>3, FreeGoodStep
<1>4. CASE FreeBad(b)
  BY <1>1, <1>4, FreeBadStep
<1> QED
  BY <1>2, <1>3, <1>4

\* realloc.
LEMMA ReallocStep ==
  ASSUME EvidenceInv, Realloc
  PROVE  EvidenceInv'
<1>1. /\ TypeInv /\ HeadInv /\ BlockInv /\ SmashInv /\ HurtInv /\ ScanInv /\ DueInv
      /\ BlameIsRight
  BY DEF EvidenceInv
<1>2. PICK b \in Index, c \in Index, cs \in CallStacks, j \in Junk :
        /\ block[b] = "live" /\ block[c] = "free"
        /\ LET m == Recycled(Unguarded(Guarded(mem, c, Null), c), c, j)
               grown == [m EXCEPT ![First(b) + ObjectSize] = Size] IN
           mem' = [grown EXCEPT ![First(b) + Start + Size] = Tail, ![First(b) + Cs] = cs]
        /\ owner' = [owner EXCEPT ![b] = cs]
        /\ hurt' = hurt \ {b, c}
        /\ smasher' = [Gone(b) EXCEPT ![c] = "none"]
        /\ raced' = (raced \/ UnderScan(b) \/ UnderScan(c))
  BY DEF Realloc
<1>3. /\ UNCHANGED <<block, proven, phase, it, file, due, culprits, confused, astray, blurred,
                     crashed>>
      /\ Running
  BY DEF Realloc, Call
<1>4. b # c
  BY <1>2
<1>5. DOMAIN mem = Memory
  BY <1>1 DEF TypeInv
<1>6. /\ DOMAIN mem' = Memory
      /\ mem'[First(c) + HeadSentinel] # Head
      /\ mem'[First(b) + HeadSentinel] = mem[First(b) + HeadSentinel]
      /\ mem'[First(b) + RealPtr] = mem[First(b) + RealPtr]
      /\ mem'[First(b) + ObjectSize] = Size /\ mem'[First(b) + Cs] = cs
      /\ mem'[First(b) + (Start + Size)] = Tail
      /\ \A d \in Index \ {b, c}, o \in Offsets : mem'[First(d) + o] = mem[First(d) + o]
      /\ \A a \in Memory : mem'[a] = Head => mem[a] = Head
  <2>1. mem' = Moved(b, c, cs, j)
    BY <1>2 DEF Moved
  <2> QED
    BY <1>4, <1>5, <2>1, ReallocWords
<1>7. owner'[b] = cs /\ smasher'[c] = "none"
  BY <1>1, <1>2 DEF TypeInv, Gone
<1>8. ASSUME NEW d \in Index \ {b, c}
      PROVE  /\ Kept(d) /\ owner'[d] = owner[d]
             /\ GoodBlock(d) => GoodBlock(d)'
             /\ Intact(d) => Intact(d)'
             /\ Broken(d) => Broken(d)'
  <2>1. Kept(d)
    BY <1>6, Fields DEF Kept
  <2>2. owner'[d] = owner[d]
    BY <1>1, <1>2 DEF TypeInv
  <2> QED
    BY <1>3, <2>1, <2>2, KeptBlock
<1>9. TypeInv'
  <2>1. smasher' \in [Index -> {"none", "there", "gone"}]
    BY <1>1, <1>2 DEF TypeInv, Gone
  <2>2. raced' \in BOOLEAN
    BY <1>2
  <2>3. owner' \in [Index -> CallStacks \cup {Null}] /\ hurt' \subseteq Index
    BY <1>1, <1>2 DEF TypeInv
  <2> QED
    BY <1>1, <1>3, <1>6, <2>1, <2>2, <2>3 DEF TypeInv
<1>10. HeadInv'
  BY <1>1, <1>6 DEF HeadInv
<1>11. BlockInv'
  <2>1. GoodBlock(b)'
    <3>1. Named(b)' /\ ~Broken(b)' /\ Word(b, Cs)' = owner'[b]
      BY <1>6, <1>7 DEF Named, Broken, Word
    <3>2. IsGoodHead(b)' /\ ~blurred' => Intact(b)'
      <4>1. IsGoodHead(b)' => IsGoodHead(b)
        BY <1>6 DEF IsGoodHead, Word
      <4>2. Intact(b) /\ IsGoodHead(b)' => Intact(b)'
        BY <1>6, <3>1 DEF Intact, Word
      <4> QED
        BY <1>1, <1>3, <4>1, <4>2 DEF BlockInv, GoodBlock
    <3> QED
      BY <1>2, <1>3, <3>1, <3>2 DEF GoodBlock
  <2>2. GoodBlock(c)'
    BY <1>6 DEF GoodBlock, IsGoodHead, Word
  <2>3. ASSUME NEW d \in Index \ {b, c} PROVE GoodBlock(d)'
    BY <1>1, <1>8 DEF BlockInv
  <2> QED
    BY <2>1, <2>2, <2>3 DEF BlockInv
<1>12. SmashInv'
  <2>1. ASSUME NEW d \in Index, smasher'[d] = "there"
        PROVE  d > 0 /\ block'[d - 1] # "free" /\ owner'[d - 1] \in culprits'
    <3>1. d # c
      BY <1>7, <2>1
    <3>2. smasher'[d] = Gone(b)[d]
      BY <1>2, <3>1 DEF Gone
    <3>3. smasher[d] = "there" /\ d # b + 1
      BY <2>1, <3>2 DEF Gone
    <3>4. d > 0 /\ block[d - 1] # "free" /\ owner[d - 1] \in culprits
      BY <1>1, <3>3 DEF SmashInv
    <3>5. d - 1 \in Index /\ d - 1 # b
      BY <3>3, <3>4, Basics
    <3>6. d - 1 # c
      BY <1>2, <3>4
    <3> QED
      BY <1>3, <1>8, <3>4, <3>5, <3>6
  <2> QED
    BY <2>1 DEF SmashInv
<1>13. HurtInv'
  <2>1. ASSUME NEW d \in hurt' PROVE Intact(d)' /\ Broken(d)'
    <3>1. d \in hurt /\ d \in Index \ {b, c}
      BY <1>1, <1>2 DEF TypeInv
    <3> QED
      BY <1>1, <1>8, <3>1 DEF HurtInv
  <2> QED
    BY <2>1 DEF HurtInv
<1>14. ScanInv'
  <2>1. ASSUME phase = "check", ~raced' PROVE mem'[it] = Head
    <3>1. BlockOf(it) # b /\ BlockOf(it) # c /\ ~raced
      BY <1>2, <2>1 DEF UnderScan
    <3>2. BlockOf(it) \in Index /\ it = First(BlockOf(it)) + HeadSentinel /\ mem[it] = Head
      BY <1>1, <2>1, <3>1, Checked DEF IsGoodHead, Word
    <3> QED
      BY <1>6, <3>1, <3>2, Fields
  <2>2. ASSUME NEW d \in hurt' PROVE d \in hurt /\ owner'[d] = owner[d]
    <3>1. d \in hurt /\ d \in Index \ {b, c}
      BY <1>1, <1>2 DEF TypeInv
    <3> QED
      BY <1>8, <3>1
  <2>3. raced => raced'
    BY <1>2
  <2> QED
    BY <1>1, <1>3, <2>1, <2>2, <2>3, CallScan
<1>15. DueInv' /\ BlameIsRight' /\ ExitSaves'
  BY <1>1, <1>2, <1>3 DEF DueInv, BlameIsRight, ExitSaves, Running
<1> QED
  BY <1>9, <1>10, <1>11, <1>12, <1>13, <1>14, <1>15 DEF EvidenceInv

-----------------------------------------------------------------------------
(* The end of the program *)

\* exit, and the steps of the scan, from one word to the next, and the saving.
LEMMA ExitStep ==
  ASSUME EvidenceInv, Exit \/ ScanOn \/ ScanHead \/ ScanEnd \/ Save
  PROVE  EvidenceInv'
<1>1. /\ TypeInv /\ HeadInv /\ BlockInv /\ SmashInv /\ HurtInv /\ ScanInv /\ DueInv
      /\ BlameIsRight /\ ExitSaves
  BY DEF EvidenceInv
<1>2. UNCHANGED <<mem, block, proven, owner, smasher, hurt, due, culprits, confused, astray,
                  blurred, raced, crashed>>
  BY DEF Exit, ScanOn, ScanHead, ScanEnd, Save, ghosts
<1>3. HeadInv' /\ BlockInv' /\ SmashInv' /\ HurtInv'
  BY <1>1, <1>2, SameHeap
<1>4. DueInv' /\ BlameIsRight'
  BY <1>1, <1>2 DEF DueInv, BlameIsRight
<1>5. phase' \in {"scan", "check", "save", "saved"}
  BY DEF Exit, ScanOn, ScanHead, ScanEnd, Save
<1>6. ExitSaves'
  BY <1>5 DEF ExitSaves
<1>7. TypeInv'
  <2>1. it' \in Nat /\ (phase' = "check" => it' < Limit)
    BY <1>1 DEF TypeInv, Exit, ScanOn, ScanHead, ScanEnd, Save
  <2> QED
    BY <1>1, <1>2, <1>5, <2>1 DEF TypeInv
<1>8. ASSUME NEW b \in hurt
      PROVE  /\ b \in Index /\ First(b) \in Nat /\ First(b) + HeadSentinel < Limit
             /\ mem[First(b) + HeadSentinel] = Head
  <2>1. b \in Index /\ mem[First(b) + HeadSentinel] = Head
    BY <1>1, HurtFound DEF IsGoodHead, Word
  <2>2. First(b) \in Nat /\ First(b) + HeadSentinel \in Memory
    BY <2>1, Place, Fields
  <2> QED
    BY <2>1, <2>2, Basics
<1>9. ASSUME ~blurred, ~raced, NEW b \in hurt
      PROVE  /\ phase' \in {"scan", "check"} /\ First(b) + HeadSentinel < it' => owner[b] \in proven
             /\ phase' = "save" => owner[b] \in proven
             /\ phase' = "saved" => owner[b] \in file'
  <2>1. /\ phase \in {"scan", "check"} /\ First(b) + HeadSentinel < it => owner[b] \in proven
        /\ phase = "save" => owner[b] \in proven
        /\ phase = "saved" => owner[b] \in file
    BY <1>1, <1>9 DEF ScanInv
  <2>2. First(b) \in Nat /\ First(b) + HeadSentinel < Limit /\ mem[First(b) + HeadSentinel] = Head
    BY <1>8
  <2>3. CASE Exit
    BY <1>1, <2>2, <2>3, Fields DEF Exit, TypeInv
  <2>4. CASE ScanOn
    BY <1>1, <2>1, <2>2, <2>4, Fields DEF ScanOn, TypeInv
  <2>5. CASE ScanHead
    BY <2>1, <2>5 DEF ScanHead
  <2>6. CASE ScanEnd
    BY <1>1, <2>1, <2>2, <2>6, Basics, Fields DEF ScanEnd, TypeInv
  <2>7. CASE Save
    BY <2>1, <2>7 DEF Save
  <2> QED
    BY <2>3, <2>4, <2>5, <2>6, <2>7
<1>10. phase' = "check" => mem'[it'] = Head
  BY <1>2 DEF Exit, ScanOn, ScanHead, ScanEnd, Save
<1>11. ScanInv'
  BY <1>2, <1>9, <1>10 DEF ScanInv
<1> QED
  BY <1>3, <1>4, <1>6, <1>7, <1>11 DEF EvidenceInv

\* The scan looks at an object.
LEMMA ScanCheckStep ==
  ASSUME EvidenceInv, ScanCheck
  PROVE  EvidenceInv'
<1>1. /\ TypeInv /\ HeadInv /\ BlockInv /\ SmashInv /\ HurtInv /\ ScanInv /\ DueInv
      /\ BlameIsRight /\ ExitSaves
  BY DEF EvidenceInv
<1>2. /\ UNCHANGED <<mem, block, file, owner, smasher, hurt, due, culprits, confused, astray,
                     blurred, raced, crashed>>
      /\ phase = "check"
  BY DEF ScanCheck, ghosts
<1>3. HeadInv' /\ BlockInv' /\ SmashInv' /\ HurtInv'
  BY <1>1, <1>2, SameHeap
<1>b. PICK b \in {BlockOf(it)} : TRUE
  OBVIOUS
<1>t. PICK tail \in {TailAddress(b)} : TRUE
  OBVIOUS
<1>4. \/ tail > Limit /\ phase' = "save" /\ proven' = proven /\ it' = it
      \/ tail \in Memory /\ IsGoodTail(b) /\ it' = tail + 1 /\ phase' = "scan" /\ proven' = proven
      \/ /\ tail \in Memory /\ ~IsGoodTail(b) /\ Word(b, Cs) \in CallStacks
         /\ proven' = proven \cup {Word(b, Cs)} /\ it' = it + 1 /\ phase' = "scan"
      \/ /\ tail < 0 \/ tail = Limit \/ (tail \in Memory /\ ~IsGoodTail(b) /\ Word(b, Cs) \notin CallStacks)
         /\ phase' = "lost" /\ proven' = proven /\ it' = it
  BY <1>b, <1>t DEF ScanCheck, Raise, Unscannable, AfterGood
<1>5. ~raced => /\ it \in Memory /\ b \in Index /\ it = First(b) + HeadSentinel /\ IsGoodHead(b)
  BY <1>1, <1>2, <1>b, Checked
<1>6. ASSUME ~raced, ~blurred
      PROVE  /\ Intact(b) /\ tail = First(b) + (Start + Size) /\ tail \in Memory 
             /\ ~(tail < 0) /\ tail # Limit /\ ~(tail > Limit)
             /\ Word(b, Cs) = owner[b] /\ owner[b] \in CallStacks \cup {Null}
  <2>1. Intact(b)
    BY <1>1, <1>5, <1>6 DEF BlockInv, GoodBlock
  <2>2. tail = First(b) + (Start + Size) /\ tail \in Memory
    BY <1>5, <1>6, <1>t, <2>1, TailPlace DEF Intact, Named
  <2>3. owner[b] \in CallStacks \cup {Null}
    BY <1>1, <1>5, <1>6 DEF TypeInv
  <2> QED
    BY <2>1, <2>2, <2>3, Basics DEF Intact, Named
<1>7. TypeInv'
  <2>1. it' \in Nat
    BY <1>1, <1>4, Basics DEF TypeInv
  <2> QED
    BY <1>1, <1>2, <1>4, <2>1 DEF TypeInv
<1>8. proven \subseteq proven'
  BY <1>4
<1>9. DueInv'
  BY <1>1, <1>2, <1>8 DEF DueInv
<1>10. BlameIsRight'
  <2>1. ASSUME ~raced, ~IsGoodTail(b), Word(b, Cs) \in CallStacks
        PROVE  Word(b, Cs) \in culprits \cup confused
    BY <1>1, <1>5, <2>1, BlamedRight
  <2> QED
    BY <1>1, <1>2, <1>4, <2>1 DEF BlameIsRight
<1>11. ExitSaves'
  <2>1. ASSUME ~raced, ~blurred, phase' = "lost" PROVE \E c \in Index : Unknown(c)'
    <3>1. tail \in Memory /\ ~IsGoodTail(b) /\ Word(b, Cs) = Null
      BY <1>4, <1>6, <2>1
    <3>2. Unknown(b)
      BY <1>5, <1>t, <2>1, <3>1 DEF Unknown
    <3>3. Unknown(b)'
      BY <1>2, <3>2 DEF Unknown, IsGoodHead, IsGoodTail, TailAddress, Word
    <3> QED
      BY <1>5, <2>1, <3>3
  <2> QED
    BY <1>2, <2>1 DEF ExitSaves
<1>12. ASSUME ~raced, ~blurred, NEW d \in hurt
       PROVE  /\ phase' = "scan" /\ First(d) + HeadSentinel < it' => owner[d] \in proven'
              /\ phase' \notin {"check", "save", "saved"}
  <2>1. First(d) + HeadSentinel < it => owner[d] \in proven
    BY <1>1, <1>2, <1>12 DEF ScanInv
  <2>2. d \in Index /\ Word(d, Cs) = owner[d] /\ ~IsGoodTail(d)
    BY <1>1, HurtFound
  <2>3. First(d) \in Nat /\ First(b) \in Nat /\ b \in Index
    BY <1>5, <1>12, <2>2, Place, Fields
  <2>4. CASE d < b
    <3>1. First(d) + BlockSize <= First(b)
      BY <1>5, <1>12, <2>2, <2>4, Order
    <3>2. First(d) + HeadSentinel < it
      BY <1>5, <1>12, <2>3, <3>1, Basics, Fields
    <3> QED
      BY <1>4, <1>6, <1>8, <1>12, <2>1, <3>2
  <2>5. CASE d = b
    BY <1>4, <1>6, <1>12, <2>2, <2>5
  <2>6. CASE b < d
    <3>1. First(b) + BlockSize <= First(d)
      BY <1>5, <1>12, <2>2, <2>6, Order
    <3>2. it' <= First(b) + BlockSize \/ phase' = "lost"
      <4>1. CASE it' = tail + 1
        <5>1. it' = First(b) + (Size + 4) + 1
          BY <1>6, <1>12, <4>1, Fields
        <5> QED
          BY <2>3, <5>1, Basics
      <4>2. CASE it' = it + 1
        <5>1. it' = First(b) + 4
          BY <1>5, <1>12, <2>3, <4>2, Fields
        <5> QED
          BY <2>3, <5>1, Basics
      <4> QED
        BY <1>4, <1>6, <1>12, <4>1, <4>2
    <3>3. it' \in Nat
      BY <1>7 DEF TypeInv
    <3>4. phase' = "scan" => ~(First(d) + HeadSentinel < it')
      BY <2>3, <3>1, <3>2, <3>3, Basics, Fields
    <3> QED
      BY <1>4, <1>6, <1>12, <3>4
  <2>7. b \in Int /\ d \in Int
    BY <2>2, <2>3, Basics
  <2> QED
    BY <2>4, <2>5, <2>6, <2>7
<1>13. ScanInv'
  <2>1. phase' # "check"
    BY <1>4
  <2> QED
    BY <1>2, <1>12, <2>1 DEF ScanInv
<1> QED
  BY <1>3, <1>7, <1>9, <1>10, <1>11, <1>13 DEF EvidenceInv

-----------------------------------------------------------------------------
(* The theorems *)

\* What holds when the program starts.
LEMMA InitInv ==
  ASSUME Init
  PROVE  EvidenceInv
<1>1. 0 # Head
  <2>1. 0 \in Index
    BY Basics
  <2>2. First(0) = 0 /\ First(0) + RealPtr \in Memory
    BY <2>1, Place, Fields, Basics DEF First
  <2> QED
    BY <2>2, Basics, Fields
<1>2. \A a \in Memory : mem[a] # Head
  BY <1>1 DEF Init
<1>3. TypeInv
  BY DEF Init, TypeInv
<1>4. HeadInv
  BY <1>2 DEF HeadInv
<1>5. BlockInv
  <2>1. ASSUME NEW b \in Index PROVE ~IsGoodHead(b)
    BY <1>2, Place, Fields DEF IsGoodHead, Word
  <2> QED
    BY <2>1 DEF BlockInv, GoodBlock
<1>6. SmashInv /\ HurtInv
  BY DEF Init, SmashInv, HurtInv
<1>7. ScanInv /\ DueInv /\ BlameIsRight /\ ExitSaves
  BY DEF Init, ScanInv, DueInv, BlameIsRight, ExitSaves
<1> QED
  BY <1>3, <1>4, <1>5, <1>6, <1>7 DEF EvidenceInv

\* Every step keeps the invariant.
LEMMA NextInv ==
  ASSUME EvidenceInv, [Next]_vars
  PROVE  EvidenceInv'
<1>1. CASE Malloc
  BY <1>1, MallocStep
<1>2. CASE Overflow
  BY <1>2, OverflowStep
<1>3. CASE Free
  BY <1>3, FreeStep
<1>4. CASE Realloc
  BY <1>4, ReallocStep
<1>5. CASE Exit \/ ScanOn \/ ScanHead \/ ScanEnd \/ Save
  BY <1>5, ExitStep
<1>6. CASE ScanCheck
  BY <1>6, ScanCheckStep
<1>7. CASE UNCHANGED vars
  <2>1. /\ TypeInv /\ HeadInv /\ BlockInv /\ SmashInv /\ HurtInv /\ ScanInv /\ DueInv
        /\ BlameIsRight /\ ExitSaves
    BY DEF EvidenceInv
  <2>2. UNCHANGED <<mem, block, proven, phase, it, file, owner, smasher, hurt, due, culprits,
                    confused, astray, blurred, raced, crashed>>
    BY <1>7 DEF vars, ghosts
  <2>3. HeadInv' /\ BlockInv' /\ SmashInv' /\ HurtInv'
    BY <2>1, <2>2, SameHeap
  <2>4. TypeInv' /\ ScanInv' /\ DueInv' /\ BlameIsRight'
    BY <2>1, <2>2 DEF TypeInv, ScanInv, DueInv, BlameIsRight
  <2>5. ExitSaves'
    BY <2>1, <2>2 DEF ExitSaves, Unknown, IsGoodHead, IsGoodTail, TailAddress, Word
  <2> QED
    BY <2>3, <2>4, <2>5 DEF EvidenceInv
<1> QED
  BY <1>1, <1>2, <1>3, <1>4, <1>5, <1>6, <1>7 DEF Next, Finalizer, Ended

(***************************************************************************)
(* However the application allocates, overflows, frees and reallocates,    *)
(* and whenever it exits or faults: a good head belongs to a live object   *)
(* whose header is its own unless it was overwritten in part, and a word   *)
(* that is not the canary behind it means that it has overflowed.          *)
(***************************************************************************)
THEOREM EvidenceInvariant == Spec => []EvidenceInv
<1>1. Init => EvidenceInv
  BY InitInv
<1>2. EvidenceInv /\ [Next]_vars => EvidenceInv'
  BY NextInv
<1> QED
  BY <1>1, <1>2, PTL DEF Spec

(***************************************************************************)
(* checkPointer and checkAllMemory blame the right call stacks: proven are *)
(* only those whose objects overflowed, or lost part of their header, as   *)
(* long as no object with a bad head is freed whose destroyer is gone.     *)
(***************************************************************************)
THEOREM BlameFallsRight == Spec => []BlameIsRight
<1>1. EvidenceInv => BlameIsRight
  BY DEF EvidenceInv
<1> QED
  BY <1>1, EvidenceInvariant, PTL

(***************************************************************************)
(* No overflow is missed: it is noticed when the object is freed, or by    *)
(* the scan of the heap at the exit, and is then in the history file.      *)
(***************************************************************************)
THEOREM OverflowsAreFound == Spec => []EvidenceFound
<1>1. EvidenceInv => EvidenceFound
  <2>1. SUFFICES ASSUME EvidenceInv PROVE EvidenceFound
    OBVIOUS
  <2>2. DueInv /\ ScanInv
    BY <2>1 DEF EvidenceInv
  <2>3. ASSUME phase = "saved", ~blurred, ~raced, NEW b \in hurt PROVE owner[b] \in file
    BY <2>2, <2>3 DEF ScanInv
  <2> QED
    BY <2>2, <2>3 DEF EvidenceFound, DueInv
<1> QED
  BY <1>1, EvidenceInvariant, PTL

(***************************************************************************)
(* finalizer saves the history, after a fault of the application too,      *)
(* unless the scan meets an overflowed object without a call stack, a      *)
(* header overwritten in part or under its eyes, or another thread faults. *)
(***************************************************************************)
THEOREM ExitsSave == Spec => []ExitSaves
<1>1. EvidenceInv => ExitSaves
  BY DEF EvidenceInv
<1> QED
  BY <1>1, EvidenceInvariant, PTL

-----------------------------------------------------------------------------
(* The scan gets ahead *)

\* The scan looks at an object from the place of a head.
AtHead == phase = "check" => \E b \in Index : it = First(b) + HeadSentinel

\* Every step keeps the scan at its place, or finds a head.
LEMMA AtHeadStep ==
  ASSUME EvidenceInv, AtHead, [Next]_vars
  PROVE  AtHead'
<1>1. CASE phase' = "check" /\ phase = "check" /\ it' = it
  BY <1>1 DEF AtHead
<1>2. CASE phase' # "check"
  BY <1>2 DEF AtHead
<1>3. CASE ScanHead
  <2>1. mem[it] = Head /\ it \in Memory /\ it' = it
    BY <1>3, Basics DEF ScanHead, EvidenceInv, TypeInv
  <2>2. \E b \in Index : it = First(b) + HeadSentinel
    BY <2>1 DEF EvidenceInv, HeadInv
  <2> QED
    BY <2>1, <2>2 DEF AtHead
<1>4. CASE Malloc \/ Overflow \/ Realloc
  <2>1. phase' = phase /\ it' = it
    BY <1>4 DEF Malloc, Overflow, Realloc
  <2> QED
    BY <1>1, <1>2, <2>1
<1>5. CASE Free
  <2>1. it' = it
    BY <1>5 DEF Free
  <2>2. PICK b \in Index : FreeGood(b) \/ FreeBad(b)
    BY <1>5 DEF Free
  <2>3. phase' = "check" => phase = "check"
    <3>1. Fault => (phase' = "check" => phase = "check")
      BY DEF Fault
    <3>2. Fault \/ UNCHANGED phase
      BY <2>2 DEF FreeGood, FreeBad
    <3> QED
      BY <3>1, <3>2
  <2> QED
    BY <1>1, <1>2, <2>1, <2>3
<1>6. CASE Exit \/ ScanOn \/ ScanEnd \/ Save \/ ScanCheck
  <2>1. phase' # "check"
    BY <1>6 DEF Exit, ScanOn, ScanEnd, Save, ScanCheck
  <2> QED
    BY <1>2, <2>1
<1>7. CASE UNCHANGED vars
  BY <1>7, <1>1, <1>2 DEF vars
<1> QED
  BY <1>3, <1>4, <1>5, <1>6, <1>7 DEF Next, Finalizer, Ended

\* A step that moves the scan moves it on, or follows a size that leads back.
LEMMA AheadStep ==
  ASSUME EvidenceInv, AtHead, [Next]_vars, it' # it
  PROVE  it' > it \/ Word(BlockOf(it), ObjectSize) \notin Nat
<1>1. it \in Nat
  BY DEF EvidenceInv, TypeInv
<1>2. ScanOn \/ ScanCheck
  BY DEF Next, Finalizer, Ended, Malloc, Overflow, Free, Realloc, Exit, ScanHead, ScanEnd, Save,
         vars
<1>3. CASE ScanOn
  BY <1>1, <1>3 DEF ScanOn
<1>4. CASE ScanCheck
  <2>1. PICK b \in Index : it = First(b) + HeadSentinel
    BY <1>4 DEF AtHead, ScanCheck
  <2>2. BlockOf(it) = b /\ First(b) \in Nat
    BY <2>1, Place, Fields
  <2>3. it' = it + 1 \/ it' = AfterGood(TailAddress(b))
    BY <1>4, <2>2 DEF ScanCheck
  <2>4. Word(b, ObjectSize) \in Nat => AfterGood(TailAddress(b)) > it
    BY <2>1, <2>2, Fields DEF AfterGood, TailAddress
  <2> QED
    BY <1>1, <2>2, <2>3, <2>4
<1> QED
  BY <1>2, <1>3, <1>4

(***************************************************************************)
(* checkAllMemory goes forwards only, whatever headers it meets and others *)
(* write meanwhile: no step takes it back, unless the size it jumps by is  *)
(* one that an overflow has made a negative offset.  As it stops at the    *)
(* end of the mapping, that is why it ends.                                *)
(***************************************************************************)
THEOREM ScanGetsAhead ==
  Spec => [][it' # it => it' > it \/ Word(BlockOf(it), ObjectSize) \notin Nat]_vars
<1> DEFINE Ahead == it' # it => it' > it \/ Word(BlockOf(it), ObjectSize) \notin Nat
<1>1. Init => AtHead
  BY DEF Init, AtHead
<1>2. EvidenceInv /\ AtHead /\ [Next]_vars => AtHead'
  BY AtHeadStep
<1>3. EvidenceInv /\ AtHead /\ [Next]_vars => [Ahead]_vars
  BY AheadStep
<1> HIDE DEF Ahead
<1>4. Spec => [][Ahead]_vars
  BY <1>1, <1>2, <1>3, EvidenceInvariant, PTL DEF Spec
<1> QED
  BY <1>4 DEF Ahead

=============================================================================
