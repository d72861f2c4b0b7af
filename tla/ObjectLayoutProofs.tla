-------------------------- MODULE ObjectLayoutProofs --------------------------
(***************************************************************************)
(* Proofs about ObjectLayout: wherever the allocators put their blocks and *)
(* whatever is asked for, objects stay inside their blocks, every block    *)
(* has one object, and the pointers are as promised.                       *)
(***************************************************************************)
EXTENDS ObjectLayout, FiniteSetTheorems, TLAPS

-----------------------------------------------------------------------------
(* The inductive invariant *)

ObjectType ==
  [real : Nat, start : Nat, size : Nat, asked : Nat, alignment : Nat,
   aligned : BOOLEAN, wrapped : BOOLEAN, inplace : BOOLEAN, kept : BOOLEAN]

\* The sets of the two allocators: blocks lie in the heap, and chunks one after the other in
\* what the buffer has given away.
SpaceInv ==
  /\ libInitialized \in BOOLEAN
  /\ crashed \in BOOLEAN
  /\ ~crashed =>
       /\ allocated \in Nat /\ allocated <= InitialMallocSize /\ allocated % Word = 0
       /\ \A c \in chunks : c.base + c.cap <= Buf + allocated
  /\ chunks \subseteq [base : Nat, cap : Nat]
  /\ blocks \subseteq [base : Nat, cap : Nat]
  /\ objects \subseteq ObjectType
  /\ \A c \in chunks : Buf <= c.base /\ c.base + c.cap <= Buf + InitialMallocSize
  /\ \A b, c \in chunks : b = c \/ Apart(b, c)
  /\ \A b \in blocks : HeapStart <= b.base /\ 0 < b.cap
  /\ \A b, c \in blocks : b = c \/ Apart(b, c)

\* What a block of cap bytes has room for: an object and its canary behind its header, and,
\* after a realloc in place of an object with a padded header, behind a plain one.
FitsBlock(o, b) ==
  /\ o.wrapped => o.aligned
  /\ ~o.wrapped =>
       /\ Header + o.size + Word <= b.cap
       /\ \/ o.inplace /\ o.start # o.real + Header
          \/ o.start + o.size + Word <= b.base + b.cap

FitsChunk(o) ==
  /\ InBuf(o.real) /\ InBuf(o.start)
  /\ \/ o.inplace
     \/ \E c \in chunks : c.base = o.real /\ o.start + o.size + Word <= c.base + c.cap

\* An object whose size tempmalloc has cut off; with it everything ends.
Strays(o) == crashed /\ InBuf(o.real) /\ TooLargeForInt(o.size)

\* Where an object lies.
PlaceInv ==
  \A o \in objects :
    /\ o.real + Header <= o.start
    /\ \/ FitsChunk(o)
       \/ Strays(o)
       \/ \E b \in blocks : b.base = o.real /\ FitsBlock(o, b)

\* One object to a block.
OwnerInv ==
  /\ \A b \in blocks : \E o \in objects : o.real = b.base
  /\ \A o, n \in objects : o.real = n.real /\ ~InBuf(o.real) => o = n

LayoutInv == SpaceInv /\ PlaceInv /\ OwnerInv /\ AsAsked

-----------------------------------------------------------------------------
(* Arithmetic *)

\* What division with remainder is.
LEMMA Division ==
  ASSUME NEW n \in Nat, NEW a \in Nat, a >= 1
  PROVE  /\ n \div a \in Nat /\ n % a \in Nat /\ n % a < a
         /\ n = (n \div a) * a + (n % a)
<1>1. n \div a \in Int /\ n % a \in Int /\ 0 <= n % a /\ n % a < a
  BY SMT
<1>2. n \div a >= 0
  BY SMT
<1>3. n = (n \div a) * a + (n % a)
  BY SMT
<1> QED
  BY <1>1, <1>2, <1>3

\* A multiple leaves no remainder.
LEMMA MultipleOf ==
  ASSUME NEW q \in Nat, NEW a \in Nat, a >= 1
  PROVE  q * a \in Nat /\ (q * a) % a = 0
<1>1. q * a \in Nat
  BY SMT
<1>2. (q * a) % a = 0
  BY SMT
<1> QED
  BY <1>1, <1>2

\* Rounding up gives the next multiple.
LEMMA RoundUpIsMultiple ==
  ASSUME NEW n \in Nat, NEW a \in Nat, a >= 1
  PROVE  RoundUp(n, a) \in Nat /\ n <= RoundUp(n, a) /\ RoundUp(n, a) % a = 0
<1> DEFINE q == (n + a - 1) \div a
<1>1. n + a - 1 \in Nat
  OBVIOUS
<1>2. q \in Nat /\ (n + a - 1) % a \in Nat /\ (n + a - 1) % a < a
      /\ n + a - 1 = q * a + ((n + a - 1) % a)
  BY <1>1, Division
<1>3. q * a \in Nat /\ (q * a) % a = 0
  BY <1>2, MultipleOf
<1> HIDE DEF q
<1>4. n <= q * a
  <2>1. ASSUME NEW m \in Nat, NEW r \in Nat, r < a, n + a - 1 = m + r PROVE n <= m
    BY <2>1
  <2> QED
    BY <1>2, <1>3, <2>1
<1> QED
  BY <1>3, <1>4 DEF RoundUp, q

\* Sums of multiples are multiples.
LEMMA SumOfMultiples ==
  ASSUME NEW x \in Nat, NEW y \in Nat, NEW a \in Nat, a >= 1, x % a = 0, y % a = 0
  PROVE  (x + y) % a = 0
<1>1. x = (x \div a) * a /\ y = (y \div a) * a /\ x \div a \in Nat /\ y \div a \in Nat
  BY Division
<1> DEFINE p == x \div a
           q == y \div a
<1>2. p \in Nat /\ q \in Nat /\ x = p * a /\ y = q * a
  BY <1>1
<1> HIDE DEF p, q
<1>3. p + q \in Nat /\ x + y = (p + q) * a
  BY <1>2, SMT
<1> QED
  BY <1>3, MultipleOf

\* A multiple of a multiple is a multiple.
LEMMA MultiplesAreTransitive ==
  ASSUME NEW x \in Nat, NEW b \in Nat, NEW a \in Nat, a >= 1, b >= 1, x % b = 0, b % a = 0
  PROVE  x % a = 0
<1> DEFINE p == x \div b
           q == b \div a
<1>1. p \in Nat /\ q \in Nat /\ x = p * b /\ b = q * a
  BY Division
<1> HIDE DEF p, q
<1>2. p * q \in Nat /\ x = (p * q) * a
  BY <1>1, SMT
<1> QED
  BY <1>2, MultipleOf

\* A number below the modulus is not cut off.
LEMMA NotCut ==
  ASSUME NEW n \in Nat, NEW m \in Nat, m >= 1, n < m
  PROVE  n % m = n
  BY SMT

\* What is cut off is no larger.
LEMMA CutIsSmaller ==
  ASSUME NEW n \in Nat, NEW m \in Nat, m >= 1
  PROVE  n % m \in Nat /\ n % m < m /\ n % m <= n
  BY SMT

-----------------------------------------------------------------------------
(* The allocators and the guard *)

\* What the constants are.
LEMMA Constants ==
  /\ Modulus \in Nat /\ Modulus >= 1 /\ Word \in Nat /\ Word >= 1
  /\ Header \in Nat /\ Header >= 1 /\ Granule \in Nat /\ Granule >= 1
  /\ PageBytes \in Nat /\ PageBytes >= 1
  /\ Buf \in Nat /\ Buf % Word = 0 /\ InitialMallocSize \in Nat
  /\ HeapStart \in Nat /\ HeapEnd \in Nat /\ Buf + InitialMallocSize < HeapStart
  /\ Header % Granule = 0 /\ Granule % Word = 0 /\ Header % Word = 0
  /\ Header + Word <= Modulus \div 2
<1>1. /\ Modulus \in Nat /\ Modulus >= 1 /\ Word \in Nat /\ Word >= 1
      /\ Header \in Nat /\ Header >= 1 /\ Granule \in Nat /\ Granule >= 1
      /\ PageBytes \in Nat /\ PageBytes >= 1
      /\ Buf \in Nat /\ InitialMallocSize \in Nat /\ HeapStart \in Nat /\ HeapEnd \in Nat
  BY LayoutAssumption
<1>2. Header % Word = 0
  <2>1. Header % Granule = 0 /\ Granule % Word = 0
    BY LayoutAssumption
  <2> QED
    BY ONLY <1>1, <2>1, MultiplesAreTransitive, Zenon
<1> QED
  BY <1>1, <1>2, LayoutAssumption

\* A block of the real allocator has room for what it was asked for and lies apart from the
\* others.
LEMMA RealBlock ==
  ASSUME NEW n \in Nat, NEW a \in Nat, a >= 1, NEW b \in RealBlocks(n, a)
  PROVE  /\ b \in [base : Nat, cap : Nat]
         /\ HeapStart <= b.base /\ 0 < b.cap /\ n <= b.cap
         /\ b.base % a = 0 /\ b.base % Granule = 0
         /\ \A c \in blocks : Apart(b, c)
<1>1. RoundUp(n, Granule) \in Nat /\ n <= RoundUp(n, Granule)
  BY RoundUpIsMultiple, Constants
<1>2. /\ b.base \in HeapStart..HeapEnd /\ b.base % a = 0 /\ b.base % Granule = 0
      /\ b.cap \in {RoundUp(n, Granule), RoundUp(n, Granule) + Granule}
      /\ b \in [base : {x \in HeapStart..HeapEnd : x % a = 0 /\ x % Granule = 0},
                cap  : {RoundUp(n, Granule), RoundUp(n, Granule) + Granule}]
  BY DEF RealBlocks
<1>3. b.base \in Nat /\ HeapStart <= b.base
  BY <1>2, Constants
<1>4. b.cap \in Nat /\ n <= b.cap
  BY <1>1, <1>2, Constants
<1>5. 0 < b.cap /\ \A c \in blocks : Apart(b, c)
  BY DEF RealBlocks
<1>6. b = [base |-> b.base, cap |-> b.cap]
  BY <1>2
<1> QED
  BY <1>2, <1>3, <1>4, <1>5, <1>6

\* A chunk is the next part of the buffer.
LEMMA TempChunk ==
  ASSUME SpaceInv, ~crashed, NEW n \in Nat, n >= 1, NEW b \in TempChunks(n)
  PROVE  /\ b \in [base : Nat, cap : Nat]
         /\ b.base = Buf + allocated /\ b.cap % Word = 0 /\ b.base % Word = 0
         /\ n <= b.cap /\ allocated + b.cap <= InitialMallocSize
<1>1. /\ RoundUp(n, Word) \in Nat /\ n <= RoundUp(n, Word) /\ RoundUp(n, Word) % Word = 0
  BY RoundUpIsMultiple, Constants
<1>2. b = [base |-> Buf + allocated, cap |-> RoundUp(n, Word)]
      /\ allocated + RoundUp(n, Word) <= InitialMallocSize
  BY DEF TempChunks
<1>3. allocated \in Nat /\ allocated % Word = 0
  BY DEF SpaceInv
<1>4. Buf + allocated \in Nat /\ (Buf + allocated) % Word = 0
  <2>1. /\ Buf \in Nat /\ allocated \in Nat /\ Word \in Nat /\ Word >= 1
        /\ Buf % Word = 0 /\ allocated % Word = 0
    BY <1>3, Constants
  <2>2. (Buf + allocated) % Word = 0
    BY ONLY <2>1, SumOfMultiples, Zenon
  <2> QED
    BY <2>1, <2>2
<1>5. b.base = Buf + allocated /\ b.cap = RoundUp(n, Word)
  BY <1>2
<1>6. b \in [base : Nat, cap : Nat]
  BY <1>1, <1>2, <1>4
<1> QED
  BY <1>1, <1>2, <1>4, <1>5, <1>6

\* malloc accepts no size that wraps around with the header and the canary.
LEMMA AcceptedFits ==
  ASSUME NEW sz \in Nat, Accepted(sz)
  PROVE  /\ sz + Header + Word < Modulus
         /\ RealSize(sz, Header) = sz + Header + Word
         /\ RealSize(sz, Header) \in Nat /\ RealSize(sz, Header) >= 1
<1>1. (Modulus \div 2) \in Nat /\ Modulus = (Modulus \div 2) * 2 + (Modulus % 2) /\ Modulus % 2 \in Nat
  BY Division, Constants
<1>2. sz < Modulus \div 2 /\ Header + Word <= Modulus \div 2
  BY Constants DEF Accepted
<1>3. sz + Header + Word < Modulus /\ sz + Header + Word \in Nat /\ sz + Header + Word >= 1
  BY <1>1, <1>2, Constants
<1>4. RealSize(sz, Header) = sz + Header + Word
  BY <1>3, NotCut, Constants DEF RealSize
<1> QED
  BY <1>3, <1>4

-----------------------------------------------------------------------------
(* What a step does to the layout *)

\* Blocks that go with the objects of a set.
Gone(old) == {b \in blocks : \E o \in old : ~InBuf(o.start) /\ b.base = o.real}

\* The blocks that a single object frees.
LEMMA GoneOfOne ==
  ASSUME NEW o PROVE Gone({o}) = Freed(o)
  BY DEF Gone, Freed, RealPtr

\* Only blocks have addresses in the heap.
LEMMA HeapOrBuffer ==
  ASSUME SpaceInv, PlaceInv, ~crashed, NEW o \in objects
  PROVE  /\ InBuf(o.real) <=> InBuf(o.start)
         /\ InBuf(o.real) <=> FitsChunk(o)
         /\ \A b \in blocks : ~InBuf(b.base)
         /\ \A c \in chunks : InBuf(c.base)
<1>1. \A b \in blocks : ~InBuf(b.base)
  BY Constants DEF SpaceInv, InBuf
<1>2. \A c \in chunks : InBuf(c.base)
  BY Constants DEF SpaceInv, InBuf
<1>3. o.real \in Nat /\ o.start \in Nat /\ o.real + Header <= o.start
  BY DEF SpaceInv, PlaceInv, ObjectType
<1>4. CASE FitsChunk(o)
  BY <1>1, <1>2, <1>4 DEF FitsChunk
<1>5. CASE ~FitsChunk(o)
  <2>1. PICK b \in blocks : b.base = o.real
    BY <1>5 DEF PlaceInv, Strays
  <2>2. HeapStart <= o.real
    BY <2>1 DEF SpaceInv
  <2>3. ~InBuf(o.real) /\ ~InBuf(o.start)
    BY <1>3, <2>2, Constants DEF InBuf
  <2> QED
    BY <1>1, <1>2, <1>5, <2>3
<1> QED
  BY <1>4, <1>5

\* What is asked of a new object.
Proper(n) ==
  /\ n \in ObjectType /\ n.real + Header <= n.start
  /\ n.asked <= n.size \/ (n.wrapped /\ n.aligned)
  /\ n.start % n.alignment = 0

\* Objects that stay keep their blocks.
LEMMA OthersStay ==
  ASSUME LayoutInv, ~crashed, NEW old \in SUBSET objects, NEW o \in objects \ old
  PROVE  FitsChunk(o) \/ \E b \in blocks \ Gone(old) : b.base = o.real /\ FitsBlock(o, b)
<1> USE DEF LayoutInv
<1>1. CASE ~FitsChunk(o)
  <2>1. PICK b \in blocks : b.base = o.real /\ FitsBlock(o, b)
    BY <1>1 DEF PlaceInv, Strays
  <2>2. b \notin Gone(old)
    <3> SUFFICES ASSUME NEW m \in old, b.base = m.real PROVE FALSE
      BY DEF Gone
    <3>1. ~InBuf(o.real) /\ o.real = m.real /\ m \in objects
      BY <2>1, HeapOrBuffer
    <3> QED
      BY <3>1 DEF OwnerInv
  <2> QED
    BY <2>1, <2>2
<1> QED
  BY <1>1

\* A block whose object stays, stays; and each block that stays has an object that stays.
LEMMA OwnersStay ==
  ASSUME LayoutInv, ~crashed, NEW old \in SUBSET objects, NEW b \in blocks \ Gone(old)
  PROVE  \E o \in objects \ old : o.real = b.base
<1> USE DEF LayoutInv
<1>1. PICK o \in objects : o.real = b.base
  BY DEF OwnerInv
<1>2. ~InBuf(o.real) /\ ~InBuf(o.start)
  BY <1>1, HeapOrBuffer
<1>3. o \notin old
  BY <1>1, <1>2 DEF Gone
<1> QED
  BY <1>1, <1>3

\* Objects are freed, with their blocks.
LEMMA FreeStep ==
  ASSUME LayoutInv, ~crashed, NEW old \in SUBSET objects,
         blocks' = blocks \ Gone(old), objects' = objects \ old,
         UNCHANGED <<chunks, allocated, libInitialized, crashed>>
  PROVE  LayoutInv'
<1> USE DEF LayoutInv
<1>1. SpaceInv'
  BY DEF SpaceInv, Apart
<1>2. PlaceInv'
  <2> SUFFICES ASSUME NEW o \in objects'
               PROVE  /\ o.real + Header <= o.start
                      /\ \/ FitsChunk(o)' \/ Strays(o)'
                         \/ \E b \in blocks' : b.base = o.real /\ FitsBlock(o, b)
    BY DEF PlaceInv, FitsBlock
  <2>1. FitsChunk(o) => FitsChunk(o)'
    BY DEF FitsChunk
  <2> QED
    BY <2>1, OthersStay DEF PlaceInv
<1>3. OwnerInv'
  BY OwnersStay DEF OwnerInv
<1>4. AsAsked'
  BY DEF AsAsked
<1> QED
  BY <1>1, <1>2, <1>3, <1>4

\* A new object gets a block that lies apart from the others, and maybe old ones go.
LEMMA HeapStep ==
  ASSUME LayoutInv, ~crashed, NEW old \in SUBSET objects, NEW b, NEW n,
         b \in [base : Nat, cap : Nat], HeapStart <= b.base, 0 < b.cap,
         \A c \in blocks : Apart(b, c),
         n.real = b.base, Proper(n), FitsBlock(n, b),
         blocks' = (blocks \ Gone(old)) \cup {b}, objects' = (objects \ old) \cup {n},
         UNCHANGED <<chunks, allocated, libInitialized, crashed>>
  PROVE  LayoutInv'
<1> USE DEF LayoutInv
<1>1. SpaceInv'
  <2>1. \A c, d \in blocks' : c = d \/ Apart(c, d)
    BY DEF SpaceInv, Apart
  <2>2. objects' \subseteq ObjectType
    BY DEF SpaceInv, Proper
  <2> QED
    BY <2>1, <2>2 DEF SpaceInv
<1>2. PlaceInv'
  <2> SUFFICES ASSUME NEW o \in objects'
               PROVE  /\ o.real + Header <= o.start
                      /\ \/ FitsChunk(o)' \/ Strays(o)'
                         \/ \E c \in blocks' : c.base = o.real /\ FitsBlock(o, c)
    BY DEF PlaceInv, FitsBlock
  <2>1. CASE o = n
    BY <2>1 DEF Proper
  <2>2. CASE o \in objects \ old
    <3>1. FitsChunk(o) => FitsChunk(o)'
      BY DEF FitsChunk
    <3> QED
      BY <2>2, <3>1, OthersStay DEF PlaceInv
  <2> QED
    BY <2>1, <2>2
<1>3. \A c \in blocks : c.base # b.base
  BY Constants DEF SpaceInv, Apart
<1>4. \A o \in objects : ~InBuf(o.real) => o.real # b.base
  BY <1>3 DEF PlaceInv, FitsChunk, Strays
<1>5. OwnerInv'
  <2>1. \A c \in blocks' : \E o \in objects' : o.real = c.base
    BY OwnersStay
  <2>2. \A o, m \in objects' : o.real = m.real /\ ~InBuf(o.real) => o = m
    BY <1>4 DEF OwnerInv
  <2> QED
    BY <2>1, <2>2 DEF OwnerInv
<1>6. AsAsked'
  BY DEF AsAsked, Proper
<1> QED
  BY <1>1, <1>2, <1>5, <1>6

\* The buffer gives away its next chunk.
LEMMA ChunkStep ==
  ASSUME SpaceInv, ~crashed, NEW b, b \in [base : Nat, cap : Nat], b.base = Buf + allocated,
         b.cap % Word = 0, allocated + b.cap <= InitialMallocSize,
         chunks' = chunks \cup {b}, allocated' = allocated + b.cap,
         UNCHANGED <<libInitialized, crashed>>, blocks' \subseteq blocks,
         objects' \subseteq ObjectType
  PROVE  SpaceInv'
<1>1. b.cap \in Nat /\ b.base \in Nat /\ allocated \in Nat /\ allocated % Word = 0
  BY DEF SpaceInv
<1>2. allocated' \in Nat /\ allocated' <= InitialMallocSize /\ allocated' % Word = 0
  BY <1>1, SumOfMultiples, Constants
<1>3. \A c \in chunks' : /\ c \in [base : Nat, cap : Nat] /\ Buf <= c.base
                          /\ c.base + c.cap <= Buf + allocated'
                          /\ c.base + c.cap <= Buf + InitialMallocSize
  <2> SUFFICES ASSUME NEW c \in chunks'
               PROVE  /\ c \in [base : Nat, cap : Nat] /\ Buf <= c.base
                      /\ c.base + c.cap <= Buf + allocated'
                      /\ c.base + c.cap <= Buf + InitialMallocSize
    OBVIOUS
  <2>1. CASE c = b
    BY <1>1, <2>1, Constants
  <2>2. CASE c \in chunks
    <3>1. c \in [base : Nat, cap : Nat] /\ Buf <= c.base /\ c.base + c.cap <= Buf + allocated
      BY <2>2 DEF SpaceInv
    <3> QED
      BY <1>1, <3>1, Constants
  <2> QED
    BY <2>1, <2>2
<1>4. \A c \in chunks : c.base + c.cap <= b.base
  BY DEF SpaceInv
<1>5. \A c, d \in chunks' : c = d \/ Apart(c, d)
  BY <1>4 DEF SpaceInv, Apart
<1> QED
  BY <1>2, <1>3, <1>5 DEF SpaceInv, Apart

\* A new object gets a chunk, and maybe old ones go, with their blocks.
LEMMA TempStep ==
  ASSUME LayoutInv, ~crashed, NEW old \in SUBSET objects, NEW b, NEW n,
         b \in [base : Nat, cap : Nat], b.base = Buf + allocated,
         b.cap % Word = 0, allocated + b.cap <= InitialMallocSize,
         n.real = b.base, Proper(n), n.start + n.size + Word <= b.base + b.cap,
         chunks' = chunks \cup {b}, allocated' = allocated + b.cap,
         blocks' = blocks \ Gone(old), objects' = (objects \ old) \cup {n},
         UNCHANGED <<libInitialized, crashed>>
  PROVE  LayoutInv'
<1> USE DEF LayoutInv
<1>1. SpaceInv'
  <2>1. objects' \subseteq ObjectType
    BY DEF SpaceInv, Proper
  <2> QED
    BY <2>1, ChunkStep
<1>2. InBuf(n.real) /\ InBuf(n.start)
  <2>1. /\ n.real \in Nat /\ n.start \in Nat /\ n.size \in Nat /\ b.cap \in Nat
        /\ n.real + Header <= n.start /\ allocated \in Nat
    BY DEF SpaceInv, Proper, ObjectType
  <2>2. Buf <= n.real /\ n.real <= n.start /\ n.start <= Buf + InitialMallocSize
    BY <2>1, Constants
  <2> QED
    BY <2>1, <2>2, Constants DEF InBuf
<1>3. PlaceInv'
  <2> SUFFICES ASSUME NEW o \in objects'
               PROVE  /\ o.real + Header <= o.start
                      /\ \/ FitsChunk(o)' \/ Strays(o)'
                         \/ \E c \in blocks' : c.base = o.real /\ FitsBlock(o, c)
    BY DEF PlaceInv, FitsBlock
  <2>1. CASE o = n
    BY <1>2, <2>1 DEF Proper, FitsChunk
  <2>2. CASE o \in objects \ old
    <3>1. FitsChunk(o) => FitsChunk(o)'
      BY DEF FitsChunk
    <3> QED
      BY <2>2, <3>1, OthersStay DEF PlaceInv
  <2> QED
    BY <2>1, <2>2
<1>4. OwnerInv'
  <2>1. \A c \in blocks' : \E o \in objects' : o.real = c.base
    BY OwnersStay
  <2>2. \A o, m \in objects' : o.real = m.real /\ ~InBuf(o.real) => o = m
    BY <1>2 DEF OwnerInv
  <2> QED
    BY <2>1, <2>2 DEF OwnerInv
<1>5. AsAsked'
  BY DEF AsAsked, Proper
<1> QED
  BY <1>1, <1>3, <1>4, <1>5

\* An object is replaced by one in the same place.
LEMMA KeepStep ==
  ASSUME LayoutInv, ~crashed, NEW o \in objects, NEW n, n.real = o.real, n.start = o.start, Proper(n),
         n.inplace, n.wrapped = o.wrapped, n.aligned = o.aligned,
         \A b \in blocks : b.base = o.real /\ FitsBlock(o, b) => FitsBlock(n, b),
         blocks' = blocks, chunks \subseteq chunks', SpaceInv',
         objects' = (objects \ {o}) \cup {n}
  PROVE  LayoutInv'
<1> USE DEF LayoutInv
<1>1. PlaceInv'
  <2> SUFFICES ASSUME NEW m \in objects'
               PROVE  /\ m.real + Header <= m.start
                      /\ \/ FitsChunk(m)' \/ Strays(m)'
                         \/ \E c \in blocks' : c.base = m.real /\ FitsBlock(m, c)
    BY DEF PlaceInv, FitsBlock
  <2>1. CASE m = n
    BY <2>1 DEF Proper, FitsChunk, PlaceInv, Strays
  <2>2. CASE m \in objects
    BY <2>2 DEF PlaceInv, FitsChunk, Strays
  <2> QED
    BY <2>1, <2>2
<1>2. OwnerInv'
  <2>1. \A c \in blocks' : \E m \in objects' : m.real = c.base
    BY DEF OwnerInv
  <2>2. \A m, k \in objects' : m.real = k.real /\ ~InBuf(m.real) => m = k
    BY DEF OwnerInv
  <2> QED
    BY <2>1, <2>2 DEF OwnerInv
<1>3. AsAsked'
  BY DEF AsAsked, Proper
<1> QED
  BY <1>1, <1>2, <1>3

-----------------------------------------------------------------------------
(* The operations *)

\* An object as malloc makes it.
Plain(n, b, sz, asked) ==
  /\ n \in ObjectType
  /\ n.real = b.base /\ n.start = b.base + Header /\ n.size = sz /\ n.asked = asked
  /\ n.alignment = (IF InBuf(b.base) THEN Word ELSE Granule)
  /\ n.wrapped = (sz + Header + Word >= Modulus)
  /\ ~n.aligned

\* Guarded makes such objects of a plain header.
LEMMA GuardedIsPlain ==
  ASSUME NEW b \in [base : Nat, cap : Nat], NEW sz \in Nat, NEW asked \in Nat
  PROVE  Plain(Guarded(b, Header, sz, asked), b, sz, asked)
<1> DEFINE n == Guarded(b, Header, sz, asked)
           wraps == sz + Header + Word >= Modulus
<1>1. n.real = b.base /\ n.start = b.base + Header /\ n.size = sz /\ n.asked = asked
      /\ n.alignment = (IF InBuf(b.base) THEN Word ELSE Granule) /\ n.aligned = FALSE
  BY DEF Guarded
<1>2. n.wrapped = wraps
  BY DEF Guarded
<1>3. n \in ObjectType
  BY Constants DEF Guarded, ObjectType
<1> QED
  BY <1>1, <1>2, <1>3, Zenon DEF Plain

\* In a block of the heap it fits and is aligned.
LEMMA PlainInHeap ==
  ASSUME NEW sz \in Nat, NEW asked \in Nat, Accepted(sz), asked <= sz,
         NEW b \in RealBlocks(RealSize(sz, Header), Granule), NEW n, Plain(n, b, sz, asked)
  PROVE  Proper(n) /\ FitsBlock(n, b)
<1>1. /\ b \in [base : Nat, cap : Nat] /\ HeapStart <= b.base
      /\ sz + Header + Word <= b.cap /\ b.base % Granule = 0
  BY RealBlock, AcceptedFits, Constants
<1>2. b.base \in Nat /\ b.cap \in Nat
  BY <1>1
<1>3. ~InBuf(b.base)
  BY <1>1, <1>2, Constants DEF InBuf
<1>4. (b.base + Header) % Granule = 0
  <2>1. /\ b.base \in Nat /\ Header \in Nat /\ Granule \in Nat /\ Granule >= 1
        /\ b.base % Granule = 0 /\ Header % Granule = 0
    BY <1>1, <1>2, Constants
  <2> QED
    BY ONLY <2>1, SumOfMultiples, Zenon
<1>5. n.start % n.alignment = 0
  BY <1>3, <1>4 DEF Plain
<1>6. Proper(n)
  <2>1. n \in ObjectType /\ n.real + Header <= n.start /\ n.asked <= n.size
    BY <1>2, Constants DEF Plain
  <2> QED
    BY <1>5, <2>1 DEF Proper
<1>7. ~n.wrapped
  <2>1. ~(sz + Header + Word >= Modulus)
    BY AcceptedFits, Constants
  <2>2. n.wrapped = (sz + Header + Word >= Modulus)
    BY DEF Plain
  <2> QED
    BY ONLY <2>1, <2>2, Zenon
<1>8. FitsBlock(n, b)
  BY <1>1, <1>2, <1>7, Constants DEF Plain, FitsBlock
<1> QED
  BY <1>6, <1>8

\* So it does in a chunk of the buffer.
LEMMA PlainInBuffer ==
  ASSUME SpaceInv, ~crashed, NEW sz \in Nat, NEW asked \in Nat, Accepted(sz), asked <= sz,
         NEW b \in TempChunks(RealSize(sz, Header)), NEW n, Plain(n, b, sz, asked)
  PROVE  Proper(n) /\ n.start + n.size + Word <= b.base + b.cap
<1>1. /\ b \in [base : Nat, cap : Nat] /\ b.base = Buf + allocated
      /\ sz + Header + Word <= b.cap /\ b.base % Word = 0
      /\ allocated + b.cap <= InitialMallocSize
  BY TempChunk, AcceptedFits
<1>2. b.base \in Nat /\ b.cap \in Nat /\ allocated \in Nat
  BY <1>1 DEF SpaceInv
<1>3. InBuf(b.base)
  BY <1>1, <1>2, Constants DEF InBuf
<1>4. (b.base + Header) % Word = 0
  <2>1. /\ b.base \in Nat /\ Header \in Nat /\ Word \in Nat /\ Word >= 1
        /\ b.base % Word = 0 /\ Header % Word = 0
    BY <1>1, <1>2, Constants
  <2> QED
    BY ONLY <2>1, SumOfMultiples, Zenon
<1>5. n.start % n.alignment = 0
  BY <1>3, <1>4 DEF Plain
<1>6. Proper(n)
  <2>1. n \in ObjectType /\ n.real + Header <= n.start /\ n.asked <= n.size
    BY <1>2, Constants DEF Plain
  <2> QED
    BY <1>5, <2>1 DEF Proper
<1>7. n.start + n.size + Word <= b.base + b.cap
  BY <1>1, <1>2, Constants DEF Plain
<1> QED
  BY <1>6, <1>7

\* malloc, with or without an object that goes.
LEMMA PlainStep ==
  ASSUME LayoutInv, ~crashed, NEW old \in SUBSET objects, NEW sz \in Nat, NEW asked \in Nat,
         Accepted(sz), asked <= sz, NEW b \in MallocBlocks(sz), NEW n, Plain(n, b, sz, asked),
         IF libInitialized
         THEN blocks' = (blocks \ Gone(old)) \cup {b} /\ UNCHANGED <<chunks, allocated>>
         ELSE /\ blocks' = blocks \ Gone(old)
              /\ chunks' = chunks \cup {b} /\ allocated' = allocated + b.cap,
         objects' = (objects \ old) \cup {n}, UNCHANGED <<libInitialized, crashed>>
  PROVE  LayoutInv'
<1>1. SpaceInv /\ n.real = b.base
  BY DEF LayoutInv, Plain
<1>2. RealSize(sz, Header) \in Nat /\ RealSize(sz, Header) >= 1
  BY AcceptedFits
<1>3. CASE libInitialized
  <2>1. b \in RealBlocks(RealSize(sz, Header), Granule)
    BY <1>3 DEF MallocBlocks
  <2>2. /\ b \in [base : Nat, cap : Nat] /\ HeapStart <= b.base /\ 0 < b.cap
        /\ \A c \in blocks : Apart(b, c)
    BY <1>2, <2>1, RealBlock, Constants
  <2>3. Proper(n) /\ FitsBlock(n, b)
    BY <2>1, PlainInHeap
  <2>4. blocks' = (blocks \ Gone(old)) \cup {b} /\ UNCHANGED <<chunks, allocated, libInitialized, crashed>>
    BY <1>3
  <2> QED
    BY <1>1, <2>2, <2>3, <2>4, HeapStep
<1>4. CASE ~libInitialized
  <2>1. b \in TempChunks(RealSize(sz, Header))
    BY <1>4 DEF MallocBlocks
  <2>2. /\ b \in [base : Nat, cap : Nat] /\ b.base = Buf + allocated
        /\ b.cap % Word = 0 /\ allocated + b.cap <= InitialMallocSize
    BY <1>1, <1>2, <2>1, TempChunk
  <2>3. Proper(n) /\ n.start + n.size + Word <= b.base + b.cap
    BY <1>1, <2>1, PlainInBuffer
  <2>4. /\ blocks' = blocks \ Gone(old)
        /\ chunks' = chunks \cup {b} /\ allocated' = allocated + b.cap
    BY <1>4
  <2> QED
    BY <1>1, <2>2, <2>3, <2>4, TempStep
<1> QED
  BY <1>3, <1>4

\* Nothing that the invariant is about changes.
LEMMA LayoutUnchanged ==
  ASSUME LayoutInv, UNCHANGED <<allocated, chunks, blocks, objects>>,
         libInitialized' \in BOOLEAN, crashed' \in {crashed, TRUE}
  PROVE  LayoutInv'
  BY DEF LayoutInv, SpaceInv, PlaceInv, OwnerInv, AsAsked, FitsChunk, FitsBlock, Strays, Apart

\* What an int holds is not cut off.
LEMMA AsIntOfSmall ==
  ASSUME NEW n \in Nat, n < IntModulus \div 2
  PROVE  AsInt(n) = n
<1>1. IntModulus \in Nat /\ IntModulus % 2 = 0 /\ InitialMallocSize < IntModulus \div 2
      /\ InitialMallocSize \in Nat
  BY LayoutAssumption
<1>2. IntModulus >= 1 /\ IntModulus \div 2 <= IntModulus
  BY <1>1, SMT
<1>3. n % IntModulus = n
  <2>1. n < IntModulus
    BY <1>1, <1>2, SMT
  <2> QED
    BY <1>1, <1>2, <2>1, NotCut
<1> QED
  BY <1>3 DEF AsInt

\* Without room for them, tempmalloc accepts only sizes that its int does not hold.
LEMMA StraysAreLarge ==
  ASSUME SpaceInv, ~crashed, NEW sz \in Nat, Accepted(sz),
         NEW sum \in StraySums(RealSize(sz, Header))
  PROVE  TooLargeForInt(sz)
<1> DEFINE size == RoundUp(RealSize(sz, Header), Word)
<1>1. size \in Nat
  BY AcceptedFits, RoundUpIsMultiple, Constants
<1>2. allocated \in Nat /\ allocated <= InitialMallocSize /\ InitialMallocSize \in Nat
  BY Constants DEF SpaceInv
<1>3. sum \in {AsInt(allocated + size), allocated + AsInt(size)} /\ sum <= InitialMallocSize
  BY DEF StraySums, TempSums
<1>4. ~(allocated + size <= InitialMallocSize)
  <2> DEFINE b == [base |-> Buf + allocated, cap |-> size]
  <2>1. b.cap = size
    OBVIOUS
  <2>2. b \notin TempChunks(RealSize(sz, Header))
    BY DEF StraySums
  <2> QED
    BY <2>1, <2>2 DEF TempChunks
<1> SUFFICES ASSUME ~TooLargeForInt(sz) PROVE FALSE
  OBVIOUS
<1>5. (IntModulus \div 2) \in Int
  BY LayoutAssumption, SMT
<1>6. ~(size + InitialMallocSize >= IntModulus \div 2)
  BY DEF TooLargeForInt
<1> HIDE DEF size
<1>7. allocated + size \in Nat /\ allocated + size < IntModulus \div 2
      /\ size < IntModulus \div 2
  BY <1>1, <1>2, <1>5, <1>6
<1>8. AsInt(allocated + size) = allocated + size /\ AsInt(size) = size
  BY <1>1, <1>7, AsIntOfSmall
<1> QED
  BY <1>3, <1>4, <1>8

\* tempmalloc accepts a size for which it has no room.
LEMMA StrayStep ==
  ASSUME LayoutInv, ~crashed, NEW sz \in Nat, NEW asked \in Nat, Accepted(sz), asked <= sz,
         Stray(sz, asked)
  PROVE  LayoutInv'
<1> USE DEF LayoutInv
<1>0. PICK b \in {[base |-> Buf + allocated, cap |-> 0]} : TRUE
  OBVIOUS
<1>n. PICK n \in {Guarded(b, Header, sz, asked)} : TRUE
  OBVIOUS
<1>1. allocated \in Nat /\ allocated <= InitialMallocSize /\ allocated % Word = 0
  BY DEF SpaceInv
<1>2. b \in [base : Nat, cap : Nat] /\ b.base = Buf + allocated
  BY <1>0, <1>1, Constants
<1>3. Plain(n, b, sz, asked)
  BY <1>n, <1>2, GuardedIsPlain
<1>4. /\ objects' = objects \cup {n} /\ crashed' = TRUE
      /\ UNCHANGED <<libInitialized, chunks, blocks>>
  BY <1>0, <1>n DEF Stray
<1>5. TooLargeForInt(sz)
  BY StraysAreLarge DEF Stray
<1>6. InBuf(n.real) /\ n.real = Buf + allocated /\ n.start = n.real + Header
      /\ n.real \in Nat /\ n.alignment = Word
  BY <1>1, <1>2, <1>3, Constants DEF Plain, InBuf
<1>7. Strays(n)'
  BY <1>3, <1>4, <1>5, <1>6 DEF Strays, Plain
<1>8. n.start % n.alignment = 0
  <2>1. /\ Buf \in Nat /\ allocated \in Nat /\ Header \in Nat /\ Word \in Nat /\ Word >= 1
        /\ Buf % Word = 0 /\ allocated % Word = 0 /\ Header % Word = 0
    BY <1>1, Constants
  <2>2. Buf + allocated \in Nat
    BY <2>1
  <2>4. (Buf + allocated) % Word = 0
    BY ONLY <2>1, SumOfMultiples, Zenon
  <2>3. ((Buf + allocated) + Header) % Word = 0
    BY ONLY <2>1, <2>2, <2>4, SumOfMultiples, Zenon
  <2> QED
    BY <1>6, <2>3
<1>9. SpaceInv'
  BY <1>3, <1>4 DEF SpaceInv, Plain, Apart
<1>10. PlaceInv'
  <2> SUFFICES ASSUME NEW o \in objects'
               PROVE  /\ o.real + Header <= o.start
                      /\ \/ FitsChunk(o)' \/ Strays(o)'
                         \/ \E c \in blocks' : c.base = o.real /\ FitsBlock(o, c)
    BY DEF PlaceInv, FitsBlock
  <2>1. CASE o = n
    BY <1>6, <1>7, <2>1, Constants
  <2>2. CASE o \in objects
    BY <1>4, <2>2 DEF PlaceInv, FitsChunk, Strays
  <2> QED
    BY <1>4, <2>1, <2>2
<1>11. OwnerInv'
  <2>1. \A c \in blocks' : \E o \in objects' : o.real = c.base
    BY <1>4 DEF OwnerInv
  <2>2. \A o, m \in objects' : o.real = m.real /\ ~InBuf(o.real) => o = m
    BY <1>4, <1>6 DEF OwnerInv
  <2> QED
    BY <2>1, <2>2 DEF OwnerInv
<1>12. AsAsked'
  BY <1>3, <1>4, <1>8 DEF AsAsked, Plain
<1> QED
  BY <1>9, <1>10, <1>11, <1>12

\* malloc and calloc.
LEMMA MallocStep ==
  ASSUME LayoutInv, ~crashed, NEW sz \in Nat, NEW asked \in Nat, Accepted(sz), asked <= sz,
         xxmalloc(sz, asked)
  PROVE  LayoutInv'
<1>1. CASE MallocFails(sz) /\ Crash
  BY <1>1, LayoutUnchanged DEF Crash, LayoutInv, SpaceInv
<1>2. ASSUME NEW b \in MallocBlocks(sz), Take(b),
             objects' = objects \cup {Guarded(b, Header, sz, asked)},
             UNCHANGED <<libInitialized, crashed>>
      PROVE  LayoutInv'
  <2> DEFINE n == Guarded(b, Header, sz, asked)
  <2>1. b \in [base : Nat, cap : Nat]
    <3>1. RealSize(sz, Header) \in Nat /\ RealSize(sz, Header) >= 1
      BY AcceptedFits
    <3>2. CASE libInitialized
      BY <3>1, <3>2, RealBlock, Constants DEF MallocBlocks
    <3>3. CASE ~libInitialized
      BY <3>1, <3>3, TempChunk DEF MallocBlocks, LayoutInv
    <3> QED
      BY <3>2, <3>3
  <2>2. Plain(n, b, sz, asked)
    BY <2>1, GuardedIsPlain
  <2>3. Gone({}) = {}
    BY DEF Gone
  <2>4. objects' = (objects \ {}) \cup {n}
    BY <1>2
  <2> HIDE DEF n
  <2>5. IF libInitialized
        THEN blocks' = (blocks \ Gone({})) \cup {b} /\ UNCHANGED <<chunks, allocated>>
        ELSE /\ blocks' = blocks \ Gone({})
             /\ chunks' = chunks \cup {b} /\ allocated' = allocated + b.cap
    BY <1>2, <2>3 DEF Take
  <2> QED
    BY <1>2, <2>2, <2>4, <2>5, PlainStep
<1>3. CASE Stray(sz, asked)
  BY <1>3, StrayStep
<1> QED
  BY <1>1, <1>2, <1>3 DEF xxmalloc

\* calloc's check lets no product through that was cut off.
LEMMA ProductIsWhole ==
  ASSUME NEW nelem \in Nat, NEW elsize \in Nat, ProductFits(nelem, elsize)
  PROVE  /\ nelem * elsize \in Nat
         /\ (nelem * elsize) % Modulus \in Nat
         /\ nelem * elsize <= (nelem * elsize) % Modulus
<1> DEFINE p == nelem * elsize
           n == p % Modulus
<1>1. p \in Nat
  BY SMT
<1>2. n \in Nat
  BY <1>1, CutIsSmaller, Constants
<1>3. CASE elsize = 0
  BY <1>2, <1>3, SMT
<1>4. CASE elsize >= 1
  <2>1. nelem = n \div elsize
    BY <1>4 DEF ProductFits
  <2> HIDE DEF n
  <2>2. n = (n \div elsize) * elsize + (n % elsize) /\ n % elsize \in Nat
    BY <1>2, <1>4, Division
  <2>3. n = p + (n % elsize)
    BY <2>1, <2>2
  <2> HIDE DEF p
  <2>4. p <= n
    BY <1>1, <2>2, <2>3
  <2> QED
    BY <1>1, <1>2, <2>4 DEF p, n
<1> QED
  BY <1>3, <1>4

\* memalign, valloc, aligned_alloc and pvalloc: n bytes, for a call that asked for no more.
LEMMA MemalignStep ==
  ASSUME LayoutInv, ~crashed, NEW a \in Nat, a >= 1, NEW n \in Nat, NEW asked \in Nat, asked <= n,
         xxmemalign(a, n, asked)
  PROVE  LayoutInv'
<1> DEFINE guard == GuardSize(a)
           sz    == n % Modulus
<1>1. guard \in Nat /\ Header <= guard /\ guard % a = 0
  BY RoundUpIsMultiple, Constants DEF GuardSize
<1>2. sz \in Nat /\ (n < Modulus => sz = n)
  BY CutIsSmaller, NotCut, Constants
<1>3. RealSize(sz, guard) \in Nat
      /\ (sz + guard + Word < Modulus => RealSize(sz, guard) = sz + guard + Word)
  <2> HIDE DEF guard, sz
  <2>1. sz + guard + Word \in Nat /\ Modulus \in Nat /\ Modulus >= 1
    BY <1>1, <1>2, Constants
  <2> QED
    BY <2>1, CutIsSmaller, NotCut DEF RealSize
<1> HIDE DEF guard, sz
<1>4. CASE Crash
  BY <1>4, LayoutUnchanged DEF Crash, LayoutInv, SpaceInv
<1>5. ASSUME NEW b \in RealBlocks(RealSize(sz, guard), a),
             blocks' = blocks \cup {b},
             objects' = objects \cup
               {[Guarded(b, guard, sz, asked) EXCEPT
                   !.alignment = a, !.aligned = TRUE, !.wrapped = n + guard + Word >= Modulus]},
             UNCHANGED <<libInitialized, allocated, chunks, crashed>>
      PROVE  LayoutInv'
  <2> DEFINE wraps == n + guard + Word >= Modulus
             g == Guarded(b, guard, sz, asked)
             m == [g EXCEPT !.alignment = a, !.aligned = TRUE, !.wrapped = wraps]
  <2>1. /\ b \in [base : Nat, cap : Nat] /\ HeapStart <= b.base /\ 0 < b.cap
        /\ RealSize(sz, guard) <= b.cap /\ b.base % a = 0
        /\ \A c \in blocks : Apart(b, c)
    BY <1>3, RealBlock
  <2>2. b.base \in Nat /\ b.cap \in Nat
    BY <2>1
  <2>3. /\ m.real = b.base /\ m.start = b.base + guard /\ m.size = sz /\ m.asked = asked
        /\ m.alignment = a /\ m.aligned = TRUE
    BY DEF Guarded
  <2>4. wraps \in BOOLEAN
    OBVIOUS
  <2>5. m.wrapped = wraps /\ m \in ObjectType
    <3>1. g \in ObjectType
      BY <1>1, <1>2, <2>2, Constants DEF Guarded, ObjectType
    <3> HIDE DEF g, wraps
    <3> QED
      BY <2>4, <3>1 DEF ObjectType
  <2>6. ~m.wrapped => n + guard + Word < Modulus
    <3>1. ~wraps => n + guard + Word < Modulus
      BY <1>1, Constants
    <3> QED
      BY <2>5, <3>1, Zenon
  <2>7. ~m.wrapped => sz = n /\ RealSize(sz, guard) = n + guard + Word
    BY <1>1, <1>2, <1>3, <2>6, Constants
  <2> HIDE DEF g, m, wraps
  <2>8. (b.base + guard) % a = 0
    BY <1>1, <2>1, <2>2, SumOfMultiples, Zenon
  <2>9. Proper(m)
    <3>1. m.real + Header <= m.start
      BY <1>1, <2>2, <2>3, Constants
    <3>2. m.start % m.alignment = 0
      BY <2>3, <2>8
    <3>3. m.asked <= m.size \/ (m.wrapped /\ m.aligned)
      BY <2>3, <2>7
    <3> QED
      BY <2>5, <3>1, <3>2, <3>3 DEF Proper
  <2>10. FitsBlock(m, b)
    <3>1. ~m.wrapped => Header + m.size + Word <= b.cap
                        /\ m.start + m.size + Word <= b.base + b.cap
      BY <1>1, <1>2, <2>1, <2>2, <2>3, <2>7, Constants
    <3> QED
      BY <2>3, <3>1 DEF FitsBlock
  <2>11. blocks' = (blocks \ Gone({})) \cup {b} /\ objects' = (objects \ {}) \cup {m}
    BY <1>5 DEF Gone, g, m, wraps
  <2> QED
    BY <1>5, <2>1, <2>3, <2>9, <2>10, <2>11, HeapStep
<1> QED
  BY <1>4, <1>5 DEF xxmemalign, guard, sz

\* An object of the heap lies in just one block.
LEMMA OwnBlock ==
  ASSUME SpaceInv, NEW o, NEW b \in blocks, b.base = o.real
  PROVE  BlockOf(o) = b /\ ~InBuf(o.real)
<1>1. ~InBuf(b.base) /\ \A c \in chunks : c.base # b.base
  BY Constants DEF SpaceInv, InBuf
<1>2. \A c \in blocks : c.base = b.base => c = b
  BY Constants DEF SpaceInv, Apart
<1> QED
  BY <1>1, <1>2 DEF BlockOf

\* free.
LEMMA FreeOneStep ==
  ASSUME LayoutInv, ~crashed, NEW o \in objects, Free(o)
  PROVE  LayoutInv'
<1>1. blocks' = blocks \ Gone({o})
  BY GoneOfOne DEF Free
<1> QED
  BY <1>1, FreeStep DEF Free

\* The old block was as large as the new one.
LEMMA InPlaceStep ==
  ASSUME LayoutInv, ~crashed, NEW o \in objects,
         NEW sz \in Nat, Accepted(sz), NEW b \in MallocBlocks(sz),
         ReallocInPlace(o, sz, b), UNCHANGED <<libInitialized, crashed>>
  PROVE  LayoutInv'
<1> DEFINE n == [o EXCEPT !.size = sz, !.asked = sz, !.inplace = TRUE, !.kept = TRUE]
<1> USE DEF LayoutInv
<1>1. o \in ObjectType
  BY DEF SpaceInv
<1>2. /\ n \in ObjectType /\ n.real = o.real /\ n.start = o.start /\ n.size = sz
      /\ n.asked = sz /\ n.inplace = TRUE /\ n.wrapped = o.wrapped /\ n.aligned = o.aligned
      /\ n.alignment = o.alignment
  BY <1>1 DEF ObjectType
<1>3. objects' = (objects \ {o}) \cup {n}
  BY DEF ReallocInPlace
<1> HIDE DEF n
<1>4. RealSize(sz, Header) \in Nat /\ RealSize(sz, Header) >= 1
      /\ RealSize(sz, Header) = sz + Header + Word
  BY AcceptedFits
<1>5. Proper(n)
  <2>1. o.real + Header <= o.start /\ o.start % o.alignment = 0
    BY DEF PlaceInv, AsAsked
  <2> QED
    BY <1>2, <2>1 DEF Proper
<1>6. ~libInitialized => b \in [base : Nat, cap : Nat] /\ b.base = Buf + allocated
                         /\ b.cap % Word = 0 /\ allocated + b.cap <= InitialMallocSize
  BY <1>4, TempChunk DEF MallocBlocks
<1>7. blocks' = blocks /\ chunks \subseteq chunks'
  BY DEF ReallocInPlace, Take
<1>8. SpaceInv'
  <2>1. objects' \subseteq ObjectType
    BY <1>2, <1>3 DEF SpaceInv
  <2>2. CASE libInitialized
    BY <2>1, <2>2, <1>7 DEF ReallocInPlace, SpaceInv, Apart
  <2>3. CASE ~libInitialized
    <3>1. chunks' = chunks \cup {b} /\ allocated' = allocated + b.cap
      BY <2>3 DEF ReallocInPlace, Take
    <3> QED
      BY <1>6, <1>7, <2>1, <2>3, <3>1, ChunkStep
  <2> QED
    BY <2>2, <2>3
<1>9. ASSUME NEW c \in blocks, c.base = o.real, FitsBlock(o, c) PROVE FitsBlock(n, c)
  <2>1. UsableSize(o) = c.cap
    BY <1>9, OwnBlock DEF UsableSize
  <2>2. CASE o.wrapped
    BY <1>2, <1>9, <2>2 DEF FitsBlock
  <2>3. CASE ~o.wrapped
    <3>1. o.size \in Nat /\ o.start \in Nat /\ o.real \in Nat /\ c.cap \in Nat /\ c.base \in Nat
      BY <1>1 DEF ObjectType, SpaceInv
    <3>2. c.cap >= 2
      BY <1>9, <2>3, <3>1, Constants DEF FitsBlock
    <3>3. ~InBuf(b.base) /\ b.cap = c.cap
      BY <2>1, <3>2 DEF ReallocInPlace, BlockSize
    <3>4. libInitialized
      <4>1. ASSUME ~libInitialized PROVE FALSE
        <5>1. b.base \in Nat /\ b.cap \in Nat /\ b.base = Buf + allocated
              /\ allocated + b.cap <= InitialMallocSize /\ allocated \in Nat
          BY <1>6, <4>1 DEF SpaceInv
        <5> QED
          BY <3>3, <5>1, Constants DEF InBuf
      <4> QED
        BY <4>1
    <3>5. sz + Header + Word <= c.cap
      BY <1>4, <3>3, <3>4, RealBlock, Constants DEF MallocBlocks
    <3>6. o.start = o.real + Header => o.start + sz + Word <= c.base + c.cap
      BY <1>9, <3>1, <3>5, Constants
    <3>7. Header + sz + Word <= c.cap
      BY <3>1, <3>5, Constants
    <3> QED
      BY <1>2, <2>3, <3>6, <3>7 DEF FitsBlock
  <2> QED
    BY <2>2, <2>3
<1> QED
  BY <1>2, <1>3, <1>5, <1>7, <1>8, <1>9, KeepStep

\* The object moves to a new block.
LEMMA MoveStep ==
  ASSUME LayoutInv, ~crashed, NEW o \in objects,
         NEW sz \in Nat, Accepted(sz), NEW b \in MallocBlocks(sz),
         ReallocMove(o, sz, b), UNCHANGED <<libInitialized, crashed>>
  PROVE  LayoutInv'
<1> DEFINE kept == \/ o.size <= Copied(UsableSize(o), sz)
                   \/ sz <= Copied(UsableSize(o), sz)
           g == Guarded(b, Header, sz, sz)
           n == [g EXCEPT !.kept = kept]
<1>1. b \in [base : Nat, cap : Nat]
  <2>1. RealSize(sz, Header) \in Nat /\ RealSize(sz, Header) >= 1
    BY AcceptedFits
  <2>2. CASE libInitialized
    BY <2>1, <2>2, RealBlock, Constants DEF MallocBlocks
  <2>3. CASE ~libInitialized
    BY <2>1, <2>3, TempChunk DEF MallocBlocks, LayoutInv
  <2> QED
    BY <2>2, <2>3
<1>2. Plain(g, b, sz, sz)
  BY <1>1, GuardedIsPlain
<1>3. objects' = (objects \ {o}) \cup {n}
  BY DEF ReallocMove
<1>4. kept \in BOOLEAN
  OBVIOUS
<1> HIDE DEF g, kept
<1>5. g \in ObjectType
  BY <1>2 DEF Plain
<1>6. n \in ObjectType /\ n.real = g.real /\ n.start = g.start /\ n.size = g.size
      /\ n.asked = g.asked /\ n.aligned = g.aligned /\ n.alignment = g.alignment
  BY <1>4, <1>5 DEF ObjectType
<1>7. n.wrapped = g.wrapped
  BY <1>4, <1>5 DEF ObjectType
<1> HIDE DEF n
<1>8. Plain(n, b, sz, sz)
  BY <1>2, <1>6, <1>7, Zenon DEF Plain
<1>9. IF libInitialized
      THEN blocks' = (blocks \ Gone({o})) \cup {b} /\ UNCHANGED <<chunks, allocated>>
      ELSE /\ blocks' = blocks \ Gone({o})
           /\ chunks' = chunks \cup {b} /\ allocated' = allocated + b.cap
  BY GoneOfOne DEF ReallocMove
<1> QED
  BY <1>3, <1>8, <1>9, PlainStep

\* realloc of an object, to a size that malloc accepts or not.
LEMMA ReallocStep ==
  ASSUME LayoutInv, ~crashed, NEW o \in objects, NEW sz \in Nat, Realloc(o, sz) \/ ReallocRefused(o, sz)
  PROVE  LayoutInv'
<1>1. CASE ReallocRefused(o, sz)
  BY <1>1, FreeOneStep DEF ReallocRefused
<1>2. CASE Realloc(o, sz) /\ Crash
  BY <1>2, LayoutUnchanged DEF Crash, LayoutInv, SpaceInv
<1>3. ASSUME Accepted(sz), NEW b \in MallocBlocks(sz),
             ReallocInPlace(o, sz, b) \/ ReallocMove(o, sz, b),
             UNCHANGED <<libInitialized, crashed>>
      PROVE  LayoutInv'
  BY <1>3, InPlaceStep, MoveStep
<1>4. CASE Accepted(sz) /\ Stray(sz, sz)
  BY <1>4, StrayStep
<1> QED
  BY <1>1, <1>2, <1>3, <1>4 DEF Realloc

-----------------------------------------------------------------------------
(* The theorems *)

\* Each kind of call keeps the invariant.
LEMMA LayoutStep == LayoutInv /\ [Next]_vars => LayoutInv'
<1> SUFFICES ASSUME LayoutInv, [Next]_vars PROVE LayoutInv'
  OBVIOUS
<1>1. CASE UNCHANGED vars
  BY <1>1, LayoutUnchanged DEF vars, LayoutInv, SpaceInv
<1>2. CASE Initialize
  BY <1>2, LayoutUnchanged DEF Initialize
<1>3. ASSUME NEW sz \in Sizes, Malloc(sz) PROVE LayoutInv'
  <2>1. sz \in Nat /\ sz <= sz
    BY LayoutAssumption
  <2> QED
    BY <1>3, <2>1, MallocStep DEF Malloc
<1>4. ASSUME NEW sz \in Sizes, NEW n \in Counts, Calloc(n, sz) PROVE LayoutInv'
  <2>1. sz \in Nat /\ n \in Nat
    BY LayoutAssumption
  <2>2. /\ ProductFits(n, sz) /\ Accepted((n * sz) % Modulus) /\ ~crashed
        /\ xxmalloc((n * sz) % Modulus, n * sz)
    BY <1>4 DEF Calloc
  <2>3. /\ n * sz \in Nat /\ (n * sz) % Modulus \in Nat
        /\ n * sz <= (n * sz) % Modulus
    BY <2>1, <2>2, ProductIsWhole
  <2> QED
    BY <2>2, <2>3, MallocStep
<1>5. ASSUME NEW sz \in Sizes, NEW a \in Alignments, Memalign(a, sz) \/ AlignedAlloc(a, sz)
      PROVE  LayoutInv'
  <2>1. sz \in Nat /\ a \in Nat /\ a >= 1
    BY LayoutAssumption
  <2>2. sz % a \in Nat /\ sz % a < a
    BY <2>1, Division
  <2>3. Multiple(a, sz) \in Nat /\ sz <= Multiple(a, sz)
    BY <2>1, <2>2 DEF Multiple
  <2>4. ~crashed
    BY <1>5 DEF Memalign, AlignedAlloc, xxmemalign
  <2>5. CASE Memalign(a, sz)
    BY <2>1, <2>4, <2>5, MemalignStep DEF Memalign
  <2>6. CASE AlignedAlloc(a, sz)
    BY <2>1, <2>3, <2>4, <2>6, MemalignStep DEF AlignedAlloc
  <2> QED
    BY <1>5, <2>5, <2>6
<1>6. ASSUME NEW sz \in Sizes, PValloc(sz) PROVE LayoutInv'
  <2>1. sz \in Nat /\ PageBytes \in Nat /\ PageBytes >= 1
    BY Constants, LayoutAssumption
  <2>2. RoundUp(sz, PageBytes) \in Nat /\ sz <= RoundUp(sz, PageBytes)
    BY <2>1, RoundUpIsMultiple
  <2> QED
    BY <1>6, <2>1, <2>2, MemalignStep DEF PValloc, xxmemalign
<1>7. ASSUME NEW sz \in Sizes, NEW o \in objects, Realloc(o, sz) \/ ReallocRefused(o, sz)
      PROVE  LayoutInv'
  <2>1. sz \in Nat
    BY LayoutAssumption
  <2>2. ~crashed
    BY <1>7 DEF Realloc, ReallocRefused, Free
  <2> QED
    BY <1>7, <2>1, <2>2, ReallocStep
<1>8. ASSUME NEW o \in objects, Free(o) PROVE LayoutInv'
  BY <1>8, FreeOneStep DEF Free
<1>9. CASE Dead
  BY <1>1, <1>9 DEF Dead
<1> QED
  BY <1>1, <1>2, <1>3, <1>4, <1>5, <1>6, <1>7, <1>8, <1>9 DEF Next

\* The layout, with any sizes, alignments and places of blocks.
THEOREM LayoutInvariant == Spec => []LayoutInv
<1>1. Init => LayoutInv
  <2>1. 0 % Word = 0
    BY NotCut, Constants
  <2> SUFFICES ASSUME Init PROVE LayoutInv
    OBVIOUS
  <2>2. SpaceInv
    <3>1. allocated \in Nat /\ allocated <= InitialMallocSize /\ allocated % Word = 0
      BY <2>1, Constants DEF Init
    <3> QED
      BY <3>1 DEF Init, SpaceInv
  <2>3. PlaceInv /\ OwnerInv /\ AsAsked
    BY DEF Init, PlaceInv, OwnerInv, AsAsked
  <2> QED
    BY <2>2, <2>3 DEF LayoutInv
<1>2. LayoutInv /\ [Next]_vars => LayoutInv'
  BY LayoutStep
<1> QED
  BY <1>1, <1>2, PTL DEF Spec

\* No header, object or canary lies in another's memory, but for the three kinds of object
\* that the property names.
THEOREM ObjectsKeepApart == Spec => []OwnSpace
<1>1. LayoutInv => OwnSpace
  <2> SUFFICES ASSUME LayoutInv PROVE OwnSpace
    OBVIOUS
  <2>1. ASSUME NEW o \in objects
        PROVE  \/ Inside(o)
               \/ o.wrapped /\ o.aligned
               \/ InBuf(o.real) /\ TooLargeForInt(o.size)
               \/ o.inplace /\ (InBuf(o.real) \/ o.start # o.real + Header)
    <3>1. o.real \in Nat /\ o.start \in Nat /\ o.real + Header <= o.start
          /\ o.real <= o.start - Header
      BY Constants DEF LayoutInv, SpaceInv, PlaceInv, ObjectType
    <3>2. CASE FitsChunk(o)
      BY <3>1, <3>2 DEF FitsChunk, Inside
    <3>3. ASSUME NEW b \in blocks, b.base = o.real, FitsBlock(o, b)
          PROVE  \/ Inside(o)
                 \/ o.wrapped /\ o.aligned
                 \/ o.inplace /\ (InBuf(o.real) \/ o.start # o.real + Header)
      BY <3>1, <3>3 DEF FitsBlock, Inside
    <3> QED
      BY <3>2, <3>3 DEF LayoutInv, PlaceInv, Strays
  <2>2. \A c \in chunks : c.base + c.cap <= Buf + InitialMallocSize
    BY DEF LayoutInv, SpaceInv
  <2>3. \A b, c \in blocks \cup chunks : b = c \/ Apart(b, c)
    <3>1. \A b \in blocks, c \in chunks : c.base + c.cap <= b.base
      BY Constants DEF LayoutInv, SpaceInv
    <3> QED
      BY <3>1 DEF LayoutInv, SpaceInv, Apart
  <2> QED
    BY <2>1, <2>2, <2>3 DEF OwnSpace
<1> QED
  BY <1>1, LayoutInvariant, PTL

\* Each block of the real allocator belongs to one object, which frees it.
THEOREM OneObjectPerBlock == Spec => []NothingLeaks
<1>1. LayoutInv => NothingLeaks
  <2> SUFFICES ASSUME LayoutInv PROVE NothingLeaks
    OBVIOUS
  <2>1. ASSUME NEW b \in blocks PROVE Cardinality({o \in objects : o.real = b.base}) = 1
    <3>1. PICK o \in objects : o.real = b.base
      BY DEF LayoutInv, OwnerInv
    <3>2. ~InBuf(o.real)
      BY <3>1, Constants DEF LayoutInv, SpaceInv, InBuf
    <3>3. {m \in objects : m.real = b.base} = {o}
      BY <3>1, <3>2 DEF LayoutInv, OwnerInv
    <3> QED
      BY <3>3, FS_Singleton
  <2>2. ASSUME NEW o \in objects PROVE InBuf(o.real) \/ \E b \in blocks : b.base = o.real
    BY DEF LayoutInv, PlaceInv, FitsChunk, Strays
  <2> QED
    BY <2>1, <2>2 DEF NothingLeaks
<1> QED
  BY <1>1, LayoutInvariant, PTL

\* calloc, pvalloc and aligned_alloc give what they were asked for, aligned as promised.
THEOREM AllocatedAsAsked == Spec => []AsAsked
<1>1. LayoutInv => AsAsked
  BY DEF LayoutInv
<1> QED
  BY <1>1, LayoutInvariant, PTL

\* A block has room for its object, so that realloc copies all of it that is wanted.
LEMMA CopiesAll ==
  ASSUME LayoutInv, NEW o \in objects, ~InBuf(o.real), ~o.wrapped, NEW sz \in Nat
  PROVE  \/ o.size <= Copied(UsableSize(o), sz)
         \/ sz <= Copied(UsableSize(o), sz)
<1>1. SpaceInv /\ PlaceInv
  BY DEF LayoutInv
<1>2. PICK b \in blocks : b.base = o.real /\ FitsBlock(o, b)
  BY <1>1 DEF PlaceInv, FitsChunk, Strays
<1>3. UsableSize(o) = b.cap
  BY <1>1, <1>2, OwnBlock DEF UsableSize
<1>4. o.size \in Nat /\ b.cap \in Nat /\ Header + o.size + Word <= b.cap
  BY <1>1, <1>2 DEF FitsBlock, SpaceInv, ObjectType
<1>5. o.size <= b.cap
  BY <1>4, Constants
<1> QED
  BY <1>3, <1>4, <1>5 DEF Copied

\* What realloc makes of an object has its contents.
LEMMA ReallocKeeps ==
  ASSUME LayoutInv, NEW m \in objects, NEW sz \in Nat, Realloc(m, sz),
         NEW o \in objects, NEW n \in objects',
         objects' \ objects = {n}, objects \ objects' = {o}, ~InBuf(o.real), ~o.wrapped
  PROVE  n.kept
<1>1. CASE Crash \/ Stray(sz, sz)
  BY <1>1 DEF Crash, Stray
<1>2. ASSUME NEW b \in MallocBlocks(sz), ReallocInPlace(m, sz, b) PROVE n.kept
  <2> DEFINE k == [m EXCEPT !.size = sz, !.asked = sz, !.inplace = TRUE, !.kept = TRUE]
  <2>1. objects' = (objects \ {m}) \cup {k}
    BY <1>2 DEF ReallocInPlace
  <2>2. n = k
    BY <2>1
  <2>3. m \in ObjectType
    BY DEF LayoutInv, SpaceInv
  <2> QED
    BY <2>2, <2>3 DEF ObjectType
<1>3. ASSUME NEW b \in MallocBlocks(sz), ReallocMove(m, sz, b) PROVE n.kept
  <2> DEFINE kept == \/ m.size <= Copied(UsableSize(m), sz)
                     \/ sz <= Copied(UsableSize(m), sz)
             k == [Guarded(b, Header, sz, sz) EXCEPT !.kept = kept]
  <2>1. objects' = (objects \ {m}) \cup {k}
    BY <1>3 DEF ReallocMove
  <2>2. n = k /\ o = m
    <3> HIDE DEF k
    <3> QED
      BY <2>1
  <2>3. kept
    BY <2>2, CopiesAll
  <2> HIDE DEF kept
  <2> QED
    BY <2>2, <2>3 DEF Guarded
<1> QED
  BY <1>1, <1>2, <1>3 DEF Realloc

\* realloc keeps the contents of every object that malloc gave after initialisation.
THEOREM ReallocKeepsContents == Spec => ContentsKept
<1>1. LayoutInv /\ [Next]_vars
      => [\A o \in objects, n \in objects' :
             /\ objects' \ objects = {n} /\ objects \ objects' = {o}
             /\ ~InBuf(o.real) /\ ~o.wrapped
             => n.kept]_vars
  <2> SUFFICES ASSUME LayoutInv, Next, NEW o \in objects, NEW n \in objects',
                      objects' \ objects = {n}, objects \ objects' = {o},
                      ~InBuf(o.real), ~o.wrapped
               PROVE  n.kept
    OBVIOUS
  <2>1. o \notin objects' /\ n \notin objects
    OBVIOUS
  <2>2. ASSUME NEW sz \in Sizes, NEW m \in objects, Realloc(m, sz) PROVE n.kept
    <3>1. sz \in Nat
      BY LayoutAssumption
    <3> QED
      BY <2>2, <3>1, ReallocKeeps
  <2>3. ASSUME NEW m \in objects, Free(m) PROVE FALSE
    BY <2>1, <2>3 DEF Free
  <2>4. ASSUME NEW sz, NEW m \in objects, ReallocRefused(m, sz) PROVE FALSE
    BY <2>3, <2>4 DEF ReallocRefused
  <2>5. ASSUME NEW sz, NEW asked, xxmalloc(sz, asked) PROVE FALSE
    BY <2>1, <2>5 DEF xxmalloc, Crash, Stray
  <2>6. ASSUME NEW a, NEW sz, NEW asked, xxmemalign(a, sz, asked) PROVE FALSE
    BY <2>1, <2>6 DEF xxmemalign, Crash
  <2> QED
    BY <2>1, <2>2, <2>3, <2>4, <2>5, <2>6
    DEF Next, Initialize, Dead, vars, Malloc, Calloc, Memalign, AlignedAlloc, PValloc
<1> QED
  BY <1>1, LayoutInvariant, PTL DEF Spec, ContentsKept

=============================================================================
