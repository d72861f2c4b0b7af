----------------------------- MODULE ObjectLayout -----------------------------
(***************************************************************************)
(* Where the objects lie that malloc and its relatives return              *)
(* (gnuwrapper.cpp, libcauser.cpp, objectguard.hh).  An object is preceded *)
(* by a header and followed by a tail canary, all inside one block of the  *)
(* real allocator, or inside one chunk of the buffer that serves until the *)
(* library is initialised.  Sizes and addresses are numbers modulo 2^w.    *)
(*                                                                         *)
(* The contents of memory are not modelled: the application writes inside  *)
(* its objects only and frees each of them once.  One call at a time: the  *)
(* calls share nothing but the allocators.                                 *)
(***************************************************************************)
EXTENDS Integers, FiniteSets

CONSTANTS
  Modulus,     \* 2^w, of a size_t
  IntModulus,  \* 2^w, of an int
  Word,        \* sizeof(size_t): the tail canary, and the rounding of chunks
  Header,      \* sizeof(objectGuard)
  Granule,     \* MALLOC_ALIGNMENT of the real allocator
  PageBytes,   \* the 8192 of valloc and pvalloc
  Buf, InitialMallocSize,  \* the buffer _buf
  HeapStart, HeapEnd,      \* bound: the memory of the real allocator
  Sizes,       \* sizes asked for
  Counts,      \* numbers of elements asked for
  Alignments,  \* powers of two
  MaxLive      \* bound: objects at one time

ASSUME LayoutAssumption ==
  /\ {Modulus, Word, Header, Granule, PageBytes} \subseteq Nat \ {0}
  /\ Modulus % 2 = 0 /\ Granule % Word = 0 /\ Header % Granule = 0
  /\ Header + Word <= Modulus \div 2
  /\ IntModulus \in Nat /\ IntModulus % 2 = 0 /\ InitialMallocSize < IntModulus \div 2
  /\ {Buf, InitialMallocSize, HeapStart, HeapEnd, MaxLive} \subseteq Nat
  /\ 0 < Buf /\ Buf % Word = 0
  /\ Buf + InitialMallocSize < HeapStart /\ HeapStart <= HeapEnd /\ HeapEnd < Modulus
  /\ Sizes \subseteq 0..(Modulus - 1) /\ Counts \subseteq 0..(Modulus - 1)
  /\ Alignments \subseteq 1..(Modulus - 1)

VARIABLES
  libInitialized,
  allocated,  \* _allocated, an int
  chunks,     \* parts of _buf that tempmalloc has returned
  blocks,     \* live blocks of the real allocator
  objects,    \* live objects
  crashed     \* abort(), a header written through a null pointer, or a canary written
              \* outside the buffer: nothing is said of what follows

vars == <<libInitialized, allocated, chunks, blocks, objects, crashed>>

RoundUp(n, a) == ((n + a - 1) \div a) * a

Init ==
  /\ libInitialized = FALSE /\ allocated = 0 /\ crashed = FALSE
  /\ chunks = {} /\ blocks = {} /\ objects = {}

-----------------------------------------------------------------------------
(* The two allocators *)

Apart(b, c) == b.base + b.cap <= c.base \/ c.base + c.cap <= b.base

\* What the real allocator may answer; malloc_usable_size tells cap.
RealBlocks(n, alignment) ==
  {b \in [base : {x \in HeapStart..HeapEnd : x % alignment = 0 /\ x % Granule = 0},
          cap  : {RoundUp(n, Granule), RoundUp(n, Granule) + Granule}] :
     /\ 0 < b.cap /\ b.base + b.cap <= HeapEnd
     /\ \A c \in blocks : Apart(b, c)}

\* A size_t or a sum as an int: its low bits, the highest of them for the sign.
AsInt(n) ==
  LET low == n % IntModulus
  IN  IF low < IntModulus \div 2 THEN low ELSE low - IntModulus

\* _allocated + size, with tempmalloc's int size.  The overflow of a sum is undefined: it
\* wraps around or it does not.
TempSums(n) ==
  LET size == RoundUp(n, Word)
  IN  {AsInt(allocated + size), allocated + AsInt(size)}

\* The part of the buffer that n bytes are given, when it has room for them.
TempChunks(n) ==
  {b \in {[base |-> Buf + allocated, cap |-> RoundUp(n, Word)]} :
     allocated + b.cap <= InitialMallocSize}

\* Sums that tempmalloc accepts though the buffer has no room for the n bytes.
StraySums(n) == {sum \in TempSums(n) : TempChunks(n) = {} /\ sum <= InitialMallocSize}

InBuf(p) == Buf <= p /\ p <= Buf + InitialMallocSize

-----------------------------------------------------------------------------
(* The guard of an object *)

RealSize(sz, guard) == (sz + guard + Word) % Modulus

GuardSize(alignment) == RoundUp(Header, alignment)

\* An object of sz bytes in block b behind a padded header of guard bytes.
Guarded(b, guard, sz, asked) ==
  [real |-> b.base, start |-> b.base + guard, size |-> sz,
   asked |-> asked,
   alignment |-> IF InBuf(b.base) THEN Word ELSE Granule,  \* history: promised
   aligned |-> FALSE,                         \* history: by memalign and the like
   wrapped |-> sz + guard + Word >= Modulus,  \* history: the real size was too small
   inplace |-> FALSE,                         \* history: realloc has kept the block
   kept |-> TRUE]                             \* history: the last realloc has copied all of it

\* Mutant of RealPtr: the header is taken for the start of the block.
RealPtrOfHeader(o) == o.start - Header

\* getRealPtr: what is passed to Real::free.
RealPtr(o) == o.real

BlockOf(o) == CHOOSE b \in blocks \cup chunks : b.base = o.real

\* xxmalloc_usable_size.
UsableSize(o) == IF InBuf(o.real) THEN 1 ELSE BlockOf(o).cap

-----------------------------------------------------------------------------
(* Operations *)

Initialize ==
  /\ ~libInitialized /\ ~crashed
  /\ libInitialized' = TRUE
  /\ UNCHANGED <<allocated, chunks, blocks, objects, crashed>>

Crash ==
  /\ crashed' = TRUE
  /\ UNCHANGED <<libInitialized, allocated, chunks, blocks, objects>>

\* Mutant of Accepted: half of the sizes are not refused.
AcceptedAlways(sz) == TRUE

\* malloc returns NULL for the others.
Accepted(sz) == sz < Modulus \div 2

\* Blocks that xxmalloc may get for sz bytes.
MallocBlocks(sz) ==
  LET n == RealSize(sz, Header)
  IN  IF libInitialized THEN RealBlocks(n, Granule) ELSE TempChunks(n)

\* Real::malloc finds nothing, or tempmalloc finds no room and aborts.
MallocFails(sz) ==
  IF libInitialized
  THEN MallocBlocks(sz) = {}
  ELSE \E sum \in TempSums(RealSize(sz, Header)) : sum > InitialMallocSize

\* A block or chunk b has been taken.
Take(b) ==
  IF libInitialized
  THEN blocks' = blocks \cup {b} /\ UNCHANGED <<chunks, allocated>>
  ELSE chunks' = chunks \cup {b} /\ allocated' = allocated + b.cap /\ UNCHANGED blocks

Room == Cardinality(objects) < MaxLive

\* A size of which the int has lost bits: the object begins at the next chunk and its canary
\* is written outside the buffer.
Stray(sz, asked) ==
  /\ ~libInitialized
  /\ allocated' \in StraySums(RealSize(sz, Header))
  /\ objects' = objects \cup {Guarded([base |-> Buf + allocated, cap |-> 0], Header, sz, asked)}
  /\ crashed' = TRUE
  /\ UNCHANGED <<libInitialized, chunks, blocks>>

xxmalloc(sz, asked) ==
  \/ \E b \in MallocBlocks(sz) :
       /\ Take(b)
       /\ objects' = objects \cup {Guarded(b, Header, sz, asked)}
       /\ UNCHANGED <<libInitialized, crashed>>
  \/ MallocFails(sz) /\ Crash
  \/ Stray(sz, asked)

Malloc(sz) == ~crashed /\ Room /\ Accepted(sz) /\ xxmalloc(sz, sz)

\* Mutant of ProductFits: no check.
ProductFitsAlways(nelem, elsize) == TRUE

\* calloc's check: the product, cut off, divided by elsize is nelem again.
ProductFits(nelem, elsize) ==
  elsize # 0 => nelem = ((nelem * elsize) % Modulus) \div elsize

Calloc(nelem, elsize) ==
  LET n == (nelem * elsize) % Modulus
  IN  ~crashed /\ Room /\ ProductFits(nelem, elsize) /\ Accepted(n) /\ xxmalloc(n, nelem * elsize)

\* xxmemalign looks the real functions up first and never uses the buffer.  The size n is
\* cut off to a size_t.
xxmemalign(alignment, n, asked) ==
  LET guard == GuardSize(alignment)
      sz    == n % Modulus
      found == RealBlocks(RealSize(sz, guard), alignment)
  IN
  /\ ~crashed /\ Room
  /\ \/ \E b \in found :
          /\ blocks' = blocks \cup {b}
          /\ objects' = objects \cup
               {[Guarded(b, guard, sz, asked) EXCEPT
                   !.alignment = alignment, !.aligned = TRUE,
                   !.wrapped = n + guard + Word >= Modulus]}
          /\ UNCHANGED <<libInitialized, allocated, chunks, crashed>>
     \/ found = {} /\ Crash

\* memalign, and posix_memalign and valloc, which call it.
Memalign(alignment, sz) == xxmemalign(alignment, sz, sz)

\* What aligned_alloc makes of a size.
Multiple(alignment, sz) == sz + alignment - (sz % alignment)

AlignedAlloc(alignment, sz) == xxmemalign(alignment, Multiple(alignment, sz), sz)

PValloc(sz) == xxmemalign(PageBytes, RoundUp(sz, PageBytes), sz)

\* xxfree: a pointer into the buffer is not freed, any other goes to the real allocator.
Freed(o) == IF InBuf(o.start) THEN {} ELSE {b \in blocks : b.base = RealPtr(o)}

Free(o) ==
  /\ ~crashed
  /\ blocks' = blocks \ Freed(o)
  /\ objects' = objects \ {o}
  /\ UNCHANGED <<libInitialized, allocated, chunks, crashed>>

-----------------------------------------------------------------------------
(* realloc, of an object and to a size other than 0; the rest is malloc and free *)

BlockSize(b) == IF InBuf(b.base) THEN 1 ELSE b.cap

\* Mutant of Copied: the last byte is forgotten.
CopiedShort(objSize, sz) == IF objSize < sz THEN objSize ELSE sz - 1

\* minSize: the bytes copied to the new block.
Copied(objSize, sz) == IF objSize < sz THEN objSize ELSE sz

\* The new block is as large as the old one: it is freed and the header updated.  (What
\* tempmalloc has returned is not taken back.)
ReallocInPlace(o, sz, b) ==
  /\ UsableSize(o) = BlockSize(b)
  /\ IF libInitialized THEN UNCHANGED <<blocks, chunks, allocated>> ELSE Take(b)
  /\ objects' = (objects \ {o}) \cup {[o EXCEPT !.size = sz, !.asked = sz, !.inplace = TRUE,
                                             !.kept = TRUE]}

ReallocMove(o, sz, b) ==
  /\ UsableSize(o) # BlockSize(b)
  /\ IF libInitialized
     THEN blocks' = (blocks \ Freed(o)) \cup {b} /\ UNCHANGED <<chunks, allocated>>
     ELSE /\ blocks' = blocks \ Freed(o)
          /\ chunks' = chunks \cup {b} /\ allocated' = allocated + b.cap
  /\ objects' = (objects \ {o}) \cup
       {[Guarded(b, Header, sz, sz) EXCEPT
           !.kept = \/ o.size <= Copied(UsableSize(o), sz)
                    \/ sz <= Copied(UsableSize(o), sz)]}

Realloc(o, sz) ==
  /\ ~crashed /\ Accepted(sz) /\ sz > 0
  /\ \/ \E b \in MallocBlocks(sz) :
          /\ ReallocInPlace(o, sz, b) \/ ReallocMove(o, sz, b)
          /\ UNCHANGED <<libInitialized, crashed>>
     \/ MallocFails(sz) /\ Crash
     \/ Stray(sz, sz)

\* malloc has refused the size: the object is freed and NULL returned.
ReallocRefused(o, sz) == ~Accepted(sz) /\ Free(o)

\* Nothing happens after a crash.
Dead == crashed /\ UNCHANGED vars

Next ==
  \/ Initialize
  \/ \E sz \in Sizes :
       \/ Malloc(sz)
       \/ \E n \in Counts : Calloc(n, sz)
       \/ \E a \in Alignments : Memalign(a, sz) \/ AlignedAlloc(a, sz)
       \/ PValloc(sz)
       \/ \E o \in objects : Realloc(o, sz) \/ ReallocRefused(o, sz)
  \/ \E o \in objects : Free(o)
  \/ Dead

Spec == Init /\ [][Next]_vars

-----------------------------------------------------------------------------
(* Properties *)

\* tempmalloc's int may lose bits of the sum.
TooLargeForInt(sz) ==
  RoundUp(RealSize(sz, Header), Word) + InitialMallocSize >= IntModulus \div 2

\* The header, the object and the tail lie inside one block or chunk.
Inside(o) ==
  \E b \in blocks \cup chunks :
    b.base <= o.start - Header /\ o.start + o.size + Word <= b.base + b.cap

(***************************************************************************)
(* Blocks and chunks lie apart, and no header, object or canary reaches    *)
(* outside its own one, into the memory of another object, except that of  *)
(* an aligned object whose size wrapped around; of an object that was      *)
(* asked for before initialisation with a size that tempmalloc's int does  *)
(* not hold; and after a realloc in place, of an object in the initial     *)
(* buffer or with a padded header.                                         *)
(***************************************************************************)
OwnSpace ==
  /\ \A o \in objects :
       \/ Inside(o)
       \/ o.wrapped /\ o.aligned
       \/ InBuf(o.real) /\ TooLargeForInt(o.size)
       \/ o.inplace /\ (InBuf(o.real) \/ o.start # o.real + Header)
  /\ \A b \in chunks : b.base + b.cap <= Buf + InitialMallocSize
  /\ \A b, c \in blocks \cup chunks : b = c \/ Apart(b, c)

(***************************************************************************)
(* Real::free is called with what the real allocator has returned, once:   *)
(* every live block holds exactly one object.                              *)
(***************************************************************************)
NothingLeaks ==
  /\ \A b \in blocks : Cardinality({o \in objects : o.real = b.base}) = 1
  /\ \A o \in objects : InBuf(o.real) \/ \E b \in blocks : b.base = o.real

(***************************************************************************)
(* calloc, pvalloc and aligned_alloc give no less than they were asked     *)
(* for, unless an aligned size wrapped around; and an object is aligned as *)
(* asked for in spite of the header before it.                             *)
(***************************************************************************)
AsAsked ==
  \A o \in objects :
    /\ o.asked <= o.size \/ (o.wrapped /\ o.aligned)
    /\ o.start % o.alignment = 0

(***************************************************************************)
(* realloc keeps the contents, up to the smaller of the sizes, of every    *)
(* object that was allocated after initialisation.                         *)
(***************************************************************************)
ContentsKept ==
  [][\A o \in objects, n \in objects' :
       /\ objects' \ objects = {n} /\ objects \ objects' = {o}
       /\ ~InBuf(o.real) /\ ~o.wrapped
       => n.kept]_vars

=============================================================================
