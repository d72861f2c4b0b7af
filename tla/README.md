# CSOD in TLA+

CSOD is a library that is preloaded into a program and finds heap overflows
while the program runs. It puts a hardware watchpoint on the word behind some
heap objects, chosen by the call stack that allocated them, and it writes
canaries around all of them. A watchpoint that fires tells the exact
instruction that overflows. A canary found broken at `free` or at exit tells
only that some object of that call stack was overflowed, and it makes the call
stack one whose objects are always watched, in this run and (through a history
file) in the next ones.

This directory holds TLA+ models of the library's own logic, TLC
configurations that check them, and TLAPS proofs. Paths below are relative to
`src/source/`.

## The system

| component | state | operations | correct when |
|---|---|---|---|
| Watchpoint table (`watchpoint.cpp`, `watchpoint.hh`) | 4 slots: `isUsed`, the watched object, its call stack and ratio, one perf-event descriptor per thread index, a spinlock; `_numWatchpoints`, `curIndex` | `setWatchpoint` (take a free slot or steal one), `setWatchpointByThread`, `disableWatchpointByAddr`, `checkGlibcWL` | a watch covers all alive threads, ends only by a steal or by its own free, and does not outlive its object; no perf event is lost |
| Threads (`xthread.hh`, `xthread.cpp`) | array of 1025 thread records, round-robin `_threadIndex`, list of alive threads, global rwlock | `thread_create`, `startThread`, `threadExit`, `allocThreadIndex` | a thread is on the list exactly while it can touch the heap; creation and exit do not block each other for good |
| Trap and segv handlers (`watchpoint.cpp`) | none of their own | `trapHandler` finds the slot of a descriptor and reports its call stack; `segvHandler` turns a fault into an exit, with its scan and its history | the report names the call stack of the overflowed object; no trap of the application is dropped |
| Call-stack naming (`causer.cpp`) | the distance of the caller's frame, found once | `getCallSiteKey`, `getStackOffset`, `getCallsites` | a call site finds its record again, and the record names it |
| Sampling decision (`causer.cpp`) | per call stack: ratio, calls, calls of the period, depth, under a spinlock | `startWatch`, `updateWatchedInfo`, `stopWatch` | a ratio stays within its bounds; evidence is never forgotten |
| Call-stack map (`hashmap.hh`) | buckets with a spinlock each, one list of entries, a pool of entries, `_entrylock` | `findOrAdd`, `insert`, `erase`, iteration | one entry per key, all entries are iterated over |
| Evidence canaries (`objectguard.hh`, `causer.cpp`) | header and tail word of each object | `checkPointer` at free, `checkAllMemory` at exit | a broken canary makes the object's call stack always watched |
| History file (`causer.cpp`) | a text file | `saveHistoryInfo`, `loadHistoryInfo`, `operator<<`, `operator>>` | what one run found is known to the next |
| Allocation entry points (`gnuwrapper.cpp`, `libcauser.cpp`) | bump allocator used before initialisation | `malloc`, `calloc`, `realloc`, `memalign`, `free`, ... | a block has the size and alignment asked for, and room for its canaries |
| Interposed library calls (`libcauser.cpp`) | the per-thread flag `isWatching` | wrappers of I/O and lookup calls, `pthread_create`, `pthread_exit`, `fork` | the flag is restored; the detector's own allocations are not watched |
| Text mappings (`selfmap.hh`, `interval.hh`) | ordered map from intervals to files | lookup by address | the lookup finds the interval that contains the address |
| Intrusive list (`list.hh`) | circular doubly linked nodes | insert, remove, splice | the nodes always form circles |

`malloc` calls `xxmalloc`, which writes the canaries and calls
`causer::startWatch`; that finds the call stack in the map, draws a number
against its ratio and asks the table for a slot. `free` checks the canaries,
asks the table to remove the watch and releases the memory. A new thread opens
its events for every slot in use; an exiting one closes them. Locks: a
spinlock per slot, per bucket and per call stack, and one rwlock for the list
of alive threads.

### What is hard about it

- **Interleavings.** `setWatchpoint` reads `isUsed` before it has the slot's
  lock; `disableWatchpointByAddr` finds its slot by a walk without locks; a
  thread opens its events while others install and steal; `saveHistoryInfo`
  walks the map while it grows; the exit scan writes ratios without their lock.
- **Ordering.** A child runs before its parent has put it on the alive list;
  destructors run after the thread's detector was switched off; a new entry is
  on its bucket's list before it is initialised.
- **Partial failure.** A perf event that cannot be opened, or opened and not
  configured, in the middle of a table that has one per thread.
- **Several lives.** What is learnt passes through a file from run to run, and
  through `fork` from process to process; a process may die at any point.
- **Boundaries.** Ratios at their bounds, a clock that is set back, sizes that
  wrap around, a search mask that only fits a power of two, intervals compared
  half open.

`PROJECT.json` lists each of these hazards at its line, with the properties
that would notice it going wrong.

## Modules

| module | models | state | actions |
|---|---|---|---|
| `Watchpoints` | the table, its threads and its locks | slots, descriptors, spinlocks, rwlock, alive list, a program counter for each thread | one per point of `setWatchpoint`, `disableWatchpointByAddr`, `thread_create`, `startThread`, `threadExit` at which another thread may run |
| `WatchSet` | what the table promises: a set of watched objects that changes by `Watch`, `Replace`, `Unwatch`; memory is released only unwatched | watched objects, live objects | abstract |
| `WatchpointsInvariants`, `WatchpointsProofs` | inductive invariants and theorems of `Watchpoints` | | |
| `SamplingProofs`, `CallstackMapProofs`, `ThreadTableProofs`, `ObjectLayoutProofs`, `TrapReportProofs`, `EvidenceProofs` | inductive invariants and theorems of the module each is named after | | |
| `HistoryProofs` | the same for `History`, and for what a record of the file consists of: `Mappings` (its frames) and `CallSites` (its call stack); so that it can extend the three, those are specified as `FrameSpec` and `SiteSpec` | | |
| `CallstackMap` | `HashMap` as `findOrAdd`, `insert` and the iterator use it | buckets (sequences of entries), entries, bucket locks, pool, the walk of the saver | one per step of `findOrAdd` under its lock, of the pool under its own, and of the walk |
| `InternTable` | what the map promises: one record per call stack, the same for whoever asks | records, questions | abstract |
| `Ratio` | the arithmetic of ratios | none | pure operators shared by the next two |
| `Sampling` | one record: `startWatch`, `updateWatchedInfo`, `checkPointer`, `checkAllMemory` | ratio, depth, period, lock, clock, per-thread program counter | one per read or write of the record outside a lock, and per step under the lock |
| `History` | records over several runs and processes | tables of parent and child, the file | begin, allocate, find an overflow, fork, truncate, write, die |
| `Mappings` | `selfmap.hh` lookups, `interval.hh`, frames in the history file | a layout of text mappings, one frame | save, restart with another layout, load |
| `ObjectLayout` | sizes, headers, canaries and blocks of the malloc family | real blocks, chunks of the initial buffer, objects | one per entry point |
| `Evidence` | headers and canaries as words of memory, `checkPointer`, `checkAllMemory`, `segvHandler`, `finalizer` | the words of one mapping, proven call stacks, the scan's position, the file | allocate, overflow, free, reallocate, exit; the scan word by word |
| `TrapReport` | `trapHandler` while others steal, free, exit and create | the table, its spinlocks, the kernel's descriptors, a handler in each thread | one per point of the handler, and of an installation or removal, at which the other can see a difference |
| `CallSites` | how an allocation finds its record, and what call stack is written into it | records, the cached distance, the run | the first allocation, later ones, the next run |
| `ThreadTable` | the thread records, `list.hh`, `isWatching`, `fork` | `next` and `prev` of each node, records, rwlock, a stack of calls and handlers in each thread | one per wrapped call's beginning and end, per step of creation and exit, per process that goes on after `fork` |

`MC*` modules only define small sets. The names of the code are kept where they
exist. A definition with a comment that begins with "Mutant" is a plausible
mistake in the definition that follows it; nothing refers to it, and it serves
to show that a property notices the mistake.

`Watchpoints` splits an operation at each point where another thread can see
or change what it depends on: before each lock, and at reads without a lock.
What happens between them under locks that keep others out is one action.
Whether `startWatch` wants a slot, and whether it may steal one, depends on
ratios and random numbers; there both choices are open. `Sampling` leaves open
the other side: whether the table takes the object. `Watchpoints` treats a
descriptor number by what it denotes: an armed event, one opened only, a number
that a thread's exit has left behind (`stale`), one whose event somebody has
closed through such a number (`lapsed`), or none. Closing a number of the last
two kinds closes any one other event of the table, or none (`Struck`): the
kernel gives a closed number to the next file. That such a file may be one of
the application's is left out.

In `CallstackMap` a hash code is a number given by a constant, so that two call
stacks share a bucket, or a hash code, when the instance wants them to. The
pool has as many entries as there are buckets, as in the code, and is replaced
when it is used up. Loading takes any sequence of lines, also with equal keys.

`TrapReport` has a table of its own, smaller in its steps than `Watchpoints`:
what a handler can see is a slot being closed event by event, its address and
then its call stack being replaced, and its events being opened. In turn it has
what the handler depends on, the numbers of descriptors: the kernel hands out
the lowest free one, so that a number a handler holds may come to denote
another event. It begins with one object watched, and a thread that has exited
and left its number behind. `Evidence` leaves out the
words between blocks, and lets the scan look at single words, as the code
does, while other threads run. In `CallSites` a frame is a name: that a saved
frame comes back at the right address is what `Mappings` shows. In
`ThreadTable` one process is followed through `fork`, the parent or the child;
threads of the parent are not in the child, but the lock stays as they held it.

`ObjectLayout` is sequential: its operations share only the allocators, which
lock for themselves. Contents of memory are not modelled, so that what happens
after an object has been placed outside its block is that of a program which
has not touched it. A header written through a null pointer, an `abort`, and a
canary written outside the initial buffer end the model (`crashed`): the
properties hold in that state, and nothing is said of what follows.

## Runs

| run | question |
|---|---|
| `watchpoints_safe` | no perf event fails: does every watch cover every alive thread (but for events closed through a number left over), end with its object, hold one slot only, and lose no event; does the table implement `WatchSet`? |
| `watchpoints_faults` | what holds although events fail and destructors free: open events are owned, the counter covers the slots, only steals evict, readers of the list are on it; and does every call return? |
| `callstackmap` | one initialised record per call stack, met by a walk without locks; counts that agree with the lists; does the map implement `InternTable`, whose records keep what they learn, and do calls and walks end? |
| `sampling` | is evidence kept while others reduce the ratio; can a period begin in the future; is a call stack captured before its object is seen? |
| `history_carried` | is evidence carried through files, boosts, forks and deaths; is a record ever dropped? |
| `mappings_relocate` | does a frame come back at the same place of its file? |
| `layout` | does every object lie inside its block, aligned and as large as asked for, and which calls break that; is every block given back once; what does `realloc` keep? |
| `evidence` | are the right call stacks blamed at a free and by the scan; is no overflow missed; when is the history lost; does the scan end? |
| `trap_report` | does a report name the object that was touched, and reading or writing rightly; are all traps of watched objects reported; which are dismissed; does the handler leave events switched off? |
| `callsites` | does a call site find its record again, in this run and the next, and does the record name it? |
| `thread_table` | do table, list and count agree, also in a child of `fork`; is the detector on in the application's code and nowhere else; do creations end? |

One run expects a violation: `watchpoints_destructor` states what the comment
of `xxfree` says, that the watchpoint is removed first, and shows that an object
freed by a destructor of an exiting thread stays watched, because the thread's
detector is off by then.

### Where the properties stop

The conditions in the properties are there because the code does not do more.
What they stand for:

- Failing events. When a perf event fails in `setWatchpointByThread`, a later
  free of the object leaves its slot in use (`watchpoint.cpp:259`), and an event
  whose `fcntl` failed is left open (`watchpoint.cpp:198`): `Covered`,
  `FreedNotWatched` and `NoOrphans` are claimed without failures only.
- `_numWatchpoints`. A steal increments it although no slot was free
  (`watchpoint.cpp:155`); it then exceeds the table, and `startWatch` no longer
  uses free slots without a draw. `CountCoversUsed` claims the other direction.
- Descriptors. The numbers a thread had stay in the table after its exit
  (`xthread.hh:141`). The next thread with its index writes over those of the
  slots in use (`watchpoint.cpp:114`) and of those it installs in; the others it
  closes once more at its exit, which looks at every slot. By then the number may
  be that of an armed event of another thread, in any slot, which so ends
  without any failure: `reused` and `lapsed` in `Covered`, `Uncovered` in
  `TrapReport`. After a failure in `setWatchpointByThread` a watch pushed out of
  its slot, or freed, does the same. A handler
  that is overtaken by a steal looks a number up that may be another event's,
  reports that one's object, and may switch it off and on: `evicted`, `lapsed`.
  Even a handler whose event is still open may find its number twice: an exited
  thread left it in a slot that is being installed, `isUsed` by then and with
  its descriptors not yet opened (`watchpoint.cpp:79`, `watchpoint.cpp:293`), and
  the kernel gave it out again. The handler takes the first slot: `early`.
- `Evidence`. A header that is overwritten in part has a size and a call stack
  of the application's making: the scan then jumps anywhere, and locks or writes
  through that pointer (`blurred`). An overflowed object without a call stack,
  from `calloc` or allocated while the detector was off, is a fault in the
  scan (`causer.cpp:274`): the history of the run is lost (`Unknown` in
  `ExitSaves`). A second free of an object blames the object below it, and
  its block is never given back (`astray`). A size overwritten with a number
  close to 2^64 takes the scan backwards (`causer.cpp:271`): if it comes to the
  same head again it never ends, and the program never exits (`LeadsBack` in
  `ScanEnds`).
- `CallSites`. The library knows its own frames by `/mylibrary` in its path
  (`selfmap.hh:224`), while the Makefile builds `libcauser.so`. Under that name
  the first walk ends in the library, and every allocation is looked up by an
  address in the library, the same one for all at one depth. Within the run they
  share a record; the call stack captured for the first of them begins with
  `getCallsites`'s own frames, and under that key the next run does not look.
  Nothing is learnt: `Findable` and `BlamesCaller` are claimed for a library that
  knows itself. Also, an entry point whose caller is at another distance than
  that of the first one called is looked up by whatever word is there. If the
  word is the address of another call site, and the offset that of its calls, the
  record that is made is handed to those calls later in the run, and their
  reports name the wrong caller: `right` in `BlamesCaller`. After a reload a
  record's key is its own first frame and this is over.
- History lines of equal keys. A line has the captured frames, not the words a
  record was looked up by, so two lines may have one key; `insert` does not look
  for it (`hashmap.hh:199`). The first one's record is the one that all calls
  are given; the other is in the map, and saved again, but nothing is added
  to it (`Leads` in `CallstackMap`).
- Ratios. One boosted to exactly the upper bound counts as evidence from the
  next run on (`causer.cpp:305`).
- `Mappings`. `getMappingByAddress` misses the first address of a mapping
  (`interval.hh:33`); of several text mappings of a file one is kept.
- Sizes. `tempmalloc` has an `int` for the size and for what is allocated
  (`libcauser.cpp:44`, `libcauser.cpp:114`). Before initialisation, a size of 2
  GB or more that is negative or small as an `int`, or whose sum overflows, is
  accepted although the buffer has no room for it: the tail canary is written
  elsewhere, and the next chunk may be given twice (`TooLargeForInt` in
  `OwnSpace`). `realloc` keeps an aligned object, with its longer header, in a
  block too small for both (`gnuwrapper.cpp:246`), and frees the old object when
  the new size is refused (`gnuwrapper.cpp:266`); `malloc_usable_size` counts
  the header (`libcauser.cpp:217`) and says 1 for objects of the initial buffer,
  of which `realloc` then copies one byte (`libcauser.cpp:214`); `aligned_alloc`
  rounds up sizes that are multiples already (`gnuwrapper.cpp:202`).
- `fork`. It passes watched addresses to `disableWatchpointByAddr`, which
  compares the beginnings of objects (`libcauser.cpp:356`), so that the slots
  stay in use; the child shares the descriptors, and what it frees switches off
  events of the parent. The child inherits the locks: if another thread was
  creating one, `pthread_create` waits for ever in the child (`gone` in
  `CreationsEnd`). `fork` in a handler that interrupts the library leaves the
  detector on there (`forkedInside`).
- Threads. When all records are taken, `allocThreadIndex` gives -1 and the
  callers go on with record -1 (`NoRecord`); a cancelled thread never gives
  its record back.

### Bounds

- `Watchpoints`: two slots (a power of two, so that the search wraps), two or
  three threads, two or three objects. Three threads are needed for a creation
  that overlaps an installation and a free; three objects to have both slots
  taken and a steal. `MaxCalls` (4 in `watchpoints_faults`, which has two
  objects, 6 in `watchpoints_safe`, 7 in `watchpoints_destructor`) bounds the
  calls of a behaviour, the end of a thread not counted: two creations and an
  end, with allocations and a free between them, fit into six, so that an index is
  given out again with a number left in its column.
  `MaxFailures` and `MaxGhosts` bound failing events and freeing destructors.
  The theorems about it have none of these bounds, nor have those about the other
  modules that are proved about.
- `CallstackMap`: two threads, three call stacks, two buckets, four calls; the
  pool of two is exhausted by the third entry. Two lines of one key are loaded,
  in the bucket that another call stack of the same hash code is added to.
- `Sampling`: an upper bound of 6 and a second one of 12 keep the order of 10000
  and 100000; a threshold of 2 and a period of 1 are reached within four calls;
  the clock takes any value up to 3.
- `History`: an upper bound of 12 is divided by 2, 3, 4 and 5 much as 10000 is;
  three runs allow what the second has loaded to be boosted and saved again. A
  boost depends on up to 4 watches, so the count stops at 5.
- `Mappings`: two mappings of two files in six addresses, all layouts.
- `ObjectLayout`: numbers modulo 256, a word of two bytes, with header, granule
  and alignments in proportion; an `int` has seven bits, fewer than a `size_t`,
  as in the code; two objects, and a heap in which a third block may or may not
  find room. Sizes: 0, 8, and 3, which is no multiple of a word; with header and
  tail too large for the buffer, one that behind another chunk overflows the sum
  of `int`s and else is noticed (40), one that is negative as an `int` (60) and
  one that is small (124); the first that `malloc` refuses (128), and two more
  (238, 254), which wrap around in `memalign`.
- `Evidence`: three blocks, so that an object has one above and one below; an
  overflow reaches the tail, the size in the next header, or all of that header,
  with a number that is a size within the mapping (2), one beyond it (40), or one
  close to 2^w, which as an offset is negative (-11). Four calls
  allow two objects, an overflow and a free, or an object freed, used again
  and overflowed; two of them may come from other threads during the scan.
- `TrapReport`: two threads, two slots, three objects, five calls after the
  first object is watched: an access, a steal of its slot and a second
  installation that gets its number, and a free or an exit in between.
- `CallSites`: nine frames are kept, of which the library's own are up to eight,
  so that some stacks are cut off; two entry points have their caller at one
  distance and the third one word further, so that at another depth of the
  application it gives the same offset; three allocations in each of two runs
  are enough for the first to fix the distance, the second to read a wrong word
  and the third to be given its record.
- `ThreadTable`: three records for four threads, so that the table is full and a
  record is used again; calls are nested up to four deep, with a handler.

### Fairness

`CallsReturn` assumes weak fairness of each thread inside the library
(`LibraryStep`); the application need not call anything. Threads are
preemptively scheduled, so each that can go on eventually does. Weak fairness
does not promise a spinlock to a thread that competes for it for ever; the
number of calls is bounded, so no endless competition exists in the model, and
the property is about circles of waiting and about loops that do not end.
`CallsAndWalksEnd` assumes the same of calls of the map and of the saver,
`CreationsEnd` of a thread inside `thread_create`, `startThread`, `threadExit`
or a wrapped call, and `ScanEnds` only of the thread that exits: the others may
go on for as long as they like. `ScanEnds` holds because each step of the scan
goes on towards the end of the mapping, which `ScanGetsAhead` proves, and it has
the same exception.

## Proofs

`WatchpointsProofs` proves, for any number of threads, objects, calls and
failures and any table whose size is a power of two, that `Watchpoints`
satisfies:

- whatever fails: its type invariant (`Typed`), the ownership of open events
  (`NoStrayEvents`), that readers of the alive list are on it
  (`ReadersOnList`), that the counter covers the slots (`CounterCoversSlots`),
  and that only steals evict (`EvictionOnlyByStealing`);
- if no event fails: every alive thread watches every slot in use, but for
  events closed through a number left over, once its index has been given out
  again (`WatchesCoverThreads`), and no event loses its number
  (`NoEventOrphaned`);
- if moreover no destructor frees: no released memory is watched
  (`FreedMemoryUnwatched`), no object is watched twice (`ObjectsWatchedOnce`),
  and the table implements `WatchSet` (`TableImplementsWatchSet`).

None of these is inductive. `FreedNotWatched` fails one step before its
violation, when a thread is past the slot that watches its object. So
`WatchpointsInvariants` says of each program counter which locks the thread
holds (`LockInv`), how newborn threads and the list relate (`ThreadInv`), which
entries may be open (`EventInv`), which slots are about to be overwritten or
disabled (`SlotInv`), what a newborn has opened (`CoverInv`), and in which
slots a thread may still find its object (`WatchInv`). `CoverInv` also says where
numbers are left over: until an index is given out again, only in the columns
of threads that are gone, so that nothing closes them. `Safe`, the first four
with the type invariant and the counter, is preserved by every step; `CoverInv`
needs `Safe` and `failures = 0`; `WatchInv` needs both and `ghosts = 0`. Each
step's preservation is a case per action, and in it a step per conjunct that
the action can disturb. The assumptions are those on the constants in
`Watchpoints`, and in the last two groups `MaxFailures = 0` and `MaxGhosts =
0`. Without the first, a thread that could not open its events does not cover
its slots and later frees do not release them; that the second is needed is
what `watchpoints_destructor` shows.

`NoEventOrphaned` says that no open event is lost to the table: it is at its
place there, or about to be closed by the thread that holds the slot.

`SamplingProofs` proves of one record, for any number of threads, any ratios
and periods within `RatioAssumption` and any clock: evidence found by a free is
never reduced (`ProvenStaysProven`), nor is that of the scan but by an update
it overlapped (`ScanKept`); `CallStackCaptured`, `KnownNotDenied` and
`PeriodBeginsInPast`. `EvidenceKept` is not inductive: a thread may hold a
ratio it read before the evidence. The invariant has the lock's owner
(`LockInv`), so that a free, which takes the lock, finds no reader in between,
and `EvidenceInv`: when the matter is settled, the ratio is at its bound and so
is whatever a thread has read and not written back.

`CallstackMapProofs` proves, for any number of threads, call stacks, buckets
and calls, any hash function and any history to load: counts agree with lists
(`CountsAlwaysAgree`), no caller sees a raw record (`RecordsInUseAreFilled`),
the unlocked walk passes all it owes (`WalksAreComplete`), and the map
implements `InternTable` (`MapImplementsInternTable`). The invariant says who
holds which bucket and the pool (`LockInv`), that an entry is cut from the pool
once (`CutInv`), that lists hold each entry once and in the right bucket
(`ChainInv`), by how much a count may be behind (`CountInv`), that a thread
about to link a record is the only one that could make it, once the history is
loaded (`NewInv`), that the entry a caller has is the first of its key in its
list (`CellInv`), who may hold a raw record (`StatsInv`), and what loading relies
on (`LoadInv`). Loaded lines may have equal keys; since entries are put at the
tail, the first of a key stays the first.
`BoundInv` shows that the calls that the bounds admit never use up the model's
pools, which is what keeps entries within their type. `WalkInv` says that the
walk has seen what it owes of all buckets before its own and of its own list up
to where it is; insertion at the tail keeps that true. In the refinement,
looking up and linking are the steps `Ask` and `Add`, unlocking is `Answer`,
the use of a record `Learn`, and all else a stutter; linking a loaded line is
`Preset`, or a stutter if its key is there. That a list which has a key has a
first entry of it is again a case of the least number (`Least`, from
`WellFoundedInduction`).

`ThreadTableProofs` proves `DetectorFollowsApplication`: for any number of
threads, creations, handlers and forks, calls inside each other at any depth,
and full or failing tables, the detector of a running thread is on just in the
application's own code and in handlers that interrupt it, unless `fork` was
called where it is off. The property speaks of the switch and the whole stack,
but a return restores the switch from what the innermost call remembered. So
the invariant (`ThreadInv`) says that every frame remembers whether the frames
below it were all the application's (`Remembers`), that an installation stands
only on such frames, and at which points of a creation or an exit the stack is
one frame deep (`Fits`). `Push`, `Pop` and `Rename` are what a call, a return
and an installation do to such a stack.

It also proves `RecordsAlwaysAgree`: table, list and count agree, through
creation, exit and `fork`. Here the invariant (`RecordsInv`) is about the time
in which a record is taken and not yet on the list (`Between`), which the
rwlock gives to one thread at a time (`PlaceInv`), and about the pointers:
`next` and `prev` are inverse on the nodes of the list, and a set of nodes that
has the anchor and is closed under `next` is the whole list (`IsRing`). That is
one cycle without a word about lengths or induction: `listInsertTail` and
`listRemoveNode` keep it because a closed set stays one when the node is added
or taken away.

`ObjectLayoutProofs` proves, for every header, word, granule, alignment and
moduli that `LayoutAssumption` admits: objects keep to their blocks
(`ObjectsKeepApart`), one object owns each block (`OneObjectPerBlock`), sizes
and alignments are as asked for (`AllocatedAsAsked`), and
`ReallocKeepsContents`. The arithmetic of `RoundUp` and `%`, with its
overflows and that to an `int`, is in lemmas of its own; the invariant
(`LayoutInv`) says which blocks and chunks exist and that they are apart, and
until a crash how much of the buffer is allocated (`SpaceInv`), where an object
lies in its block depending on the entry point it came from (`PlaceInv`), and
who owns it (`OwnerInv`).

`TrapReportProofs` proves, for any number of threads, slots, objects, steals,
frees, exits and failing events: `ReportsAreRight`, `TrapsAreReported`,
`NoEventStaysOff`, `OnlyExcusedWaived`. The invariant (`TrapInv`) has the owner
of each slot being worked on (`OwnerInv`), the old and new object of a slot and
that no two slots hold one object (`ObjectInv`), that open events and watched
places correspond (`EventInv`), what is left where a descriptor was closed
(`NumberInv`), that an event that is off has a handler that will switch it on
(`OffInv`), and what each handler knows at each point, as long as its event is
open (`HandlerInv`). The steps that leave watches alone are dealt with once;
those that close or open an event need that a thread has at most one slot for
an object, so that a number denotes one place. It is from this proof that
`early` comes: without it the invariant fails, and TLC shows the behaviour once
the model begins with an exited thread.

`HistoryProofs` proves, for any number of call stacks, runs, allocations and
forks, and whoever dies: `EvidenceIsCarried` and `NothingIsForgotten`. A
process that ends can write only what it remembers, so the invariant
(`HistoryInv`) says of each running process, and not only of the file, that it
remembers what the file told the run; of the file it says so unless it is being
written or its writer died. The arithmetic part is that a boost, like a
reduction, leaves the upper bound where it is.

It also proves what makes a file of one run meaningful in the next.
`FramesComeBack` (of `Mappings`, for any number of files, mappings and
addresses): a frame of a file with one text mapping in each run is loaded as the
same place of that file, and one in no mapping as the same address. The invariant
(`FrameInv`) says what the saved frame is at each stage; the rest is that a
layout has at most one mapping for an address, and the lookup by name only one
to find. `CallSitesFindable` and `ReportsNameCaller` (of `CallSites`, for any
entry points, call stacks, depths and runs): an allocation finds the record its
call site has, and its call stack begins with the caller, with the exceptions
above. `NamingInv` relates a record's key to the call site that made it: in the
run it is the word read, the caller's address if that was exact, and later the
first frame of the stack, which is always the caller. No two exact records have
one key and offset. The first frame that `CapturedFrames` takes is the
application's innermost, even when the array is cut off, because it has room for
the library's frames (`CallSitesAssumption`). What the loop over the array
leaves is a fact about every length of it. It is proved without an induction
principle: if it failed for some prefix, it would fail for a shortest one
(`Least`, from `WellFoundedInduction`), and the loop's step contradicts that.

`EvidenceProofs` proves, for any number and size of blocks, any lengths of
overflows, and whatever is allocated, reallocated, freed once or twice and
scanned, while other threads go on during the exit: `BlameFallsRight`,
`OverflowsAreFound`, `ExitsSave` and `ScanGetsAhead`. None is inductive: whom a
free or the scan blames is whatever word lies where the header should name a
call stack. The invariant (`EvidenceInv`) says that the head sentinel is
nowhere but in headers (`HeadInv`), so that a search down or a scan up meets
objects only; what the other words of a header with a good head may be
(`BlockInv`): those of its own object, unless an overflow has overwritten part
of it, and a word other than the canary behind it only if it has overflowed
itself; that a destroyed head has its destroyer just below (`SmashInv`); that an
overflow which is to be found still can be (`HurtInv`); and that whatever lies
behind the scan has been noticed (`ScanInv`). The second part of it, that no
object is jumped over, is where `raced` and `blurred` are needed: a header that
changes between the look at its head and the rest, or has a size of the
application's making, does take the scan over others. Which word is at which
address, of blocks of any size, is in lemmas of its own (`Place`, `Distinct`).
`WordsAssumption` says of the sentinels that they are no address, size or record,
which is what their values were chosen for, and of what an overflow writes that
it is neither a sentinel nor a record's address: an application that writes
those words deceives the library by construction.

The assumptions are those on the constants, each named in the module that
declares them; bounds such as `MaxCalls` are parameters there and may have any
value.

Every invariant and action property of the runs that pass is stated by a
theorem. Only model-checked are the liveness properties (`CallsReturn`,
`CallsAndWalksEnd`, `CreationsEnd`, `ScanEnds`), which the prover does not
reach.

## Not modelled

- What `fork` does to the watch table: it is described above. The table after it
  would be shared by two processes, of which one writes it.
- Hash functions, `dlsym` lookups and logging: pure computation, linking and
  output. The models take equal keys to have equal hash codes, and let unequal
  ones collide.
- The string functions of `libcauser.cpp`: loops over bytes, written out so
  that they do not read beyond the end as libc's do; they keep no state.
- `find`, `insertIfAbsent` and `erase` of the map, the insertion of lists and at
  the head, `listRetrieveItem` and `listRetrieveAllItems`, `getThread` by
  `pthread_t` and `getStackInformation`: nothing calls them. `listInsertList` would not link the
  end of the list (`list.hh:76`).
- `recalloc`, `strdup`, `getcwd`, the C++ operators: they call `malloc`,
  `realloc` and `free` and keep no state.
- The text format of the history file (a file name with blanks cannot be read
  back), the parsing of `/proc/self/maps`, the printed frames of a report and
  `addr2line`.
- A second SIGTRAP while the handler runs: the signal is blocked there.

## What remains

The liveness properties rest on bounds that the theorems do not have. Left out
and worth modelling: two processes that write the history file at the same
moment, and the watch table that parent and child share after `fork`.
