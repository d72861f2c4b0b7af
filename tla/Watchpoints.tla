------------------------------ MODULE Watchpoints ------------------------------
(***************************************************************************)
(* The watchpoint table of CSOD (watchpoint.cpp) and every thread that     *)
(* works on it: allocations that install or steal a slot, frees that       *)
(* remove one, and thread creation and exit (xthread.hh), which add and    *)
(* remove a column of perf-event descriptors in every slot.                *)
(*                                                                         *)
(* Two kinds of lock are involved: one spinlock per slot, and the global   *)
(* reader/writer lock that protects the list of alive threads.  A slot is  *)
(* changed with its spinlock and the global lock in read mode; a thread    *)
(* enters or leaves the list with the global lock in write mode.           *)
(*                                                                         *)
(* Each pc value names a point of the code where another thread may run.   *)
(* What a thread does between two of them happens under locks that keep    *)
(* every other thread that looks at the same state out.  An object stands  *)
(* for its address; the watched word behind it is not told apart from it.  *)
(*                                                                         *)
(* A definition whose comment says "Mutant" is a plausible mistake in the  *)
(* one that follows it.  Nothing uses it: it is put in its place to see    *)
(* that a property notices.                                                *)
(***************************************************************************)
EXTENDS Integers, FiniteSets

CONSTANTS
  MaxWatchpoints,   \* xdefines::MAX_WATCHPOINTS, 4 in the code
  MaxAliveThreads,  \* xdefines::MAX_ALIVE_THREADS, 1025 in the code
  Objects,          \* the addresses Real::malloc may return
  NoObject,         \* the NULL objectstart of a slot never used
  MaxCalls,         \* bound: calls the application makes in one behaviour
  MaxFailures,      \* bound: perf-event installations that fail
  MaxGhosts         \* bound: exited threads whose destructors still free

ASSUME SizesAssumption ==
  /\ MaxWatchpoints \in Nat \ {0}
  /\ MaxAliveThreads \in Nat \ {0}

\* WP_SEARCH_INDEX_MASK is MaxWatchpoints - 1, so `&' is `%' only for a power of 2.
ASSUME MaskAssumption == \E k \in 0..MaxWatchpoints : MaxWatchpoints = 2^k

ASSUME ObjectsAssumption == NoObject \notin Objects

ASSUME BoundsAssumption ==
  /\ MaxCalls \in Nat
  /\ MaxFailures \in Nat
  /\ MaxGhosts \in Nat

Slots    == 0..(MaxWatchpoints - 1)
Threads  == 0..(MaxAliveThreads - 1)
Main     == 0
NoThread == -1

VARIABLES
  used, obj,        \* _wp[w].isUsed, _wp[w].objectstart
  fd,               \* what _wp[w].fd[t] denotes, see FdState
  spin,             \* holder of _wp[w].lock
  num, curIndex,    \* _numWatchpoints, curIndex
  readers, writer,  \* holders of the global rwlock
  alive,            \* indices on _aliveThreadsList
  threadIndex,      \* _threadIndex
  newborn,          \* `children' in thread_create
  heap,             \* what the allocator and the application know of an object
  pc, op, arg,      \* per thread: where it is, in which call, on which object
  slot, left,       \* per thread: slot looked at, iterations of the loop left
  orphaned,         \* history: an open perf event has lost its last reference
  reused,           \* history: an index has been given out with numbers left in its column
  budget, failures, ghosts  \* what is left of the three bounds

table   == <<used, obj, fd, num, curIndex>>
rwlock  == <<readers, writer>>
xthread == <<alive, threadIndex, newborn>>
locals  == <<op, arg, slot, left>>
history == <<orphaned, reused>>
bounds  == <<budget, failures, ghosts>>
vars    == <<table, spin, rwlock, xthread, heap, pc, locals, history, bounds>>

(***************************************************************************)
(* "none" is a value disable_watchpoint refuses (below 3), "armed" an open *)
(* and enabled perf event, "idle" one opened but not enabled.  "stale" is  *)
(* the number that a thread's exit has left in its column, "lapsed" that   *)
(* of an event which somebody else has closed through such a number: both  *)
(* denote any file by now, or none.                                        *)
(***************************************************************************)
FdState == {"none", "armed", "idle", "stale", "lapsed"}

\* An object inside malloc is "allocating", one inside free "freeing".
HeapState == {"free", "allocating", "live", "freeing"}

PcApp    == {"absent", "app"}
PcSet    == {"start", "roll", "probe", "spin", "decide", "rlock", "claim", "arm"}
PcStop   == {"scan", "fspin", "fcheck", "frlock", "disable", "release"}
PcUnlock == {"unlockR", "unlockS"}
PcThread == {"cwlock", "cspawn", "cbarrier", "cinsert", "born", "wait",
             "xwlock", "xexit"}
PcValues == PcApp \cup PcSet \cup PcStop \cup PcUnlock \cup PcThread

\* What a call of setWatchpoint or of disableWatchpointByAddr is part of:
\* "install" and "steal" are the two calls of startWatch (ispreempt false and true),
\* "placed" either of them once it has succeeded.
Ops == {"install", "steal", "placed", "free"}

Goto(t, label) == pc' = [pc EXCEPT ![t] = label]

Init ==
  /\ used = [w \in Slots |-> FALSE]
  /\ obj = [w \in Slots |-> NoObject]
  /\ fd = [w \in Slots |-> [t \in Threads |-> "none"]]
  /\ spin = [w \in Slots |-> NoThread]
  /\ num = 0 /\ curIndex = 0
  /\ readers = {} /\ writer = NoThread
  /\ alive = {Main} /\ threadIndex = 1 % MaxAliveThreads /\ newborn = NoThread
  /\ heap = [o \in Objects |-> "free"]
  /\ pc = [t \in Threads |-> IF t = Main THEN "app" ELSE "absent"]
  /\ op = [t \in Threads |-> "install"]
  /\ arg = [t \in Threads |-> NoObject]
  /\ slot = [t \in Threads |-> 0]
  /\ left = [t \in Threads |-> 0]
  /\ orphaned = FALSE /\ reused = FALSE
  /\ budget = MaxCalls /\ failures = MaxFailures /\ ghosts = 0

-----------------------------------------------------------------------------
(* Descriptors *)

\* The states of an open event, and those of a number whose event is closed.
Open    == {"armed", "idle"}
LeftOver == {"stale", "lapsed"}

\* Closing the entries E closes once more what these numbers denote by now.
Left(E) == {e \in E : fd[e[1]][e[2]] \in LeftOver}

(***************************************************************************)
(* The open events that are closed along with the entries E.  The kernel   *)
(* gives a closed number to the next file, so a number left over may be    *)
(* that of any later event by now; which one is left open, but for each    *)
(* number it is one at most.                                               *)
(***************************************************************************)
Struck(E) ==
  {hits \in SUBSET {e \in (Slots \X Threads) \ E : fd[e[1]][e[2]] \in Open} :
     Cardinality(hits) <= Cardinality(Left(E))}

Column(t) == Slots \X {t}

\* Mutant of Disabled: the descriptors are forgotten, and never closed.
DisabledNothing(w, S, hits) == fd

\* disable_watchpoint on the entries of threads S in slot w, then -1 in each.
Disabled(w, S, hits) ==
  [v \in Slots |-> [t \in Threads |->
     IF v = w /\ t \in S THEN "none" ELSE IF <<v, t>> \in hits THEN "lapsed" ELSE fd[v][t]]]

\* Writing over an entry that denotes an open event loses the event.
Overwrites(w, S) == \E t \in S : fd[w][t] \in Open

\* disableWatchpoint's ret: disable_watchpoint is negative only for a value below 3.
AllClosed(w) == \A t \in alive : fd[w][t] # "none"

-----------------------------------------------------------------------------
(* malloc: xxmalloc, then startWatch *)

BeginCall(t) ==
  /\ pc[t] = "app"
  /\ budget > 0
  /\ budget' = budget - 1
  /\ UNCHANGED <<failures, ghosts>>

Malloc(t) ==
  /\ BeginCall(t)
  /\ \E o \in Objects :
       /\ heap[o] = "free"
       /\ heap' = [heap EXCEPT ![o] = "allocating"]
       /\ arg' = [arg EXCEPT ![t] = o]
  /\ Goto(t, "start")
  /\ UNCHANGED <<table, spin, rwlock, xthread, op, slot, left, history>>

\* calloc switches the detector off around its malloc: nothing is watched.
Calloc(t) ==
  /\ BeginCall(t)
  /\ \E o \in Objects :
       /\ heap[o] = "free"
       /\ heap' = [heap EXCEPT ![o] = "live"]
  /\ UNCHANGED <<table, spin, rwlock, xthread, pc, locals, history>>

\* Enter the loop of setWatchpoint at curIndex.
EnterLoop(t, kind) ==
  /\ op' = [op EXCEPT ![t] = kind]
  /\ slot' = [slot EXCEPT ![t] = curIndex]
  /\ left' = [left EXCEPT ![t] = MaxWatchpoints]
  /\ Goto(t, "probe")

\* periodcalled below its threshold and the table not counted full: try a free slot.
TryInstall(t) ==
  /\ pc[t] = "start"
  /\ num < MaxWatchpoints
  /\ EnterLoop(t, "install")
  /\ UNCHANGED <<table, spin, rwlock, xthread, heap, arg, history, bounds>>

\* The table is counted full, or the call stack is throttled.
SkipInstall(t) ==
  /\ pc[t] = "start"
  /\ Goto(t, "roll")
  /\ UNCHANGED <<table, spin, rwlock, xthread, heap, locals, history, bounds>>

\* rnd <= watchedRatio: try to steal a slot.
TrySteal(t) ==
  /\ pc[t] = "roll"
  /\ EnterLoop(t, "steal")
  /\ UNCHANGED <<table, spin, rwlock, xthread, heap, arg, history, bounds>>

\* The object is handed to the application.
ReturnObject(t) ==
  /\ heap' = [heap EXCEPT ![arg[t]] = "live"]
  /\ arg' = [arg EXCEPT ![t] = NoObject]
  /\ Goto(t, "app")

NoSteal(t) ==
  /\ pc[t] = "roll"
  /\ ReturnObject(t)
  /\ UNCHANGED <<table, spin, rwlock, xthread, op, slot, left, history, bounds>>

-----------------------------------------------------------------------------
(* setWatchpoint(addr, objectstart, objectsize, cs, ispreempt) *)

\* The slot after slot[t], in the order of the search.
NextSlot(t) == (slot[t] + 1) % MaxWatchpoints

\* Mutant of NextIteration: the loop counts only the slots it installs in.
NextIterationUncounted(t) ==
  /\ slot' = [slot EXCEPT ![t] = NextSlot(t)]
  /\ left' = left
  /\ Goto(t, "probe")

\* The loop moves to the next slot, or ends without having installed anything.
NextIteration(t) ==
  /\ slot' = [slot EXCEPT ![t] = NextSlot(t)]
  /\ left' = [left EXCEPT ![t] = left[t] - 1]
  /\ Goto(t, "probe")

\* isUsed is read before the lock is taken.
ProbeTake(t) ==
  /\ pc[t] = "probe" /\ left[t] > 0
  /\ ~used[slot[t]] \/ op[t] = "steal"
  /\ Goto(t, "spin")
  /\ UNCHANGED <<table, spin, rwlock, xthread, heap, locals, history, bounds>>

ProbeSkip(t) ==
  /\ pc[t] = "probe" /\ left[t] > 0
  /\ used[slot[t]] /\ op[t] = "install"
  /\ NextIteration(t)
  /\ UNCHANGED <<table, spin, rwlock, xthread, heap, op, arg, history, bounds>>

\* setWatchpoint returns false: startWatch goes on to the stealing call, or gives up.
LoopEnd(t) ==
  /\ pc[t] = "probe" /\ left[t] = 0
  /\ \/ /\ op[t] = "install"
        /\ Goto(t, "roll")
        /\ UNCHANGED <<heap, arg>>
     \/ /\ op[t] = "steal"
        /\ ReturnObject(t)
  /\ UNCHANGED <<table, spin, rwlock, xthread, op, slot, left, history, bounds>>

SpinLock(t, from, to) ==
  /\ pc[t] = from
  /\ spin[slot[t]] = NoThread
  /\ spin' = [spin EXCEPT ![slot[t]] = t]
  /\ Goto(t, to)
  /\ UNCHANGED <<table, rwlock, xthread, heap, locals, history, bounds>>

LockSlot(t) == SpinLock(t, "spin", "decide")

\* Mutant of DecideTake: isUsed is not read again under the slot's lock.
DecideTakeUnchecked(t) ==
  /\ pc[t] = "decide"
  /\ Goto(t, "rlock")
  /\ UNCHANGED <<table, spin, rwlock, xthread, heap, locals, history, bounds>>

\* A slot still in use is taken only by a stealing call, when the ratios and the
\* age of the watch allow it (which is left open here).
DecideTake(t) ==
  /\ pc[t] = "decide"
  /\ ~used[slot[t]] \/ op[t] = "steal"
  /\ Goto(t, "rlock")
  /\ UNCHANGED <<table, spin, rwlock, xthread, heap, locals, history, bounds>>

DecideLeave(t) ==
  /\ pc[t] = "decide"
  /\ used[slot[t]]
  /\ spin' = [spin EXCEPT ![slot[t]] = NoThread]
  /\ NextIteration(t)
  /\ UNCHANGED <<table, rwlock, xthread, heap, op, arg, history, bounds>>

\* Mutant of CanRead: the alive list is walked without the global lock.
CanReadAlways == TRUE

\* The global lock may be taken in read mode.
CanRead == writer = NoThread

ReadLock(t, from, to) ==
  /\ pc[t] = from
  /\ CanRead
  /\ readers' = readers \cup {t}
  /\ Goto(t, to)
  /\ UNCHANGED <<table, spin, writer, xthread, heap, locals, history, bounds>>

LockGlobal(t) == ReadLock(t, "rlock", "claim")

\* Close the events of the watch that is pushed out, then write the new one.
Claim(t) ==
  LET w == slot[t] IN
  /\ pc[t] = "claim"
  /\ IF used[w]
     THEN \E hits \in Struck({w} \X alive) : fd' = Disabled(w, alive, hits)
     ELSE UNCHANGED fd
  /\ used' = [used EXCEPT ![w] = TRUE]
  /\ obj' = [obj EXCEPT ![w] = arg[t]]
  /\ Goto(t, "arm")
  /\ UNCHANGED <<num, curIndex, spin, rwlock, xthread, heap, locals, history, bounds>>

\* Mutant of Ret: the loop of setWatchpoint goes on after ret is true.
RetIgnored(t) == op' = op

\* ret = true, which ends the loop.
Ret(t) == op' = [op EXCEPT ![t] = "placed"]

\* setWatchpoint(addr, fd) when all goes well: an enabled event for every alive thread.
Arm(t) ==
  LET w == slot[t] IN
  /\ pc[t] = "arm"
  /\ fd' = [fd EXCEPT ![w] = [u \in Threads |-> IF u \in alive THEN "armed" ELSE fd[w][u]]]
  /\ orphaned' = (orphaned \/ Overwrites(w, alive))
  /\ num' = num + 1
  /\ curIndex' = NextSlot(t)
  /\ Ret(t)
  /\ Goto(t, "unlockR")
  /\ UNCHANGED <<reused, used, obj, spin, rwlock, xthread, heap, arg, slot, left, bounds>>

(***************************************************************************)
(* The event of thread `bad' fails after those of the threads in S were    *)
(* enabled (in any order: that of the list is left open); the roll-back    *)
(* closes what was opened.  When one of the fcntl calls fails,             *)
(* install_watchpoint returns -1 without closing the event.                *)
(***************************************************************************)
ArmFails(t) ==
  LET w == slot[t] IN
  /\ pc[t] = "arm"
  /\ failures > 0
  /\ failures' = failures - 1
  /\ \E bad \in alive : \E S \in SUBSET (alive \ {bad}), how \in {"open", "fcntl", "enable"} :
       /\ fd' = Disabled(w, S \cup {bad}, {})
       /\ orphaned' = (orphaned \/ Overwrites(w, S \cup {bad}) \/ how = "fcntl")
  /\ used' = [used EXCEPT ![w] = FALSE]
  /\ Goto(t, "unlockR")
  /\ UNCHANGED <<reused, obj, num, curIndex, spin, rwlock, xthread, heap, locals, budget, ghosts>>

-----------------------------------------------------------------------------
(* free: xxfree, then disableWatchpointByAddr *)

Free(t) ==
  /\ BeginCall(t)
  /\ \E o \in Objects :
       /\ heap[o] = "live"
       /\ heap' = [heap EXCEPT ![o] = "freeing"]
       /\ arg' = [arg EXCEPT ![t] = o]
  /\ op' = [op EXCEPT ![t] = "free"]
  /\ slot' = [slot EXCEPT ![t] = 0]
  /\ Goto(t, "scan")
  /\ UNCHANGED <<table, spin, rwlock, xthread, left, history>>

Watches(w, o) == used[w] /\ obj[w] = o

\* Mutant of MoreSlots: the walk stops one slot early.
MoreSlotsButOne(t) == slot[t] + 2 \in Slots

MoreSlots(t) == slot[t] + 1 \in Slots

\* getWatchpointObjectByAddr walks the table without a lock.
ScanHit(t) ==
  /\ pc[t] = "scan"
  /\ Watches(slot[t], arg[t])
  /\ Goto(t, "fspin")
  /\ UNCHANGED <<table, spin, rwlock, xthread, heap, locals, history, bounds>>

ScanMiss(t) ==
  /\ pc[t] = "scan"
  /\ ~Watches(slot[t], arg[t])
  /\ IF MoreSlots(t)
     THEN slot' = [slot EXCEPT ![t] = slot[t] + 1] /\ UNCHANGED pc
     ELSE Goto(t, "release") /\ UNCHANGED slot
  /\ UNCHANGED <<table, spin, rwlock, xthread, heap, op, arg, left, history, bounds>>

LockFound(t) == SpinLock(t, "fspin", "fcheck")

\* Mutant of RecheckHit: the slot found by the unlocked walk is taken for granted.
RecheckHitUnchecked(t) ==
  /\ pc[t] = "fcheck"
  /\ Goto(t, "frlock")
  /\ UNCHANGED <<table, spin, rwlock, xthread, heap, locals, history, bounds>>

\* What the walk saw is looked at again under the lock.
RecheckHit(t) ==
  /\ pc[t] = "fcheck"
  /\ Watches(slot[t], arg[t])
  /\ Goto(t, "frlock")
  /\ UNCHANGED <<table, spin, rwlock, xthread, heap, locals, history, bounds>>

RecheckMiss(t) ==
  /\ pc[t] = "fcheck"
  /\ ~Watches(slot[t], arg[t])
  /\ spin' = [spin EXCEPT ![slot[t]] = NoThread]
  /\ Goto(t, "release")
  /\ UNCHANGED <<table, rwlock, xthread, heap, locals, history, bounds>>

LockGlobalFree(t) == ReadLock(t, "frlock", "disable")

\* Mutant of Uncounted: the counter goes down even if the slot stays in use.
UncountedAlways(w) == num - 1

Uncounted(w) == IF AllClosed(w) THEN num - 1 ELSE num

\* disableWatchpoint(object): the slot becomes free only if every close was accepted.
Disable(t) ==
  LET w == slot[t] IN
  /\ pc[t] = "disable"
  /\ \E hits \in Struck({w} \X alive) : fd' = Disabled(w, alive, hits)
  /\ used' = IF AllClosed(w) THEN [used EXCEPT ![w] = FALSE] ELSE used
  /\ num' = Uncounted(w)
  /\ Goto(t, "unlockR")
  /\ UNCHANGED <<obj, curIndex, spin, rwlock, xthread, heap, locals, history, bounds>>

UnlockGlobal(t) ==
  /\ pc[t] = "unlockR"
  /\ readers' = readers \ {t}
  /\ Goto(t, "unlockS")
  /\ UNCHANGED <<table, spin, writer, xthread, heap, locals, history, bounds>>

\* A free goes on to Real::free, an allocation that placed its watch returns,
\* one that did not tries the next slot.
UnlockSlot(t) ==
  /\ pc[t] = "unlockS"
  /\ spin' = [spin EXCEPT ![slot[t]] = NoThread]
  /\ \/ /\ op[t] = "free"
        /\ Goto(t, "release")
        /\ UNCHANGED <<heap, arg, slot, left>>
     \/ /\ op[t] = "placed"
        /\ ReturnObject(t)
        /\ UNCHANGED <<slot, left>>
     \/ /\ op[t] \in {"install", "steal"}
        /\ NextIteration(t)
        /\ UNCHANGED <<heap, arg>>
  /\ UNCHANGED <<table, rwlock, xthread, op, history, bounds>>

\* Real::free.
Release(t) ==
  /\ pc[t] = "release"
  /\ heap' = [heap EXCEPT ![arg[t]] = "free"]
  /\ arg' = [arg EXCEPT ![t] = NoObject]
  /\ Goto(t, "app")
  /\ UNCHANGED <<table, spin, rwlock, xthread, op, slot, left, history, bounds>>

-----------------------------------------------------------------------------
(* thread_create, startThread and threadExit *)

InPc(labels) == {t \in Threads : pc[t] \in labels}

\* The application stays within the limit: allocThreadIndex finds an index.
Create(t) ==
  /\ BeginCall(t)
  /\ Cardinality(InPc({"absent"})) > Cardinality(InPc({"cwlock", "cspawn"}))
  /\ Goto(t, "cwlock")
  /\ UNCHANGED <<table, spin, rwlock, xthread, heap, locals, history>>

\* Mutant of CanWrite: the writer does not wait for the readers.
CanWriteAmongReaders == writer = NoThread

\* The global lock may be taken in write mode.
CanWrite == writer = NoThread /\ readers = {}

WriteLock(t, from, to) ==
  /\ pc[t] = from
  /\ CanWrite
  /\ writer' = t
  /\ Goto(t, to)
  /\ UNCHANGED <<table, spin, readers, xthread, heap, locals, history, bounds>>

LockCreate(t) == WriteLock(t, "cwlock", "cspawn")

\* allocThreadIndex searches round robin; then the child is created.
Spawn(t) ==
  /\ pc[t] = "cspawn"
  /\ \E k \in Threads :
       LET Index(j) == (threadIndex + j) % MaxAliveThreads IN
       /\ pc[Index(k)] = "absent"
       /\ \A j \in 0..(k - 1) : pc[Index(j)] # "absent"
       /\ newborn' = Index(k)
       /\ threadIndex' = (Index(k) + 1) % MaxAliveThreads
       /\ pc' = [pc EXCEPT ![t] = "cbarrier", ![Index(k)] = "born"]
       /\ reused' = (reused \/ \E w \in Slots : fd[w][Index(k)] = "stale")
  /\ UNCHANGED <<table, spin, rwlock, alive, heap, locals, orphaned, bounds>>

\* setWatchpointByThread(current): the child opens its events, under its parent's lock.
Born(t) ==
  /\ pc[t] = "born"
  /\ fd' = [w \in Slots |-> IF used[w] THEN [fd[w] EXCEPT ![t] = "armed"] ELSE fd[w]]
  /\ orphaned' = (orphaned \/ \E w \in Slots : used[w] /\ Overwrites(w, {t}))
  /\ Goto(t, "wait")
  /\ UNCHANGED <<reused, used, obj, num, curIndex, spin, rwlock, xthread, heap, locals, bounds>>

\* It stops at the first slot `bad' that fails; nobody looks at its result.
BornFails(t) ==
  /\ pc[t] = "born"
  /\ failures > 0
  /\ failures' = failures - 1
  /\ \E bad \in Slots, how \in {"open", "fcntl", "enable"} :
       /\ used[bad]
       /\ fd' = [w \in Slots |->
                   CASE used[w] /\ w < bad -> [fd[w] EXCEPT ![t] = "armed"]
                     [] w = bad -> [fd[w] EXCEPT ![t] = IF how = "enable" THEN "idle" ELSE "none"]
                     [] OTHER -> fd[w]]
       /\ orphaned' = \/ orphaned
                      \/ how = "fcntl"
                      \/ \E w \in 0..bad : used[w] /\ Overwrites(w, {t})
  /\ Goto(t, "wait")
  /\ UNCHANGED <<reused, used, obj, num, curIndex, spin, rwlock, xthread, heap, locals, budget, ghosts>>

\* Both sides of the barrier leave it; the child starts to run the application.
Barrier(t) ==
  /\ pc[t] = "cbarrier"
  /\ pc[newborn] = "wait"
  /\ pc' = [pc EXCEPT ![t] = "cinsert", ![newborn] = "app"]
  /\ UNCHANGED <<table, spin, rwlock, xthread, heap, locals, history, bounds>>

\* listInsertTail, then the lock is released.
Insert(t) ==
  /\ pc[t] = "cinsert"
  /\ alive' = alive \cup {newborn}
  /\ newborn' = NoThread
  /\ writer' = NoThread
  /\ Goto(t, "app")
  /\ UNCHANGED <<table, spin, readers, threadIndex, heap, locals, history, bounds>>

\* The start routine of a thread returns.
Finish(t) ==
  /\ t # Main
  /\ pc[t] = "app"
  /\ Goto(t, "xwlock")
  /\ UNCHANGED <<table, spin, rwlock, xthread, heap, locals, history, bounds>>

LockExit(t) == WriteLock(t, "xwlock", "xexit")

\* Mutant of AfterExit: the loop of threadExit leaves the last slot out.
AfterExitButLast(w, t) ==
  IF fd[w][t] = "none" \/ w = MaxWatchpoints - 1 THEN fd[w][t] ELSE "stale"

\* disable_watchpoint closes whatever is not below 3, and the number stays in the table.
AfterExit(w, t) == IF fd[w][t] = "none" THEN "none" ELSE "stale"

\* threadExit closes the thread's number in every slot, in use or not.
Exit(t) ==
  /\ pc[t] = "xexit"
  /\ \E hits \in Struck(Column(t)) :
       fd' = [w \in Slots |-> [u \in Threads |->
                IF u = t THEN AfterExit(w, t)
                ELSE IF <<w, u>> \in hits THEN "lapsed" ELSE fd[w][u]]]
  /\ alive' = alive \ {t}
  /\ writer' = NoThread
  /\ Goto(t, "absent")
  /\ ghosts' \in {ghosts} \cup {g \in {ghosts + 1} : g <= MaxGhosts}
  /\ UNCHANGED <<used, obj, num, curIndex, spin, readers, threadIndex, newborn, heap, locals,
                 history, budget, failures>>

\* A destructor of an exited thread frees an object: its detector is off, so the
\* watchpoint stays.
GhostFree ==
  /\ ghosts > 0
  /\ ghosts' = ghosts - 1
  /\ \E o \in Objects :
       /\ heap[o] = "live"
       /\ heap' = [heap EXCEPT ![o] = "free"]
  /\ UNCHANGED <<table, spin, rwlock, xthread, pc, locals, history, budget, failures>>

-----------------------------------------------------------------------------

\* The bound on calls is used up and every call has returned.
Done ==
  /\ budget = 0
  /\ \A t \in Threads : pc[t] \in PcApp
  /\ UNCHANGED vars

AppCall(t) == Malloc(t) \/ Calloc(t) \/ Free(t) \/ Create(t) \/ Finish(t)

SetStep(t) ==
  \/ TryInstall(t) \/ SkipInstall(t) \/ TrySteal(t) \/ NoSteal(t)
  \/ ProbeTake(t) \/ ProbeSkip(t) \/ LoopEnd(t) \/ LockSlot(t)
  \/ DecideTake(t) \/ DecideLeave(t) \/ LockGlobal(t)
  \/ Claim(t) \/ Arm(t) \/ ArmFails(t)

StopStep(t) ==
  \/ ScanHit(t) \/ ScanMiss(t) \/ LockFound(t) \/ RecheckHit(t) \/ RecheckMiss(t)
  \/ LockGlobalFree(t) \/ Disable(t) \/ Release(t)

UnlockStep(t) == UnlockGlobal(t) \/ UnlockSlot(t)

ThreadStep(t) ==
  \/ LockCreate(t) \/ Spawn(t) \/ Born(t) \/ BornFails(t) \/ Barrier(t) \/ Insert(t)
  \/ LockExit(t) \/ Exit(t)

LibraryStep(t) == SetStep(t) \/ StopStep(t) \/ UnlockStep(t) \/ ThreadStep(t)

Next ==
  \/ \E t \in Threads : AppCall(t) \/ LibraryStep(t)
  \/ GhostFree
  \/ Done

Spec == Init /\ [][Next]_vars

\* The scheduler runs every thread that can take a step; the application may stop calling.
Fairness == \A t \in Threads : WF_vars(LibraryStep(t))

FairSpec == Spec /\ Fairness

-----------------------------------------------------------------------------
(* Properties *)

TypeOK ==
  /\ used \in [Slots -> BOOLEAN]
  /\ obj \in [Slots -> Objects \cup {NoObject}]
  /\ fd \in [Slots -> [Threads -> FdState]]
  /\ spin \in [Slots -> Threads \cup {NoThread}]
  /\ num \in Int /\ curIndex \in Slots
  /\ readers \subseteq Threads /\ writer \in Threads \cup {NoThread}
  /\ alive \subseteq Threads /\ threadIndex \in Threads
  /\ newborn \in Threads \cup {NoThread}
  /\ heap \in [Objects -> HeapState]
  /\ pc \in [Threads -> PcValues]
  /\ op \in [Threads -> Ops]
  /\ arg \in [Threads -> Objects \cup {NoObject}]
  /\ slot \in [Threads -> Slots]
  /\ left \in [Threads -> Int]
  /\ orphaned \in BOOLEAN /\ reused \in BOOLEAN
  /\ budget \in Nat /\ failures \in Nat /\ ghosts \in Nat

\* A slot between `isUsed = true' and the installation of its events.
MidInstall(w) == \E t \in Threads : pc[t] = "arm" /\ slot[t] = w

\* The slots whose watch is in place.
Settled == {w \in Slots : used[w] /\ ~MidInstall(w)}

(***************************************************************************)
(* Every open perf event is that of a slot in use and of a thread that is  *)
(* on the alive list or about to be put there: neither a stolen slot, nor  *)
(* a roll-back, nor a thread that exits between two steps of another one's *)
(* installation leaves a hardware breakpoint armed.                        *)
(***************************************************************************)
EventsOwned ==
  \A w \in Slots, t \in Threads :
    fd[w][t] \in Open => used[w] /\ t \in alive \cup {newborn}

(***************************************************************************)
(* As long as no installation fails, every watched object is watched in    *)
(* every alive thread, whether the thread was there when the watch was set *)
(* or was created later, while slots were installed, stolen or removed.    *)
(* One thing only may end a watch early: threadExit leaves the numbers of  *)
(* the events it closes, and the next thread with that index, or a watch   *)
(* pushed out of the slot, closes them again, whatever they denote by then *)
(* (setWatchpointByThread writes over those of the slots in use only).     *)
(***************************************************************************)
Watching(w, t) == fd[w][t] = "armed" \/ (reused /\ fd[w][t] = "lapsed")

Covered == \A w \in Settled, t \in alive : Watching(w, t)

(***************************************************************************)
(* The counter never falls below the number of slots in use, so that       *)
(* startWatch's test `_numWatchpoints < MAX_WATCHPOINTS' sends an          *)
(* allocation to setWatchpoint only when some slot is not settled in use.  *)
(***************************************************************************)
CountCoversUsed == num >= Cardinality(Settled)

(***************************************************************************)
(* Whoever holds the global lock in read mode is on the alive list, so     *)
(* that a watch it installs is armed in its own thread: a child that has   *)
(* left the barrier cannot overtake its parent's listInsertTail.           *)
(***************************************************************************)
ReadersAlive == readers \subseteq alive

(***************************************************************************)
(* xxfree's first step: a slot in use never watches memory that has been   *)
(* given back to the allocator.                                            *)
(***************************************************************************)
FreedNotWatched == \A w \in Slots : used[w] => heap[obj[w]] # "free"

(***************************************************************************)
(* No object occupies two slots, although the table is searched without    *)
(* its locks; otherwise a free would remove only the first watch.          *)
(***************************************************************************)
OneSlotPerObject ==
  \A v, w \in Slots : used[v] /\ used[w] /\ obj[v] = obj[w] => v = w

\* No perf event stays open without a reference in the table.
NoOrphans == ~orphaned

(***************************************************************************)
(* A watched object is pushed out of its slot only by a stealing call of   *)
(* setWatchpoint, never by one that was to take a free slot and had found  *)
(* the slot free before it had the lock.                                   *)
(***************************************************************************)
OnlyStealsEvict ==
  [][\A w \in Slots : used[w] /\ obj'[w] # obj[w]
        => \E t \in Threads : spin[w] = t /\ slot[t] = w /\ op[t] = "steal"]_vars

\* The objects with a slot in use.
Watched == {obj[w] : w \in {v \in Slots : used[v]}}

(***************************************************************************)
(* What the table promises, in the terms of WatchSet.                      *)
(***************************************************************************)
WS == INSTANCE WatchSet WITH
        stage   <- heap,
        watched <- Watched

\* As long as no installation fails and objects are freed with the detector on, the
\* table implements that promise: a watch ends only by a steal or by its own free.
ImplementsWatchSet == WS!Spec

\* Every call returns: no thread waits forever for a slot, for the global lock or
\* at the barrier.
CallsReturn == \A t \in Threads : pc[t] \notin PcApp ~> pc[t] \in PcApp

=============================================================================
