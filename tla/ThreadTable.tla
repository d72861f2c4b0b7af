----------------------------- MODULE ThreadTable -----------------------------
(***************************************************************************)
(* The table of threads (xthread.hh), its list (list.hh), and the switch   *)
(* of the detector that each thread has (isWatching), as the interposed    *)
(* calls use them (libcauser.cpp).  A thread takes a record under the      *)
(* global write lock when it is created, is put on the list of alive       *)
(* threads by its parent, and gives the record back when it ends.  Every   *)
(* interposed call switches the detector off and then to what it was, also *)
(* if it runs inside another, or in a signal handler inside another.       *)
(*                                                                         *)
(* fork leaves one process here: the parent or the child, in which only    *)
(* the caller goes on, with a new table, and with the locks as they were.  *)
(* What the watchpoints do with the list is the matter of Watchpoints: of  *)
(* it there is only the read lock here.                                    *)
(***************************************************************************)
EXTENDS Naturals, Sequences, FiniteSets

CONSTANTS
  NThreads,       \* bound: threads of the program, ended ones included
  MAX_ALIVE_THREADS,
  MaxCalls,       \* bound: interposed calls
  MaxDepth,       \* bound: calls and handlers inside each other
  MaxHandlers,    \* bound: signals handled
  MaxForks,       \* bound: calls of fork
  MaxCancelled    \* bound: threads cancelled

ASSUME ThreadTableAssumption ==
  /\ {NThreads, MAX_ALIVE_THREADS, MaxDepth} \subseteq Nat \ {0}
  /\ {MaxCalls, MaxHandlers, MaxForks, MaxCancelled} \subseteq Nat

Threads == 1..NThreads
Main == 1
Records == 0..(MAX_ALIVE_THREADS - 1)
Anchor == MAX_ALIVE_THREADS          \* the list's own node, _aliveThreadsList
Nodes == Records \cup {Anchor}
Nobody == 0

VARIABLES
  list,              \* next and prev of each node
  available,         \* of each record
  totalAliveThreads, threadIndex,
  writer, readers,   \* who holds the global lock
  gone,              \* fork: a thread that is not in the child holds the lock for reading, writing
  current,           \* of each thread: its record
  stack,             \* of each thread: what it is in, the outermost first; <<>> when it has ended
  watching,          \* of each thread: isWatching
  pc,                \* of each thread: where in its innermost call
  state,             \* of the process: "runs", "aborted", or "undefined"
  born,              \* threads created so far
  forkedInside,      \* history: fork was called where the detector was off
  used               \* history: calls, handlers, forks and cancellations used up

table == <<list, available, totalAliveThreads, threadIndex>>
lock == <<writer, readers, gone>>
history == <<state, born, forkedInside>>
vars == <<table, lock, current, stack, watching, pc, history, used>>

-----------------------------------------------------------------------------
(* list.hh *)

nodeInit(l, n) == [next |-> [l.next EXCEPT ![n] = n], prev |-> [l.prev EXCEPT ![n] = n]]

insertBetween(l, n, p, x) ==
  [next |-> [l.next EXCEPT ![n] = x, ![p] = n], prev |-> [l.prev EXCEPT ![n] = p, ![x] = n]]

listInsertTail(l, n, h) == insertBetween(l, n, l.prev[h], h)

listLink(l, p, x) == [next |-> [l.next EXCEPT ![p] = x], prev |-> [l.prev EXCEPT ![x] = p]]

\* Mutant of listRemoveNode: only the way forward is mended.
listRemoveNodeForward(l, n) == nodeInit([l EXCEPT !.next[l.prev[n]] = l.next[n]], n)

listRemoveNode(l, n) == nodeInit(listLink(l, l.prev[n], l.next[n]), n)

-----------------------------------------------------------------------------

\* The record that allocThreadIndex takes: the first available from threadIndex on.
Taken ==
  LET After(i) == (threadIndex + i) % MAX_ALIVE_THREADS
      steps == {i \in Records : available[After(i)]}
  IN  After(CHOOSE i \in steps : \A j \in steps : i <= j)

\* allocThreadIndex when a record is left.
allocThreadIndex(r) ==
  /\ available' = [available EXCEPT ![r] = FALSE]
  /\ totalAliveThreads' = totalAliveThreads + 1
  /\ threadIndex' = (r + 1) % MAX_ALIVE_THREADS
  /\ list' = nodeInit(list, r)

\* A table with the caller in record 0: initialize, reInitializeAtRuntime.
Fresh(l) == listInsertTail(nodeInit(nodeInit(l, Anchor), 0), 0, Anchor)

App == [fn |-> "app", was |-> TRUE]

Init ==
  /\ list = Fresh([next |-> [n \in Nodes |-> n], prev |-> [n \in Nodes |-> n]])
  /\ available = [r \in Records |-> r # 0]
  /\ totalAliveThreads = 1
  /\ threadIndex = 1 % MAX_ALIVE_THREADS
  /\ writer = Nobody /\ readers = {} /\ gone = "none"
  /\ current = [t \in Threads |-> 0]
  /\ stack = [t \in Threads |-> IF t = Main THEN <<App>> ELSE <<>>]
  /\ watching = [t \in Threads |-> t = Main]
  /\ pc = [t \in Threads |-> "runs"]
  /\ state = "runs" /\ born = 1 /\ forkedInside = FALSE
  /\ used = [calls |-> 0, handlers |-> 0, forks |-> 0, cancelled |-> 0]

-----------------------------------------------------------------------------
(* Calls and signals *)

Goto(t, label) == pc' = [pc EXCEPT ![t] = label]

In(t) == stack[t][Len(stack[t])].fn

Runs(t, fns) == state = "runs" /\ stack[t] # <<>> /\ pc[t] = "runs" /\ In(t) \in fns

Use(what, bound) == used[what] < bound /\ used' = [used EXCEPT ![what] = @ + 1]

Enter(t, fn) ==
  /\ Len(stack[t]) < MaxDepth
  /\ stack' = [stack EXCEPT ![t] = Append(@, [fn |-> fn, was |-> watching[t]])]

Leave(t) == stack' = [stack EXCEPT ![t] = SubSeq(@, 1, Len(@) - 1)]

Set(t, on) == watching' = [watching EXCEPT ![t] = on]

\* A call that is wrapped by COND_DISABLE and COND_ENABLE: by the application, by a handler,
\* or by startWatch (backtrace).
CondDisable(t) ==
  /\ Runs(t, {"app", "handler", "install", "installed"})
  /\ Use("calls", MaxCalls)
  /\ Enter(t, "cond") /\ Set(t, FALSE)
  /\ UNCHANGED <<table, lock, current, pc, history>>

\* Mutant of Restored: the detector is switched on whatever it was.
RestoredAlways(t) == TRUE

\* COND_ENABLE: what the innermost call found.
Restored(t) == watching[t] \/ stack[t][Len(stack[t])].was

CondEnable(t) ==
  /\ Runs(t, {"cond"})
  /\ Leave(t) /\ Set(t, Restored(t))
  /\ UNCHANGED <<table, lock, current, pc, history, used>>

\* xxmalloc_install_watchpoint: the application or a real function has called malloc.
Install(t) ==
  /\ Runs(t, {"app", "cond", "install", "installed"})
  /\ watching[t]
  /\ Use("calls", MaxCalls)
  /\ Enter(t, "install") /\ Set(t, FALSE)
  /\ UNCHANGED <<table, lock, current, pc, history>>

\* setWatchpoint reads the list of threads: once here, for the one slot it takes.
InstallReads(t) ==
  /\ Runs(t, {"install"})
  /\ writer = Nobody /\ gone # "writing" /\ t \notin readers
  /\ readers' = readers \cup {t}
  /\ UNCHANGED <<table, writer, gone, current, stack, watching, pc, history, used>>

InstallRead(t) ==
  /\ Runs(t, {"install"}) /\ t \in readers
  /\ readers' = readers \ {t}
  /\ stack' = [stack EXCEPT ![t][Len(stack[t])].fn = "installed"]
  /\ UNCHANGED <<table, writer, gone, current, watching, pc, history, used>>

Installed(t) ==
  /\ Runs(t, {"install", "installed"}) /\ t \notin readers
  /\ Leave(t) /\ Set(t, TRUE)
  /\ UNCHANGED <<table, lock, current, pc, history, used>>

\* A signal handler of the application begins, wherever the thread is, and returns.
Handler(t) ==
  /\ Runs(t, {"app", "cond", "install", "installed"})
  /\ Use("handlers", MaxHandlers)
  /\ Enter(t, "handler")
  /\ UNCHANGED <<table, lock, current, watching, pc, history>>

HandlerReturns(t) ==
  /\ Runs(t, {"handler"})
  /\ Leave(t)
  /\ UNCHANGED <<table, lock, current, watching, pc, history, used>>

-----------------------------------------------------------------------------
(* Threads *)

\* acquireGlobalWLock.
WriteLock(t, from, to) ==
  /\ state = "runs" /\ stack[t] # <<>> /\ pc[t] = from
  /\ writer = Nobody /\ readers = {} /\ gone = "none"
  /\ writer' = t
  /\ Goto(t, to)
  /\ UNCHANGED <<table, readers, gone, current, stack, watching, history, used>>

\* Mutant of releaseGlobalLock: forgotten.
releaseGlobalLockNot == writer' = writer

releaseGlobalLock == writer' = Nobody

\* pthread_create.
Create(t) ==
  /\ Runs(t, {"app"})
  /\ born + Cardinality({u \in Threads : pc[u] \in {"cwlock", "calloc"}}) < NThreads
  /\ Use("calls", MaxCalls)
  /\ Enter(t, "create") /\ Set(t, FALSE)
  /\ Goto(t, "cwlock")
  /\ UNCHANGED <<table, lock, current, history>>

LockCreate(t) == WriteLock(t, "cwlock", "calloc")

Creating(t) == state = "runs" /\ pc[t] = "calloc"

\* allocThreadIndex gives -1: record -1 is written to.
NoRecord(t) ==
  /\ Creating(t)
  /\ totalAliveThreads >= MAX_ALIVE_THREADS
  /\ state' = "undefined"
  /\ UNCHANGED <<table, lock, current, stack, watching, pc, born, forkedInside, used>>

Spawn(t) ==
  /\ Creating(t)
  /\ totalAliveThreads < MAX_ALIVE_THREADS
  /\ allocThreadIndex(Taken)
  /\ born' = born + 1
  /\ current' = [current EXCEPT ![born + 1] = Taken]
  /\ stack' = [stack EXCEPT ![born + 1] = <<App>>]
  /\ pc' = [pc EXCEPT ![t] = "cbarrier", ![born + 1] = "begin"]
  /\ UNCHANGED <<lock, watching, state, forkedInside, used>>

\* Real::pthread_create fails.
SpawnFails(t) ==
  /\ Creating(t)
  /\ totalAliveThreads < MAX_ALIVE_THREADS
  /\ allocThreadIndex(Taken)
  /\ state' = "aborted"
  /\ UNCHANGED <<lock, current, stack, watching, pc, born, forkedInside, used>>

\* startThread up to the barrier.
Begin(t) ==
  /\ state = "runs" /\ pc[t] = "begin"
  /\ Set(t, FALSE)
  /\ Goto(t, "barrier")
  /\ UNCHANGED <<table, lock, current, stack, history, used>>

\* Both have come to the child's barrier.
Meet(t, child) ==
  /\ state = "runs" /\ pc[t] = "cbarrier" /\ pc[child] = "barrier"
  /\ writer = t
  /\ pc' = [pc EXCEPT ![t] = "cinsert", ![child] = "enable"]
  /\ UNCHANGED <<table, lock, current, stack, watching, history, used>>

\* Only the youngest thread can be at its barrier.
Insert(t) ==
  /\ state = "runs" /\ pc[t] = "cinsert"
  /\ list' = listInsertTail(list, current[born], Anchor)
  /\ releaseGlobalLock
  /\ Goto(t, "creturn")
  /\ UNCHANGED <<available, totalAliveThreads, threadIndex, readers, gone, current, stack, watching,
                 history, used>>

CreateReturns(t) ==
  /\ state = "runs" /\ pc[t] = "creturn"
  /\ Leave(t) /\ Set(t, Restored(t))
  /\ Goto(t, "runs")
  /\ UNCHANGED <<table, lock, current, history, used>>

\* startThread calls the thread's function.
Enable(t) ==
  /\ state = "runs" /\ pc[t] = "enable"
  /\ Set(t, TRUE)
  /\ Goto(t, "runs")
  /\ UNCHANGED <<table, lock, current, stack, history, used>>

\* The function returns, or pthread_exit throws: startThread switches the detector off.
Finish(t) ==
  /\ Runs(t, {"app"}) /\ t # Main
  /\ Set(t, FALSE)
  /\ Goto(t, "xwlock")
  /\ UNCHANGED <<table, lock, current, stack, history, used>>

LockExit(t) == WriteLock(t, "xwlock", "xremove")

\* threadExit.
Exit(t) ==
  /\ state = "runs" /\ pc[t] = "xremove"
  /\ available' = [available EXCEPT ![current[t]] = TRUE]
  /\ list' = listRemoveNode(list, current[t])
  /\ totalAliveThreads' = totalAliveThreads - 1
  /\ releaseGlobalLock
  /\ stack' = [stack EXCEPT ![t] = <<>>]
  /\ Goto(t, "ended")
  /\ UNCHANGED <<threadIndex, readers, gone, current, watching, history, used>>

\* A cancelled thread unwinds past startThread, which catches pthread_exit's int only.
Cancelled(t) ==
  /\ Runs(t, {"app", "cond"}) /\ t # Main
  /\ \A i \in DOMAIN stack[t] : stack[t][i].fn \in {"app", "cond"}
  /\ Use("cancelled", MaxCancelled)
  /\ stack' = [stack EXCEPT ![t] = <<>>]
  /\ Goto(t, "ended")
  /\ UNCHANGED <<table, lock, current, watching, history>>

-----------------------------------------------------------------------------
(* fork *)

Fork(t) ==
  /\ Runs(t, {"app", "handler"})
  /\ Use("forks", MaxForks)
  /\ forkedInside' = (forkedInside \/ ~watching[t])
  /\ Set(t, TRUE)

\* The parent goes on, also when no child could be made.
Parent(t) ==
  /\ Fork(t)
  /\ UNCHANGED <<table, lock, current, stack, pc, state, born>>

\* The child goes on: without the other threads, but with the lock as they held it.
Child(t) ==
  /\ Fork(t)
  /\ list' = Fresh(list)
  /\ available' = [r \in Records |-> r # 0]
  /\ totalAliveThreads' = 1
  /\ threadIndex' = 1 % MAX_ALIVE_THREADS
  /\ gone' = IF writer \notin {Nobody, t} \/ gone = "writing" THEN "writing"
             ELSE IF readers \ {t} # {} \/ gone = "reading" THEN "reading" ELSE "none"
  /\ writer' = Nobody /\ readers' = readers \cap {t}
  /\ current' = [current EXCEPT ![t] = 0]
  /\ stack' = [u \in Threads |-> IF u = t THEN stack[t] ELSE <<>>]
  /\ pc' = [u \in Threads |-> IF u = t THEN pc[t] ELSE "ended"]
  /\ UNCHANGED <<state, born>>

-----------------------------------------------------------------------------

Step(t) ==
  \/ CondEnable(t) \/ InstallRead(t) \/ Installed(t) \/ HandlerReturns(t)
  \/ LockCreate(t) \/ NoRecord(t) \/ Spawn(t) \/ SpawnFails(t) \/ Begin(t)
  \/ (\E c \in Threads : Meet(t, c)) \/ Insert(t) \/ CreateReturns(t) \/ Enable(t)
  \/ LockExit(t) \/ Exit(t)

Next ==
  \E t \in Threads :
    \/ CondDisable(t) \/ Install(t) \/ InstallReads(t) \/ Handler(t) \/ Create(t) \/ Finish(t)
    \/ Cancelled(t) \/ Parent(t) \/ Child(t) \/ Step(t)

Spec == Init /\ [][Next]_vars

\* A thread that is in the library goes on; the application may stop.
FairSpec == Spec /\ \A t \in Threads : WF_vars(Step(t))

-----------------------------------------------------------------------------

\* The record that is taken, but not yet on the list.
Newborn == IF \E t \in Threads : pc[t] \in {"cbarrier", "cinsert"} THEN {current[born]} ELSE {}

\* Both ways round the list lead from each node of S through all others, and nowhere else.
Ring(S) ==
  /\ \A n \in S : list.next[n] \in S /\ list.prev[list.next[n]] = n
  /\ \A X \in SUBSET S : Anchor \in X /\ (\A n \in X : list.next[n] \in X) => X = S

(* The table, the list and the count say the same, whatever the order of   *)
(* creations and exits, also in a child of fork (allocThreadIndex,         *)
(* threadExit, listInsertTail, listRemoveNode, reInitializeAtRuntime): the *)
(* list is a ring of just the records that are taken, but for one whose    *)
(* thread is being created; these are counted; and each thread has a       *)
(* record of its own.  A cancelled thread's record stays taken.            *)
RecordsAgree ==
  state = "runs" =>
    LET taken == {r \in Records : ~available[r]} IN
      /\ totalAliveThreads = Cardinality(taken)
      /\ Ring((taken \ Newborn) \cup {Anchor})
      /\ \A t, u \in {v \in Threads : stack[v] # <<>>} :
           current[t] \in taken /\ (current[t] = current[u] => t = u)

(* The detector of a thread is on just in the application's own code and   *)
(* in handlers that interrupt it, and never in startWatch, which would     *)
(* otherwise be entered again by its own calls (isWatching, COND_DISABLE,  *)
(* COND_ENABLE, xxmalloc_install_watchpoint, startThread).  fork must not  *)
(* have been called where the detector is off: it leaves it on.            *)
DetectsApplication ==
  ~forkedInside =>
    \A t \in Threads :
      pc[t] = "runs" /\ stack[t] # <<>> =>
        (watching[t] <=> \A i \in DOMAIN stack[t] : stack[t][i].fn \in {"app", "handler"})

(* A creation ends (thread_create, startThread, threadExit): parent and    *)
(* child meet at the barrier, and the write lock comes free.  Not in a     *)
(* child of fork in which the lock is held by a thread left behind.        *)
CreationsEnd ==
  \A t \in Threads :
    pc[t] \in {"cwlock", "calloc", "cbarrier", "cinsert", "creturn"}
      ~> pc[t] \in {"runs", "ended"} \/ state # "runs" \/ gone # "none"
=============================================================================
