------------------------------ MODULE TrapReport ------------------------------
(***************************************************************************)
(* The handler of SIGTRAP (watchpoint.cpp): it runs in the thread that     *)
(* touched a watched word, decides by the frames of the stack whether that *)
(* was a mistake, finds the slot whose descriptor the signal names, and    *)
(* reports the call stack of the slot's object.  It holds the global lock  *)
(* only for reading, as do those who steal a slot or give one up, and no   *)
(* slot's spinlock; so the table changes while it looks, and the kernel    *)
(* gives numbers of closed descriptors to new events.                      *)
(*                                                                         *)
(* The table is that of Watchpoints, with the steps of setWatchpoint and   *)
(* disableWatchpoint that a handler can tell apart.  The thread that is    *)
(* created or exits holds the global lock for writing, so that no handler  *)
(* sees it at work.  The word behind an object, its size and its call      *)
(* stack are given by the object.                                          *)
(***************************************************************************)
EXTENDS Integers, FiniteSets, FiniteSetsExt, Sequences

CONSTANTS
  NThreads,     \* how many thread indices there are
  Objects,      \* heap objects, each allocated once
  NoObject,     \* what a slot holds before it was ever used
  WPs,          \* how many slots there are: MAX_WATCHPOINTS
  MaxCalls,     \* bound: accesses, installations, frees, creations and exits
  MaxFailures   \* bound: creations whose events fail

ASSUME TrapAssumption ==
  /\ NoObject \notin Objects
  /\ WPs \in Nat \ {0} /\ NThreads \in Nat \ {0}
  /\ MaxCalls \in Nat /\ MaxFailures \in Nat

Slots   == 1..WPs
Threads == 1..NThreads

\* The numbers the kernel hands out, the lowest first: as many as may be in use.
Numbers == 3..(2 + WPs * NThreads)

VARIABLES
  alive,     \* the list of alive threads
  isUsed, addr, callstack, fd,   \* watchpointObject; addr and callstack by their object
  spin,      \* slots whose spinlock is taken
  event,     \* perf events by their number
  live,      \* objects that were allocated and not freed
  smashed,   \* objects whose tail canary was overwritten
  pc,        \* what each thread is about to do
  slot,      \* the slot it is working on; 0 for none
  new,       \* the object it wants to watch, or NoObject if it gives the slot up
  todo,      \* threads whose events it has yet to close or open
  sig,       \* si_fd of the signal it handles
  isread,    \* what it takes the access for
  access,    \* history: the object it touched, where its code is, and whether it wrote
  told,      \* history: the call stack reported by its last signal
  early,     \* history: whether the slot it found had not got the numbers of its object yet
  evicted,   \* history: whether its event has been closed since the signal
  echoed,    \* history: whether a handler has set off an event, its own being open
  lapsed,    \* history: whether some handler has touched an event that was no longer its own
  foreign,   \* history: whether a thread's exit has closed another thread's event
  calls, failures

table == <<isUsed, addr, callstack, fd>>
sigs  == <<sig, isread, access, told, early>>
vars  == <<alive, table, spin, event, live, smashed, pc, slot, new, todo, sigs, evicted,
           echoed, lapsed, foreign, calls, failures>>

Closed == [object |-> NoObject, thread |-> 0, on |-> FALSE]

None == [object |-> NoObject, place |-> "none", write |-> FALSE]

\* One object is watched, and a thread may have exited since: the instances would take long to
\* get there.
Init ==
  /\ alive \in {Threads} \cup {Threads \ {t} : t \in Threads \ {1}}
  /\ isUsed = [s \in Slots |-> s = 1]
  /\ \E o \in Objects :
       /\ addr = [s \in Slots |-> IF s = 1 THEN o ELSE NoObject] /\ callstack = addr
       /\ event = [n \in Numbers |->
                    IF n - 2 \in alive THEN [object |-> o, thread |-> n - 2, on |-> TRUE]
                    ELSE Closed]
       /\ live = {o}
  /\ fd = [s \in Slots |-> [t \in Threads |-> IF s = 1 THEN t + 2 ELSE 0]]
  /\ spin = {} /\ smashed = {}
  /\ pc = [t \in Threads |-> "app"]
  /\ slot = [t \in Threads |-> 0]
  /\ new = [t \in Threads |-> NoObject]
  /\ todo = [t \in Threads |-> {}]
  /\ sig = [t \in Threads |-> 0]
  /\ isread = [t \in Threads |-> FALSE]
  /\ access = [t \in Threads |-> None]
  /\ told = [t \in Threads |-> NoObject]
  /\ early = [t \in Threads |-> FALSE]
  /\ evicted = [t \in Threads |-> FALSE]
  /\ echoed = FALSE /\ lapsed = FALSE /\ foreign = FALSE
  /\ calls = 0 /\ failures = 0

Goto(t, label) == pc' = [pc EXCEPT ![t] = label]

InHandler(t) ==
  pc[t] \in {"trap", "lookup", "disable", "look", "enable", "tell", "release"}

\* The threads that hold the global lock for reading.
Readers == {t \in Threads : pc[t] \in {"lookup", "disable", "look", "enable", "tell", "release",
                                       "close", "cs", "open"}}

Call(t) ==
  /\ t \in alive /\ pc[t] = "app"
  /\ calls < MaxCalls
  /\ calls' = calls + 1

-----------------------------------------------------------------------------
(* The kernel *)

Free == {n \in Numbers : event[n] = Closed}

\* The numbers of new events for a set of slots, in order: the lowest that are free.
Given(slots) ==
  {given \in [slots -> Free] :
     /\ \A r, s \in slots : r < s => given[r] < given[s]
     /\ \A n \in Free, s \in slots : n < given[s] => \E r \in slots : given[r] = n}

\* disable_watchpoint of each of the numbers.
Without(numbers) == [n \in Numbers |-> IF n \in numbers THEN Closed ELSE event[n]]

\* Handlers whose event is one of the numbers.
Evict(numbers) ==
  evicted' = [t \in Threads |-> evicted[t] \/ (InHandler(t) /\ sig[t] \in numbers)]

\* The events that an access of thread t to the word behind object o sets off.
Hits(t, o) == {n \in Numbers : event[n] = [object |-> o, thread |-> t, on |-> TRUE]}

-----------------------------------------------------------------------------
(* The frames of a stack, innermost first, by what selfmap and dladdr say of them *)

\* "causer": the library itself; "pthread": libpthread; "restorer": the frame of the signal,
\* at libc's offset 0x352f0; "listed": a libc function of checkGlibcWL; "libc": another one;
\* "ld": the dynamic linker, "ldsym": where it has a symbol; "twin": at an offset of the list,
\* but not in libc; "app".
Places == {"listed", "libc", "ld", "ldsym", "twin", "app"}

\* How the frame of the signal looks depends on the libraries of the system.
Backtraces(place) ==
  {own \o s \o <<place, "app">> :
     own \in {<<"causer">>, <<"causer", "causer">>}, s \in {<<"pthread">>, <<"restorer">>}}

isPthreadLibrary(f) == f = "pthread"
isLibcLibrary(f)    == f \in {"listed", "libc", "restorer"}

\* Mutant of checkGlibcWL: the whole of libc.
checkGlibcAny(f) == f \in {"listed", "libc", "twin", "ld"}

\* By the offset, in whatever library, or by the library if there is no symbol.
checkGlibcWL(f) == f \in {"listed", "twin", "ld"}

FirstFrom(array, i, Wanted(_)) == Min({k \in i..Len(array) : Wanted(array[k])})

\* benignBF for an instruction at a place, found below the frames of array.  Whether selfmap
\* knows the library's own frames depends on where the library is installed.
Benign(place, array, known) ==
  LET NotOwn(f)    == ~(known /\ f = "causer")
      NotSignal(f) == f # "restorer"
      outside == FirstFrom(array, 1, NotOwn)
      it == IF isPthreadLibrary(array[outside]) THEN outside + 1 ELSE outside IN
  \/ isLibcLibrary(place) /\ checkGlibcWL(place)
  \/ IF isLibcLibrary(array[it])
     THEN checkGlibcWL(array[FirstFrom(array, it, NotSignal)])
     ELSE array[it] \in {"ld", "ldsym"}

-----------------------------------------------------------------------------
(* The application touches the word behind an object *)

\* The signal interrupts the thread at once.  While its detector is off, which is when it is in
\* the library, the handler returns at once: such accesses are left out.
Access(t) ==
  /\ Call(t)
  /\ \E o \in live, place \in Places, write \in BOOLEAN :
       /\ smashed' = smashed \cup IF write THEN {o} ELSE {}
       /\ IF Hits(t, o) = {}
          THEN UNCHANGED <<pc, sig, access>>
          ELSE /\ \E n \in Hits(t, o) : sig' = [sig EXCEPT ![t] = n]
               /\ access' = [access EXCEPT ![t] =
                               [object |-> o, place |-> place, write |-> write]]
               /\ Goto(t, "trap")
  /\ UNCHANGED <<alive, table, spin, event, live, slot, new, todo, isread, told, early, evicted,
                 echoed, lapsed, foreign, failures>>

-----------------------------------------------------------------------------
(* trapHandler *)

\* The handler's variables are gone when it returns.
Forget(t) ==
  /\ sig' = [sig EXCEPT ![t] = 0]
  /\ isread' = [isread EXCEPT ![t] = FALSE]
  /\ access' = [access EXCEPT ![t] = None]
  /\ told' = [told EXCEPT ![t] = NoObject]
  /\ early' = [early EXCEPT ![t] = FALSE]
  /\ evicted' = [evicted EXCEPT ![t] = FALSE]

\* The test of the frames, and acquireGlobalRLock: what creations and exits do under the lock
\* is one step here, so that it is free to readers.
Classify(t) ==
  /\ pc[t] = "trap"
  /\ \E array \in Backtraces(access[t].place), known \in BOOLEAN :
       IF Benign(access[t].place, array, known)
       THEN Goto(t, "app") /\ Forget(t)
       ELSE /\ Goto(t, "lookup")
            /\ access' = [access EXCEPT ![t].place = "none"]
            /\ UNCHANGED <<sig, isread, told, early, evicted>>
  /\ UNCHANGED <<alive, table, spin, event, live, smashed, slot, new, todo, echoed, lapsed,
                 foreign, calls, failures>>

\* Mutant of Has: whether slot and thread are in use does not matter.
HasEver(s, n) == \E t \in Threads : fd[s][t] = n

\* Mutant of Has: only the first thread's descriptor is compared.
HasFirst(s, n) == isUsed[s] /\ fd[s][Min(alive)] = n

Has(s, n) == isUsed[s] /\ \E t \in alive : fd[s][t] = n

\* Threads for which an installation into slot s has yet to open an event: the slot may have
\* the numbers of threads that exited while it was in use before.
Awaited(s) ==
  UNION {IF pc[w] = "cs" THEN alive ELSE IF pc[w] = "open" THEN todo[w] ELSE {} :
         w \in {v \in Threads : slot[v] = s}}

\* getWatchpointObjectByFd.
Lookup(t) ==
  /\ pc[t] = "lookup"
  /\ LET found == {s \in Slots : Has(s, sig[t])}
         s == Min(found) IN
       IF found = {}
       THEN Goto(t, "release") /\ UNCHANGED <<slot, early>>
       ELSE /\ Goto(t, "disable")
            /\ slot' = [slot EXCEPT ![t] = s]
            /\ early' = [early EXCEPT ![t] = \E u \in Awaited(s) : fd[s][u] = sig[t]]
  /\ UNCHANGED <<alive, table, spin, event, live, smashed, new, todo, sig, isread, access, told,
                 evicted, echoed, lapsed, foreign, calls, failures>>

\* ioctl of the signal's descriptor, which may be closed.
Switched(n, on) == [event EXCEPT ![n].on = (on /\ event[n] # Closed)]

\* It has touched an event that is not the one that sent the signal.
Lapse(t) == lapsed' = (lapsed \/ evicted[t])

\* PERF_EVENT_IOC_DISABLE.
Disable(t) ==
  /\ pc[t] = "disable"
  /\ event' = Switched(sig[t], FALSE)
  /\ Lapse(t)
  /\ Goto(t, "look")
  /\ UNCHANGED <<alive, table, spin, live, smashed, slot, new, todo, sigs, evicted, echoed,
                 foreign, calls, failures>>

\* The word at addr; the handler's own look may set off an event.
Look(t) ==
  /\ pc[t] = "look"
  /\ LET o == addr[slot[t]] IN
       /\ \E intact \in BOOLEAN :
            /\ o \in live => intact = (o \notin smashed)
            /\ isread' = [isread EXCEPT ![t] = intact]
       /\ echoed' = (echoed \/ (Hits(t, o) # {} /\ ~evicted[t] /\ ~early[t]))
  /\ Goto(t, "enable")
  /\ UNCHANGED <<alive, table, spin, event, live, smashed, slot, new, todo, sig, access, told,
                 early, evicted, lapsed, foreign, calls, failures>>

\* Mutant of Enabled: the event stays off.
EnabledNot(n) == event

Enabled(n) == Switched(n, TRUE)

\* PERF_EVENT_IOC_ENABLE.
Enable(t) ==
  /\ pc[t] = "enable"
  /\ event' = Enabled(sig[t])
  /\ Lapse(t)
  /\ Goto(t, "tell")
  /\ UNCHANGED <<alive, table, spin, live, smashed, slot, new, todo, sigs, evicted, echoed,
                 foreign, calls, failures>>

\* "This object is allocated at".
Tell(t) ==
  /\ pc[t] = "tell"
  /\ told' = [told EXCEPT ![t] = callstack[slot[t]]]
  /\ Goto(t, "release")
  /\ UNCHANGED <<alive, table, spin, event, live, smashed, slot, new, todo, sig, isread, access,
                 early, evicted, echoed, lapsed, foreign, calls, failures>>

Release(t) ==
  /\ pc[t] = "release"
  /\ Goto(t, "app")
  /\ slot' = [slot EXCEPT ![t] = 0]
  /\ Forget(t)
  /\ UNCHANGED <<alive, table, spin, event, live, smashed, new, todo, echoed, lapsed, foreign, calls,
                 failures>>

trapHandler(t) ==
  \/ Classify(t) \/ Lookup(t) \/ Disable(t) \/ Look(t) \/ Enable(t) \/ Tell(t)
  \/ Release(t)

-----------------------------------------------------------------------------
(* The table *)

\* setWatchpoint: a slot that is free, or stolen, for a new object.
Take(t) ==
  /\ Call(t)
  /\ \E s \in Slots \ spin, o \in Objects \ (live \cup {new[u] : u \in Threads}) :
       /\ smashed' = smashed \ {o}
       /\ spin' = spin \cup {s}
       /\ slot' = [slot EXCEPT ![t] = s]
       /\ new' = [new EXCEPT ![t] = o]
       /\ todo' = [todo EXCEPT ![t] = IF isUsed[s] THEN alive ELSE {}]
  /\ Goto(t, "close")
  /\ UNCHANGED <<alive, table, event, live, sigs, evicted, echoed, lapsed, foreign, failures>>

\* free, which calls disableWatchpointByAddr before it releases the object.
Unwatch(t) ==
  /\ Call(t)
  /\ \E o \in live :
       /\ \/ /\ \A s \in Slots : ~(isUsed[s] /\ callstack[s] = o)
             /\ live' = live \ {o}
             /\ UNCHANGED <<pc, spin, slot, todo>>
          \/ \E s \in Slots \ spin :
               /\ isUsed[s] /\ callstack[s] = o
               /\ spin' = spin \cup {s}
               /\ slot' = [slot EXCEPT ![t] = s]
               /\ todo' = [todo EXCEPT ![t] = alive]
               /\ Goto(t, "close")
               /\ UNCHANGED live
  /\ UNCHANGED <<alive, table, event, smashed, new, sigs, evicted, echoed, lapsed, foreign, failures>>

\* disable_watchpoint for one thread's event of the slot.
Close(t) ==
  /\ pc[t] = "close" /\ todo[t] # {}
  /\ \E u \in todo[t] :
       LET n == fd[slot[t]][u] IN
       /\ event' = Without({n}) /\ Evict({n})
       /\ fd' = [fd EXCEPT ![slot[t]][u] = 0]
       /\ todo' = [todo EXCEPT ![t] = @ \ {u}]
  /\ UNCHANGED <<alive, isUsed, addr, callstack, spin, live, smashed, pc, slot, new, sigs,
                 echoed, lapsed, foreign, calls, failures>>

\* A slot that was given up is free, and its object is released; or a new object's address
\* goes into it.
AfterClose(t) ==
  /\ pc[t] = "close" /\ todo[t] = {}
  /\ IF new[t] = NoObject
     THEN /\ isUsed' = [isUsed EXCEPT ![slot[t]] = FALSE]
          /\ live' = live \ {callstack[slot[t]]}
          /\ spin' = spin \ {slot[t]}
          /\ slot' = [slot EXCEPT ![t] = 0]
          /\ Goto(t, "app")
          /\ UNCHANGED addr
     ELSE /\ isUsed' = [isUsed EXCEPT ![slot[t]] = TRUE]
          /\ addr' = [addr EXCEPT ![slot[t]] = new[t]]
          /\ Goto(t, "cs")
          /\ UNCHANGED <<live, spin, slot>>
  /\ UNCHANGED <<alive, callstack, fd, event, smashed, new, todo, sigs, evicted, echoed,
                 lapsed, foreign, calls, failures>>

SetCallstack(t) ==
  /\ pc[t] = "cs"
  /\ callstack' = [callstack EXCEPT ![slot[t]] = new[t]]
  /\ todo' = [todo EXCEPT ![t] = alive]
  /\ Goto(t, "open")
  /\ UNCHANGED <<alive, isUsed, addr, fd, spin, event, live, smashed, slot, new, sigs, evicted,
                 echoed, lapsed, foreign, calls, failures>>

\* install_watchpoint and enable_watchpoint for one thread.
Open(t) ==
  /\ pc[t] = "open" /\ todo[t] # {}
  /\ \E u \in todo[t], given \in Given({slot[t]}) :
       LET n == given[slot[t]] IN
       /\ event' = [event EXCEPT ![n] = [object |-> new[t], thread |-> u, on |-> TRUE]]
       /\ fd' = [fd EXCEPT ![slot[t]][u] = n]
       /\ todo' = [todo EXCEPT ![t] = @ \ {u}]
  /\ UNCHANGED <<alive, isUsed, addr, callstack, spin, live, smashed, pc, slot, new, sigs,
                 evicted, echoed, lapsed, foreign, calls, failures>>

\* malloc returns the object.
Installed(t) ==
  /\ pc[t] = "open" /\ todo[t] = {}
  /\ live' = live \cup {new[t]}
  /\ spin' = spin \ {slot[t]}
  /\ slot' = [slot EXCEPT ![t] = 0]
  /\ new' = [new EXCEPT ![t] = NoObject]
  /\ Goto(t, "app")
  /\ UNCHANGED <<alive, table, event, smashed, todo, sigs, evicted, echoed, lapsed, foreign, calls,
                 failures>>

-----------------------------------------------------------------------------
(* Threads *)

\* threadExit: the events are closed, their numbers stay in the table.
Exit(t) ==
  /\ Call(t)
  /\ Readers = {} /\ alive # {t}
  /\ LET own == {fd[s][t] : s \in Slots} IN
       /\ event' = Without(own) /\ Evict(own)
       /\ foreign' = (foreign \/ \E n \in own \cap Numbers : event[n].thread \notin {0, t})
  /\ alive' = alive \ {t}
  /\ UNCHANGED <<table, spin, live, smashed, pc, slot, new, todo, sigs, echoed, lapsed,
                 failures>>

\* thread_create: the child's setWatchpointByThread opens an event for each slot, and stops
\* at the first that fails.
Create(t) ==
  /\ Call(t)
  /\ Readers = {}
  /\ \E u \in Threads \ alive, bad \in 1..(WPs + 1) :
       LET mine == {s \in Slots : isUsed[s] /\ s < bad} IN
       \E given \in Given(mine) :
       /\ bad <= WPs => isUsed[bad] /\ failures < MaxFailures
       /\ failures' = failures + IF bad <= WPs THEN 1 ELSE 0
       /\ alive' = alive \cup {u}
       /\ fd' = [s \in Slots |->
                   [fd[s] EXCEPT ![u] = IF s \in mine THEN given[s]
                                        ELSE IF s = bad THEN 0 ELSE @]]
       /\ event' = [n \in Numbers |->
                      IF \E s \in mine : n = given[s]
                      THEN [object |-> addr[CHOOSE s \in mine : n = given[s]],
                            thread |-> u, on |-> TRUE]
                      ELSE event[n]]
  /\ UNCHANGED <<isUsed, addr, callstack, spin, live, smashed, pc, slot, new, todo, sigs,
                 evicted, echoed, lapsed, foreign>>

Step(t) ==
  \/ Access(t) \/ trapHandler(t)
  \/ Take(t) \/ Unwatch(t) \/ Close(t) \/ AfterClose(t) \/ SetCallstack(t) \/ Open(t)
  \/ Installed(t) \/ Exit(t) \/ Create(t)

Next == \E t \in Threads : Step(t)

Spec == Init /\ [][Next]_vars

-----------------------------------------------------------------------------
(* Properties *)

\* A thread was born without an event, or lost it to another's exit.
Uncovered == failures > 0 \/ foreign

(***************************************************************************)
(* The report of trapHandler names the call stack of the object that was   *)
(* touched, and speaks of an over-read only if the thread did not write,   *)
(* of an over-write only if someone did, unless the event was closed       *)
(* since the signal, some thread is not covered, or the number still stood *)
(* in a slot that is being installed, from a thread that exited.           *)
(***************************************************************************)
ReportRight ==
  \A t \in Threads :
    pc[t] = "release" /\ told[t] # NoObject /\ ~evicted[t] /\ ~early[t] /\ ~Uncovered
      => /\ told[t] = access[t].object
         /\ isread[t] => ~access[t].write
         /\ ~isread[t] => access[t].object \in smashed

\* Where an access is excused, rightly or, at an offset that is one of libc's list, not.
Excused == {"listed", "ld", "ldsym", "twin"}

(***************************************************************************)
(* No overflow that a watch has caught is lost: the handler reports it if  *)
(* the event is still open, or else the code is one the list excuses.      *)
(***************************************************************************)
TrapReported ==
  \A t \in Threads :
    pc[t] = "release" /\ told[t] = NoObject => evicted[t]

(***************************************************************************)
(* A trap is dismissed as harmless, before it is looked up, only if the    *)
(* code that touched the word is one the list excuses: never a trap of the *)
(* application's own code, whatever frames lie between it and the handler  *)
(* and whether or not the library knows its own.                           *)
(***************************************************************************)
NothingWaived ==
  [][\A t \in Threads : pc[t] = "trap" /\ pc'[t] = "app" => access[t].place \in Excused]_vars

(***************************************************************************)
(* The handler switches its event off while it reads the watched word, by  *)
(* a number that may meanwhile be another event's.  It leaves none off:    *)
(* a slot in use, that nobody works on, watches each thread, unless a      *)
(* handler is between its two calls of ioctl.  And its look at the word    *)
(* does not set off an event, unless its own was closed, or the slot it    *)
(* found is not that of its event, or some handler has used a number that  *)
(* was given away.                                                         *)
(***************************************************************************)
EventsStayOn ==
  /\ \A s \in Slots \ spin, t \in alive :
       isUsed[s] /\ ~Uncovered =>
         \/ event[fd[s][t]] = [object |-> callstack[s], thread |-> t, on |-> TRUE]
         \/ \E u \in Threads : sig[u] = fd[s][t] /\ pc[u] \in {"look", "enable"}
  /\ echoed => lapsed \/ Uncovered

=============================================================================
