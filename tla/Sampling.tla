-------------------------------- MODULE Sampling --------------------------------
(***************************************************************************)
(* One record of the call-stack map (struct callstack) while threads       *)
(* allocate from that call stack (startWatch, updateWatchedInfo), free     *)
(* objects of it with a broken canary (checkPointer), and the program      *)
(* exits (checkAllMemory).                                                 *)
(*                                                                         *)
(* startWatch reads the record without its lock, updateWatchedInfo and     *)
(* checkPointer take the lock, checkAllMemory writes without it.  Whether  *)
(* the table of watchpoints takes the object is left open.                 *)
(***************************************************************************)
EXTENDS Ratio

CONSTANTS
  Threads, NoThread,
  Threshold,   \* MAX_WATCH_THRESHOLD
  Period,      \* MAX_WATCH_PERIOD
  MaxCalls,    \* bound: allocations from this call stack
  MaxTime      \* bound: the clock

ASSUME SamplingAssumption ==
  /\ NoThread \notin Threads
  /\ {Threshold, Period, MaxCalls, MaxTime} \subseteq Nat

VARIABLES
  ratio, depth, periodcalled, period,
  lock,
  now,         \* getCurrentTime()
  pc,          \* per thread
  throttled,   \* per thread: periodcalled had reached its threshold
  type,        \* per thread: the argument of updateWatchedInfo
  loaded,      \* per thread: the ratio it has read
  exiting,     \* the finalizer has begun
  proven,      \* history: a free has found a broken canary
  scanned,     \* history: so has the exit scan
  overlapped,  \* history: and a thread was inside updateWatchedInfo at that time
  returned,    \* history: a call of startWatch has ended
  budget

record  == <<ratio, depth, periodcalled, period>>
locals  == <<throttled, type, loaded>>
history == <<proven, scanned, overlapped, returned>>
vars    == <<record, lock, now, pc, locals, exiting, history, budget>>

Types    == {"called", "watched"}
PcValues == {"idle", "install", "draw", "steal", "lock", "load", "store", "finish"}

\* The record as findOrAdd initialises it; the clock is far from 0.
Init ==
  /\ ratio = InitRatio /\ depth = 0 /\ periodcalled = 0 /\ period = 0
  /\ lock = NoThread
  /\ now = Period + 1
  /\ pc = [t \in Threads |-> "idle"]
  /\ throttled = [t \in Threads |-> FALSE]
  /\ type = [t \in Threads |-> "called"]
  /\ loaded = [t \in Threads |-> InitRatio]
  /\ exiting = FALSE
  /\ proven = FALSE /\ scanned = FALSE /\ overlapped = FALSE /\ returned = FALSE
  /\ budget = MaxCalls

Goto(t, label) == pc' = [pc EXCEPT ![t] = label]

-----------------------------------------------------------------------------
(* startWatch *)

Start(t) ==
  /\ pc[t] = "idle" /\ budget > 0
  /\ budget' = budget - 1
  /\ throttled' = [throttled EXCEPT ![t] = periodcalled >= Threshold]
  /\ Goto(t, IF periodcalled < Threshold THEN "install" ELSE "draw")
  /\ UNCHANGED <<record, lock, now, type, loaded, exiting, history>>

Update(t, ty) ==
  /\ type' = [type EXCEPT ![t] = ty]
  /\ Goto(t, "lock")

\* setWatchpoint with ispreempt false takes a slot; or it fails, or is not called.
Install(t) ==
  /\ pc[t] = "install"
  /\ \/ Update(t, "watched")
     \/ Goto(t, "draw") /\ UNCHANGED type
  /\ UNCHANGED <<record, lock, now, throttled, loaded, exiting, history, budget>>

Draw(t) ==
  /\ pc[t] = "draw"
  /\ \E rnd \in Draws(throttled[t]) :
       \/ rnd <= ratio /\ Goto(t, "steal") /\ UNCHANGED type
       \/ rnd > ratio /\ Update(t, "called")
  /\ UNCHANGED <<record, lock, now, throttled, loaded, exiting, history, budget>>

\* setWatchpoint with ispreempt true.
Steal(t) ==
  /\ pc[t] = "steal"
  /\ \E ty \in Types : Update(t, ty)
  /\ UNCHANGED <<record, lock, now, throttled, loaded, exiting, history, budget>>

-----------------------------------------------------------------------------
(* updateWatchedInfo *)

\* Mutant of LockFree: the record is changed without its lock.
LockFreeAlways == TRUE

LockFree == lock = NoThread

Lock(t) ==
  /\ pc[t] = "lock"
  /\ LockFree
  /\ lock' = t
  /\ Goto(t, "load")
  /\ UNCHANGED <<record, now, locals, exiting, history, budget>>

Load(t) ==
  /\ pc[t] = "load"
  /\ periodcalled' = periodcalled + 1
  /\ loaded' = [loaded EXCEPT ![t] = ratio]
  /\ Goto(t, "store")
  /\ UNCHANGED <<ratio, depth, period, lock, now, throttled, type, exiting, history, budget>>

After(ty, r) == IF ty = "watched" THEN AfterWatch(r) ELSE AfterCall(r)

\* The value reduced is the one compared with the upper bound; or one read again, which
\* differs when the exit scan has written the upper bound in between.
Store(t) ==
  /\ pc[t] = "store"
  /\ \/ ratio' = After(type[t], loaded[t])
     \/ /\ loaded[t] # UpperBound /\ ratio = UpperBound
        /\ ratio' = IF type[t] = "watched" THEN Halved(ratio) ELSE Reduced(ratio)
  /\ Goto(t, "finish")
  /\ UNCHANGED <<depth, periodcalled, period, lock, now, locals, exiting, history, budget>>

\* Mutant of PeriodOver: the difference is taken as a signed number.
PeriodOverSigned == now - period > Period

\* The difference of unsigned longs is huge when the clock was set back.
PeriodOver == now - period > Period \/ now < period

\* Mutant of Captured: only the call stack of a watched object is captured.
CapturedIfWatched(t) == IF type[t] = "watched" THEN 1 ELSE depth

\* getCallsites, once per record.
Captured(t) == IF depth = 0 THEN 1 ELSE depth

Finish(t) ==
  /\ pc[t] = "finish"
  /\ depth' = Captured(t)
  /\ IF PeriodOver
     THEN periodcalled' = 0 /\ period' = now
     ELSE UNCHANGED <<periodcalled, period>>
  /\ lock' = NoThread
  /\ returned' = TRUE
  /\ Goto(t, "idle")
  /\ UNCHANGED <<ratio, now, locals, exiting, proven, scanned, overlapped, budget>>

-----------------------------------------------------------------------------
(* Evidence *)

\* checkPointer at the free of an object of this call stack whose tail is broken.
Prove(t) ==
  /\ pc[t] = "idle" /\ returned
  /\ lock = NoThread
  /\ ratio' = UpperBound
  /\ proven' = TRUE
  /\ UNCHANGED <<depth, periodcalled, period, lock, now, pc, locals, exiting, scanned,
                 overlapped, returned, budget>>

\* main returns, while other threads go on.
Exit == exiting' = TRUE /\ UNCHANGED <<record, lock, now, pc, locals, history, budget>>

\* checkAllMemory finds a broken tail.
Scan ==
  /\ exiting /\ returned
  /\ ratio' = UpperBound
  /\ scanned' = TRUE
  /\ overlapped' = (overlapped \/ lock # NoThread)
  /\ UNCHANGED <<depth, periodcalled, period, lock, now, pc, locals, exiting, proven,
                 returned, budget>>

\* CLOCK_REALTIME advances, or is set.
Clock ==
  /\ now' \in 0..MaxTime
  /\ UNCHANGED <<record, lock, pc, locals, exiting, history, budget>>

Next ==
  \/ \E t \in Threads :
       \/ Start(t) \/ Install(t) \/ Draw(t) \/ Steal(t)
       \/ Lock(t) \/ Load(t) \/ Store(t) \/ Finish(t)
       \/ Prove(t)
  \/ Exit \/ Scan \/ Clock

Spec == Init /\ [][Next]_vars

-----------------------------------------------------------------------------
(* Properties *)

TypeOK ==
  /\ ratio \in Ratios /\ depth \in {0, 1}
  /\ periodcalled \in Nat /\ period \in Nat /\ now \in Nat
  /\ lock \in Threads \cup {NoThread}
  /\ pc \in [Threads -> PcValues]
  /\ throttled \in [Threads -> BOOLEAN]
  /\ type \in [Threads -> Types]
  /\ loaded \in [Threads -> Ratios]
  /\ {exiting, proven, scanned, overlapped, returned} \subseteq BOOLEAN
  /\ budget \in Nat

(***************************************************************************)
(* Once a free has found an object of this call stack overflowed, the      *)
(* call stack stays always watched: no thread that was reducing the ratio  *)
(* at that time writes a smaller one over it.                              *)
(***************************************************************************)
EvidenceKept == proven => ratio = UpperBound

(***************************************************************************)
(* What the exit scan finds is lost only if a thread was in the middle of  *)
(* updateWatchedInfo, for the scan does not take the record's lock.        *)
(***************************************************************************)
ScanLostOnlyInRace == scanned /\ ~overlapped => ratio = UpperBound

(***************************************************************************)
(* An object of a call stack known to overflow is denied its watchpoint by *)
(* the draw only when the call stack is throttled.                         *)
(***************************************************************************)
KnownAreTried ==
  [][\A t \in Threads : pc[t] = "draw" /\ pc'[t] = "lock" /\ ratio = UpperBound
                          => throttled[t]]_vars

(***************************************************************************)
(* The end of an update never leaves a period that begins in the future,   *)
(* after which the call stack would stay throttled until the clock had     *)
(* caught up.  (updateWatchedInfo has a FIXME about this.)                 *)
(***************************************************************************)
PeriodNotAhead == [][\A t \in Threads : pc[t] = "finish" /\ pc'[t] = "idle" => period' <= now]_vars

(***************************************************************************)
(* No object reaches the application before the call stack of its record   *)
(* is captured: loadHistoryInfo drops records without one.                 *)
(***************************************************************************)
CapturedBeforeReturn == returned => depth > 0

=============================================================================
