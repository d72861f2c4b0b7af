-------------------------- MODULE WatchpointsProofs --------------------------
(***************************************************************************)
(* Proofs about Watchpoints, for any number of slots, threads and objects. *)
(***************************************************************************)
EXTENDS WatchpointsInvariants, FiniteSetTheorems, TLAPS

-----------------------------------------------------------------------------
(* Arithmetic of the indices *)

\* The search for a slot never leaves the table.
LEMMA NextSlotInSlots ==
  ASSUME NEW t \in Threads, slot \in [Threads -> Slots]
  PROVE  NextSlot(t) \in Slots
BY SizesAssumption DEF NextSlot, Slots

\* Nor the search for a thread index the thread array.
LEMMA IndexInThreads ==
  ASSUME NEW i \in Int
  PROVE  i % MaxAliveThreads \in Threads
BY SizesAssumption DEF Threads

\* NoThread is not an index, NoObject not an address.
LEMMA Distinct == NoThread \notin Threads /\ NoObject \notin Objects
BY SizesAssumption, ObjectsAssumption DEF NoThread, Threads


-----------------------------------------------------------------------------
(* What closing entries does to the rest of the table *)

\* The events closed along with the entries E were open, lie outside E, and there are
\* none unless E holds a number left over.
LEMMA StruckFacts ==
  ASSUME NEW E \in SUBSET (Slots \X Threads), NEW hits \in Struck(E)
  PROVE  /\ \A e \in hits : e \in (Slots \X Threads) \ E /\ fd[e[1]][e[2]] \in Open
         /\ hits # {} => \E e \in E : fd[e[1]][e[2]] \in LeftOver
<1>1. \A e \in hits : e \in (Slots \X Threads) \ E /\ fd[e[1]][e[2]] \in Open
  BY DEF Struck
<1>2. SUFFICES ASSUME Left(E) = {} PROVE hits = {}
  BY <1>1 DEF Left
<1>3. IsFiniteSet(Slots) /\ IsFiniteSet(Threads)
  BY FS_Interval, SizesAssumption DEF Slots, Threads
<1>4. IsFiniteSet(hits)
  BY <1>1, <1>3, FS_Product, FS_Subset
<1>5. Cardinality(hits) \in Nat /\ Cardinality(hits) <= 0
  BY <1>2, <1>4, FS_CardinalityType, FS_EmptySet DEF Struck
<1> QED
  BY <1>4, <1>5, FS_EmptySet

\* The table after the entries of the alive threads in slot w have been closed.
ClosedSlot(w) ==
  /\ \A u \in alive : fd'[w][u] = "none"
  /\ \A u \in Threads \ alive :
       \/ fd'[w][u] = fd[w][u]
       \/ /\ fd'[w][u] = "lapsed" /\ fd[w][u] \in Open
          /\ \E a \in alive : fd[w][a] \in LeftOver
  /\ \A v \in Slots \ {w}, u \in Threads :
       \/ fd'[v][u] = fd[v][u]
       \/ /\ fd'[v][u] = "lapsed" /\ fd[v][u] \in Open
          /\ \E a \in alive : fd[w][a] \in LeftOver

\* That is what disable_watchpoint leaves.
LEMMA DisabledFacts ==
  ASSUME TypeOK, NEW w \in Slots, NEW hits \in Struck({w} \X alive),
         fd' = Disabled(w, alive, hits)
  PROVE  fd' \in [Slots -> [Threads -> FdState]] /\ ClosedSlot(w)
<1>1. {w} \X alive \in SUBSET (Slots \X Threads)
  BY DEF TypeOK
<1>2. /\ \A v \in Slots, u \in Threads :
           <<v, u>> \in hits => (v # w \/ u \notin alive) /\ fd[v][u] \in Open
      /\ hits # {} => \E a \in alive : fd[w][a] \in LeftOver
  <2>1. /\ \A e \in hits : e \in (Slots \X Threads) \ ({w} \X alive) /\ fd[e[1]][e[2]] \in Open
        /\ hits # {} => \E e \in {w} \X alive : fd[e[1]][e[2]] \in LeftOver
    BY <1>1, StruckFacts
  <2> QED
    BY <2>1
<1>3. fd' \in [Slots -> [Threads -> FdState]]
  BY DEF Disabled, TypeOK, FdState
<1>4. \A v \in Slots, u \in Threads :
        fd'[v][u] = IF v = w /\ u \in alive THEN "none"
                    ELSE IF <<v, u>> \in hits THEN "lapsed" ELSE fd[v][u]
  BY DEF Disabled
<1>5. \A u \in alive : fd'[w][u] = "none"
  BY <1>4 DEF TypeOK
<1>6. ASSUME NEW v \in Slots, NEW u \in Threads, v # w \/ u \notin alive
      PROVE  \/ fd'[v][u] = fd[v][u]
             \/ /\ fd'[v][u] = "lapsed" /\ fd[v][u] \in Open
                /\ \E a \in alive : fd[w][a] \in LeftOver
  BY <1>2, <1>4, <1>6
<1> QED
  BY <1>3, <1>5, <1>6 DEF ClosedSlot

\* The first thing setWatchpoint does to a slot in use.
LEMMA ClaimFacts ==
  ASSUME TypeOK, NEW t \in Threads, Claim(t)
  PROVE  /\ fd' \in [Slots -> [Threads -> FdState]]
         /\ used[slot[t]] => ClosedSlot(slot[t])
         /\ ~used[slot[t]] => fd' = fd
<1>1. slot[t] \in Slots
  BY DEF TypeOK
<1>2. CASE used[slot[t]]
  <2>1. PICK hits \in Struck({slot[t]} \X alive) : fd' = Disabled(slot[t], alive, hits)
    BY <1>2 DEF Claim
  <2> QED
    BY <1>1, <1>2, <2>1, DisabledFacts
<1>3. CASE ~used[slot[t]]
  BY <1>3 DEF Claim, TypeOK
<1> QED
  BY <1>2, <1>3

\* And what disableWatchpoint does.
LEMMA DisableFacts ==
  ASSUME TypeOK, NEW t \in Threads, Disable(t)
  PROVE  fd' \in [Slots -> [Threads -> FdState]] /\ ClosedSlot(slot[t])
<1>1. slot[t] \in Slots
  BY DEF TypeOK
<1>2. PICK hits \in Struck({slot[t]} \X alive) : fd' = Disabled(slot[t], alive, hits)
  BY DEF Disable
<1> QED
  BY <1>1, <1>2, DisabledFacts

\* The exit of a thread leaves no open event in its column.
LEMMA ExitFacts ==
  ASSUME TypeOK, NEW t \in Threads, Exit(t)
  PROVE  /\ fd' \in [Slots -> [Threads -> FdState]]
         /\ \A v \in Slots : fd'[v][t] \in {"none", "stale"}
         /\ \A v \in Slots, u \in Threads \ {t} :
              \/ fd'[v][u] = fd[v][u]
              \/ /\ fd'[v][u] = "lapsed" /\ fd[v][u] \in Open
                 /\ \E x \in Slots : fd[x][t] \in LeftOver
<1>1. PICK hits \in Struck(Column(t)) :
        fd' = [w \in Slots |-> [u \in Threads |->
                 IF u = t THEN AfterExit(w, t)
                 ELSE IF <<w, u>> \in hits THEN "lapsed" ELSE fd[w][u]]]
  BY DEF Exit
<1>2. /\ \A e \in hits : e \in (Slots \X Threads) \ Column(t) /\ fd[e[1]][e[2]] \in Open
      /\ hits # {} => \E e \in Column(t) : fd[e[1]][e[2]] \in LeftOver
  BY StruckFacts DEF Column
<1>3. hits # {} => \E x \in Slots : fd[x][t] \in LeftOver
  BY <1>2 DEF Column
<1>4. \A v \in Slots, u \in Threads :
        fd'[v][u] = IF u = t THEN AfterExit(v, t)
                    ELSE IF <<v, u>> \in hits THEN "lapsed" ELSE fd[v][u]
  BY <1>1
<1>5. \A v \in Slots : AfterExit(v, t) \in {"none", "stale"}
  BY DEF AfterExit
<1>6. \A v \in Slots : fd'[v][t] \in {"none", "stale"}
  <2>1. \A v \in Slots : fd'[v][t] = AfterExit(v, t)
    BY <1>4
  <2> QED
    BY <1>5, <2>1
<1>7. \A v \in Slots, u \in Threads \ {t} :
        fd'[v][u] = IF <<v, u>> \in hits THEN "lapsed" ELSE fd[v][u]
  BY <1>4
<1>8. \A v \in Slots, u \in Threads \ {t} : <<v, u>> \in hits => fd[v][u] \in Open
  BY <1>2
<1>9. fd' \in [Slots -> [Threads -> FdState]]
  <2>1. \A v \in Slots, u \in Threads : fd'[v][u] \in FdState
    <3>1. \A v \in Slots : fd'[v][t] \in FdState
      BY <1>6 DEF FdState
    <3>2. \A v \in Slots, u \in Threads \ {t} : fd'[v][u] \in FdState
      <4> SUFFICES ASSUME NEW v \in Slots, NEW u \in Threads \ {t} PROVE fd'[v][u] \in FdState
        OBVIOUS
      <4>1. fd[v][u] \in FdState /\ "lapsed" \in FdState
        BY DEF TypeOK, FdState
      <4> QED
        BY <1>7, <4>1
    <3> QED
      BY <3>1, <3>2
  <2>2. fd' = [v \in Slots |-> [u \in Threads |-> fd'[v][u]]]
    BY <1>1, <1>4
  <2> QED
    BY <2>1, <2>2
<1> QED
  BY <1>3, <1>6, <1>7, <1>8, <1>9

-----------------------------------------------------------------------------
(* Type correctness *)

\* What TypeOK needs of the labels and of the descriptor and object states.
LEMMA TypeOKStep == TypeOK /\ ThreadInv /\ [Next]_vars => TypeOK'
<1> SUFFICES ASSUME TypeOK, ThreadInv, [Next]_vars PROVE TypeOK'
  OBVIOUS
<1>0. MaxWatchpoints \in Int /\ 0 \in Slots /\ \A t \in Threads : NextSlot(t) \in Slots
  BY SizesAssumption, NextSlotInSlots DEF TypeOK, Slots
<1> USE <1>0, Distinct DEF TypeOK,
    table, rwlock, xthread, locals, bounds, history,
    PcValues, PcApp, PcSet, PcStop, PcUnlock, PcThread, Ops, FdState, HeapState, Open, LeftOver
<1>1. ASSUME NEW t \in Threads, Malloc(t) PROVE TypeOK'
  BY <1>1 DEF Malloc, BeginCall, Goto
<1>2. ASSUME NEW t \in Threads, Calloc(t) PROVE TypeOK'
  BY <1>2 DEF Calloc, BeginCall
<1>3. ASSUME NEW t \in Threads, TryInstall(t) PROVE TypeOK'
  BY <1>3 DEF TryInstall, EnterLoop, Goto
<1>4. ASSUME NEW t \in Threads, SkipInstall(t) PROVE TypeOK'
  BY <1>4 DEF SkipInstall, Goto
<1>5. ASSUME NEW t \in Threads, TrySteal(t) PROVE TypeOK'
  BY <1>5 DEF TrySteal, EnterLoop, Goto
<1>6. ASSUME NEW t \in Threads, NoSteal(t) PROVE TypeOK'
  BY <1>6 DEF NoSteal, ReturnObject, Goto
<1>7. ASSUME NEW t \in Threads, ProbeTake(t) PROVE TypeOK'
  BY <1>7 DEF ProbeTake, Goto
<1>8. ASSUME NEW t \in Threads, ProbeSkip(t) PROVE TypeOK'
  BY <1>8 DEF ProbeSkip, NextIteration, Goto
<1>9. ASSUME NEW t \in Threads, LoopEnd(t) PROVE TypeOK'
  <2>1. CASE Goto(t, "roll") /\ UNCHANGED <<heap, arg>>
    BY <1>9, <2>1 DEF LoopEnd, Goto
  <2>2. CASE ReturnObject(t)
    <3>1. heap' \in [Objects -> HeapState] /\ arg' \in [Threads -> Objects \cup {NoObject}]
      BY <2>2 DEF ReturnObject
    <3>2. pc' \in [Threads -> PcValues]
      BY <2>2 DEF ReturnObject, Goto
    <3> QED
      BY <1>9, <3>1, <3>2 DEF LoopEnd
  <2> QED
    BY <1>9, <2>1, <2>2 DEF LoopEnd
<1>10. ASSUME NEW t \in Threads, LockSlot(t) PROVE TypeOK'
  BY <1>10 DEF LockSlot, SpinLock, Goto
<1>11. ASSUME NEW t \in Threads, DecideTake(t) PROVE TypeOK'
  BY <1>11 DEF DecideTake, Goto
<1>12. ASSUME NEW t \in Threads, DecideLeave(t) PROVE TypeOK'
  BY <1>12 DEF DecideLeave, NextIteration, Goto
<1>13. ASSUME NEW t \in Threads, LockGlobal(t) PROVE TypeOK'
  BY <1>13 DEF LockGlobal, ReadLock, CanRead, Goto
<1>14. ASSUME NEW t \in Threads, Claim(t) PROVE TypeOK'
  <2>1. fd' \in [Slots -> [Threads -> FdState]]
    BY <1>14, ClaimFacts
  <2>2. pc' \in [Threads -> PcValues]
    BY <1>14 DEF Claim, Goto
  <2> QED
    BY <1>14, <2>1, <2>2 DEF Claim
<1>15. ASSUME NEW t \in Threads, Arm(t) PROVE TypeOK'
  <2>1. fd' \in [Slots -> [Threads -> FdState]]
    BY <1>15 DEF Arm
  <2>2. pc' \in [Threads -> PcValues] /\ op' \in [Threads -> Ops]
    BY <1>15 DEF Arm, Ret, Goto
  <2>3. num' \in Int /\ curIndex' \in Slots /\ orphaned' \in BOOLEAN
    BY <1>15 DEF Arm, Overwrites
  <2> QED
    BY <1>15, <2>1, <2>2, <2>3 DEF Arm
<1>16. ASSUME NEW t \in Threads, ArmFails(t) PROVE TypeOK'
  BY <1>16 DEF ArmFails, Disabled, Overwrites, Goto
<1>17. ASSUME NEW t \in Threads, Free(t) PROVE TypeOK'
  BY <1>17 DEF Free, BeginCall, Goto
<1>18. ASSUME NEW t \in Threads, ScanHit(t) PROVE TypeOK'
  BY <1>18 DEF ScanHit, Watches, Goto
<1>19. ASSUME NEW t \in Threads, ScanMiss(t) PROVE TypeOK'
  BY <1>19 DEF ScanMiss, MoreSlots, Goto
<1>20. ASSUME NEW t \in Threads, LockFound(t) PROVE TypeOK'
  BY <1>20 DEF LockFound, SpinLock, Goto
<1>21. ASSUME NEW t \in Threads, RecheckHit(t) PROVE TypeOK'
  BY <1>21 DEF RecheckHit, Watches, Goto
<1>22. ASSUME NEW t \in Threads, RecheckMiss(t) PROVE TypeOK'
  BY <1>22 DEF RecheckMiss, Watches, Goto
<1>23. ASSUME NEW t \in Threads, LockGlobalFree(t) PROVE TypeOK'
  BY <1>23 DEF LockGlobalFree, ReadLock, CanRead, Goto
<1>24. ASSUME NEW t \in Threads, Disable(t) PROVE TypeOK'
  <2>1. fd' \in [Slots -> [Threads -> FdState]]
    BY <1>24, DisableFacts
  <2>2. pc' \in [Threads -> PcValues] /\ num' \in Int /\ used' \in [Slots -> BOOLEAN]
    BY <1>24 DEF Disable, Uncounted, Goto
  <2> QED
    BY <1>24, <2>1, <2>2 DEF Disable
<1>25. ASSUME NEW t \in Threads, UnlockGlobal(t) PROVE TypeOK'
  BY <1>25 DEF UnlockGlobal, Goto
<1>26. ASSUME NEW t \in Threads, UnlockSlot(t) PROVE TypeOK'
  <2>1. spin' \in [Slots -> Threads \cup {NoThread}]
    BY <1>26 DEF UnlockSlot
  <2>2. pc' \in [Threads -> PcValues]
    <3>1. \E label \in {"release", "app", "probe"} : pc' = [pc EXCEPT ![t] = label]
      BY <1>26 DEF UnlockSlot, ReturnObject, NextIteration, Goto
    <3> QED
      BY <3>1
  <2>3. slot' \in [Threads -> Slots] /\ left' \in [Threads -> Int]
    <3>1. CASE NextIteration(t)
      BY <3>1 DEF NextIteration
    <3>2. CASE UNCHANGED <<slot, left>>
      BY <3>2
    <3> QED
      BY <1>26, <3>1, <3>2 DEF UnlockSlot
  <2>4. heap' \in [Objects -> HeapState] /\ arg' \in [Threads -> Objects \cup {NoObject}]
    <3>1. CASE ReturnObject(t)
      BY <3>1 DEF ReturnObject
    <3>2. CASE UNCHANGED <<heap, arg>>
      BY <3>2
    <3> QED
      BY <1>26, <3>1, <3>2 DEF UnlockSlot
  <2> QED
    BY <1>26, <2>1, <2>2, <2>3, <2>4 DEF UnlockSlot
<1>27. ASSUME NEW t \in Threads, Release(t) PROVE TypeOK'
  BY <1>27 DEF Release, Goto
<1>28. ASSUME NEW t \in Threads, Create(t) PROVE TypeOK'
  BY <1>28 DEF Create, BeginCall, Goto
<1>29. ASSUME NEW t \in Threads, LockCreate(t) PROVE TypeOK'
  BY <1>29 DEF LockCreate, WriteLock, CanWrite, Goto
<1>30. ASSUME NEW t \in Threads, Spawn(t) PROVE TypeOK'
  <2>1. PICK k \in Threads : 
          LET i == (threadIndex + k) % MaxAliveThreads IN
          /\ newborn' = i
          /\ threadIndex' = (i + 1) % MaxAliveThreads
          /\ pc' = [pc EXCEPT ![t] = "cbarrier", ![i] = "born"]
    BY <1>30 DEF Spawn
  <2>2. newborn' \in Threads /\ threadIndex' \in Threads
    BY <2>1, IndexInThreads DEF Threads
  <2> QED
    BY <1>30, <2>1, <2>2 DEF Spawn
<1>31. ASSUME NEW t \in Threads, Born(t) PROVE TypeOK'
  BY <1>31 DEF Born, Overwrites, Goto
<1>32. ASSUME NEW t \in Threads, BornFails(t) PROVE TypeOK'
  BY <1>32 DEF BornFails, Overwrites, Goto
<1>33. ASSUME NEW t \in Threads, Barrier(t) PROVE TypeOK'
  BY <1>33 DEF Barrier
<1>34. ASSUME NEW t \in Threads, Insert(t) PROVE TypeOK'
  BY <1>34 DEF ThreadInv, Insert, Goto
<1>35. ASSUME NEW t \in Threads, Finish(t) PROVE TypeOK'
  BY <1>35 DEF Finish, BeginCall, Goto
<1>36. ASSUME NEW t \in Threads, LockExit(t) PROVE TypeOK'
  BY <1>36 DEF LockExit, WriteLock, CanWrite, Goto
<1>37. ASSUME NEW t \in Threads, Exit(t) PROVE TypeOK'
  <2>1. fd' \in [Slots -> [Threads -> FdState]]
    BY <1>37, ExitFacts
  <2>2. pc' \in [Threads -> PcValues] /\ alive' \subseteq Threads /\ ghosts' \in Nat
    BY <1>37 DEF Exit, Goto
  <2> QED
    BY <1>37, <2>1, <2>2 DEF Exit
<1>38. CASE GhostFree
  BY <1>38 DEF GhostFree
<1>39. CASE UNCHANGED vars
  BY <1>39 DEF vars
<1>40. QED
  BY <1>1, <1>2, <1>3, <1>4, <1>5, <1>6, <1>7, <1>8, <1>9, <1>10, <1>11, <1>12, <1>13,
    <1>14, <1>15, <1>16, <1>17, <1>18, <1>19, <1>20, <1>21, <1>22, <1>23, <1>24, <1>25,
    <1>26, <1>27, <1>28, <1>29, <1>30, <1>31, <1>32, <1>33, <1>34, <1>35, <1>36, <1>37,
    <1>38, <1>39
    DEF Next, AppCall, LibraryStep, SetStep, StopStep, UnlockStep, ThreadStep, Done


-----------------------------------------------------------------------------
(* The invariants that hold whatever fails *)


\* A step that takes and gives back no lock, and stays among the points of the code that
\* hold the same locks, keeps who holds what.
LEMMA LockKept ==
  ASSUME TypeOK, LockInv, NEW t \in Threads, NEW label,
         pc' = [pc EXCEPT ![t] = label],
         label \in Spinning <=> pc[t] \in Spinning,
         label \in Reading <=> pc[t] \in Reading,
         label \in Writing <=> pc[t] \in Writing,
         UNCHANGED <<spin, readers, writer>>,
         slot' = slot \/ (pc[t] \notin Spinning /\ \E w \in Slots : slot' = [slot EXCEPT ![t] = w])
  PROVE  LockInv'
<1> USE DEF TypeOK, LockInv
<1>1. /\ \A u \in Threads : pc'[u] \in Spinning <=> pc[u] \in Spinning
      /\ \A u \in Threads : pc'[u] \in Reading <=> pc[u] \in Reading
      /\ \A u \in Threads : pc'[u] \in Writing <=> pc[u] \in Writing
  OBVIOUS
<1>2. \A u \in Threads : pc[u] \in Spinning => slot'[u] = slot[u]
  OBVIOUS
<1>3. \A w \in Slots, u \in Threads : spin'[w] = u <=> slot'[u] = w /\ pc'[u] \in Spinning
  BY <1>1, <1>2
<1> QED
  BY <1>1, <1>3

\* Every lock is held exactly by the thread whose code says so, and a writer alone.
LEMMA LockStep ==
  ASSUME TypeOK, LockInv, [Next]_vars
  PROVE  LockInv'
<1> USE DEF Spinning, Reading, Writing, table, rwlock, xthread, locals
<1>1. ASSUME NEW t \in Threads, Malloc(t) PROVE LockInv'
  <2>1. pc[t] = "app" /\ pc' = [pc EXCEPT ![t] = "start"] /\ UNCHANGED <<spin, slot, readers, writer>>
    BY <1>1 DEF Malloc, BeginCall, Goto
  <2> QED
    BY <2>1, LockKept
<1>2. ASSUME NEW t \in Threads, Calloc(t) PROVE LockInv'
  BY <1>2 DEF Calloc, BeginCall, LockInv
<1>3. ASSUME NEW t \in Threads, TryInstall(t) PROVE LockInv'
  <2>1. pc[t] = "start" /\ pc' = [pc EXCEPT ![t] = "probe"] /\ UNCHANGED <<spin, readers, writer>>
    BY <1>3 DEF TryInstall, EnterLoop, Goto
  <2>2. \E w \in Slots : slot' = [slot EXCEPT ![t] = w]
    BY <1>3 DEF TryInstall, EnterLoop, Goto, TypeOK
  <2> QED
    BY <2>1, <2>2, LockKept
<1>4. ASSUME NEW t \in Threads, SkipInstall(t) PROVE LockInv'
  <2>1. pc[t] = "start" /\ pc' = [pc EXCEPT ![t] = "roll"] /\ UNCHANGED <<spin, slot, readers, writer>>
    BY <1>4 DEF SkipInstall, Goto
  <2> QED
    BY <2>1, LockKept
<1>5. ASSUME NEW t \in Threads, TrySteal(t) PROVE LockInv'
  <2>1. pc[t] = "roll" /\ pc' = [pc EXCEPT ![t] = "probe"] /\ UNCHANGED <<spin, readers, writer>>
    BY <1>5 DEF TrySteal, EnterLoop, Goto
  <2>2. \E w \in Slots : slot' = [slot EXCEPT ![t] = w]
    BY <1>5 DEF TrySteal, EnterLoop, Goto, TypeOK
  <2> QED
    BY <2>1, <2>2, LockKept
<1>6. ASSUME NEW t \in Threads, NoSteal(t) PROVE LockInv'
  <2>1. pc[t] = "roll" /\ pc' = [pc EXCEPT ![t] = "app"] /\ UNCHANGED <<spin, slot, readers, writer>>
    BY <1>6 DEF NoSteal, ReturnObject, Goto
  <2> QED
    BY <2>1, LockKept
<1>7. ASSUME NEW t \in Threads, ProbeTake(t) PROVE LockInv'
  <2>1. pc[t] = "probe" /\ pc' = [pc EXCEPT ![t] = "spin"] /\ UNCHANGED <<spin, slot, readers, writer>>
    BY <1>7 DEF ProbeTake, Goto
  <2> QED
    BY <2>1, LockKept
<1>8. ASSUME NEW t \in Threads, ProbeSkip(t) PROVE LockInv'
  <2>1. pc[t] = "probe" /\ pc' = [pc EXCEPT ![t] = "probe"] /\ UNCHANGED <<spin, readers, writer>>
    BY <1>8 DEF ProbeSkip, NextIteration, Goto
  <2>2. \E w \in Slots : slot' = [slot EXCEPT ![t] = w]
    BY <1>8, NextSlotInSlots DEF ProbeSkip, NextIteration, Goto, TypeOK
  <2> QED
    BY <2>1, <2>2, LockKept
<1>9. ASSUME NEW t \in Threads, LoopEnd(t) PROVE LockInv'
  <2>1. pc[t] = "probe" /\ UNCHANGED <<spin, slot, readers, writer>>
    BY <1>9 DEF LoopEnd
  <2>2. CASE pc' = [pc EXCEPT ![t] = "roll"]
    BY <2>1, <2>2, LockKept
  <2>3. CASE pc' = [pc EXCEPT ![t] = "app"]
    BY <2>1, <2>3, LockKept
  <2> QED
    BY <1>9, <2>2, <2>3 DEF LoopEnd, ReturnObject, Goto
<1>10. ASSUME NEW t \in Threads, LockSlot(t) PROVE LockInv'
  BY <1>10, Distinct DEF TypeOK, LockInv, LockSlot, SpinLock, Goto
<1>11. ASSUME NEW t \in Threads, DecideTake(t) PROVE LockInv'
  <2>1. pc[t] = "decide" /\ pc' = [pc EXCEPT ![t] = "rlock"] /\ UNCHANGED <<spin, slot, readers, writer>>
    BY <1>11 DEF DecideTake, Goto
  <2> QED
    BY <2>1, LockKept
<1>12. ASSUME NEW t \in Threads, DecideLeave(t) PROVE LockInv'
  BY <1>12, Distinct DEF TypeOK, LockInv, DecideLeave, NextIteration, Goto
<1>13. ASSUME NEW t \in Threads, LockGlobal(t) PROVE LockInv'
  BY <1>13, Distinct DEF TypeOK, LockInv, LockGlobal, ReadLock, CanRead, Goto
<1>14. ASSUME NEW t \in Threads, Claim(t) PROVE LockInv'
  <2>1. pc[t] = "claim" /\ pc' = [pc EXCEPT ![t] = "arm"] /\ UNCHANGED <<spin, slot, readers, writer>>
    BY <1>14 DEF Claim, Goto
  <2> QED
    BY <2>1, LockKept
<1>15. ASSUME NEW t \in Threads, Arm(t) PROVE LockInv'
  <2>1. pc[t] = "arm" /\ pc' = [pc EXCEPT ![t] = "unlockR"] /\ UNCHANGED <<spin, slot, readers, writer>>
    BY <1>15 DEF Arm, Ret, Goto
  <2> QED
    BY <2>1, LockKept
<1>16. ASSUME NEW t \in Threads, ArmFails(t) PROVE LockInv'
  <2>1. pc[t] = "arm" /\ pc' = [pc EXCEPT ![t] = "unlockR"] /\ UNCHANGED <<spin, slot, readers, writer>>
    BY <1>16 DEF ArmFails, Goto
  <2> QED
    BY <2>1, LockKept
<1>17. ASSUME NEW t \in Threads, Free(t) PROVE LockInv'
  <2>1. pc[t] = "app" /\ pc' = [pc EXCEPT ![t] = "scan"] /\ UNCHANGED <<spin, readers, writer>>
    BY <1>17 DEF Free, BeginCall, Goto
  <2>2. 0 \in Slots /\ slot' = [slot EXCEPT ![t] = 0]
    BY <1>17, SizesAssumption DEF Free, Slots
  <2> QED
    BY <2>1, <2>2, LockKept
<1>18. ASSUME NEW t \in Threads, ScanHit(t) PROVE LockInv'
  <2>1. pc[t] = "scan" /\ pc' = [pc EXCEPT ![t] = "fspin"] /\ UNCHANGED <<spin, slot, readers, writer>>
    BY <1>18 DEF ScanHit, Goto
  <2> QED
    BY <2>1, LockKept
<1>19. ASSUME NEW t \in Threads, ScanMiss(t) PROVE LockInv'
  <2>1. pc[t] = "scan" /\ UNCHANGED <<spin, readers, writer>>
    BY <1>19 DEF ScanMiss
  <2>2. CASE MoreSlots(t)
    <3>1. pc' = [pc EXCEPT ![t] = "scan"] /\ \E w \in Slots : slot' = [slot EXCEPT ![t] = w]
      BY <1>19, <2>1, <2>2 DEF ScanMiss, MoreSlots, TypeOK
    <3> QED
      BY <2>1, <3>1, LockKept
  <2>3. CASE ~MoreSlots(t)
    <3>1. pc' = [pc EXCEPT ![t] = "release"] /\ slot' = slot
      BY <1>19, <2>3 DEF ScanMiss, Goto
    <3> QED
      BY <2>1, <3>1, LockKept
  <2> QED
    BY <2>2, <2>3
<1>20. ASSUME NEW t \in Threads, LockFound(t) PROVE LockInv'
  BY <1>20, Distinct DEF TypeOK, LockInv, LockFound, SpinLock, Goto
<1>21. ASSUME NEW t \in Threads, RecheckHit(t) PROVE LockInv'
  <2>1. pc[t] = "fcheck" /\ pc' = [pc EXCEPT ![t] = "frlock"] /\ UNCHANGED <<spin, slot, readers, writer>>
    BY <1>21 DEF RecheckHit, Goto
  <2> QED
    BY <2>1, LockKept
<1>22. ASSUME NEW t \in Threads, RecheckMiss(t) PROVE LockInv'
  <2>1. /\ pc[t] = "fcheck" /\ pc' = [pc EXCEPT ![t] = "release"]
        /\ spin' = [spin EXCEPT ![slot[t]] = NoThread] /\ UNCHANGED <<slot, readers, writer>>
    BY <1>22 DEF RecheckMiss, Goto
  <2> QED
    BY <2>1, Distinct DEF TypeOK, LockInv
<1>23. ASSUME NEW t \in Threads, LockGlobalFree(t) PROVE LockInv'
  BY <1>23, Distinct DEF TypeOK, LockInv, LockGlobalFree, ReadLock, CanRead, Goto
<1>24. ASSUME NEW t \in Threads, Disable(t) PROVE LockInv'
  <2>1. pc[t] = "disable" /\ pc' = [pc EXCEPT ![t] = "unlockR"] /\ UNCHANGED <<spin, slot, readers, writer>>
    BY <1>24 DEF Disable, Goto
  <2> QED
    BY <2>1, LockKept
<1>25. ASSUME NEW t \in Threads, UnlockGlobal(t) PROVE LockInv'
  BY <1>25, Distinct DEF TypeOK, LockInv, UnlockGlobal, Goto
<1>26. ASSUME NEW t \in Threads, UnlockSlot(t) PROVE LockInv'
  <2>1. /\ pc[t] = "unlockS" /\ UNCHANGED <<readers, writer>>
        /\ spin' = [spin EXCEPT ![slot[t]] = NoThread]
    BY <1>26 DEF UnlockSlot
  <2>2. \E label \in {"release", "app", "probe"} : pc' = [pc EXCEPT ![t] = label]
    BY <1>26 DEF UnlockSlot, ReturnObject, NextIteration, Goto
  <2>3. \A u \in Threads : u # t => slot'[u] = slot[u] /\ pc'[u] = pc[u]
    BY <1>26, <2>2 DEF TypeOK, UnlockSlot, NextIteration
  <2>4. pc'[t] \notin Spinning \cup Reading \cup Writing
    BY <2>2 DEF TypeOK
  <2>5. \A w \in Slots, u \in Threads : spin'[w] = u <=> slot'[u] = w /\ pc'[u] \in Spinning
    <3>1. \A w \in Slots, u \in Threads : 
            spin'[w] = u <=> spin[w] = u /\ w # slot[t]
      BY <2>1, Distinct DEF TypeOK
    <3>2. \A w \in Slots, u \in Threads : spin[w] = u <=> slot[u] = w /\ pc[u] \in Spinning
      BY DEF LockInv
    <3> QED
      BY <2>1, <2>3, <2>4, <3>1, <3>2
  <2> QED
    BY <2>1, <2>3, <2>4, <2>5 DEF LockInv
<1>27. ASSUME NEW t \in Threads, Release(t) PROVE LockInv'
  <2>1. pc[t] = "release" /\ pc' = [pc EXCEPT ![t] = "app"] /\ UNCHANGED <<spin, slot, readers, writer>>
    BY <1>27 DEF Release, Goto
  <2> QED
    BY <2>1, LockKept
<1>28. ASSUME NEW t \in Threads, Create(t) PROVE LockInv'
  <2>1. pc[t] = "app" /\ pc' = [pc EXCEPT ![t] = "cwlock"] /\ UNCHANGED <<spin, slot, readers, writer>>
    BY <1>28 DEF Create, BeginCall, Goto
  <2> QED
    BY <2>1, LockKept
<1>29. ASSUME NEW t \in Threads, LockCreate(t) PROVE LockInv'
  BY <1>29, Distinct DEF TypeOK, LockInv, LockCreate, WriteLock, CanWrite, Goto
<1>30. ASSUME NEW t \in Threads, Spawn(t) PROVE LockInv'
  BY <1>30, Distinct DEF TypeOK, LockInv, Spawn
<1>31. ASSUME NEW t \in Threads, Born(t) PROVE LockInv'
  <2>1. pc[t] = "born" /\ pc' = [pc EXCEPT ![t] = "wait"] /\ UNCHANGED <<spin, slot, readers, writer>>
    BY <1>31 DEF Born, Goto
  <2> QED
    BY <2>1, LockKept
<1>32. ASSUME NEW t \in Threads, BornFails(t) PROVE LockInv'
  <2>1. pc[t] = "born" /\ pc' = [pc EXCEPT ![t] = "wait"] /\ UNCHANGED <<spin, slot, readers, writer>>
    BY <1>32 DEF BornFails, Goto
  <2> QED
    BY <2>1, LockKept
<1>33. ASSUME NEW t \in Threads, Barrier(t) PROVE LockInv'
  BY <1>33, Distinct DEF TypeOK, LockInv, Barrier
<1>34. ASSUME NEW t \in Threads, Insert(t) PROVE LockInv'
  BY <1>34, Distinct DEF TypeOK, LockInv, Insert, Goto
<1>35. ASSUME NEW t \in Threads, Finish(t) PROVE LockInv'
  <2>1. pc[t] = "app" /\ pc' = [pc EXCEPT ![t] = "xwlock"] /\ UNCHANGED <<spin, slot, readers, writer>>
    BY <1>35 DEF Finish, BeginCall, Goto
  <2> QED
    BY <2>1, LockKept
<1>36. ASSUME NEW t \in Threads, LockExit(t) PROVE LockInv'
  BY <1>36, Distinct DEF TypeOK, LockInv, LockExit, WriteLock, CanWrite, Goto
<1>37. ASSUME NEW t \in Threads, Exit(t) PROVE LockInv'
  BY <1>37, Distinct DEF TypeOK, LockInv, Exit, Goto
<1>38. CASE GhostFree
  BY <1>38 DEF LockInv, GhostFree
<1>39. CASE UNCHANGED vars
  BY <1>39 DEF LockInv, vars
<1>40. QED
  BY <1>1, <1>2, <1>3, <1>4, <1>5, <1>6, <1>7, <1>8, <1>9, <1>10, <1>11, <1>12, <1>13,
    <1>14, <1>15, <1>16, <1>17, <1>18, <1>19, <1>20, <1>21, <1>22, <1>23, <1>24, <1>25,
    <1>26, <1>27, <1>28, <1>29, <1>30, <1>31, <1>32, <1>33, <1>34, <1>35, <1>36, <1>37,
    <1>38, <1>39
    DEF Next, AppCall, LibraryStep, SetStep, StopStep, UnlockStep, ThreadStep, Done


\* There is at most one newborn, and it is not on the alive list yet.
LEMMA ThreadInvStep ==
  ASSUME TypeOK, LockInv, ThreadInv, [Next]_vars
  PROVE  ThreadInv'
<1> USE Distinct DEF TypeOK, LockInv, ThreadInv, Birth, Spinning, Reading, Writing,
    table, rwlock, xthread, locals
<1>1. ASSUME NEW t \in Threads, Malloc(t) PROVE ThreadInv'
  BY <1>1 DEF Malloc, BeginCall, Goto
<1>2. ASSUME NEW t \in Threads, Calloc(t) PROVE ThreadInv'
  BY <1>2 DEF Calloc, BeginCall
<1>3. ASSUME NEW t \in Threads, TryInstall(t) PROVE ThreadInv'
  BY <1>3 DEF TryInstall, EnterLoop, Goto
<1>4. ASSUME NEW t \in Threads, SkipInstall(t) PROVE ThreadInv'
  BY <1>4 DEF SkipInstall, Goto
<1>5. ASSUME NEW t \in Threads, TrySteal(t) PROVE ThreadInv'
  BY <1>5 DEF TrySteal, EnterLoop, Goto
<1>6. ASSUME NEW t \in Threads, NoSteal(t) PROVE ThreadInv'
  BY <1>6 DEF NoSteal, ReturnObject, Goto
<1>7. ASSUME NEW t \in Threads, ProbeTake(t) PROVE ThreadInv'
  BY <1>7 DEF ProbeTake, Goto
<1>8. ASSUME NEW t \in Threads, ProbeSkip(t) PROVE ThreadInv'
  BY <1>8 DEF ProbeSkip, NextIteration, Goto
<1>9. ASSUME NEW t \in Threads, LoopEnd(t) PROVE ThreadInv'
  BY <1>9 DEF LoopEnd, ReturnObject, Goto
<1>10. ASSUME NEW t \in Threads, LockSlot(t) PROVE ThreadInv'
  BY <1>10 DEF LockSlot, SpinLock, Goto
<1>11. ASSUME NEW t \in Threads, DecideTake(t) PROVE ThreadInv'
  BY <1>11 DEF DecideTake, Goto
<1>12. ASSUME NEW t \in Threads, DecideLeave(t) PROVE ThreadInv'
  BY <1>12 DEF DecideLeave, NextIteration, Goto
<1>13. ASSUME NEW t \in Threads, LockGlobal(t) PROVE ThreadInv'
  BY <1>13 DEF LockGlobal, ReadLock, CanRead, Goto
<1>14. ASSUME NEW t \in Threads, Claim(t) PROVE ThreadInv'
  BY <1>14 DEF Claim, Goto
<1>15. ASSUME NEW t \in Threads, Arm(t) PROVE ThreadInv'
  BY <1>15 DEF Arm, Overwrites, Ret, Goto
<1>16. ASSUME NEW t \in Threads, ArmFails(t) PROVE ThreadInv'
  BY <1>16 DEF ArmFails, Overwrites, Goto
<1>17. ASSUME NEW t \in Threads, Free(t) PROVE ThreadInv'
  BY <1>17 DEF Free, BeginCall, Goto
<1>18. ASSUME NEW t \in Threads, ScanHit(t) PROVE ThreadInv'
  BY <1>18 DEF ScanHit, Watches, Goto
<1>19. ASSUME NEW t \in Threads, ScanMiss(t) PROVE ThreadInv'
  BY <1>19 DEF ScanMiss, MoreSlots, Goto
<1>20. ASSUME NEW t \in Threads, LockFound(t) PROVE ThreadInv'
  BY <1>20 DEF LockFound, SpinLock, Goto
<1>21. ASSUME NEW t \in Threads, RecheckHit(t) PROVE ThreadInv'
  BY <1>21 DEF RecheckHit, Watches, Goto
<1>22. ASSUME NEW t \in Threads, RecheckMiss(t) PROVE ThreadInv'
  BY <1>22 DEF RecheckMiss, Watches, Goto
<1>23. ASSUME NEW t \in Threads, LockGlobalFree(t) PROVE ThreadInv'
  BY <1>23 DEF LockGlobalFree, ReadLock, CanRead, Goto
<1>24. ASSUME NEW t \in Threads, Disable(t) PROVE ThreadInv'
  BY <1>24 DEF Disable, AllClosed, Uncounted, Goto
<1>25. ASSUME NEW t \in Threads, UnlockGlobal(t) PROVE ThreadInv'
  BY <1>25 DEF UnlockGlobal, Goto
<1>26. ASSUME NEW t \in Threads, UnlockSlot(t) PROVE ThreadInv'
  <2>1. pc[t] = "unlockS" /\ UNCHANGED <<newborn, alive>>
    BY <1>26 DEF UnlockSlot
  <2>2. \E label \in {"release", "app", "probe"} : pc' = [pc EXCEPT ![t] = label]
    BY <1>26 DEF UnlockSlot, ReturnObject, NextIteration, Goto
  <2> QED
    BY <2>1, <2>2
<1>27. ASSUME NEW t \in Threads, Release(t) PROVE ThreadInv'
  BY <1>27 DEF Release, Goto
<1>28. ASSUME NEW t \in Threads, Create(t) PROVE ThreadInv'
  BY <1>28 DEF Create, BeginCall, Goto
<1>29. ASSUME NEW t \in Threads, LockCreate(t) PROVE ThreadInv'
  BY <1>29 DEF LockCreate, WriteLock, CanWrite, Goto
<1>30. ASSUME NEW t \in Threads, Spawn(t) PROVE ThreadInv'
  <2>1. PICK i \in Threads :
          pc[i] = "absent" /\ newborn' = i /\ pc' = [pc EXCEPT ![t] = "cbarrier", ![i] = "born"]
    BY <1>30, IndexInThreads DEF Spawn, Threads
  <2>2. /\ pc[t] = "cspawn" /\ newborn = NoThread /\ alive' = alive
        /\ i # NoThread /\ i # t /\ i \notin alive
    BY <1>30, <2>1 DEF Spawn
  <2>3. \A u \in Threads : pc[u] \notin Birth \cup {"cbarrier", "cinsert"}
    BY <2>2
  <2>4. /\ pc'[t] = "cbarrier" /\ pc'[i] = "born" /\ newborn' = i
        /\ \A u \in Threads : u # t /\ u # i => pc'[u] = pc[u]
    BY <2>1, <2>2
  <2>5. newborn' # NoThread <=> \E u \in Threads : pc'[u] \in {"cbarrier", "cinsert"}
    BY <2>2, <2>4
  <2>6. newborn' \notin alive'
    BY <2>2, <2>4
  <2>7. \A u \in Threads : pc'[u] \in Birth => u = newborn'
    BY <2>2, <2>3, <2>4
  <2>8. \A u \in Threads : u # t => pc'[u] \notin {"cbarrier", "cinsert"}
    BY <2>2, <2>3, <2>4
  <2>9. \A u \in alive' : pc'[u] \notin Birth \cup {"absent"}
    BY <2>2, <2>3, <2>4
  <2>10. \A u \in Threads : pc'[u] # "absent" => u \in alive' \cup {newborn'}
    BY <2>2, <2>3, <2>4
  <2> QED
    BY <2>4, <2>5, <2>6, <2>7, <2>8, <2>9, <2>10
<1>31. ASSUME NEW t \in Threads, Born(t) PROVE ThreadInv'
  BY <1>31 DEF Born, Overwrites, Goto
<1>32. ASSUME NEW t \in Threads, BornFails(t) PROVE ThreadInv'
  BY <1>32 DEF BornFails, Overwrites, Goto
<1>33. ASSUME NEW t \in Threads, Barrier(t) PROVE ThreadInv'
  BY <1>33 DEF Barrier
<1>34. ASSUME NEW t \in Threads, Insert(t) PROVE ThreadInv'
  <2>1. /\ pc[t] = "cinsert" /\ newborn' = NoThread /\ alive' = alive \cup {newborn}
        /\ pc'[t] = "app" /\ \A u \in Threads : u # t => pc'[u] = pc[u]
    BY <1>34 DEF Insert, Goto
  <2>2. /\ newborn \in Threads /\ pc[newborn] \notin Birth \cup {"absent"}
        /\ \A u \in Threads : pc[u] \notin Birth
    BY <2>1
  <2>3. \A u \in Threads : u # t => pc[u] \notin {"cbarrier", "cinsert"}
    BY <2>1
  <2> QED
    BY <2>1, <2>2, <2>3
<1>35. ASSUME NEW t \in Threads, Finish(t) PROVE ThreadInv'
  BY <1>35 DEF Finish, BeginCall, Goto
<1>36. ASSUME NEW t \in Threads, LockExit(t) PROVE ThreadInv'
  BY <1>36 DEF LockExit, WriteLock, CanWrite, Goto
<1>37. ASSUME NEW t \in Threads, Exit(t) PROVE ThreadInv'
  BY <1>37 DEF Exit, Goto
<1>38. CASE GhostFree
  BY <1>38 DEF GhostFree
<1>39. CASE UNCHANGED vars
  BY <1>39 DEF vars
<1>40. QED
  BY <1>1, <1>2, <1>3, <1>4, <1>5, <1>6, <1>7, <1>8, <1>9, <1>10, <1>11, <1>12, <1>13,
    <1>14, <1>15, <1>16, <1>17, <1>18, <1>19, <1>20, <1>21, <1>22, <1>23, <1>24, <1>25,
    <1>26, <1>27, <1>28, <1>29, <1>30, <1>31, <1>32, <1>33, <1>34, <1>35, <1>36, <1>37,
    <1>38, <1>39
    DEF Next, AppCall, LibraryStep, SetStep, StopStep, UnlockStep, ThreadStep, Done


\* No step leaves an open event behind.
LEMMA EventStep ==
  ASSUME TypeOK, LockInv, ThreadInv, EventInv, [Next]_vars
  PROVE  EventInv'
<1> USE Distinct DEF TypeOK, LockInv, ThreadInv, EventInv, EventsOwned, Open, LeftOver, Birth,
    Spinning, Reading, Writing, table, rwlock, xthread, locals
<1>1. ASSUME NEW t \in Threads, Malloc(t) PROVE EventInv'
  BY <1>1 DEF Malloc, BeginCall, Goto
<1>2. ASSUME NEW t \in Threads, Calloc(t) PROVE EventInv'
  BY <1>2 DEF Calloc, BeginCall
<1>3. ASSUME NEW t \in Threads, TryInstall(t) PROVE EventInv'
  BY <1>3 DEF TryInstall, EnterLoop, Goto
<1>4. ASSUME NEW t \in Threads, SkipInstall(t) PROVE EventInv'
  BY <1>4 DEF SkipInstall, Goto
<1>5. ASSUME NEW t \in Threads, TrySteal(t) PROVE EventInv'
  BY <1>5 DEF TrySteal, EnterLoop, Goto
<1>6. ASSUME NEW t \in Threads, NoSteal(t) PROVE EventInv'
  BY <1>6 DEF NoSteal, ReturnObject, Goto
<1>7. ASSUME NEW t \in Threads, ProbeTake(t) PROVE EventInv'
  BY <1>7 DEF ProbeTake, Goto
<1>8. ASSUME NEW t \in Threads, ProbeSkip(t) PROVE EventInv'
  BY <1>8 DEF ProbeSkip, NextIteration, Goto
<1>9. ASSUME NEW t \in Threads, LoopEnd(t) PROVE EventInv'
  BY <1>9 DEF LoopEnd, ReturnObject, Goto
<1>10. ASSUME NEW t \in Threads, LockSlot(t) PROVE EventInv'
  BY <1>10 DEF LockSlot, SpinLock, Goto
<1>11. ASSUME NEW t \in Threads, DecideTake(t) PROVE EventInv'
  BY <1>11 DEF DecideTake, Goto
<1>12. ASSUME NEW t \in Threads, DecideLeave(t) PROVE EventInv'
  BY <1>12 DEF DecideLeave, NextIteration, Goto
<1>13. ASSUME NEW t \in Threads, LockGlobal(t) PROVE EventInv'
  BY <1>13 DEF LockGlobal, ReadLock, CanRead, Goto
<1>14. ASSUME NEW t \in Threads, Claim(t) PROVE EventInv'
  <2> DEFINE w == slot[t]
  <2>1. /\ pc[t] = "claim" /\ used' = [used EXCEPT ![w] = TRUE] /\ slot' = slot
        /\ pc'[t] = "arm" /\ \A u \in Threads : u # t => pc'[u] = pc[u]
        /\ alive' = alive /\ newborn' = newborn
    BY <1>14 DEF Claim, Goto
  <2>2. (used[w] => ClosedSlot(w)) /\ (~used[w] => fd' = fd)
    BY <1>14, ClaimFacts
  <2>3. newborn = NoThread
    BY <2>1
  <2>4. \A u \in Threads : fd'[w][u] \notin Open
    <3>1. w \in Slots /\ \A u \in Threads : u \notin alive => fd[w][u] \notin Open
      BY <2>3
    <3>2. ASSUME NEW u \in Threads PROVE fd'[w][u] \notin Open
      <4>1. CASE ClosedSlot(w)
        BY <3>1, <4>1 DEF ClosedSlot
      <4>2. CASE fd' = fd /\ ~used[w]
        BY <3>1, <4>2
      <4> QED
        BY <2>2, <4>1, <4>2
    <3> QED
      BY <3>2
  <2>5. \A v \in Slots, u \in Threads : fd'[v][u] \in Open => fd[v][u] \in Open
    <3>1. CASE ClosedSlot(w)
      <4>1. ASSUME NEW v \in Slots \ {w}, NEW u \in Threads, fd'[v][u] \in Open PROVE fd[v][u] \in Open
        BY <3>1, <4>1 DEF ClosedSlot
      <4> QED
        BY <2>4, <4>1
    <3>2. CASE fd' = fd
      BY <3>2
    <3> QED
      BY <2>2, <3>1, <3>2
  <2>6. \A u \in Threads : pc[u] = "arm" => slot[u] # w
    BY <2>1
  <2> QED
    BY <2>1, <2>4, <2>5, <2>6
<1>15. ASSUME NEW t \in Threads, Arm(t) PROVE EventInv'
  BY <1>15 DEF Arm, Overwrites, Ret, Goto
<1>16. ASSUME NEW t \in Threads, ArmFails(t) PROVE EventInv'
  BY <1>16 DEF ArmFails, Disabled, Overwrites, Goto
<1>17. ASSUME NEW t \in Threads, Free(t) PROVE EventInv'
  BY <1>17 DEF Free, BeginCall, Goto
<1>18. ASSUME NEW t \in Threads, ScanHit(t) PROVE EventInv'
  BY <1>18 DEF ScanHit, Watches, Goto
<1>19. ASSUME NEW t \in Threads, ScanMiss(t) PROVE EventInv'
  BY <1>19 DEF ScanMiss, MoreSlots, Goto
<1>20. ASSUME NEW t \in Threads, LockFound(t) PROVE EventInv'
  BY <1>20 DEF LockFound, SpinLock, Goto
<1>21. ASSUME NEW t \in Threads, RecheckHit(t) PROVE EventInv'
  BY <1>21 DEF RecheckHit, Watches, Goto
<1>22. ASSUME NEW t \in Threads, RecheckMiss(t) PROVE EventInv'
  BY <1>22 DEF RecheckMiss, Watches, Goto
<1>23. ASSUME NEW t \in Threads, LockGlobalFree(t) PROVE EventInv'
  BY <1>23 DEF LockGlobalFree, ReadLock, CanRead, Goto
<1>24. ASSUME NEW t \in Threads, Disable(t) PROVE EventInv'
  <2> DEFINE w == slot[t]
  <2>1. /\ pc[t] = "disable" /\ pc' = [pc EXCEPT ![t] = "unlockR"]
        /\ UNCHANGED <<slot, alive, newborn>> /\ \A v \in Slots : v # w => used'[v] = used[v]
    BY <1>24 DEF Disable, Goto
  <2>2. ClosedSlot(w)
    BY <1>24, DisableFacts
  <2>3. newborn = NoThread
    BY <2>1
  <2>4. \A u \in Threads : fd'[w][u] \notin Open
    <3>1. w \in Slots /\ \A u \in Threads : u \notin alive => fd[w][u] \notin Open
      BY <2>3
    <3>2. ASSUME NEW u \in Threads PROVE fd'[w][u] \notin Open
      <4>1. CASE ClosedSlot(w)
        BY <3>1, <4>1 DEF ClosedSlot
      <4>2. CASE fd' = fd /\ ~used[w]
        BY <3>1, <4>2
      <4> QED
        BY <2>2, <4>1, <4>2
    <3> QED
      BY <3>2
  <2>5. \A v \in Slots, u \in Threads : fd'[v][u] \in Open => fd[v][u] \in Open
    <3>1. CASE ClosedSlot(w)
      <4>1. ASSUME NEW v \in Slots \ {w}, NEW u \in Threads, fd'[v][u] \in Open PROVE fd[v][u] \in Open
        BY <3>1, <4>1 DEF ClosedSlot
      <4> QED
        BY <2>4, <4>1
    <3>2. CASE fd' = fd
      BY <3>2
    <3> QED
      BY <2>2, <3>1, <3>2
  <2>6. \A u \in Threads : pc[u] = "arm" => slot[u] # w
    BY <2>1
  <2> QED
    BY <2>1, <2>4, <2>5, <2>6
<1>25. ASSUME NEW t \in Threads, UnlockGlobal(t) PROVE EventInv'
  BY <1>25 DEF UnlockGlobal, Goto
<1>26. ASSUME NEW t \in Threads, UnlockSlot(t) PROVE EventInv'
  BY <1>26 DEF UnlockSlot, ReturnObject, NextIteration, Goto
<1>27. ASSUME NEW t \in Threads, Release(t) PROVE EventInv'
  BY <1>27 DEF Release, Goto
<1>28. ASSUME NEW t \in Threads, Create(t) PROVE EventInv'
  BY <1>28 DEF Create, BeginCall, Goto
<1>29. ASSUME NEW t \in Threads, LockCreate(t) PROVE EventInv'
  BY <1>29 DEF LockCreate, WriteLock, CanWrite, Goto
<1>30. ASSUME NEW t \in Threads, Spawn(t) PROVE EventInv'
  BY <1>30 DEF Spawn
<1>31. ASSUME NEW t \in Threads, Born(t) PROVE EventInv'
  BY <1>31 DEF Born, Overwrites, Goto
<1>32. ASSUME NEW t \in Threads, BornFails(t) PROVE EventInv'
  BY <1>32 DEF BornFails, Overwrites, Goto
<1>33. ASSUME NEW t \in Threads, Barrier(t) PROVE EventInv'
  BY <1>33 DEF Barrier
<1>34. ASSUME NEW t \in Threads, Insert(t) PROVE EventInv'
  BY <1>34 DEF Insert, Goto
<1>35. ASSUME NEW t \in Threads, Finish(t) PROVE EventInv'
  BY <1>35 DEF Finish, BeginCall, Goto
<1>36. ASSUME NEW t \in Threads, LockExit(t) PROVE EventInv'
  BY <1>36 DEF LockExit, WriteLock, CanWrite, Goto
<1>37. ASSUME NEW t \in Threads, Exit(t) PROVE EventInv'
  <2>1. /\ pc' = [pc EXCEPT ![t] = "absent"] /\ alive' = alive \ {t}
        /\ UNCHANGED <<used, slot, newborn>>
    BY <1>37 DEF Exit, Goto
  <2>2. \A v \in Slots, u \in Threads : fd'[v][u] \in Open => fd[v][u] \in Open /\ u # t
    <3>1. \A v \in Slots : fd'[v][t] \notin Open
      BY <1>37, ExitFacts
    <3>2. \A v \in Slots, u \in Threads \ {t} : fd'[v][u] \in Open => fd[v][u] \in Open
      BY <1>37, ExitFacts
    <3> QED
      BY <3>1, <3>2
  <2> QED
    BY <2>1, <2>2
<1>38. CASE GhostFree
  BY <1>38 DEF GhostFree
<1>39. CASE UNCHANGED vars
  BY <1>39 DEF vars
<1>40. QED
  BY <1>1, <1>2, <1>3, <1>4, <1>5, <1>6, <1>7, <1>8, <1>9, <1>10, <1>11, <1>12, <1>13,
    <1>14, <1>15, <1>16, <1>17, <1>18, <1>19, <1>20, <1>21, <1>22, <1>23, <1>24, <1>25,
    <1>26, <1>27, <1>28, <1>29, <1>30, <1>31, <1>32, <1>33, <1>34, <1>35, <1>36, <1>37,
    <1>38, <1>39
    DEF Next, AppCall, LibraryStep, SetStep, StopStep, UnlockStep, ThreadStep, Done


\* What a thread has seen of a slot under its lock stays true while it holds the lock.
LEMMA SlotStep ==
  ASSUME TypeOK, LockInv, SlotInv, [Next]_vars
  PROVE  SlotInv'
<1> USE Distinct DEF TypeOK, LockInv, SlotInv, Watches, Spinning, PcSet, PcStop,
    table, rwlock, xthread, locals
<1>1. ASSUME NEW t \in Threads, Malloc(t) PROVE SlotInv'
  BY <1>1 DEF Malloc, BeginCall, Goto
<1>2. ASSUME NEW t \in Threads, Calloc(t) PROVE SlotInv'
  BY <1>2 DEF Calloc, BeginCall
<1>3. ASSUME NEW t \in Threads, TryInstall(t) PROVE SlotInv'
  BY <1>3 DEF TryInstall, EnterLoop, Goto
<1>4. ASSUME NEW t \in Threads, SkipInstall(t) PROVE SlotInv'
  BY <1>4 DEF SkipInstall, Goto
<1>5. ASSUME NEW t \in Threads, TrySteal(t) PROVE SlotInv'
  BY <1>5 DEF TrySteal, EnterLoop, Goto
<1>6. ASSUME NEW t \in Threads, NoSteal(t) PROVE SlotInv'
  BY <1>6 DEF NoSteal, ReturnObject, Goto
<1>7. ASSUME NEW t \in Threads, ProbeTake(t) PROVE SlotInv'
  BY <1>7 DEF ProbeTake, Goto
<1>8. ASSUME NEW t \in Threads, ProbeSkip(t) PROVE SlotInv'
  BY <1>8 DEF ProbeSkip, NextIteration, Goto
<1>9. ASSUME NEW t \in Threads, LoopEnd(t) PROVE SlotInv'
  BY <1>9 DEF LoopEnd, ReturnObject, Goto
<1>10. ASSUME NEW t \in Threads, LockSlot(t) PROVE SlotInv'
  BY <1>10 DEF LockSlot, SpinLock, Goto
<1>11. ASSUME NEW t \in Threads, DecideTake(t) PROVE SlotInv'
  BY <1>11 DEF DecideTake, Goto
<1>12. ASSUME NEW t \in Threads, DecideLeave(t) PROVE SlotInv'
  BY <1>12 DEF DecideLeave, NextIteration, Goto
<1>13. ASSUME NEW t \in Threads, LockGlobal(t) PROVE SlotInv'
  BY <1>13 DEF LockGlobal, ReadLock, CanRead, Goto
<1>14. ASSUME NEW t \in Threads, Claim(t) PROVE SlotInv'
  BY <1>14 DEF Claim, Goto
<1>15. ASSUME NEW t \in Threads, Arm(t) PROVE SlotInv'
  BY <1>15 DEF Arm, Overwrites, Ret, Goto
<1>16. ASSUME NEW t \in Threads, ArmFails(t) PROVE SlotInv'
  BY <1>16 DEF ArmFails, Overwrites, Goto
<1>17. ASSUME NEW t \in Threads, Free(t) PROVE SlotInv'
  BY <1>17 DEF Free, BeginCall, Goto
<1>18. ASSUME NEW t \in Threads, ScanHit(t) PROVE SlotInv'
  BY <1>18 DEF ScanHit, Watches, Goto
<1>19. ASSUME NEW t \in Threads, ScanMiss(t) PROVE SlotInv'
  BY <1>19 DEF ScanMiss, MoreSlots, Goto
<1>20. ASSUME NEW t \in Threads, LockFound(t) PROVE SlotInv'
  BY <1>20 DEF LockFound, SpinLock, Goto
<1>21. ASSUME NEW t \in Threads, RecheckHit(t) PROVE SlotInv'
  BY <1>21 DEF RecheckHit, Watches, Goto
<1>22. ASSUME NEW t \in Threads, RecheckMiss(t) PROVE SlotInv'
  BY <1>22 DEF RecheckMiss, Watches, Goto
<1>23. ASSUME NEW t \in Threads, LockGlobalFree(t) PROVE SlotInv'
  BY <1>23 DEF LockGlobalFree, ReadLock, CanRead, Goto
<1>24. ASSUME NEW t \in Threads, Disable(t) PROVE SlotInv'
  BY <1>24 DEF Disable, AllClosed, Uncounted, Goto
<1>25. ASSUME NEW t \in Threads, UnlockGlobal(t) PROVE SlotInv'
  BY <1>25 DEF UnlockGlobal, Goto
<1>26. ASSUME NEW t \in Threads, UnlockSlot(t) PROVE SlotInv'
  BY <1>26 DEF UnlockSlot, ReturnObject, NextIteration, Goto
<1>27. ASSUME NEW t \in Threads, Release(t) PROVE SlotInv'
  BY <1>27 DEF Release, Goto
<1>28. ASSUME NEW t \in Threads, Create(t) PROVE SlotInv'
  BY <1>28 DEF Create, BeginCall, Goto
<1>29. ASSUME NEW t \in Threads, LockCreate(t) PROVE SlotInv'
  BY <1>29 DEF LockCreate, WriteLock, CanWrite, Goto
<1>30. ASSUME NEW t \in Threads, Spawn(t) PROVE SlotInv'
  BY <1>30 DEF Spawn
<1>31. ASSUME NEW t \in Threads, Born(t) PROVE SlotInv'
  BY <1>31 DEF Born, Overwrites, Goto
<1>32. ASSUME NEW t \in Threads, BornFails(t) PROVE SlotInv'
  BY <1>32 DEF BornFails, Overwrites, Goto
<1>33. ASSUME NEW t \in Threads, Barrier(t) PROVE SlotInv'
  <2>1. /\ pc' = [pc EXCEPT ![t] = "cinsert", ![newborn] = "app"]
        /\ UNCHANGED <<used, obj, op, arg, slot>>
    BY <1>33 DEF Barrier
  <2> QED
    BY <2>1
<1>34. ASSUME NEW t \in Threads, Insert(t) PROVE SlotInv'
  BY <1>34 DEF Insert, Goto
<1>35. ASSUME NEW t \in Threads, Finish(t) PROVE SlotInv'
  BY <1>35 DEF Finish, BeginCall, Goto
<1>36. ASSUME NEW t \in Threads, LockExit(t) PROVE SlotInv'
  BY <1>36 DEF LockExit, WriteLock, CanWrite, Goto
<1>37. ASSUME NEW t \in Threads, Exit(t) PROVE SlotInv'
  BY <1>37 DEF Exit, Goto
<1>38. CASE GhostFree
  BY <1>38 DEF GhostFree
<1>39. CASE UNCHANGED vars
  BY <1>39 DEF vars
<1>40. QED
  BY <1>1, <1>2, <1>3, <1>4, <1>5, <1>6, <1>7, <1>8, <1>9, <1>10, <1>11, <1>12, <1>13,
    <1>14, <1>15, <1>16, <1>17, <1>18, <1>19, <1>20, <1>21, <1>22, <1>23, <1>24, <1>25,
    <1>26, <1>27, <1>28, <1>29, <1>30, <1>31, <1>32, <1>33, <1>34, <1>35, <1>36, <1>37,
    <1>38, <1>39
    DEF Next, AppCall, LibraryStep, SetStep, StopStep, UnlockStep, ThreadStep, Done


\* The counter follows the set of settled slots, or exceeds it.
LEMMA SettledStep ==
  ASSUME TypeOK, LockInv, SlotInv, [Next]_vars
  PROVE  \/ Settled' \subseteq Settled /\ num' = num
         \/ \E w \in Slots : Settled' \subseteq Settled \cup {w} /\ num' = num + 1
         \/ \E w \in Settled : Settled' \subseteq Settled \ {w} /\ num' = num - 1
<1> DEFINE Changed ==
      \/ Settled' \subseteq Settled /\ num' = num
      \/ \E w \in Slots : Settled' \subseteq Settled \cup {w} /\ num' = num + 1
      \/ \E w \in Settled : Settled' \subseteq Settled \ {w} /\ num' = num - 1
<1> USE Distinct DEF TypeOK, LockInv, Settled, MidInstall, Spinning,
    table, rwlock, xthread, locals
<1>1. ASSUME NEW t \in Threads, Malloc(t) PROVE Changed
  BY <1>1 DEF Malloc, BeginCall, Goto
<1>2. ASSUME NEW t \in Threads, Calloc(t) PROVE Changed
  BY <1>2 DEF Calloc, BeginCall
<1>3. ASSUME NEW t \in Threads, TryInstall(t) PROVE Changed
  BY <1>3 DEF TryInstall, EnterLoop, Goto
<1>4. ASSUME NEW t \in Threads, SkipInstall(t) PROVE Changed
  BY <1>4 DEF SkipInstall, Goto
<1>5. ASSUME NEW t \in Threads, TrySteal(t) PROVE Changed
  BY <1>5 DEF TrySteal, EnterLoop, Goto
<1>6. ASSUME NEW t \in Threads, NoSteal(t) PROVE Changed
  BY <1>6 DEF NoSteal, ReturnObject, Goto
<1>7. ASSUME NEW t \in Threads, ProbeTake(t) PROVE Changed
  BY <1>7 DEF ProbeTake, Goto
<1>8. ASSUME NEW t \in Threads, ProbeSkip(t) PROVE Changed
  BY <1>8 DEF ProbeSkip, NextIteration, Goto
<1>9. ASSUME NEW t \in Threads, LoopEnd(t) PROVE Changed
  BY <1>9 DEF LoopEnd, ReturnObject, Goto
<1>10. ASSUME NEW t \in Threads, LockSlot(t) PROVE Changed
  BY <1>10 DEF LockSlot, SpinLock, Goto
<1>11. ASSUME NEW t \in Threads, DecideTake(t) PROVE Changed
  BY <1>11 DEF DecideTake, Goto
<1>12. ASSUME NEW t \in Threads, DecideLeave(t) PROVE Changed
  BY <1>12 DEF DecideLeave, NextIteration, Goto
<1>13. ASSUME NEW t \in Threads, LockGlobal(t) PROVE Changed
  BY <1>13 DEF LockGlobal, ReadLock, CanRead, Goto
<1>14. ASSUME NEW t \in Threads, Claim(t) PROVE Changed
  <2>1. slot[t] \in Slots /\ pc'[t] = "arm" /\ \A u \in Threads : u # t => pc'[u] = pc[u]
    BY <1>14 DEF Claim, Goto
  <2>2. slot' = slot /\ used' = [used EXCEPT ![slot[t]] = TRUE] /\ num' = num
    BY <1>14 DEF Claim
  <2>3. Settled' \subseteq Settled
    BY <2>1, <2>2
  <2> QED
    BY <2>2, <2>3
<1>15. ASSUME NEW t \in Threads, Arm(t) PROVE Changed
  <2>1. /\ pc[t] = "arm" /\ slot[t] \in Slots /\ slot' = slot /\ used' = used /\ num' = num + 1
        /\ pc'[t] = "unlockR" /\ \A u \in Threads : u # t => pc'[u] = pc[u]
    BY <1>15 DEF Arm, Goto
  <2>2. Settled' \subseteq Settled \cup {slot[t]}
    BY <2>1
  <2> QED
    BY <2>1, <2>2
<1>16. ASSUME NEW t \in Threads, ArmFails(t) PROVE Changed
  <2>1. /\ pc[t] = "arm" /\ slot[t] \in Slots /\ slot' = slot /\ num' = num
        /\ \A w \in Slots : used'[w] => used[w] /\ w # slot[t]
        /\ pc'[t] = "unlockR" /\ \A u \in Threads : u # t => pc'[u] = pc[u]
    BY <1>16 DEF ArmFails, Goto
  <2>2. Settled' \subseteq Settled
    <3>1. \A w \in Slots : (\E u \in Threads : pc[u] = "arm" /\ slot[u] = w) =>
            w = slot[t] \/ \E u \in Threads : pc'[u] = "arm" /\ slot'[u] = w
      BY <2>1
    <3> QED
      BY <2>1, <3>1
  <2> HIDE DEF Settled
  <2> QED
    BY <2>1, <2>2
<1>17. ASSUME NEW t \in Threads, Free(t) PROVE Changed
  BY <1>17 DEF Free, BeginCall, Goto
<1>18. ASSUME NEW t \in Threads, ScanHit(t) PROVE Changed
  BY <1>18 DEF ScanHit, Watches, Goto
<1>19. ASSUME NEW t \in Threads, ScanMiss(t) PROVE Changed
  BY <1>19 DEF ScanMiss, MoreSlots, Goto
<1>20. ASSUME NEW t \in Threads, LockFound(t) PROVE Changed
  BY <1>20 DEF LockFound, SpinLock, Goto
<1>21. ASSUME NEW t \in Threads, RecheckHit(t) PROVE Changed
  BY <1>21 DEF RecheckHit, Watches, Goto
<1>22. ASSUME NEW t \in Threads, RecheckMiss(t) PROVE Changed
  BY <1>22 DEF RecheckMiss, Watches, Goto
<1>23. ASSUME NEW t \in Threads, LockGlobalFree(t) PROVE Changed
  BY <1>23 DEF LockGlobalFree, ReadLock, CanRead, Goto
<1>24. ASSUME NEW t \in Threads, Disable(t) PROVE Changed
  <2>1. /\ pc[t] = "disable" /\ slot[t] \in Slots /\ slot' = slot
        /\ pc'[t] = "unlockR" /\ \A u \in Threads : u # t => pc'[u] = pc[u]
    BY <1>24 DEF Disable, Goto
  <2>2. slot[t] \in Settled
    BY <2>1 DEF SlotInv, Watches
  <2>3. CASE AllClosed(slot[t])
    <3>1. num' = num - 1 /\ \A w \in Slots : used'[w] => used[w] /\ w # slot[t]
      BY <1>24, <2>3 DEF Disable, Uncounted
    <3>2. Settled' \subseteq Settled \ {slot[t]}
      BY <2>1, <3>1
    <3> HIDE DEF Settled
    <3> QED
      BY <2>2, <3>1, <3>2
  <2>4. CASE ~AllClosed(slot[t])
    <3>1. num' = num /\ \A w \in Slots : used'[w] => used[w]
      BY <1>24, <2>2, <2>4 DEF Disable, Uncounted
    <3>2. Settled' \subseteq Settled
      BY <2>1, <3>1
    <3> QED
      BY <3>1, <3>2
  <2> QED
    BY <2>3, <2>4
<1>25. ASSUME NEW t \in Threads, UnlockGlobal(t) PROVE Changed
  BY <1>25 DEF UnlockGlobal, Goto
<1>26. ASSUME NEW t \in Threads, UnlockSlot(t) PROVE Changed
  BY <1>26 DEF UnlockSlot, ReturnObject, NextIteration, Goto
<1>27. ASSUME NEW t \in Threads, Release(t) PROVE Changed
  BY <1>27 DEF Release, Goto
<1>28. ASSUME NEW t \in Threads, Create(t) PROVE Changed
  BY <1>28 DEF Create, BeginCall, Goto
<1>29. ASSUME NEW t \in Threads, LockCreate(t) PROVE Changed
  BY <1>29 DEF LockCreate, WriteLock, CanWrite, Goto
<1>30. ASSUME NEW t \in Threads, Spawn(t) PROVE Changed
  BY <1>30 DEF Spawn
<1>31. ASSUME NEW t \in Threads, Born(t) PROVE Changed
  BY <1>31 DEF Born, Overwrites, Goto
<1>32. ASSUME NEW t \in Threads, BornFails(t) PROVE Changed
  BY <1>32 DEF BornFails, Overwrites, Goto
<1>33. ASSUME NEW t \in Threads, Barrier(t) PROVE Changed
  BY <1>33 DEF Barrier
<1>34. ASSUME NEW t \in Threads, Insert(t) PROVE Changed
  BY <1>34 DEF Insert, Goto
<1>35. ASSUME NEW t \in Threads, Finish(t) PROVE Changed
  BY <1>35 DEF Finish, BeginCall, Goto
<1>36. ASSUME NEW t \in Threads, LockExit(t) PROVE Changed
  BY <1>36 DEF LockExit, WriteLock, CanWrite, Goto
<1>37. ASSUME NEW t \in Threads, Exit(t) PROVE Changed
  BY <1>37 DEF Exit, Goto
<1>38. CASE GhostFree
  BY <1>38 DEF GhostFree
<1>39. CASE UNCHANGED vars
  BY <1>39 DEF vars
<1>40. QED
  BY <1>1, <1>2, <1>3, <1>4, <1>5, <1>6, <1>7, <1>8, <1>9, <1>10, <1>11, <1>12, <1>13,
    <1>14, <1>15, <1>16, <1>17, <1>18, <1>19, <1>20, <1>21, <1>22, <1>23, <1>24, <1>25,
    <1>26, <1>27, <1>28, <1>29, <1>30, <1>31, <1>32, <1>33, <1>34, <1>35, <1>36, <1>37,
    <1>38, <1>39
    DEF Next, AppCall, LibraryStep, SetStep, StopStep, UnlockStep, ThreadStep, Done


\* Removing or adding one slot changes the number of settled slots by one.
LEMMA CountStep ==
  ASSUME TypeOK, LockInv, SlotInv, CountCoversUsed, [Next]_vars
  PROVE  CountCoversUsed'
<1>1. IsFiniteSet(Slots) /\ Settled \subseteq Slots /\ Settled' \subseteq Slots
  BY FS_Interval, SizesAssumption DEF Slots, Settled
<1>2. IsFiniteSet(Settled) /\ IsFiniteSet(Settled')
  BY <1>1, FS_Subset
<1>3. Cardinality(Settled) \in Nat /\ Cardinality(Settled') \in Nat /\ num \in Int
  BY <1>2, FS_CardinalityType DEF TypeOK
<1>4. CASE Settled' \subseteq Settled /\ num' = num
  BY <1>2, <1>3, <1>4, FS_Subset DEF CountCoversUsed
<1>5. CASE \E w \in Slots : Settled' \subseteq Settled \cup {w} /\ num' = num + 1
  <2>1. PICK w \in Slots : Settled' \subseteq Settled \cup {w} /\ num' = num + 1
    BY <1>5
  <2>2. /\ IsFiniteSet(Settled \cup {w})
        /\ \/ Cardinality(Settled \cup {w}) = Cardinality(Settled)
           \/ Cardinality(Settled \cup {w}) = Cardinality(Settled) + 1
    BY <1>2, FS_AddElement
  <2>3. Cardinality(Settled') <= Cardinality(Settled \cup {w})
    BY <2>1, <2>2, FS_Subset
  <2>4. Cardinality(Settled \cup {w}) \in Nat
    BY <2>2, FS_CardinalityType
  <2> QED
    BY <1>3, <2>1, <2>2, <2>3, <2>4 DEF CountCoversUsed
<1>6. CASE \E w \in Settled : Settled' \subseteq Settled \ {w} /\ num' = num - 1
  <2>1. PICK w \in Settled : Settled' \subseteq Settled \ {w} /\ num' = num - 1
    BY <1>6
  <2>2. /\ IsFiniteSet(Settled \ {w})
        /\ Cardinality(Settled \ {w}) = Cardinality(Settled) - 1
    BY <1>2, <2>1, FS_RemoveElement
  <2>3. Cardinality(Settled') <= Cardinality(Settled \ {w})
    BY <2>1, <2>2, FS_Subset
  <2> QED
    BY <1>3, <2>1, <2>2, <2>3 DEF CountCoversUsed
<1> QED
  BY <1>4, <1>5, <1>6, SettledStep


-----------------------------------------------------------------------------
(* The invariants that hold when nothing fails *)


\* Without failures every alive thread has an event for every settled slot.
LEMMA CoverStep ==
  ASSUME TypeOK, LockInv, ThreadInv, EventInv, SlotInv, CoverInv, [Next]_vars
  PROVE  CoverInv'
<1> USE Distinct DEF TypeOK, LockInv, ThreadInv, EventInv, CoverInv, MidInstall, Watching, Open, LeftOver,
    Birth, Spinning, Reading, Writing, table, rwlock, xthread, locals, bounds, history
<1>a. \A w \in Slots, u \in alive : fd[w][u] \in LeftOver => reused
  OBVIOUS
<1>1. ASSUME NEW t \in Threads, Malloc(t) PROVE CoverInv'
  BY <1>1 DEF Malloc, BeginCall, Goto
<1>2. ASSUME NEW t \in Threads, Calloc(t) PROVE CoverInv'
  BY <1>2 DEF Calloc, BeginCall
<1>3. ASSUME NEW t \in Threads, TryInstall(t) PROVE CoverInv'
  BY <1>3 DEF TryInstall, EnterLoop, Goto
<1>4. ASSUME NEW t \in Threads, SkipInstall(t) PROVE CoverInv'
  BY <1>4 DEF SkipInstall, Goto
<1>5. ASSUME NEW t \in Threads, TrySteal(t) PROVE CoverInv'
  BY <1>5 DEF TrySteal, EnterLoop, Goto
<1>6. ASSUME NEW t \in Threads, NoSteal(t) PROVE CoverInv'
  BY <1>6 DEF NoSteal, ReturnObject, Goto
<1>7. ASSUME NEW t \in Threads, ProbeTake(t) PROVE CoverInv'
  BY <1>7 DEF ProbeTake, Goto
<1>8. ASSUME NEW t \in Threads, ProbeSkip(t) PROVE CoverInv'
  BY <1>8 DEF ProbeSkip, NextIteration, Goto
<1>9. ASSUME NEW t \in Threads, LoopEnd(t) PROVE CoverInv'
  <2>1. /\ pc[t] = "probe" /\ \E label \in {"roll", "app"} : pc' = [pc EXCEPT ![t] = label]
        /\ UNCHANGED <<used, fd, slot, alive, newborn, failures, orphaned, reused>>
    BY <1>9 DEF LoopEnd, ReturnObject, Goto
  <2> QED
    BY <2>1
<1>10. ASSUME NEW t \in Threads, LockSlot(t) PROVE CoverInv'
  BY <1>10 DEF LockSlot, SpinLock, Goto
<1>11. ASSUME NEW t \in Threads, DecideTake(t) PROVE CoverInv'
  BY <1>11 DEF DecideTake, Goto
<1>12. ASSUME NEW t \in Threads, DecideLeave(t) PROVE CoverInv'
  BY <1>12 DEF DecideLeave, NextIteration, Goto
<1>13. ASSUME NEW t \in Threads, LockGlobal(t) PROVE CoverInv'
  BY <1>13 DEF LockGlobal, ReadLock, CanRead, Goto
<1>14. ASSUME NEW t \in Threads, Claim(t) PROVE CoverInv'
  <2> DEFINE w == slot[t]
  <2>0. (\E a \in alive : fd[w][a] \in LeftOver) => reused
    BY <1>a
  <2>1. /\ pc[t] = "claim" /\ used' = [used EXCEPT ![w] = TRUE] /\ w \in Slots
        /\ pc' = [pc EXCEPT ![t] = "arm"]
        /\ UNCHANGED <<slot, alive, newborn, failures, orphaned, reused>>
    BY <1>14 DEF Claim, Goto
  <2>c. ClosedSlot(w) \/ fd' = fd
    BY <1>14, ClaimFacts
  <2>2. newborn = NoThread
    BY <2>1
  <2>3. \A v \in Slots : used'[v] /\ ~MidInstall(v)' => used[v] /\ ~MidInstall(v) /\ v # w
    BY <2>1
  <2>4. \A v \in Slots, u \in Threads : v # w =>
          fd'[v][u] = fd[v][u] \/ (fd'[v][u] = "lapsed" /\ fd[v][u] \in Open /\ reused)
    BY <2>0, <2>c DEF ClosedSlot
  <2>5. \A u \in Threads :
          fd'[w][u] \in {fd[w][u], "none"} \/ (fd'[w][u] = "lapsed" /\ reused)
    <3>1. \A u \in alive : fd'[w][u] \in {fd[w][u], "none"}
      BY <2>c DEF ClosedSlot
    <3>2. \A u \in Threads \ alive :
            fd'[w][u] = fd[w][u] \/ (fd'[w][u] = "lapsed" /\ reused)
      BY <2>0, <2>c DEF ClosedSlot
    <3> QED
      BY <3>1, <3>2
  <2>6. \A v \in Slots, u \in alive' : used'[v] /\ ~MidInstall(v)' => Watching(v, u)'
    BY <2>1, <2>3, <2>4
  <2>7. ~reused => \A v \in Slots, u \in Threads : fd'[v][u] \in {fd[v][u], "none"}
    <3> SUFFICES ASSUME ~reused, NEW v \in Slots, NEW u \in Threads
                 PROVE  fd'[v][u] \in {fd[v][u], "none"}
      OBVIOUS
    <3>1. CASE v = w
      BY <3>1, <2>5
    <3>2. CASE v # w
      BY <3>2, <2>4
    <3> QED
      BY <3>1, <3>2
  <2>8. \A u \in Threads : pc[u] = "absent" => pc'[u] = "absent"
    BY <2>1
  <2> QED
    BY <2>1, <2>2, <2>6, <2>7, <2>8
<1>15. ASSUME NEW t \in Threads, Arm(t) PROVE CoverInv'
  BY <1>15 DEF Arm, Overwrites, Ret, Goto
<1>16. ASSUME NEW t \in Threads, ArmFails(t) PROVE CoverInv'
  BY <1>16 DEF ArmFails, Disabled, Overwrites, Goto
<1>17. ASSUME NEW t \in Threads, Free(t) PROVE CoverInv'
  BY <1>17 DEF Free, BeginCall, Goto
<1>18. ASSUME NEW t \in Threads, ScanHit(t) PROVE CoverInv'
  BY <1>18 DEF ScanHit, Watches, Goto
<1>19. ASSUME NEW t \in Threads, ScanMiss(t) PROVE CoverInv'
  BY <1>19 DEF ScanMiss, MoreSlots, Goto
<1>20. ASSUME NEW t \in Threads, LockFound(t) PROVE CoverInv'
  BY <1>20 DEF LockFound, SpinLock, Goto
<1>21. ASSUME NEW t \in Threads, RecheckHit(t) PROVE CoverInv'
  BY <1>21 DEF RecheckHit, Watches, Goto
<1>22. ASSUME NEW t \in Threads, RecheckMiss(t) PROVE CoverInv'
  BY <1>22 DEF RecheckMiss, Watches, Goto
<1>23. ASSUME NEW t \in Threads, LockGlobalFree(t) PROVE CoverInv'
  BY <1>23 DEF LockGlobalFree, ReadLock, CanRead, Goto
<1>24. ASSUME NEW t \in Threads, Disable(t) PROVE CoverInv'
  <2> DEFINE w == slot[t]
  <2>0. (\E a \in alive : fd[w][a] \in LeftOver) => reused
    BY <1>a
  <2>1. /\ pc[t] = "disable" /\ w \in Slots /\ pc' = [pc EXCEPT ![t] = "unlockR"]
        /\ UNCHANGED <<slot, alive, newborn, failures, orphaned, reused>>
    BY <1>24 DEF Disable, Goto
  <2>c. ClosedSlot(w)
    BY <1>24, DisableFacts
  <2>2. newborn = NoThread
    BY <2>1
  <2>3. used[w] /\ ~MidInstall(w)
    BY <2>1 DEF SlotInv, Watches
  <2>4. AllClosed(w)
    <3>1. \A u \in alive : Watching(w, u)
      BY <2>1, <2>3
    <3> QED
      BY <3>1 DEF AllClosed
  <2>5. used' = [used EXCEPT ![w] = FALSE]
    BY <1>24, <2>4 DEF Disable
  <2>6. \A v \in Slots : used'[v] /\ ~MidInstall(v)' => used[v] /\ ~MidInstall(v) /\ v # w
    BY <2>1, <2>5
  <2>7. \A v \in Slots, u \in Threads : v # w =>
          fd'[v][u] = fd[v][u] \/ (fd'[v][u] = "lapsed" /\ fd[v][u] \in Open /\ reused)
    BY <2>0, <2>c DEF ClosedSlot
  <2>8. \A u \in Threads :
          fd'[w][u] \in {fd[w][u], "none"} \/ (fd'[w][u] = "lapsed" /\ reused)
    <3>1. \A u \in alive : fd'[w][u] \in {fd[w][u], "none"}
      BY <2>c DEF ClosedSlot
    <3>2. \A u \in Threads \ alive :
            fd'[w][u] = fd[w][u] \/ (fd'[w][u] = "lapsed" /\ reused)
      BY <2>0, <2>c DEF ClosedSlot
    <3> QED
      BY <3>1, <3>2
  <2>9. \A v \in Slots, u \in alive' : used'[v] /\ ~MidInstall(v)' => Watching(v, u)'
    BY <2>1, <2>6, <2>7
  <2>10. ~reused => \A v \in Slots, u \in Threads : fd'[v][u] \in {fd[v][u], "none"}
    <3> SUFFICES ASSUME ~reused, NEW v \in Slots, NEW u \in Threads
                 PROVE  fd'[v][u] \in {fd[v][u], "none"}
      OBVIOUS
    <3>1. CASE v = w
      BY <3>1, <2>8
    <3>2. CASE v # w
      BY <3>2, <2>7
    <3> QED
      BY <3>1, <3>2
  <2>11. \A u \in Threads : pc[u] = "absent" => pc'[u] = "absent"
    BY <2>1
  <2> QED
    BY <2>1, <2>2, <2>9, <2>10, <2>11
<1>25. ASSUME NEW t \in Threads, UnlockGlobal(t) PROVE CoverInv'
  BY <1>25 DEF UnlockGlobal, Goto
<1>26. ASSUME NEW t \in Threads, UnlockSlot(t) PROVE CoverInv'
  <2>1. /\ pc[t] = "unlockS"
        /\ \E label \in {"release", "app", "probe"} : pc' = [pc EXCEPT ![t] = label]
        /\ \A u \in Threads : u # t => slot'[u] = slot[u]
        /\ UNCHANGED <<used, fd, alive, newborn, failures, orphaned, reused>>
    BY <1>26 DEF UnlockSlot, ReturnObject, NextIteration, Goto
  <2>2. \A w \in Slots : MidInstall(w) => MidInstall(w)'
    <3>1. \A u \in Threads : pc[u] = "arm" => pc'[u] = "arm" /\ slot'[u] = slot[u]
      BY <2>1
    <3> QED
      BY <3>1
  <2>3. \A u \in Threads : pc[u] = "absent" => pc'[u] = "absent"
    BY <2>1
  <2>4. newborn # NoThread /\ pc'[newborn] # "born" => pc[newborn] # "born"
    BY <2>1
  <2> HIDE DEF MidInstall
  <2> QED
    BY <2>1, <2>2, <2>3, <2>4
<1>27. ASSUME NEW t \in Threads, Release(t) PROVE CoverInv'
  BY <1>27 DEF Release, Goto
<1>28. ASSUME NEW t \in Threads, Create(t) PROVE CoverInv'
  BY <1>28 DEF Create, BeginCall, Goto
<1>29. ASSUME NEW t \in Threads, LockCreate(t) PROVE CoverInv'
  BY <1>29 DEF LockCreate, WriteLock, CanWrite, Goto
<1>30. ASSUME NEW t \in Threads, Spawn(t) PROVE CoverInv'
  <2>1. PICK i \in Threads :
          pc[i] = "absent" /\ newborn' = i /\ pc' = [pc EXCEPT ![t] = "cbarrier", ![i] = "born"]
    BY <1>30, IndexInThreads DEF Spawn, Threads
  <2>2. pc[t] = "cspawn" /\ UNCHANGED <<used, fd, slot, alive, failures, orphaned>>
    BY <1>30 DEF Spawn
  <2>4. reused' = (reused \/ \E w \in Slots : fd[w][newborn'] = "stale")
    BY <1>30 DEF Spawn
  <2>3. pc'[i] = "born" /\ \A u \in Threads : pc'[u] = "arm" <=> pc[u] = "arm"
    BY <2>1, <2>2
  <2>5. \A w \in Slots : used'[w] /\ ~MidInstall(w)' => used[w] /\ ~MidInstall(w)
    BY <2>2, <2>3
  <2>6. ~reused' => ~reused /\ \A w \in Slots : fd[w][i] # "stale"
    BY <2>1, <2>4
  <2>7. \A w \in Slots, u \in alive : used[w] /\ ~MidInstall(w) => Watching(w, u)
    OBVIOUS
  <2>8. \A w \in Slots, u \in alive' : used'[w] /\ ~MidInstall(w)' => Watching(w, u)'
    BY <2>2, <2>4, <2>5, <2>7
  <2>9. \A u \in Threads : pc[u] = "absent" => u = i \/ pc'[u] = "absent"
    BY <2>1, <2>2
  <2>10. ~reused' => \A w \in Slots, u \in Threads :
           fd'[w][u] # "lapsed" /\ (fd'[w][u] = "stale" => pc'[u] = "absent")
    BY <2>2, <2>6, <2>9
  <2> QED
    BY <2>1, <2>2, <2>3, <2>8, <2>10
<1>31. ASSUME NEW t \in Threads, Born(t) PROVE CoverInv'
  BY <1>31 DEF Born, Overwrites, Goto
<1>32. ASSUME NEW t \in Threads, BornFails(t) PROVE CoverInv'
  BY <1>32 DEF BornFails, Overwrites, Goto
<1>33. ASSUME NEW t \in Threads, Barrier(t) PROVE CoverInv'
  BY <1>33 DEF Barrier
<1>34. ASSUME NEW t \in Threads, Insert(t) PROVE CoverInv'
  BY <1>34 DEF Insert, Goto
<1>35. ASSUME NEW t \in Threads, Finish(t) PROVE CoverInv'
  BY <1>35 DEF Finish, BeginCall, Goto
<1>36. ASSUME NEW t \in Threads, LockExit(t) PROVE CoverInv'
  BY <1>36 DEF LockExit, WriteLock, CanWrite, Goto
<1>37. ASSUME NEW t \in Threads, Exit(t) PROVE CoverInv'
  <2>1. /\ pc[t] = "xexit" /\ pc' = [pc EXCEPT ![t] = "absent"] /\ alive' = alive \ {t}
        /\ UNCHANGED <<used, slot, newborn, failures, orphaned, reused>>
    BY <1>37 DEF Exit, Goto
  <2>2. writer = t /\ newborn = NoThread /\ t \in alive
    BY <2>1
  <2>3. \A v \in Slots, u \in Threads \ {t} :
          fd'[v][u] = fd[v][u] \/ (fd'[v][u] = "lapsed" /\ fd[v][u] \in Open /\ reused)
    BY <1>37, <1>a, <2>2, ExitFacts
  <2>4. \A v \in Slots : used'[v] /\ ~MidInstall(v)' => used[v] /\ ~MidInstall(v)
    BY <2>1
  <2>5. \A v \in Slots, u \in alive' : used'[v] /\ ~MidInstall(v)' => Watching(v, u)'
    BY <2>1, <2>3, <2>4
  <2>6. \A v \in Slots : fd'[v][t] \in {"none", "stale"}
    BY <1>37, ExitFacts
  <2>7. ~reused => \A v \in Slots, u \in Threads :
          fd'[v][u] # "lapsed" /\ (fd'[v][u] = "stale" => pc'[u] = "absent")
    <3>1. ~reused => \A v \in Slots, u \in Threads \ {t} : fd'[v][u] = fd[v][u]
      BY <2>3
    <3>2. pc'[t] = "absent" /\ \A u \in Threads \ {t} : pc'[u] = pc[u]
      BY <2>1
    <3>3. ASSUME ~reused, NEW v \in Slots, NEW u \in Threads
          PROVE  fd'[v][u] # "lapsed" /\ (fd'[v][u] = "stale" => pc'[u] = "absent")
      <4>1. CASE u = t
        BY <2>6, <3>2, <4>1
      <4>2. CASE u # t
        <5>1. fd[v][u] # "lapsed" /\ (fd[v][u] = "stale" => pc[u] = "absent")
          BY <3>3
        <5> QED
          BY <3>1, <3>2, <3>3, <4>2, <5>1
      <4> QED
        BY <4>1, <4>2
    <3> QED
      BY <3>3
  <2> QED
    BY <2>1, <2>2, <2>5, <2>7
<1>38. CASE GhostFree
  BY <1>38 DEF GhostFree
<1>39. CASE UNCHANGED vars
  BY <1>39 DEF vars
<1>40. QED
  BY <1>1, <1>2, <1>3, <1>4, <1>5, <1>6, <1>7, <1>8, <1>9, <1>10, <1>11, <1>12, <1>13,
    <1>14, <1>15, <1>16, <1>17, <1>18, <1>19, <1>20, <1>21, <1>22, <1>23, <1>24, <1>25,
    <1>26, <1>27, <1>28, <1>29, <1>30, <1>31, <1>32, <1>33, <1>34, <1>35, <1>36, <1>37,
    <1>38, <1>39
    DEF Next, AppCall, LibraryStep, SetStep, StopStep, UnlockStep, ThreadStep, Done


\* The slots that may watch the object of a call shrink to none before it is released.
LEMMA WatchStep ==
  ASSUME MaxGhosts = 0, TypeOK, LockInv, ThreadInv, SlotInv, CoverInv, WatchInv, [Next]_vars
  PROVE  WatchInv'
<1> USE Distinct DEF TypeOK, LockInv, SlotInv, WatchInv, OneSlotPerObject, Watches,
    InSet, InStop, MayWatch,
    PcSet, PcStop, PcUnlock, Spinning, table, rwlock, xthread, locals, bounds, history
<1>a. \A u \in Threads : arg[u] \in Objects => heap[arg[u]] \in {"allocating", "freeing"}
  OBVIOUS
<1>1. ASSUME NEW t \in Threads, Malloc(t) PROVE WatchInv'
  <2>1. PICK o \in Objects : /\ heap[o] = "free"
                             /\ heap' = [heap EXCEPT ![o] = "allocating"]
                             /\ arg' = [arg EXCEPT ![t] = o]
    BY <1>1 DEF Malloc
  <2>2. pc[t] = "app" /\ pc' = [pc EXCEPT ![t] = "start"] /\ UNCHANGED <<used, obj, op, slot, ghosts>>
    BY <1>1 DEF Malloc, BeginCall, Goto
  <2>3. \A w \in Slots : used[w] => obj[w] # o
    BY <2>1
  <2>4. \A u \in Threads : arg[u] # o
    BY <1>a, <2>1
  <2> QED
    BY <2>1, <2>2, <2>3, <2>4
<1>2. ASSUME NEW t \in Threads, Calloc(t) PROVE WatchInv'
  BY <1>2 DEF Calloc, BeginCall
<1>3. ASSUME NEW t \in Threads, TryInstall(t) PROVE WatchInv'
  BY <1>3 DEF TryInstall, EnterLoop, Goto
<1>4. ASSUME NEW t \in Threads, SkipInstall(t) PROVE WatchInv'
  BY <1>4 DEF SkipInstall, Goto
<1>5. ASSUME NEW t \in Threads, TrySteal(t) PROVE WatchInv'
  BY <1>5 DEF TrySteal, EnterLoop, Goto
<1>6. ASSUME NEW t \in Threads, NoSteal(t) PROVE WatchInv'
  BY <1>6 DEF NoSteal, ReturnObject, Goto
<1>7. ASSUME NEW t \in Threads, ProbeTake(t) PROVE WatchInv'
  BY <1>7 DEF ProbeTake, Goto
<1>8. ASSUME NEW t \in Threads, ProbeSkip(t) PROVE WatchInv'
  BY <1>8 DEF ProbeSkip, NextIteration, Goto
<1>9. ASSUME NEW t \in Threads, LoopEnd(t) PROVE WatchInv'
  <2>1. pc[t] = "probe" /\ op' = op /\ slot' = slot /\ UNCHANGED <<used, obj, ghosts>>
    BY <1>9 DEF LoopEnd
  <2>2. CASE pc' = [pc EXCEPT ![t] = "roll"] /\ UNCHANGED <<heap, arg>>
    BY <2>1, <2>2
  <2>3. CASE ReturnObject(t)
    BY <2>1, <2>3 DEF ReturnObject, Goto
  <2> QED
    BY <1>9, <2>2, <2>3 DEF LoopEnd, Goto
<1>10. ASSUME NEW t \in Threads, LockSlot(t) PROVE WatchInv'
  BY <1>10 DEF LockSlot, SpinLock, Goto
<1>11. ASSUME NEW t \in Threads, DecideTake(t) PROVE WatchInv'
  BY <1>11 DEF DecideTake, Goto
<1>12. ASSUME NEW t \in Threads, DecideLeave(t) PROVE WatchInv'
  BY <1>12 DEF DecideLeave, NextIteration, Goto
<1>13. ASSUME NEW t \in Threads, LockGlobal(t) PROVE WatchInv'
  BY <1>13 DEF LockGlobal, ReadLock, CanRead, Goto
<1>14. ASSUME NEW t \in Threads, Claim(t) PROVE WatchInv'
  BY <1>14 DEF Claim, Goto
<1>15. ASSUME NEW t \in Threads, Arm(t) PROVE WatchInv'
  BY <1>15 DEF Arm, Overwrites, Ret, Goto
<1>16. ASSUME NEW t \in Threads, ArmFails(t) PROVE WatchInv'
  <2>1. /\ pc[t] = "arm" /\ pc' = [pc EXCEPT ![t] = "unlockR"]
        /\ UNCHANGED <<obj, heap, op, arg, slot, ghosts>>
        /\ op[t] \in {"install", "steal"}
    BY <1>16 DEF ArmFails, Goto
  <2>4. \A w \in Slots : used'[w] => used[w] /\ w # slot[t]
    BY <1>16 DEF ArmFails
  <2>5. \A w \in Slots : ~(used'[w] /\ obj[w] = arg[t])
    BY <2>1, <2>4
  <2>6. OneSlotPerObject' /\ \A w \in Slots : used'[w] => obj'[w] \in Objects /\ heap'[obj'[w]] # "free"
    BY <2>1, <2>4
  <2>7. \A u \in Threads, w \in Slots :
          used'[w] /\ obj'[w] = arg'[u] /\ arg'[u] \in Objects => w \in MayWatch(u)'
    BY <2>1, <2>4, <2>5
  <2>8. \A u \in Threads :
          /\ InSet(u)' => arg'[u] \in Objects /\ heap'[arg'[u]] = "allocating"
          /\ InStop(u)' => arg'[u] \in Objects /\ heap'[arg'[u]] = "freeing"
          /\ ~InSet(u)' /\ ~InStop(u)' => arg'[u] = NoObject
    BY <2>1
  <2> QED
    BY <2>1, <2>6, <2>7, <2>8
<1>17. ASSUME NEW t \in Threads, Free(t) PROVE WatchInv'
  <2>1. PICK o \in Objects : /\ heap[o] = "live"
                             /\ heap' = [heap EXCEPT ![o] = "freeing"]
                             /\ arg' = [arg EXCEPT ![t] = o]
    BY <1>17 DEF Free
  <2>2. /\ pc[t] = "app" /\ pc' = [pc EXCEPT ![t] = "scan"] /\ UNCHANGED <<used, obj, ghosts>>
        /\ op' = [op EXCEPT ![t] = "free"] /\ slot' = [slot EXCEPT ![t] = 0]
    BY <1>17 DEF Free, BeginCall, Goto
  <2>3. \A u \in Threads : arg[u] # o
    BY <1>a, <2>1
  <2>4. \A w \in Slots : w >= 0
    BY DEF Slots
  <2> QED
    BY <2>1, <2>2, <2>3, <2>4
<1>18. ASSUME NEW t \in Threads, ScanHit(t) PROVE WatchInv'
  BY <1>18 DEF ScanHit, Watches, Goto
<1>19. ASSUME NEW t \in Threads, ScanMiss(t) PROVE WatchInv'
  <2>1. /\ pc[t] = "scan" /\ ~Watches(slot[t], arg[t])
        /\ UNCHANGED <<used, obj, heap, op, arg, ghosts>>
    BY <1>19 DEF ScanMiss
  <2>2. CASE MoreSlots(t)
    <3>1. slot' = [slot EXCEPT ![t] = slot[t] + 1] /\ pc' = pc
      BY <1>19, <2>2 DEF ScanMiss
    <3>2. \A w \in Slots : w >= slot[t] => w = slot[t] \/ w >= slot[t] + 1
      BY DEF Slots
    <3>3. \A w \in Slots : Watches(w, arg[t]) /\ arg[t] \in Objects => w >= slot[t] + 1
      <4>1. \A w \in Slots : Watches(w, arg[t]) /\ arg[t] \in Objects => w >= slot[t]
        BY <2>1 DEF MayWatch
      <4> QED
        BY <2>1, <3>2, <4>1
    <3> QED
      BY <2>1, <3>1, <3>3
  <2>3. CASE ~MoreSlots(t)
    <3>1. slot' = slot /\ pc' = [pc EXCEPT ![t] = "release"]
      BY <1>19, <2>3 DEF ScanMiss, Goto
    <3>2. \A w \in Slots : w >= slot[t] => w = slot[t]
      <4>1. slot[t] \in Slots /\ slot[t] + 1 \notin Slots
        BY <2>3 DEF MoreSlots
      <4>2. slot[t] = MaxWatchpoints - 1
        BY <4>1, SizesAssumption DEF Slots
      <4> QED
        BY <4>2, SizesAssumption DEF Slots
    <3> QED
      BY <2>1, <3>1, <3>2
  <2> QED
    BY <2>2, <2>3
<1>20. ASSUME NEW t \in Threads, LockFound(t) PROVE WatchInv'
  BY <1>20 DEF LockFound, SpinLock, Goto
<1>21. ASSUME NEW t \in Threads, RecheckHit(t) PROVE WatchInv'
  BY <1>21 DEF RecheckHit, Watches, Goto
<1>22. ASSUME NEW t \in Threads, RecheckMiss(t) PROVE WatchInv'
  BY <1>22 DEF RecheckMiss, Watches, Goto
<1>23. ASSUME NEW t \in Threads, LockGlobalFree(t) PROVE WatchInv'
  BY <1>23 DEF LockGlobalFree, ReadLock, CanRead, Goto
<1>24. ASSUME NEW t \in Threads, Disable(t) PROVE WatchInv'
  <2>1. /\ pc[t] = "disable" /\ pc' = [pc EXCEPT ![t] = "unlockR"]
        /\ UNCHANGED <<obj, heap, op, arg, slot, ghosts>> /\ op[t] = "free"
    BY <1>24 DEF Disable, Goto
  <2>2. Watches(slot[t], arg[t]) /\ ~MidInstall(slot[t])
    BY <2>1 DEF MidInstall
  <2>3. AllClosed(slot[t])
    <3>1. slot[t] \in Slots /\ used[slot[t]]
      BY <2>2
    <3>2. \A u \in alive : Watching(slot[t], u)
      BY <2>2, <3>1 DEF CoverInv
    <3> QED
      BY <3>2 DEF Watching, AllClosed
  <2>4. \A w \in Slots : used'[w] => used[w] /\ w # slot[t]
    BY <1>24, <2>3 DEF Disable
  <2>5. \A w \in Slots : ~(used'[w] /\ obj[w] = arg[t])
    BY <2>2, <2>4
  <2>6. OneSlotPerObject' /\ \A w \in Slots : used'[w] => obj'[w] \in Objects /\ heap'[obj'[w]] # "free"
    BY <2>1, <2>4
  <2>7. \A u \in Threads, w \in Slots :
          used'[w] /\ obj'[w] = arg'[u] /\ arg'[u] \in Objects => w \in MayWatch(u)'
    BY <2>1, <2>4, <2>5
  <2>8. \A u \in Threads :
          /\ InSet(u)' => arg'[u] \in Objects /\ heap'[arg'[u]] = "allocating"
          /\ InStop(u)' => arg'[u] \in Objects /\ heap'[arg'[u]] = "freeing"
          /\ ~InSet(u)' /\ ~InStop(u)' => arg'[u] = NoObject
    BY <2>1
  <2> QED
    BY <2>1, <2>6, <2>7, <2>8
<1>25. ASSUME NEW t \in Threads, UnlockGlobal(t) PROVE WatchInv'
  BY <1>25 DEF UnlockGlobal, Goto
<1>26. ASSUME NEW t \in Threads, UnlockSlot(t) PROVE WatchInv'
  <2>1. pc[t] = "unlockS" /\ UNCHANGED <<used, obj, op, ghosts>>
    BY <1>26 DEF UnlockSlot
  <2>2. CASE op[t] = "free"
    <3>1. pc' = [pc EXCEPT ![t] = "release"] /\ UNCHANGED <<heap, arg, slot>>
      BY <1>26, <2>2 DEF UnlockSlot, Goto
    <3> QED
      BY <2>1, <2>2, <3>1
  <2>3. CASE op[t] = "placed"
    <3>1. /\ pc' = [pc EXCEPT ![t] = "app"] /\ slot' = slot
          /\ heap' = [heap EXCEPT ![arg[t]] = "live"] /\ arg' = [arg EXCEPT ![t] = NoObject]
      BY <1>26, <2>3 DEF UnlockSlot, ReturnObject, Goto
    <3> QED
      BY <2>1, <2>3, <3>1
  <2>4. CASE op[t] \in {"install", "steal"}
    <3>1. /\ pc' = [pc EXCEPT ![t] = "probe"] /\ UNCHANGED <<heap, arg>>
          /\ slot' = [slot EXCEPT ![t] = NextSlot(t)]
      BY <1>26, <2>4 DEF UnlockSlot, NextIteration, Goto
    <3> QED
      BY <2>1, <2>4, <3>1
  <2> QED
    BY <1>26, <2>2, <2>3, <2>4 DEF UnlockSlot
<1>27. ASSUME NEW t \in Threads, Release(t) PROVE WatchInv'
  <2>1. /\ pc[t] = "release" /\ pc' = [pc EXCEPT ![t] = "app"]
        /\ heap' = [heap EXCEPT ![arg[t]] = "free"] /\ arg' = [arg EXCEPT ![t] = NoObject]
        /\ UNCHANGED <<used, obj, op, slot, ghosts>>
    BY <1>27 DEF Release, Goto
  <2>2. arg[t] \in Objects /\ \A w \in Slots : used[w] => obj[w] # arg[t]
    BY <2>1
  <2> QED
    BY <2>1, <2>2
<1>28. ASSUME NEW t \in Threads, Create(t) PROVE WatchInv'
  BY <1>28 DEF Create, BeginCall, Goto
<1>29. ASSUME NEW t \in Threads, LockCreate(t) PROVE WatchInv'
  BY <1>29 DEF LockCreate, WriteLock, CanWrite, Goto
<1>30. ASSUME NEW t \in Threads, Spawn(t) PROVE WatchInv'
  <2>1. PICK i \in Threads :
          pc[i] = "absent" /\ pc' = [pc EXCEPT ![t] = "cbarrier", ![i] = "born"]
    BY <1>30, IndexInThreads DEF Spawn, Threads
  <2>2. pc[t] = "cspawn" /\ UNCHANGED <<used, obj, heap, op, arg, slot, ghosts>>
    BY <1>30 DEF Spawn
  <2>3. \A u \in Threads : pc'[u] = pc[u] \/ (~InSet(u) /\ ~InStop(u) /\ ~InSet(u)' /\ ~InStop(u)')
    BY <2>1, <2>2
  <2> QED
    BY <2>1, <2>2, <2>3
<1>31. ASSUME NEW t \in Threads, Born(t) PROVE WatchInv'
  BY <1>31 DEF Born, Overwrites, Goto
<1>32. ASSUME NEW t \in Threads, BornFails(t) PROVE WatchInv'
  BY <1>32 DEF BornFails, Overwrites, Goto
<1>33. ASSUME NEW t \in Threads, Barrier(t) PROVE WatchInv'
  <2>1. /\ pc[t] = "cbarrier" /\ pc[newborn] = "wait"
        /\ pc' = [pc EXCEPT ![t] = "cinsert", ![newborn] = "app"]
        /\ UNCHANGED <<used, obj, heap, op, arg, slot, ghosts>>
    BY <1>33 DEF Barrier
  <2>2. \A u \in Threads : pc'[u] = pc[u] \/ (~InSet(u) /\ ~InStop(u) /\ ~InSet(u)' /\ ~InStop(u)')
    BY <2>1
  <2> QED
    BY <2>1, <2>2
<1>34. ASSUME NEW t \in Threads, Insert(t) PROVE WatchInv'
  BY <1>34 DEF Insert, Goto
<1>35. ASSUME NEW t \in Threads, Finish(t) PROVE WatchInv'
  BY <1>35 DEF Finish, BeginCall, Goto
<1>36. ASSUME NEW t \in Threads, LockExit(t) PROVE WatchInv'
  BY <1>36 DEF LockExit, WriteLock, CanWrite, Goto
<1>37. ASSUME NEW t \in Threads, Exit(t) PROVE WatchInv'
  <2>1. /\ pc[t] = "xexit" /\ UNCHANGED <<used, obj, heap, op, arg, slot>>
        /\ pc' = [pc EXCEPT ![t] = "absent"]
    BY <1>37 DEF Exit, Goto
  <2>2. ghosts' = 0
    BY <1>37 DEF Exit
  <2> QED
    BY <2>1, <2>2
<1>38. CASE GhostFree
  BY <1>38 DEF GhostFree
<1>39. CASE UNCHANGED vars
  BY <1>39 DEF vars
<1>40. QED
  BY <1>1, <1>2, <1>3, <1>4, <1>5, <1>6, <1>7, <1>8, <1>9, <1>10, <1>11, <1>12, <1>13,
    <1>14, <1>15, <1>16, <1>17, <1>18, <1>19, <1>20, <1>21, <1>22, <1>23, <1>24, <1>25,
    <1>26, <1>27, <1>28, <1>29, <1>30, <1>31, <1>32, <1>33, <1>34, <1>35, <1>36, <1>37,
    <1>38, <1>39
    DEF Next, AppCall, LibraryStep, SetStep, StopStep, UnlockStep, ThreadStep, Done


\* A slot in use gets another object only from a stealing call that holds its lock.
LEMMA EvictStep ==
  ASSUME TypeOK, LockInv, SlotInv, [Next]_vars
  PROVE  \A w \in Slots : used[w] /\ obj'[w] # obj[w]
            => \E t \in Threads : spin[w] = t /\ slot[t] = w /\ op[t] = "steal"
<1> DEFINE Stolen ==
      \A w \in Slots : used[w] /\ obj'[w] # obj[w]
         => \E t \in Threads : spin[w] = t /\ slot[t] = w /\ op[t] = "steal"
<1> USE Distinct DEF TypeOK, LockInv, SlotInv,
    table, rwlock, xthread, locals
<1>1. ASSUME NEW t \in Threads, Malloc(t) PROVE Stolen
  BY <1>1 DEF Malloc, BeginCall, Goto
<1>2. ASSUME NEW t \in Threads, Calloc(t) PROVE Stolen
  BY <1>2 DEF Calloc, BeginCall
<1>3. ASSUME NEW t \in Threads, TryInstall(t) PROVE Stolen
  BY <1>3 DEF TryInstall, EnterLoop, Goto
<1>4. ASSUME NEW t \in Threads, SkipInstall(t) PROVE Stolen
  BY <1>4 DEF SkipInstall, Goto
<1>5. ASSUME NEW t \in Threads, TrySteal(t) PROVE Stolen
  BY <1>5 DEF TrySteal, EnterLoop, Goto
<1>6. ASSUME NEW t \in Threads, NoSteal(t) PROVE Stolen
  BY <1>6 DEF NoSteal, ReturnObject, Goto
<1>7. ASSUME NEW t \in Threads, ProbeTake(t) PROVE Stolen
  BY <1>7 DEF ProbeTake, Goto
<1>8. ASSUME NEW t \in Threads, ProbeSkip(t) PROVE Stolen
  BY <1>8 DEF ProbeSkip, NextIteration, Goto
<1>9. ASSUME NEW t \in Threads, LoopEnd(t) PROVE Stolen
  BY <1>9 DEF LoopEnd, ReturnObject, Goto
<1>10. ASSUME NEW t \in Threads, LockSlot(t) PROVE Stolen
  BY <1>10 DEF LockSlot, SpinLock, Goto
<1>11. ASSUME NEW t \in Threads, DecideTake(t) PROVE Stolen
  BY <1>11 DEF DecideTake, Goto
<1>12. ASSUME NEW t \in Threads, DecideLeave(t) PROVE Stolen
  BY <1>12 DEF DecideLeave, NextIteration, Goto
<1>13. ASSUME NEW t \in Threads, LockGlobal(t) PROVE Stolen
  BY <1>13 DEF LockGlobal, ReadLock, CanRead, Goto
<1>14. ASSUME NEW t \in Threads, Claim(t) PROVE Stolen
  <2>1. pc[t] = "claim" /\ slot[t] \in Slots
    BY <1>14 DEF Claim
  <2>2. spin[slot[t]] = t
    BY <2>1 DEF Spinning
  <2>3. \A w \in Slots : w # slot[t] => obj'[w] = obj[w]
    BY <1>14 DEF Claim
  <2>4. used[slot[t]] => op[t] = "steal"
    BY <2>1
  <2> QED
    BY <2>1, <2>2, <2>3, <2>4
<1>15. ASSUME NEW t \in Threads, Arm(t) PROVE Stolen
  BY <1>15 DEF Arm, Overwrites, Ret, Goto
<1>16. ASSUME NEW t \in Threads, ArmFails(t) PROVE Stolen
  BY <1>16 DEF ArmFails, Overwrites, Goto
<1>17. ASSUME NEW t \in Threads, Free(t) PROVE Stolen
  BY <1>17 DEF Free, BeginCall, Goto
<1>18. ASSUME NEW t \in Threads, ScanHit(t) PROVE Stolen
  BY <1>18 DEF ScanHit, Watches, Goto
<1>19. ASSUME NEW t \in Threads, ScanMiss(t) PROVE Stolen
  BY <1>19 DEF ScanMiss, MoreSlots, Goto
<1>20. ASSUME NEW t \in Threads, LockFound(t) PROVE Stolen
  BY <1>20 DEF LockFound, SpinLock, Goto
<1>21. ASSUME NEW t \in Threads, RecheckHit(t) PROVE Stolen
  BY <1>21 DEF RecheckHit, Watches, Goto
<1>22. ASSUME NEW t \in Threads, RecheckMiss(t) PROVE Stolen
  BY <1>22 DEF RecheckMiss, Watches, Goto
<1>23. ASSUME NEW t \in Threads, LockGlobalFree(t) PROVE Stolen
  BY <1>23 DEF LockGlobalFree, ReadLock, CanRead, Goto
<1>24. ASSUME NEW t \in Threads, Disable(t) PROVE Stolen
  BY <1>24 DEF Disable, AllClosed, Uncounted, Goto
<1>25. ASSUME NEW t \in Threads, UnlockGlobal(t) PROVE Stolen
  BY <1>25 DEF UnlockGlobal, Goto
<1>26. ASSUME NEW t \in Threads, UnlockSlot(t) PROVE Stolen
  BY <1>26 DEF UnlockSlot, ReturnObject, NextIteration, Goto
<1>27. ASSUME NEW t \in Threads, Release(t) PROVE Stolen
  BY <1>27 DEF Release, Goto
<1>28. ASSUME NEW t \in Threads, Create(t) PROVE Stolen
  BY <1>28 DEF Create, BeginCall, Goto
<1>29. ASSUME NEW t \in Threads, LockCreate(t) PROVE Stolen
  BY <1>29 DEF LockCreate, WriteLock, CanWrite, Goto
<1>30. ASSUME NEW t \in Threads, Spawn(t) PROVE Stolen
  BY <1>30 DEF Spawn
<1>31. ASSUME NEW t \in Threads, Born(t) PROVE Stolen
  BY <1>31 DEF Born, Overwrites, Goto
<1>32. ASSUME NEW t \in Threads, BornFails(t) PROVE Stolen
  BY <1>32 DEF BornFails, Overwrites, Goto
<1>33. ASSUME NEW t \in Threads, Barrier(t) PROVE Stolen
  BY <1>33 DEF Barrier
<1>34. ASSUME NEW t \in Threads, Insert(t) PROVE Stolen
  BY <1>34 DEF Insert, Goto
<1>35. ASSUME NEW t \in Threads, Finish(t) PROVE Stolen
  BY <1>35 DEF Finish, BeginCall, Goto
<1>36. ASSUME NEW t \in Threads, LockExit(t) PROVE Stolen
  BY <1>36 DEF LockExit, WriteLock, CanWrite, Goto
<1>37. ASSUME NEW t \in Threads, Exit(t) PROVE Stolen
  BY <1>37 DEF Exit, Goto
<1>38. CASE GhostFree
  BY <1>38 DEF GhostFree
<1>39. CASE UNCHANGED vars
  BY <1>39 DEF vars
<1>40. QED
  BY <1>1, <1>2, <1>3, <1>4, <1>5, <1>6, <1>7, <1>8, <1>9, <1>10, <1>11, <1>12, <1>13,
    <1>14, <1>15, <1>16, <1>17, <1>18, <1>19, <1>20, <1>21, <1>22, <1>23, <1>24, <1>25,
    <1>26, <1>27, <1>28, <1>29, <1>30, <1>31, <1>32, <1>33, <1>34, <1>35, <1>36, <1>37,
    <1>38, <1>39
    DEF Next, AppCall, LibraryStep, SetStep, StopStep, UnlockStep, ThreadStep, Done

-----------------------------------------------------------------------------
(* Theorems *)

\* Nothing is installed, locked or called at the start.
LEMMA InitSafe == Init => Safe
<1> SUFFICES ASSUME Init PROVE Safe
  OBVIOUS
<1>1. TypeOK
  <2>1. 0 \in Slots /\ Main \in Threads /\ threadIndex \in Threads
    <3>1. 1 % MaxAliveThreads \in Threads
      BY IndexInThreads
    <3> QED
      BY <3>1, SizesAssumption DEF Init, Slots, Threads, Main
  <2>2. /\ used \in [Slots -> BOOLEAN] /\ obj \in [Slots -> Objects \cup {NoObject}]
        /\ fd \in [Slots -> [Threads -> FdState]]
        /\ spin \in [Slots -> Threads \cup {NoThread}]
        /\ num \in Int /\ curIndex \in Slots
    BY <2>1 DEF Init, FdState
  <2>3. /\ readers \subseteq Threads /\ writer \in Threads \cup {NoThread}
        /\ alive \subseteq Threads /\ newborn \in Threads \cup {NoThread}
        /\ heap \in [Objects -> HeapState]
    BY <2>1 DEF Init, HeapState
  <2>4. pc \in [Threads -> PcValues] /\ op \in [Threads -> Ops]
    BY <2>1 DEF Init, PcValues, PcApp, Ops
  <2>5. /\ arg \in [Threads -> Objects \cup {NoObject}]
        /\ slot \in [Threads -> Slots] /\ left \in [Threads -> Int]
    BY <2>1 DEF Init
  <2>6. orphaned \in BOOLEAN /\ reused \in BOOLEAN
    BY DEF Init
  <2>7. budget \in Nat /\ failures \in Nat /\ ghosts \in Nat
    BY BoundsAssumption DEF Init
  <2> QED
    BY <2>1, <2>2, <2>3, <2>4, <2>5, <2>6, <2>7 DEF TypeOK
<1>2. LockInv /\ ThreadInv
  BY Distinct, SizesAssumption
  DEF Init, LockInv, ThreadInv, Spinning, Reading, Writing, Birth, Main, Threads
<1>3. EventInv /\ SlotInv
  BY DEF Init, EventInv, EventsOwned, Open, SlotInv, PcSet, PcStop
<1>4. CountCoversUsed
  <2>1. Settled = {}
    BY DEF Init, Settled
  <2> QED
    BY <2>1, FS_EmptySet DEF Init, CountCoversUsed
<1> QED
  BY <1>1, <1>2, <1>3, <1>4 DEF Safe

LEMMA SafeStep == Safe /\ [Next]_vars => Safe'
BY TypeOKStep, LockStep, ThreadInvStep, EventStep, SlotStep, CountStep DEF Safe

\* The conjunction of the invariants that need no assumption on failures.
THEOREM SafeInvariant == Spec => []Safe
BY InitSafe, SafeStep, PTL DEF Spec

\* Every variable keeps its type, and every index stays inside its array.
THEOREM Typed == Spec => []TypeOK
<1>1. Safe => TypeOK
  BY DEF Safe
<1> QED
  BY <1>1, SafeInvariant, PTL

\* Whatever fails, an open perf event belongs to a slot in use and to a thread that
\* is alive or about to be: no hardware breakpoint stays armed for a removed watch.
THEOREM NoStrayEvents == Spec => []EventsOwned
<1>1. Safe => EventsOwned
  BY DEF Safe, EventInv
<1> QED
  BY <1>1, SafeInvariant, PTL

\* A thread that walks the alive list is on it itself.
THEOREM ReadersOnList == Spec => []ReadersAlive
<1>1. Safe => ReadersAlive
  <2> SUFFICES ASSUME Safe, NEW t \in readers PROVE t \in alive
    BY DEF ReadersAlive
  <2>1. t \in Threads /\ pc[t] \in Reading /\ writer = NoThread
    BY DEF Safe, TypeOK, LockInv
  <2>2. newborn = NoThread
    BY <2>1, Distinct DEF Safe, LockInv, ThreadInv, Writing
  <2> QED
    BY <2>1, <2>2, Distinct DEF Safe, ThreadInv, Reading
<1> QED
  BY <1>1, SafeInvariant, PTL

\* The counter is never too low, so that a table counted full has no call going to a
\* free slot past it.
THEOREM CounterCoversSlots == Spec => []CountCoversUsed
<1>1. Safe => CountCoversUsed
  BY DEF Safe
<1> QED
  BY <1>1, SafeInvariant, PTL

\* An installing call never pushes a watched object out.
THEOREM EvictionOnlyByStealing == Spec => OnlyStealsEvict
<1>1. Safe /\ [Next]_vars
        => [\A w \in Slots : used[w] /\ obj'[w] # obj[w]
               => \E t \in Threads : spin[w] = t /\ slot[t] = w /\ op[t] = "steal"]_vars
  BY EvictStep DEF Safe
<1> QED
  BY <1>1, SafeInvariant, PTL DEF Spec, OnlyStealsEvict

\* As long as no perf event fails, every alive thread has an event for every watch that
\* is in place, and no event is lost.
LEMMA CoverInvariant ==
  ASSUME MaxFailures = 0
  PROVE  Spec => [](Safe /\ CoverInv)
<1>1. Init => Safe /\ CoverInv
  BY InitSafe, MaxFailures = 0, Distinct DEF Init, CoverInv
<1>2. Safe /\ CoverInv /\ [Next]_vars => (Safe /\ CoverInv)'
  BY SafeStep, CoverStep DEF Safe
<1> QED
  BY <1>1, <1>2, PTL DEF Spec

THEOREM WatchesCoverThreads ==
  ASSUME MaxFailures = 0
  PROVE  Spec => []Covered
<1>1. Safe /\ CoverInv => Covered
  BY DEF CoverInv, Covered, Settled, Safe, TypeOK
<1> QED
  BY <1>1, CoverInvariant, PTL

\* Neither an installation nor a new thread writes over the descriptor of an event that
\* is open, which then nobody could close.
THEOREM NoEventOrphaned ==
  ASSUME MaxFailures = 0
  PROVE  Spec => []NoOrphans
<1>1. CoverInv => NoOrphans
  BY DEF CoverInv, NoOrphans
<1> QED
  BY <1>1, CoverInvariant, PTL

\* If moreover no thread frees with its detector off, no slot watches memory that has
\* been given back, and no object has two slots.
LEMMA WatchInvariant ==
  ASSUME MaxFailures = 0, MaxGhosts = 0
  PROVE  Spec => []SafeUnfailing
<1>1. Init => SafeUnfailing
  <2> SUFFICES ASSUME Init PROVE SafeUnfailing
    OBVIOUS
  <2>1. Safe /\ CoverInv
    BY InitSafe, MaxFailures = 0, Distinct DEF Init, CoverInv
  <2>2. WatchInv
    BY Distinct DEF Init, WatchInv, OneSlotPerObject, Watches, InSet, InStop,
      PcSet, PcStop, PcUnlock
  <2> QED
    BY <2>1, <2>2 DEF SafeUnfailing
<1>2. SafeUnfailing /\ [Next]_vars => SafeUnfailing'
  BY SafeStep, CoverStep, WatchStep, MaxGhosts = 0 DEF SafeUnfailing, Safe
<1> QED
  BY <1>1, <1>2, PTL DEF Spec

THEOREM FreedMemoryUnwatched ==
  ASSUME MaxFailures = 0, MaxGhosts = 0
  PROVE  Spec => []FreedNotWatched
<1>1. SafeUnfailing => FreedNotWatched
  BY DEF SafeUnfailing, WatchInv, FreedNotWatched
<1> QED
  BY <1>1, WatchInvariant, PTL

THEOREM ObjectsWatchedOnce ==
  ASSUME MaxFailures = 0, MaxGhosts = 0
  PROVE  Spec => []OneSlotPerObject
<1>1. SafeUnfailing => OneSlotPerObject
  BY DEF SafeUnfailing, WatchInv
<1> QED
  BY <1>1, WatchInvariant, PTL


-----------------------------------------------------------------------------
(* Watchpoints implements WatchSet *)

\* A slot that is not in use leaves room for one more object.
LEMMA RoomForOne ==
  ASSUME TypeOK, NEW w \in Slots, ~used[w]
  PROVE  Cardinality(Watched) < MaxWatchpoints
<1> DEFINE Busy == {v \in Slots : used[v]}
<1>1. IsFiniteSet(Slots) /\ Cardinality(Slots) = MaxWatchpoints
  BY FS_Interval, SizesAssumption DEF Slots
<1>2. IsFiniteSet(Slots \ {w}) /\ Cardinality(Slots \ {w}) = MaxWatchpoints - 1
  BY <1>1, FS_RemoveElement
<1>3. Busy \subseteq Slots \ {w}
  OBVIOUS
<1>4. IsFiniteSet(Busy) /\ Cardinality(Busy) <= MaxWatchpoints - 1
  BY <1>2, <1>3, FS_Subset
<1>5. IsFiniteSet(Watched) /\ Cardinality(Watched) <= Cardinality(Busy)
  <2> DEFINE f == [v \in Busy |-> obj[v]]
  <2>1. f \in Surjection(Busy, Watched)
    BY DEF Watched, Surjection
  <2> QED
    BY <1>4, <2>1, FS_Surjection
<1>6. Cardinality(Watched) \in Nat /\ Cardinality(Busy) \in Nat
  BY <1>4, <1>5, FS_CardinalityType
<1> QED
  BY <1>4, <1>5, <1>6, SizesAssumption

\* The instance has a Cardinality of its own, which is the same.
LEMMA SameCardinality == ASSUME NEW S PROVE WS!Cardinality(S) = Cardinality(S)
BY DEF WS!Cardinality, Cardinality

\* Every action is one of these, or leaves the objects and their slots alone.
LEMMA VisibleSteps ==
  ASSUME MaxFailures = 0, MaxGhosts = 0, SafeUnfailing, [Next]_vars
  PROVE  \/ UNCHANGED <<heap, used, obj>>
         \/ \E t \in Threads :
              \/ Malloc(t) \/ Calloc(t) \/ Free(t)
              \/ InSet(t) /\ ReturnObject(t) /\ UNCHANGED <<used, obj>>
              \/ Claim(t) \/ Disable(t) \/ Release(t)
<1> DEFINE Visible ==
      \/ UNCHANGED <<heap, used, obj>>
      \/ \E t \in Threads :
           \/ Malloc(t) \/ Calloc(t) \/ Free(t)
           \/ InSet(t) /\ ReturnObject(t) /\ UNCHANGED <<used, obj>>
           \/ Claim(t) \/ Disable(t) \/ Release(t)
<1>1. ASSUME NEW t \in Threads, AppCall(t) PROVE Visible
  <2>1. CASE Malloc(t) \/ Calloc(t) \/ Free(t)
    BY <2>1
  <2>2. CASE Create(t) \/ Finish(t)
    BY <2>2 DEF Create, Finish, table
  <2> QED
    BY <1>1, <2>1, <2>2 DEF AppCall
<1>2. ASSUME NEW t \in Threads, SetStep(t) PROVE Visible
  <2>1. CASE TryInstall(t) \/ SkipInstall(t) \/ TrySteal(t) \/ ProbeTake(t) \/ ProbeSkip(t)
    BY <2>1 DEF TryInstall, SkipInstall, TrySteal, ProbeTake, ProbeSkip, table
  <2>2. CASE LockSlot(t) \/ DecideTake(t) \/ DecideLeave(t) \/ LockGlobal(t) \/ Arm(t)
    BY <2>2 DEF LockSlot, SpinLock, DecideTake, DecideLeave, LockGlobal, ReadLock, Arm, table
  <2>3. CASE NoSteal(t) \/ LoopEnd(t)
    BY <2>3 DEF NoSteal, LoopEnd, InSet, PcSet, table
  <2>4. ~ArmFails(t)
    BY DEF ArmFails, SafeUnfailing, CoverInv
  <2> QED
    BY <1>2, <2>1, <2>2, <2>3, <2>4 DEF SetStep
<1>3. ASSUME NEW t \in Threads, StopStep(t) PROVE Visible
  BY <1>3 DEF StopStep, ScanHit, ScanMiss, LockFound, SpinLock, RecheckHit, RecheckMiss,
    LockGlobalFree, ReadLock, table
<1>4. ASSUME NEW t \in Threads, UnlockStep(t) PROVE Visible
  BY <1>4 DEF UnlockStep, UnlockGlobal, UnlockSlot, InSet, PcUnlock, table
<1>5. ASSUME NEW t \in Threads, ThreadStep(t) PROVE Visible
  BY <1>5 DEF ThreadStep, LockCreate, LockExit, WriteLock, Spawn, Born, BornFails, Barrier,
    Insert, Exit, table
<1>6. ~GhostFree
  BY DEF GhostFree, SafeUnfailing, WatchInv
<1>7. CASE UNCHANGED vars
  BY <1>7 DEF vars, table
<1> QED
  BY <1>1, <1>2, <1>3, <1>4, <1>5, <1>6, <1>7 DEF Next, LibraryStep, Done

\* Each visible step is one of WatchSet, each other step leaves its state alone.
LEMMA WatchSetStep ==
  ASSUME MaxFailures = 0, MaxGhosts = 0, SafeUnfailing, [Next]_vars
  PROVE  [WS!Next]_(WS!vars)
<1> USE DEF SafeUnfailing, Safe
<1>1. CASE UNCHANGED <<heap, used, obj>>
  BY <1>1 DEF WS!vars, Watched
<1>2. ASSUME NEW t \in Threads, Malloc(t) PROVE WS!Next
  <2>1. PICK o \in Objects : heap[o] = "free" /\ heap' = [heap EXCEPT ![o] = "allocating"]
    BY <1>2 DEF Malloc
  <2>2. Watched' = Watched
    BY <1>2 DEF Malloc, table, Watched
  <2>3. WS!Allocate(o)
    BY <2>1, <2>2 DEF WS!Allocate, WS!Move
  <2> QED
    BY <2>3 DEF WS!Next
<1>3. ASSUME NEW t \in Threads, Calloc(t) PROVE WS!Next
  <2>1. PICK o \in Objects : heap[o] = "free" /\ heap' = [heap EXCEPT ![o] = "live"]
    BY <1>3 DEF Calloc
  <2>2. Watched' = Watched
    BY <1>3 DEF Calloc, table, Watched
  <2>3. WS!AllocateUnwatched(o)
    BY <2>1, <2>2 DEF WS!AllocateUnwatched, WS!Move
  <2> QED
    BY <2>3 DEF WS!Next
<1>4. ASSUME NEW t \in Threads, Free(t) PROVE WS!Next
  <2>1. PICK o \in Objects : heap[o] = "live" /\ heap' = [heap EXCEPT ![o] = "freeing"]
    BY <1>4 DEF Free
  <2>2. Watched' = Watched
    BY <1>4 DEF Free, table, Watched
  <2>3. WS!Free(o)
    BY <2>1, <2>2 DEF WS!Free, WS!Move
  <2> QED
    BY <2>3 DEF WS!Next
<1>5. ASSUME NEW t \in Threads, InSet(t), ReturnObject(t), UNCHANGED <<used, obj>>
      PROVE  WS!Next
  <2>1. arg[t] \in Objects /\ heap[arg[t]] = "allocating"
    BY <1>5 DEF WatchInv
  <2>2. heap' = [heap EXCEPT ![arg[t]] = "live"] /\ Watched' = Watched
    BY <1>5 DEF ReturnObject, Watched
  <2>3. WS!Return(arg[t])
    BY <2>1, <2>2 DEF WS!Return, WS!Move
  <2> QED
    BY <2>1, <2>3 DEF WS!Next
<1>6. ASSUME NEW t \in Threads, Claim(t) PROVE WS!Next
  <2> DEFINE w == slot[t]
  <2>1. /\ pc[t] = "claim" /\ w \in Slots /\ heap' = heap
        /\ used' = [used EXCEPT ![w] = TRUE] /\ obj' = [obj EXCEPT ![w] = arg[t]]
    BY <1>6 DEF Claim, TypeOK
  <2>2. arg[t] \in Objects /\ heap[arg[t]] = "allocating"
    BY <2>1 DEF WatchInv, InSet, PcSet
  <2>3. arg[t] \notin Watched
    <3>1. MayWatch(t) = {}
      BY <2>1 DEF MayWatch, PcUnlock
    <3> QED
      BY <2>2, <3>1 DEF WatchInv, Watches, Watched
  <2>4. CASE ~used[w]
    <3>1. WS!Cardinality(Watched) < MaxWatchpoints
      BY <2>1, <2>4, RoomForOne, SameCardinality
    <3>2. Watched' = Watched \cup {arg[t]}
      BY <2>1, <2>4 DEF Watched, TypeOK
    <3>3. WS!Watch(arg[t])
      BY <2>1, <2>2, <2>3, <3>1, <3>2 DEF WS!Watch
    <3> QED
      BY <2>2, <3>3 DEF WS!Next
  <2>5. CASE used[w]
    <3>1. obj[w] \in Objects /\ obj[w] \in Watched
      BY <2>1, <2>5 DEF WatchInv, Watched
    <3>2. \A v \in Slots : used[v] /\ v # w => obj[v] # obj[w]
      BY <2>1, <2>5 DEF WatchInv, OneSlotPerObject
    <3>3. Watched' = (Watched \ {obj[w]}) \cup {arg[t]}
      BY <2>1, <2>5, <3>2 DEF Watched, TypeOK
    <3>4. WS!Steal(arg[t], obj[w])
      BY <2>1, <2>2, <2>3, <3>1, <3>3 DEF WS!Steal
    <3> QED
      BY <2>2, <3>1, <3>4 DEF WS!Next
  <2> QED
    BY <2>4, <2>5
<1>7. ASSUME NEW t \in Threads, Disable(t) PROVE WS!Next
  <2> DEFINE w == slot[t]
  <2>1. pc[t] = "disable" /\ w \in Slots /\ UNCHANGED <<heap, obj>>
    BY <1>7 DEF Disable, TypeOK
  <2>2. /\ arg[t] \in Objects /\ heap[arg[t]] = "freeing"
        /\ used[w] /\ obj[w] = arg[t]
    BY <2>1 DEF WatchInv, SlotInv, InStop, PcStop, Watches
  <2>3. AllClosed(w)
    <3>1. ~MidInstall(w) /\ used[w] /\ w \in Slots
      BY <2>1, <2>2 DEF LockInv, Spinning, MidInstall
    <3>2. \A u \in alive : Watching(w, u)
      BY <2>1, <3>1 DEF CoverInv
    <3> QED
      BY <3>2 DEF Watching, AllClosed
  <2>4. used' = [used EXCEPT ![w] = FALSE]
    BY <1>7, <2>3 DEF Disable
  <2>5. \A v \in Slots : used[v] /\ v # w => obj[v] # arg[t]
    BY <2>1, <2>2 DEF WatchInv, OneSlotPerObject
  <2>6. Watched' = Watched \ {arg[t]} /\ arg[t] \in Watched
    BY <2>1, <2>2, <2>4, <2>5 DEF Watched, TypeOK
  <2>7. WS!Unwatch(arg[t])
    BY <2>1, <2>2, <2>6 DEF WS!Unwatch
  <2> QED
    BY <2>2, <2>7 DEF WS!Next
<1>8. ASSUME NEW t \in Threads, Release(t) PROVE WS!Next
  <2>1. pc[t] = "release" /\ UNCHANGED <<used, obj>> /\ heap' = [heap EXCEPT ![arg[t]] = "free"]
    BY <1>8 DEF Release, table
  <2>2. arg[t] \in Objects /\ heap[arg[t]] = "freeing"
    BY <2>1 DEF WatchInv, InStop, PcStop
  <2>3. arg[t] \notin Watched
    <3>1. MayWatch(t) = {}
      BY <2>1 DEF MayWatch, PcUnlock
    <3> QED
      BY <2>2, <3>1 DEF WatchInv, Watches, Watched
  <2>4. Watched' = Watched
    BY <2>1 DEF Watched
  <2>5. WS!Release(arg[t])
    BY <2>1, <2>2, <2>3, <2>4 DEF WS!Release, WS!Move
  <2> QED
    BY <2>2, <2>5 DEF WS!Next
<1> QED
  BY <1>1, <1>2, <1>3, <1>4, <1>5, <1>6, <1>7, <1>8, VisibleSteps

\* The table, with its locks, its unlocked walks and its descriptors, does what WatchSet
\* says: a watch ends only by a steal or by its own free, and precedes the release.
THEOREM TableImplementsWatchSet ==
  ASSUME MaxFailures = 0, MaxGhosts = 0
  PROVE  Spec => ImplementsWatchSet
<1>1. Init => WS!Init
  BY DEF Init, WS!Init, Watched
<1>2. SafeUnfailing /\ [Next]_vars => [WS!Next]_(WS!vars)
  BY WatchSetStep
<1> QED
  BY <1>1, <1>2, WatchInvariant, PTL DEF Spec, ImplementsWatchSet, WS!Spec

=============================================================================
