----------------------------- MODULE SamplingProofs -----------------------------
(***************************************************************************)
(* Proofs about Sampling, for any number of threads, any values of the     *)
(* constants of the ratio, and any number of allocations, frees and scans. *)
(***************************************************************************)
EXTENDS Sampling, TLAPS

-----------------------------------------------------------------------------
(* The ratio *)

\* A reduction neither leaves the range of ratios nor touches the upper bound.
LEMMA ReductionsStay ==
  ASSUME NEW r \in Ratios, NEW ty \in Types
  PROVE  /\ {Reduced(r), Halved(r), After(ty, r)} \subseteq Ratios
         /\ After(ty, UpperBound) = UpperBound
<1>1. Reduced(r) \in Ratios
  BY RatioAssumption DEF Reduced, AtLeastMin, Ratios
<1>2. Halved(r) \in Ratios
  BY RatioAssumption DEF Halved, AtLeastMin, Ratios
<1>3. After(ty, r) \in Ratios
  BY <1>1, <1>2 DEF After, AfterWatch, AfterCall
<1>4. After(ty, UpperBound) = UpperBound
  BY DEF After, AfterWatch, AfterCall
<1> QED
  BY <1>1, <1>2, <1>3, <1>4

-----------------------------------------------------------------------------
(* The invariant *)

\* The places between the lock and the unlock of the record.
Updating == {"load", "store", "finish"}

LockInv == \A t \in Threads : lock = t <=> pc[t] \in Updating

\* What nobody is to reduce: found by a free, or by a scan that no update overlapped.
Settled == proven \/ (scanned /\ ~overlapped)

\* Not even a thread that has read the ratio and not yet written it.
EvidenceInv ==
  Settled => ratio = UpperBound /\ \A t \in Threads : pc[t] = "store" => loaded[t] = UpperBound

Inv == TypeOK /\ LockInv /\ EvidenceInv /\ CapturedBeforeReturn

\* A fresh record satisfies the invariant.
LEMMA InitInv == Init => Inv
<1> SUFFICES ASSUME Init PROVE Inv
  OBVIOUS
<1>1. TypeOK
  <2>1. InitRatio \in Ratios /\ Period \in Nat /\ MaxCalls \in Nat
    BY RatioAssumption, SamplingAssumption DEF Ratios
  <2>2. /\ pc \in [Threads -> PcValues] /\ throttled \in [Threads -> BOOLEAN]
        /\ type \in [Threads -> Types] /\ loaded \in [Threads -> Ratios]
    BY <2>1 DEF Init, PcValues, Types
  <2>3. now \in Nat /\ budget \in Nat /\ ratio \in Ratios
    BY <2>1 DEF Init
  <2>4. depth \in {0, 1} /\ periodcalled \in Nat /\ period \in Nat /\ lock \in Threads \cup {NoThread}
    BY DEF Init
  <2>5. {exiting, proven, scanned, overlapped, returned} \subseteq BOOLEAN
    BY DEF Init
  <2> QED
    BY <2>2, <2>3, <2>4, <2>5 DEF TypeOK
<1>2. LockInv
  BY SamplingAssumption DEF Init, LockInv, Updating
<1>3. EvidenceInv /\ CapturedBeforeReturn
  BY DEF Init, EvidenceInv, Settled, CapturedBeforeReturn
<1> QED
  BY <1>1, <1>2, <1>3 DEF Inv

\* What each step may change of the type.
LEMMA NextType == TypeOK /\ [Next]_vars => TypeOK'
<1> SUFFICES ASSUME TypeOK, [Next]_vars PROVE TypeOK'
  OBVIOUS
<1> USE DEF TypeOK, PcValues, Types, Goto
<1>1. CASE UNCHANGED vars
  BY <1>1 DEF vars, record, locals, history
<1>2. ASSUME NEW t \in Threads, Start(t) PROVE TypeOK'
  BY <1>2 DEF Start, record, history
<1>3. ASSUME NEW t \in Threads, Install(t) PROVE TypeOK'
  BY <1>3 DEF Install, Update, record, history
<1>4. ASSUME NEW t \in Threads, Draw(t) PROVE TypeOK'
  BY <1>4 DEF Draw, Update, record, history
<1>5. ASSUME NEW t \in Threads, Steal(t) PROVE TypeOK'
  BY <1>5 DEF Steal, Update, record, history
<1>6. ASSUME NEW t \in Threads, Lock(t) PROVE TypeOK'
  BY <1>6 DEF Lock, record, locals, history
<1>7. ASSUME NEW t \in Threads, Load(t) PROVE TypeOK'
  BY <1>7 DEF Load, history
<1>8. ASSUME NEW t \in Threads, Store(t) PROVE TypeOK'
  <2>1. ratio' \in Ratios
    BY <1>8, ReductionsStay DEF Store
  <2> QED
    BY <1>8, <2>1 DEF Store, locals, history
<1>9. ASSUME NEW t \in Threads, Finish(t) PROVE TypeOK'
  <2>1. depth' \in {0, 1} /\ periodcalled' \in Nat /\ period' \in Nat
    BY <1>9 DEF Finish, Captured
  <2>2. lock' \in Threads \cup {NoThread} /\ pc' \in [Threads -> PcValues] /\ returned' \in BOOLEAN
    BY <1>9 DEF Finish
  <2> QED
    BY <1>9, <2>1, <2>2 DEF Finish, locals
<1>10. ASSUME NEW t \in Threads, Prove(t) PROVE TypeOK'
  BY <1>10, RatioAssumption DEF Prove, Ratios, locals
<1>11. CASE Exit
  BY <1>11 DEF Exit, record, locals, history
<1>12. CASE Scan
  BY <1>12, RatioAssumption DEF Scan, Ratios, locals
<1>13. CASE Clock
  BY <1>13, SamplingAssumption DEF Clock, record, locals, history
<1> QED
  BY <1>1, <1>2, <1>3, <1>4, <1>5, <1>6, <1>7, <1>8, <1>9, <1>10, <1>11, <1>12, <1>13 DEF Next

\* A step outside the record's lock, of a thread that neither takes it nor writes the record.
LEMMA Outside ==
  ASSUME Inv, NEW t \in Threads, NEW p \in PcValues \ Updating, pc[t] \notin Updating,
         pc' = [pc EXCEPT ![t] = p],
         UNCHANGED <<ratio, depth, lock, loaded, proven, scanned, overlapped, returned>>
  PROVE  LockInv' /\ EvidenceInv' /\ CapturedBeforeReturn'
<1>1. pc \in [Threads -> PcValues]
  BY DEF Inv, TypeOK
<1>2. LockInv'
  BY <1>1 DEF Inv, LockInv, Updating
<1>3. EvidenceInv'
  BY <1>1 DEF Inv, EvidenceInv, Settled, Updating
<1>4. CapturedBeforeReturn'
  BY DEF Inv, CapturedBeforeReturn
<1> QED
  BY <1>2, <1>3, <1>4

\* Every step keeps the invariant.
LEMMA NextInv == Inv /\ [Next]_vars => Inv'
<1> SUFFICES ASSUME Inv, [Next]_vars PROVE Inv'
  OBVIOUS
<1>t. TypeOK' /\ TypeOK /\ pc \in [Threads -> PcValues] /\ loaded \in [Threads -> Ratios]
  BY NextType DEF Inv, TypeOK
<1>p. {"idle", "install", "draw", "steal", "lock"} \subseteq PcValues \ Updating
  BY DEF PcValues, Updating
<1> SUFFICES LockInv' /\ EvidenceInv' /\ CapturedBeforeReturn'
  BY <1>t DEF Inv
<1>1. CASE UNCHANGED vars
  BY <1>1 DEF vars, record, locals, history, Inv, LockInv, EvidenceInv, Settled, CapturedBeforeReturn
<1>2. ASSUME NEW t \in Threads, Start(t) \/ Install(t) \/ Draw(t) \/ Steal(t)
      PROVE  LockInv' /\ EvidenceInv' /\ CapturedBeforeReturn'
  <2>1. \E p \in {"install", "draw", "steal", "lock"} : pc' = [pc EXCEPT ![t] = p]
    BY <1>2 DEF Start, Install, Draw, Steal, Update, Goto
  <2>2. pc[t] \in {"idle", "install", "draw", "steal"}
    BY <1>2 DEF Start, Install, Draw, Steal
  <2>3. UNCHANGED <<ratio, depth, lock, loaded, proven, scanned, overlapped, returned>>
    BY <1>2 DEF Start, Install, Draw, Steal, record, history
  <2> QED
    BY <1>p, <2>1, <2>2, <2>3, Outside
<1>3. ASSUME NEW t \in Threads, Lock(t)
      PROVE  LockInv' /\ EvidenceInv' /\ CapturedBeforeReturn'
  <2>1. LockInv'
    BY <1>3, <1>t, SamplingAssumption DEF Lock, LockFree, Goto, Inv, LockInv, Updating
  <2>2. EvidenceInv' /\ CapturedBeforeReturn'
    BY <1>3, <1>t DEF Lock, Goto, record, locals, history, Inv, EvidenceInv, Settled, CapturedBeforeReturn
  <2> QED
    BY <2>1, <2>2
<1>4. ASSUME NEW t \in Threads, Load(t)
      PROVE  LockInv' /\ EvidenceInv' /\ CapturedBeforeReturn'
  <2>1. LockInv'
    BY <1>4, <1>t DEF Load, Goto, Inv, LockInv, Updating
  <2>2. EvidenceInv'
    BY <1>4, <1>t DEF Load, Goto, history, Inv, EvidenceInv, Settled
  <2>3. CapturedBeforeReturn'
    BY <1>4 DEF Load, history, Inv, CapturedBeforeReturn
  <2> QED
    BY <2>1, <2>2, <2>3
<1>5. ASSUME NEW t \in Threads, Store(t)
      PROVE  LockInv' /\ EvidenceInv' /\ CapturedBeforeReturn'
  <2>1. LockInv'
    BY <1>5, <1>t DEF Store, Goto, Inv, LockInv, Updating
  <2>2. EvidenceInv'
    <3> SUFFICES ASSUME Settled'
                 PROVE  ratio' = UpperBound /\ \A u \in Threads : pc'[u] = "store" => loaded'[u] = UpperBound
      BY DEF EvidenceInv
    <3>1. Settled /\ loaded' = loaded /\ pc[t] = "store" /\ pc' = [pc EXCEPT ![t] = "finish"]
      BY <1>5 DEF Store, Goto, locals, history, Settled
    <3>2. loaded[t] = UpperBound
      BY <3>1 DEF Inv, EvidenceInv
    <3>3. ratio' = UpperBound
      BY <1>5, <1>t, <3>2, ReductionsStay DEF Store, TypeOK
    <3> QED
      BY <1>t, <3>1, <3>3 DEF Inv, EvidenceInv
  <2>3. CapturedBeforeReturn'
    BY <1>5 DEF Store, history, Inv, CapturedBeforeReturn
  <2> QED
    BY <2>1, <2>2, <2>3
<1>6. ASSUME NEW t \in Threads, Finish(t)
      PROVE  LockInv' /\ EvidenceInv' /\ CapturedBeforeReturn'
  <2>1. lock' = NoThread /\ pc[t] = "finish" /\ pc' = [pc EXCEPT ![t] = "idle"]
    BY <1>6 DEF Finish, Goto
  <2>2. LockInv'
    BY <1>t, <2>1, SamplingAssumption DEF Inv, LockInv, Updating
  <2>3. EvidenceInv'
    BY <1>6, <1>t, <2>1 DEF Finish, locals, Inv, EvidenceInv, Settled
  <2>4. CapturedBeforeReturn'
    BY <1>6, <1>t DEF Finish, Captured, CapturedBeforeReturn, TypeOK
  <2> QED
    BY <2>2, <2>3, <2>4
<1>7. ASSUME lock = NoThread PROVE \A t \in Threads : pc[t] # "store"
  BY <1>7, SamplingAssumption DEF Inv, LockInv, Updating
<1>8. ASSUME NEW t \in Threads, Prove(t)
      PROVE  LockInv' /\ EvidenceInv' /\ CapturedBeforeReturn'
  <2>1. LockInv' /\ CapturedBeforeReturn'
    BY <1>8 DEF Prove, locals, Inv, LockInv, CapturedBeforeReturn
  <2>2. EvidenceInv'
    BY <1>7, <1>8 DEF Prove, locals, EvidenceInv
  <2> QED
    BY <2>1, <2>2
<1>9. CASE Exit
  BY <1>9 DEF Exit, record, locals, history, Inv, LockInv, EvidenceInv, Settled, CapturedBeforeReturn
<1>10. CASE Scan
  <2>1. LockInv' /\ CapturedBeforeReturn'
    BY <1>10 DEF Scan, locals, Inv, LockInv, CapturedBeforeReturn
  <2>2. EvidenceInv'
    BY <1>7, <1>10, <1>t DEF Scan, locals, Inv, EvidenceInv, Settled, TypeOK
  <2> QED
    BY <2>1, <2>2
<1>11. CASE Clock
  BY <1>11 DEF Clock, record, locals, history, Inv, LockInv, EvidenceInv, Settled, CapturedBeforeReturn
<1> QED
  BY <1>1, <1>2, <1>3, <1>4, <1>5, <1>6, <1>8, <1>9, <1>10, <1>11 DEF Next

-----------------------------------------------------------------------------
(* Theorems *)

(* The record is well typed and its lock excludes: in every reachable      *)
(* state of startWatch, updateWatchedInfo, checkPointer, checkAllMemory.   *)
THEOREM RecordInvariant == Spec => []Inv
  BY InitInv, NextInv, PTL DEF Spec

(* A call stack that a free has proven to overflow stays always watched,   *)
(* whichever threads were reducing its ratio (checkPointer and             *)
(* updateWatchedInfo take the record's lock).                              *)
THEOREM ProvenStaysProven == Spec => []EvidenceKept
<1>1. Inv => EvidenceKept
  BY DEF Inv, EvidenceInv, Settled, EvidenceKept
<1> QED
  BY RecordInvariant, <1>1, PTL

(* What checkAllMemory finds, which takes no lock, is lost only if a       *)
(* thread was inside updateWatchedInfo at that time.                       *)
THEOREM ScanKept == Spec => []ScanLostOnlyInRace
<1>1. Inv => ScanLostOnlyInRace
  BY DEF Inv, EvidenceInv, Settled, ScanLostOnlyInRace
<1> QED
  BY RecordInvariant, <1>1, PTL

(* No allocation returns before updateWatchedInfo has captured the call    *)
(* stack of its record.                                                    *)
THEOREM CallStackCaptured == Spec => []CapturedBeforeReturn
<1>1. Inv => CapturedBeforeReturn
  BY DEF Inv
<1> QED
  BY RecordInvariant, <1>1, PTL

\* A thread changes its own place only.
LEMMA Mover ==
  ASSUME pc \in [Threads -> PcValues], Next, NEW t \in Threads, pc'[t] # pc[t]
  PROVE  Start(t) \/ Install(t) \/ Draw(t) \/ Steal(t) \/ Lock(t) \/ Load(t) \/ Store(t) \/ Finish(t)
<1>1. PICK u \in Threads : \/ Start(u) \/ Install(u) \/ Draw(u) \/ Steal(u)
                           \/ Lock(u) \/ Load(u) \/ Store(u) \/ Finish(u)
  BY DEF Next, Prove, Exit, Scan, Clock
<1>2. \E p : pc' = [pc EXCEPT ![u] = p]
  BY <1>1 DEF Start, Install, Draw, Steal, Lock, Load, Store, Finish, Update, Goto
<1>3. u = t
  BY <1>2
<1> QED
  BY <1>1, <1>3

(* startWatch's draw denies a watchpoint to a call stack known to overflow *)
(* only when it is throttled.                                              *)
THEOREM KnownNotDenied == Spec => KnownAreTried
<1>1. Inv /\ [Next]_vars =>
        [\A t \in Threads : pc[t] = "draw" /\ pc'[t] = "lock" /\ ratio = UpperBound
                              => throttled[t]]_vars
  <2> SUFFICES ASSUME Inv, Next, NEW t \in Threads,
                      pc[t] = "draw", pc'[t] = "lock", ratio = UpperBound
               PROVE  throttled[t]
    OBVIOUS
  <2>t. pc \in [Threads -> PcValues]
    BY DEF Inv, TypeOK
  <2>1. Draw(t)
    BY <2>t, Mover DEF Start, Install, Steal, Lock, Load, Store, Finish
  <2>2. PICK rnd \in Draws(throttled[t]) : rnd > ratio
    BY <2>t, <2>1 DEF Draw, Goto
  <2> QED
    BY <2>2, RatioAssumption DEF Draws
<1> QED
  BY RecordInvariant, <1>1, PTL DEF Spec, KnownAreTried

(* The end of updateWatchedInfo leaves no period that begins in the        *)
(* future, whatever was done to the clock.                                 *)
THEOREM PeriodBeginsInPast == Spec => PeriodNotAhead
<1>1. Inv /\ [Next]_vars =>
        [\A t \in Threads : pc[t] = "finish" /\ pc'[t] = "idle" => period' <= now]_vars
  <2> SUFFICES ASSUME Inv, Next, NEW t \in Threads, pc[t] = "finish", pc'[t] = "idle"
               PROVE  period' <= now
    OBVIOUS
  <2>t. pc \in [Threads -> PcValues] /\ now \in Nat /\ period \in Nat
    BY DEF Inv, TypeOK
  <2>1. Finish(t)
    BY <2>t, Mover DEF Start, Install, Draw, Steal, Lock, Load, Store
  <2> QED
    BY <2>t, <2>1 DEF Finish, PeriodOver
<1> QED
  BY RecordInvariant, <1>1, PTL DEF Spec, PeriodNotAhead

=============================================================================
