--------------------------- MODULE CallstackMapProofs ---------------------------
(***************************************************************************)
(* Proofs about CallstackMap, for any number of threads, call stacks,      *)
(* buckets, lines of the history file and calls, and any hash function.    *)
(***************************************************************************)
EXTENDS CallstackMap, FiniteSetTheorems, WellFoundedInduction, TLAPS

-----------------------------------------------------------------------------
(* The invariant *)

\* The places of a call that holds its bucket's lock, and of any call.
Holding == {"search", "pool", "pick", "advance", "link", "count", "total", "fill", "unlock"}
Asking  == Holding \cup {"lock"}

\* The places where the entry in hand is the call stack's, but not yet complete.
Filling == {"count", "total", "fill"}

WantInv == \A t \in Threads : IF pc[t] \in Asking THEN want[t] \in Keys ELSE want[t] = NoKey

LockInv ==
  /\ \A b \in Buckets, t \in Threads : lock[b] = t <=> pc[t] \in Holding /\ Bucket(t) = b
  /\ \A t \in Threads : entrylock = t <=> pc[t] \in {"pick", "advance"}

\* The entries cut from the pool so far.
Cut(e) == e[1] < pool \/ (e[1] = pool /\ e[2] < entryindex)

\* An entry is cut once.
CutInv ==
  /\ \A e \in DOMAIN key : Cut(e)
  /\ \A t \in Threads :
       /\ pc[t] = "advance" => cell[t] = <<pool, entryindex>> /\ entryindex < NumBuckets
       /\ pc[t] = "link" => cell[t] \in Entries \ DOMAIN key /\ Cut(cell[t])
  /\ \A t, u \in Threads : pc[t] = "link" /\ pc[u] = "link" /\ cell[t] = cell[u] => t = u

\* The lists hold the initialised entries, each once, in the bucket of its call stack.
ChainInv ==
  /\ \A b \in Buckets : \A i \in 1..Len(chain[b]) :
       chain[b][i] \in DOMAIN key /\ hashIndex(key[chain[b][i]]) = b
  /\ \A b \in Buckets : \A i, j \in 1..Len(chain[b]) : chain[b][i] = chain[b][j] => i = j
  /\ \A e \in DOMAIN key : \E i \in 1..Len(chain[hashIndex(key[e])]) :
       chain[hashIndex(key[e])][i] = e

\* The count of a list is behind only between listInsertTail and the increment.
CountInv ==
  \A b \in Buckets :
    \/ count[b] = Len(chain[b]) /\ \A t \in Threads : ~(pc[t] = "count" /\ Bucket(t) = b)
    \/ count[b] + 1 = Len(chain[b]) /\ \E t \in Threads : pc[t] = "count" /\ Bucket(t) = b

\* Who makes a new entry for a caller does it for a call stack without one.
NewInv ==
  toLoad = <<>> =>
    \A t \in Threads : pc[t] \in {"pool", "pick", "advance", "link"} =>
      \A e \in DOMAIN key : key[e] # want[t]

\* The entry in hand has the key asked for; one that a caller gets is the first with its key.
CellInv ==
  \A t \in Threads :
    /\ pc[t] \in Filling \cup {"unlock"} => cell[t] \in DOMAIN key /\ key[cell[t]] = want[t]
    /\ pc[t] \in Filling \cup {"unlock"} /\ toLoad = <<>> => Leads(cell[t])
    /\ answer[t] # NoEntry => Leads(answer[t])

\* While the history is loaded, the others wait, and nobody has been given an entry.
LoadInv ==
  toLoad # <<>> =>
    /\ \A t \in Threads \ {Main} : pc[t] = "idle"
    /\ \A t \in Threads : answer[t] = NoEntry
    /\ pc[Main] # "idle" => want[Main] = toLoad[1]
    /\ pc[Main] \notin {"search", "fill", "use"}
    /\ \A e \in DOMAIN key : stats[e] # "raw"

\* Statistics are raw only in the hands of the thread that makes the entry.
StatsInv ==
  /\ \A e \in DOMAIN key : stats[e] = "raw" => \E t \in Threads : pc[t] \in Filling /\ cell[t] = e
  /\ \A t \in Threads :
       /\ pc[t] \in Filling /\ toLoad = <<>> => stats[cell[t]] = "raw"
       /\ pc[t] = "unlock" => stats[cell[t]] # "raw"
       /\ answer[t] # NoEntry => answer[t] \in DOMAIN key /\ stats[answer[t]] # "raw"
       /\ pc[t] = "use" => answer[t] # NoEntry

\* Those whose call may still cut an entry.
Coming == {t \in Threads : pc[t] \in {"lock", "search", "pool", "pick"}}

\* The pools of the bound on calls are enough.
BoundInv ==
  /\ IsFiniteSet(Coming)
  /\ toLoad = <<>> => pool + Cardinality(Coming) + budget <= MaxCalls + Len(History)
  /\ toLoad # <<>> =>
       /\ budget = MaxCalls
       /\ pool + Len(toLoad) <=
            Len(History) + IF pc[Main] \in {"advance", "link"} \cup Filling \cup {"unlock"} THEN 1 ELSE 0

\* An entry that a list counts, and one that the walk has passed, or is at.
Counted(e) == \E b \in Buckets : \E i \in 1..count[b] : chain[b][i] = e

Passed(e) == \E b \in 0..(pos - 1) : \E i \in 1..Len(chain[b]) : chain[b][i] = e

\* The walk has seen what it owes of the buckets before its own, and of its own list up to at.
WalkInv ==
  /\ \A e \in owed : Counted(e)
  /\ saver # "off" => \A e \in owed : Passed(e) => e \in seen
  /\ saver = "done" => pos = NumBuckets
  /\ saver \in {"visit", "step"} =>
       /\ pos \in Buckets
       /\ \E i \in 1..Len(chain[pos]) :
            /\ chain[pos][i] = at
            /\ \A j \in 1..(i - 1) : chain[pos][j] \in owed => chain[pos][j] \in seen
            /\ saver = "step" => at \in seen

Inv ==
  /\ TypeOK /\ WantInv /\ LockInv /\ CutInv /\ ChainInv /\ CountInv
  /\ NewInv /\ CellInv /\ LoadInv /\ StatsInv /\ BoundInv

-----------------------------------------------------------------------------
(* Facts about the model's operators *)

\* A call stack has a bucket.
LEMMA Hashed == ASSUME NEW k \in Keys PROVE hashIndex(k) \in Buckets
<1>1. Hash[k] \in Nat /\ NumBuckets \in Nat /\ NumBuckets > 0
  BY KeysAssumption, BucketsAssumption
<1> QED
  BY <1>1 DEF hashIndex, Buckets

\* No entry of a pool is the one that stands for none.
LEMMA NoEntryIsNone == NoEntry \notin Entries
BY DEF NoEntry, Entries, Pools, Buckets

\* The first of a list.
LEMMA First ==
  ASSUME NEW S, NEW s \in Seq(S), s # <<>>
  PROVE  Len(s) \in Nat /\ Len(s) >= 1 /\ 1 \in 1..Len(s) /\ Head(s) = s[1] /\ s[1] \in S
OBVIOUS

\* The other lines of the history file.
LEMMA Rest ==
  ASSUME NEW S, NEW s \in Seq(S), s # <<>>
  PROVE  /\ Tail(s) \in Seq(S) /\ Len(Tail(s)) = Len(s) - 1
         /\ \A i \in 1..Len(Tail(s)) : i + 1 \in 2..Len(s) /\ Tail(s)[i] = s[i + 1]
OBVIOUS

\* listInsertTail.
LEMMA Inserted ==
  ASSUME NEW S, NEW s \in Seq(S), NEW e \in S
  PROVE  LET r == Append(s, e) IN
         /\ r \in Seq(S) /\ Len(s) \in Nat /\ Len(r) = Len(s) + 1 /\ r[Len(r)] = e
         /\ \A i \in 1..Len(s) : i \in 1..Len(r) /\ r[i] = s[i]
         /\ \A i \in 1..Len(r) : i \in 1..Len(s) \/ i = Len(r)
OBVIOUS

\* The entries getEntry looks at.
LEMMA Prefix ==
  ASSUME NEW S, NEW s \in Seq(S), NEW n \in Nat, n <= Len(s)
  PROVE  ToSet(SubSeq(s, 1, n)) = {s[i] : i \in 1..n}
<1>1. Len(SubSeq(s, 1, n)) = n /\ SubSeq(s, 1, n) \in Seq(S) /\ \A i \in 1..n : SubSeq(s, 1, n)[i] = s[i]
  OBVIOUS
<1>2. DOMAIN SubSeq(s, 1, n) = 1..n
  BY <1>1
<1> QED
  BY <1>1, <1>2 DEF ToSet

-----------------------------------------------------------------------------
(* What the steps have in common *)

core == <<buckets, pools, totalEntry, content, callers>>

Caller(t) == FindOrAdd(t) \/ CallStep(t)

\* The walk changes nothing of the map.
LEMMA Steps == [Next]_vars => UNCHANGED core \/ Load \/ \E t \in Threads : Caller(t)
BY DEF Next, vars, core, SaveStep, SaveBegin, Seek, Visit, Step, Finished, Caller


-----------------------------------------------------------------------------
(* Types and locks *)

\* The pools suffice: who cuts an entry is one of the bounded calls.
LEMMA PoolSuffices == ASSUME Inv, NEW t \in Threads, Pick(t) PROVE pool + 1 \in Pools
<1>1. pool \in Nat /\ budget \in Nat /\ MaxCalls \in Nat /\ toLoad \in Seq(Keys) /\ Len(History) \in Nat
  BY HistoryAssumption, CallsAssumption DEF Inv, TypeOK, Pools
<1>2. pc[t] = "pick" /\ t \in Coming
  BY DEF Pick, Coming
<1>3. CASE toLoad = <<>>
  <2>1. Cardinality(Coming) \in Nat /\ Cardinality(Coming) # 0
    BY <1>2, FS_CardinalityType, FS_EmptySet DEF Inv, BoundInv
  <2> QED
    BY <1>1, <1>3, <2>1 DEF Inv, BoundInv, Pools
<1>4. CASE toLoad # <<>>
  <2>1. pc[Main] = "pick"
    BY <1>2, <1>4 DEF Inv, LoadInv
  <2>2. Len(toLoad) \in Nat /\ Len(toLoad) >= 1
    BY <1>1, <1>4
  <2>3. pool + Len(toLoad) <= Len(History)
    BY <1>1, <1>4, <2>1, <2>2 DEF Inv, BoundInv, Filling
  <2> QED
    BY <1>1, <2>2, <2>3, CallsAssumption DEF Pools
<1> QED
  BY <1>3, <1>4

\* Every step of the map keeps the types.
LEMMA CallerType == ASSUME Inv, NEW t \in Threads, Caller(t) PROVE TypeOK'
<1> USE DEF TypeOK, Goto, PcValues
<1>w. UNCHANGED walk
  BY DEF Caller, FindOrAdd, CallStep, Lock, Found, NotFound, LockPool, Pick, Advance, Link, Count, Total, Fill,
         Unlock, Use
<1>t. TypeOK
  BY DEF Inv
<1>1. CASE FindOrAdd(t)
  BY <1>w, <1>t, <1>1 DEF FindOrAdd, buckets, pools, content, walk
<1>2. CASE Lock(t)
  <2>1. lock' \in [Buckets -> Threads \cup {NoThread}] /\ pc' \in [Threads -> PcValues]
    BY <1>t, <1>2 DEF Lock
  <2> QED
    BY <1>w, <1>t, <1>2, <2>1 DEF Lock, pools, content, walk
<1>3. CASE Found(t)
  <2>1. PICK i \in Candidates(t) : cell' = [cell EXCEPT ![t] = chain[Bucket(t)][i]]
    BY <1>3 DEF Found
  <2>2. chain[Bucket(t)][i] \in Entries
    <3>1. Bucket(t) \in Buckets
      BY <1>3, Hashed DEF Found, Inv, WantInv, Asking, Holding, Bucket
    <3>2. chain[Bucket(t)] \in Seq(Entries) /\ count[Bucket(t)] \in Nat /\ count[Bucket(t)] <= Len(chain[Bucket(t)])
      BY <1>t, <3>1 DEF Inv, CountInv
    <3>3. i \in 1..count[Bucket(t)]
      BY <2>1 DEF Candidates
    <3> QED
      BY <3>2, <3>3
  <2> QED
    BY <1>w, <1>t, <1>3, <2>1, <2>2 DEF Found, buckets, pools, content, walk
<1>4. CASE NotFound(t)
  BY <1>w, <1>t, <1>4 DEF NotFound, buckets, pools, content, walk
<1>5. CASE LockPool(t)
  BY <1>w, <1>t, <1>5 DEF LockPool, buckets, content, walk
<1>6. CASE Pick(t)
  <2> DEFINE p == IF Exhausted THEN pool + 1 ELSE pool
             i == IF Exhausted THEN 0 ELSE entryindex
  <2>1. p \in Pools /\ i \in Buckets /\ i \in 0..NumBuckets
    BY <1>t, <1>6, PoolSuffices, BucketsAssumption DEF Exhausted, Buckets, Pools
  <2>2. pool' = p /\ entryindex' = i /\ cell' = [cell EXCEPT ![t] = <<p, i>>]
    BY <1>6 DEF Pick
  <2>3. <<p, i>> \in Entries
    BY <2>1 DEF Entries
  <2> HIDE DEF p, i
  <2>4. cell' \in [Threads -> Entries \cup {NoEntry}]
    BY <1>t, <2>2, <2>3
  <2>5. pc' \in [Threads -> PcValues]
    BY <1>t, <1>6 DEF Pick
  <2> QED
    BY <1>w, <1>t, <1>6, <2>1, <2>2, <2>4, <2>5 DEF Pick, buckets, content, walk
<1>7. CASE Advance(t)
  <2>1. entryindex' \in 0..NumBuckets
    BY <1>t, <1>7, BucketsAssumption DEF Advance, Inv, CutInv
  <2> QED
    BY <1>w, <1>t, <1>7, <2>1 DEF Advance, UnlockPool, buckets, content, walk
<1>8. CASE Link(t)
  <2>1. want[t] \in Keys /\ cell[t] \in Entries /\ Bucket(t) \in Buckets
    BY <1>8, Hashed DEF Link, Inv, WantInv, CutInv, Asking, Holding, Bucket
  <2>2. key' \in [DOMAIN key' -> Keys] /\ DOMAIN key' = DOMAIN key \cup {cell[t]}
    BY <1>t, <1>8, <2>1 DEF Link, Put
  <2>3. stats' \in [DOMAIN key' -> StatsValues]
    BY <1>t, <1>8, <2>1, <2>2 DEF Link, Put, StatsValues
  <2>4. chain' \in [Buckets -> Seq(Entries)]
    <3>1. Append(chain[Bucket(t)], cell[t]) \in Seq(Entries)
      BY <1>t, <2>1
    <3> QED
      BY <1>t, <1>8, <2>1, <3>1 DEF Link
  <2> QED
    BY <1>w, <1>t, <1>8, <2>1, <2>2, <2>3, <2>4 DEF Link, pools, walk
<1>9. CASE Count(t)
  <2>1. Bucket(t) \in Buckets
    BY <1>9, Hashed DEF Count, Inv, WantInv, Asking, Holding, Bucket
  <2>2. count[Bucket(t)] + 1 \in Nat
    BY <1>t, <2>1
  <2>3. count' = [count EXCEPT ![Bucket(t)] = count[Bucket(t)] + 1]
    BY <1>9 DEF Count
  <2>4. count' \in [Buckets -> Nat]
    BY <1>t, <2>2, <2>3
  <2>5. pc' \in [Threads -> PcValues]
    BY <1>t, <1>9 DEF Count
  <2> QED
    BY <1>w, <1>t, <1>9, <2>4, <2>5 DEF Count, pools, content, walk
<1>10. CASE Total(t)
  BY <1>w, <1>t, <1>10 DEF Total, AfterInsert, buckets, pools, content, walk
<1>11. CASE Fill(t)
  BY <1>w, <1>t, <1>11 DEF Fill, buckets, pools, walk, StatsValues
<1>12. CASE Unlock(t)
  <2>1. lock' \in [Buckets -> Threads \cup {NoThread}]
    BY <1>t, <1>12 DEF Unlock
  <2>2. cell' \in [Threads -> Entries \cup {NoEntry}] /\ answer' \in [Threads -> Entries \cup {NoEntry}]
        /\ want' \in [Threads -> Keys \cup {NoKey}]
    BY <1>t, <1>12 DEF Unlock
  <2>3. toLoad' \in Seq(Keys)
    <3>1. CASE toLoad = <<>>
      BY <1>t, <1>12, <3>1 DEF Unlock
    <3>2. CASE toLoad # <<>>
      <4>1. toLoad' = Tail(toLoad)
        BY <1>12, <3>2 DEF Unlock
      <4> QED
        BY <1>t, <3>2, <4>1, Rest
    <3> QED
      BY <3>1, <3>2
  <2>4. pc' \in [Threads -> PcValues]
    BY <1>t, <1>12 DEF Unlock
  <2> QED
    BY <1>w, <1>t, <1>12, <2>1, <2>2, <2>3, <2>4 DEF Unlock, pools, content, walk
<1>13. CASE Use(t)
  BY <1>w, <1>t, <1>13 DEF Use, buckets, pools, walk, StatsValues
<1> QED
  BY <1>1, <1>2, <1>3, <1>4, <1>5, <1>6, <1>7, <1>8, <1>9, <1>10, <1>11, <1>12, <1>13 DEF Caller, CallStep

\* A step of one thread leaves the others where they are.
LEMMA OthersStay ==
  ASSUME Inv, NEW t \in Threads, Caller(t)
  PROVE  \A u \in Threads \ {t} :
           pc'[u] = pc[u] /\ want'[u] = want[u] /\ cell'[u] = cell[u] /\ answer'[u] = answer[u]
BY DEF Inv, TypeOK, Caller, FindOrAdd, CallStep, Lock, Found, NotFound, LockPool, Pick, Advance, Link, Count,
       Total, Fill, Unlock, Use, Goto

\* What it does with its call stack.
LEMMA CallerWant == ASSUME Inv, NEW t \in Threads, Caller(t) PROVE WantInv'
<1> SUFFICES ASSUME NEW u \in Threads
             PROVE  IF pc'[u] \in Asking THEN want'[u] \in Keys ELSE want'[u] = NoKey
  BY DEF WantInv
<1> USE DEF Inv, WantInv, TypeOK, Goto, Asking, Holding
<1>1. CASE u # t
  BY <1>1, OthersStay
<1>2. CASE FindOrAdd(t) /\ u = t
  BY <1>2 DEF FindOrAdd
<1>3. CASE Unlock(t) /\ u = t
  BY <1>3 DEF Unlock
<1>4. CASE ~FindOrAdd(t) /\ ~Unlock(t) /\ u = t
  BY <1>4 DEF Caller, CallStep, Lock, Found, NotFound, LockPool, Pick, Advance, Link, Count, Total, AfterInsert,
              Fill, Use
<1> QED
  BY <1>1, <1>2, <1>3, <1>4

\* A thread that holds a bucket's lock keeps it until it unlocks it.
LEMMA Keeps ==
  ASSUME Inv, NEW t \in Threads, Caller(t), ~Lock(t), ~Unlock(t)
  PROVE  /\ lock' = lock
         /\ pc'[t] \in Holding <=> pc[t] \in Holding
         /\ pc[t] \in Holding => want'[t] = want[t]
BY DEF Inv, TypeOK, Goto, Holding, Caller, FindOrAdd, CallStep, Found, NotFound, LockPool, Pick, Advance, Link,
       Count, Total, AfterInsert, Fill, Use, buckets

\* The locks are held by whom they say.
LEMMA CallerLock == ASSUME Inv, NEW t \in Threads, Caller(t) PROVE LockInv'
<1> USE DEF Inv, TypeOK, Goto
<1>o. \A u \in Threads \ {t} : pc'[u] = pc[u] /\ want'[u] = want[u] /\ cell'[u] = cell[u]
  BY OthersStay
<1>l. LockInv
  OBVIOUS
<1>1. ASSUME NEW b \in Buckets, NEW u \in Threads
      PROVE  lock'[b] = u <=> pc'[u] \in Holding /\ Bucket(u)' = b
  <2>1. CASE Lock(t)
    <3>1. lock[Bucket(t)] = NoThread /\ pc[t] = "lock" /\ want' = want
      BY <2>1 DEF Lock, BucketFree
    <3>2. lock' = [lock EXCEPT ![Bucket(t)] = t] /\ pc'[t] \in Holding
      BY <2>1 DEF Lock, Holding
    <3>3. Bucket(u)' = Bucket(u)
      BY <3>1 DEF Bucket
    <3>4. pc[t] \notin Holding
      BY <3>1 DEF Holding
    <3>5. CASE b = Bucket(t)
      <4>1. lock'[b] = t
        BY <3>2, <3>5
      <4>2. u # t => ~(pc[u] \in Holding /\ Bucket(u) = b)
        BY <1>l, <3>1, <3>5, ThreadsAssumption DEF LockInv
      <4> QED
        BY <1>o, <3>2, <3>3, <3>5, <4>1, <4>2
    <3>6. CASE b # Bucket(t)
      <4>1. lock'[b] = lock[b]
        BY <3>2, <3>6
      <4>2. lock[b] = u <=> pc[u] \in Holding /\ Bucket(u) = b
        BY <1>l DEF LockInv
      <4>3. CASE u = t
        BY <3>3, <3>4, <3>6, <4>1, <4>2, <4>3
      <4>4. CASE u # t
        BY <1>o, <3>3, <4>1, <4>2, <4>4
      <4> QED
        BY <4>3, <4>4
    <3> QED
      BY <3>5, <3>6
  <2>2. CASE Unlock(t)
    <3>1. pc[t] = "unlock" /\ pc[t] \in Holding
      BY <2>2 DEF Unlock, Holding
    <3>2. lock' = [lock EXCEPT ![Bucket(t)] = NoThread] /\ pc'[t] \notin Holding
      BY <2>2 DEF Unlock, Holding
    <3>3. u # t => Bucket(u)' = Bucket(u)
      BY <1>o DEF Bucket
    <3> QED
      BY <1>o, <1>l, <3>1, <3>2, <3>3, ThreadsAssumption DEF LockInv
  <2>3. CASE ~Lock(t) /\ ~Unlock(t)
    <3>1. lock' = lock /\ (pc'[t] \in Holding <=> pc[t] \in Holding) /\ (pc[t] \in Holding => want'[t] = want[t])
      BY <2>3, Keeps
    <3>2. pc'[u] \in Holding => Bucket(u)' = Bucket(u)
      BY <1>o, <3>1 DEF Bucket
    <3> QED
      BY <1>o, <1>l, <3>1, <3>2 DEF LockInv
  <2> QED
    BY <2>1, <2>2, <2>3
<1>2. ASSUME NEW u \in Threads
      PROVE  entrylock' = u <=> pc'[u] \in {"pick", "advance"}
  <2>1. CASE LockPool(t)
    BY <1>o, <1>l, <2>1, ThreadsAssumption DEF LockPool, PoolFree, LockInv
  <2>2. CASE Advance(t)
    BY <1>o, <1>l, <2>2, ThreadsAssumption DEF Advance, UnlockPool, LockInv
  <2>3. CASE ~LockPool(t) /\ ~Advance(t)
    <3>1. entrylock' = entrylock /\ (pc'[t] \in {"pick", "advance"} <=> pc[t] \in {"pick", "advance"})
      BY <2>3 DEF Caller, FindOrAdd, CallStep, Lock, Found, NotFound, Pick, Link, Count, Total, AfterInsert, Fill,
                  Unlock, Use, pools
    <3> QED
      BY <1>o, <1>l, <3>1 DEF LockInv
  <2> QED
    BY <2>1, <2>2, <2>3
<1> QED
  BY <1>1, <1>2 DEF LockInv

\* Two threads do not hold the same bucket.
LEMMA OneHolder ==
  ASSUME Inv, NEW t \in Threads, NEW u \in Threads, pc[t] \in Holding, pc[u] \in Holding, Bucket(t) = Bucket(u)
  PROVE  t = u
<1>1. want[t] \in Keys
  BY DEF Inv, WantInv, Asking
<1>2. Bucket(t) \in Buckets
  BY <1>1, Hashed DEF Bucket
<1> QED
  BY <1>2 DEF Inv, LockInv

\* An entry is cut once, whoever moves.
LEMMA CallerCut == ASSUME Inv, NEW t \in Threads, Caller(t) PROVE CutInv'
<1> USE DEF Inv, TypeOK, Goto
<1>o. \A u \in Threads \ {t} : pc'[u] = pc[u] /\ cell'[u] = cell[u]
  BY OthersStay
<1>c. CutInv /\ LockInv
  OBVIOUS
<1>e. \A e \in Entries : e[1] \in Nat /\ e[2] \in Nat /\ e[2] < NumBuckets
  BY BucketsAssumption DEF Entries, Pools, Buckets
<1>p. pool \in Nat /\ entryindex \in Nat /\ NumBuckets \in Nat
  BY BucketsAssumption DEF Pools
<1>1. CASE Pick(t)
  <2>1. \A e \in Entries : Cut(e) => Cut(e)'
    BY <1>1, <1>e, <1>p DEF Pick, Exhausted, Cut
  <2>2. pc'[t] = "advance" /\ cell'[t] = <<pool', entryindex'>> /\ entryindex' < NumBuckets /\ key' = key
    BY <1>1, <1>p, BucketsAssumption DEF Pick, Exhausted, content
  <2>3. \A u \in Threads \ {t} : pc[u] # "advance"
    BY <1>1, <1>c DEF Pick, LockInv
  <2> QED
    BY <1>o, <1>c, <2>1, <2>2, <2>3 DEF CutInv
<1>2. CASE Advance(t)
  <2>1. \A e \in Entries : Cut(e) => Cut(e)'
    BY <1>2, <1>e, <1>p DEF Advance, Cut
  <2>2. pc[t] = "advance" /\ pc'[t] = "link" /\ cell' = cell /\ key' = key
    BY <1>2 DEF Advance, content
  <2>3. cell[t] = <<pool, entryindex>> /\ entryindex < NumBuckets
    BY <1>c, <2>2 DEF CutInv
  <2>4. ~Cut(cell[t]) /\ Cut(cell[t])' /\ cell[t] \in Entries
    BY <1>2, <1>p, <2>2, <2>3, BucketsAssumption DEF Advance, Cut, Entries, Buckets
  <2>5. \A u \in Threads \ {t} : pc[u] # "advance" /\ (pc[u] = "link" => cell[u] # cell[t])
    BY <1>c, <2>2, <2>4 DEF LockInv, CutInv
  <2>6. cell[t] \notin DOMAIN key
    BY <1>c, <2>4 DEF CutInv
  <2>7. \A e \in DOMAIN key' : Cut(e)'
    BY <1>c, <2>1, <2>2 DEF CutInv
  <2>8. ASSUME NEW u \in Threads
        PROVE  /\ pc'[u] # "advance"
               /\ pc'[u] = "link" => cell'[u] \in Entries \ DOMAIN key' /\ Cut(cell[u])'
    <3>1. CASE u = t
      BY <2>2, <2>4, <2>6, <3>1
    <3>2. CASE u # t
      BY <1>o, <1>c, <2>1, <2>2, <2>5, <3>2 DEF CutInv
    <3> QED
      BY <3>1, <3>2
  <2>9. \A u, v \in Threads : pc'[u] = "link" /\ pc'[v] = "link" /\ cell'[u] = cell'[v] => u = v
    BY <1>o, <1>c, <2>2, <2>5 DEF CutInv
  <2> QED
    BY <2>7, <2>8, <2>9 DEF CutInv
<1>3. CASE Link(t)
  <2>1. pool' = pool /\ entryindex' = entryindex /\ cell' = cell
    BY <1>3 DEF Link, pools
  <2>2. \A e : Cut(e)' <=> Cut(e)
    BY <2>1 DEF Cut
  <2>3. DOMAIN key' = DOMAIN key \cup {cell[t]} /\ pc[t] = "link" /\ pc'[t] = "count"
    BY <1>3 DEF Link, Put
  <2> QED
    BY <1>o, <1>c, <2>1, <2>2, <2>3 DEF CutInv
<1>4. CASE ~Pick(t) /\ ~Advance(t) /\ ~Link(t)
  <2>1. pool' = pool /\ entryindex' = entryindex /\ key' = key /\ pc'[t] \notin {"advance", "link"}
    BY <1>4 DEF Caller, FindOrAdd, CallStep, Lock, Found, NotFound, LockPool, Count, Total, AfterInsert, Fill,
                Unlock, Use, pools, content
  <2>2. \A e : Cut(e)' <=> Cut(e)
    BY <2>1 DEF Cut
  <2> QED
    BY <1>o, <1>c, <2>1, <2>2 DEF CutInv
<1> QED
  BY <1>1, <1>2, <1>3, <1>4

\* listInsertTail, and what it leaves alone.
LEMMA Linking ==
  ASSUME Inv, NEW t \in Threads, Link(t)
  PROVE  /\ want[t] \in Keys /\ Bucket(t) \in Buckets /\ pc[t] = "link" /\ pc'[t] = "count"
         /\ cell[t] \in Entries /\ cell[t] \notin DOMAIN key /\ want' = want /\ cell' = cell
         /\ DOMAIN key' = DOMAIN key \cup {cell[t]} /\ key'[cell[t]] = want[t]
         /\ \A e \in DOMAIN key : key'[e] = key[e] /\ stats'[e] = stats[e]
         /\ stats'[cell[t]] = IF toLoad = <<>> THEN "raw" ELSE "learned"
         /\ chain'[Bucket(t)] = Append(chain[Bucket(t)], cell[t])
         /\ \A b \in Buckets \ {Bucket(t)} : chain'[b] = chain[b]
<1>1. want[t] \in Keys /\ Bucket(t) \in Buckets
  BY Hashed DEF Link, Inv, WantInv, Asking, Holding, Bucket
<1> QED
  BY <1>1 DEF Link, Put, Goto, Inv, TypeOK, CutInv

\* The others leave the lists alone.
LEMMA NotLinking ==
  ASSUME NEW t \in Threads, Caller(t), ~Link(t)
  PROVE  chain' = chain /\ key' = key
BY DEF Caller, FindOrAdd, CallStep, Lock, Found, NotFound, LockPool, Pick, Advance, Count, Total, Fill, Unlock,
       Use, buckets, content

\* The lists and the entries agree, whoever moves.
LEMMA CallerChain == ASSUME Inv, NEW t \in Threads, Caller(t) PROVE ChainInv'
<1>c. ChainInv
  BY DEF Inv
<1>1. CASE ~Link(t)
  BY <1>c, <1>1, NotLinking DEF ChainInv
<1>2. CASE Link(t)
  <2> DEFINE b == Bucket(t)
             e == cell[t]
             s == chain[b]
             r == Append(s, e)
  <2>1. /\ b \in Buckets /\ e \in Entries /\ e \notin DOMAIN key /\ hashIndex(want[t]) = b
        /\ DOMAIN key' = DOMAIN key \cup {e} /\ key'[e] = want[t]
        /\ \A f \in DOMAIN key : key'[f] = key[f]
        /\ chain'[b] = r /\ \A a \in Buckets \ {b} : chain'[a] = chain[a]
    BY <1>2, Linking DEF Bucket
  <2>2. s \in Seq(Entries)
    BY <2>1 DEF Inv, TypeOK
  <2>3. /\ Len(s) \in Nat /\ Len(r) = Len(s) + 1 /\ r[Len(r)] = e /\ Len(r) \in 1..Len(r)
        /\ \A i \in 1..Len(s) : i \in 1..Len(r) /\ r[i] = s[i] /\ i # Len(r)
        /\ \A i \in 1..Len(r) : i \in 1..Len(s) \/ i = Len(r)
    BY <2>1, <2>2, Inserted
  <2>4. \A i \in 1..Len(s) : s[i] \in DOMAIN key /\ hashIndex(key[s[i]]) = b
    BY <1>c, <2>1 DEF ChainInv
  <2> HIDE DEF b, e, s, r
  <2>5. \A a \in Buckets : \A i \in 1..Len(chain'[a]) :
          chain'[a][i] \in DOMAIN key' /\ hashIndex(key'[chain'[a][i]]) = a
    <3> SUFFICES ASSUME NEW a \in Buckets, NEW i \in 1..Len(chain'[a])
                 PROVE  chain'[a][i] \in DOMAIN key' /\ hashIndex(key'[chain'[a][i]]) = a
      OBVIOUS
    <3>1. CASE a # b
      BY <1>c, <2>1, <3>1 DEF ChainInv
    <3>2. CASE a = b
      BY <2>1, <2>3, <2>4, <3>2
    <3> QED
      BY <3>1, <3>2
  <2>6. \A a \in Buckets : \A i, j \in 1..Len(chain'[a]) : chain'[a][i] = chain'[a][j] => i = j
    <3> SUFFICES ASSUME NEW a \in Buckets, NEW i \in 1..Len(chain'[a]), NEW j \in 1..Len(chain'[a]),
                        chain'[a][i] = chain'[a][j]
                 PROVE  i = j
      OBVIOUS
    <3>1. CASE a # b
      BY <1>c, <2>1, <3>1 DEF ChainInv
    <3>2. CASE a = b
      <4>1. \A m, n \in 1..Len(s) : s[m] = s[n] => m = n
        BY <1>c, <2>1 DEF ChainInv, s
      <4> QED
        BY <2>1, <2>3, <2>4, <3>2, <4>1
    <3> QED
      BY <3>1, <3>2
  <2>7. \A f \in DOMAIN key' : \E i \in 1..Len(chain'[hashIndex(key'[f])]) : chain'[hashIndex(key'[f])][i] = f
    <3> SUFFICES ASSUME NEW f \in DOMAIN key'
                 PROVE  \E i \in 1..Len(chain'[hashIndex(key'[f])]) : chain'[hashIndex(key'[f])][i] = f
      OBVIOUS
    <3>1. CASE f = e
      BY <2>1, <2>3, <3>1
    <3>2. CASE f \in DOMAIN key
      <4> DEFINE a == hashIndex(key[f])
      <4>1. hashIndex(key'[f]) = a /\ a \in Buckets
        <5>1. key'[f] = key[f] /\ key[f] \in Keys
          BY <2>1, <3>2 DEF Inv, TypeOK
        <5> QED
          BY <5>1, Hashed
      <4>2. PICK i \in 1..Len(chain[a]) : chain[a][i] = f
        BY <1>c, <3>2 DEF ChainInv
      <4> HIDE DEF a
      <4>3. CASE a = b
        BY <2>1, <2>3, <4>1, <4>2, <4>3 DEF s
      <4>4. CASE a # b
        BY <2>1, <4>1, <4>2, <4>4
      <4> QED
        BY <4>3, <4>4
    <3> QED
      BY <2>1, <3>1, <3>2
  <2> QED
    BY <2>5, <2>6, <2>7 DEF ChainInv
<1> QED
  BY <1>1, <1>2

\* The count is that of the list, but between the two lines that lengthen it.
LEMMA CallerCount == ASSUME Inv, NEW t \in Threads, Caller(t) PROVE CountInv'
<1> USE DEF Goto
<1>o. \A u \in Threads \ {t} : pc'[u] = pc[u] /\ want'[u] = want[u] /\ Bucket(u)' = Bucket(u)
  BY OthersStay DEF Bucket
<1>c. CountInv /\ LockInv /\ TypeOK
  BY DEF Inv
<1>h. ASSUME pc[t] \in {"link", "count"}
      PROVE  \A u \in Threads \ {t} : ~(pc[u] = "count" /\ Bucket(u) = Bucket(t))
  BY <1>h, OneHolder DEF Holding
<1>1. CASE Link(t)
  <2>1. /\ Bucket(t) \in Buckets /\ pc[t] = "link" /\ pc'[t] = "count" /\ Bucket(t)' = Bucket(t)
        /\ chain'[Bucket(t)] = Append(chain[Bucket(t)], cell[t]) /\ cell[t] \in Entries /\ count' = count
        /\ \A b \in Buckets \ {Bucket(t)} : chain'[b] = chain[b]
    BY <1>1, Linking DEF Bucket, Link
  <2>2. chain[Bucket(t)] \in Seq(Entries)
    BY <1>c, <2>1 DEF TypeOK
  <2>3. Len(chain'[Bucket(t)]) = Len(chain[Bucket(t)]) + 1
    BY <2>1, <2>2, Inserted
  <2>4. count[Bucket(t)] = Len(chain[Bucket(t)])
    BY <1>c, <1>h, <2>1 DEF CountInv
  <2> QED
    BY <1>o, <1>c, <1>h, <2>1, <2>3, <2>4 DEF CountInv
<1>2. CASE Count(t)
  <2>1. pc[t] = "count" /\ pc'[t] = "total" /\ Bucket(t)' = Bucket(t) /\ chain' = chain
    BY <1>2, <1>c DEF Count, Bucket, TypeOK
  <2>2. Bucket(t) \in Buckets
    BY <2>1, Hashed DEF Inv, WantInv, Asking, Holding, Bucket
  <2>3. count'[Bucket(t)] = count[Bucket(t)] + 1 /\ \A b \in Buckets \ {Bucket(t)} : count'[b] = count[b]
    BY <1>2, <1>c, <2>2 DEF Count, TypeOK
  <2>4. count[Bucket(t)] + 1 = Len(chain[Bucket(t)])
    BY <1>c, <2>1, <2>2 DEF CountInv
  <2> QED
    BY <1>o, <1>c, <1>h, <2>1, <2>2, <2>3, <2>4 DEF CountInv
<1>3. CASE ~Link(t) /\ ~Count(t)
  <2>1. chain' = chain /\ count' = count /\ pc[t] # "count" /\ pc'[t] # "count"
    BY <1>c, <1>3 DEF TypeOK, Caller, FindOrAdd, CallStep, Lock, Found, NotFound, LockPool, Pick, Advance, Total,
                      AfterInsert, Fill, Unlock, Use, buckets
  <2> QED
    BY <1>o, <1>c, <2>1 DEF CountInv
<1> QED
  BY <1>1, <1>2, <1>3

\* What getEntry looks at in a bucket that is locked for a search.
LEMMA Searched ==
  ASSUME Inv, NEW t \in Threads, pc[t] = "search"
  PROVE  /\ want[t] \in Keys /\ hashIndex(want[t]) = Bucket(t) /\ Bucket(t) \in Buckets
         /\ chain[Bucket(t)] \in Seq(Entries)
         /\ Candidates(t) = {i \in 1..Len(chain[Bucket(t)]) : key[chain[Bucket(t)][i]] = want[t]}
<1>1. want[t] \in Keys /\ hashIndex(want[t]) = Bucket(t) /\ Bucket(t) \in Buckets
  BY Hashed DEF Inv, WantInv, Asking, Holding, Bucket
<1>2. \A u \in Threads : pc[u] = "count" => Bucket(u) # Bucket(t)
  BY OneHolder DEF Holding
<1>3. count[Bucket(t)] = Len(chain[Bucket(t)]) /\ chain[Bucket(t)] \in Seq(Entries)
  BY <1>1, <1>2 DEF Inv, CountInv, TypeOK
<1> QED
  BY <1>1, <1>3 DEF Candidates, Compared

\* It finds none only if there is none.
LEMMA NoneFound ==
  ASSUME Inv, NEW t \in Threads, NotFound(t)
  PROVE  \A e \in DOMAIN key : key[e] # want[t]
<1>1. pc[t] = "search" /\ Candidates(t) = {}
  BY DEF NotFound
<1> SUFFICES ASSUME NEW e \in DOMAIN key, key[e] = want[t] PROVE FALSE
  OBVIOUS
<1>2. \E i \in 1..Len(chain[hashIndex(key[e])]) : chain[hashIndex(key[e])][i] = e
  BY DEF Inv, ChainInv
<1>3. hashIndex(key[e]) = Bucket(t)
  BY <1>1, Searched
<1>4. PICK i \in 1..Len(chain[Bucket(t)]) : chain[Bucket(t)][i] = e
  BY <1>2, <1>3
<1>5. i \in Candidates(t)
  BY <1>1, <1>4, Searched
<1> QED
  BY <1>1, <1>5

\* What it finds is the first entry with the key.
LEMMA FirstFound ==
  ASSUME Inv, NEW t \in Threads, Found(t)
  PROVE  \E e \in DOMAIN key : key[e] = want[t] /\ Leads(e) /\ cell' = [cell EXCEPT ![t] = e]
<1>1. pc[t] = "search"
  BY DEF Found
<1>2. PICK i \in Candidates(t) : (\A j \in Candidates(t) : i <= j) /\ cell' = [cell EXCEPT ![t] = chain[Bucket(t)][i]]
  BY DEF Found
<1> DEFINE s == chain[Bucket(t)]
<1>3. /\ want[t] \in Keys /\ hashIndex(want[t]) = Bucket(t) /\ Bucket(t) \in Buckets /\ s \in Seq(Entries)
      /\ Candidates(t) = {j \in 1..Len(s) : key[s[j]] = want[t]}
  BY <1>1, Searched
<1>4. s[i] \in DOMAIN key
  BY <1>2, <1>3 DEF Inv, ChainInv
<1> HIDE DEF s
<1>5. i \in 1..Len(s) /\ Len(s) \in Nat /\ DOMAIN s = 1..Len(s) /\ key[s[i]] = want[t]
  BY <1>2, <1>3
<1>6. \A j \in 1..(i - 1) : key[s[j]] # key[s[i]]
  <2> SUFFICES ASSUME NEW j \in 1..(i - 1), key[s[j]] = want[t] PROVE FALSE
    BY <1>5
  <2>1. j \in 1..Len(s) /\ j < i
    BY <1>5
  <2>2. j \in Candidates(t)
    BY <1>3, <2>1
  <2>3. i <= j
    BY <1>2, <2>2
  <2> QED
    BY <1>5, <2>1, <2>3
<1>7. chain[hashIndex(key[s[i]])] = s
  BY <1>3, <1>5 DEF s
<1>8. Leads(s[i])
  BY <1>5, <1>6, <1>7 DEF Leads
<1> QED
  BY <1>2, <1>4, <1>5, <1>8 DEF s

\* The lines left of the history file become fewer only.
LEMMA NoMoreLines == ASSUME NEW t \in Threads, Caller(t), toLoad = <<>> PROVE toLoad' = <<>>
BY DEF Caller, FindOrAdd, CallStep, Lock, Found, NotFound, LockPool, Pick, Advance, Link, Count, Total, Fill,
       Unlock, Use

\* While lines are left, only Main moves; and only its unlock takes one off.
LEMMA Loading ==
  ASSUME Inv, NEW t \in Threads, Caller(t), toLoad # <<>>
  PROVE  /\ t = Main /\ want[Main] = toLoad[1] /\ 1 \in 1..Len(toLoad)
         /\ ~FindOrAdd(t) /\ ~Found(t) /\ ~NotFound(t) /\ ~Fill(t) /\ ~Use(t)
         /\ ~Unlock(t) => toLoad' = toLoad
<1>1. ~FindOrAdd(t) /\ pc[t] # "idle" /\ (~Unlock(t) => toLoad' = toLoad)
  BY DEF Caller, FindOrAdd, CallStep, Lock, Found, NotFound, LockPool, Pick, Advance, Link, Count, Total, Fill,
         Unlock, Use
<1>2. t = Main /\ want[Main] = toLoad[1] /\ pc[Main] \notin {"search", "fill", "use"}
  BY <1>1 DEF Inv, LoadInv
<1> QED
  BY <1>1, <1>2, First DEF Inv, TypeOK, Found, NotFound, Fill, Use

\* When the last line is in the map, everybody is idle.
LEMMA LastLine ==
  ASSUME Inv, NEW t \in Threads, Caller(t), toLoad # <<>>, toLoad' = <<>>
  PROVE  Unlock(t) /\ \A u \in Threads : pc'[u] = "idle"
<1>1. t = Main /\ Unlock(t)
  BY Loading
<1>2. pc'[t] = "idle" /\ \A u \in Threads \ {t} : pc'[u] = pc[u]
  BY <1>1, OthersStay DEF Unlock, Goto, Inv, TypeOK
<1> QED
  BY <1>1, <1>2 DEF Inv, LoadInv

\* Who makes an entry for a caller does so for a call stack without one.
LEMMA CallerNew == ASSUME Inv, NEW t \in Threads, Caller(t) PROVE NewInv'
<1> USE DEF Goto
<1> DEFINE Making == {"pool", "pick", "advance", "link"}
<1>o. \A u \in Threads \ {t} : pc'[u] = pc[u] /\ want'[u] = want[u]
  BY OthersStay
<1>c. NewInv /\ TypeOK
  BY DEF Inv
<1>0. CASE toLoad # <<>>
  BY <1>0, LastLine DEF NewInv
<1>1. CASE toLoad = <<>> /\ Link(t)
  <2>1. /\ pc[t] = "link" /\ pc'[t] = "count" /\ DOMAIN key' = DOMAIN key \cup {cell[t]} /\ key'[cell[t]] = want[t]
        /\ \A e \in DOMAIN key : key'[e] = key[e]
    BY <1>1, Linking
  <2>2. \A u \in Threads \ {t} : pc[u] \in Making => want[u] # want[t]
    BY <2>1, OneHolder DEF Holding, Bucket
  <2> QED
    BY <1>o, <1>c, <1>1, <2>1, <2>2 DEF NewInv
<1>2. CASE toLoad = <<>> /\ ~Link(t)
  <2>k. key' = key
    BY <1>2, NotLinking
  <2>1. CASE NotFound(t)
    <3>1. want' = want
      BY <2>1 DEF NotFound
    <3>2. \A e \in DOMAIN key : key[e] # want[t]
      BY <2>1, NoneFound
    <3> QED
      BY <1>o, <1>c, <1>2, <2>k, <3>1, <3>2 DEF NewInv
  <2>2. CASE ~NotFound(t)
    <3>1. pc'[t] \in Making => pc[t] \in Making /\ want'[t] = want[t]
      BY <1>2, <1>c, <2>2 DEF TypeOK, Caller, FindOrAdd, CallStep, Lock, Found, LockPool, Pick, Advance, Count,
                              Total, AfterInsert, Fill, Unlock, Use
    <3> QED
      BY <1>o, <1>c, <1>2, <2>k, <3>1 DEF NewInv
  <2> QED
    BY <2>1, <2>2
<1> QED
  BY <1>0, <1>1, <1>2

\* An entry is the first with its key if no entry before it in its list has the same.
LEMMA Leading ==
  ASSUME Inv, NEW b \in Buckets, NEW i \in 1..Len(chain[b])
  PROVE  Leads(chain[b][i]) <=> \A j \in 1..(i - 1) : key[chain[b][j]] # key[chain[b][i]]
<1> DEFINE s == chain[b]
<1>1. s \in Seq(Entries) /\ hashIndex(key[s[i]]) = b /\ \A m, n \in 1..Len(s) : s[m] = s[n] => m = n
  BY DEF Inv, TypeOK, ChainInv
<1>2. chain[hashIndex(key[s[i]])] = s
  BY <1>1
<1>3. DOMAIN s = 1..Len(s)
  BY <1>1
<1> HIDE DEF s
<1>4. Leads(s[i]) <=> \E n \in 1..Len(s) : s[n] = s[i] /\ \A j \in 1..(n - 1) : key[s[j]] # key[s[i]]
  BY <1>2, <1>3 DEF Leads
<1>5. i \in 1..Len(s)
  BY DEF s
<1>6. Leads(s[i]) <=> \A j \in 1..(i - 1) : key[s[j]] # key[s[i]]
  BY <1>1, <1>4, <1>5
<1> QED
  BY <1>6 DEF s

\* An entry's place.
LEMMA Placed ==
  ASSUME Inv, NEW e \in DOMAIN key
  PROVE  /\ key[e] \in Keys /\ hashIndex(key[e]) \in Buckets
         /\ \E i \in 1..Len(chain[hashIndex(key[e])]) : chain[hashIndex(key[e])][i] = e
<1>1. key[e] \in Keys
  BY DEF Inv, TypeOK
<1> QED
  BY <1>1, Hashed DEF Inv, ChainInv

\* Inserting at the tail changes nothing of who is first.
LEMMA LeadsStay ==
  ASSUME Inv, NEW t \in Threads, Caller(t), NEW e \in DOMAIN key
  PROVE  Leads(e)' <=> Leads(e)
<1>1. CASE ~Link(t)
  BY <1>1, NotLinking DEF Leads
<1>2. CASE Link(t)
  <2>l. /\ Bucket(t) \in Buckets /\ cell[t] \in Entries /\ cell[t] \notin DOMAIN key
        /\ \A f \in DOMAIN key : key'[f] = key[f]
        /\ chain'[Bucket(t)] = Append(chain[Bucket(t)], cell[t])
        /\ \A a \in Buckets \ {Bucket(t)} : chain'[a] = chain[a]
    BY <1>2, Linking
  <2>1. PICK b \in Buckets : b = hashIndex(key[e])
    BY Placed
  <2>2. PICK s \in Seq(Entries) : s = chain[b]
    BY DEF Inv, TypeOK
  <2>3. Len(s) \in Nat /\ DOMAIN s = 1..Len(s) /\ \A i \in 1..Len(s) : s[i] \in DOMAIN key
    BY <2>2 DEF Inv, ChainInv
  <2>4. key'[e] = key[e]
    BY <2>l
  <2>5. Leads(e) <=> \E i \in 1..Len(s) : s[i] = e /\ \A j \in 1..(i - 1) : key[s[j]] # key[e]
    BY <2>1, <2>2, <2>3 DEF Leads
  <2>6. CASE b # Bucket(t)
    <3>1. chain'[hashIndex(key'[e])] = s
      BY <2>l, <2>1, <2>2, <2>4, <2>6
    <3>2. Leads(e)' <=> \E i \in 1..Len(s) : s[i] = e /\ \A j \in 1..(i - 1) : key'[s[j]] # key'[e]
      BY <2>3, <3>1 DEF Leads
    <3>3. \A i \in 1..Len(s) : \A j \in 1..(i - 1) : j \in 1..Len(s) /\ key'[s[j]] = key[s[j]]
      BY <2>l, <2>3
    <3> QED
      BY <2>4, <2>5, <3>2, <3>3
  <2>7. CASE b = Bucket(t)
    <3>0. Append(s, cell[t]) \in Seq(Entries)
      BY <2>l, Inserted
    <3>1. PICK r \in Seq(Entries) : r = Append(s, cell[t])
      BY <3>0
    <3>2. chain'[hashIndex(key'[e])] = r
      BY <2>l, <2>1, <2>2, <2>4, <2>7, <3>1
    <3>3. /\ Len(r) \in Nat /\ DOMAIN r = 1..Len(r) /\ Len(r) = Len(s) + 1 /\ r[Len(r)] = cell[t]
          /\ \A i \in 1..Len(s) : i \in 1..Len(r) /\ r[i] = s[i]
          /\ \A i \in 1..Len(r) : i \in 1..Len(s) \/ i = Len(r)
      BY <2>l, <3>1, Inserted
    <3>4. Leads(e)' <=> \E i \in 1..Len(r) : r[i] = e /\ \A j \in 1..(i - 1) : key'[r[j]] # key'[e]
      BY <3>2, <3>3 DEF Leads
    <3>5. \A i \in 1..Len(r) : r[i] = e => i \in 1..Len(s) /\ s[i] = e
      BY <2>l, <3>3
    <3>6. \A i \in 1..Len(s) : \A j \in 1..(i - 1) : j \in 1..Len(s) /\ r[j] = s[j] /\ key'[r[j]] = key[s[j]]
      BY <2>l, <2>3, <3>3
    <3> QED
      BY <2>4, <2>5, <3>3, <3>4, <3>5, <3>6
  <2> QED
    BY <2>6, <2>7
<1> QED
  BY <1>1, <1>2

\* The new entry is the first only for a key that no other has.
LEMMA NewLeads ==
  ASSUME Inv, NEW t \in Threads, Link(t), NEW c, c = cell[t]
  PROVE  Leads(c)' <=> \A e \in DOMAIN key : key[e] # want[t]
<1>l. /\ want[t] \in Keys /\ Bucket(t) \in Buckets /\ c \in Entries /\ c \notin DOMAIN key /\ key'[c] = want[t]
      /\ \A f \in DOMAIN key : key'[f] = key[f]
      /\ chain'[Bucket(t)] = Append(chain[Bucket(t)], c) /\ hashIndex(want[t]) = Bucket(t)
  BY Linking DEF Bucket
<1>1. PICK s \in Seq(Entries) : s = chain[Bucket(t)]
  BY <1>l DEF Inv, TypeOK
<1>a. Append(s, c) \in Seq(Entries)
  BY <1>l, Inserted
<1>2. PICK r \in Seq(Entries) : r = Append(s, c)
  BY <1>a
<1>3. /\ Len(s) \in Nat /\ Len(r) \in Nat /\ DOMAIN r = 1..Len(r) /\ Len(r) = Len(s) + 1 /\ r[Len(r)] = c
      /\ \A i \in 1..Len(s) : i \in 1..Len(r) /\ r[i] = s[i]
      /\ \A i \in 1..Len(r) : i \in 1..Len(s) \/ i = Len(r)
  BY <1>l, <1>2, Inserted
<1>4. \A i \in 1..Len(s) : s[i] \in DOMAIN key
  BY <1>l, <1>1 DEF Inv, ChainInv
<1>5. chain'[hashIndex(key'[c])] = r
  BY <1>l, <1>1, <1>2
<1>6. Leads(c)' <=> \E i \in 1..Len(r) : r[i] = c /\ \A j \in 1..(i - 1) : key'[r[j]] # want[t]
  <2>1. Leads(c)' <=> \E i \in DOMAIN r : r[i] = c /\ \A j \in 1..(i - 1) : key'[r[j]] # key'[c]
    BY <1>5 DEF Leads
  <2>2. DOMAIN r = 1..Len(r)
    BY <1>3
  <2>3. key'[c] = want[t]
    BY <1>l
  <2> QED
    BY ONLY <2>1, <2>2, <2>3, Zenon
<1>7. \A i \in 1..Len(r) : r[i] = c <=> i = Len(r)
  BY <1>l, <1>3, <1>4
<1>8. Leads(c)' <=> \A j \in 1..Len(s) : key[s[j]] # want[t]
  <2>1. Len(r) \in 1..Len(r) /\ Len(r) - 1 = Len(s)
    BY <1>3
  <2>2. \A j \in 1..Len(s) : key'[r[j]] = key[s[j]]
    BY <1>l, <1>3, <1>4
  <2> QED
    BY <1>6, <1>7, <2>1, <2>2
<1>9. ASSUME NEW e \in DOMAIN key, key[e] = want[t] PROVE \E j \in 1..Len(s) : s[j] = e
  BY <1>l, <1>1, <1>9, Placed
<1> QED
  BY <1>4, <1>8, <1>9

\* Entries keep their call stacks.
LEMMA CallerKey ==
  ASSUME Inv, NEW t \in Threads, Caller(t)
  PROVE  \A e \in DOMAIN key : e \in DOMAIN key' /\ key'[e] = key[e]
BY Linking, NotLinking

\* The entry in hand is that of the call stack.
LEMMA CallerCell == ASSUME Inv, NEW t \in Threads, Caller(t) PROVE CellInv'
<1> USE DEF Goto
<1> DEFINE Having == Filling \cup {"unlock"}
<1>o. \A u \in Threads \ {t} : pc'[u] = pc[u] /\ want'[u] = want[u] /\ cell'[u] = cell[u] /\ answer'[u] = answer[u]
  BY OthersStay
<1>c. CellInv /\ TypeOK /\ StatsInv
  BY DEF Inv
<1>k. \A e \in DOMAIN key : e \in DOMAIN key' /\ key'[e] = key[e] /\ (Leads(e) => Leads(e)')
  BY CallerKey, LeadsStay
<1>l. toLoad' = <<>> => toLoad = <<>> \/ \A u \in Threads : pc'[u] = "idle"
  BY LastLine
\* What becomes of an entry in hand.
<1>h. ASSUME NEW u \in Threads, pc[u] \in Having, want'[u] = want[u], cell'[u] = cell[u], pc'[u] \in Having
      PROVE  /\ cell'[u] \in DOMAIN key' /\ key'[cell'[u]] = want'[u]
             /\ toLoad' = <<>> => Leads(cell[u])'
  <2>1. PICK c \in DOMAIN key : c = cell[u] /\ key[c] = want[u]
    BY <1>c, <1>h DEF CellInv
  <2>2. toLoad' = <<>> => Leads(c)
    <3>1. toLoad' = <<>> => toLoad = <<>>
      BY <1>l, <1>h DEF Filling
    <3> QED
      BY <1>c, <1>h, <2>1, <3>1 DEF CellInv
  <2>3. Leads(c)' => Leads(cell[u])'
    BY <1>h, <2>1 DEF Leads
  <2> QED
    BY <1>k, <1>h, <2>1, <2>2, <2>3
\* What becomes of an entry that was given.
<1>g. ASSUME NEW u \in Threads, answer'[u] = answer[u], answer'[u] # NoEntry
      PROVE  Leads(answer[u])'
  <2>1. PICK c \in DOMAIN key : c = answer[u] /\ Leads(c)
    BY <1>c, <1>g DEF CellInv, StatsInv
  <2>2. Leads(c)' => Leads(answer[u])'
    BY <1>g, <2>1 DEF Leads
  <2> QED
    BY <1>k, <2>1, <2>2
<1>1. ASSUME NEW u \in Threads, pc'[u] \in Having
      PROVE  /\ cell'[u] \in DOMAIN key' /\ key'[cell'[u]] = want'[u]
             /\ toLoad' = <<>> => Leads(cell[u])'
  <2>1. CASE u # t
    BY <1>o, <1>h, <1>1, <2>1
  <2>2. CASE u = t /\ Link(t)
    <3>1. PICK c \in Entries : c = cell[t]
      BY <2>2, Linking
    <3>2. cell'[t] = c /\ c \in DOMAIN key' /\ key'[c] = want[t] /\ want' = want /\ toLoad' = toLoad
      BY <2>2, <3>1, Linking DEF Link
    <3>3. toLoad = <<>> => \A e \in DOMAIN key : key[e] # want[t]
      BY <2>2 DEF Inv, NewInv, Link
    <3>4. toLoad = <<>> => Leads(c)'
      BY <2>2, <3>1, <3>3, NewLeads
    <3>5. Leads(c)' => Leads(cell[t])'
      BY <3>2 DEF Leads
    <3> QED
      BY <2>2, <3>2, <3>4, <3>5
  <2>3. CASE u = t /\ Found(t)
    <3>1. PICK e \in DOMAIN key : key[e] = want[t] /\ Leads(e) /\ cell' = [cell EXCEPT ![t] = e]
      BY <2>3, FirstFound
    <3>2. cell'[t] = e /\ want' = want
      BY <2>3, <1>c, <3>1 DEF Found, TypeOK
    <3>3. Leads(e)' => Leads(cell[t])'
      BY <3>2 DEF Leads
    <3> QED
      BY <1>k, <2>3, <3>1, <3>2, <3>3
  <2>4. CASE u = t /\ ~Link(t) /\ ~Found(t)
    <3>1. pc[t] \in Having /\ want'[t] = want[t] /\ cell'[t] = cell[t]
      BY <1>1, <2>4, <1>c DEF TypeOK, Filling, Caller, FindOrAdd, CallStep, Lock, NotFound, LockPool, Pick, Advance,
                              Count, Total, AfterInsert, Fill, Unlock, Use
    <3> QED
      BY <1>h, <1>1, <2>4, <3>1
  <2> QED
    BY <2>1, <2>2, <2>3, <2>4
<1>2. ASSUME NEW u \in Threads, answer'[u] # NoEntry
      PROVE  Leads(answer[u])'
  <2>1. CASE answer'[u] = answer[u]
    BY <1>g, <1>2, <2>1
  <2>2. CASE answer'[u] # answer[u]
    <3>1. Unlock(t) /\ u = t /\ toLoad = <<>> /\ pc[t] = "unlock" /\ answer'[t] = cell[t]
      <4>1. u = t
        BY <1>o, <2>2
      <4>2. Unlock(t)
        BY <2>2 DEF Caller, FindOrAdd, CallStep, Lock, Found, NotFound, LockPool, Pick, Advance, Link, Count, Total,
                    Fill, Use
      <4> QED
        BY <1>c, <2>2, <4>1, <4>2 DEF Unlock, TypeOK
    <3>2. PICK c \in DOMAIN key : c = cell[t] /\ Leads(c)
      BY <1>c, <3>1 DEF CellInv
    <3>3. Leads(c)' => Leads(answer[u])'
      BY <3>1, <3>2 DEF Leads
    <3> QED
      BY <1>k, <3>2, <3>3
  <2> QED
    BY <2>1, <2>2
<1> QED
  BY <1>1, <1>2 DEF CellInv

\* While lines are left, the others wait.
LEMMA CallerLoad == ASSUME Inv, NEW t \in Threads, Caller(t) PROVE LoadInv'
<1> USE DEF Goto
<1>o. \A u \in Threads \ {t} : pc'[u] = pc[u] /\ answer'[u] = answer[u]
  BY OthersStay
<1>c. LoadInv /\ TypeOK /\ Main \in Threads
  BY ThreadsAssumption DEF Inv
<1>0. CASE toLoad = <<>>
  BY <1>0, NoMoreLines DEF LoadInv
<1>1. CASE toLoad # <<>>
  <2>l. /\ t = Main /\ want[t] = toLoad[1] /\ ~FindOrAdd(t) /\ ~Found(t) /\ ~NotFound(t) /\ ~Fill(t) /\ ~Use(t)
        /\ ~Unlock(t) => toLoad' = toLoad
    BY <1>1, Loading
  <2>1. CASE Unlock(t)
    <3>1. pc'[t] = "idle" /\ key' = key /\ stats' = stats /\ answer' = answer
      BY <1>1, <1>c, <2>1 DEF Unlock, content, TypeOK
    <3> QED
      BY <1>1, <1>c, <1>o, <2>l, <3>1 DEF LoadInv
  <2>2. CASE Link(t)
    <3>1. /\ pc'[t] = "count" /\ DOMAIN key' = DOMAIN key \cup {cell[t]} /\ answer' = answer
          /\ \A e \in DOMAIN key : stats'[e] = stats[e]
          /\ stats'[cell[t]] = "learned" /\ want' = want /\ toLoad' = toLoad
      BY <1>1, <2>2, Linking DEF Link
    <3> QED
      BY <1>1, <1>c, <1>o, <2>l, <3>1 DEF LoadInv
  <2>3. CASE ~Unlock(t) /\ ~Link(t)
    <3>1. toLoad' = toLoad /\ key' = key /\ stats' = stats /\ want' = want /\ answer' = answer
      BY <2>l, <2>3 DEF Caller, CallStep, Lock, LockPool, Pick, Advance, Count, Total, content
    <3>2. pc'[t] \in PcValues \ {"search", "fill", "use"}
      BY <1>1, <1>c, <2>l, <2>3 DEF Caller, CallStep, Lock, LockPool, Pick, Advance, Count, Total, AfterInsert,
                                    TypeOK, PcValues
    <3>3. pc[t] # "idle"
      BY <2>l, <2>3 DEF Caller, CallStep, Lock, LockPool, Pick, Advance, Count, Total
    <3> QED
      BY <1>1, <1>c, <1>o, <2>l, <3>1, <3>2, <3>3 DEF LoadInv
  <2> QED
    BY <2>1, <2>2, <2>3
<1> QED
  BY <1>0, <1>1

\* The entry in a thread's hand is nobody else's.
LEMMA OneCell ==
  ASSUME Inv, NEW t \in Threads, NEW u \in Threads, pc[t] \in Filling \cup {"unlock"},
         pc[u] \in Filling \cup {"unlock"}, cell[t] = cell[u]
  PROVE  t = u
<1>1. want[t] = want[u]
  BY DEF Inv, CellInv
<1> QED
  BY <1>1, OneHolder DEF Bucket, Holding, Filling

\* Only the thread that makes an entry has it in hand while its statistics are raw.
LEMMA CallerStats == ASSUME Inv, NEW t \in Threads, Caller(t) PROVE StatsInv'
<1> USE DEF Goto
<1>o. \A u \in Threads \ {t} : pc'[u] = pc[u] /\ cell'[u] = cell[u] /\ answer'[u] = answer[u]
  BY OthersStay
<1>c. StatsInv /\ CellInv /\ TypeOK
  BY DEF Inv
<1>k. \A e \in DOMAIN key : e \in DOMAIN key'
  BY CallerKey
<1>n. NoEntry \notin DOMAIN key
  BY <1>c, NoEntryIsNone DEF TypeOK
<1>l. \A u \in Threads \ {t} : pc[u] # "idle" /\ toLoad' = <<>> => toLoad = <<>>
  BY Loading DEF Inv, LoadInv
<1>1. CASE Link(t)
  <2>1. /\ pc[t] = "link" /\ pc'[t] = "count" /\ cell' = cell /\ answer' = answer /\ toLoad' = toLoad
        /\ cell[t] \notin DOMAIN key /\ DOMAIN key' = DOMAIN key \cup {cell[t]}
        /\ \A e \in DOMAIN key : stats'[e] = stats[e]
        /\ stats'[cell[t]] = IF toLoad = <<>> THEN "raw" ELSE "learned"
    BY <1>1, Linking DEF Link
  <2>2. ASSUME NEW e \in DOMAIN key', stats'[e] = "raw" PROVE \E u \in Threads : pc'[u] \in Filling /\ cell'[u] = e
    <3>1. CASE e = cell[t]
      BY <2>1, <3>1 DEF Filling
    <3>2. CASE e # cell[t]
      <4>1. PICK u \in Threads : pc[u] \in Filling /\ cell[u] = e
        BY <1>c, <2>1, <2>2, <3>2 DEF StatsInv
      <4>2. u # t
        BY <2>1, <4>1 DEF Filling
      <4> QED
        BY <1>o, <2>1, <4>1, <4>2
    <3> QED
      BY <3>1, <3>2
  <2>3. ASSUME NEW u \in Threads
        PROVE  /\ pc'[u] \in Filling /\ toLoad' = <<>> => stats'[cell'[u]] = "raw"
               /\ pc'[u] = "unlock" => stats'[cell'[u]] # "raw"
               /\ answer'[u] # NoEntry => answer'[u] \in DOMAIN key' /\ stats'[answer'[u]] # "raw"
               /\ pc'[u] = "use" => answer'[u] # NoEntry
    <3>1. CASE u = t
      BY <1>c, <2>1, <3>1 DEF StatsInv
    <3>2. CASE u # t
      BY <1>o, <1>c, <2>1, <3>2 DEF StatsInv, CellInv
    <3> QED
      BY <3>1, <3>2
  <2> QED
    BY <2>2, <2>3 DEF StatsInv
<1>2. CASE Found(t)
  <2>1. PICK e \in DOMAIN key : key[e] = want[t] /\ cell' = [cell EXCEPT ![t] = e]
    BY <1>2, FirstFound
  <2>2. /\ cell'[t] = e /\ pc[t] = "search" /\ pc'[t] = "unlock"
        /\ key' = key /\ stats' = stats /\ answer' = answer /\ toLoad' = toLoad
    BY <1>2, <1>c, <2>1 DEF Found, TypeOK, content
  <2>3. stats[e] # "raw"
    <3> SUFFICES ASSUME stats[e] = "raw" PROVE FALSE
      OBVIOUS
    <3>1. PICK u \in Threads : pc[u] \in Filling /\ cell[u] = e
      BY <1>c, <2>2 DEF StatsInv
    <3>2. key[cell[u]] = want[u]
      BY <1>c, <3>1 DEF CellInv
    <3>3. Bucket(u) = Bucket(t)
      BY <2>1, <3>1, <3>2 DEF Bucket
    <3>4. u = t
      BY <2>2, <3>1, <3>3, OneHolder DEF Holding, Filling
    <3> QED
      BY <2>2, <3>1, <3>4 DEF Filling
  <2>4. \A u \in Threads : pc'[u] \in Filling <=> pc[u] \in Filling
    BY <1>o, <2>2 DEF Filling
  <2> QED
    BY <1>o, <1>c, <2>2, <2>3, <2>4 DEF StatsInv, Filling
<1>3. CASE Total(t)
  <2>1. /\ pc[t] = "total" /\ cell' = cell /\ answer' = answer /\ key' = key /\ stats' = stats /\ toLoad' = toLoad
        /\ pc'[t] = IF toLoad = <<>> THEN "fill" ELSE "unlock"
    BY <1>3, <1>c DEF Total, AfterInsert, content, TypeOK
  <2>2. toLoad # <<>> => \A e \in DOMAIN key : stats[e] # "raw"
    BY DEF Inv, LoadInv
  <2>3. cell[t] \in DOMAIN key
    BY <1>c, <2>1 DEF CellInv, Filling
  <2> QED
    BY <1>o, <1>c, <2>1, <2>2, <2>3 DEF StatsInv, Filling
<1>4. CASE Fill(t)
  <2>1. /\ pc[t] = "fill" /\ pc'[t] = "unlock" /\ cell' = cell /\ answer' = answer /\ key' = key /\ toLoad' = toLoad
        /\ cell[t] \in DOMAIN key
    BY <1>4, <1>c DEF Fill, CellInv, TypeOK, Filling
  <2>2. stats'[cell[t]] = "fresh" /\ \A e \in DOMAIN key \ {cell[t]} : stats'[e] = stats[e]
    BY <1>4, <1>c, <2>1 DEF Fill, TypeOK
  <2>3. \A u \in Threads \ {t} : pc[u] \in Filling \cup {"unlock"} => cell[u] # cell[t] /\ cell[u] \in DOMAIN key
    BY <1>c, <2>1, OneCell DEF Filling, CellInv
  <2>4. \A u \in Threads : answer[u] # NoEntry => stats'[answer[u]] # "raw"
    BY <1>c, <2>2 DEF StatsInv
  <2>5. ASSUME NEW e \in DOMAIN key', stats'[e] = "raw" PROVE \E u \in Threads : pc'[u] \in Filling /\ cell'[u] = e
    <3>1. e \in DOMAIN key /\ e # cell[t] /\ stats[e] = "raw"
      BY <2>1, <2>2, <2>5
    <3>2. PICK u \in Threads : pc[u] \in Filling /\ cell[u] = e
      BY <1>c, <3>1 DEF StatsInv
    <3> QED
      BY <1>o, <3>1, <3>2
  <2>6. ASSUME NEW u \in Threads
        PROVE  /\ pc'[u] \in Filling /\ toLoad' = <<>> => stats'[cell'[u]] = "raw"
               /\ pc'[u] = "unlock" => stats'[cell'[u]] # "raw"
               /\ answer'[u] # NoEntry => answer'[u] \in DOMAIN key' /\ stats'[answer'[u]] # "raw"
               /\ pc'[u] = "use" => answer'[u] # NoEntry
    <3>1. answer'[u] # NoEntry => answer'[u] \in DOMAIN key' /\ stats'[answer'[u]] # "raw"
      BY <1>c, <2>1, <2>4 DEF StatsInv
    <3>2. CASE u = t
      BY <2>1, <2>2, <3>1, <3>2 DEF Filling
    <3>3. CASE u # t
      BY <1>o, <1>c, <2>1, <2>2, <2>3, <3>1, <3>3 DEF StatsInv
    <3> QED
      BY <3>2, <3>3
  <2> QED
    BY <2>5, <2>6 DEF StatsInv
<1>5. CASE Unlock(t)
  <2>1. /\ pc[t] = "unlock" /\ key' = key /\ stats' = stats /\ cell[t] \in DOMAIN key
        /\ (pc'[t] = "use" /\ answer'[t] = cell[t]) \/ (pc'[t] = "idle" /\ answer'[t] = answer[t])
    BY <1>5, <1>c DEF Unlock, CellInv, TypeOK, content
  <2>2. \A u \in Threads : pc'[u] \in Filling <=> pc[u] \in Filling /\ u # t
    BY <1>o, <2>1 DEF Filling
  <2> QED
    BY <1>o, <1>c, <1>l, <1>n, <2>1, <2>2 DEF StatsInv, Filling
<1>6. CASE Use(t)
  <2>1. pc[t] = "use" /\ pc'[t] = "idle" /\ cell' = cell /\ answer' = answer /\ key' = key /\ toLoad' = toLoad
    BY <1>6, <1>c DEF Use, TypeOK
  <2>2. answer[t] \in DOMAIN key /\ stats[answer[t]] # "raw"
    BY <1>c, <2>1 DEF StatsInv
  <2>3. stats'[answer[t]] = "learned" /\ \A e \in DOMAIN key \ {answer[t]} : stats'[e] = stats[e]
    BY <1>6, <1>c, <2>2 DEF Use, TypeOK
  <2>4. \A e \in DOMAIN key : stats'[e] = "raw" <=> stats[e] = "raw"
    BY <2>2, <2>3
  <2> QED
    BY <1>o, <1>c, <2>1, <2>4 DEF StatsInv, Filling, CellInv
<1>7. CASE ~Link(t) /\ ~Found(t) /\ ~Total(t) /\ ~Fill(t) /\ ~Unlock(t) /\ ~Use(t)
  <2>1. /\ key' = key /\ stats' = stats /\ answer' = answer /\ toLoad' = toLoad
        /\ pc'[t] \in Filling <=> pc[t] \in Filling
        /\ pc'[t] \in Filling => cell'[t] = cell[t]
        /\ pc'[t] \notin {"unlock", "use"}
    BY <1>7, <1>c DEF TypeOK, Filling, Caller, FindOrAdd, CallStep, Lock, NotFound, LockPool, Pick, Advance, Count,
                      content
  <2> QED
    BY <1>o, <1>c, <2>1 DEF StatsInv
<1> QED
  BY <1>1, <1>2, <1>3, <1>4, <1>5, <1>6, <1>7

\* The pools stay enough for the calls that are left.
LEMMA CallerBound == ASSUME Inv, NEW t \in Threads, Caller(t) PROVE BoundInv'
<1> USE DEF Goto
<1> DEFINE cutting == {"lock", "search", "pool", "pick"}
<1>o. \A u \in Threads \ {t} : pc'[u] = pc[u]
  BY OthersStay
<1>c. BoundInv /\ TypeOK /\ LoadInv
  BY DEF Inv
<1>n. /\ Cardinality(Coming) \in Nat /\ budget \in Nat /\ MaxCalls \in Nat /\ Len(History) \in Nat /\ pool \in Nat
      /\ pool' \in {pool, pool + 1} /\ Len(toLoad) \in Nat
  <2>1. Cardinality(Coming) \in Nat /\ MaxCalls \in Nat /\ Len(History) \in Nat
    BY <1>c, FS_CardinalityType, CallsAssumption, HistoryAssumption DEF BoundInv
  <2>2. budget \in Nat /\ pool \in Nat /\ Len(toLoad) \in Nat
    BY <1>c, <2>1 DEF TypeOK, Pools
  <2>3. pool' = pool \/ pool' = pool + 1
    BY DEF Caller, FindOrAdd, CallStep, Lock, Found, NotFound, LockPool, Pick, Advance, Link, Count, Total, Fill,
           Unlock, Use, pools
  <2> QED
    BY <2>1, <2>2, <2>3
<1>1. CASE FindOrAdd(t)
  <2>1. Coming' = Coming \cup {t} /\ t \notin Coming
    BY <1>1, <1>o, <1>c DEF FindOrAdd, Coming, TypeOK
  <2>2. IsFiniteSet(Coming') /\ Cardinality(Coming') = Cardinality(Coming) + 1
    BY <1>c, <2>1, FS_AddElement DEF BoundInv
  <2>3. toLoad = <<>> /\ toLoad' = toLoad /\ budget' = budget - 1 /\ pool' = pool
    BY <1>1 DEF FindOrAdd, pools
  <2> QED
    BY <1>c, <1>n, <2>2, <2>3 DEF BoundInv
<1>2. CASE ~FindOrAdd(t)
  <2>b. budget' = budget /\ pc[t] # "idle"
    BY <1>2 DEF Caller, CallStep, Lock, Found, NotFound, LockPool, Pick, Advance, Link, Count, Total, Fill, Unlock,
                Use
  <2>c. pc'[t] \in cutting => pc[t] \in cutting
    BY <1>2, <1>c DEF TypeOK, Caller, CallStep, Lock, Found, NotFound, LockPool, Pick, Advance, Link, Count, Total,
                      AfterInsert, Fill, Unlock, Use
  <2>d. Coming' \in {Coming, Coming \ {t}}
    <3>1. \A u \in Threads : u # t => (u \in Coming' <=> u \in Coming)
      BY <1>o DEF Coming
    <3>2. t \in Coming' => t \in Coming
      BY <2>c DEF Coming
    <3>3. Coming \subseteq Threads /\ Coming' \subseteq Threads
      BY DEF Coming
    <3> QED
      BY <3>1, <3>2, <3>3
  <2>e. /\ IsFiniteSet(Coming') /\ Cardinality(Coming') \in Nat
        /\ Cardinality(Coming') <= Cardinality(Coming)
        /\ t \in Coming /\ t \notin Coming' => Cardinality(Coming') = Cardinality(Coming) - 1
    <3>1. CASE Coming' = Coming
      BY <1>c, <1>n, <3>1 DEF BoundInv
    <3>2. CASE Coming' = Coming \ {t} /\ Coming' # Coming
      <4>1. t \in Coming
        BY <3>2
      <4>2. IsFiniteSet(Coming') /\ Cardinality(Coming') = Cardinality(Coming) - 1
        BY <1>c, <3>2, <4>1, FS_RemoveElement DEF BoundInv
      <4>3. Cardinality(Coming') \in Nat
        BY <4>2, FS_CardinalityType
      <4> QED
        BY <1>n, <4>2, <4>3
    <3> QED
      BY <2>d, <3>1, <3>2
  <2>1. CASE toLoad = <<>>
    <3>1. toLoad' = <<>>
      BY <1>2, <2>1 DEF Caller, CallStep, Lock, Found, NotFound, LockPool, Pick, Advance, Link, Count, Total, Fill,
                        Unlock, Use
    <3>2. CASE Pick(t)
      <4>1. t \in Coming /\ t \notin Coming'
        BY <1>c, <3>2 DEF Pick, Coming, TypeOK
      <4> QED
        BY <1>c, <1>n, <2>1, <2>b, <2>e, <3>1, <4>1 DEF BoundInv
    <3>3. CASE ~Pick(t)
      <4>1. pool' = pool
        BY <1>2, <3>3 DEF Caller, CallStep, Lock, Found, NotFound, LockPool, Advance, Link, Count, Total, Fill,
                          Unlock, Use, pools
      <4> QED
        BY <1>c, <1>n, <2>1, <2>b, <2>e, <3>1, <4>1 DEF BoundInv
    <3> QED
      BY <3>2, <3>3
  <2>2. CASE toLoad # <<>>
    <3> DEFINE after == {"advance", "link"} \cup Filling \cup {"unlock"}
    <3>1. t = Main /\ ~Found(t) /\ ~NotFound(t) /\ ~Fill(t) /\ ~Use(t)
      BY <2>2, Loading
    <3>2. CASE Unlock(t)
      <4>1. toLoad' = Tail(toLoad) /\ pool' = pool /\ pc[t] = "unlock" /\ pc'[t] = "idle"
        BY <1>c, <2>2, <3>2 DEF Unlock, pools, TypeOK
      <4>2. Len(toLoad') = Len(toLoad) - 1 /\ Len(toLoad') \in Nat /\ toLoad' \in Seq(Keys)
        BY <1>c, <2>2, <4>1, Rest DEF TypeOK
      <4>3. pool + Len(toLoad') <= Len(History) /\ budget = MaxCalls
        BY <1>c, <1>n, <2>2, <3>1, <4>1, <4>2 DEF BoundInv
      <4>4. CASE toLoad' = <<>>
        <5>1. Coming' = {} /\ Len(toLoad') = 0
          BY <1>c, <1>o, <2>2, <3>1, <4>1, <4>4 DEF Coming, LoadInv
        <5>2. Cardinality(Coming') = 0
          BY <5>1, FS_EmptySet
        <5> QED
          BY <1>n, <2>b, <2>e, <4>1, <4>3, <4>4, <5>1, <5>2 DEF BoundInv
      <4>5. CASE toLoad' # <<>>
        <5>1. pc'[Main] \notin after
          BY <3>1, <4>1 DEF Filling
        <5> QED
          BY <1>n, <2>b, <2>e, <4>1, <4>2, <4>3, <4>5, <5>1 DEF BoundInv
      <4> QED
        BY <4>4, <4>5
    <3>3. CASE Pick(t)
      <4>1. toLoad' = toLoad /\ pc[Main] \notin after /\ pc'[Main] \in after
        BY <1>c, <3>1, <3>3 DEF Pick, TypeOK, Filling
      <4> QED
        BY <1>c, <1>n, <2>2, <2>b, <2>e, <4>1 DEF BoundInv
    <3>4. CASE ~Unlock(t) /\ ~Pick(t)
      <4>1. toLoad' = toLoad /\ pool' = pool
        BY <1>2, <3>1, <3>4 DEF Caller, CallStep, Lock, LockPool, Advance, Link, Count, Total, pools
      <4>2. pc[Main] \in after <=> pc'[Main] \in after
        BY <1>2, <1>c, <2>2, <3>1, <3>4 DEF Caller, CallStep, Lock, LockPool, Advance, Link, Count, Total,
                                            AfterInsert, TypeOK, Filling
      <4> QED
        BY <1>c, <1>n, <2>2, <2>b, <2>e, <4>1, <4>2 DEF BoundInv
    <3> QED
      BY <3>2, <3>3, <3>4
  <2> QED
    BY <2>1, <2>2
<1> QED
  BY <1>1, <1>2

-----------------------------------------------------------------------------
(* The invariant of the map *)

\* A line of the history file goes to insert.
LEMMA LoadKeeps == ASSUME Inv, Load PROVE Inv'
<1> USE DEF Goto
<1>1. /\ TypeOK /\ WantInv /\ LockInv /\ CutInv /\ ChainInv /\ CountInv /\ NewInv /\ CellInv /\ LoadInv
      /\ StatsInv /\ BoundInv /\ Main \in Threads
  BY ThreadsAssumption DEF Inv
<1>2. /\ UNCHANGED <<lock, chain, count, entrylock, pool, entryindex, totalEntry, key, stats, cell, answer, toLoad,
                     budget, saver, pos, at, owed, seen>>
      /\ pc[Main] = "idle" /\ toLoad # <<>>
      /\ want' = [want EXCEPT ![Main] = Head(toLoad)] /\ pc' = [pc EXCEPT ![Main] = "lock"]
  BY DEF Load, buckets, pools, content, walk
<1>3. Head(toLoad) = toLoad[1] /\ toLoad[1] \in Keys
  BY <1>1, <1>2, First DEF TypeOK
<1>4. /\ pc'[Main] = "lock" /\ want'[Main] = toLoad[1]
      /\ \A u \in Threads \ {Main} : pc'[u] = pc[u] /\ want'[u] = want[u] /\ pc[u] = "idle"
  BY <1>1, <1>2, <1>3 DEF TypeOK, LoadInv
<1>5. TypeOK'
  BY <1>1, <1>2, <1>3 DEF TypeOK, PcValues
<1>6. WantInv'
  BY <1>1, <1>3, <1>4 DEF WantInv, Asking, Holding
<1>7. LockInv'
  BY <1>1, <1>2, <1>4 DEF LockInv, Holding, Bucket
<1>8. CutInv'
  <2>1. \A e : Cut(e)' <=> Cut(e)
    BY <1>2 DEF Cut
  <2> QED
    BY <1>1, <1>2, <1>4, <2>1 DEF CutInv
<1>9. ChainInv'
  BY <1>1, <1>2 DEF ChainInv
<1>10. CountInv'
  <2>1. \A u \in Threads : pc[u] # "count" /\ pc'[u] # "count"
    BY <1>2, <1>4
  <2> QED
    BY <1>1, <1>2, <2>1 DEF CountInv
<1>11. NewInv' /\ CellInv'
  <2>1. \A e : Leads(e)' <=> Leads(e)
    BY <1>2 DEF Leads
  <2>2. CellInv'
    BY <1>1, <1>2, <1>4 DEF CellInv, Filling, Leads
  <2> QED
    BY <1>2, <2>2 DEF NewInv
<1>12. LoadInv'
  BY <1>1, <1>2, <1>4 DEF LoadInv, Filling
<1>13. StatsInv'
  BY <1>1, <1>2, <1>4 DEF StatsInv, Filling
<1>14. BoundInv'
  <2>1. Coming = {} /\ Coming' = {Main}
    BY <1>1, <1>2, <1>4 DEF Coming
  <2>2. IsFiniteSet(Coming')
    BY <2>1, FS_Singleton
  <2> QED
    BY <1>1, <1>2, <1>4, <2>2 DEF BoundInv, Filling
<1> QED
  BY <1>5, <1>6, <1>7, <1>8, <1>9, <1>10, <1>11, <1>12, <1>13, <1>14 DEF Inv

\* The map is empty at first.
LEMMA InitInv == Init => Inv /\ WalkInv
<1> SUFFICES ASSUME Init PROVE Inv /\ WalkInv
  OBVIOUS
<1> USE DEF Init
<1>a. /\ NumBuckets \in Nat /\ NumBuckets >= 1 /\ Len(History) \in Nat /\ MaxCalls \in Nat /\ Main \in Threads
      /\ NoThread \notin Threads
  BY BucketsAssumption, HistoryAssumption, CallsAssumption, ThreadsAssumption
<1>1. TypeOK
  <2>1. pool \in Pools /\ entryindex \in 0..NumBuckets /\ pos \in 0..NumBuckets
    BY <1>a DEF Pools
  <2>2. chain \in [Buckets -> Seq(Entries)] /\ toLoad \in Seq(Keys)
    BY HistoryAssumption
  <2>3. key \in [DOMAIN key -> Keys] /\ DOMAIN key \subseteq Entries /\ stats \in [DOMAIN key -> StatsValues]
    OBVIOUS
  <2> QED
    BY <1>a, <2>1, <2>2, <2>3 DEF TypeOK, PcValues, SaverValues
<1>2. WantInv /\ LockInv
  BY <1>a DEF WantInv, LockInv, Asking, Holding
<1>3. CutInv /\ ChainInv
  BY DEF CutInv, ChainInv
<1>4. CountInv /\ NewInv /\ CellInv
  BY DEF CountInv, NewInv, CellInv, Filling
<1>5. LoadInv /\ StatsInv
  BY <1>a DEF LoadInv, StatsInv, Filling
<1>6. BoundInv
  <2>1. Coming = {} /\ IsFiniteSet(Coming) /\ Cardinality(Coming) = 0
    BY FS_EmptySet DEF Coming
  <2> QED
    BY <1>a, <2>1 DEF BoundInv, Filling
<1>7. WalkInv
  BY DEF WalkInv
<1> QED
  BY <1>1, <1>2, <1>3, <1>4, <1>5, <1>6, <1>7 DEF Inv

\* A step of a thread keeps it.
LEMMA CallerKeeps == ASSUME Inv, NEW t \in Threads, Caller(t) PROVE Inv'
BY CallerType, CallerWant, CallerLock, CallerCut, CallerChain, CallerCount, CallerNew, CallerCell, CallerLoad,
   CallerStats, CallerBound DEF Inv

\* Entries that are counted are entries of the map, in the bucket of their call stack.
LEMMA CountedLinked ==
  ASSUME Inv, NEW b \in Buckets, NEW i \in 1..count[b]
  PROVE  /\ i \in 1..Len(chain[b]) /\ chain[b] \in Seq(Entries) /\ Len(chain[b]) \in Nat
         /\ chain[b][i] \in DOMAIN key /\ hashIndex(key[chain[b][i]]) = b
<1>1. chain[b] \in Seq(Entries) /\ count[b] \in Nat
  BY DEF Inv, TypeOK
<1>2. Len(chain[b]) \in Nat /\ count[b] <= Len(chain[b])
  BY <1>1 DEF Inv, CountInv
<1>3. i \in 1..Len(chain[b])
  BY <1>1, <1>2
<1> QED
  BY <1>1, <1>2, <1>3 DEF Inv, ChainInv

\* The walk keeps the types.
LEMMA WalkType == ASSUME Inv, WalkInv, SaveBegin \/ SaveStep PROVE TypeOK'
<1> USE DEF TypeOK, buckets, pools, content, callers
<1>t. TypeOK
  BY DEF Inv
<1>1. CASE SaveBegin
  <2>1. Present \subseteq Entries
    <3>1. \A b \in Buckets : count[b] \in Nat /\ count[b] <= Len(chain[b]) /\ chain[b] \in Seq(Entries)
      BY <1>t DEF Inv, CountInv
    <3>2. \A b \in Buckets : ToSet(SubSeq(chain[b], 1, count[b])) = {chain[b][i] : i \in 1..count[b]}
      BY <3>1, Prefix
    <3>3. \A b \in Buckets : \A i \in 1..count[b] : chain[b][i] \in Entries
      BY <1>t, CountedLinked
    <3> QED
      BY <3>2, <3>3 DEF Present
  <2> QED
    BY <1>t, <1>1, <2>1, BucketsAssumption DEF SaveBegin, SaverValues
<1>2. CASE Seek
  <2>1. pos' \in 0..NumBuckets
    BY <1>t, <1>2, BucketsAssumption DEF Seek, Buckets
  <2>2. at' \in Entries \cup {NoEntry}
    <3>1. CASE pos \in Buckets /\ count[pos] # 0
      <4>1. chain[pos] \in Seq(Entries) /\ count[pos] \in Nat /\ count[pos] <= Len(chain[pos])
        BY <1>t, <3>1 DEF Inv, CountInv
      <4>2. chain[pos] # <<>>
        BY <3>1, <4>1
      <4> QED
        BY <1>t, <1>2, <3>1, <4>1, <4>2, First DEF Seek
    <3>2. CASE ~(pos \in Buckets /\ count[pos] # 0)
      BY <1>t, <1>2, <3>2 DEF Seek
    <3> QED
      BY <3>1, <3>2
  <2> QED
    BY <1>t, <1>2, <2>1, <2>2 DEF Seek, SaverValues
<1>3. CASE Visit
  <2>1. at \in Entries
    BY <1>t, <1>3 DEF Visit, WalkInv
  <2> QED
    BY <1>t, <1>3, <2>1 DEF Visit, SaverValues
<1>4. CASE Step
  <2>1. pos \in Buckets /\ chain[pos] \in Seq(Entries)
    BY <1>t, <1>4 DEF Step, WalkInv
  <2>2. CASE AtTail /\ pos' = NextPos /\ saver' = "seek" /\ at' = at
    <3>1. pos' \in 0..NumBuckets
      BY <2>1, <2>2, BucketsAssumption DEF NextPos, Buckets
    <3> QED
      BY <1>t, <1>4, <2>2, <3>1 DEF Step, SaverValues
  <2>3. CASE ~AtTail /\ saver' = "visit" /\ pos' = pos
    <3>1. PICK i \in DOMAIN chain[pos] : chain[pos][i] = at /\ at' = chain[pos][i + 1]
      BY <1>4, <2>3 DEF Step
    <3>2. i \in 1..Len(chain[pos]) /\ Len(chain[pos]) \in Nat /\ i # Len(chain[pos])
      BY <2>1, <2>3, <3>1 DEF AtTail, Last
    <3>3. at' \in Entries
      BY <2>1, <3>1, <3>2
    <3> QED
      BY <1>t, <1>4, <2>3, <3>3 DEF Step, SaverValues
  <2> QED
    BY <1>4, <2>2, <2>3 DEF Step
<1> QED
  BY <1>1, <1>2, <1>3, <1>4 DEF SaveStep

\* An entry is counted in one bucket.
LEMMA OneBucket ==
  ASSUME Inv, NEW b \in Buckets, NEW i \in 1..count[b], NEW a \in Buckets, NEW j \in 1..Len(chain[a]),
         chain[b][i] = chain[a][j]
  PROVE  a = b
<1>1. hashIndex(key[chain[b][i]]) = b
  BY CountedLinked
<1>2. hashIndex(key[chain[a][j]]) = a
  BY DEF Inv, ChainInv
<1> QED
  BY <1>1, <1>2

\* An insert puts nothing into what the walk has behind it, but new entries.
LEMMA CallerWalk == ASSUME Inv, WalkInv, NEW t \in Threads, Caller(t) PROVE WalkInv'
<1>t. TypeOK /\ CountInv /\ ChainInv
  BY DEF Inv
<1>w. saver' = saver /\ pos' = pos /\ at' = at /\ owed' = owed /\ seen' = seen
  BY DEF Caller, FindOrAdd, CallStep, Lock, Found, NotFound, LockPool, Pick, Advance, Link, Count, Total, Fill,
         Unlock, Use, walk
<1>b. \A b \in Buckets : chain[b] \in Seq(Entries) /\ Len(chain[b]) \in Nat /\ count[b] \in Nat
  BY <1>t DEF TypeOK
<1>p. pos \in 0..NumBuckets /\ \A b \in 0..(pos - 1) : b \in Buckets
  BY <1>t, BucketsAssumption DEF TypeOK, Buckets
<1>a. ASSUME Link(t)
      PROVE  /\ \A i \in 1..Len(chain[Bucket(t)]) :
                  i \in 1..Len(chain'[Bucket(t)]) /\ chain'[Bucket(t)][i] = chain[Bucket(t)][i]
             /\ \A i \in 1..Len(chain'[Bucket(t)]) :
                  i \in 1..Len(chain[Bucket(t)]) \/ chain'[Bucket(t)][i] \notin DOMAIN key
  <2> DEFINE s == chain[Bucket(t)]
             r == chain'[Bucket(t)]
  <2>1. Bucket(t) \in Buckets /\ r = Append(s, cell[t]) /\ cell[t] \in Entries /\ cell[t] \notin DOMAIN key
    BY <1>a, Linking
  <2>2. s \in Seq(Entries)
    BY <1>b, <2>1
  <2> HIDE DEF s, r
  <2>3. /\ r[Len(r)] = cell[t] /\ \A i \in 1..Len(s) : i \in 1..Len(r) /\ r[i] = s[i]
        /\ \A i \in 1..Len(r) : i \in 1..Len(s) \/ i = Len(r)
    BY <2>1, <2>2, Inserted
  <2> QED
    BY <2>1, <2>3 DEF s, r
<1>1. \A b \in Buckets : \A i \in 1..Len(chain[b]) : i \in 1..Len(chain'[b]) /\ chain'[b][i] = chain[b][i]
  <2>1. CASE Link(t)
    <3> TAKE b \in Buckets
    <3>1. CASE b = Bucket(t)
      BY <1>a, <2>1, <3>1
    <3>2. CASE b # Bucket(t)
      <4>1. chain'[b] = chain[b]
        BY <1>t, <2>1, <3>2 DEF Link, TypeOK
      <4> QED
        BY <4>1
    <3> QED
      BY <3>1, <3>2
  <2>2. CASE ~Link(t)
    BY <2>2, NotLinking
  <2> QED
    BY <2>1, <2>2
<1>2. \A b \in Buckets : \A i \in 1..Len(chain'[b]) : i \in 1..Len(chain[b]) \/ chain'[b][i] \notin DOMAIN key
  <2>1. CASE Link(t)
    <3> TAKE b \in Buckets
    <3>1. CASE b = Bucket(t)
      BY <1>a, <2>1, <3>1
    <3>2. CASE b # Bucket(t)
      <4>1. chain'[b] = chain[b]
        BY <1>t, <2>1, <3>2 DEF Link, TypeOK
      <4> QED
        BY <4>1
    <3> QED
      BY <3>1, <3>2
  <2>2. CASE ~Link(t)
    BY <2>2, NotLinking
  <2> QED
    BY <2>1, <2>2
<1>3. \A b \in Buckets : \A i \in 1..count[b] : i \in 1..count'[b]
  <2>1. CASE Count(t)
    BY <1>t, <1>b, <2>1 DEF Count, TypeOK
  <2>2. CASE ~Count(t)
    BY <2>2 DEF Caller, FindOrAdd, CallStep, Lock, Found, NotFound, LockPool, Pick, Advance, Link, Total, Fill,
                Unlock, Use, buckets
  <2> QED
    BY <2>1, <2>2
<1>4. \A e \in owed : e \in DOMAIN key /\ Counted(e)'
  <2> TAKE e \in owed
  <2>1a. PICK b \in Buckets : \E i \in 1..count[b] : chain[b][i] = e
    BY DEF WalkInv, Counted
  <2>1. PICK i \in 1..count[b] : chain[b][i] = e
    BY <2>1a
  <2>2. i \in 1..Len(chain[b]) /\ e \in DOMAIN key
    BY <2>1, CountedLinked
  <2>3. i \in 1..count'[b] /\ chain'[b][i] = e
    BY <1>1, <1>3, <2>1, <2>2
  <2> QED
    BY <2>2, <2>3 DEF Counted
<1>5. \A e \in owed : Passed(e)' => Passed(e)
  BY <1>1, <1>2, <1>4, <1>p, <1>w DEF Passed
<1>6. ASSUME saver \in {"visit", "step"}
      PROVE  /\ pos \in Buckets
             /\ \E i \in 1..Len(chain'[pos]) :
                  /\ chain'[pos][i] = at
                  /\ \A j \in 1..(i - 1) : chain'[pos][j] \in owed => chain'[pos][j] \in seen
                  /\ saver = "step" => at \in seen
  <2>1. pos \in Buckets
    BY <1>6 DEF WalkInv
  <2>2. PICK i \in 1..Len(chain[pos]) :
          /\ chain[pos][i] = at
          /\ \A j \in 1..(i - 1) : chain[pos][j] \in owed => chain[pos][j] \in seen
          /\ saver = "step" => at \in seen
    BY <1>6 DEF WalkInv
  <2>3. \A j \in 1..(i - 1) : j \in 1..Len(chain[pos])
    BY <1>b, <2>1
  <2> QED
    BY <1>1, <2>1, <2>2, <2>3
<1> QED
  BY <1>w, <1>4, <1>5, <1>6 DEF WalkInv

\* The steps of the walk.
LEMMA WalkWalk == ASSUME Inv, WalkInv, SaveBegin \/ SaveStep PROVE WalkInv'
<1> USE DEF buckets, pools, content, callers
<1>t. TypeOK /\ CountInv /\ ChainInv /\ WalkInv
  BY DEF Inv
<1>b. \A b \in Buckets : /\ chain[b] \in Seq(Entries) /\ Len(chain[b]) \in Nat /\ count[b] \in Nat
                         /\ count[b] <= Len(chain[b])
  BY <1>t DEF TypeOK, CountInv
<1>p. pos \in 0..NumBuckets /\ \A b \in 0..(pos - 1) : b \in Buckets
  BY <1>t, BucketsAssumption DEF TypeOK, Buckets
<1>1. CASE SaveBegin
  <2>1. saver' = "seek" /\ pos' = 0 /\ owed' = Present /\ chain' = chain /\ count' = count
    BY <1>1 DEF SaveBegin
  <2>2. \A b \in Buckets : ToSet(SubSeq(chain[b], 1, count[b])) = {chain[b][i] : i \in 1..count[b]}
    BY <1>b, Prefix
  <2>3. \A e \in owed' : Counted(e)'
    BY <2>1, <2>2 DEF Present, Counted
  <2>4. \A e : ~Passed(e)'
    BY <2>1 DEF Passed
  <2> QED
    BY <2>1, <2>3, <2>4 DEF WalkInv
<1>2. CASE Seek
  <2>u. chain' = chain /\ count' = count /\ owed' = owed /\ seen' = seen /\ saver = "seek"
    BY <1>2 DEF Seek
  <2>c. \A e \in owed : Counted(e)'
    BY <1>t, <2>u DEF WalkInv, Counted
  <2>s. \A e \in owed : Passed(e) => e \in seen
    BY <1>t, <2>u DEF WalkInv
  <2>1. CASE pos \notin Buckets /\ saver' = "done" /\ pos' = pos
    <3>1. pos = NumBuckets
      BY <1>p, <2>1, BucketsAssumption DEF Buckets
    <3>2. \A e : Passed(e)' <=> Passed(e)
      BY <2>1, <2>u DEF Passed
    <3> QED
      BY <2>u, <2>c, <2>s, <2>1, <3>1, <3>2 DEF WalkInv
  <2>2. CASE pos \in Buckets /\ count[pos] # 0 /\ saver' = "visit" /\ at' = Head(chain[pos]) /\ pos' = pos
    <3>1. chain[pos] # <<>>
      BY <1>b, <2>2
    <3>2. 1 \in 1..Len(chain[pos]) /\ chain[pos][1] = at'
      BY <1>b, <2>2, <3>1, First
    <3>3. \A e : Passed(e)' <=> Passed(e)
      BY <2>2, <2>u DEF Passed
    <3> QED
      BY <2>u, <2>c, <2>s, <2>2, <3>2, <3>3 DEF WalkInv
  <2>3. CASE pos \in Buckets /\ count[pos] = 0 /\ pos' = pos + 1 /\ saver' = saver
    <3>1. ASSUME NEW e \in owed, Passed(e)' PROVE e \in seen
      <4>1a. PICK b \in Buckets : \E i \in 1..count[b] : chain[b][i] = e
        BY <1>t DEF WalkInv, Counted
      <4>1. PICK i \in 1..count[b] : chain[b][i] = e
        BY <4>1a
      <4>2a. PICK a \in 0..pos : \E j \in 1..Len(chain[a]) : chain[a][j] = e
        BY <1>p, <2>3, <2>u, <3>1 DEF Passed
      <4>2. PICK j \in 1..Len(chain[a]) : chain[a][j] = e
        BY <4>2a
      <4>3. a \in Buckets
        BY <1>p, <2>3, <4>2 DEF Buckets
      <4>4. a = b
        BY <4>1, <4>2, <4>3, OneBucket
      <4>5. a # pos
        BY <2>3, <4>1, <4>4
      <4>6. a \in 0..(pos - 1)
        BY <1>p, <4>2, <4>5
      <4> QED
        BY <2>s, <4>2, <4>6 DEF Passed
    <3> QED
      BY <2>u, <2>c, <2>3, <3>1 DEF WalkInv
  <2> QED
    BY <1>2, <2>1, <2>2, <2>3 DEF Seek
<1>3. CASE Visit
  <2>u. /\ chain' = chain /\ count' = count /\ owed' = owed /\ saver = "visit" /\ saver' = "step" /\ pos' = pos
        /\ at' = at /\ seen' = seen \cup {at}
    BY <1>3 DEF Visit
  <2>1. \A e : (Passed(e)' <=> Passed(e)) /\ (Counted(e)' <=> Counted(e))
    BY <2>u DEF Passed, Counted
  <2> QED
    BY <1>t, <2>u, <2>1 DEF WalkInv
<1>4. CASE Step
  <2>u. chain' = chain /\ count' = count /\ owed' = owed /\ seen' = seen /\ saver = "step"
    BY <1>4 DEF Step
  <2>c. \A e \in owed : Counted(e)'
    BY <1>t, <2>u DEF WalkInv, Counted
  <2>s. \A e \in owed : Passed(e) => e \in seen
    BY <1>t, <2>u DEF WalkInv
  <2>b. pos \in Buckets /\ at \in seen
    BY <1>t, <2>u DEF WalkInv
  <2>i. PICK i \in 1..Len(chain[pos]) :
          chain[pos][i] = at /\ \A j \in 1..(i - 1) : chain[pos][j] \in owed => chain[pos][j] \in seen
    BY <1>t, <2>u DEF WalkInv
  <2>l. Len(chain[pos]) \in 1..Len(chain[pos])
    BY <1>b, <2>b, <2>i
  <2>1. CASE AtTail /\ pos' = NextPos /\ saver' = "seek"
    <3>1. chain[pos][Len(chain[pos])] = at
      BY <2>1 DEF AtTail, Last
    <3>2. i = Len(chain[pos])
      BY <1>t, <2>b, <2>i, <2>l, <3>1 DEF ChainInv
    <3>3. \A j \in 1..Len(chain[pos]) : chain[pos][j] \in owed => chain[pos][j] \in seen
      <4> TAKE j \in 1..Len(chain[pos])
      <4>1. j = i \/ j \in 1..(i - 1)
        BY <1>b, <2>b, <3>2
      <4> QED
        BY <2>b, <2>i, <4>1
    <3>4. ASSUME NEW e \in owed, Passed(e)' PROVE e \in seen
      <4>1a. PICK a \in 0..pos : \E j \in 1..Len(chain[a]) : chain[a][j] = e
        BY <1>p, <2>1, <2>u, <3>4 DEF Passed, NextPos
      <4>1. PICK j \in 1..Len(chain[a]) : chain[a][j] = e
        BY <4>1a
      <4>2. a = pos \/ a \in 0..(pos - 1)
        BY <1>p, <4>1
      <4> QED
        BY <2>s, <3>3, <4>1, <4>2 DEF Passed
    <3> QED
      BY <2>u, <2>c, <2>1, <3>4 DEF WalkInv
  <2>2. CASE ~AtTail /\ saver' = "visit" /\ pos' = pos
    <3>1. PICK n \in DOMAIN chain[pos] : chain[pos][n] = at /\ at' = chain[pos][n + 1]
      BY <1>4, <2>2 DEF Step
    <3>2. DOMAIN chain[pos] = 1..Len(chain[pos])
      BY <1>b, <2>b
    <3>3. n = i
      BY <1>t, <2>b, <2>i, <3>1, <3>2 DEF ChainInv
    <3>4. i # Len(chain[pos])
      BY <2>2, <2>i DEF AtTail, Last
    <3>5. i + 1 \in 1..Len(chain[pos]) /\ \A j \in 1..((i + 1) - 1) : j = i \/ j \in 1..(i - 1)
      BY <1>b, <2>b, <2>i, <3>4
    <3>6. \A j \in 1..((i + 1) - 1) : chain[pos][j] \in owed => chain[pos][j] \in seen
      BY <2>b, <2>i, <3>5
    <3>7. \A e : Passed(e)' <=> Passed(e)
      BY <2>2, <2>u DEF Passed
    <3>8. chain'[pos'][i + 1] = at' /\ i + 1 \in 1..Len(chain'[pos'])
      BY <2>2, <2>u, <3>1, <3>3, <3>5
    <3> QED
      BY <2>u, <2>c, <2>s, <2>b, <2>2, <3>6, <3>7, <3>8 DEF WalkInv
  <2> QED
    BY <1>4, <2>1, <2>2 DEF Step
<1> QED
  BY <1>1, <1>2, <1>3, <1>4 DEF SaveStep

\* The walk changes nothing of the map, and what is said of the map does not speak of it.
LEMMA WalkKeeps == ASSUME Inv, WalkInv, SaveBegin \/ SaveStep PROVE Inv'
<1> USE DEF Inv
<1>1. /\ UNCHANGED <<lock, chain, count, entrylock, pool, entryindex, totalEntry, key, stats>>
      /\ UNCHANGED <<pc, want, cell, answer, toLoad, budget>>
  BY DEF SaveStep, SaveBegin, Seek, Visit, Step, buckets, pools, content, callers
<1>2. WantInv' /\ LockInv'
  BY <1>1 DEF WantInv, LockInv, Bucket
<1>3. CutInv' /\ ChainInv' /\ CountInv'
  BY <1>1 DEF CutInv, Cut, ChainInv, CountInv, Bucket
<1>4. NewInv' /\ CellInv' /\ LoadInv' /\ StatsInv'
  BY <1>1 DEF NewInv, CellInv, LoadInv, StatsInv, Leads
<1>5. BoundInv'
  BY <1>1 DEF BoundInv, Coming
<1> QED
  BY <1>2, <1>3, <1>4, <1>5, WalkType

\* Main's next line is no entry yet.
LEMMA LoadWalk == ASSUME Inv, WalkInv, Load PROVE WalkInv'
BY DEF Load, WalkInv, Counted, Passed, buckets, walk

\* Nothing happens.
LEMMA StutterKeeps == ASSUME Inv, WalkInv, UNCHANGED vars PROVE Inv' /\ WalkInv'
<1>1. /\ UNCHANGED <<lock, chain, count, entrylock, pool, entryindex, totalEntry, key, stats>>
      /\ UNCHANGED <<pc, want, cell, answer, toLoad, budget, saver, pos, at, owed, seen>>
  BY DEF vars, buckets, pools, content, callers, walk
<1>2. TypeOK' /\ WantInv' /\ LockInv' /\ CutInv' /\ ChainInv' /\ CountInv'
  BY <1>1 DEF Inv, TypeOK, WantInv, LockInv, CutInv, Cut, ChainInv, CountInv, Bucket
<1>3. NewInv' /\ CellInv' /\ LoadInv' /\ StatsInv' /\ BoundInv'
  BY <1>1 DEF Inv, NewInv, CellInv, Leads, LoadInv, StatsInv, BoundInv, Coming
<1>4. WalkInv'
  BY <1>1 DEF WalkInv, Counted, Passed
<1> QED
  BY <1>2, <1>3, <1>4 DEF Inv

\* Every step keeps the invariant.
LEMMA StepKeeps == Inv /\ WalkInv /\ [Next]_vars => Inv' /\ WalkInv'
<1> SUFFICES ASSUME Inv, WalkInv, [Next]_vars PROVE Inv' /\ WalkInv'
  OBVIOUS
<1>1. CASE \E t \in Threads : FindOrAdd(t) \/ CallStep(t)
  BY <1>1, CallerKeeps, CallerWalk DEF Caller
<1>2. CASE Load
  BY <1>2, LoadKeeps, LoadWalk
<1>3. CASE SaveBegin \/ SaveStep
  BY <1>3, WalkKeeps, WalkWalk
<1>4. CASE Finished \/ UNCHANGED vars
  BY <1>4, StutterKeeps DEF Finished
<1> QED
  BY <1>1, <1>2, <1>3, <1>4 DEF Next

\* The invariant of the map holds throughout.
THEOREM MapInvariant == Spec => [](Inv /\ WalkInv)
<1>1. Init => Inv /\ WalkInv
  BY InitInv
<1>2. Inv /\ WalkInv /\ [Next]_vars => (Inv /\ WalkInv)'
  BY StepKeeps
<1> QED
  BY <1>1, <1>2, PTL DEF Spec

\* A bucket nobody has locked counts its list, and no count is ahead of its list.
THEOREM CountsAlwaysAgree == Spec => []CountsAgree
<1>1. Inv => CountsAgree
  <2> SUFFICES ASSUME Inv, NEW b \in Buckets
               PROVE  (lock[b] = NoThread => count[b] = Len(chain[b])) /\ count[b] <= Len(chain[b])
    BY DEF CountsAgree
  <2>1. count[b] \in Nat /\ chain[b] \in Seq(Entries) /\ Len(chain[b]) \in Nat
    BY DEF Inv, TypeOK
  <2>2. \A t \in Threads : pc[t] = "count" /\ Bucket(t) = b => lock[b] = t /\ t # NoThread
    BY ThreadsAssumption DEF Inv, LockInv, Holding
  <2> QED
    BY <2>1, <2>2 DEF Inv, CountInv
<1> QED
  BY <1>1, MapInvariant, PTL

\* No caller is given a record whose statistics are not initialised.
THEOREM RecordsInUseAreFilled == Spec => []NoRawRecordInUse
<1>1. Inv => NoRawRecordInUse
  BY DEF Inv, StatsInv, NoRawRecordInUse
<1> QED
  BY <1>1, MapInvariant, PTL

\* A walk that has come to its end has met every entry that was in the map when it began.
THEOREM WalksAreComplete == Spec => []WalkIsComplete
<1>1. Inv /\ WalkInv => WalkIsComplete
  <2> SUFFICES ASSUME Inv, WalkInv, saver = "done", NEW e \in owed PROVE e \in seen
    BY DEF WalkIsComplete
  <2>1a. PICK b \in Buckets : \E i \in 1..count[b] : chain[b][i] = e
    BY DEF WalkInv, Counted
  <2>1. PICK i \in 1..count[b] : chain[b][i] = e
    BY <2>1a
  <2>2. i \in 1..Len(chain[b])
    BY <2>1, CountedLinked
  <2>3. b \in 0..(pos - 1)
    BY DEF WalkInv, Buckets
  <2>4. Passed(e)
    BY <2>1, <2>2, <2>3 DEF Passed
  <2> QED
    BY <2>4 DEF WalkInv
<1> QED
  BY <1>1, MapInvariant, PTL

-----------------------------------------------------------------------------
(* The map implements InternTable *)

\* The refinement mapping of CallstackMap.
Known   == [k \in {key[e] : e \in Linked} |-> EntryOf(k)]
Asked   == IF toLoad = <<>> THEN want ELSE [t \in Threads |-> NoKey]
Learned == {e \in DOMAIN stats : stats[e] = "learned" /\ Leads(e)}

\* The entries on the lists are those that are initialised.
LEMMA LinkedAre == Inv => Linked = DOMAIN key
<1> SUFFICES ASSUME Inv PROVE Linked = DOMAIN key
  OBVIOUS
<1>1. \A b \in Buckets : ToSet(chain[b]) = {chain[b][i] : i \in 1..Len(chain[b])}
  <2> TAKE b \in Buckets
  <2>1. chain[b] \in Seq(Entries)
    BY DEF Inv, TypeOK
  <2> QED
    BY <2>1 DEF ToSet
<1>2. \A e \in DOMAIN key : hashIndex(key[e]) \in Buckets
  BY Hashed DEF Inv, TypeOK
<1>3. ASSUME NEW e \in Linked PROVE e \in DOMAIN key
  <2>1. PICK b \in Buckets : e \in ToSet(chain[b])
    BY DEF Linked
  <2>2. PICK i \in 1..Len(chain[b]) : chain[b][i] = e
    BY <1>1, <2>1
  <2> QED
    BY <2>2 DEF Inv, ChainInv
<1>4. ASSUME NEW e \in DOMAIN key PROVE e \in Linked
  <2> DEFINE b == hashIndex(key[e])
  <2>1. b \in Buckets /\ \E i \in 1..Len(chain[b]) : chain[b][i] = e
    BY <1>2 DEF Inv, ChainInv
  <2> HIDE DEF b
  <2>2. e \in ToSet(chain[b])
    BY <1>1, <2>1
  <2> QED
    BY <2>1, <2>2 DEF Linked
<1> QED
  BY <1>3, <1>4

\* So they are after a step.
LEMMA LinkedAreNext == Inv' => Linked' = DOMAIN key'
<1>1. (Inv => Linked = DOMAIN key)'
  BY LinkedAre, PTL
<1> QED
  BY <1>1

\* Every entry that is the first with its key is the only one.
LEMMA OneLeads ==
  ASSUME Inv, NEW e \in DOMAIN key, NEW f \in DOMAIN key, key[e] = key[f], Leads(e), Leads(f)
  PROVE  e = f
<1>1. PICK b \in Buckets : b = hashIndex(key[e])
  BY Placed
<1>2. PICK i \in 1..Len(chain[b]) : chain[b][i] = e
  BY <1>1, Placed
<1>3. PICK j \in 1..Len(chain[b]) : chain[b][j] = f
  BY <1>1, Placed
<1>4. /\ \A n \in 1..(i - 1) : key[chain[b][n]] # key[e]
      /\ \A n \in 1..(j - 1) : key[chain[b][n]] # key[f]
  BY <1>2, <1>3, Leading
<1>5. Len(chain[b]) \in Nat
  BY DEF Inv, TypeOK
<1>6. ~(j < i) /\ ~(i < j)
  <2>1. j < i => j \in 1..(i - 1)
    BY <1>5
  <2>2. i < j => i \in 1..(j - 1)
    BY <1>5
  <2> QED
    BY <1>2, <1>3, <1>4, <2>1, <2>2
<1>7. i = j
  BY <1>5, <1>6
<1> QED
  BY <1>2, <1>3, <1>7

\* A set of numbers has a least one.
LEMMA Least ==
  ASSUME NEW S \in SUBSET Nat, S # {}
  PROVE  \E x \in S : \A y \in S : x <= y
<1>1. IsWellFoundedOn(OpToRel(<, Nat), Nat)
  BY NatLessThanWellFounded
<1>2. PICK x \in S : \A y \in S : ~(<<y, x>> \in OpToRel(<, Nat))
  BY <1>1, WFMin
<1>3. ASSUME NEW y \in S PROVE x <= y
  <2>1. x \in Nat /\ y \in Nat
    OBVIOUS
  <2>2. ~(y < x)
    BY <1>2, <2>1 DEF OpToRel
  <2> QED
    BY <2>1, <2>2
<1> QED
  BY <1>3

\* Every key that has entries has a first one.
LEMMA SomeLeads ==
  ASSUME Inv, NEW e \in DOMAIN key
  PROVE  \E f \in DOMAIN key : key[f] = key[e] /\ Leads(f)
<1>1. PICK b \in Buckets : b = hashIndex(key[e])
  BY Placed
<1>2. PICK n \in 1..Len(chain[b]) : chain[b][n] = e
  BY <1>1, Placed
<1>3. Len(chain[b]) \in Nat
  BY DEF Inv, TypeOK
<1> DEFINE S == {i \in 1..Len(chain[b]) : key[chain[b][i]] = key[e]}
<1>4. n \in S /\ S \in SUBSET Nat
  BY <1>2
<1>5. S # {}
  BY <1>4
<1>6. PICK i \in S : \A j \in S : i <= j
  <2> HIDE DEF S
  <2> QED
    BY <1>4, <1>5, Least
<1>7. i \in 1..Len(chain[b]) /\ key[chain[b][i]] = key[e] /\ chain[b][i] \in DOMAIN key
  BY DEF Inv, ChainInv
<1>8. \A j \in 1..(i - 1) : key[chain[b][j]] # key[e]
  <2> SUFFICES ASSUME NEW j \in 1..(i - 1), key[chain[b][j]] = key[e] PROVE FALSE
    OBVIOUS
  <2>1. j \in 1..Len(chain[b]) /\ j < i
    BY <1>3, <1>7
  <2>2. i <= j
    BY <1>6, <2>1
  <2> QED
    BY <1>7, <2>1, <2>2
<1>9. Leads(chain[b][i])
  BY <1>7, <1>8, Leading
<1> QED
  BY <1>7, <1>9

\* The record of a call stack is the first entry made for it.
KnownRight ==
  /\ DOMAIN Known = {key[e] : e \in DOMAIN key}
  /\ \A e \in DOMAIN key : Leads(e) => Known[key[e]] = e
  /\ \A k \in DOMAIN Known : Known[k] \in DOMAIN key /\ key[Known[k]] = k /\ Leads(Known[k])

LEMMA KnownIs == Inv => KnownRight
<1> SUFFICES ASSUME Inv PROVE KnownRight
  OBVIOUS
<1>1. Linked = DOMAIN key
  BY LinkedAre
<1>2. ASSUME NEW k \in {key[e] : e \in DOMAIN key}
      PROVE  EntryOf(k) \in DOMAIN key /\ key[EntryOf(k)] = k /\ Leads(EntryOf(k))
  <2>1. \E f \in DOMAIN key : key[f] = k /\ Leads(f)
    BY <1>2, SomeLeads
  <2>2. EntryOf(k) = CHOOSE f \in DOMAIN key : key[f] = k /\ Leads(f)
    BY <1>1 DEF EntryOf
  <2>3. EntryOf(k) \in DOMAIN key /\ key[EntryOf(k)] = k
    BY <2>1, <2>2
  <2>4. PICK f \in DOMAIN key : f = EntryOf(k) /\ Leads(f)
    BY <2>1, <2>2
  <2> QED
    BY <2>3, <2>4 DEF Leads
<1>3. DOMAIN Known = {key[e] : e \in DOMAIN key} /\ \A k \in DOMAIN Known : Known[k] = EntryOf(k)
  BY <1>1 DEF Known
<1>4. ASSUME NEW e \in DOMAIN key, Leads(e) PROVE Known[key[e]] = e
  <2>1. PICK f \in DOMAIN key : f = EntryOf(key[e])
    BY <1>2
  <2>2. key[f] = key[e] /\ Leads(f)
    BY <1>2, <2>1 DEF Leads
  <2>3. f = e
    BY <1>4, <2>2, OneLeads
  <2> QED
    BY <1>3, <2>1, <2>3
<1>5. ASSUME NEW k \in DOMAIN Known PROVE Known[k] \in DOMAIN key /\ key[Known[k]] = k /\ Leads(Known[k])
  <2>1. Known[k] = EntryOf(k) /\ k \in {key[e] : e \in DOMAIN key}
    BY <1>3
  <2> QED
    BY <1>2, <2>1 DEF Leads
<1> QED
  BY <1>3, <1>4, <1>5 DEF KnownRight

\* So it is after a step.
LEMMA KnownIsNext == Inv' => KnownRight'
<1>1. (Inv => KnownRight)'
  BY KnownIs, PTL
<1> QED
  BY <1>1

\* It depends on the lists and keys only.
LEMMA KnownStays == ASSUME chain' = chain, key' = key PROVE Known' = Known /\ \A e : Leads(e)' <=> Leads(e)
BY DEF Known, Linked, EntryOf, Leads

\* What was learned stays if the lists, keys and statistics do.
LEMMA LearnedStays == ASSUME chain' = chain, key' = key, stats' = stats PROVE Learned' = Learned
BY DEF Learned, Leads

\* listInsertTail gives a call stack without a record a new entry, and one that has a record none.
LEMMA LinkKnown ==
  ASSUME Inv, Inv', NEW t \in Threads, NEW e \in Entries, Link(t), cell[t] = e
  PROVE  /\ \A j \in DOMAIN Known : Known[j] # e
         /\ want[t] \in DOMAIN Known => Known' = Known /\ Learned' = Learned
         /\ want[t] \notin DOMAIN Known =>
              /\ Known' = [j \in DOMAIN Known \cup {want[t]} |-> IF j = want[t] THEN e ELSE Known[j]]
              /\ Learned' = IF toLoad = <<>> THEN Learned ELSE Learned \cup {e}
<1> DEFINE k == want[t]
<1>1. /\ k \in Keys /\ e \notin DOMAIN key /\ DOMAIN key' = DOMAIN key \cup {e} /\ key'[e] = k
      /\ \A f \in DOMAIN key : key'[f] = key[f] /\ stats'[f] = stats[f]
      /\ stats'[e] = IF toLoad = <<>> THEN "raw" ELSE "learned"
  BY Linking
<1>2. \A f \in DOMAIN key : Leads(f)' <=> Leads(f)
  BY LeadsStay DEF Caller, CallStep
<1>3. Leads(e)' <=> \A f \in DOMAIN key : key[f] # k
  BY NewLeads
<1> HIDE DEF k
<1>4. /\ DOMAIN Known = {key[f] : f \in DOMAIN key}
      /\ \A j \in DOMAIN Known : Known[j] \in DOMAIN key /\ key[Known[j]] = j
      /\ \A j \in DOMAIN Known : \E f \in DOMAIN key : f = Known[j] /\ Leads(f)
  BY KnownIs DEF KnownRight
<1>5. /\ DOMAIN Known' = {key'[f] : f \in DOMAIN key'}
      /\ \A f \in DOMAIN key' : Leads(f)' => Known'[key'[f]] = f
  BY KnownIsNext DEF KnownRight
<1>6. DOMAIN Known' = DOMAIN Known \cup {k}
  BY <1>1, <1>4, <1>5
<1>7. ASSUME NEW j \in DOMAIN Known PROVE Known'[j] = Known[j] /\ Known[j] # e
  <2>1. PICK f \in DOMAIN key : f = Known[j] /\ Leads(f)
    BY <1>4
  <2>2. key[f] = j /\ key'[f] = j /\ Leads(f)' /\ f \in DOMAIN key'
    BY <1>1, <1>2, <1>4, <2>1
  <2> QED
    BY <1>1, <1>5, <2>1, <2>2
<1>8. k \notin DOMAIN Known => Known'[k] = e
  BY <1>1, <1>3, <1>4, <1>5
<1>9. Known = [j \in DOMAIN Known |-> Known[j]] /\ Known' = [j \in DOMAIN Known' |-> Known'[j]]
  BY DEF Known
<1>10. k \in DOMAIN Known => Known' = Known
  BY <1>6, <1>7, <1>9
<1>11. k \notin DOMAIN Known => Known' = [j \in DOMAIN Known \cup {k} |-> IF j = k THEN e ELSE Known[j]]
  <2>1. \A j \in DOMAIN Known : j # k => Known'[j] = Known[j]
    BY <1>7
  <2> QED
    BY <1>6, <1>8, <1>9, <2>1
<1>12. Learned' = IF toLoad # <<>> /\ k \notin DOMAIN Known THEN Learned \cup {e} ELSE Learned
  <2>1. DOMAIN stats = DOMAIN key /\ DOMAIN stats' = DOMAIN key'
    BY DEF Inv, TypeOK
  <2>2. \A f : f \in Learned <=> f \in DOMAIN key /\ stats[f] = "learned" /\ Leads(f)
    BY <2>1 DEF Learned
  <2>3. \A f : f \in Learned' <=> f \in DOMAIN key' /\ stats'[f] = "learned" /\ Leads(f)'
    BY <2>1 DEF Learned
  <2>4. k \notin DOMAIN Known <=> Leads(e)'
    BY <1>3, <1>4
  <2>5. \A f \in DOMAIN key : f \in Learned' <=> f \in Learned
    BY <1>1, <1>2, <2>2, <2>3
  <2>6. e \in Learned' <=> toLoad # <<>> /\ k \notin DOMAIN Known
    BY <1>1, <2>3, <2>4
  <2>7. e \notin Learned /\ Learned \subseteq DOMAIN key /\ Learned' \subseteq DOMAIN key \cup {e}
    BY <1>1, <2>2, <2>3
  <2>8. CASE toLoad # <<>> /\ k \notin DOMAIN Known
    BY <2>5, <2>6, <2>7, <2>8
  <2>9. CASE ~(toLoad # <<>> /\ k \notin DOMAIN Known)
    <3>1. \A f : f \in Learned' <=> f \in Learned
      BY <2>5, <2>6, <2>7, <2>9
    <3> QED
      BY <2>9, <3>1
  <2> QED
    BY <2>8, <2>9
<1> QED
  BY <1>7, <1>10, <1>11, <1>12 DEF k

\* While lines are left nobody has asked or has been answered.
LEMMA NobodyAsked ==
  ASSUME Inv, toLoad # <<>>
  PROVE  Asked = [t \in Threads |-> NoKey] /\ \A t \in Threads : Asked[t] = NoKey /\ answer[t] = NoEntry
BY DEF Inv, LoadInv, Asked

\* A new record for a caller, or for a line of the history file; or another entry for a line.
LEMMA LinkAdds ==
  ASSUME Inv, Inv', NEW t \in Threads, Link(t)
  PROVE  IT!Next \/ UNCHANGED IT!vars
<1>1. PICK e \in Entries : cell[t] = e
  BY Linking
<1>2. want[t] \in Keys /\ Asked' = Asked /\ answer' = answer
  BY Linking DEF Link, Asked
<1>3. CASE toLoad = <<>>
  <2>1. \A f \in DOMAIN key : key[f] # want[t]
    BY <1>3 DEF Link, Inv, NewInv
  <2>2. want[t] \notin DOMAIN Known
    BY <2>1, KnownIs DEF KnownRight
  <2>3. Asked[t] = want[t]
    BY <1>3 DEF Asked
  <2>4. /\ \A j \in DOMAIN Known : Known[j] # e
        /\ Known' = [j \in DOMAIN Known \cup {want[t]} |-> IF j = want[t] THEN e ELSE Known[j]]
        /\ Learned' = Learned
    BY <1>1, <1>3, <2>2, LinkKnown
  <2>5. IT!Add(t, e)
    BY <1>2, <2>2, <2>3, <2>4 DEF IT!Add, Known, Learned, Asked
  <2> QED
    BY <2>5 DEF IT!Next
<1>4. CASE toLoad # <<>> /\ want[t] \notin DOMAIN Known
  <2>1. /\ \A j \in DOMAIN Known : Known[j] # e
        /\ Known' = [j \in DOMAIN Known \cup {want[t]} |-> IF j = want[t] THEN e ELSE Known[j]]
        /\ Learned' = Learned \cup {e}
    BY <1>1, <1>4, LinkKnown
  <2>2. \A u \in Threads : Asked[u] = NoKey /\ answer[u] = NoEntry
    BY <1>4, NobodyAsked
  <2>3. IT!Preset(want[t], e)
    BY <1>2, <1>4, <2>1, <2>2 DEF IT!Preset, Known, Learned, Asked
  <2> QED
    BY <1>2, <2>3 DEF IT!Next
<1>5. CASE toLoad # <<>> /\ want[t] \in DOMAIN Known
  <2>1. Known' = Known /\ Learned' = Learned
    BY <1>1, <1>5, LinkKnown
  <2> QED
    BY <1>2, <2>1 DEF IT!vars, Known, Learned, Asked
<1> QED
  BY <1>3, <1>4, <1>5

\* A line of the history file is in the map: nothing that a caller could see happens.
LEMMA LineDone ==
  ASSUME Inv, Inv', NEW t \in Threads, Unlock(t), toLoad # <<>>
  PROVE  Asked' = Asked /\ answer' = answer
<1>1. t = Main
  BY Loading DEF Caller, CallStep
<1>2. answer' = answer /\ want' = [want EXCEPT ![t] = NoKey]
  BY DEF Unlock
<1>3. want \in [Threads -> Keys \cup {NoKey}] /\ \A u \in Threads \ {Main} : pc[u] = "idle"
  BY DEF Inv, TypeOK, LoadInv
<1>4. \A u \in Threads \ {Main} : want[u] = NoKey
  BY <1>3 DEF Inv, WantInv, Asking, Holding
<1>5. want' = [u \in Threads |-> NoKey]
  BY <1>1, <1>2, <1>3, <1>4
<1>6. Asked' = [u \in Threads |-> NoKey]
  BY <1>5 DEF Asked
<1> QED
  BY <1>2, <1>6, NobodyAsked

\* Every step of the map is one of InternTable, or none.
LEMMA MapStep == Inv /\ Inv' /\ [Next]_vars => [IT!Next]_(IT!vars)
<1> SUFFICES ASSUME Inv, Inv', [Next]_vars PROVE [IT!Next]_(IT!vars)
  OBVIOUS
<1> USE DEF Goto
<1>t. TypeOK /\ WantInv /\ CellInv /\ StatsInv /\ LoadInv /\ DOMAIN stats = DOMAIN key
  BY DEF Inv, TypeOK
<1>s. Known' = Known /\ Learned' = Learned /\ Asked' = Asked /\ answer' = answer => UNCHANGED IT!vars
  BY DEF IT!vars, Known, Learned, Asked
<1>1. CASE UNCHANGED core
  <2>1. Known' = Known /\ Learned' = Learned
    BY <1>1, KnownStays, LearnedStays DEF core, buckets, content
  <2> QED
    BY <1>1, <1>s, <2>1 DEF core, callers, Asked
<1>2. CASE Load
  <2>1. Known' = Known /\ Learned' = Learned /\ answer' = answer /\ toLoad' = toLoad /\ toLoad # <<>>
    BY <1>2, KnownStays, LearnedStays DEF Load, buckets, content
  <2> QED
    BY <1>s, <2>1 DEF Asked
<1>3. ASSUME NEW t \in Threads, FindOrAdd(t) PROVE IT!Next
  <2>1. Known' = Known /\ Learned' = Learned /\ answer' = answer /\ toLoad' = toLoad /\ toLoad = <<>>
    BY <1>3, KnownStays, LearnedStays DEF FindOrAdd, buckets, content
  <2>2. want[t] = NoKey
    BY <1>3, <1>t DEF FindOrAdd, WantInv, Asking, Holding
  <2>3. PICK k \in Keys : want' = [want EXCEPT ![t] = k]
    BY <1>3 DEF FindOrAdd
  <2>4. Asked[t] = NoKey /\ Asked' = [Asked EXCEPT ![t] = k]
    BY <2>1, <2>2, <2>3 DEF Asked
  <2>5. IT!Ask(t, k)
    BY <2>1, <2>4 DEF IT!Ask, Known, Learned, Asked
  <2> QED
    BY <2>5 DEF IT!Next
<1>4. ASSUME NEW t \in Threads, Link(t) PROVE IT!Next \/ UNCHANGED IT!vars
  BY <1>4, LinkAdds
<1>5. ASSUME NEW t \in Threads, Unlock(t) PROVE IT!Next \/ UNCHANGED IT!vars
  <2>1. Known' = Known /\ Learned' = Learned
    BY <1>5, KnownStays, LearnedStays DEF Unlock, content
  <2>2. CASE toLoad = <<>>
    <3>1. PICK e \in DOMAIN key : e = cell[t] /\ key[e] = want[t] /\ Leads(e)
      BY <1>5, <1>t, <2>2 DEF Unlock, CellInv
    <3>2. want[t] \in DOMAIN Known /\ Known[want[t]] = e
      BY <3>1, KnownIs DEF KnownRight
    <3>3. /\ want' = [want EXCEPT ![t] = NoKey] /\ answer' = [answer EXCEPT ![t] = Known[want[t]]]
          /\ toLoad' = <<>>
      BY <1>5, <2>2, <3>1, <3>2 DEF Unlock
    <3>4. Asked[t] = want[t] /\ Asked' = [Asked EXCEPT ![t] = NoKey]
      BY <2>2, <3>3 DEF Asked
    <3>5. IT!Answer(t)
      BY <2>1, <3>2, <3>3, <3>4 DEF IT!Answer, Known, Learned, Asked
    <3> QED
      BY <3>5 DEF IT!Next
  <2>3. CASE toLoad # <<>>
    BY <1>5, <1>s, <2>1, <2>3, LineDone
  <2> QED
    BY <2>2, <2>3
<1>6. ASSUME NEW t \in Threads, Use(t) PROVE IT!Next
  <2>1. /\ chain' = chain /\ key' = key /\ want' = want /\ answer' = answer /\ toLoad' = toLoad
        /\ stats' = [stats EXCEPT ![answer[t]] = "learned"]
    BY <1>6 DEF Use, buckets
  <2>0. Known' = Known /\ \A e : Leads(e)' <=> Leads(e)
    BY <2>1, KnownStays
  <2>2. want[t] = NoKey
    BY <1>6, <1>t DEF Use, WantInv, Asking, Holding
  <2>3. PICK e \in DOMAIN stats : e = answer[t] /\ Leads(e) /\ e # NoEntry
    BY <1>6, <1>t DEF Use, StatsInv, CellInv
  <2>4. DOMAIN stats' = DOMAIN stats /\ \A f \in DOMAIN stats : stats'[f] = IF f = e THEN "learned" ELSE stats[f]
    BY <2>1, <2>3, <1>t DEF TypeOK
  <2>5. Learned' = Learned \cup {answer[t]}
    BY <2>0, <2>3, <2>4 DEF Learned
  <2>6. Asked[t] = NoKey /\ Asked' = Asked
    BY <2>1, <2>2 DEF Asked
  <2>7. IT!Learn(t)
    BY <2>0, <2>1, <2>3, <2>5, <2>6 DEF IT!Learn, Known, Learned, Asked
  <2> QED
    BY <2>7 DEF IT!Next
<1>7. ASSUME NEW t \in Threads, Fill(t) PROVE UNCHANGED IT!vars
  <2>1. chain' = chain /\ key' = key /\ want' = want /\ answer' = answer /\ toLoad' = toLoad
    BY <1>7 DEF Fill, buckets
  <2>0. Known' = Known /\ \A e : Leads(e)' <=> Leads(e)
    BY <2>1, KnownStays
  <2>2. toLoad = <<>>
    BY <1>7, Loading DEF Caller, CallStep
  <2>3. cell[t] \in DOMAIN stats /\ stats[cell[t]] = "raw" /\ stats' = [stats EXCEPT ![cell[t]] = "fresh"]
    BY <1>7, <1>t, <2>2 DEF Fill, CellInv, StatsInv, Filling
  <2>4. DOMAIN stats' = DOMAIN stats /\ \A f \in DOMAIN stats : stats'[f] = "learned" <=> stats[f] = "learned"
    BY <2>3, <1>t DEF TypeOK
  <2>5. Learned' = Learned
    BY <2>0, <2>4 DEF Learned
  <2> QED
    BY <1>s, <2>0, <2>1, <2>5 DEF Asked
<1>8. ASSUME NEW t \in Threads, CallStep(t), ~Link(t), ~Unlock(t), ~Use(t), ~Fill(t) PROVE UNCHANGED IT!vars
  <2>1. chain' = chain /\ key' = key /\ stats' = stats /\ want' = want /\ answer' = answer /\ toLoad' = toLoad
    BY <1>8 DEF CallStep, Lock, Found, NotFound, LockPool, Pick, Advance, Count, Total, buckets, content
  <2>2. Known' = Known /\ Learned' = Learned
    BY <2>1, KnownStays, LearnedStays
  <2> QED
    BY <1>s, <2>1, <2>2 DEF Asked
<1> QED
  BY <1>1, <1>2, <1>3, <1>4, <1>5, <1>6, <1>7, <1>8, Steps DEF Caller

(* The map keeps InternTable's promise: one record for each call stack,   *)
(* the same for whoever asks, whose statistics, once they are learned in  *)
(* this run or read from the history file, are never set back (findOrAdd, *)
(* insert, loadHistoryInfo).                                              *)
THEOREM MapImplementsInternTable == Spec => ImplementsInternTable
<1>1. Init => IT!Init
  <2> SUFFICES ASSUME Init PROVE IT!Init
    OBVIOUS
  <2>1. \A b \in Buckets : ToSet(chain[b]) = {}
    BY DEF Init, ToSet
  <2>2. {key[e] : e \in Linked} = {}
    BY <2>1 DEF Linked
  <2> QED
    BY <2>2 DEF IT!Init, Init
<1>2. Inv /\ Inv' /\ [Next]_vars => [IT!Next]_(IT!vars)
  BY MapStep
<1> QED
  BY <1>1, <1>2, MapInvariant, PTL DEF Spec, ImplementsInternTable, IT!Spec

=============================================================================
