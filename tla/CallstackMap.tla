------------------------------ MODULE CallstackMap ------------------------------
(***************************************************************************)
(* The map from call stacks to their records (hashmap.hh, as instantiated  *)
(* by causer.hh): an array of buckets, each a list of entries under a      *)
(* spinlock, entries cut from a pool under a spinlock of its own.          *)
(*                                                                         *)
(* The history file is loaded by insert before the application runs; then  *)
(* every allocation calls findOrAdd; at exit, or from the segv handler,    *)
(* saveHistoryInfo walks the whole map without any lock.  Nothing calls    *)
(* erase, insertIfAbsent or find.                                          *)
(***************************************************************************)
EXTENDS Integers, SequencesExt

CONSTANTS
  Threads,     \* threads that allocate
  Main,        \* the one that loads the history
  NoThread,
  Keys,        \* call stacks, compared by their first frame and their offset
  NoKey,
  NumBuckets,  \* CALLSTACK_MAP_SIZE, 0x80000 in the code: buckets, and entries of a pool
  Hash,        \* hashcode of each call stack
  History,     \* the call stacks of the history file, in its order
  MaxCalls     \* bound: calls of findOrAdd in one behaviour

ASSUME ThreadsAssumption == Main \in Threads /\ NoThread \notin Threads

ASSUME KeysAssumption == NoKey \notin Keys /\ Hash \in [Keys -> Nat]

\* `&' with NumBuckets - 1 is `%' only for a power of 2.
ASSUME BucketsAssumption ==
  NumBuckets \in Nat \ {0} /\ \E k \in 0..NumBuckets : NumBuckets = 2^k

\* Lines may have equal keys: an entry is found by the words read when it was made, its line is
\* keyed by the frame captured then.
ASSUME HistoryAssumption == History \in Seq(Keys)

ASSUME CallsAssumption == MaxCalls \in Nat

Buckets  == 0..(NumBuckets - 1)
Pools    == 0..(MaxCalls + Len(History))  \* each call needs at most one more
Entries  == Pools \X Buckets              \* pool and index in it
NoEntry  == <<-1, -1>>

VARIABLES
  lock,              \* holder of each bucket's lock
  chain, count,      \* list and count of each bucket
  entrylock,         \* holder of entrylock
  pool, entryindex,  \* allentries and entryindex
  totalEntry,        \* _totalEntry
  key,               \* the key of each entry that has been initialised
  stats,             \* the statistics of each such entry, see StatsValues
  pc, want, cell,    \* per thread: place, call stack looked for, entry in hand
  answer,            \* per thread: what its last call returned
  toLoad,            \* lines of the history file not yet inserted
  budget,            \* calls left of the bound
  saver, pos, at,    \* saveHistoryInfo: place, and _pos and _entry of its iterator
  owed, seen         \* history: entries in the map when the walk began, and visited

buckets == <<lock, chain, count>>
pools   == <<entrylock, pool, entryindex>>
content == <<key, stats>>
callers == <<pc, want, cell, answer, toLoad, budget>>
walk    == <<saver, pos, at, owed, seen>>
vars    == <<buckets, pools, totalEntry, content, callers, walk>>

\* "raw": whatever was on the stack of startWatch; "fresh": as findOrAdd initialises
\* them; "learned": from the history file, or updated since.
StatsValues == {"raw", "fresh", "learned"}

PcValues    == {"idle", "lock", "search", "pool", "pick", "advance", "link", "count",
                "total", "fill", "unlock", "use"}
SaverValues == {"off", "seek", "visit", "step", "done"}

hashIndex(k) == Hash[k] % NumBuckets

Init ==
  /\ lock = [b \in Buckets |-> NoThread]
  /\ chain = [b \in Buckets |-> <<>>]
  /\ count = [b \in Buckets |-> 0]
  /\ entrylock = NoThread /\ pool = 0 /\ entryindex = 0
  /\ totalEntry = 0
  /\ key = [e \in {} |-> NoKey] /\ stats = [e \in {} |-> "raw"]
  /\ pc = [t \in Threads |-> "idle"]
  /\ want = [t \in Threads |-> NoKey]
  /\ cell = [t \in Threads |-> NoEntry]
  /\ answer = [t \in Threads |-> NoEntry]
  /\ toLoad = History
  /\ budget = MaxCalls
  /\ saver = "off" /\ pos = 0 /\ at = NoEntry /\ owed = {} /\ seen = {}

Goto(t, label) == pc' = [pc EXCEPT ![t] = label]
Bucket(t) == hashIndex(want[t])

-----------------------------------------------------------------------------
(* findOrAdd and insert *)

\* loadHistoryInfo: the next line of the file goes to insert.
Load ==
  /\ pc[Main] = "idle" /\ toLoad # <<>>
  /\ want' = [want EXCEPT ![Main] = Head(toLoad)]
  /\ Goto(Main, "lock")
  /\ UNCHANGED <<buckets, pools, totalEntry, content, cell, answer, toLoad, budget, walk>>

\* startWatch calls findOrAdd.
FindOrAdd(t) ==
  /\ pc[t] = "idle" /\ toLoad = <<>> /\ budget > 0
  /\ budget' = budget - 1
  /\ \E k \in Keys : want' = [want EXCEPT ![t] = k]
  /\ Goto(t, "lock")
  /\ UNCHANGED <<buckets, pools, totalEntry, content, cell, answer, toLoad, walk>>

\* Mutant of BucketFree: the bucket is searched without its lock.
BucketFreeAlways(b) == TRUE

BucketFree(b) == lock[b] = NoThread

\* insert does not look whether the call stack is there.
Lock(t) ==
  /\ pc[t] = "lock"
  /\ BucketFree(Bucket(t))
  /\ lock' = [lock EXCEPT ![Bucket(t)] = t]
  /\ Goto(t, IF toLoad = <<>> THEN "search" ELSE "pool")
  /\ UNCHANGED <<chain, count, pools, totalEntry, content, want, cell, answer, toLoad,
                 budget, walk>>

\* Mutant of Compared: getEntry trusts the hash codes.
ComparedByHash(e, k) == Hash[key[e]] = Hash[k]

Compared(e, k) == key[e] = k

\* getEntry looks at the first `count' entries of the list, and returns the first that fits.
Candidates(t) ==
  {i \in 1..count[Bucket(t)] : Compared(chain[Bucket(t)][i], want[t])}

Found(t) ==
  /\ pc[t] = "search"
  /\ \E i \in Candidates(t) :
       /\ \A j \in Candidates(t) : i <= j
       /\ cell' = [cell EXCEPT ![t] = chain[Bucket(t)][i]]
  /\ Goto(t, "unlock")
  /\ UNCHANGED <<buckets, pools, totalEntry, content, want, answer, toLoad, budget, walk>>

NotFound(t) ==
  /\ pc[t] = "search"
  /\ Candidates(t) = {}
  /\ Goto(t, "pool")
  /\ UNCHANGED <<buckets, pools, totalEntry, content, want, cell, answer, toLoad, budget,
                 walk>>

PoolFree == entrylock = NoThread

LockPool(t) ==
  /\ pc[t] = "pool"
  /\ PoolFree
  /\ entrylock' = t
  /\ Goto(t, "pick")
  /\ UNCHANGED <<buckets, pool, entryindex, totalEntry, content, want, cell, answer, toLoad,
                 budget, walk>>

Exhausted == entryindex > NumBuckets - 1

\* createNewEntry, with expendMapping when the pool is used up.
Pick(t) ==
  LET p == IF Exhausted THEN pool + 1 ELSE pool
      i == IF Exhausted THEN 0 ELSE entryindex
  IN
  /\ pc[t] = "pick"
  /\ pool' = p /\ entryindex' = i
  /\ cell' = [cell EXCEPT ![t] = <<p, i>>]
  /\ Goto(t, "advance")
  /\ UNCHANGED <<buckets, entrylock, totalEntry, content, want, answer, toLoad, budget, walk>>

\* Mutant of UnlockPool: entrylock is left locked.
UnlockPoolForgotten == entrylock' = entrylock

UnlockPool == entrylock' = NoThread

Advance(t) ==
  /\ pc[t] = "advance"
  /\ entryindex' = entryindex + 1
  /\ UnlockPool
  /\ Goto(t, "link")
  /\ UNCHANGED <<buckets, pool, totalEntry, content, want, cell, answer, toLoad, budget, walk>>

Put(f, e, v) == [d \in DOMAIN f \cup {e} |-> IF d = e THEN v ELSE f[d]]

\* The entry is initialised with the caller's value, then listInsertTail publishes it.
Link(t) ==
  /\ pc[t] = "link"
  /\ key' = Put(key, cell[t], want[t])
  /\ stats' = Put(stats, cell[t], IF toLoad = <<>> THEN "raw" ELSE "learned")
  /\ chain' = [chain EXCEPT ![Bucket(t)] = Append(@, cell[t])]
  /\ Goto(t, "count")
  /\ UNCHANGED <<lock, count, pools, totalEntry, want, cell, answer, toLoad, budget, walk>>

Count(t) ==
  /\ pc[t] = "count"
  /\ count' = [count EXCEPT ![Bucket(t)] = @ + 1]
  /\ Goto(t, "total")
  /\ UNCHANGED <<lock, chain, pools, totalEntry, content, want, cell, answer, toLoad, budget,
                 walk>>

\* Mutant of AfterInsert: findOrAdd, like insert, leaves the entry as it was given.
AfterInsertUnlock == "unlock"

AfterInsert == IF toLoad = <<>> THEN "fill" ELSE "unlock"

\* __atomic_add_fetch.
Total(t) ==
  /\ pc[t] = "total"
  /\ totalEntry' = totalEntry + 1
  /\ Goto(t, AfterInsert)
  /\ UNCHANGED <<buckets, pools, content, want, cell, answer, toLoad, budget, walk>>

\* findOrAdd sets depth, counters, ratio and period of the new entry.
Fill(t) ==
  /\ pc[t] = "fill"
  /\ stats' = [stats EXCEPT ![cell[t]] = "fresh"]
  /\ Goto(t, "unlock")
  /\ UNCHANGED <<buckets, pools, totalEntry, key, want, cell, answer, toLoad, budget, walk>>

\* The lock is released, and findOrAdd returns the entry.
Unlock(t) ==
  /\ pc[t] = "unlock"
  /\ lock' = [lock EXCEPT ![Bucket(t)] = NoThread]
  /\ want' = [want EXCEPT ![t] = NoKey]
  /\ cell' = [cell EXCEPT ![t] = NoEntry]
  /\ IF toLoad = <<>>
     THEN Goto(t, "use") /\ answer' = [answer EXCEPT ![t] = cell[t]] /\ UNCHANGED toLoad
     ELSE Goto(t, "idle") /\ toLoad' = Tail(toLoad) /\ UNCHANGED answer
  /\ UNCHANGED <<chain, count, pools, totalEntry, content, budget, walk>>

\* updateWatchedInfo on the record that was returned.
Use(t) ==
  /\ pc[t] = "use"
  /\ stats' = [stats EXCEPT ![answer[t]] = "learned"]
  /\ Goto(t, "idle")
  /\ UNCHANGED <<buckets, pools, totalEntry, key, want, cell, answer, toLoad, budget, walk>>

-----------------------------------------------------------------------------
(* saveHistoryInfo, which takes no lock *)

Present == UNION {ToSet(SubSeq(chain[b], 1, count[b])) : b \in Buckets}

\* begin().
SaveBegin ==
  /\ saver \in {"off", "done"} /\ toLoad = <<>>
  /\ totalEntry > 0
  /\ saver' = "seek" /\ pos' = 0 /\ at' = NoEntry
  /\ owed' = Present /\ seen' = {}
  /\ UNCHANGED <<buckets, pools, totalEntry, content, callers>>

\* The next bucket whose count is not zero.
Seek ==
  /\ saver = "seek"
  /\ \/ /\ pos \notin Buckets
        /\ saver' = "done" /\ at' = NoEntry
        /\ UNCHANGED pos
     \/ /\ pos \in Buckets /\ count[pos] # 0
        /\ saver' = "visit" /\ at' = Head(chain[pos])
        /\ UNCHANGED pos
     \/ /\ pos \in Buckets /\ count[pos] = 0
        /\ pos' = pos + 1
        /\ UNCHANGED <<saver, at>>
  /\ UNCHANGED <<buckets, pools, totalEntry, content, callers, owed, seen>>

\* getData().
Visit ==
  /\ saver = "visit"
  /\ seen' = seen \cup {at}
  /\ saver' = "step"
  /\ UNCHANGED <<buckets, pools, totalEntry, content, callers, pos, at, owed>>

\* Mutant of AtTail: the iterator compares with count, not with the list's head.
AtTailAfterFirst == at = Head(chain[pos])

AtTail == at = Last(chain[pos])

NextPos == pos + 1

\* operator++.
Step ==
  /\ saver = "step"
  /\ \/ /\ AtTail
        /\ pos' = NextPos /\ saver' = "seek"
        /\ UNCHANGED at
     \/ /\ ~AtTail
        /\ \E i \in DOMAIN chain[pos] : chain[pos][i] = at /\ at' = chain[pos][i + 1]
        /\ saver' = "visit"
        /\ UNCHANGED pos
  /\ UNCHANGED <<buckets, pools, totalEntry, content, callers, owed, seen>>

-----------------------------------------------------------------------------

\* The bound on calls is used up and every call has returned.
Finished ==
  /\ budget = 0 /\ \A t \in Threads : pc[t] = "idle"
  /\ UNCHANGED vars

CallStep(t) ==
  \/ Lock(t) \/ Found(t) \/ NotFound(t) \/ LockPool(t) \/ Pick(t) \/ Advance(t)
  \/ Link(t) \/ Count(t) \/ Total(t) \/ Fill(t) \/ Unlock(t) \/ Use(t)

SaveStep == Seek \/ Visit \/ Step

Next ==
  \/ Load \/ \E t \in Threads : FindOrAdd(t) \/ CallStep(t)
  \/ SaveBegin \/ SaveStep
  \/ Finished

Spec == Init /\ [][Next]_vars

\* The scheduler runs every thread that can take a step.
FairSpec ==
  /\ Spec
  /\ WF_vars(Load) /\ WF_vars(SaveStep)
  /\ \A t \in Threads : WF_vars(CallStep(t))

-----------------------------------------------------------------------------
(* Properties *)

TypeOK ==
  /\ lock \in [Buckets -> Threads \cup {NoThread}]
  /\ chain \in [Buckets -> Seq(Entries)] /\ count \in [Buckets -> Nat]
  /\ entrylock \in Threads \cup {NoThread}
  /\ pool \in Pools /\ entryindex \in 0..NumBuckets
  /\ totalEntry \in Nat
  /\ key \in [DOMAIN key -> Keys] /\ DOMAIN key \subseteq Entries
  /\ stats \in [DOMAIN key -> StatsValues]
  /\ pc \in [Threads -> PcValues]
  /\ want \in [Threads -> Keys \cup {NoKey}]
  /\ cell \in [Threads -> Entries \cup {NoEntry}]
  /\ answer \in [Threads -> Entries \cup {NoEntry}]
  /\ toLoad \in Seq(Keys)
  /\ budget \in Nat
  /\ saver \in SaverValues /\ pos \in 0..NumBuckets /\ at \in Entries \cup {NoEntry}
  /\ owed \subseteq Entries /\ seen \subseteq Entries

(***************************************************************************)
(* A bucket that nobody has locked counts exactly the entries on its list, *)
(* so that getEntry, which stops after `count' entries, misses none and    *)
(* never walks on to the list's head; and _totalEntry is the sum of them.  *)
(***************************************************************************)
CountsAgree ==
  \A b \in Buckets :
    /\ lock[b] = NoThread => count[b] = Len(chain[b])
    /\ count[b] <= Len(chain[b])

(***************************************************************************)
(* findOrAdd never gives a caller a record whose statistics are not        *)
(* initialised, although insertEntry puts it on the list before they are.  *)
(***************************************************************************)
NoRawRecordInUse == \A t \in Threads : pc[t] = "use" => stats[answer[t]] # "raw"

(***************************************************************************)
(* A walk that saves the history meets every entry that was in the map     *)
(* when it began, whatever is inserted behind and before it meanwhile.     *)
(***************************************************************************)
WalkIsComplete == saver = "done" => owed \subseteq seen

(***************************************************************************)
(* The map in the terms of InternTable: a call stack has its record from   *)
(* the moment listInsertTail makes it visible.  Of several lines of the    *)
(* history with the same key the first gives the record; the others are in *)
(* the map, and saved again, but nobody is given them.                     *)
(***************************************************************************)
Linked == UNION {ToSet(chain[b]) : b \in Buckets}

\* The first entry with its key, in its list.
Leads(e) ==
  LET list == chain[hashIndex(key[e])]
  IN  \E i \in DOMAIN list : list[i] = e /\ \A j \in 1..(i - 1) : key[list[j]] # key[e]

EntryOf(k) == CHOOSE e \in Linked : key[e] = k /\ Leads(e)

IT == INSTANCE InternTable WITH
        known <- [k \in {key[e] : e \in Linked} |-> EntryOf(k)],
        asked <- IF toLoad = <<>> THEN want ELSE [t \in Threads |-> NoKey],
        learned <- {e \in DOMAIN stats : stats[e] = "learned" /\ Leads(e)}

(***************************************************************************)
(* The map implements it: one record per call stack, the same for all who  *)
(* ask; and what was learned of it, in this run or the last one, is never  *)
(* overwritten by the initial values, whoever asks for it again.           *)
(***************************************************************************)
ImplementsInternTable == IT!Spec

\* Every call comes back, whatever the others hold, and every walk comes to the end of the
\* map, whatever is inserted meanwhile.
CallsAndWalksEnd ==
  /\ \A t \in Threads : pc[t] # "idle" ~> pc[t] = "idle"
  /\ saver = "seek" ~> saver = "done"

=============================================================================
