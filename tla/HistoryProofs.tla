----------------------------- MODULE HistoryProofs -----------------------------
(***************************************************************************)
(* Proofs about History, and about what makes up a record of the file, its *)
(* frames (Mappings) and its call stack (CallSites).  Whatever number of   *)
(* call stacks, runs, boosts, forks and processes that die: evidence is    *)
(* carried on, and a run forgets nothing that the file told it.  Whatever  *)
(* the layout of a process and of the next: a frame means the same place.  *)
(* Whatever the call stacks and however deep: an object is named by the    *)
(* application's frames, and found again by that name.                     *)
(***************************************************************************)
EXTENDS History, Mappings, CallSites, FiniteSetTheorems, WellFoundedInduction, TLAPS

-----------------------------------------------------------------------------
(* The inductive invariant *)

\* What has been proven has a captured record with the upper bound.
Evident(S, f) == \A s \in S : s \in Captured(f) /\ f[s].ratio = UpperBound

Saving == \E p \in Processes : phase[p] = "saving"

\* Each process knows what is proven to it and what the run began with; so does the file,
\* unless it is being written, or was when its writer died.
HistoryInv ==
  /\ TypeOK
  /\ DOMAIN table = Processes
  /\ \A p \in Processes : phase[p] # "off" =>
       Evident(proven[p], table[p]) /\ inherited \subseteq Captured(table[p])
  /\ Evident(filed, file)
  /\ written /\ ~Saving => inherited \subseteq Captured(file)

-----------------------------------------------------------------------------
(* Ratios *)

\* What is added to a ratio.
LEMMA BonusIsNatural ==
  ASSUME NEW w \in 0..MaxWatched, NEW boost \in {0, 1}
  PROVE  Bonus(w, boost) \in Nat
<1>1. UpperBound \in Nat
  BY RatioAssumption
<1> DEFINE b == CASE w < 2 -> UpperBound \div 2
                  [] w \in 2..4 -> UpperBound \div (w + 1)
                  [] OTHER -> 0
<1>2. b \in Nat
  <2>1. CASE w < 2
    <3>1. b = UpperBound \div 2
      BY <2>1 DEF MaxWatched
    <3> QED
      BY <1>1, <3>1
  <2>2. CASE w \in 2..4
    <3>1. b = UpperBound \div (w + 1)
      BY <2>2
    <3>2. CASE w = 2
      BY <1>1, <3>1, <3>2
    <3>3. CASE w = 3
      BY <1>1, <3>1, <3>3
    <3>4. CASE w = 4
      BY <1>1, <3>1, <3>4
    <3> QED
      BY <2>2, <3>2, <3>3, <3>4
  <2>3. CASE ~(w < 2) /\ w \notin 2..4
    BY <2>3
  <2> QED
    BY <2>1, <2>2, <2>3
<1> HIDE DEF b
<1>3. boost * b \in Nat
  BY <1>2
<1> QED
  BY <1>3 DEF Bonus, b

\* A ratio stays one, and the upper bound stays the upper bound.
LEMMA RatiosStay ==
  ASSUME NEW r \in Ratios
  PROVE  /\ {AfterCall(r), AfterWatch(r)} \subseteq Ratios
         /\ r = UpperBound => AfterCall(r) = UpperBound /\ AfterWatch(r) = UpperBound
         /\ \A w \in 0..MaxWatched, boost \in {0, 1} :
              /\ Boosted(r, w, boost) \in Ratios
              /\ r = UpperBound => Boosted(r, w, boost) = UpperBound
<1>1. AfterCall(r) \in Ratios
  BY RatioAssumption DEF AfterCall, Reduced, AtLeastMin, Ratios
<1>2. AfterWatch(r) \in Ratios
  BY RatioAssumption DEF AfterWatch, Halved, AtLeastMin, Ratios
<1>3. ASSUME NEW w \in 0..MaxWatched, NEW boost \in {0, 1}
      PROVE  Boosted(r, w, boost) \in Ratios
  <2>1. PICK b \in Nat : b = Bonus(w, boost)
    BY BonusIsNatural
  <2>2. Boosted(r, w, boost) = IF r = UpperBound THEN r
                               ELSE IF r + b > UpperBound THEN UpperBound - 1 ELSE r + b
    BY <2>1 DEF Boosted, Capped
  <2> QED
    BY <2>2, RatioAssumption DEF Ratios
<1> QED
  BY <1>1, <1>2, <1>3 DEF AfterCall, AfterWatch, Boosted

-----------------------------------------------------------------------------
(* Records *)

\* The first record of a call stack.
LEMMA FreshRecord == Fresh \in Record
  BY RatioAssumption DEF Fresh, Record, Ratios, MaxWatched

\* What an allocation makes of a record.
LEMMA UpdatedRecord ==
  ASSUME NEW r \in Record, NEW q \in {Called(r), Watched(r)}
  PROVE  q \in Record /\ q.depth = 1 /\ (r.ratio = UpperBound => q.ratio = UpperBound)
<1>1. r.ratio \in Ratios /\ r.watched \in 0..MaxWatched
  BY DEF Record
<1>2. PICK x \in Ratios : x = AfterCall(r.ratio) /\ (r.ratio = UpperBound => x = UpperBound)
  BY <1>1, RatiosStay
<1>3. PICK y \in Ratios : y = AfterWatch(r.ratio) /\ (r.ratio = UpperBound => y = UpperBound)
  BY <1>1, RatiosStay
<1>4. CASE q = Called(r)
  <2>1. q = [r EXCEPT !.ratio = x, !.depth = 1]
    BY <1>2, <1>4 DEF Called
  <2> QED
    BY <1>2, <2>1 DEF Record
<1>5. CASE q = Watched(r)
  <2>1. PICK w \in 0..MaxWatched : w = IF r.watched < MaxWatched THEN r.watched + 1 ELSE r.watched
    BY <1>1 DEF MaxWatched
  <2>2. q = [r EXCEPT !.ratio = y, !.depth = 1, !.watched = w]
    BY <1>3, <1>5, <2>1 DEF Watched
  <2> QED
    BY <1>3, <2>2 DEF Record
<1> QED
  BY <1>4, <1>5

\* A record replaced by one that says no less.
LEMMA ReplacedRecord ==
  ASSUME NEW f, RecordsOf(f), NEW s \in DOMAIN f, NEW q \in Record, q.depth = 1,
         NEW g, g = [f EXCEPT ![s] = q]
  PROVE  /\ RecordsOf(g) /\ Captured(f) \subseteq Captured(g) /\ s \in Captured(g)
         /\ g[s] = q /\ \A d \in DOMAIN f : d # s => g[d] = f[d]
<1>1. DOMAIN g = DOMAIN f /\ \A d \in DOMAIN f : g[d] = IF d = s THEN q ELSE f[d]
  OBVIOUS
<1> QED
  BY <1>1 DEF RecordsOf, Captured

\* A record is added.
LEMMA AddedRecord ==
  ASSUME NEW f, RecordsOf(f), NEW s \in Stacks, s \notin DOMAIN f
  PROVE  /\ RecordsOf(Put(f, s, Fresh)) /\ Captured(f) \subseteq Captured(Put(f, s, Fresh))
         /\ \A d \in DOMAIN f : Put(f, s, Fresh)[d] = f[d]
<1> DEFINE g == Put(f, s, Fresh)
<1>1. /\ DOMAIN g = DOMAIN f \cup {s}
      /\ \A d \in DOMAIN g : g[d] = IF d = s THEN Fresh ELSE f[d]
  BY DEF Put
<1> HIDE DEF g
<1>2. RecordsOf(g) /\ Captured(f) \subseteq Captured(g) /\ \A d \in DOMAIN f : g[d] = f[d]
  BY <1>1, FreshRecord DEF RecordsOf, Captured
<1> QED
  BY <1>2 DEF g

\* The file has the records of the map, and what is proven stays proven.
LEMMA SavedRecords ==
  ASSUME NEW f, RecordsOf(f)
  PROVE  /\ RecordsOf(Saved(f)) /\ Captured(Saved(f)) = Captured(f)
         /\ \A s \in DOMAIN f : f[s].ratio = UpperBound => Saved(f)[s].ratio = UpperBound
<1> DEFINE g == Saved(f)
<1>1. PICK boost \in {0, 1} : boost = BoostRatio(f)
  BY DEF BoostRatio
<1>2. DOMAIN g = DOMAIN f
  BY DEF Saved
<1>3. ASSUME NEW s \in DOMAIN f
      PROVE  /\ g[s] \in Record /\ g[s].depth = f[s].depth
             /\ f[s].ratio = UpperBound => g[s].ratio = UpperBound
  <2>1. f[s] \in Record /\ f[s].ratio \in Ratios /\ f[s].watched \in 0..MaxWatched
    BY DEF RecordsOf, Record
  <2>2. PICK x \in Ratios : /\ x = Boosted(f[s].ratio, f[s].watched, boost)
                            /\ f[s].ratio = UpperBound => x = UpperBound
    BY <2>1, RatiosStay
  <2>3. g[s] = [f[s] EXCEPT !.ratio = x]
    BY <1>1, <2>2 DEF Saved
  <2> HIDE DEF g
  <2> QED
    BY <2>1, <2>2, <2>3 DEF Record
<1> HIDE DEF g
<1>4. RecordsOf(g) /\ Captured(g) = Captured(f)
  BY <1>2, <1>3 DEF RecordsOf, Captured
<1> QED
  BY <1>3, <1>4 DEF g

-----------------------------------------------------------------------------
(* The steps *)

\* No file, no process.
LEMMA InitInv == Init => HistoryInv
<1> SUFFICES ASSUME Init PROVE HistoryInv
  OBVIOUS
<1>1. DOMAIN Nothing = {}
  BY DEF Nothing
<1>2. RecordsOf(Nothing) /\ Captured(Nothing) = {}
  BY <1>1 DEF RecordsOf, Captured
<1>3. TypeOK
  BY <1>2 DEF Init, TypeOK, Processes
<1>4. /\ filed = {} /\ inherited = {} /\ \A p \in Processes : phase[p] = "off"
      /\ DOMAIN table = Processes
  BY DEF Init
<1> QED
  BY <1>3, <1>4 DEF HistoryInv, Evident

\* A running process changes its own records and proofs, and loses nothing of them.
LEMMA OwnRecords ==
  ASSUME HistoryInv, NEW p \in Processes, phase[p] = "running",
         NEW f, RecordsOf(f), Captured(table[p]) \subseteq Captured(f),
         NEW S \in SUBSET Stacks, Evident(S, f),
         table' = [table EXCEPT ![p] = f], proven' = [proven EXCEPT ![p] = S],
         UNCHANGED <<phase, file, run, filed, inherited, written>>, updates' \in Nat
  PROVE  HistoryInv'
<1>1. proven \in [Processes -> SUBSET Stacks] /\ DOMAIN table = Processes
  BY DEF HistoryInv, TypeOK
<1>2. /\ DOMAIN table' = Processes /\ proven' \in [Processes -> SUBSET Stacks]
      /\ table'[p] = f /\ proven'[p] = S
      /\ \A q \in Processes \ {p} : table'[q] = table[q] /\ proven'[q] = proven[q]
  BY <1>1
<1>3. TypeOK'
  BY <1>2 DEF HistoryInv, TypeOK, RecordsOf
<1>4. ASSUME NEW q \in Processes, phase'[q] # "off"
      PROVE  Evident(proven[q], table[q])' /\ inherited' \subseteq Captured(table'[q])
  <2>1. Evident(proven[q], table[q]) /\ inherited \subseteq Captured(table[q])
    BY <1>4 DEF HistoryInv
  <2>2. CASE q = p
    BY <1>2, <2>1, <2>2 DEF Evident, Captured
  <2>3. CASE q # p
    BY <1>2, <2>1, <2>3 DEF Evident, Captured
  <2> QED
    BY <2>2, <2>3
<1>5. Evident(filed, file)' /\ (written' /\ ~Saving' => inherited' \subseteq Captured(file'))
  BY DEF HistoryInv, Evident, Captured, Saving
<1> QED
  BY <1>2, <1>3, <1>4, <1>5 DEF HistoryInv, Captured

\* The map gets a record or a better one, a call stack is proven to overflow.
LEMMA MapStep ==
  ASSUME HistoryInv, NEW p \in Processes, NEW s \in Stacks,
         Insert(p, s) \/ Update(p, s) \/ Prove(p, s)
  PROVE  HistoryInv'
<1>1. /\ RecordsOf(table[p]) /\ phase[p] = "running" /\ DOMAIN table = Processes
      /\ proven \in [Processes -> SUBSET Stacks] /\ updates \in Nat
  BY DEF HistoryInv, TypeOK, Insert, Update, Prove
<1>2. Evident(proven[p], table[p])
  BY <1>1 DEF HistoryInv
<1>3. proven[p] \in SUBSET Stacks /\ proven = [proven EXCEPT ![p] = proven[p]]
  BY <1>1
<1>4. CASE Insert(p, s)
  <2> DEFINE f == Put(table[p], s, Fresh)
  <2>1. /\ RecordsOf(f) /\ Captured(table[p]) \subseteq Captured(f)
        /\ \A d \in DOMAIN table[p] : f[d] = table[p][d]
    BY <1>1, <1>4, AddedRecord DEF Insert
  <2>2. /\ table' = [table EXCEPT ![p] = f] /\ proven' = proven /\ updates' = updates
        /\ UNCHANGED <<phase, file, run, filed, inherited, written>>
    BY <1>4 DEF Insert
  <2> HIDE DEF f
  <2>3. Evident(proven[p], f)
    BY <1>2, <2>1 DEF Evident, Captured
  <2> QED
    BY <1>1, <1>3, <2>1, <2>2, <2>3, OwnRecords
<1>5. CASE Update(p, s)
  <2>1. PICK r \in {Called(table[p][s]), Watched(table[p][s])} :
          table' = [table EXCEPT ![p][s] = r]
    BY <1>5 DEF Update
  <2>2. s \in DOMAIN table[p] /\ table[p][s] \in Record
    BY <1>1, <1>5 DEF Update, RecordsOf
  <2>3. r \in Record /\ r.depth = 1 /\ (table[p][s].ratio = UpperBound => r.ratio = UpperBound)
    BY <2>2, UpdatedRecord
  <2> DEFINE f == [table[p] EXCEPT ![s] = r]
  <2>4. table' = [table EXCEPT ![p] = f]
    BY <2>1
  <2>5. /\ RecordsOf(f) /\ Captured(table[p]) \subseteq Captured(f) /\ s \in Captured(f)
        /\ f[s] = r /\ \A d \in DOMAIN table[p] : d # s => f[d] = table[p][d]
    BY <1>1, <2>2, <2>3, ReplacedRecord
  <2>6. /\ proven' = proven /\ updates' \in Nat
        /\ UNCHANGED <<phase, file, run, filed, inherited, written>>
    BY <1>1, <1>5 DEF Update
  <2> HIDE DEF f
  <2>7. Evident(proven[p], f)
    BY <1>2, <2>3, <2>5 DEF Evident, Captured
  <2> QED
    BY <1>1, <1>3, <2>4, <2>5, <2>6, <2>7, OwnRecords
<1>6. CASE Prove(p, s)
  <2> DEFINE r == [table[p][s] EXCEPT !.ratio = UpperBound]
             f == [table[p] EXCEPT ![s] = r]
  <2>1. s \in DOMAIN table[p] /\ table[p][s] \in Record /\ table[p][s].depth = 1
    BY <1>1, <1>6 DEF Prove, RecordsOf
  <2>2. r \in Record /\ r.depth = 1 /\ r.ratio = UpperBound
    BY <2>1, RatioAssumption DEF Record, Ratios
  <2>3. table' = [table EXCEPT ![p] = f]
    BY <1>6 DEF Prove
  <2>4. /\ proven' = [proven EXCEPT ![p] = proven[p] \cup {s}] /\ updates' = updates
        /\ UNCHANGED <<phase, file, run, filed, inherited, written>>
    BY <1>6 DEF Prove
  <2> HIDE DEF r
  <2>5. /\ RecordsOf(f) /\ Captured(table[p]) \subseteq Captured(f) /\ s \in Captured(f)
        /\ f[s] = r /\ \A d \in DOMAIN table[p] : d # s => f[d] = table[p][d]
    BY <1>1, <2>1, <2>2, ReplacedRecord
  <2> HIDE DEF f
  <2>6. Evident(proven[p] \cup {s}, f)
    BY <1>2, <2>2, <2>5 DEF Evident, Captured
  <2>7. proven[p] \cup {s} \in SUBSET Stacks
    BY <1>3
  <2> QED
    BY <1>1, <2>3, <2>4, <2>5, <2>6, <2>7, OwnRecords
<1> QED
  BY <1>4, <1>5, <1>6

\* A run begins with what the file says, in the only process.
LEMMA BeginStep == ASSUME HistoryInv, Begin PROVE HistoryInv'
<1> DEFINE f == [s \in Loadable |-> file[s]]
<1>1. /\ RecordsOf(file) /\ DOMAIN table = Processes /\ Parent \in Processes
      /\ proven \in [Processes -> SUBSET Stacks] /\ filed \in SUBSET Stacks
      /\ phase \in [Processes -> {"off", "running", "saving"}] /\ run \in Nat
      /\ \A p \in Processes : phase[p] = "off"
  BY DEF HistoryInv, TypeOK, Begin, Off, Processes
<1>2. /\ DOMAIN f = Loadable /\ \A s \in Loadable : f[s] = file[s]
      /\ Loadable \subseteq DOMAIN file
  BY DEF Loadable
<1>3. /\ table' = [table EXCEPT ![Parent] = f] /\ proven' = [proven EXCEPT ![Parent] = filed]
      /\ phase' = [phase EXCEPT ![Parent] = "running"] /\ inherited' = Captured(file)
      /\ run' \in Nat /\ written' = TRUE /\ UNCHANGED <<file, filed, updates>>
  BY <1>1 DEF Begin
<1> HIDE DEF f
<1>4. RecordsOf(f) /\ Captured(f) = Captured(file) /\ \A s \in Captured(file) : f[s] = file[s]
  <2>1. \A s \in DOMAIN file : file[s].depth \in {0, 1}
    BY <1>1 DEF RecordsOf, Record
  <2>2. Captured(file) = Loadable
    BY <2>1 DEF Captured, Loadable
  <2> QED
    BY <1>1, <1>2, <2>2 DEF RecordsOf, Captured
<1>5. Evident(filed, file) /\ Evident(filed, f)
  BY <1>4 DEF HistoryInv, Evident
<1>6. /\ DOMAIN table' = Processes /\ proven' \in [Processes -> SUBSET Stacks]
      /\ table'[Parent] = f /\ proven'[Parent] = filed /\ phase'[Parent] = "running"
      /\ phase' \in [Processes -> {"off", "running", "saving"}]
      /\ \A q \in Processes \ {Parent} :
           table'[q] = table[q] /\ proven'[q] = proven[q] /\ phase'[q] = "off"
  BY <1>1, <1>3
<1>7. Captured(file) \subseteq Stacks
  BY <1>1 DEF Captured, RecordsOf
<1>8. TypeOK'
  BY <1>3, <1>4, <1>6, <1>7 DEF HistoryInv, TypeOK, RecordsOf
<1>9. ASSUME NEW q \in Processes, phase'[q] # "off"
      PROVE  Evident(proven[q], table[q])' /\ inherited' \subseteq Captured(table'[q])
  BY <1>3, <1>4, <1>5, <1>6, <1>9 DEF Evident, Captured
<1>10. Evident(filed, file)' /\ inherited' \subseteq Captured(file')
  BY <1>3, <1>5 DEF Evident, Captured
<1> QED
  BY <1>6, <1>8, <1>9, <1>10 DEF HistoryInv, Captured

\* A child knows what its parent knows.
LEMMA ForkStep == ASSUME HistoryInv, Fork PROVE HistoryInv'
<1>1. /\ DOMAIN table = Processes /\ {Parent, Child} \subseteq Processes /\ Parent # Child
      /\ proven \in [Processes -> SUBSET Stacks] /\ phase[Parent] = "running"
      /\ phase \in [Processes -> {"off", "running", "saving"}]
  BY DEF HistoryInv, TypeOK, Fork, Processes, Parent, Child
<1>2. /\ table' = [table EXCEPT ![Child] = table[Parent]]
      /\ proven' = [proven EXCEPT ![Child] = proven[Parent]]
      /\ phase' = [phase EXCEPT ![Child] = "running"]
      /\ UNCHANGED <<file, run, filed, inherited, written, updates>>
  BY DEF Fork
<1>3. /\ DOMAIN table' = Processes /\ proven' \in [Processes -> SUBSET Stacks]
      /\ table'[Child] = table[Parent] /\ proven'[Child] = proven[Parent]
      /\ phase'[Child] = "running"
      /\ phase' \in [Processes -> {"off", "running", "saving"}]
      /\ \A q \in Processes \ {Child} :
           table'[q] = table[q] /\ proven'[q] = proven[q] /\ phase'[q] = phase[q]
  BY <1>1, <1>2
<1>4. TypeOK'
  BY <1>1, <1>2, <1>3 DEF HistoryInv, TypeOK, RecordsOf
<1>5. ASSUME NEW q \in Processes, phase'[q] # "off"
      PROVE  Evident(proven[q], table[q])' /\ inherited' \subseteq Captured(table'[q])
  <2>1. PICK o \in Processes : phase[o] # "off" /\ table'[q] = table[o] /\ proven'[q] = proven[o]
    BY <1>1, <1>3, <1>5
  <2> QED
    BY <1>2, <2>1 DEF HistoryInv, Evident, Captured
<1>6. Saving <=> Saving'
  BY <1>1, <1>3 DEF Saving, HistoryInv, Fork
<1>7. Evident(filed, file)' /\ (written' /\ ~Saving' => inherited' \subseteq Captured(file'))
  BY <1>2, <1>6 DEF HistoryInv, Evident, Captured
<1> QED
  BY <1>3, <1>4, <1>5, <1>7 DEF HistoryInv, Captured

\* A process ends: it truncates the file, or writes it, or dies.
LEMMA EndStep ==
  ASSUME HistoryInv, NEW p \in Processes, Save(p) \/ Write(p) \/ Kill(p)
  PROVE  HistoryInv'
<1>1. /\ DOMAIN table = Processes /\ proven \in [Processes -> SUBSET Stacks]
      /\ phase \in [Processes -> {"off", "running", "saving"}] /\ phase[p] # "off"
      /\ RecordsOf(table[p]) /\ UNCHANGED <<table, run, proven, inherited, updates>>
  BY DEF HistoryInv, TypeOK, Save, Write, Kill
<1>2. /\ phase' \in [Processes -> {"off", "running", "saving"}]
      /\ \A q \in Processes \ {p} : phase'[q] = phase[q]
  BY <1>1 DEF Save, Write, Kill
<1>3. Evident(proven[p], table[p]) /\ inherited \subseteq Captured(table[p])
  BY <1>1 DEF HistoryInv
<1>4. ASSUME NEW q \in Processes, phase'[q] # "off"
      PROVE  Evident(proven[q], table[q])' /\ inherited' \subseteq Captured(table'[q])
  <2>1. phase[q] # "off"
    BY <1>1, <1>2, <1>4
  <2> QED
    BY <1>1, <2>1 DEF HistoryInv, Evident, Captured
<1>5. /\ RecordsOf(file') /\ filed' \subseteq Stacks /\ written' \in BOOLEAN
      /\ Evident(filed, file)'
      /\ written' /\ ~Saving' => inherited' \subseteq Captured(file')
  <2>1. CASE Save(p) /\ DOMAIN table[p] = {}
    <3>1. /\ phase[p] = "running" /\ phase'[p] = "off" /\ ~Saving
          /\ UNCHANGED <<file, filed, written>>
      BY <1>1, <2>1 DEF Save, Saving
    <3>2. inherited \subseteq Captured(file)
      BY <1>3, <2>1 DEF Captured
    <3> QED
      BY <1>1, <3>1, <3>2 DEF HistoryInv, TypeOK, Evident, Captured, RecordsOf
  <2>2. CASE Save(p) /\ DOMAIN table[p] # {}
    <3>1. /\ phase'[p] = "saving" /\ file' = Nothing /\ filed' = {} /\ written' = written
      BY <1>1, <2>2 DEF Save
    <3>2. DOMAIN file' = {}
      BY <3>1 DEF Nothing
    <3>3. Saving'
      BY <3>1 DEF Saving
    <3> QED
      BY <3>1, <3>2, <3>3 DEF HistoryInv, TypeOK, Evident, RecordsOf
  <2>3. CASE Write(p)
    <3>1. file' = Saved(table[p]) /\ filed' = proven[p] /\ written' = TRUE
      BY <2>3 DEF Write
    <3>2. /\ RecordsOf(file') /\ Captured(file') = Captured(table[p])
          /\ \A s \in DOMAIN table[p] : table[p][s].ratio = UpperBound => file'[s].ratio = UpperBound
      BY <1>1, <3>1, SavedRecords
    <3>3. Evident(filed', file')
      BY <1>3, <3>1, <3>2 DEF Evident, Captured
    <3>4. Evident(filed, file)'
      BY <3>3 DEF Evident, Captured
    <3> QED
      BY <1>1, <1>3, <3>1, <3>2, <3>4
  <2>4. CASE Kill(p)
    <3>1. /\ UNCHANGED <<file, filed>> /\ written' = (written /\ phase[p] # "saving")
          /\ phase'[p] = "off"
      BY <1>1, <2>4 DEF Kill
    <3>2. written' /\ ~Saving' => written /\ ~Saving
      BY <1>2, <3>1 DEF Saving
    <3> QED
      BY <1>1, <3>1, <3>2 DEF HistoryInv, TypeOK, Evident, Captured, RecordsOf
  <2> QED
    BY <2>1, <2>2, <2>3, <2>4
<1>6. TypeOK'
  BY <1>1, <1>2, <1>5 DEF HistoryInv, TypeOK, RecordsOf
<1> QED
  BY <1>1, <1>4, <1>5, <1>6 DEF HistoryInv, Captured

\* Every step keeps the invariant.
LEMMA StepInv == HistoryInv /\ [Next]_vars => HistoryInv'
<1> SUFFICES ASSUME HistoryInv, [Next]_vars PROVE HistoryInv'
  OBVIOUS
<1>1. CASE Begin
  BY <1>1, BeginStep
<1>2. CASE Fork
  BY <1>2, ForkStep
<1>3. ASSUME NEW p \in Processes, NEW s \in Stacks, Insert(p, s) \/ Update(p, s) \/ Prove(p, s)
      PROVE  HistoryInv'
  BY <1>3, MapStep
<1>4. ASSUME NEW p \in Processes, Save(p) \/ Write(p) \/ Kill(p) PROVE HistoryInv'
  BY <1>4, EndStep
<1>5. CASE UNCHANGED vars
  BY <1>5 DEF vars, HistoryInv, TypeOK, Evident, Saving, Captured, RecordsOf
<1> QED
  BY <1>1, <1>2, <1>3, <1>4, <1>5 DEF Next, Finished

-----------------------------------------------------------------------------
(* The theorems *)

\* Every state of the history: well-formed records, evidence wherever it was carried, and
\* in the memory of each process all that the file had said when the run began.
THEOREM HistoryInvariant == Spec => []HistoryInv
<1> QED
  BY InitInv, StepInv, PTL DEF Spec

\* Evidence is carried on: a call stack found to overflow (checkPointer) has a captured
\* record with the upper bound in the process that found it, in its children and in the
\* file each of them saves, and in every run that loads it, whatever boosts, allocations,
\* forks and kills come between.
THEOREM EvidenceIsCarried == Spec => []EvidenceCarried
<1>1. HistoryInv => EvidenceCarried
  BY DEF HistoryInv, EvidenceCarried, Evident, Captured
<1> QED
  BY <1>1, HistoryInvariant, PTL

\* A run forgets nothing: what the file told it is in the file when it has ended, unless a
\* process died between truncating (saveHistoryInfo) and writing it.
THEOREM NothingIsForgotten == Spec => []NothingForgotten
<1>1. HistoryInv => NothingForgotten
  <2>1. Off => ~Saving
    BY DEF Off, Saving
  <2> QED
    BY <2>1 DEF HistoryInv, NothingForgotten
<1> QED
  BY <1>1, HistoryInvariant, PTL

-----------------------------------------------------------------------------
(* Frames *)

\* What the mappings of a process are.
LEMMA LayoutMappings ==
  ASSUME NEW L \in Layouts
  PROVE  /\ IsFiniteSet(DOMAIN L) /\ DOMAIN L \subseteq Nat
         /\ \A i \in DOMAIN L :
              /\ L[i].base \in Nat /\ L[i].limit \in Nat /\ L[i].base < L[i].limit
              /\ L[i].file \in Files
         /\ \A i, j \in DOMAIN L : i < j => L[i].limit <= L[j].base
<1>1. PICK n \in 0..MaxMaps : L \in [1..n -> Mapping]
  BY DEF Layouts
<1>2. n \in Nat /\ DOMAIN L = 1..n
  BY <1>1, MappingsAssumption
<1>3. IsFiniteSet(1..n)
  BY <1>2, FS_Interval
<1>4. ASSUME NEW i \in DOMAIN L
      PROVE  /\ L[i].base \in Nat /\ L[i].limit \in Nat /\ L[i].base < L[i].limit
             /\ L[i].file \in Files
  <2>1. L[i] \in Mapping
    BY <1>1, <1>2
  <2> QED
    BY <2>1, MappingsAssumption DEF Mapping
<1>5. \A i, j \in DOMAIN L : i < j => L[i].limit <= L[j].base
  BY DEF Layouts
<1> QED
  BY <1>2, <1>3, <1>4, <1>5

\* What std::map::find gives for an address: the mapping it lies in, but not at its beginning.
LEMMA FoundByAddress ==
  ASSUME NEW L \in Layouts, NEW p \in Nat, NEW m
  PROVE  m \in getMappingByAddress(L, p) <=>
           \E i \in DOMAIN L : m = L[i] /\ L[i].base < p /\ p < L[i].limit
<1>1. ASSUME NEW i \in DOMAIN L
      PROVE  ~Less(L[i], [base |-> p, limit |-> p]) /\ ~Less([base |-> p, limit |-> p], L[i])
               <=> L[i].base < p /\ p < L[i].limit
  BY LayoutMappings DEF Less
<1> QED
  BY <1>1 DEF getMappingByAddress

\* The only mapping of a file is the one that is found by its name.
LEMMA OnlyOne ==
  ASSUME NEW L \in Layouts, NEW f, NEW m \in Only(L, f)
  PROVE  /\ \E i \in DOMAIN L : m = L[i] /\ L[i].file = f /\ \A j \in DOMAIN L : L[j].file = f => j = i
         /\ getMappingByFileName(L, f) = {m}
<1> DEFINE own == {L[i] : i \in {j \in DOMAIN L : L[j].file = f}}
<1>1. m \in own /\ Cardinality(own) = 1
  BY DEF Only
<1>2. IsFiniteSet(own)
  <2> DEFINE D == {j \in DOMAIN L : L[j].file = f}
             g == [j \in D |-> L[j]]
  <2>1. IsFiniteSet(D)
    BY LayoutMappings, FS_Subset
  <2>2. g \in Surjection(D, own)
    BY DEF Surjection
  <2> QED
    BY <2>1, <2>2, FS_Surjection
<1> HIDE DEF own
<1>3. own = {m}
  BY <1>1, <1>2, FS_Singleton
<1>4. PICK i \in DOMAIN L : m = L[i] /\ L[i].file = f
  BY <1>1 DEF own
<1>5. ASSUME NEW j \in DOMAIN L, L[j].file = f PROVE j = i
  <2>1. L[j] = L[i]
    BY <1>3, <1>4, <1>5 DEF own
  <2>2. L[i].base \in Nat /\ L[i].limit \in Nat /\ ~(L[i].limit <= L[i].base) /\ i \in Nat /\ j \in Nat
    BY LayoutMappings
  <2>3. ~(i < j) /\ ~(j < i)
    BY <2>1, <2>2, LayoutMappings
  <2> QED
    BY <2>2, <2>3
<1>6. {j \in DOMAIN L : L[j].file = f /\ \A k \in DOMAIN L : L[k].file = f => k <= j} = {i}
  <2>1. i <= i
    BY LayoutMappings
  <2> QED
    BY <1>4, <1>5, <2>1
<1>7. getMappingByFileName(L, f) = {m}
  BY <1>4, <1>6 DEF getMappingByFileName
<1> QED
  BY <1>4, <1>5, <1>7

\* What is known of a frame that was saved, and of the address it was turned back into.
FrameInv ==
  /\ stage \in {"running", "saved", "restarted", "loaded"}
  /\ layout \in Layouts /\ before \in Layouts
  /\ stage \in {"running", "saved"} => before = layout
  /\ stage # "running" =>
       /\ address \in Addresses /\ frame.orig = address
       /\ \/ getMappingByAddress(before, address) = {} /\ frame.file = NoFile
          \/ \E m \in getMappingByAddress(before, address) :
               frame.file = m.file /\ frame.off = address - m.base
  /\ stage = "loaded" =>
       LET found == getMappingByFileName(layout, frame.file) IN
       \/ found = {} /\ restored = frame.orig
       \/ \E m \in found : restored = m.base + frame.off

\* The invariant holds at first, and every step keeps it.
LEMMA FrameStep ==
  /\ FrameInit => FrameInv
  /\ FrameInv /\ [FrameNext]_frameVars => FrameInv'
<1>1. FrameInit => FrameInv
  BY DEF FrameInit, FrameInv
<1>2. ASSUME FrameInv, NEW p \in Addresses, SaveFrame(p) PROVE FrameInv'
  <2>1. /\ stage' = "saved" /\ address' = p /\ UNCHANGED <<layout, before, restored>>
        /\ before = layout
    BY <1>2 DEF FrameInv, SaveFrame
  <2>2. /\ frame'.orig = p
        /\ \/ getMappingByAddress(before, p) = {} /\ frame'.file = NoFile
           \/ \E m \in getMappingByAddress(before, p) :
                frame'.file = m.file /\ frame'.off = p - m.base
    BY <1>2, <2>1 DEF SaveFrame, Offset
  <2> QED
    BY <1>2, <2>1, <2>2 DEF FrameInv
<1>3. ASSUME FrameInv, Restart PROVE FrameInv'
  BY <1>3 DEF FrameInv, Restart
<1>4. ASSUME FrameInv, Load PROVE FrameInv'
  BY <1>4 DEF FrameInv, Load
<1>5. ASSUME FrameInv, Again PROVE FrameInv'
  BY <1>5 DEF FrameInv, Again
<1>6. ASSUME FrameInv, UNCHANGED frameVars PROVE FrameInv'
  BY <1>6 DEF FrameInv, frameVars
<1> QED
  BY <1>1, <1>2, <1>3, <1>4, <1>5, <1>6 DEF FrameNext

\* What the invariant is for.
LEMMA FrameBack ==
  ASSUME FrameInv
  PROVE  SamePlace
<1> SUFFICES ASSUME stage = "loaded" PROVE SamePlace
  BY DEF SamePlace
<1>1. /\ layout \in Layouts /\ before \in Layouts /\ address \in Nat
      /\ frame.orig = address
  BY MappingsAssumption DEF FrameInv, Addresses
<1>2. \/ getMappingByAddress(before, address) = {} /\ frame.file = NoFile
      \/ \E m \in getMappingByAddress(before, address) :
           frame.file = m.file /\ frame.off = address - m.base
  BY DEF FrameInv
<1>3. \/ getMappingByFileName(layout, frame.file) = {} /\ restored = frame.orig
      \/ \E m \in getMappingByFileName(layout, frame.file) : restored = m.base + frame.off
  BY DEF FrameInv
<1>4. ASSUME NEW f \in Files, NEW m \in Only(before, f), NEW n \in Only(layout, f),
             m.base < address, address < m.limit
      PROVE  restored - n.base = address - m.base
  <2>1. PICK i \in DOMAIN before : m = before[i] /\ before[i].file = f
    BY <1>1, OnlyOne
  <2>2. ASSUME NEW k \in getMappingByAddress(before, address) PROVE k = m
    <3>1. PICK j \in DOMAIN before : k = before[j] /\ before[j].base < address /\ address < before[j].limit
      BY <1>1, FoundByAddress
    <3>2. /\ i \in Nat /\ j \in Nat
          /\ before[i].base \in Nat /\ before[i].limit \in Nat
          /\ before[j].base \in Nat /\ before[j].limit \in Nat
          /\ i < j => before[i].limit <= before[j].base
          /\ j < i => before[j].limit <= before[i].base
      BY <1>1, LayoutMappings
    <3>3. i = j
      BY <1>1, <1>4, <2>1, <3>1, <3>2
    <3> QED
      BY <2>1, <3>1, <3>3
  <2>3. m \in getMappingByAddress(before, address)
    BY <1>1, <1>4, <2>1, FoundByAddress
  <2>4. frame.file = f /\ frame.off = address - m.base
    BY <1>2, <2>1, <2>2, <2>3
  <2>5. getMappingByFileName(layout, f) = {n}
    BY <1>1, OnlyOne
  <2>6. restored = n.base + (address - m.base)
    BY <1>3, <2>4, <2>5
  <2>7. PICK h \in DOMAIN layout : n = layout[h]
    BY <1>1, OnlyOne
  <2>8. n.base \in Nat /\ m.base \in Nat
    BY <1>1, <2>1, <2>7, LayoutMappings
  <2> QED
    BY <1>1, <2>6, <2>8
<1>5. ASSUME \A i \in DOMAIN before : ~contains(before[i], address)
      PROVE  restored = address
  <2>1. ASSUME NEW i \in DOMAIN before PROVE ~(before[i].base < address /\ address < before[i].limit)
    BY <1>1, <1>5, LayoutMappings DEF contains
  <2>2. getMappingByAddress(before, address) = {}
    <3>1. ASSUME NEW k \in getMappingByAddress(before, address) PROVE FALSE
      BY <1>1, <2>1, FoundByAddress
    <3> QED
      BY <3>1
  <2>3. frame.file = NoFile
    BY <1>2, <2>2
  <2>4. \A i \in DOMAIN layout : layout[i].file # NoFile
    BY <1>1, LayoutMappings, MappingsAssumption
  <2>5. getMappingByFileName(layout, NoFile) = {}
    BY <2>4 DEF getMappingByFileName
  <2> QED
    BY <1>1, <1>3, <2>3, <2>5
<1> QED
  BY <1>4, <1>5 DEF SamePlace

\* A frame comes back from the history (operator<<, operator>>) as the same place of the same
\* file, wherever its one text mapping is in the next run, and a frame in no mapping as the
\* same address: for any number of files, mappings and addresses.
THEOREM FramesComeBack == FrameSpec => []SamePlace
<1>1. FrameInv => SamePlace
  BY FrameBack
<1> QED
  BY <1>1, FrameStep, PTL DEF FrameSpec

-----------------------------------------------------------------------------
(* Captured call stacks *)

\* A set of numbers has a least: what is proved of all numbers by way of a least exception.
LEMMA Least ==
  ASSUME NEW S \in SUBSET Nat, S # {}
  PROVE  \E x \in S : \A j \in S : x <= j
<1>1. IsWellFoundedOn(OpToRel(<, Nat), Nat)
  BY NatLessThanWellFounded
<1>2. PICK x \in S : \A j \in S : ~(<<j, x>> \in OpToRel(<, Nat))
  BY <1>1, WFMin
<1>3. ASSUME NEW j \in S PROVE x <= j
  <2>1. x \in Nat /\ j \in Nat
    OBVIOUS
  <2>2. j < x => <<j, x>> \in OpToRel(<, Nat)
    BY <2>1 DEF OpToRel
  <2>3. ~(j < x)
    BY <1>2, <2>2
  <2> QED
    BY <2>1, <2>3
<1> QED
  BY <1>3

\* What becomes of the frames s taken so far at index i of an array.
Entry(array, first, s, i) ==
  CASE i = 0 -> <<>>
    [] i > 0 /\ (i < first \/ (i > 1 /\ array[i] = array[i - 1])) -> s
    [] OTHER -> Append(s, array[i])

\* The frames taken up to each index, from those up to the one before.
Taking(array, first, n, g) == [i \in 0..n |-> Entry(array, first, g[i - 1], i)]

\* There is such a function.
LEMMA TakingExists ==
  ASSUME NEW array, NEW first, NEW n \in Nat
  PROVE  \E g : g = Taking(array, first, n, g)
<1> DEFINE S == {k \in Nat : ~\E g : g = Taking(array, first, k, g)}
<1>1. SUFFICES ASSUME S # {} PROVE FALSE
  OBVIOUS
<1>2. PICK k \in S : \A j \in S : k <= j
  BY <1>1, Least
<1>3. k \in Nat /\ ~\E g : g = Taking(array, first, k, g)
  OBVIOUS
<1>4. CASE k = 0
  <2> DEFINE g == [i \in 0..0 |-> <<>>]
  <2>1. \A s : \A i \in 0..0 : Entry(array, first, s, i) = <<>>
    BY DEF Entry
  <2>2. g = Taking(array, first, 0, g)
    BY <2>1 DEF Taking
  <2> QED
    BY <1>3, <1>4, <2>2
<1>5. CASE k # 0
  <2>1. k - 1 \in Nat /\ ~(k <= k - 1)
    BY <1>3, <1>5
  <2>2. k - 1 \notin S
    BY <1>2, <2>1
  <2>3. PICK g : g = Taking(array, first, k - 1, g)
    BY <2>1, <2>2
  <2> HIDE DEF S
  <2> DEFINE h == [i \in 0..k |-> IF i = k THEN Entry(array, first, g[k - 1], k) ELSE g[i]]
  <2>4. ASSUME NEW i \in 0..k PROVE h[i] = Entry(array, first, h[i - 1], i)
    <3>1. CASE i = k
      <4>1. h[k - 1] = g[k - 1] /\ h[k] = Entry(array, first, g[k - 1], k)
        BY <2>1, <1>3
      <4> QED
        BY <3>1, <4>1
    <3>2. CASE i = 0
      <4>1. \A s : Entry(array, first, s, 0) = <<>>
        BY DEF Entry
      <4>2. h[0] = g[0] /\ 0 \in 0..(k - 1)
        BY <1>3, <1>5, <2>1
      <4>3. g[0] = Entry(array, first, g[0 - 1], 0)
        BY <2>3, <4>2 DEF Taking
      <4> QED
        BY <3>2, <4>1, <4>2, <4>3
    <3>3. CASE i # k /\ i # 0
      <4>1. i \in 0..(k - 1) /\ i - 1 \in 0..(k - 1) /\ i - 1 # k
        BY <1>3, <3>3
      <4>2. h[i] = g[i] /\ h[i - 1] = g[i - 1]
        BY <1>3, <3>3, <4>1
      <4>3. g[i] = Entry(array, first, g[i - 1], i)
        BY <2>3, <4>1 DEF Taking
      <4> QED
        BY <4>2, <4>3
    <3> QED
      BY <3>1, <3>2, <3>3
  <2>5. h = Taking(array, first, k, h)
    <3>1. DOMAIN h = 0..k /\ h = [i \in 0..k |-> h[i]]
      OBVIOUS
    <3> HIDE DEF h
    <3> QED
      BY <2>4, <3>1 DEF Taking
  <2> QED
    BY <1>3, <2>5
<1> QED
  BY <1>4, <1>5

\* getCallsites' loop is that function.
LEMMA CollapsedTakes ==
  ASSUME NEW array, NEW first, Len(array) \in Nat
  PROVE  \E g : /\ g = Taking(array, first, Len(array), g)
                /\ Collapsed(array, first) = g[Len(array)]
<1> DEFINE t == CHOOSE g : g = Taking(array, first, Len(array), g)
<1>1. Collapsed(array, first) = t[Len(array)]
  BY DEF Collapsed, Taking, Entry
<1>2. t = Taking(array, first, Len(array), t)
  BY TakingExists
<1> HIDE DEF t
<1> QED
  BY <1>1, <1>2

\* From an index on whose frame is unlike the one before, that frame is the first one taken.
LEMMA CollapsedFrames ==
  ASSUME NEW X, NEW array \in Seq(X), NEW first \in 1..Len(array),
         first = 1 \/ array[first] # array[first - 1],
         NEW Y, \A i \in first..Len(array) : array[i] \in Y
  PROVE  /\ Collapsed(array, first) \in Seq(Y)
         /\ Collapsed(array, first) # <<>>
         /\ Collapsed(array, first)[1] = array[first]
<1>1. Len(array) \in Nat /\ first \in Nat /\ 0 < first /\ first <= Len(array)
  OBVIOUS
<1>2. PICK g : /\ g = Taking(array, first, Len(array), g)
               /\ Collapsed(array, first) = g[Len(array)]
  BY <1>1, CollapsedTakes
<1> DEFINE P(k) == /\ k < first => g[k] = <<>>
                   /\ ~(k < first) => g[k] \in Seq(Y) /\ g[k] # <<>> /\ g[k][1] = array[first]
           S == {k \in 0..Len(array) : ~P(k)}
<1>3. \A k \in 0..Len(array) : g[k] = Entry(array, first, g[k - 1], k)
  BY <1>2 DEF Taking
<1>4. ASSUME S # {} PROVE FALSE
  <2>1. S \in SUBSET Nat
    BY <1>1
  <2>2. PICK k \in S : \A j \in S : k <= j
    BY <1>4, <2>1, Least
  <2>3. k \in 0..Len(array) /\ ~P(k) /\ k \in Nat
    BY <1>1
  <2>4. CASE k = 0
    <3>1. g[k] = <<>>
      BY <1>3, <2>3, <2>4 DEF Entry
    <3> QED
      BY <1>1, <2>3, <2>4, <3>1
  <2>5. CASE k # 0
    <3>1. k - 1 \in 0..Len(array) /\ ~(k <= k - 1)
      BY <1>1, <2>3, <2>5
    <3>2. P(k - 1)
      BY <2>2, <3>1
    <3> HIDE DEF S
    <3>3. g[k] = Entry(array, first, g[k - 1], k)
      BY <1>3, <2>3
    <3>4. CASE k < first
      <4>1. g[k] = g[k - 1]
        BY <2>3, <2>5, <3>3, <3>4 DEF Entry
      <4>2. k - 1 < first
        BY <1>1, <2>3, <3>4
      <4> QED
        BY <2>3, <3>2, <3>4, <4>1, <4>2
    <3>5. CASE k = first
      <4>1. g[k] = Append(g[k - 1], array[k])
        BY <1>1, <2>5, <3>3, <3>5 DEF Entry
      <4>2. g[k - 1] = <<>> /\ array[k] \in Y
        BY <1>1, <2>3, <3>2, <3>5
      <4>3. ~(k < first)
        BY <1>1, <3>5
      <4>4. Append(<<>>, array[k]) = <<array[k]>>
        OBVIOUS
      <4>5. g[k] \in Seq(Y) /\ g[k] # <<>> /\ g[k][1] = array[first]
        BY <3>5, <4>1, <4>2, <4>4
      <4> QED
        BY <2>3, <4>3, <4>5
    <3>6. CASE first < k
      <4>1. g[k] = g[k - 1] \/ g[k] = Append(g[k - 1], array[k])
        BY <2>5, <3>3 DEF Entry
      <4>2. ~(k - 1 < first) /\ ~(k < first) /\ array[k] \in Y
        BY <1>1, <2>3, <3>6
      <4>3. g[k - 1] \in Seq(Y) /\ g[k - 1] # <<>> /\ g[k - 1][1] = array[first]
        BY <3>2, <4>2
      <4>4. g[k] \in Seq(Y) /\ g[k] # <<>> /\ g[k][1] = array[first]
        <5>1. CASE g[k] = g[k - 1]
          BY <4>3, <5>1
        <5>2. CASE g[k] = Append(g[k - 1], array[k])
          <6>1. Len(g[k - 1]) \in Nat /\ Len(g[k - 1]) # 0
            BY <4>3
          <6>2. /\ Append(g[k - 1], array[k]) \in Seq(Y)
                /\ Len(Append(g[k - 1], array[k])) = Len(g[k - 1]) + 1
                /\ Append(g[k - 1], array[k])[1] = g[k - 1][1]
            BY <4>2, <4>3, <6>1
          <6>3. Append(g[k - 1], array[k]) # <<>>
            <7>1. Len(Append(g[k - 1], array[k])) # 0
              BY <6>1, <6>2
            <7>2. Len(<<>>) = 0
              OBVIOUS
            <7> QED
              BY <7>1, <7>2, Zenon
          <6> QED
            BY ONLY <4>3, <5>2, <6>2, <6>3
        <5> QED
          BY <4>1, <5>1, <5>2
      <4> QED
        BY <2>3, <4>2, <4>4
    <3> QED
      BY <1>1, <2>3, <3>4, <3>5, <3>6
  <2> QED
    BY <2>4, <2>5
<1>5. P(Len(array))
  BY <1>1, <1>4
<1> QED
  BY <1>1, <1>2, <1>5

\* The names in the application are none of the library's.
LEMMA NamesApart ==
  /\ Sites \cap OwnNames = {}
  /\ MAX_CALLSTACK_DEPTH \in Nat /\ MaxFrames \in Nat /\ Inner \in Seq(OwnNames)
  /\ \A e \in Entries : /\ Own[e] \in Seq(OwnNames) /\ Own[e] # <<>>
                        /\ Len(Inner) + Len(Own[e]) < MAX_CALLSTACK_DEPTH
  BY CallSitesAssumption

\* As long as the library knows itself, a captured stack begins with the caller and has no
\* frame of the library.
LEMMA CapturedStack ==
  ASSUME known, NEW a \in Allocations
  PROVE  LET stack == CapturedFrames(Inner \o Own[a.entry] \o a.app) IN
         /\ Caller(a) \in Sites
         /\ stack \in Seq(Sites) /\ stack # <<>> /\ stack[1] = Caller(a)
<1> DEFINE above == Inner \o Own[a.entry]
           frames == above \o a.app
           array == Array(frames)
           N == Len(above)
<1>1. a.entry \in Entries /\ a.app \in Seq(Sites) /\ Len(a.app) \in Nat /\ Len(a.app) >= 1
  <2>1. a.entry \in Entries /\ \E n \in 1..MaxFrames : a.app \in [1..n -> Sites]
    BY DEF Allocations
  <2> QED
    BY <2>1, NamesApart
<1>2. /\ above \in Seq(OwnNames) /\ N \in Nat /\ N >= 1 /\ N < MAX_CALLSTACK_DEPTH
      /\ \A i \in 1..N : above[i] \in OwnNames
  <2>1. /\ Inner \in Seq(OwnNames) /\ Own[a.entry] \in Seq(OwnNames)
        /\ Own[a.entry] # <<>> /\ Len(Inner) + Len(Own[a.entry]) < MAX_CALLSTACK_DEPTH
    BY <1>1, NamesApart
  <2>2. N = Len(Inner) + Len(Own[a.entry]) /\ above \in Seq(OwnNames)
    BY <2>1
  <2>3. Len(Inner) \in Nat /\ Len(Own[a.entry]) \in Nat /\ Len(Own[a.entry]) # 0
    BY <2>1
  <2> HIDE DEF above
  <2> QED
    BY <2>1, <2>2, <2>3, NamesApart
<1> HIDE DEF above
<1>3. /\ frames \in Seq(OwnNames \cup Sites) /\ Len(frames) = N + Len(a.app)
      /\ \A i \in 1..N : frames[i] \in OwnNames
      /\ \A i \in (N + 1)..Len(frames) : frames[i] \in Sites
      /\ frames[N + 1] = a.app[1]
  <2>1. above \in Seq(OwnNames \cup Sites) /\ a.app \in Seq(OwnNames \cup Sites)
    BY <1>1, <1>2
  <2>2. frames \in Seq(OwnNames \cup Sites) /\ Len(frames) = N + Len(a.app)
    BY <2>1
  <2>3. ASSUME NEW i \in 1..N PROVE frames[i] \in OwnNames
    <3>1. frames[i] = above[i]
      BY <1>1, <1>2, <2>1
    <3> QED
      BY <1>2, <3>1
  <2>4. ASSUME NEW i \in (N + 1)..Len(frames)
        PROVE  frames[i] = a.app[i - N] /\ i - N \in 1..Len(a.app)
    BY <1>1, <1>2, <2>1, <2>2
  <2>5. \A i \in 1..Len(a.app) : a.app[i] \in Sites
    BY <1>1
  <2>6. N + 1 \in (N + 1)..Len(frames) /\ (N + 1) - N = 1
    BY <1>1, <1>2, <2>2
  <2> QED
    BY <2>2, <2>3, <2>4, <2>5, <2>6
<1> HIDE DEF frames
<1>4. /\ array \in Seq(OwnNames \cup Sites) /\ Len(array) \in Nat /\ N + 1 <= Len(array)
      /\ \A i \in 1..Len(array) : array[i] = frames[i] /\ i <= Len(frames)
  <2> DEFINE n == IF Len(frames) < MAX_CALLSTACK_DEPTH THEN Len(frames) ELSE MAX_CALLSTACK_DEPTH
  <2>1. array = SubSeq(frames, 1, n)
    BY DEF Array
  <2>2. n \in Nat /\ n <= Len(frames) /\ N + 1 <= n
    BY <1>1, <1>2, <1>3, NamesApart
  <2> HIDE DEF n
  <2> QED
    BY <1>3, <2>1, <2>2
<1> HIDE DEF array
<1>5. \A i \in 1..N : array[i] \in OwnNames /\ array[i] \notin Sites
  <2>1. ASSUME NEW i \in 1..N PROVE array[i] \in OwnNames
    <3>1. i \in 1..Len(array)
      BY <1>2, <1>4
    <3> QED
      BY <1>3, <1>4, <3>1
  <2> QED
    BY <2>1, NamesApart
<1>6. \A i \in (N + 1)..Len(array) : array[i] \in Sites /\ array[i] \notin OwnNames
  <2>1. ASSUME NEW i \in (N + 1)..Len(array) PROVE array[i] \in Sites
    <3>1. i \in 1..Len(array) /\ Len(frames) \in Nat
      BY <1>2, <1>3, <1>4
    <3>2. i \in (N + 1)..Len(frames)
      BY <1>2, <1>4, <3>1
    <3> QED
      BY <1>3, <1>4, <3>1, <3>2
  <2> QED
    BY <2>1, NamesApart
<1> HIDE DEF N
<1> DEFINE Outer(i) == ~isCauserLibrary(array[i]) /\ \A j \in 1..(i - 1) : isCauserLibrary(array[j])
<1>7. ASSUME NEW i \in DOMAIN array PROVE Outer(i) <=> i = N + 1
  <2>1. i \in 1..Len(array)
    BY <1>4
  <2>2. \A j \in 1..Len(array) : isCauserLibrary(array[j]) <=> j <= N
    <3>1. ASSUME NEW j \in 1..Len(array) PROVE isCauserLibrary(array[j]) <=> j <= N
      <4>1. CASE j <= N
        BY <1>2, <1>5, <4>1 DEF isCauserLibrary
      <4>2. CASE ~(j <= N)
        <5>1. j \in (N + 1)..Len(array)
          BY <1>2, <1>4, <4>2
        <5> QED
          BY <1>6, <4>2, <5>1 DEF isCauserLibrary
      <4> QED
        BY <4>1, <4>2
    <3> QED
      BY <3>1
  <2>3. ASSUME i = N + 1 PROVE Outer(i)
    BY <1>2, <1>4, <2>1, <2>2, <2>3
  <2>4. ASSUME Outer(i) PROVE i = N + 1
    <3>1. ~(i <= N)
      BY <2>1, <2>2, <2>4
    <3>2. ASSUME N + 1 < i PROVE FALSE
      <4>1. N + 1 \in 1..(i - 1) /\ N + 1 \in 1..Len(array) /\ ~(N + 1 <= N)
        BY <1>2, <1>4, <2>1, <3>2
      <4> QED
        BY <2>2, <2>4, <4>1
    <3> QED
      BY <1>2, <2>1, <3>1, <3>2
  <2> QED
    BY <2>3, <2>4
<1>8. N + 1 \in DOMAIN array
  BY <1>2, <1>4
<1>9. (CHOOSE i \in DOMAIN array : Outer(i)) = N + 1
  BY <1>7, <1>8
<1>10. CapturedFrames(frames) = Collapsed(array, N + 1)
  BY <1>9 DEF CapturedFrames, array
<1>11. N + 1 \in 1..Len(array) /\ (N + 1) - 1 = N /\ N \in 1..N /\ N + 1 \in (N + 1)..Len(array)
  BY <1>2, <1>4
<1>12. array[N + 1] # array[(N + 1) - 1]
  BY <1>5, <1>6, <1>11
<1>13. /\ Collapsed(array, N + 1) \in Seq(Sites) /\ Collapsed(array, N + 1) # <<>>
       /\ Collapsed(array, N + 1)[1] = array[N + 1]
  <2>1. \A i \in (N + 1)..Len(array) : array[i] \in Sites
    BY <1>6
  <2>2. array \in Seq(OwnNames \cup Sites) /\ N + 1 \in 1..Len(array)
    BY <1>4, <1>11
  <2> QED
    BY <1>12, <2>1, <2>2, CollapsedFrames
<1>14. array[N + 1] = a.app[1]
  BY <1>3, <1>4, <1>11 DEF N
<1>15. a.app[1] \in Sites
  BY <1>1
<1> QED
  BY <1>10, <1>13, <1>14, <1>15 DEF Caller, frames, above

-----------------------------------------------------------------------------
(* Naming *)

Names == Sites \cup OwnNames \cup {"junk"}

NamedRecord == [key : Names, offset : Nat, stack : Seq(Sites), site : Sites,
                exact : BOOLEAN, run : Nat]

\* As long as the library knows itself, the stack of each record is the application's, and a
\* record that was made under its caller, or that comes from the run before, has its caller for
\* a key.
Named(r, now) ==
  /\ r \in NamedRecord
  /\ r.stack # <<>> /\ r.stack[1] = r.site
  /\ r.run <= now
  /\ r.exact \/ r.run < now => r.key = r.site

NamingInv ==
  known =>
    /\ starts \in Nat
    /\ records \in Seq(NamedRecord)
    /\ \A i \in DOMAIN records : Named(records[i], starts)
    /\ Findable /\ BlamesCaller

\* An allocation that is given a record with its key is given its caller's name, if the record
\* has it.
LEMMA GiveStep ==
  ASSUME known, UNCHANGED <<known, starts>>, NEW a \in Allocations, NEW word, NEW r,
         Named(r, starts), r.key = word, Give(a, word, r)
  PROVE  BlamesCaller'
<1>1. r.stack \in Seq(Sites)
  BY DEF Named, NamedRecord
<1>2. {r.stack[i] : i \in DOMAIN r.stack} \cap OwnNames = {}
  BY <1>1, NamesApart
<1>3. got' = r.stack
  BY DEF Give
<1>4. ToSet(got') \cap OwnNames = {}
  BY <1>2, <1>3 DEF ToSet
<1>5. last'.known /\ last'.right => got'[1] = last'.caller
  <2>1. /\ last'.known <=> word = Caller(a)
        /\ last'.right <=> r.exact \/ r.run < starts
        /\ last'.caller = Caller(a)
    BY DEF Give
  <2> QED
    BY <1>3, <2>1 DEF Named
<1> QED
  BY <1>4, <1>5 DEF BlamesCaller

\* An allocation keeps the invariant.
LEMMA AllocateStep ==
  ASSUME NamingInv, NEW a \in Allocations, NEW word \in Names,
         Allocate(a, word)
  PROVE  NamingInv'
<1> DEFINE found == {i \in DOMAIN records : Same(records[i], word, getStackOffset(a))}
           n == Len(records)
           rec == [key |-> word, offset |-> getStackOffset(a),
                   stack |-> CapturedFrames(Inner \o Own[a.entry] \o a.app),
                   site |-> Caller(a), exact |-> word = Caller(a), run |-> starts]
<1>a. /\ rec.site = Caller(a) /\ rec.key = word /\ rec.run = starts
      /\ (rec.exact <=> word = Caller(a)) /\ rec.offset = getStackOffset(a)
      /\ rec.stack = CapturedFrames(Inner \o Own[a.entry] \o a.app)
  OBVIOUS
<1>0. PICK new \in {rec} : TRUE
  OBVIOUS
<1>1. /\ \/ \E i \in found : Give(a, word, records[i]) /\ UNCHANGED records
         \/ found = {} /\ Give(a, word, new) /\ records' = Append(records, new)
      /\ UNCHANGED <<known, starts>>
  BY <1>0 DEF Allocate
<1> SUFFICES ASSUME known PROVE NamingInv'
  BY <1>1 DEF NamingInv
<1>2. /\ starts \in Nat /\ records \in Seq(NamedRecord)
      /\ \A i \in DOMAIN records : Named(records[i], starts)
      /\ Findable
  BY DEF NamingInv
<1>3. /\ Caller(a) \in Sites /\ new.stack \in Seq(Sites) /\ new.stack # <<>>
      /\ new.stack[1] = Caller(a)
  <2> HIDE DEF rec
  <2> QED
    BY <1>0, <1>a, CapturedStack
<1>4. getStackOffset(a) \in Nat
  <2>1. a.entry \in Entries /\ \E k \in 1..MaxFrames : a.app \in [1..k -> Sites]
    BY DEF Allocations
  <2>2. Len(a.app) \in Nat
    BY <2>1, NamesApart
  <2>3. Distance[a.entry] \in Nat
    BY <2>1, CallSitesAssumption
  <2> QED
    BY <2>2, <2>3 DEF getStackOffset
<1>5. /\ new.site = Caller(a) /\ new.key = word /\ new.run = starts
      /\ (new.exact <=> word = Caller(a)) /\ new.offset = getStackOffset(a)
  <2> HIDE DEF rec
  <2> QED
    BY <1>0, <1>a
<1>6. new \in NamedRecord
  <2>1. rec.stack \in Seq(Sites)
    <3> HIDE DEF rec
    <3> QED
      BY <1>0, <1>3
  <2>2. CapturedFrames(Inner \o Own[a.entry] \o a.app) \in Seq(Sites)
    BY <1>a, <2>1
  <2>3. rec \in NamedRecord
    BY <1>2, <1>3, <1>4, <2>2 DEF NamedRecord, Names
  <2> HIDE DEF rec
  <2> QED
    BY <1>0, <2>3
<1>7. Named(new, starts)
  BY <1>2, <1>3, <1>5, <1>6 DEF Named
<1>8. n \in Nat /\ DOMAIN records = 1..n
  BY <1>2
<1>9. ASSUME found = {}, Give(a, word, new), records' = Append(records, new) PROVE NamingInv'
  <2>1. /\ records' \in Seq(NamedRecord) /\ DOMAIN records' = 1..(n + 1) /\ records'[n + 1] = new
        /\ \A i \in 1..n : records'[i] = records[i]
    BY <1>2, <1>6, <1>8, <1>9
  <2> HIDE DEF n
  <2>2. \A i \in DOMAIN records' : Named(records'[i], starts)
    BY <1>2, <1>7, <1>8, <2>1
  <2>3. \A i \in DOMAIN records' : Named(records'[i], starts')
    BY <1>1, <2>2
  <2>4. ASSUME NEW i \in 1..n, records[i].exact, new.exact, records[i].site = new.site,
               records[i].offset = new.offset
        PROVE  FALSE
    <3>1. i \in DOMAIN records /\ i \notin found
      BY <1>8, <1>9
    <3>2. records[i].key = word
      BY <1>2, <1>5, <2>4, <3>1 DEF Named
    <3> QED
      BY <1>5, <2>4, <3>1, <3>2 DEF Same
  <2>5. Findable'
    <3>1. ASSUME NEW i \in DOMAIN records', NEW j \in DOMAIN records',
                 records'[i].exact, records'[j].exact, records'[i].site = records'[j].site,
                 records'[i].offset = records'[j].offset
          PROVE  i = j
      <4>1. CASE i \in 1..n /\ j \in 1..n
        BY <1>2, <1>8, <2>1, <3>1, <4>1 DEF Findable
      <4>2. CASE i = n + 1 /\ j \in 1..n
        BY <2>1, <2>4, <3>1, <4>2
      <4>3. CASE i \in 1..n /\ j = n + 1
        BY <2>1, <2>4, <3>1, <4>3
      <4>4. CASE i = n + 1 /\ j = n + 1
        BY <4>4
      <4> QED
        BY <1>8, <2>1, <4>1, <4>2, <4>3, <4>4
    <3> QED
      BY <3>1 DEF Findable
  <2>6. BlamesCaller'
    BY <1>1, <1>5, <1>7, <1>9, GiveStep
  <2> QED
    BY <1>1, <1>2, <2>1, <2>3, <2>5, <2>6 DEF NamingInv
<1>10. ASSUME NEW i \in found, Give(a, word, records[i]), UNCHANGED records PROVE NamingInv'
  <2>1. Named(records[i], starts) /\ records[i].key = word
    BY <1>2 DEF Same
  <2>2. BlamesCaller'
    <3>1. PICK r \in {records[i]} : TRUE
      OBVIOUS
    <3> QED
      BY <1>1, <1>10, <2>1, <3>1, GiveStep
  <2>3. Findable'
    BY <1>1, <1>2, <1>10 DEF Findable
  <2>4. \A k \in DOMAIN records' : Named(records'[k], starts')
    BY <1>1, <1>2, <1>10
  <2> QED
    BY <1>1, <1>2, <1>10, <2>2, <2>3, <2>4 DEF NamingInv
<1> QED
  BY <1>1, <1>9, <1>10

\* The invariant holds at first, and every step keeps it.
LEMMA NamingStep ==
  /\ SiteInit => NamingInv
  /\ NamingInv /\ [SiteNext]_siteVars => NamingInv'
<1>1. ASSUME SiteInit PROVE NamingInv
  <2>1. records = <<>> /\ starts = 1 /\ ~last.known /\ got = <<>>
    BY <1>1 DEF SiteInit
  <2>2. ToSet(got) = {}
    BY <2>1 DEF ToSet
  <2> QED
    BY <2>1, <2>2 DEF NamingInv, Findable, BlamesCaller
<1>2. ASSUME NamingInv, FirstAllocation PROVE NamingInv'
  <2>1. PICK a \in Allocations : Allocate(a, WalkEnd(a).word)
    BY <1>2 DEF FirstAllocation
  <2>2. PICK word \in {WalkEnd(a).word} : TRUE
    OBVIOUS
  <2>3. Allocate(a, word) /\ known' = known
    <3>1. Allocate(a, word)
      BY <2>1, <2>2
    <3> QED
      BY <3>1 DEF Allocate
  <2>4. known => word \in Names
    BY <2>2, CapturedStack DEF WalkEnd, Names
  <2> QED
    BY <1>2, <2>3, <2>4, AllocateStep DEF NamingInv
<1>3. ASSUME NamingInv, LaterAllocation PROVE NamingInv'
  <2>0. PICK a \in Allocations : \E word \in Words(a) : Allocate(a, word)
    BY <1>3 DEF LaterAllocation
  <2>1. PICK word \in Words(a) : Allocate(a, word)
    BY <2>0
  <2>2. known' = known
    BY <2>1 DEF Allocate
  <2>3. ASSUME known PROVE word \in Names
    <3>1. Caller(a) \in Sites
      BY <2>3, CapturedStack
    <3>2. Own[a.entry][1] \in OwnNames
      <4>1. a.entry \in Entries
        BY DEF Allocations
      <4>2. Own[a.entry] \in Seq(OwnNames) /\ Own[a.entry] # <<>>
        BY <4>1, NamesApart
      <4> QED
        BY <4>2
    <3> QED
      BY <2>1, <3>1, <3>2 DEF Words, Names
  <2> QED
    BY <1>3, <2>1, <2>2, <2>3, AllocateStep DEF NamingInv
<1>4. ASSUME NamingInv, NextRun PROVE NamingInv'
  <2>1. /\ starts' = starts + 1 /\ UNCHANGED <<known, last, got>>
        /\ records' = [i \in DOMAIN records |-> [records[i] EXCEPT !.key = records[i].stack[1]]]
    BY <1>4 DEF NextRun
  <2> SUFFICES ASSUME known PROVE NamingInv'
    BY <2>1 DEF NamingInv
  <2>2. /\ starts \in Nat /\ records \in Seq(NamedRecord)
        /\ \A i \in DOMAIN records : Named(records[i], starts)
        /\ Findable /\ BlamesCaller
    BY <1>4 DEF NamingInv
  <2>3. ASSUME NEW i \in DOMAIN records
        PROVE  /\ records'[i] \in NamedRecord
               /\ records'[i].stack = records[i].stack /\ records'[i].site = records[i].site
               /\ records'[i].key = records[i].site /\ records'[i].exact = records[i].exact
               /\ records'[i].offset = records[i].offset /\ records'[i].run = records[i].run
    <3>1. records[i] \in NamedRecord
      BY <2>2
    <3>2. records'[i] = [records[i] EXCEPT !.key = records[i].site]
      BY <2>1, <2>2 DEF Named
    <3> QED
      BY <3>1, <3>2 DEF NamedRecord, Names
  <2>4. DOMAIN records' = DOMAIN records /\ DOMAIN records = 1..Len(records) /\ Len(records) \in Nat
    BY <2>1, <2>2
  <2>5. records' \in Seq(NamedRecord)
    <3>1. records' \in [1..Len(records) -> NamedRecord]
      BY <2>1, <2>3, <2>4
    <3> QED
      BY <2>4, <3>1
  <2>6. Findable'
    <3>1. ASSUME NEW i \in DOMAIN records', NEW j \in DOMAIN records',
                 records'[i].exact, records'[j].exact, records'[i].site = records'[j].site,
                 records'[i].offset = records'[j].offset
          PROVE  i = j
      <4>1. i \in DOMAIN records /\ j \in DOMAIN records
        BY <2>4
      <4>2. /\ records[i].exact /\ records[j].exact /\ records[i].site = records[j].site
            /\ records[i].offset = records[j].offset
        BY <2>3, <3>1, <4>1
      <4> QED
        BY <2>2, <4>1, <4>2 DEF Findable
    <3> QED
      BY <3>1 DEF Findable
  <2>7. BlamesCaller'
    BY <2>1, <2>2 DEF BlamesCaller
  <2>8. \A i \in DOMAIN records' : Named(records'[i], starts')
    <3>1. ASSUME NEW i \in DOMAIN records' PROVE Named(records'[i], starts')
      <4>1. i \in DOMAIN records
        BY <2>4
      <4>2. records[i].run \in Nat /\ records[i].run <= starts
        BY <2>2, <4>1 DEF Named, NamedRecord
      <4> QED
        BY <2>1, <2>2, <2>3, <4>1, <4>2 DEF Named
    <3> QED
      BY <3>1
  <2> QED
    BY <2>1, <2>2, <2>4, <2>5, <2>6, <2>7, <2>8 DEF NamingInv
<1>5. ASSUME NamingInv, UNCHANGED siteVars PROVE NamingInv'
  BY <1>5 DEF NamingInv, Named, siteVars, Findable, BlamesCaller
<1> QED
  BY <1>1, <1>2, <1>3, <1>4, <1>5 DEF SiteNext

(***************************************************************************)
(* What a call site has learned is found again (findOrAdd, operator== of   *)
(* callstack), in this run by the key of the entry and in the next by the  *)
(* first frame: no second record is made for the same place and depth,     *)
(* with any entry points, stacks and words misread, while the library      *)
(* knows its own mapping.                                                  *)
(***************************************************************************)
THEOREM CallSitesFindable == SiteSpec => []Findable
<1>1. NamingInv => Findable
  BY DEF NamingInv, Findable
<1> QED
  BY <1>1, NamingStep, PTL DEF SiteSpec

(***************************************************************************)
(* A report names the application: the call stack that an allocation is    *)
(* given (getCallsites) has no frame of the library, and begins with its   *)
(* caller, whatever the depth of either, if the array has room for the     *)
(* library's frames, unless the allocation's own key or, in this run, that *)
(* of the record was misread.                                              *)
(***************************************************************************)
THEOREM ReportsNameCaller == SiteSpec => []BlamesCaller
<1>1. NamingInv => BlamesCaller
  BY DEF NamingInv, BlamesCaller
<1> QED
  BY <1>1, NamingStep, PTL DEF SiteSpec

=============================================================================
