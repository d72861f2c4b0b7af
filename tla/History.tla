--------------------------------- MODULE History ---------------------------------
(***************************************************************************)
(* What one run of a program learns for the next: the records of the       *)
(* call-stack map, saved to a file when a process exits (operator<<,       *)
(* saveHistoryInfo) and loaded when the program starts again (operator>>,  *)
(* loadHistoryInfo).  A forked child inherits the records and saves them   *)
(* to the same file.  A process may also end without saving, even between  *)
(* the truncation of the file and the writing.                             *)
(*                                                                         *)
(* Not modelled: two processes that save at the same moment; files whose   *)
(* names contain blanks, which operator>> cannot read back.                *)
(***************************************************************************)
EXTENDS Ratio

CONSTANTS
  Stacks,      \* call stacks
  MaxRuns,     \* bound: runs of the program
  MaxUpdates   \* bound: allocations in one behaviour

ASSUME HistoryAssumption == {MaxRuns, MaxUpdates} \subseteq Nat

Parent == "parent"
Child  == "child"
Processes == {Parent, Child}

\* A ratio is boosted according to watchedCounter only while it is below 5.
MaxWatched == 5

Record == [depth : {0, 1}, watched : 0..MaxWatched, ratio : Ratios]

\* As findOrAdd initialises it.
Fresh == [depth |-> 0, watched |-> 0, ratio |-> InitRatio]

Nothing == [s \in {} |-> Fresh]

VARIABLES
  table,      \* per process: the records of its map
  phase,      \* per process: "off", "running" or "saving"
  file,       \* the records of the history file
  run,        \* runs begun
  proven,     \* history, per process: call stacks found to overflow, or loaded as such
  filed,      \* history: those of the process that has written the file
  inherited,  \* history: call stacks in the file when the run began
  written,    \* history: no process of the run has ended between truncation and writing
  updates

vars == <<table, phase, file, run, proven, filed, inherited, written, updates>>

Init ==
  /\ table = [p \in Processes |-> Nothing]
  /\ phase = [p \in Processes |-> "off"]
  /\ file = Nothing
  /\ run = 0
  /\ proven = [p \in Processes |-> {}]
  /\ filed = {} /\ inherited = {}
  /\ written = TRUE
  /\ updates = 0

\* The call stacks of a file whose frames are known.
Captured(f) == {s \in DOMAIN f : f[s].depth > 0}

Off == \A p \in Processes : phase[p] = "off"

\* Mutant of Loadable: a record with a single frame is dropped.
LoadableFromTwo == {s \in DOMAIN file : file[s].depth > 1}

\* loadHistoryInfo drops records whose call stack was never captured.
Loadable == {s \in DOMAIN file : file[s].depth >= 1}

\* The library's constructor, before main.
Begin ==
  /\ Off /\ run < MaxRuns
  /\ run' = run + 1
  /\ phase' = [phase EXCEPT ![Parent] = "running"]
  /\ table' = [table EXCEPT ![Parent] = [s \in Loadable |-> file[s]]]
  /\ proven' = [proven EXCEPT ![Parent] = filed]
  /\ inherited' = Captured(file)
  /\ written' = TRUE
  /\ UNCHANGED <<file, filed, updates>>

Put(f, s, r) == [d \in DOMAIN f \cup {s} |-> IF d = s THEN r ELSE f[d]]

\* findOrAdd: an allocation from a new call stack.
Insert(p, s) ==
  /\ phase[p] = "running"
  /\ s \notin DOMAIN table[p]
  /\ table' = [table EXCEPT ![p] = Put(@, s, Fresh)]
  /\ UNCHANGED <<phase, file, run, proven, filed, inherited, written, updates>>

Called(r) == [r EXCEPT !.ratio = AfterCall(@), !.depth = 1]

Watched(r) ==
  [r EXCEPT !.ratio = AfterWatch(@), !.depth = 1,
            !.watched = IF @ < MaxWatched THEN @ + 1 ELSE @]

\* updateWatchedInfo at the end of an allocation.
Update(p, s) ==
  /\ phase[p] = "running" /\ s \in DOMAIN table[p]
  /\ updates < MaxUpdates
  /\ updates' = updates + 1
  /\ \E r \in {Called(table[p][s]), Watched(table[p][s])} :
       table' = [table EXCEPT ![p][s] = r]
  /\ UNCHANGED <<phase, file, run, proven, filed, inherited, written>>

\* checkPointer: an object of this call stack, allocated in this run, is freed with a
\* broken canary.
Prove(p, s) ==
  /\ phase[p] = "running" /\ s \in DOMAIN table[p]
  /\ table[p][s].depth = 1
  /\ table' = [table EXCEPT ![p][s].ratio = UpperBound]
  /\ proven' = [proven EXCEPT ![p] = @ \cup {s}]
  /\ UNCHANGED <<phase, file, run, filed, inherited, written, updates>>

Fork ==
  /\ phase[Parent] = "running" /\ phase[Child] = "off"
  /\ phase' = [phase EXCEPT ![Child] = "running"]
  /\ table' = [table EXCEPT ![Child] = table[Parent]]
  /\ proven' = [proven EXCEPT ![Child] = proven[Parent]]
  /\ UNCHANGED <<file, run, filed, inherited, written, updates>>

\* exit, without the file being touched if the map is empty; otherwise it is truncated.
Save(p) ==
  /\ phase[p] = "running" /\ \A q \in Processes : phase[q] # "saving"
  /\ IF DOMAIN table[p] = {}
     THEN phase' = [phase EXCEPT ![p] = "off"] /\ UNCHANGED <<file, filed>>
     ELSE phase' = [phase EXCEPT ![p] = "saving"] /\ file' = Nothing /\ filed' = {}
  /\ UNCHANGED <<table, run, proven, inherited, written, updates>>

\* boostratio: 0 as soon as some call stack is known to overflow.
BoostRatio(f) == IF \E s \in DOMAIN f : f[s].ratio = UpperBound THEN 0 ELSE 1

Saved(f) == [s \in DOMAIN f |-> [f[s] EXCEPT !.ratio = Boosted(@, f[s].watched, BoostRatio(f))]]

\* The records are written and the process ends.
Write(p) ==
  /\ phase[p] = "saving"
  /\ file' = Saved(table[p])
  /\ filed' = proven[p]
  /\ written' = TRUE
  /\ phase' = [phase EXCEPT ![p] = "off"]
  /\ UNCHANGED <<table, run, proven, inherited, updates>>

\* SIGKILL or _exit.
Kill(p) ==
  /\ phase[p] # "off"
  /\ written' = (written /\ phase[p] # "saving")
  /\ phase' = [phase EXCEPT ![p] = "off"]
  /\ UNCHANGED <<table, file, run, proven, filed, inherited, updates>>

Finished == Off /\ run = MaxRuns /\ UNCHANGED vars

Next ==
  \/ Begin \/ Fork
  \/ \E p \in Processes :
       \/ \E s \in Stacks : Insert(p, s) \/ Update(p, s) \/ Prove(p, s)
       \/ Save(p) \/ Write(p) \/ Kill(p)
  \/ Finished

Spec == Init /\ [][Next]_vars

-----------------------------------------------------------------------------
(* Properties *)

RecordsOf(f) == DOMAIN f \subseteq Stacks /\ \A s \in DOMAIN f : f[s] \in Record

TypeOK ==
  /\ \A p \in Processes : RecordsOf(table[p])
  /\ phase \in [Processes -> {"off", "running", "saving"}]
  /\ RecordsOf(file)
  /\ run \in Nat /\ updates \in Nat
  /\ proven \in [Processes -> SUBSET Stacks]
  /\ filed \subseteq Stacks /\ inherited \subseteq Stacks
  /\ written \in BOOLEAN

(***************************************************************************)
(* A call stack found to overflow is always watched from then on: in the   *)
(* process that found it, in its children, and in every later run that     *)
(* loads what that process saved, through any number of boosts.            *)
(***************************************************************************)
EvidenceCarried ==
  /\ \A p \in Processes : phase[p] # "off" =>
       \A s \in proven[p] : s \in DOMAIN table[p] /\ table[p][s].ratio = UpperBound
  /\ \A s \in filed : s \in Captured(file) /\ file[s].ratio = UpperBound

(***************************************************************************)
(* A call stack with a record when a run began still has one when the run  *)
(* has ended, unless a process died while it was writing the file.         *)
(***************************************************************************)
NothingForgotten == Off /\ written => inherited \subseteq Captured(file)

=============================================================================
