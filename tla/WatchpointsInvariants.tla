------------------------ MODULE WatchpointsInvariants ------------------------
(***************************************************************************)
(* The inductive invariants behind the properties of Watchpoints.          *)
(*                                                                         *)
(* LockInv says who holds which lock at which point of the code, ThreadInv *)
(* how a thread comes to and leaves the alive list, EventInv which entries *)
(* of the table may be an open event.  These hold in every behaviour.      *)
(*                                                                         *)
(* CoverInv and WatchInv hold as long as no perf event fails (CoverInv)    *)
(* and no object is freed by a thread whose detector is off (WatchInv).    *)
(***************************************************************************)
EXTENDS Watchpoints

Spinning == {"decide", "rlock", "claim", "arm", "fcheck", "frlock", "disable",
             "unlockR", "unlockS"}
Reading  == {"claim", "arm", "disable", "unlockR"}
Writing  == {"cspawn", "cbarrier", "cinsert", "xexit"}
Birth    == {"born", "wait"}

\* The holder of each lock, by the code it is in.
LockInv ==
  /\ \A w \in Slots, t \in Threads : spin[w] = t <=> slot[t] = w /\ pc[t] \in Spinning
  /\ \A t \in Threads : t \in readers <=> pc[t] \in Reading
  /\ \A t \in Threads : writer = t <=> pc[t] \in Writing
  /\ writer # NoThread => readers = {}

\* A thread is on the alive list from its parent's listInsertTail to its exit.
ThreadInv ==
  /\ newborn # NoThread <=> \E t \in Threads : pc[t] \in {"cbarrier", "cinsert"}
  /\ newborn \notin alive
  /\ \A t \in Threads : pc[t] \in Birth => t = newborn
  /\ \A t \in Threads :
       /\ pc[t] = "cbarrier" => pc[newborn] \in Birth
       /\ pc[t] = "cinsert" => pc[newborn] \notin Birth \cup {"absent"}
  /\ \A t \in alive : pc[t] \notin Birth \cup {"absent"}
  /\ \A t \in Threads : pc[t] # "absent" => t \in alive \cup {newborn}

\* A slot about to be armed has no open event left, nor has a thread about to open its own.
EventInv ==
  /\ EventsOwned
  /\ \A t \in Threads :
       pc[t] = "arm" => used[slot[t]] /\ \A u \in Threads : fd[slot[t]][u] \notin Open
  /\ \A t \in Threads, w \in Slots : pc[t] = "born" => fd[w][t] \notin Open

\* A slot is overwritten while in use only by a stealing call, and a free disables
\* the slot that watches its object.
SlotInv ==
  \A t \in Threads :
    /\ pc[t] \in PcSet \ {"start", "roll"} => op[t] \in {"install", "steal"}
    /\ pc[t] \in PcStop => op[t] = "free"
    /\ pc[t] \in {"rlock", "claim"} => ~used[slot[t]] \/ op[t] = "steal"
    /\ pc[t] \in {"frlock", "disable"} => Watches(slot[t], arg[t])

\* Every conjunct that holds whatever fails.
Safe == TypeOK /\ LockInv /\ ThreadInv /\ EventInv /\ SlotInv /\ CountCoversUsed

\* A newborn that has opened its events has one for every slot in use.
\* Before an index is given out again, only the columns of threads that are gone hold
\* numbers left over.
CoverInv ==
  /\ failures = 0 /\ ~orphaned
  /\ \A w \in Slots, t \in alive : used[w] /\ ~MidInstall(w) => Watching(w, t)
  /\ newborn # NoThread /\ pc[newborn] # "born" =>
       \A w \in Slots : used[w] => Watching(w, newborn)
  /\ ~reused => \A w \in Slots, t \in Threads :
                  fd[w][t] # "lapsed" /\ (fd[w][t] = "stale" => pc[t] = "absent")

InSet(t)  == pc[t] \in PcSet \/ (pc[t] \in PcUnlock /\ op[t] # "free")
InStop(t) == pc[t] \in PcStop \/ (pc[t] \in PcUnlock /\ op[t] = "free")

\* The slots in which thread t may find the object of its call watched.
MayWatch(t) ==
  CASE pc[t] = "arm"                                     -> {slot[t]}
    [] pc[t] \in PcUnlock /\ op[t] = "placed"            -> {slot[t]}
    [] pc[t] = "scan"                                    -> {w \in Slots : w >= slot[t]}
    [] pc[t] \in {"fspin", "fcheck", "frlock", "disable"} -> {slot[t]}
    [] OTHER                                             -> {}

WatchInv ==
  /\ ghosts = 0
  /\ OneSlotPerObject
  /\ \A w \in Slots : used[w] => obj[w] \in Objects /\ heap[obj[w]] # "free"
  /\ \A t \in Threads :
       /\ InSet(t) => arg[t] \in Objects /\ heap[arg[t]] = "allocating"
       /\ InStop(t) => arg[t] \in Objects /\ heap[arg[t]] = "freeing"
       /\ ~InSet(t) /\ ~InStop(t) => arg[t] = NoObject
  /\ \A t, u \in Threads : arg[t] = arg[u] /\ arg[t] \in Objects => t = u
  /\ \A t \in Threads, w \in Slots :
       Watches(w, arg[t]) /\ arg[t] \in Objects => w \in MayWatch(t)

\* The conjuncts that hold when nothing fails.
SafeUnfailing == Safe /\ CoverInv /\ WatchInv

=============================================================================
