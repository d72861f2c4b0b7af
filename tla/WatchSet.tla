------------------------------- MODULE WatchSet -------------------------------
(***************************************************************************)
(* What CSOD's watchpoint table promises to malloc and free, without       *)
(* slots, locks, threads or descriptors: a set of at most MaxWatchpoints   *)
(* watched objects.  An object gets its watch while it is being allocated, *)
(* and keeps it until another object takes its place or it is itself being *)
(* freed; memory goes back to the allocator only when it is not watched.   *)
(***************************************************************************)
EXTENDS Naturals, FiniteSets

CONSTANTS Objects, MaxWatchpoints

VARIABLES
  stage,    \* of each object: "free", "allocating", "live" or "freeing"
  watched   \* the objects that occupy a watchpoint

vars == <<stage, watched>>

Init ==
  /\ stage = [o \in Objects |-> "free"]
  /\ watched = {}

Move(o, from, to) == stage[o] = from /\ stage' = [stage EXCEPT ![o] = to]

\* malloc begins and ends.
Allocate(o) == Move(o, "free", "allocating") /\ UNCHANGED watched
Return(o)   == Move(o, "allocating", "live") /\ UNCHANGED watched

\* calloc: an object that is never watched.
AllocateUnwatched(o) == Move(o, "free", "live") /\ UNCHANGED watched

\* setWatchpoint takes a free watchpoint, or steals that of p.
Watch(o) ==
  /\ stage[o] = "allocating" /\ o \notin watched
  /\ Cardinality(watched) < MaxWatchpoints
  /\ watched' = watched \cup {o}
  /\ UNCHANGED stage

Steal(o, p) ==
  /\ stage[o] = "allocating" /\ o \notin watched
  /\ p \in watched
  /\ watched' = (watched \ {p}) \cup {o}
  /\ UNCHANGED stage

\* free begins, removes the watch if there is one, and gives the memory back.
Free(o)    == Move(o, "live", "freeing") /\ UNCHANGED watched
Unwatch(o) ==
  /\ stage[o] = "freeing" /\ o \in watched
  /\ watched' = watched \ {o}
  /\ UNCHANGED stage
Release(o) == Move(o, "freeing", "free") /\ o \notin watched /\ UNCHANGED watched

Next ==
  \E o \in Objects :
    \/ Allocate(o) \/ Return(o) \/ AllocateUnwatched(o)
    \/ Watch(o) \/ \E p \in Objects : Steal(o, p)
    \/ Free(o) \/ Unwatch(o) \/ Release(o)

Spec == Init /\ [][Next]_vars

=============================================================================
