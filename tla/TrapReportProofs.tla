--------------------------- MODULE TrapReportProofs ---------------------------
(***************************************************************************)
(* Proofs about TrapReport: with any number of threads, slots and objects, *)
(* a trap that nobody has overtaken is reported, for the right object, and *)
(* no event stays off.                                                     *)
(***************************************************************************)
EXTENDS TrapReport, SequenceTheorems, WellFoundedInduction, TLAPS

-----------------------------------------------------------------------------
(* The inductive invariant *)

Working == {"close", "cs", "open"}

Handling == {"trap", "lookup", "disable", "look", "enable", "tell", "release"}

EventType == [object : Objects \cup {NoObject}, thread : Threads \cup {0}, on : BOOLEAN]

AccessType ==
  [object : Objects \cup {NoObject}, place : Places \cup {"none"}, write : BOOLEAN]

Labels == {"app"} \cup Working \cup Handling

TypeInv ==
  /\ alive \subseteq Threads
  /\ isUsed \in [Slots -> BOOLEAN]
  /\ addr \in [Slots -> Objects \cup {NoObject}]
  /\ callstack \in [Slots -> Objects \cup {NoObject}]
  /\ fd \in [Slots -> [Threads -> Numbers \cup {0}]]
  /\ spin \subseteq Slots
  /\ event \in [Numbers -> EventType]
  /\ \A n \in Numbers : event[n] = Closed \/ event[n].thread \in Threads
  /\ live \subseteq Objects /\ smashed \subseteq Objects
  /\ pc \in [Threads -> Labels]
  /\ slot \in [Threads -> Slots \cup {0}]
  /\ new \in [Threads -> Objects \cup {NoObject}]
  /\ todo \in [Threads -> SUBSET Threads]
  /\ sig \in [Threads -> Numbers \cup {0}]
  /\ isread \in [Threads -> BOOLEAN]
  /\ access \in [Threads -> AccessType]
  /\ told \in [Threads -> Objects \cup {NoObject}]
  /\ early \in [Threads -> BOOLEAN] /\ evicted \in [Threads -> BOOLEAN]
  /\ echoed \in BOOLEAN /\ lapsed \in BOOLEAN /\ foreign \in BOOLEAN
  /\ failures \in Nat

\* Who works on which slot: the spinlock is the owner's, and a slot has one.
OwnerInv ==
  /\ \A t \in Threads : pc[t] # "app" => t \in alive
  /\ \A t \in Threads : pc[t] \in Working => slot[t] \in spin /\ todo[t] \subseteq alive
  /\ \A t, u \in Threads : pc[t] \in Working /\ pc[u] \in Working /\ slot[t] = slot[u] => t = u
  /\ \A s \in spin : \E t \in Threads : pc[t] \in Working /\ slot[t] = s

\* A slot holds an object until its last event is closed.
Held(s) == isUsed[s] /\ \A t \in Threads : pc[t] \in {"cs", "open"} => slot[t] # s

\* The objects of the slots, old and new.
ObjectInv ==
  /\ \A s \in Slots : Held(s) => addr[s] = callstack[s] /\ callstack[s] \in live
  /\ \A r, s \in Slots : Held(r) /\ Held(s) /\ callstack[r] = callstack[s] => r = s
  /\ \A t \in Threads :
       /\ new[t] # NoObject => pc[t] \in Working /\ new[t] \notin live
       /\ pc[t] \in {"cs", "open"} =>
            new[t] # NoObject /\ isUsed[slot[t]] /\ addr[slot[t]] = new[t]
       /\ pc[t] = "open" => callstack[slot[t]] = new[t]
       /\ pc[t] = "close" /\ ~isUsed[slot[t]] => todo[t] = {} /\ new[t] # NoObject
  /\ \A t, u \in Threads : new[t] = new[u] /\ new[t] # NoObject => t = u

\* Slot s watches object o in thread u: it is in use and at rest, or its events are being
\* closed or opened and this one still is or already is open.
Watches(s, u, o) ==
  /\ u \in alive /\ isUsed[s] /\ callstack[s] = o
  /\ \A t \in Threads :
       pc[t] \in Working /\ slot[t] = s =>
         \/ pc[t] = "close" /\ u \in todo[t]
         \/ pc[t] = "open" /\ u \notin todo[t]

IsOpen(n) == event[n].thread # 0

\* An open event is some slot's, and as long as no thread is without events, a slot has one
\* for each thread.
EventInv ==
  /\ \A n \in Numbers : IsOpen(n) =>
       \E s \in Slots : fd[s][event[n].thread] = n
                        /\ Watches(s, event[n].thread, event[n].object)
  /\ ~Uncovered =>
       \A s \in Slots, u \in Threads : Watches(s, u, callstack[s]) =>
         /\ fd[s][u] \in Numbers /\ IsOpen(fd[s][u])
         /\ event[fd[s][u]].thread = u /\ event[fd[s][u]].object = callstack[s]

\* A slot that has been used has a call stack; what has been closed leaves no number.
NumberInv ==
  /\ \A s \in Slots, u \in Threads : fd[s][u] # 0 => callstack[s] \in Objects
  /\ \A t \in Threads : pc[t] = "close" /\ isUsed[slot[t]] =>
       \A u \in alive \ todo[t] : fd[slot[t]][u] = 0

\* An event that is off is about to be switched on again.
OffInv ==
  \A n \in Numbers : IsOpen(n) /\ ~event[n].on =>
    \E t \in Threads : sig[t] = n /\ pc[t] \in {"look", "enable"}

\* A handler whose event has not been closed.
Current(t) == pc[t] \in Handling /\ ~evicted[t]

Overwritten(t) == access[t].object \in smashed

\* What a handler knows.
Known(t) ==
  /\ pc[t] \in Handling => sig[t] \in Numbers
  /\ told[t] # NoObject => pc[t] = "release"
  /\ pc[t] \in {"disable", "look", "enable", "tell"} =>
       slot[t] \in Slots /\ callstack[slot[t]] \in Objects
  /\ Current(t) =>
       /\ IsOpen(sig[t]) /\ event[sig[t]].thread = t
       /\ event[sig[t]].object = access[t].object
       /\ access[t].object \in live
       /\ access[t].write => Overwritten(t)
       /\ pc[t] = "look" /\ ~lapsed => ~event[sig[t]].on
  /\ Current(t) /\ ~early[t] /\ ~Uncovered =>
       /\ pc[t] \in {"disable", "look", "enable", "tell"} =>
            fd[slot[t]][t] = sig[t] /\ Watches(slot[t], t, access[t].object)
       /\ pc[t] \in {"enable", "tell"} \/ (pc[t] = "release" /\ told[t] # NoObject) =>
            /\ isread[t] => ~access[t].write
            /\ ~isread[t] => Overwritten(t)
       /\ pc[t] = "release" /\ told[t] # NoObject => told[t] = access[t].object

HandlerInv == \A t \in Threads : Known(t)

TrapInv ==
  /\ TypeInv /\ OwnerInv /\ ObjectInv /\ EventInv /\ NumberInv /\ OffInv /\ HandlerInv
  /\ TrapReported
  /\ echoed => lapsed \/ Uncovered

-----------------------------------------------------------------------------
(* Sets and events *)

\* What the constants are.
LEMMA Basics ==
  /\ NoObject \notin Objects /\ 0 \notin Numbers /\ 0 \notin Slots /\ 0 \notin Threads
  /\ Threads \subseteq Nat /\ Slots \subseteq Nat /\ Numbers \subseteq Nat
  /\ WPs \in Nat /\ NThreads \in Nat /\ MaxCalls \in Nat /\ MaxFailures \in Nat
  /\ Places \cap {"none"} = {}
  BY TrapAssumption DEF Numbers, Slots, Threads, Places

\* The labels.
LEMMA LabelList ==
  /\ {"app", "close", "cs", "open", "trap", "lookup", "disable", "look", "enable", "tell",
      "release"} \subseteq Labels
  /\ \A l \in Labels : (l \in Working <=> l \in {"close", "cs", "open"})
                       /\ (l \in Handling <=> l \notin Working /\ l # "app")
  BY DEF Labels, Working, Handling

\* A thread goes to a label.
LEMMA Going ==
  ASSUME TypeInv, NEW t \in Threads, NEW l \in Labels, pc' = [pc EXCEPT ![t] = l]
  PROVE  /\ pc' \in [Threads -> Labels]
         /\ pc'[t] = l /\ \A u \in Threads : u # t => pc'[u] = pc[u]
  BY DEF TypeInv

\* What the accesses of handlers are.
LEMMA Accesses ==
  /\ None \in AccessType
  /\ \A o \in Objects, p \in Places, w \in BOOLEAN :
       [object |-> o, place |-> p, write |-> w] \in AccessType
  /\ \A a \in AccessType :
       /\ [a EXCEPT !.place = "none"] \in AccessType
       /\ [a EXCEPT !.place = "none"].object = a.object
       /\ [a EXCEPT !.place = "none"].write = a.write
  BY DEF AccessType, None

\* A set of natural numbers has a least element, which is its minimum.
LEMMA LeastOf == ASSUME NEW S, S \subseteq Nat, S # {} PROVE Min(S) \in S /\ \A j \in S : Min(S) <= j
<1>1. IsWellFoundedOn(OpToRel(<, Nat), Nat)
  BY NatLessThanWellFounded
<1>2. PICK i \in S : \A j \in S : ~(<<j, i>> \in OpToRel(<, Nat))
  BY <1>1, WFMin
<1>3. ASSUME NEW j \in S PROVE i <= j
  <2>1. i \in Nat /\ j \in Nat /\ <<j, i>> \in Nat \X Nat
    OBVIOUS
  <2>2. j < i => <<j, i>> \in OpToRel(<, Nat)
    BY <2>1 DEF OpToRel
  <2>3. ~(j < i)
    BY <1>2, <2>2
  <2> QED
    BY <2>1, <2>3
<1>4. \E x \in S : \A y \in S : x <= y
  BY <1>3
<1> QED
  BY <1>4 DEF Min

\* What closed events are.
LEMMA ClosedType == Closed \in EventType /\ Closed.thread = 0 /\ Closed.object = NoObject
                    /\ Closed.on = FALSE
  BY DEF Closed, EventType

\* An event that is not closed has a thread.
LEMMA OpenEvents ==
  ASSUME TypeInv, NEW n \in Numbers
  PROVE  /\ IsOpen(n) <=> event[n] # Closed
         /\ IsOpen(n) <=> event[n].thread \in Threads
  BY ClosedType, Basics DEF TypeInv, IsOpen

\* Switching an event on or off changes nothing else.
LEMMA SwitchedEvents ==
  ASSUME TypeInv, NEW n, NEW on \in BOOLEAN, event' = Switched(n, on)
  PROVE  /\ event' \in [Numbers -> EventType]
         /\ \A m \in Numbers :
              /\ event'[m].object = event[m].object /\ event'[m].thread = event[m].thread
              /\ event'[m] = Closed \/ event'[m].thread \in Threads
              /\ m # n => event'[m] = event[m]
              /\ m = n => event'[m].on = (on /\ IsOpen(m))
<1> DEFINE v == on /\ event[n] # Closed
<1>1. v \in BOOLEAN
  OBVIOUS
<1>2. event' = [event EXCEPT ![n].on = v]
  BY DEF Switched
<1>3. n \in Numbers => v = (on /\ IsOpen(n))
  BY OpenEvents
<1>4. ~v \/ event[n] # Closed
  OBVIOUS
<1> HIDE DEF v
<1>5. event \in [Numbers -> EventType]
  BY DEF TypeInv
<1>6. event' \in [Numbers -> EventType]
  BY <1>1, <1>2, <1>5 DEF EventType
<1>7. ASSUME NEW m \in Numbers, m # n PROVE event'[m] = event[m]
  BY <1>2, <1>5, <1>7
<1>8. ASSUME n \in Numbers
      PROVE  /\ event'[n].object = event[n].object /\ event'[n].thread = event[n].thread
             /\ event'[n].on = v
  BY <1>1, <1>2, <1>5, <1>8 DEF EventType
<1>9. ASSUME n \in Numbers PROVE event'[n] = Closed \/ event'[n].thread \in Threads
  <2>1. CASE event[n].thread \in Threads
    BY <1>8, <1>9, <2>1
  <2>2. CASE event[n] = Closed
    <3>1. v = FALSE
      BY <1>1, <1>4, <2>2
    <3>2. event[n].on = FALSE
      BY <2>2, ClosedType
    <3>3. event' = [event EXCEPT ![n] = [event[n] EXCEPT !.on = FALSE]]
      BY <1>2, <3>1
    <3>4. event'[n] = [Closed EXCEPT !.on = FALSE]
      BY <1>5, <1>9, <2>2, <3>3
    <3> QED
      BY <3>4 DEF Closed
  <2> QED
    BY <1>9, <2>1, <2>2 DEF TypeInv
<1>10. ASSUME NEW m \in Numbers, m # n PROVE event'[m] = Closed \/ event'[m].thread \in Threads
  BY <1>7, <1>10 DEF TypeInv
<1> QED
  BY <1>3, <1>6, <1>7, <1>8, <1>9, <1>10

\* New events get numbers that are free, one for each slot.
LEMMA GivenNumbers ==
  ASSUME NEW slots \in SUBSET Slots, NEW given \in Given(slots)
  PROVE  /\ given \in [slots -> Numbers]
         /\ \A s \in slots : event[given[s]] = Closed /\ ~IsOpen(given[s])
         /\ \A r, s \in slots : given[r] = given[s] => r = s
<1>1. /\ given \in [slots -> Free]
      /\ \A r, s \in slots : r < s => given[r] < given[s]
  BY DEF Given
<1>2. given \in [slots -> Numbers]
  BY <1>1 DEF Free
<1>3. ASSUME NEW s \in slots PROVE event[given[s]] = Closed /\ ~IsOpen(given[s])
  BY <1>1, ClosedType DEF Free, IsOpen
<1>4. ASSUME NEW r \in slots, NEW s \in slots, given[r] = given[s] PROVE r = s
  <2>1. r \in Nat /\ s \in Nat /\ given[r] \in Nat /\ given[s] \in Nat
    BY <1>2, Basics
  <2>2. ~(r < s) /\ ~(s < r)
    BY <1>1, <1>4, <2>1
  <2> QED
    BY <2>1, <2>2
<1> QED
  BY <1>2, <1>3, <1>4

\* Closing numbers changes no other event.
LEMMA WithoutEvents ==
  ASSUME TypeInv, NEW numbers, event' = Without(numbers)
  PROVE  /\ event' \in [Numbers -> EventType]
         /\ \A n \in Numbers : event'[n] = Closed \/ event'[n].thread \in Threads
         /\ \A n \in Numbers : n \in numbers => event'[n] = Closed
         /\ \A n \in Numbers : n \notin numbers => event'[n] = event[n]
  BY ClosedType DEF TypeInv, Without

\* A thread that works on a slot has one.
LEMMA WorkersSlot ==
  ASSUME TypeInv, OwnerInv, NEW t \in Threads, pc[t] \in Working
  PROVE  slot[t] \in Slots /\ slot[t] \in spin /\ t \in alive /\ todo[t] \subseteq alive
  BY DEF TypeInv, OwnerInv, Working

-----------------------------------------------------------------------------
(* Types *)

\* Every step keeps the types.
LEMMA TypeStep ==
  ASSUME TypeInv, OwnerInv, ObjectInv, HandlerInv, Next
  PROVE  TypeInv'
<1> PICK t \in Threads : Step(t)
  BY DEF Next
<1> USE DEF Goto, vars, table, sigs
<1>1. CASE Access(t)
  <2>2. PICK o \in live, place \in Places, write \in BOOLEAN :
          /\ smashed' = smashed \cup IF write THEN {o} ELSE {}
          /\ \/ UNCHANGED <<pc, sig, access>>
             \/ /\ \E n \in Hits(t, o) : sig' = [sig EXCEPT ![t] = n]
                /\ access' = [access EXCEPT ![t] =
                                [object |-> o, place |-> place, write |-> write]]
                /\ pc' = [pc EXCEPT ![t] = "trap"]
    BY <1>1 DEF Access
  <2>3. smashed' \subseteq Objects
    BY <2>2 DEF TypeInv
  <2>4. sig' \in [Threads -> Numbers \cup {0}]
    BY <2>2 DEF TypeInv, Hits
  <2>5. access' \in [Threads -> AccessType]
    BY <2>2, Accesses DEF TypeInv
  <2>6. pc' \in [Threads -> Labels]
    BY <2>2, LabelList DEF TypeInv
  <2> QED
    BY <1>1, <2>3, <2>4, <2>5, <2>6 DEF Access, TypeInv
<1>2. CASE Classify(t)
  <2>1. pc' \in [Threads -> Labels]
    <3>1. \E l \in Labels : pc' = [pc EXCEPT ![t] = l]
      BY <1>2, LabelList DEF Classify
    <3> QED
      BY <3>1, Going
  <2>2. access' \in [Threads -> AccessType]
    <3>1. \/ access' = [access EXCEPT ![t] = None]
          \/ access' = [access EXCEPT ![t] = [access[t] EXCEPT !.place = "none"]]
      BY <1>2 DEF Classify, Forget
    <3>2. access[t] \in AccessType /\ access \in [Threads -> AccessType]
      BY DEF TypeInv
    <3>3. \E a \in AccessType : access' = [access EXCEPT ![t] = a]
      BY <3>1, <3>2, Accesses
    <3> QED
      BY <3>2, <3>3
  <2> QED
    BY <1>2, <2>1, <2>2 DEF Classify, Forget, TypeInv
<1>3. CASE Lookup(t)
  <2> DEFINE found == {s \in Slots : Has(s, sig[t])}
             s == Min(found)
  <2>1. found # {} => s \in Slots
    BY LeastOf, Basics
  <2>2. pc' \in [Threads -> Labels]
    <3>1. \E l \in Labels : pc' = [pc EXCEPT ![t] = l]
      BY <1>3, LabelList DEF Lookup
    <3> QED
      BY <3>1, Going
  <2>3. slot' \in [Threads -> Slots \cup {0}] /\ early' \in [Threads -> BOOLEAN]
    <3>1. CASE found = {}
      BY <1>3, <3>1 DEF Lookup, TypeInv
    <3>2. CASE found # {}
      <4>1. /\ slot' = [slot EXCEPT ![t] = s]
            /\ early' = [early EXCEPT ![t] = \E u \in Awaited(s) : fd[s][u] = sig[t]]
        BY <1>3, <3>2 DEF Lookup
      <4> HIDE DEF found, s
      <4> QED
        BY <2>1, <3>2, <4>1 DEF TypeInv
    <3> QED
      BY <3>1, <3>2
  <2> QED
    BY <1>3, <2>2, <2>3 DEF Lookup, TypeInv
<1>4. CASE Disable(t) \/ Enable(t)
  <2>1. \E on \in BOOLEAN : event' = Switched(sig[t], on)
    BY <1>4 DEF Disable, Enable, Enabled
  <2>2. event' \in [Numbers -> EventType]
        /\ \A m \in Numbers : event'[m] = Closed \/ event'[m].thread \in Threads
    BY <2>1, SwitchedEvents
  <2>3. pc' \in [Threads -> Labels]
    <3>1. \E l \in Labels : pc' = [pc EXCEPT ![t] = l]
      BY <1>4, LabelList DEF Disable, Enable
    <3> QED
      BY <3>1, Going
  <2>4. lapsed' \in BOOLEAN
    BY <1>4 DEF TypeInv, Disable, Enable, Lapse
  <2> QED
    BY <1>4, <2>2, <2>3, <2>4 DEF Disable, Enable, TypeInv
<1>5. CASE Look(t) \/ Tell(t) \/ Release(t)
  <2>1. pc' \in [Threads -> Labels]
    <3>1. \E l \in Labels : pc' = [pc EXCEPT ![t] = l]
      BY <1>5, LabelList DEF Look, Tell, Release
    <3> QED
      BY <3>1, Going
  <2>2. isread' \in [Threads -> BOOLEAN] /\ echoed' \in BOOLEAN
    BY <1>5 DEF TypeInv, Look, Tell, Release, Forget
  <2>3. told' \in [Threads -> Objects \cup {NoObject}]
    <3>1. CASE Tell(t)
      <4>1. told' = [told EXCEPT ![t] = callstack[slot[t]]]
        BY <3>1 DEF Tell
      <4>2. slot[t] \in Slots
        BY <3>1 DEF Tell, HandlerInv, Known
      <4> QED
        BY <3>1, <4>1, <4>2 DEF TypeInv
    <3> QED
      BY <1>5, <3>1 DEF TypeInv, Look, Release, Forget
  <2>4. access' \in [Threads -> AccessType]
    BY <1>5, Accesses DEF TypeInv, Look, Tell, Release, Forget
  <2>5. slot' \in [Threads -> Slots \cup {0}]
    BY <1>5 DEF TypeInv, Look, Tell, Release
  <2>6. /\ UNCHANGED <<alive, table, spin, event, live, smashed, new, todo, lapsed, foreign, failures>>
        /\ sig' \in [Threads -> Numbers \cup {0}]
        /\ early' \in [Threads -> BOOLEAN] /\ evicted' \in [Threads -> BOOLEAN]
    BY <1>5 DEF Look, Tell, Release, Forget, TypeInv
  <2> QED
    BY <2>1, <2>2, <2>3, <2>4, <2>5, <2>6 DEF TypeInv
<1>6. CASE Take(t)
  <2>1. pc' \in [Threads -> Labels]
    <3>1. \E l \in Labels : pc' = [pc EXCEPT ![t] = l]
      BY <1>6, LabelList DEF Take
    <3> QED
      BY <3>1, Going
  <2> QED
    BY <1>6, <2>1 DEF Take, TypeInv
<1>7. CASE Unwatch(t)
  <2>1. pc' \in [Threads -> Labels]
    <3>1. UNCHANGED pc \/ \E l \in Labels : pc' = [pc EXCEPT ![t] = l]
      BY <1>7, LabelList DEF Unwatch
    <3> QED
      BY <3>1, Going DEF TypeInv
  <2>2. \/ spin' = spin /\ slot' = slot /\ todo' = todo /\ live' \subseteq live
        \/ /\ UNCHANGED live
           /\ todo' = [todo EXCEPT ![t] = alive]
           /\ \E s \in Slots : spin' = spin \cup {s} /\ slot' = [slot EXCEPT ![t] = s]
    BY <1>7 DEF Unwatch
  <2>3. /\ live' \subseteq Objects /\ spin' \subseteq Slots
        /\ slot' \in [Threads -> Slots \cup {0}] /\ todo' \in [Threads -> SUBSET Threads]
    BY <2>2 DEF TypeInv
  <2> QED
    BY <1>7, <2>1, <2>3 DEF Unwatch, TypeInv
<1>8. CASE Close(t)
  <2>1. PICK u \in todo[t] :
          /\ event' = Without({fd[slot[t]][u]}) /\ Evict({fd[slot[t]][u]})
          /\ fd' = [fd EXCEPT ![slot[t]][u] = 0]
          /\ todo' = [todo EXCEPT ![t] = @ \ {u}]
    BY <1>8 DEF Close
  <2>2. slot[t] \in Slots /\ u \in Threads
    BY <1>8, WorkersSlot DEF Close, Working, TypeInv
  <2>3. event' \in [Numbers -> EventType]
        /\ \A m \in Numbers : event'[m] = Closed \/ event'[m].thread \in Threads
    BY <2>1, WithoutEvents
  <2>4. fd' \in [Slots -> [Threads -> Numbers \cup {0}]]
    BY <2>1, <2>2 DEF TypeInv
  <2>5. evicted' \in [Threads -> BOOLEAN]
    BY <2>1 DEF TypeInv, Evict
  <2>6. todo' \in [Threads -> SUBSET Threads]
    BY <2>1 DEF TypeInv
  <2> QED
    BY <1>8, <2>3, <2>4, <2>5, <2>6 DEF Close, TypeInv
<1>9. CASE AfterClose(t)
  <2>1. slot[t] \in Slots
    <3>1. pc[t] \in Working
      BY <1>9 DEF AfterClose, Working
    <3> QED
      BY <3>1, WorkersSlot
  <2>2. pc' \in [Threads -> Labels]
    <3>1. \E l \in Labels : pc' = [pc EXCEPT ![t] = l]
      BY <1>9, LabelList DEF AfterClose
    <3> QED
      BY <3>1, Going
  <2>3. addr' \in [Slots -> Objects \cup {NoObject}] /\ isUsed' \in [Slots -> BOOLEAN]
    BY <1>9, <2>1 DEF TypeInv, AfterClose
  <2>4. slot' \in [Threads -> Slots \cup {0}] /\ live' \subseteq Objects /\ spin' \subseteq Slots
    BY <1>9 DEF TypeInv, AfterClose
  <2> QED
    BY <1>9, <2>2, <2>3, <2>4 DEF AfterClose, TypeInv
<1>10. CASE SetCallstack(t)
  <2>1. slot[t] \in Slots
    BY <1>10, WorkersSlot DEF SetCallstack, Working
  <2>2. pc' \in [Threads -> Labels]
    <3>1. \E l \in Labels : pc' = [pc EXCEPT ![t] = l]
      BY <1>10, LabelList DEF SetCallstack
    <3> QED
      BY <3>1, Going
  <2>3. callstack' \in [Slots -> Objects \cup {NoObject}]
    BY <1>10, <2>1 DEF TypeInv, SetCallstack
  <2> QED
    BY <1>10, <2>2, <2>3 DEF SetCallstack, TypeInv
<1>11. CASE Open(t)
  <2>1. slot[t] \in Slots
    BY <1>11, WorkersSlot DEF Open, Working
  <2>2. PICK u \in todo[t], given \in Given({slot[t]}) :
          /\ event' = [event EXCEPT ![given[slot[t]]] =
                         [object |-> new[t], thread |-> u, on |-> TRUE]]
          /\ fd' = [fd EXCEPT ![slot[t]][u] = given[slot[t]]]
          /\ todo' = [todo EXCEPT ![t] = @ \ {u}]
    BY <1>11 DEF Open
  <2>3. given[slot[t]] \in Numbers /\ u \in Threads
    <3>1. {slot[t]} \subseteq Slots
      BY <2>1
    <3>2. given \in [{slot[t]} -> Numbers]
      BY <3>1, GivenNumbers
    <3> QED
      BY <3>2 DEF TypeInv
  <2>4. [object |-> new[t], thread |-> u, on |-> TRUE] \in EventType
    BY <2>3 DEF TypeInv, EventType
  <2>5. event' \in [Numbers -> EventType]
        /\ \A m \in Numbers : event'[m] = Closed \/ event'[m].thread \in Threads
    BY <2>2, <2>3, <2>4 DEF TypeInv
  <2>6. fd' \in [Slots -> [Threads -> Numbers \cup {0}]]
    BY <2>1, <2>2, <2>3 DEF TypeInv
  <2>7. todo' \in [Threads -> SUBSET Threads]
    BY <2>2 DEF TypeInv
  <2> QED
    BY <1>11, <2>5, <2>6, <2>7 DEF Open, TypeInv
<1>12. CASE Installed(t)
  <2>1. pc' \in [Threads -> Labels]
    BY <1>12, LabelList DEF TypeInv, Installed
  <2>2. live' \subseteq Objects
    <3>1. new[t] # NoObject
      BY <1>12 DEF Installed, ObjectInv
    <3> QED
      BY <1>12, <3>1 DEF Installed, TypeInv
  <2> QED
    BY <1>12, <2>1, <2>2 DEF Installed, TypeInv
<1>13. CASE Exit(t)
  <2> DEFINE own == {fd[s][t] : s \in Slots}
  <2>1. event' = Without(own) /\ Evict(own) /\ foreign' \in BOOLEAN
    BY <1>13 DEF Exit, TypeInv
  <2>2. event' \in [Numbers -> EventType]
        /\ \A m \in Numbers : event'[m] = Closed \/ event'[m].thread \in Threads
    BY <2>1, WithoutEvents
  <2>3. evicted' \in [Threads -> BOOLEAN]
    BY <2>1 DEF TypeInv, Evict
  <2> QED
    BY <1>13, <2>1, <2>2, <2>3 DEF Exit, TypeInv
<1>14. CASE Create(t)
  <2>1. PICK u \in Threads \ alive, bad \in 1..(WPs + 1) :
          LET mine == {s \in Slots : isUsed[s] /\ s < bad} IN
          \E given \in Given(mine) :
          /\ bad <= WPs => isUsed[bad] /\ failures < MaxFailures
          /\ failures' = failures + IF bad <= WPs THEN 1 ELSE 0
          /\ alive' = alive \cup {u}
          /\ fd' = [s \in Slots |->
                      [fd[s] EXCEPT ![u] = IF s \in mine THEN given[s]
                                           ELSE IF s = bad THEN 0 ELSE @]]
          /\ event' = [n \in Numbers |->
                         IF \E s \in mine : n = given[s]
                         THEN [object |-> addr[CHOOSE s \in mine : n = given[s]],
                               thread |-> u, on |-> TRUE]
                         ELSE event[n]]
    BY <1>14 DEF Create
  <2> DEFINE mine == {s \in Slots : isUsed[s] /\ s < bad}
  <2>2. PICK given \in Given(mine) :
          /\ failures' = failures + IF bad <= WPs THEN 1 ELSE 0
          /\ alive' = alive \cup {u}
          /\ fd' = [s \in Slots |->
                      [fd[s] EXCEPT ![u] = IF s \in mine THEN given[s]
                                           ELSE IF s = bad THEN 0 ELSE @]]
          /\ event' = [n \in Numbers |->
                         IF \E s \in mine : n = given[s]
                         THEN [object |-> addr[CHOOSE s \in mine : n = given[s]],
                               thread |-> u, on |-> TRUE]
                         ELSE event[n]]
    BY <2>1
  <2>3. mine \subseteq Slots
    OBVIOUS
  <2> HIDE DEF mine
  <2>4. given \in [mine -> Numbers]
    BY <2>3, GivenNumbers
  <2>5. fd' \in [Slots -> [Threads -> Numbers \cup {0}]]
    BY <2>2, <2>4 DEF TypeInv
  <2>6. ASSUME NEW n \in Numbers
        PROVE  event'[n] \in EventType /\ (event'[n] = Closed \/ event'[n].thread \in Threads)
    <3>1. CASE \E s \in mine : n = given[s]
      <4> DEFINE s == CHOOSE r \in mine : n = given[r]
      <4>1. s \in Slots
        BY <2>3, <3>1
      <4>2. event'[n] = [object |-> addr[s], thread |-> u, on |-> TRUE]
        BY <2>2, <3>1
      <4> HIDE DEF s
      <4> QED
        BY <4>1, <4>2 DEF TypeInv, EventType
    <3>2. CASE ~\E s \in mine : n = given[s]
      BY <2>2, <3>2 DEF TypeInv
    <3> QED
      BY <3>1, <3>2
  <2>7. event' \in [Numbers -> EventType]
    BY <2>2, <2>6
  <2>8. failures' \in Nat
    BY <2>2 DEF TypeInv
  <2> QED
    BY <1>14, <2>2, <2>5, <2>6, <2>7, <2>8 DEF Create, TypeInv
<1> QED
  BY <1>1, <1>2, <1>3, <1>4, <1>5, <1>6, <1>7, <1>8, <1>9, <1>10, <1>11, <1>12, <1>13, <1>14
  DEF Step, trapHandler

-----------------------------------------------------------------------------
(* Slots and objects *)

\* The object of a watch is allocated or about to be, is in the slot, and has no other watch.
LEMMA WatchedObject ==
  ASSUME TypeInv, OwnerInv, ObjectInv, NEW s \in Slots, NEW u, NEW o, Watches(s, u, o)
  PROVE  /\ isUsed[s] /\ callstack[s] = o /\ addr[s] = o /\ o \in Objects
         /\ \/ Held(s) /\ o \in live
            \/ \E w \in Threads : pc[w] = "open" /\ slot[w] = s /\ new[w] = o
<1>1. isUsed[s] /\ callstack[s] = o
  BY DEF Watches
<1>2. CASE Held(s)
  BY <1>1, <1>2 DEF ObjectInv, TypeInv
<1>3. CASE ~Held(s)
  <2>1. PICK w \in Threads : pc[w] \in {"cs", "open"} /\ slot[w] = s
    BY <1>1, <1>3 DEF Held
  <2>2. pc[w] = "open"
    BY <2>1 DEF Watches, Working
  <2>3. new[w] # NoObject /\ addr[s] = new[w] /\ callstack[s] = new[w]
    BY <2>1, <2>2 DEF ObjectInv
  <2> QED
    BY <1>1, <2>1, <2>2, <2>3 DEF TypeInv
<1> QED
  BY <1>2, <1>3

\* No object is watched by two slots.
LEMMA OneWatch ==
  ASSUME TypeInv, OwnerInv, ObjectInv, NEW r \in Slots, NEW s \in Slots, NEW u, NEW v, NEW o,
         Watches(r, u, o), Watches(s, v, o)
  PROVE  r = s
<1>1. \/ Held(r) /\ o \in live
      \/ \E w \in Threads : pc[w] = "open" /\ slot[w] = r /\ new[w] = o
  BY WatchedObject
<1>2. \/ Held(s) /\ o \in live
      \/ \E w \in Threads : pc[w] = "open" /\ slot[w] = s /\ new[w] = o
  BY WatchedObject
<1>3. callstack[r] = o /\ callstack[s] = o
  BY DEF Watches
<1>4. \A w \in Threads : pc[w] = "open" => new[w] # NoObject /\ new[w] \notin live
  BY DEF ObjectInv
<1>5. CASE Held(r) /\ Held(s)
  BY <1>3, <1>5 DEF ObjectInv
<1>6. CASE \E w \in Threads : pc[w] = "open" /\ slot[w] = r /\ new[w] = o
  BY <1>2, <1>4, <1>6 DEF ObjectInv
<1> QED
  BY <1>1, <1>2, <1>4, <1>5, <1>6

\* The watches are the same, and so are the events but for being on or off.
LEMMA SameWatches ==
  ASSUME EventInv, fd' = fd, UNCHANGED <<failures, foreign>>,
         \A n \in Numbers : event'[n].thread = event[n].thread /\ event'[n].object = event[n].object,
         \A s \in Slots, u \in Threads \cup {0} : \A o : Watches(s, u, o)' <=> Watches(s, u, o),
         TypeInv
  PROVE  EventInv'
<1>1. \A n \in Numbers : IsOpen(n)' <=> IsOpen(n)
  BY DEF IsOpen
<1>2. ASSUME NEW n \in Numbers, IsOpen(n)'
      PROVE  \E s \in Slots : (fd[s][event[n].thread] = n
                               /\ Watches(s, event[n].thread, event[n].object))'
  <2>1. PICK u \in Threads \cup {0}, o \in {event[n].object} :
          u = event[n].thread /\ o = event[n].object
    BY DEF TypeInv, EventType
  <2>2. PICK s \in Slots : fd[s][u] = n /\ Watches(s, u, o)
    BY <1>1, <1>2, <2>1 DEF EventInv
  <2>3. Watches(s, u, o)'
    BY <2>2
  <2>4. event'[n].thread = u /\ event'[n].object = o
    BY <2>1
  <2>5. fd'[s][u] = n
    BY <2>2
  <2> QED
    BY <2>3, <2>4, <2>5
<1>3. ASSUME ~Uncovered', NEW s \in Slots, NEW u \in Threads, Watches(s, u, callstack[s])'
      PROVE  /\ fd'[s][u] \in Numbers /\ IsOpen(fd[s][u])'
             /\ event'[fd'[s][u]].thread = u /\ event'[fd'[s][u]].object = callstack'[s]
  <2>1. PICK o : o = callstack'[s]
    OBVIOUS
  <2>2. Watches(s, u, o)'
    BY <1>3, <2>1
  <2>3. Watches(s, u, o) /\ callstack[s] = o
    BY <2>2 DEF Watches
  <2>4. ~Uncovered
    BY <1>3 DEF Uncovered
  <2>5. PICK n : n = fd[s][u]
    OBVIOUS
  <2>6. n \in Numbers /\ IsOpen(n) /\ event[n].thread = u /\ event[n].object = o
    BY <2>3, <2>4, <2>5 DEF EventInv
  <2>7. IsOpen(n)' /\ event'[n].thread = u /\ event'[n].object = o
    BY <1>1, <2>6
  <2> QED
    BY <2>1, <2>5, <2>6, <2>7
<1> QED
  BY <1>2, <1>3 DEF EventInv

-----------------------------------------------------------------------------
(* Steps that leave the table alone *)

\* Thread t touches a word, or handles the signal; no other thread's part changes.
Quiet(t) ==
  /\ pc[t] \notin Working /\ pc'[t] \notin Working /\ (pc'[t] # "app" => t \in alive)
  /\ \A u \in Threads : u # t =>
       /\ pc'[u] = pc[u] /\ slot'[u] = slot[u] /\ sig'[u] = sig[u] /\ isread'[u] = isread[u]
       /\ access'[u] = access[u] /\ told'[u] = told[u] /\ early'[u] = early[u]
       /\ evicted'[u] = evicted[u]
  /\ UNCHANGED <<alive, isUsed, addr, callstack, fd, spin, live, new, todo, foreign, failures>>
  /\ smashed \subseteq smashed'

\* These steps are the access and those of the handler.
LEMMA QuietSteps ==
  ASSUME TypeInv, OwnerInv, NEW t \in Threads, Access(t) \/ trapHandler(t)
  PROVE  Quiet(t)
<1> USE DEF Quiet, Goto, table, sigs
<1>1. CASE Access(t)
  <2>1. \/ UNCHANGED <<pc, sig, access>>
        \/ /\ \E n : sig' = [sig EXCEPT ![t] = n]
           /\ \E a : access' = [access EXCEPT ![t] = a]
           /\ pc' = [pc EXCEPT ![t] = "trap"]
    BY <1>1 DEF Access
  <2>2. pc[t] = "app" /\ t \in alive
    BY <1>1 DEF Access, Call
  <2>3. smashed \subseteq smashed'
    BY <1>1 DEF Access
  <2>4. UNCHANGED <<alive, table, spin, event, live, slot, new, todo, isread, told, early, evicted,
                    foreign, failures>>
    BY <1>1 DEF Access
  <2>5. pc'[t] \in {"app", "trap"} /\ \A u \in Threads : u # t => pc'[u] = pc[u]
    BY <2>1, <2>2 DEF TypeInv
  <2>6. \A u \in Threads : u # t => sig'[u] = sig[u] /\ access'[u] = access[u]
    BY <2>1 DEF TypeInv
  <2> QED
    BY <2>2, <2>3, <2>4, <2>5, <2>6 DEF Working
<1>2. CASE trapHandler(t)
  <2>1. /\ pc[t] \in Handling
        /\ \E l \in Handling \cup {"app"} : pc' = [pc EXCEPT ![t] = l]
    BY <1>2 DEF trapHandler, Classify, Lookup, Disable, Look, Enable, Tell, Release, Handling
  <2>2. /\ slot' = slot \/ \E s : slot' = [slot EXCEPT ![t] = s]
        /\ sig' = sig \/ sig' = [sig EXCEPT ![t] = 0]
        /\ isread' = isread \/ \E b : isread' = [isread EXCEPT ![t] = b]
        /\ told' = told \/ \E o : told' = [told EXCEPT ![t] = o]
        /\ early' = early \/ \E b : early' = [early EXCEPT ![t] = b]
        /\ evicted' = evicted \/ evicted' = [evicted EXCEPT ![t] = FALSE]
        /\ UNCHANGED <<alive, table, spin, live, smashed, new, todo, foreign, failures>>
    BY <1>2 DEF trapHandler, Classify, Lookup, Disable, Look, Enable, Tell, Release, Forget
  <2>3. access' = access \/ \E a : access' = [access EXCEPT ![t] = a]
    <3>1. CASE Classify(t)
      BY <3>1 DEF Classify, Forget
    <3> QED
      BY <1>2, <3>1 DEF trapHandler, Lookup, Disable, Look, Enable, Tell, Release, Forget
  <2>4. \A u \in Threads : u # t =>
          /\ pc'[u] = pc[u] /\ slot'[u] = slot[u] /\ sig'[u] = sig[u] /\ isread'[u] = isread[u]
          /\ access'[u] = access[u] /\ told'[u] = told[u] /\ early'[u] = early[u]
          /\ evicted'[u] = evicted[u]
    BY <2>1, <2>2, <2>3 DEF TypeInv
  <2>5. pc[t] \notin Working /\ pc'[t] \notin Working /\ t \in alive
    BY <2>1 DEF TypeInv, Handling, Working, OwnerInv
  <2> QED
    BY <2>2, <2>4, <2>5
<1> QED
  BY <1>1, <1>2

\* They disturb neither owners nor objects nor watches nor numbers.
LEMMA QuietTable ==
  ASSUME TypeInv, OwnerInv, ObjectInv, NumberInv, NEW t \in Threads, Quiet(t)
  PROVE  /\ OwnerInv' /\ ObjectInv' /\ NumberInv'
         /\ \A s \in Slots : \A u, o : Watches(s, u, o)' <=> Watches(s, u, o)
<1>1. \A u \in Threads : /\ pc'[u] \in Working <=> pc[u] \in Working
                         /\ pc[u] \in Working => pc'[u] = pc[u] /\ slot'[u] = slot[u]
                         /\ pc'[u] # "app" => u \in alive
  BY DEF Quiet, OwnerInv
<1>2. UNCHANGED <<alive, isUsed, addr, callstack, fd, spin, live, new, todo>>
  BY DEF Quiet
<1>3. \A u \in Threads : (pc'[u] = "close" <=> pc[u] = "close") /\ (pc'[u] = "cs" <=> pc[u] = "cs")
                         /\ (pc'[u] = "open" <=> pc[u] = "open")
  BY <1>1 DEF Working
<1>4. \A s \in Slots : Held(s)' <=> Held(s)
  BY <1>1, <1>2, <1>3 DEF Held, Working
<1>5. OwnerInv'
  BY <1>1, <1>2 DEF OwnerInv
<1>6. ObjectInv'
  <2>1. \A s \in Slots : Held(s)' => addr'[s] = callstack'[s] /\ callstack'[s] \in live'
    BY <1>2, <1>4 DEF ObjectInv
  <2>2. \A r, s \in Slots : Held(r)' /\ Held(s)' /\ callstack'[r] = callstack'[s] => r = s
    BY <1>2, <1>4 DEF ObjectInv
  <2>3. \A u \in Threads :
          /\ new'[u] # NoObject => pc'[u] \in Working /\ new'[u] \notin live'
          /\ pc'[u] \in {"cs", "open"} =>
               new'[u] # NoObject /\ isUsed'[slot'[u]] /\ addr'[slot'[u]] = new'[u]
          /\ pc'[u] = "open" => callstack'[slot'[u]] = new'[u]
          /\ pc'[u] = "close" /\ ~isUsed'[slot'[u]] => todo'[u] = {} /\ new'[u] # NoObject
    BY <1>1, <1>2, <1>3 DEF ObjectInv, Working
  <2> QED
    BY <1>2, <2>1, <2>2, <2>3 DEF ObjectInv
<1>7. NumberInv'
  BY <1>1, <1>2, <1>3 DEF NumberInv, Working
<1> QED
  BY <1>1, <1>2, <1>3, <1>5, <1>6, <1>7 DEF Watches

-----------------------------------------------------------------------------
(* Steps that change the table *)

TableInv == OwnerInv /\ ObjectInv /\ EventInv /\ NumberInv

\* No handler of the event with this number goes on without knowing.
Overtaken(n) == \A v \in Threads : InHandler(v) /\ sig[v] = n => evicted'[v]

\* Events and watches stay, or their handlers are overtaken; new events are on.
Kept ==
  /\ \A n \in Numbers :
       /\ event'[n] = event[n] \/ event'[n] = Closed \/ event'[n].on
       /\ IsOpen(n) => event'[n] = event[n] \/ Overtaken(n)
  /\ \A s \in Slots, u \in Threads : \A o : Watches(s, u, o) =>
       \/ Watches(s, u, o)' /\ fd'[s][u] = fd[s][u]
       \/ Overtaken(fd[s][u])

\* Where nothing is opened or closed.
LEMMA SameTable ==
  ASSUME TypeInv, EventInv, UNCHANGED <<event, fd, failures, foreign>>,
         \A s \in Slots, u \in Threads \cup {0} : \A o : Watches(s, u, o)' <=> Watches(s, u, o)
  PROVE  EventInv' /\ Kept
<1>1. EventInv'
  BY SameWatches
<1>2. Kept
  BY DEF Kept
<1> QED
  BY <1>1, <1>2

\* setWatchpoint takes a slot.
LEMMA TakeStep ==
  ASSUME TypeInv, TableInv, NEW t \in Threads, Take(t)
  PROVE  TableInv' /\ Kept
<1> USE DEF TableInv
<1>1. PICK s \in Slots \ spin, o \in Objects \ (live \cup {new[u] : u \in Threads}) :
        /\ spin' = spin \cup {s}
        /\ slot' = [slot EXCEPT ![t] = s]
        /\ new' = [new EXCEPT ![t] = o]
        /\ todo' = [todo EXCEPT ![t] = IF isUsed[s] THEN alive ELSE {}]
  BY DEF Take
<1>2. /\ UNCHANGED <<alive, isUsed, addr, callstack, fd, event, live, foreign, failures>>
      /\ t \in alive /\ pc[t] = "app" /\ pc' = [pc EXCEPT ![t] = "close"]
  BY DEF Take, Call, Goto, table
<1>3. /\ pc'[t] = "close" /\ slot'[t] = s /\ new'[t] = o
      /\ todo'[t] = (IF isUsed[s] THEN alive ELSE {})
  BY <1>1, <1>2 DEF TypeInv
<1>4. \A u \in Threads : u # t => pc'[u] = pc[u] /\ slot'[u] = slot[u] /\ new'[u] = new[u]
                                  /\ todo'[u] = todo[u]
  BY <1>1, <1>2 DEF TypeInv
<1>5. \A u \in Threads : pc[u] \in Working => slot[u] # s
  BY <1>1 DEF OwnerInv
<1>6. /\ o # NoObject /\ o \notin live /\ \A u \in Threads : new[u] # o
  BY <1>1, Basics
<1>7. \A r \in Slots : Held(r)' <=> Held(r)
  BY <1>2, <1>3, <1>4 DEF Held
<1>8. OwnerInv'
  BY <1>1, <1>2, <1>3, <1>4, <1>5 DEF OwnerInv, Working
<1>9. ObjectInv'
  <2>1. /\ \A r \in Slots : Held(r)' => addr'[r] = callstack'[r] /\ callstack'[r] \in live'
        /\ \A q, r \in Slots : Held(q)' /\ Held(r)' /\ callstack'[q] = callstack'[r] => q = r
    BY <1>2, <1>7 DEF ObjectInv
  <2>2. \A u \in Threads :
          /\ new'[u] # NoObject => pc'[u] \in Working /\ new'[u] \notin live'
          /\ pc'[u] \in {"cs", "open"} =>
               new'[u] # NoObject /\ isUsed'[slot'[u]] /\ addr'[slot'[u]] = new'[u]
          /\ pc'[u] = "open" => callstack'[slot'[u]] = new'[u]
          /\ pc'[u] = "close" /\ ~isUsed'[slot'[u]] => todo'[u] = {} /\ new'[u] # NoObject
    BY <1>2, <1>3, <1>4, <1>6 DEF ObjectInv, Working
  <2>3. \A u, v \in Threads : new'[u] = new'[v] /\ new'[u] # NoObject => u = v
    BY <1>3, <1>4, <1>6 DEF ObjectInv
  <2> QED
    BY <2>1, <2>2, <2>3 DEF ObjectInv
<1>10. NumberInv'
  BY <1>2, <1>3, <1>4 DEF NumberInv
<1>11. \A r \in Slots : \A u, q : Watches(r, u, q)' <=> Watches(r, u, q)
  BY <1>2, <1>3, <1>4, <1>5 DEF Watches, Working
<1>12. EventInv' /\ Kept
  BY <1>2, <1>11, SameTable
<1> QED
  BY <1>8, <1>9, <1>10, <1>12

\* free finds no slot, or one to give up.
LEMMA UnwatchStep ==
  ASSUME TypeInv, TableInv, NEW t \in Threads, Unwatch(t)
  PROVE  TableInv' /\ Kept
<1> USE DEF TableInv
<1>1. /\ UNCHANGED <<alive, isUsed, addr, callstack, fd, event, new, foreign, failures>>
      /\ t \in alive /\ pc[t] = "app"
  BY DEF Unwatch, Call, table
<1>2. CASE /\ UNCHANGED <<pc, spin, slot, todo>>
           /\ \E o \in live : live' = live \ {o}
                              /\ \A s \in Slots : ~(isUsed[s] /\ callstack[s] = o)
  <2>1. \A r \in Slots : Held(r)' <=> Held(r)
    BY <1>1, <1>2 DEF Held
  <2>2. OwnerInv'
    BY <1>1, <1>2 DEF OwnerInv
  <2>3. ObjectInv'
    <3>1. /\ \A r \in Slots : Held(r)' => addr'[r] = callstack'[r] /\ callstack'[r] \in live'
          /\ \A q, r \in Slots : Held(q)' /\ Held(r)' /\ callstack'[q] = callstack'[r] => q = r
      BY <1>1, <1>2, <2>1 DEF ObjectInv, Held
    <3> QED
      BY <1>1, <1>2, <3>1 DEF ObjectInv
  <2>4. NumberInv'
    BY <1>1, <1>2 DEF NumberInv
  <2>5. \A r \in Slots : \A u, q : Watches(r, u, q)' <=> Watches(r, u, q)
    BY <1>1, <1>2 DEF Watches
  <2>6. EventInv' /\ Kept
    BY <1>1, <2>5, SameTable
  <2> QED
    BY <2>2, <2>3, <2>4, <2>6
<1>3. CASE /\ UNCHANGED live
           /\ \E s \in Slots \ spin :
                /\ isUsed[s]
                /\ spin' = spin \cup {s}
                /\ slot' = [slot EXCEPT ![t] = s]
                /\ todo' = [todo EXCEPT ![t] = alive]
                /\ pc' = [pc EXCEPT ![t] = "close"]
  <2>1. PICK s \in Slots \ spin :
          /\ isUsed[s]
          /\ spin' = spin \cup {s}
          /\ slot' = [slot EXCEPT ![t] = s]
          /\ todo' = [todo EXCEPT ![t] = alive]
          /\ pc' = [pc EXCEPT ![t] = "close"]
    BY <1>3
  <2>2. pc'[t] = "close" /\ slot'[t] = s /\ todo'[t] = alive
    BY <2>1 DEF TypeInv
  <2>3. \A u \in Threads : u # t => pc'[u] = pc[u] /\ slot'[u] = slot[u] /\ todo'[u] = todo[u]
    BY <2>1 DEF TypeInv
  <2>4. \A u \in Threads : pc[u] \in Working => slot[u] # s
    BY <2>1 DEF OwnerInv
  <2>5. new[t] = NoObject
    BY <1>1 DEF ObjectInv, Working
  <2>6. \A r \in Slots : Held(r)' <=> Held(r)
    BY <1>1, <2>2, <2>3 DEF Held
  <2>7. OwnerInv'
    BY <1>1, <2>1, <2>2, <2>3, <2>4 DEF OwnerInv, Working
  <2>8. ObjectInv'
    <3>1. /\ \A r \in Slots : Held(r)' => addr'[r] = callstack'[r] /\ callstack'[r] \in live'
          /\ \A q, r \in Slots : Held(q)' /\ Held(r)' /\ callstack'[q] = callstack'[r] => q = r
      BY <1>1, <1>3, <2>6 DEF ObjectInv
    <3>2. \A u \in Threads :
            /\ new'[u] # NoObject => pc'[u] \in Working /\ new'[u] \notin live'
            /\ pc'[u] \in {"cs", "open"} =>
                 new'[u] # NoObject /\ isUsed'[slot'[u]] /\ addr'[slot'[u]] = new'[u]
            /\ pc'[u] = "open" => callstack'[slot'[u]] = new'[u]
            /\ pc'[u] = "close" /\ ~isUsed'[slot'[u]] => todo'[u] = {} /\ new'[u] # NoObject
      BY <1>1, <1>3, <2>1, <2>2, <2>3, <2>5 DEF ObjectInv
    <3> QED
      BY <1>1, <3>1, <3>2 DEF ObjectInv
  <2>9. NumberInv'
    BY <1>1, <2>2, <2>3 DEF NumberInv
  <2>10. \A r \in Slots : \A u, q : Watches(r, u, q)' <=> Watches(r, u, q)
    BY <1>1, <2>1, <2>2, <2>3, <2>4 DEF Watches, Working
  <2>11. EventInv' /\ Kept
    BY <1>1, <2>10, SameTable
  <2> QED
    BY <2>7, <2>8, <2>9, <2>11
<1> QED
  BY <1>2, <1>3 DEF Unwatch, Goto

\* disable_watchpoint closes one event of the slot.
LEMMA CloseStep ==
  ASSUME TypeInv, TableInv, NEW t \in Threads, Close(t)
  PROVE  TableInv' /\ Kept
<1> USE DEF TableInv
<1>1. PICK u \in todo[t] :
        /\ event' = Without({fd[slot[t]][u]}) /\ Evict({fd[slot[t]][u]})
        /\ fd' = [fd EXCEPT ![slot[t]][u] = 0]
        /\ todo' = [todo EXCEPT ![t] = @ \ {u}]
  BY DEF Close
<1>2. /\ UNCHANGED <<alive, isUsed, addr, callstack, spin, live, pc, slot, new, sig, foreign, failures>>
      /\ pc[t] = "close"
  BY DEF Close, sigs
<1>3. PICK s \in Slots : s = slot[t]
  BY <1>2, WorkersSlot DEF Working
<1>4. u \in Threads /\ u \in alive
  BY <1>2, WorkersSlot DEF Working, TypeInv
<1>5. PICK n \in Numbers \cup {0} : n = fd[s][u]
  BY <1>4 DEF TypeInv
<1>6. todo'[t] = todo[t] \ {u} /\ \A v \in Threads : v # t => todo'[v] = todo[v]
  BY <1>1 DEF TypeInv
<1>7. fd'[s][u] = 0 /\ \A r \in Slots, v \in Threads : r # s \/ v # u => fd'[r][v] = fd[r][v]
  BY <1>1, <1>3, <1>4 DEF TypeInv
<1>8. \A w \in Threads : pc[w] \in Working /\ slot[w] = s => w = t
  BY <1>2, <1>3 DEF OwnerInv, Working
<1>9. \A m \in Numbers : (m = n => event'[m] = Closed) /\ (m # n => event'[m] = event[m])
  BY <1>1, <1>3, <1>5, WithoutEvents
<1>10. isUsed[s]
  BY <1>1, <1>2, <1>3 DEF ObjectInv
<1>11. OwnerInv'
  BY <1>2, <1>6 DEF OwnerInv
<1>12. ObjectInv'
  <2>1. \A r \in Slots : Held(r)' <=> Held(r)
    BY <1>2 DEF Held
  <2>2. \A v \in Threads : todo[v] = {} => todo'[v] = {}
    BY <1>6
  <2> QED
    BY <1>2, <2>1, <2>2 DEF ObjectInv
<1>13. NumberInv'
  <2>1. \A r \in Slots, v \in Threads : fd'[r][v] # 0 => callstack'[r] \in Objects
    BY <1>2, <1>7 DEF NumberInv
  <2>2. ASSUME NEW w \in Threads, pc[w] = "close", isUsed[slot[w]], NEW v \in alive \ todo'[w]
        PROVE  fd'[slot[w]][v] = 0
    <3>1. v \in Threads /\ slot[w] \in Slots
      BY <2>2, WorkersSlot DEF TypeInv, Working
    <3>2. CASE w = t
      BY <1>3, <1>6, <1>7, <2>2, <3>1, <3>2 DEF NumberInv
    <3>3. CASE w # t
      BY <1>3, <1>6, <1>7, <1>8, <2>2, <3>1, <3>3 DEF NumberInv, Working
    <3> QED
      BY <3>2, <3>3
  <2> QED
    BY <1>2, <2>1, <2>2 DEF NumberInv
<1>14. \A r \in Slots : \A v, o : Watches(r, v, o)' <=> Watches(r, v, o) /\ ~(r = s /\ v = u)
  BY <1>2, <1>3, <1>6, <1>8 DEF Watches, Working
<1>15. Watches(s, u, callstack[s])
  BY <1>1, <1>2, <1>3, <1>4, <1>8, <1>10 DEF Watches
<1>16. \A m \in Numbers : IsOpen(m)' <=> IsOpen(m) /\ m # n
  BY <1>9, ClosedType DEF IsOpen
<1>17. EventInv'
  <2>1. ASSUME NEW m \in Numbers, IsOpen(m)'
        PROVE  \E r \in Slots : (fd[r][event[m].thread] = m
                                 /\ Watches(r, event[m].thread, event[m].object))'
    <3>1. m # n /\ IsOpen(m) /\ event'[m] = event[m]
      BY <1>9, <1>16, <2>1
    <3>2. PICK v \in Threads, o \in {event[m].object} :
            v = event[m].thread /\ o = event[m].object
      BY <3>1, OpenEvents
    <3>3. PICK r \in Slots : fd[r][v] = m /\ Watches(r, v, o)
      BY <3>1, <3>2 DEF EventInv
    <3>4. ~(r = s /\ v = u)
      BY <1>5, <3>1, <3>3
    <3>5. Watches(r, v, o)' /\ fd'[r][v] = m
      BY <1>7, <1>14, <3>3, <3>4
    <3> QED
      BY <3>1, <3>2, <3>5
  <2>2. ASSUME ~Uncovered', NEW r \in Slots, NEW v \in Threads, Watches(r, v, callstack[r])'
        PROVE  /\ fd'[r][v] \in Numbers /\ IsOpen(fd[r][v])'
               /\ event'[fd'[r][v]].thread = v /\ event'[fd'[r][v]].object = callstack'[r]
    <3>1. ~Uncovered
      BY <1>2, <2>2 DEF Uncovered
    <3>2. Watches(r, v, callstack[r]) /\ ~(r = s /\ v = u)
      BY <1>2, <1>14, <2>2
    <3>3. PICK m : m = fd[r][v]
      OBVIOUS
    <3>4. m \in Numbers /\ IsOpen(m) /\ event[m].thread = v /\ event[m].object = callstack[r]
      BY <3>1, <3>2, <3>3 DEF EventInv
    <3>5. m # n
      <4>1. SUFFICES ASSUME m = n PROVE FALSE
        OBVIOUS
      <4>2. event[n].thread = u /\ event[n].object = callstack[s]
        BY <1>4, <1>5, <1>15, <3>1 DEF EventInv
      <4>3. r = s
        BY <1>15, <3>2, <3>4, <4>1, <4>2, OneWatch
      <4> QED
        BY <3>2, <3>4, <4>1, <4>2, <4>3
    <3>6. event'[m] = event[m] /\ IsOpen(m)' /\ fd'[r][v] = m
      BY <1>7, <1>9, <1>16, <3>2, <3>3, <3>4, <3>5
    <3> QED
      BY <1>2, <3>4, <3>6
  <2> QED
    BY <2>1, <2>2 DEF EventInv
<1>18. Overtaken(n)
  BY <1>1, <1>3, <1>5 DEF Overtaken, Evict, TypeInv
<1>19. Kept
  <2>1. \A m \in Numbers :
          /\ event'[m] = event[m] \/ event'[m] = Closed
          /\ IsOpen(m) => event'[m] = event[m] \/ Overtaken(m)
    BY <1>9, <1>18
  <2>2. ASSUME NEW r \in Slots, NEW v \in Threads, NEW o, Watches(r, v, o)
        PROVE  \/ Watches(r, v, o)' /\ fd'[r][v] = fd[r][v]
               \/ Overtaken(fd[r][v])
    BY <1>5, <1>7, <1>14, <1>18, <2>2
  <2> QED
    BY <2>1, <2>2 DEF Kept
<1> QED
  BY <1>11, <1>12, <1>13, <1>17, <1>19

\* The slot is free, or holds the new object's address.
LEMMA AfterCloseStep ==
  ASSUME TypeInv, TableInv, NEW t \in Threads, AfterClose(t)
  PROVE  TableInv' /\ Kept
<1> USE DEF TableInv
<1>1. /\ UNCHANGED <<alive, callstack, fd, event, new, todo, foreign, failures>>
      /\ pc[t] = "close" /\ todo[t] = {}
  BY DEF AfterClose
<1>2. PICK s \in Slots : s = slot[t]
  BY <1>1, WorkersSlot DEF Working
<1>3. \A w \in Threads : pc[w] \in Working /\ slot[w] = s => w = t
  BY <1>1, <1>2 DEF OwnerInv, Working
<1>4. t \in alive
  BY <1>1, WorkersSlot DEF Working
<1>5. CASE /\ new[t] = NoObject
           /\ isUsed' = [isUsed EXCEPT ![slot[t]] = FALSE]
           /\ live' = live \ {callstack[slot[t]]}
           /\ spin' = spin \ {slot[t]}
           /\ slot' = [slot EXCEPT ![t] = 0]
           /\ pc' = [pc EXCEPT ![t] = "app"]
           /\ UNCHANGED addr
  <2>1. pc'[t] = "app" /\ slot'[t] = 0
    BY <1>5 DEF TypeInv
  <2>2. \A u \in Threads : u # t => pc'[u] = pc[u] /\ slot'[u] = slot[u]
    BY <1>5 DEF TypeInv
  <2>3. isUsed'[s] = FALSE /\ \A r \in Slots : r # s => isUsed'[r] = isUsed[r]
    BY <1>2, <1>5 DEF TypeInv
  <2>4. Held(s)
    BY <1>1, <1>2, <1>3, <1>5 DEF ObjectInv, Held, Working
  <2>5. \A r \in Slots : Held(r)' <=> Held(r) /\ r # s
    BY <1>1, <2>1, <2>2, <2>3 DEF Held
  <2>6. OwnerInv'
    BY <1>1, <1>2, <1>3, <1>5, <2>1, <2>2 DEF OwnerInv, Working
  <2>7. ObjectInv'
    <3>1. ASSUME NEW r \in Slots, Held(r)'
          PROVE  addr'[r] = callstack'[r] /\ callstack'[r] \in live'
      BY <1>1, <1>2, <1>5, <2>4, <2>5, <3>1 DEF ObjectInv
    <3>2. \A q, r \in Slots : Held(q)' /\ Held(r)' /\ callstack'[q] = callstack'[r] => q = r
      BY <1>1, <2>5 DEF ObjectInv
    <3>3. ASSUME NEW u \in Threads
          PROVE  /\ new'[u] # NoObject => pc'[u] \in Working /\ new'[u] \notin live'
                 /\ pc'[u] \in {"cs", "open"} =>
                      new'[u] # NoObject /\ isUsed'[slot'[u]] /\ addr'[slot'[u]] = new'[u]
                 /\ pc'[u] = "open" => callstack'[slot'[u]] = new'[u]
                 /\ pc'[u] = "close" /\ ~isUsed'[slot'[u]] => todo'[u] = {} /\ new'[u] # NoObject
      <4>1. CASE u = t
        BY <1>1, <1>5, <2>1, <4>1
      <4>2. CASE u # t
        <5>1. pc[u] \in Working => slot[u] \in Slots /\ slot[u] # s
          BY <1>3, <4>2, WorkersSlot
        <5>2. pc[u] \in Working => isUsed'[slot[u]] = isUsed[slot[u]]
          BY <2>3, <5>1
        <5>3. pc'[u] = pc[u] /\ slot'[u] = slot[u]
          BY <2>2, <4>2
        <5>4. new[u] # NoObject => pc[u] \in Working /\ new[u] \notin live'
          BY <1>5 DEF ObjectInv
        <5>5. /\ pc[u] \in {"cs", "open"} =>
                   new[u] # NoObject /\ isUsed'[slot[u]] /\ addr[slot[u]] = new[u]
              /\ pc[u] = "open" => callstack[slot[u]] = new[u]
              /\ pc[u] = "close" /\ ~isUsed'[slot[u]] => todo[u] = {} /\ new[u] # NoObject
          BY <5>2 DEF ObjectInv, Working
        <5> QED
          BY <1>1, <1>5, <5>3, <5>4, <5>5
      <4> QED
        BY <4>1, <4>2
    <3> QED
      BY <1>1, <3>1, <3>2, <3>3 DEF ObjectInv
  <2>8. NumberInv'
    <3>1. ASSUME NEW w \in Threads, pc'[w] = "close", isUsed'[slot'[w]], NEW v \in alive \ todo[w]
          PROVE  fd[slot'[w]][v] = 0
      <4>1. w # t /\ pc[w] = "close" /\ slot'[w] = slot[w]
        BY <2>1, <2>2, <3>1
      <4>2. slot[w] \in Slots /\ slot[w] # s
        BY <1>3, <4>1, WorkersSlot DEF Working
      <4>3. isUsed[slot[w]]
        BY <2>3, <3>1, <4>1, <4>2
      <4> QED
        BY <4>1, <4>3 DEF NumberInv
    <3> QED
      BY <1>1, <3>1 DEF NumberInv
  <2>9. \A r \in Slots : \A u, q : Watches(r, u, q)' <=> Watches(r, u, q)
    <3>1. \A u, q : ~Watches(s, u, q) /\ ~Watches(s, u, q)'
      BY <1>1, <1>2, <2>3 DEF Watches, Working
    <3>2. \A r \in Slots : \A u, q : r # s => (Watches(r, u, q)' <=> Watches(r, u, q))
      BY <1>1, <1>2, <2>1, <2>2, <2>3 DEF Watches, Working
    <3> QED
      BY <3>1, <3>2
  <2>10. EventInv' /\ Kept
    BY <1>1, <2>9, SameTable
  <2> QED
    BY <2>6, <2>7, <2>8, <2>10
<1>6. CASE /\ new[t] # NoObject
           /\ isUsed' = [isUsed EXCEPT ![slot[t]] = TRUE]
           /\ addr' = [addr EXCEPT ![slot[t]] = new[t]]
           /\ pc' = [pc EXCEPT ![t] = "cs"]
           /\ UNCHANGED <<live, spin, slot>>
  <2>1. pc'[t] = "cs" /\ \A u \in Threads : u # t => pc'[u] = pc[u]
    BY <1>6 DEF TypeInv
  <2>2. /\ isUsed'[s] = TRUE /\ addr'[s] = new[t]
        /\ \A r \in Slots : r # s => isUsed'[r] = isUsed[r] /\ addr'[r] = addr[r]
    BY <1>2, <1>6 DEF TypeInv
  <2>3. \A r \in Slots : Held(r)' <=> Held(r) /\ r # s
    BY <1>1, <1>2, <1>6, <2>1, <2>2 DEF Held
  <2>4. OwnerInv'
    BY <1>1, <1>6, <2>1, <1>4 DEF OwnerInv, Working
  <2>5. ObjectInv'
    <3>1. /\ \A r \in Slots : Held(r)' => addr'[r] = callstack'[r] /\ callstack'[r] \in live'
          /\ \A q, r \in Slots : Held(q)' /\ Held(r)' /\ callstack'[q] = callstack'[r] => q = r
      BY <1>1, <1>6, <2>2, <2>3 DEF ObjectInv
    <3>2. ASSUME NEW u \in Threads
          PROVE  /\ new'[u] # NoObject => pc'[u] \in Working /\ new'[u] \notin live'
                 /\ pc'[u] \in {"cs", "open"} =>
                      new'[u] # NoObject /\ isUsed'[slot'[u]] /\ addr'[slot'[u]] = new'[u]
                 /\ pc'[u] = "open" => callstack'[slot'[u]] = new'[u]
                 /\ pc'[u] = "close" /\ ~isUsed'[slot'[u]] => todo'[u] = {} /\ new'[u] # NoObject
      <4>1. CASE u = t
        BY <1>1, <1>2, <1>6, <2>1, <2>2, <4>1 DEF ObjectInv, Working
      <4>2. CASE u # t
        <5>1. pc[u] \in Working => slot[u] \in Slots /\ slot[u] # s
          BY <1>3, <4>2, WorkersSlot
        <5>2. pc[u] \in Working => /\ isUsed'[slot[u]] = isUsed[slot[u]]
                                   /\ addr'[slot[u]] = addr[slot[u]]
          BY <2>2, <5>1
        <5>3. pc'[u] = pc[u] /\ slot'[u] = slot[u]
          BY <1>6, <2>1, <4>2
        <5>4. new[u] # NoObject => pc[u] \in Working /\ new[u] \notin live
          BY DEF ObjectInv
        <5>5. /\ pc[u] \in {"cs", "open"} =>
                   new[u] # NoObject /\ isUsed'[slot[u]] /\ addr'[slot[u]] = new[u]
              /\ pc[u] = "open" => callstack[slot[u]] = new[u]
              /\ pc[u] = "close" /\ ~isUsed'[slot[u]] => todo[u] = {} /\ new[u] # NoObject
          BY <5>2 DEF ObjectInv, Working
        <5> QED
          BY <1>1, <1>6, <5>3, <5>4, <5>5
      <4> QED
        BY <4>1, <4>2
    <3> QED
      BY <1>1, <3>1, <3>2 DEF ObjectInv
  <2>6. NumberInv'
    <3>1. ASSUME NEW w \in Threads, pc'[w] = "close", isUsed'[slot[w]], NEW v \in alive \ todo[w]
          PROVE  fd[slot[w]][v] = 0
      <4>1. w # t /\ pc[w] = "close"
        BY <2>1, <3>1
      <4>2. slot[w] \in Slots /\ slot[w] # s
        BY <1>3, <4>1, WorkersSlot DEF Working
      <4>3. isUsed[slot[w]]
        BY <2>2, <3>1, <4>2
      <4> QED
        BY <4>1, <4>3 DEF NumberInv
    <3> QED
      BY <1>1, <1>6, <3>1 DEF NumberInv
  <2>7. \A r \in Slots : \A u, q : Watches(r, u, q)' <=> Watches(r, u, q)
    <3>1. \A u, q : ~Watches(s, u, q) /\ ~Watches(s, u, q)'
      BY <1>1, <1>2, <1>6, <2>1 DEF Watches, Working
    <3>2. \A r \in Slots : \A u, q : r # s => (Watches(r, u, q)' <=> Watches(r, u, q))
      BY <1>1, <1>2, <1>6, <2>1, <2>2 DEF Watches, Working
    <3> QED
      BY <3>1, <3>2
  <2>8. EventInv' /\ Kept
    BY <1>1, <2>7, SameTable
  <2> QED
    BY <2>4, <2>5, <2>6, <2>8
<1> QED
  BY <1>5, <1>6 DEF AfterClose, Goto

\* The call stack follows the address.
LEMMA SetCallstackStep ==
  ASSUME TypeInv, TableInv, NEW t \in Threads, SetCallstack(t)
  PROVE  TableInv' /\ Kept
<1> USE DEF TableInv
<1>1. /\ UNCHANGED <<alive, isUsed, addr, fd, spin, event, live, slot, new, foreign, failures>>
      /\ pc[t] = "cs"
      /\ callstack' = [callstack EXCEPT ![slot[t]] = new[t]]
      /\ todo' = [todo EXCEPT ![t] = alive]
      /\ pc' = [pc EXCEPT ![t] = "open"]
  BY DEF SetCallstack, Goto
<1>2. PICK s \in Slots : s = slot[t]
  BY <1>1, WorkersSlot DEF Working
<1>3. \A w \in Threads : pc[w] \in Working /\ slot[w] = s => w = t
  BY <1>1, <1>2 DEF OwnerInv, Working
<1>4. pc'[t] = "open" /\ todo'[t] = alive
  BY <1>1 DEF TypeInv
<1>5. \A u \in Threads : u # t => pc'[u] = pc[u] /\ todo'[u] = todo[u]
  BY <1>1 DEF TypeInv
<1>6. callstack'[s] = new[t] /\ \A r \in Slots : r # s => callstack'[r] = callstack[r]
  BY <1>1, <1>2 DEF TypeInv
<1>7. new[t] \in Objects
  BY <1>1 DEF ObjectInv, TypeInv
<1>8. \A r \in Slots : (Held(r)' <=> Held(r)) /\ (Held(r) => r # s)
  BY <1>1, <1>2, <1>4, <1>5 DEF Held
<1>9. OwnerInv'
  BY <1>1, <1>4, <1>5 DEF OwnerInv, Working
<1>10. ObjectInv'
  <2>1. /\ \A r \in Slots : Held(r)' => addr'[r] = callstack'[r] /\ callstack'[r] \in live'
        /\ \A q, r \in Slots : Held(q)' /\ Held(r)' /\ callstack'[q] = callstack'[r] => q = r
    BY <1>1, <1>6, <1>8 DEF ObjectInv
  <2>2. ASSUME NEW u \in Threads
        PROVE  /\ new'[u] # NoObject => pc'[u] \in Working /\ new'[u] \notin live'
               /\ pc'[u] \in {"cs", "open"} =>
                    new'[u] # NoObject /\ isUsed'[slot'[u]] /\ addr'[slot'[u]] = new'[u]
               /\ pc'[u] = "open" => callstack'[slot'[u]] = new'[u]
               /\ pc'[u] = "close" /\ ~isUsed'[slot'[u]] => todo'[u] = {} /\ new'[u] # NoObject
    <3>1. CASE u = t
      BY <1>1, <1>2, <1>4, <1>6, <3>1 DEF ObjectInv, Working
    <3>2. CASE u # t
      <4>1. pc[u] \in Working => slot[u] \in Slots /\ slot[u] # s
        BY <1>3, <3>2, WorkersSlot
      <4>2. pc[u] \in Working => callstack'[slot[u]] = callstack[slot[u]]
        BY <1>6, <4>1
      <4> QED
        BY <1>1, <1>5, <3>2, <4>2 DEF ObjectInv, Working
    <3> QED
      BY <3>1, <3>2
  <2> QED
    BY <1>1, <2>1, <2>2 DEF ObjectInv
<1>11. NumberInv'
  BY <1>1, <1>4, <1>5, <1>6, <1>7 DEF NumberInv
<1>12. \A r \in Slots : \A u, q : Watches(r, u, q)' <=> Watches(r, u, q)
  <2>1. \A u, q : ~Watches(s, u, q) /\ ~Watches(s, u, q)'
    BY <1>1, <1>2, <1>4 DEF Watches, Working
  <2>2. \A r \in Slots : \A u, q : r # s => (Watches(r, u, q)' <=> Watches(r, u, q))
    BY <1>1, <1>2, <1>4, <1>5, <1>6 DEF Watches, Working
  <2> QED
    BY <2>1, <2>2
<1>13. EventInv' /\ Kept
  BY <1>1, <1>12, SameTable
<1> QED
  BY <1>9, <1>10, <1>11, <1>13

\* The object is the application's.
LEMMA InstalledStep ==
  ASSUME TypeInv, TableInv, NEW t \in Threads, Installed(t)
  PROVE  TableInv' /\ Kept
<1> USE DEF TableInv
<1>1. /\ UNCHANGED <<alive, isUsed, addr, callstack, fd, event, todo, foreign, failures>>
      /\ pc[t] = "open" /\ todo[t] = {}
      /\ live' = live \cup {new[t]}
      /\ spin' = spin \ {slot[t]}
      /\ slot' = [slot EXCEPT ![t] = 0]
      /\ new' = [new EXCEPT ![t] = NoObject]
      /\ pc' = [pc EXCEPT ![t] = "app"]
  BY DEF Installed, Goto, table
<1>2. PICK s \in Slots : s = slot[t]
  BY <1>1, WorkersSlot DEF Working
<1>3. \A w \in Threads : pc[w] \in Working /\ slot[w] = s => w = t
  BY <1>1, <1>2 DEF OwnerInv, Working
<1>4. pc'[t] = "app" /\ slot'[t] = 0 /\ new'[t] = NoObject
  BY <1>1 DEF TypeInv
<1>5. \A u \in Threads : u # t => pc'[u] = pc[u] /\ slot'[u] = slot[u] /\ new'[u] = new[u]
  BY <1>1 DEF TypeInv
<1>6. PICK o : o = new[t] /\ o # NoObject /\ isUsed[s] /\ addr[s] = o /\ callstack[s] = o
  BY <1>1, <1>2 DEF ObjectInv
<1>7. o \notin live /\ live' = live \cup {o}
  BY <1>1, <1>6 DEF ObjectInv
<1>8. \A r \in Slots : Held(r)' <=> Held(r) \/ r = s
  <2>1. \A u \in Threads : pc'[u] \in {"cs", "open"} => slot'[u] # s
    BY <1>2, <1>3, <1>4, <1>5 DEF Working
  <2>2. \A r \in Slots : r # s => (Held(r)' <=> Held(r))
    BY <1>1, <1>2, <1>4, <1>5 DEF Held
  <2> QED
    BY <1>1, <1>6, <2>1, <2>2 DEF Held
<1>9. OwnerInv'
  BY <1>1, <1>2, <1>3, <1>4, <1>5 DEF OwnerInv, Working
<1>10. ObjectInv'
  <2>1. \A r \in Slots : Held(r)' => addr'[r] = callstack'[r] /\ callstack'[r] \in live'
    BY <1>1, <1>6, <1>7, <1>8 DEF ObjectInv
  <2>2. \A q, r \in Slots : Held(q)' /\ Held(r)' /\ callstack'[q] = callstack'[r] => q = r
    <3>1. \A r \in Slots : Held(r) => callstack[r] # o
      BY <1>7 DEF ObjectInv
    <3> QED
      BY <1>1, <1>6, <1>8, <3>1 DEF ObjectInv
  <2>3. ASSUME NEW u \in Threads
        PROVE  /\ new'[u] # NoObject => pc'[u] \in Working /\ new'[u] \notin live'
               /\ pc'[u] \in {"cs", "open"} =>
                    new'[u] # NoObject /\ isUsed'[slot'[u]] /\ addr'[slot'[u]] = new'[u]
               /\ pc'[u] = "open" => callstack'[slot'[u]] = new'[u]
               /\ pc'[u] = "close" /\ ~isUsed'[slot'[u]] => todo'[u] = {} /\ new'[u] # NoObject
    <3>1. CASE u = t
      BY <1>4, <3>1
    <3>2. CASE u # t
      <4>1. new[u] # NoObject => new[u] # o
        BY <1>6, <3>2 DEF ObjectInv
      <4> QED
        BY <1>1, <1>5, <1>7, <3>2, <4>1 DEF ObjectInv, Working
    <3> QED
      BY <3>1, <3>2
  <2>4. \A u, v \in Threads : new'[u] = new'[v] /\ new'[u] # NoObject => u = v
    BY <1>4, <1>5 DEF ObjectInv
  <2> QED
    BY <2>1, <2>2, <2>3, <2>4 DEF ObjectInv
<1>11. NumberInv'
  BY <1>1, <1>4, <1>5 DEF NumberInv
<1>12. \A r \in Slots : \A u, q : Watches(r, u, q)' <=> Watches(r, u, q)
  <2>1. \A w \in Threads : pc'[w] \in Working => slot'[w] # s
    BY <1>2, <1>3, <1>4, <1>5 DEF Working
  <2>2. \A u, q : Watches(s, u, q)' <=> Watches(s, u, q)
    <3>1. \A u, q : Watches(s, u, q)' <=> u \in alive /\ q = o
      BY <1>1, <1>6, <2>1 DEF Watches
    <3>2. \A u, q : Watches(s, u, q) <=> u \in alive /\ q = o
      BY <1>1, <1>2, <1>3, <1>6 DEF Watches, Working
    <3> QED
      BY <3>1, <3>2
  <2>3. \A r \in Slots : \A u, q : r # s => (Watches(r, u, q)' <=> Watches(r, u, q))
    BY <1>1, <1>2, <1>4, <1>5 DEF Watches, Working
  <2> QED
    BY <2>2, <2>3
<1>13. EventInv' /\ Kept
  BY <1>1, <1>12, SameTable
<1> QED
  BY <1>9, <1>10, <1>11, <1>13

\* install_watchpoint opens one event of the slot.
LEMMA OpenStep ==
  ASSUME TypeInv, TableInv, NEW t \in Threads, Open(t)
  PROVE  TableInv' /\ Kept
<1> USE DEF TableInv
<1>1. /\ UNCHANGED <<alive, isUsed, addr, callstack, spin, live, pc, slot, new, failures, foreign>>
      /\ pc[t] = "open"
  BY DEF Open
<1>2. PICK s \in Slots : s = slot[t]
  BY <1>1, WorkersSlot DEF Working
<1>3. PICK u \in todo[t], given \in Given({s}) :
        /\ event' = [event EXCEPT ![given[s]] = [object |-> new[t], thread |-> u, on |-> TRUE]]
        /\ fd' = [fd EXCEPT ![s][u] = given[s]]
        /\ todo' = [todo EXCEPT ![t] = @ \ {u}]
  BY <1>2 DEF Open
<1>4. u \in Threads /\ u \in alive /\ todo[t] # {}
  BY <1>1, WorkersSlot DEF Working, TypeInv
<1>5. PICK n \in Numbers : n = given[s] /\ ~IsOpen(n)
  <2>1. {s} \in SUBSET Slots
    OBVIOUS
  <2>2. given \in [{s} -> Numbers] /\ \A r \in {s} : ~IsOpen(given[r])
    BY <2>1, GivenNumbers
  <2> QED
    BY <2>2
<1>6. todo'[t] = todo[t] \ {u} /\ \A v \in Threads : v # t => todo'[v] = todo[v]
  BY <1>3 DEF TypeInv
<1>7. fd'[s][u] = n /\ \A r \in Slots, v \in Threads : r # s \/ v # u => fd'[r][v] = fd[r][v]
  BY <1>3, <1>4, <1>5 DEF TypeInv
<1>8. \A w \in Threads : pc[w] \in Working /\ slot[w] = s => w = t
  BY <1>1, <1>2 DEF OwnerInv, Working
<1>9. /\ event'[n].object = new[t] /\ event'[n].thread = u /\ event'[n].on
      /\ \A m \in Numbers : m # n => event'[m] = event[m]
  BY <1>3, <1>5 DEF TypeInv
<1>10. isUsed[s] /\ callstack[s] = new[t] /\ new[t] \in Objects
  BY <1>1, <1>2 DEF ObjectInv, TypeInv
<1>11. OwnerInv'
  BY <1>1, <1>6 DEF OwnerInv
<1>12. ObjectInv'
  <2>1. \A r \in Slots : Held(r)' <=> Held(r)
    BY <1>1 DEF Held
  <2>2. \A v \in Threads : todo[v] = {} => todo'[v] = {}
    BY <1>6
  <2> QED
    BY <1>1, <2>1, <2>2 DEF ObjectInv
<1>13. NumberInv'
  <2>1. \A r \in Slots, v \in Threads : fd'[r][v] # 0 => callstack'[r] \in Objects
    BY <1>1, <1>7, <1>10 DEF NumberInv
  <2>2. ASSUME NEW w \in Threads, pc[w] = "close", isUsed[slot[w]], NEW v \in alive \ todo'[w]
        PROVE  fd'[slot[w]][v] = 0
    <3>1. v \in Threads /\ slot[w] \in Slots
      BY <2>2, WorkersSlot DEF TypeInv, Working
    <3>2. w # t
      BY <1>1, <2>2
    <3>3. slot[w] # s
      BY <1>8, <2>2, <3>2 DEF Working
    <3> QED
      BY <1>6, <1>7, <2>2, <3>1, <3>2, <3>3 DEF NumberInv
  <2> QED
    BY <1>1, <2>1, <2>2 DEF NumberInv
<1>14. \A r \in Slots : \A v, o : Watches(r, v, o)' <=>
         Watches(r, v, o) \/ (r = s /\ v = u /\ o = callstack[s])
  BY <1>1, <1>2, <1>4, <1>6, <1>8, <1>10 DEF Watches, Working
<1>15. \A o : ~Watches(s, u, o)
  BY <1>1, <1>2, <1>3 DEF Watches, Working
<1>16. \A m \in Numbers : IsOpen(m)' <=> IsOpen(m) \/ m = n
  BY <1>4, <1>9, Basics DEF IsOpen
<1>17. EventInv'
  <2>1. ASSUME NEW m \in Numbers, IsOpen(m)'
        PROVE  \E r \in Slots : (fd[r][event[m].thread] = m
                                 /\ Watches(r, event[m].thread, event[m].object))'
    <3>1. CASE m = n
      <4>1. fd'[s][u] = n /\ event'[n].thread = u /\ event'[n].object = new[t]
        BY <1>7, <1>9, <1>10, <1>14
      <4>2. PICK o : o = new[t]
        OBVIOUS
      <4>3. Watches(s, u, o)'
        BY <1>10, <1>14, <4>2
      <4> QED
        BY <3>1, <4>1, <4>2, <4>3
    <3>2. CASE m # n
      <4>1. IsOpen(m) /\ event'[m] = event[m]
        BY <1>9, <1>16, <2>1, <3>2
      <4>2. PICK v \in Threads, o \in {event[m].object} :
              v = event[m].thread /\ o = event[m].object
        BY <4>1, OpenEvents
      <4>3. PICK r \in Slots : fd[r][v] = m /\ Watches(r, v, o)
        BY <4>1, <4>2 DEF EventInv
      <4>4. Watches(r, v, o)' /\ fd'[r][v] = m
        BY <1>7, <1>14, <1>15, <4>3
      <4> QED
        BY <4>1, <4>2, <4>4
    <3> QED
      BY <3>1, <3>2
  <2>2. ASSUME ~Uncovered', NEW r \in Slots, NEW v \in Threads, Watches(r, v, callstack[r])'
        PROVE  /\ fd'[r][v] \in Numbers /\ IsOpen(fd[r][v])'
               /\ event'[fd'[r][v]].thread = v /\ event'[fd'[r][v]].object = callstack'[r]
    <3>1. ~Uncovered
      BY <1>1, <2>2 DEF Uncovered
    <3>2. CASE r = s /\ v = u
      BY <1>1, <1>7, <1>9, <1>10, <1>16, <3>2
    <3>3. CASE ~(r = s /\ v = u)
      <4>1. Watches(r, v, callstack[r])
        <5>1. PICK o : o = callstack'[r]
          OBVIOUS
        <5>2. Watches(r, v, o)'
          BY <2>2, <5>1
        <5>3. Watches(r, v, o) /\ o = callstack[r]
          BY <1>1, <1>14, <3>3, <5>1, <5>2
        <5> QED
          BY <5>3
      <4>2. PICK m : m = fd[r][v]
        OBVIOUS
      <4>3. m \in Numbers /\ IsOpen(m) /\ event[m].thread = v /\ event[m].object = callstack[r]
        BY <3>1, <4>1, <4>2 DEF EventInv
      <4>4. m # n
        BY <1>5, <4>3
      <4>5. event'[m] = event[m] /\ IsOpen(m)' /\ fd'[r][v] = m
        BY <1>7, <1>9, <1>16, <3>3, <4>2, <4>3, <4>4
      <4> QED
        BY <1>1, <4>3, <4>5
    <3> QED
      BY <3>2, <3>3
  <2> QED
    BY <2>1, <2>2 DEF EventInv
<1>18. Kept
  <2>1. \A m \in Numbers :
          /\ event'[m] = event[m] \/ event'[m].on
          /\ IsOpen(m) => event'[m] = event[m]
    BY <1>5, <1>9
  <2>2. ASSUME NEW r \in Slots, NEW v \in Threads, NEW o, Watches(r, v, o)
        PROVE  Watches(r, v, o)' /\ fd'[r][v] = fd[r][v]
    BY <1>7, <1>14, <1>15, <2>2
  <2> QED
    BY <2>1, <2>2 DEF Kept
<1> QED
  BY <1>11, <1>12, <1>13, <1>17, <1>18

\* While nobody reads the list, nobody works on a slot.
LEMMA NobodyWorks ==
  ASSUME TypeInv, OwnerInv, ObjectInv, Readers = {}
  PROVE  /\ \A u \in Threads : pc[u] \in {"app", "trap"}
         /\ \A s \in Slots : \A u, o : Watches(s, u, o) <=> u \in alive /\ isUsed[s] /\ callstack[s] = o
         /\ \A s \in Slots : isUsed[s] => addr[s] = callstack[s] /\ callstack[s] \in live
<1>1. \A u \in Threads : pc[u] \in {"app", "trap"}
  BY DEF Readers, TypeInv, Labels, Working, Handling
<1>2. \A u \in Threads : pc[u] \notin Working
  BY <1>1 DEF Working
<1>3. \A s \in Slots : Held(s) <=> isUsed[s]
  BY <1>1 DEF Held
<1> QED
  BY <1>1, <1>2, <1>3 DEF Watches, ObjectInv

\* threadExit closes the thread's events.
LEMMA ExitStep ==
  ASSUME TypeInv, TableInv, NEW t \in Threads, Exit(t)
  PROVE  TableInv' /\ Kept
<1> USE DEF TableInv
<1> DEFINE own == {fd[s][t] : s \in Slots}
<1>1. /\ UNCHANGED <<isUsed, addr, callstack, fd, spin, live, pc, slot, new, todo, sig, failures>>
      /\ alive' = alive \ {t} /\ pc[t] = "app" /\ Readers = {}
      /\ event' = Without(own) /\ Evict(own)
      /\ foreign' = (foreign \/ \E n \in own \cap Numbers : event[n].thread \notin {0, t})
  BY DEF Exit, Call, table, sigs
<1>2. \A u \in Threads : pc[u] \in {"app", "trap"} /\ pc[u] \notin Working
  BY <1>1, NobodyWorks DEF Working
<1>3. \A s \in Slots : \A u, o : Watches(s, u, o) <=> u \in alive /\ isUsed[s] /\ callstack[s] = o
  BY <1>1, NobodyWorks
<1>4. \A s \in Slots : \A u, o : Watches(s, u, o)' <=> Watches(s, u, o) /\ u # t
  <2>1. \A s \in Slots : \A u, o : Watches(s, u, o)' <=> u \in alive' /\ isUsed'[s] /\ callstack'[s] = o
    BY <1>1, <1>2 DEF Watches
  <2> QED
    BY <1>1, <1>3, <2>1
<1>5. /\ \A n \in Numbers : n \in own => event'[n] = Closed
      /\ \A n \in Numbers : n \notin own => event'[n] = event[n]
  BY <1>1, WithoutEvents
<1>6. \A n \in Numbers : IsOpen(n)' <=> IsOpen(n) /\ n \notin own
  BY <1>5, ClosedType DEF IsOpen
<1>7. OwnerInv'
  BY <1>1, <1>2 DEF OwnerInv
<1>8. ObjectInv'
  <2>1. \A r \in Slots : Held(r)' <=> Held(r)
    BY <1>1 DEF Held
  <2> QED
    BY <1>1, <2>1 DEF ObjectInv
<1>9. NumberInv'
  BY <1>1 DEF NumberInv
<1>10. EventInv'
  <2>1. ASSUME NEW m \in Numbers, IsOpen(m)'
        PROVE  \E r \in Slots : (fd[r][event[m].thread] = m
                                 /\ Watches(r, event[m].thread, event[m].object))'
    <3>1. m \notin own /\ IsOpen(m) /\ event'[m] = event[m]
      BY <1>5, <1>6, <2>1
    <3>2. PICK v \in Threads, o \in {event[m].object} :
            v = event[m].thread /\ o = event[m].object
      BY <3>1, OpenEvents
    <3>3. PICK r \in Slots : fd[r][v] = m /\ Watches(r, v, o)
      BY <3>1, <3>2 DEF EventInv
    <3>4. v # t
      BY <3>1, <3>3
    <3>5. Watches(r, v, o)' /\ fd'[r][v] = m
      BY <1>1, <1>4, <3>3, <3>4
    <3> QED
      BY <3>1, <3>2, <3>5
  <2>2. ASSUME ~Uncovered', NEW r \in Slots, NEW v \in Threads, Watches(r, v, callstack[r])'
        PROVE  /\ fd'[r][v] \in Numbers /\ IsOpen(fd[r][v])'
               /\ event'[fd'[r][v]].thread = v /\ event'[fd'[r][v]].object = callstack'[r]
    <3>1. ~Uncovered /\ \A n \in own \cap Numbers : event[n].thread \in {0, t}
      BY <1>1, <2>2 DEF Uncovered
    <3>2. PICK o : o = callstack[r] /\ o = callstack'[r]
      BY <1>1
    <3>3. Watches(r, v, o)'
      BY <2>2, <3>2
    <3>4. Watches(r, v, callstack[r]) /\ v # t
      BY <1>4, <3>2, <3>3
    <3>5. PICK m : m = fd[r][v]
      OBVIOUS
    <3>6. m \in Numbers /\ IsOpen(m) /\ event[m].thread = v /\ event[m].object = callstack[r]
      BY <3>1, <3>4, <3>5 DEF EventInv
    <3>7. m \notin own
      <4>1. v # 0
        BY Basics
      <4> QED
        BY <3>1, <3>4, <3>6, <4>1
    <3>8. event'[m] = event[m] /\ IsOpen(m)' /\ fd'[r][v] = m
      BY <1>1, <1>5, <1>6, <3>5, <3>6, <3>7
    <3> QED
      BY <1>1, <3>6, <3>8
  <2> QED
    BY <2>1, <2>2 DEF EventInv
<1>11. \A n \in own : Overtaken(n)
  BY <1>1 DEF Overtaken, Evict, TypeInv
<1>12. Kept
  <2>1. \A m \in Numbers :
          /\ event'[m] = event[m] \/ event'[m] = Closed
          /\ IsOpen(m) => event'[m] = event[m] \/ Overtaken(m)
    BY <1>5, <1>11
  <2>2. ASSUME NEW r \in Slots, NEW v \in Threads, NEW o, Watches(r, v, o)
        PROVE  \/ Watches(r, v, o)' /\ fd'[r][v] = fd[r][v]
               \/ Overtaken(fd[r][v])
    <3>1. CASE v = t
      <4>1. fd[r][v] \in own
        BY <3>1
      <4> QED
        BY <1>11, <4>1
    <3>2. CASE v # t
      BY <1>1, <1>4, <2>2, <3>2
    <3> QED
      BY <3>1, <3>2
  <2> QED
    BY <2>1, <2>2 DEF Kept
<1> QED
  BY <1>7, <1>8, <1>9, <1>10, <1>12

\* thread_create gives the child an event for each slot, or stops at one.
LEMMA CreateStep ==
  ASSUME TypeInv, TableInv, NEW t \in Threads, Create(t)
  PROVE  TableInv' /\ Kept
<1> USE DEF TableInv
<1>1. /\ UNCHANGED <<isUsed, addr, callstack, spin, live, pc, slot, new, todo, sig, foreign>>
      /\ Readers = {}
  BY DEF Create, sigs
<1>2. PICK u \in Threads \ alive, bad \in 1..(WPs + 1) :
        LET mine == {s \in Slots : isUsed[s] /\ s < bad} IN
        \E given \in Given(mine) :
        /\ bad <= WPs => isUsed[bad] /\ failures < MaxFailures
        /\ failures' = failures + IF bad <= WPs THEN 1 ELSE 0
        /\ alive' = alive \cup {u}
        /\ fd' = [s \in Slots |->
                    [fd[s] EXCEPT ![u] = IF s \in mine THEN given[s]
                                         ELSE IF s = bad THEN 0 ELSE @]]
        /\ event' = [n \in Numbers |->
                       IF \E s \in mine : n = given[s]
                       THEN [object |-> addr[CHOOSE s \in mine : n = given[s]],
                             thread |-> u, on |-> TRUE]
                       ELSE event[n]]
  BY DEF Create
<1> DEFINE mine == {s \in Slots : isUsed[s] /\ s < bad}
<1>3. PICK given \in Given(mine) :
        /\ failures' = failures + IF bad <= WPs THEN 1 ELSE 0
        /\ alive' = alive \cup {u}
        /\ fd' = [s \in Slots |->
                    [fd[s] EXCEPT ![u] = IF s \in mine THEN given[s]
                                         ELSE IF s = bad THEN 0 ELSE @]]
        /\ event' = [n \in Numbers |->
                       IF \E s \in mine : n = given[s]
                       THEN [object |-> addr[CHOOSE s \in mine : n = given[s]],
                             thread |-> u, on |-> TRUE]
                       ELSE event[n]]
  BY <1>2
<1>4. mine \in SUBSET Slots /\ \A s \in mine : isUsed[s]
  OBVIOUS
<1>5. ~Uncovered' => ~Uncovered /\ mine = {s \in Slots : isUsed[s]}
  <2>1. ASSUME ~Uncovered' PROVE ~(bad <= WPs) /\ ~Uncovered
    BY <1>1, <1>3, <2>1, Basics DEF Uncovered, TypeInv
  <2>2. ~(bad <= WPs) => mine = {s \in Slots : isUsed[s]}
    BY Basics DEF Slots
  <2> QED
    BY <2>1, <2>2
<1> HIDE DEF mine
<1>6. /\ given \in [mine -> Numbers]
      /\ \A s \in mine : event[given[s]] = Closed /\ ~IsOpen(given[s])
      /\ \A r, s \in mine : given[r] = given[s] => r = s
  BY <1>4, GivenNumbers
<1>7. /\ \A s \in mine : fd'[s][u] = given[s]
      /\ \A s \in Slots, v \in Threads : v # u => fd'[s][v] = fd[s][v]
      /\ \A s \in Slots : s \notin mine => fd'[s][u] = 0 \/ fd'[s][u] = fd[s][u]
  BY <1>3, <1>4 DEF TypeInv
<1>8. \A s \in mine : /\ event'[given[s]].object = addr[s] /\ event'[given[s]].thread = u
                      /\ event'[given[s]].on
  <2> TAKE s \in mine
  <2> DEFINE n == given[s]
             r == CHOOSE q \in mine : n = given[q]
  <2>1. n \in Numbers
    BY <1>6
  <2>2. r = s
    <3>1. \E q \in mine : n = given[q]
      OBVIOUS
    <3>2. r \in mine /\ n = given[r]
      BY <3>1, Zenon
    <3> QED
      BY <1>6, <3>2
  <2>3. event'[n] = [object |-> addr[r], thread |-> u, on |-> TRUE]
    BY <1>3, <2>1
  <2> HIDE DEF r
  <2> QED
    BY <2>2, <2>3
<1>9. \A n \in Numbers : (\A s \in mine : n # given[s]) => event'[n] = event[n]
  BY <1>3
<1>10. \A v \in Threads : pc[v] \in {"app", "trap"} /\ pc[v] \notin Working
  BY <1>1, NobodyWorks DEF Working
<1>11. \A s \in Slots : \A v, o : Watches(s, v, o) <=> v \in alive /\ isUsed[s] /\ callstack[s] = o
  BY <1>1, NobodyWorks
<1>12. \A s \in Slots : isUsed[s] => addr[s] = callstack[s] /\ callstack[s] \in Objects
  BY <1>1, NobodyWorks DEF TypeInv
<1>13. \A s \in Slots : \A v, o : Watches(s, v, o)' <=>
          Watches(s, v, o) \/ (v = u /\ isUsed[s] /\ callstack[s] = o)
  <2>1. \A s \in Slots : \A v, o : Watches(s, v, o)' <=> v \in alive' /\ isUsed'[s] /\ callstack'[s] = o
    BY <1>1, <1>10 DEF Watches
  <2> QED
    BY <1>1, <1>3, <1>11, <2>1
<1>14. OwnerInv'
  BY <1>1, <1>3, <1>10 DEF OwnerInv
<1>15. ObjectInv'
  <2>1. \A r \in Slots : Held(r)' <=> Held(r)
    BY <1>1 DEF Held
  <2> QED
    BY <1>1, <2>1 DEF ObjectInv
<1>16. NumberInv'
  <2>1. ASSUME NEW s \in Slots, NEW v \in Threads, fd'[s][v] # 0 PROVE callstack[s] \in Objects
    <3>1. CASE s \in mine
      BY <1>4, <1>12, <3>1
    <3>2. CASE s \notin mine
      BY <1>7, <2>1, <3>2 DEF NumberInv
    <3> QED
      BY <3>1, <3>2
  <2>2. \A v \in Threads : pc'[v] # "close"
    BY <1>1, <1>10
  <2> QED
    BY <1>1, <2>1, <2>2 DEF NumberInv
<1>17. EventInv'
  <2>1. ASSUME NEW m \in Numbers, IsOpen(m)'
        PROVE  \E r \in Slots : (fd[r][event[m].thread] = m
                                 /\ Watches(r, event[m].thread, event[m].object))'
    <3>1. CASE \E s \in mine : m = given[s]
      <4>1. PICK s \in mine : m = given[s]
        BY <3>1
      <4>2. PICK o : o = addr[s] /\ o = callstack[s] /\ isUsed[s] /\ s \in Slots
        BY <1>4, <1>12
      <4>3. Watches(s, u, o)' /\ fd'[s][u] = m
        BY <1>7, <1>13, <4>1, <4>2
      <4>4. event'[m].thread = u /\ event'[m].object = o
        BY <1>8, <4>1, <4>2
      <4> QED
        BY <4>2, <4>3, <4>4
    <3>2. CASE \A s \in mine : m # given[s]
      <4>1. event'[m] = event[m] /\ IsOpen(m)
        BY <1>9, <2>1, <3>2 DEF IsOpen
      <4>2. PICK v \in Threads, o \in {event[m].object} :
              v = event[m].thread /\ o = event[m].object
        BY <4>1, OpenEvents
      <4>3. PICK r \in Slots : fd[r][v] = m /\ Watches(r, v, o)
        BY <4>1, <4>2 DEF EventInv
      <4>4. v # u
        BY <1>2, <4>3 DEF Watches
      <4>5. Watches(r, v, o)' /\ fd'[r][v] = m
        BY <1>7, <1>13, <4>3, <4>4
      <4> QED
        BY <4>1, <4>2, <4>5
    <3> QED
      BY <3>1, <3>2
  <2>2. ASSUME ~Uncovered', NEW r \in Slots, NEW v \in Threads, Watches(r, v, callstack[r])'
        PROVE  /\ fd'[r][v] \in Numbers /\ IsOpen(fd[r][v])'
               /\ event'[fd'[r][v]].thread = v /\ event'[fd'[r][v]].object = callstack'[r]
    <3>1. PICK o : o = callstack[r] /\ o = callstack'[r]
      BY <1>1
    <3>2. Watches(r, v, o)'
      BY <2>2, <3>1
    <3>3. CASE Watches(r, v, o)
      <4>1. PICK m : m = fd[r][v]
        OBVIOUS
      <4>2. m \in Numbers /\ IsOpen(m) /\ event[m].thread = v /\ event[m].object = o
        BY <1>5, <2>2, <3>1, <3>3, <4>1 DEF EventInv
      <4>3. v # u
        BY <1>2, <3>3 DEF Watches
      <4>4. \A s \in mine : m # given[s]
        BY <1>6, <4>2
      <4>5. event'[m] = event[m] /\ fd'[r][v] = m
        BY <1>7, <1>9, <4>1, <4>2, <4>3, <4>4
      <4> QED
        BY <3>1, <4>2, <4>5 DEF IsOpen
    <3>4. CASE v = u /\ isUsed[r] /\ callstack[r] = o
      <4>1. r \in mine
        BY <1>5, <2>2, <3>4
      <4>2. PICK m : m = given[r] /\ m = fd'[r][v] /\ m \in Numbers
        BY <1>6, <1>7, <3>4, <4>1
      <4>3. event'[m].thread = v /\ event'[m].object = o
        BY <1>8, <1>12, <3>4, <4>1, <4>2
      <4>4. v # 0
        BY Basics
      <4> QED
        BY <3>1, <4>2, <4>3, <4>4 DEF IsOpen
    <3> QED
      BY <1>13, <3>2, <3>3, <3>4
  <2> QED
    BY <2>1, <2>2 DEF EventInv
<1>18. Kept
  <2>1. \A m \in Numbers :
          /\ event'[m] = event[m] \/ event'[m].on
          /\ IsOpen(m) => event'[m] = event[m]
    BY <1>6, <1>8, <1>9
  <2>2. ASSUME NEW r \in Slots, NEW v \in Threads, NEW o, Watches(r, v, o)
        PROVE  Watches(r, v, o)' /\ fd'[r][v] = fd[r][v]
    BY <1>2, <1>7, <1>11, <1>13, <2>2
  <2> QED
    BY <2>1, <2>2 DEF Kept
<1> QED
  BY <1>14, <1>15, <1>16, <1>17, <1>18

\* The steps that change the table, taken together.
Changes(t) ==
  \/ Take(t) \/ Unwatch(t) \/ Close(t) \/ AfterClose(t) \/ SetCallstack(t) \/ Open(t)
  \/ Installed(t) \/ Exit(t) \/ Create(t)

\* They keep the table's invariant, and events and watches.
LEMMA ChangesTable ==
  ASSUME TypeInv, TableInv, NEW t \in Threads, Changes(t)
  PROVE  TableInv' /\ Kept
BY TakeStep, UnwatchStep, CloseStep, AfterCloseStep, SetCallstackStep, OpenStep, InstalledStep,
   ExitStep, CreateStep DEF Changes

\* They tell handlers nothing but that their event is closed.
LEMMA ChangesHandlers ==
  ASSUME TypeInv, NEW t \in Threads, Changes(t)
  PROVE  /\ UNCHANGED <<sig, isread, access, told, early, echoed, lapsed>>
         /\ pc[t] \in {"app"} \cup Working /\ pc'[t] \in {"app"} \cup Working
         /\ \A u \in Threads : u # t => pc'[u] = pc[u] /\ slot'[u] = slot[u]
         /\ \A u \in Threads : evicted[u] => evicted'[u]
         /\ Uncovered => Uncovered'
<1> USE DEF Goto, table, sigs
<1>1. UNCHANGED <<sig, isread, access, told, early, echoed, lapsed>>
  BY DEF Changes, Take, Unwatch, Close, AfterClose, SetCallstack, Open, Installed, Exit, Create
<1>2. /\ pc[t] \in {"app"} \cup Working
      /\ pc' = pc \/ \E l \in {"app"} \cup Working : pc' = [pc EXCEPT ![t] = l]
  BY DEF Changes, Take, Unwatch, Close, AfterClose, SetCallstack, Open, Installed, Exit, Create,
         Call, Working
<1>3. slot' = slot \/ \E s : slot' = [slot EXCEPT ![t] = s]
  BY DEF Changes, Take, Unwatch, Close, AfterClose, SetCallstack, Open, Installed, Exit, Create
<1>4. evicted' = evicted \/ \E numbers : Evict(numbers)
  <2>1. CASE Close(t)
    BY <2>1, Zenon DEF Close
  <2>2. CASE Exit(t)
    BY <2>2 DEF Exit
  <2> QED
    BY <2>1, <2>2
    DEF Changes, Take, Unwatch, AfterClose, SetCallstack, Open, Installed, Create
<1>5. \A u \in Threads : evicted[u] => evicted'[u]
  BY <1>4 DEF Evict, TypeInv
<1>6. Uncovered => Uncovered'
  <2>1. CASE Exit(t)
    BY <2>1 DEF Exit, Uncovered
  <2>2. CASE Create(t)
    <3>1. foreign' = foreign /\ (failures' = failures \/ failures' = failures + 1)
      BY <2>2, Basics DEF Create, TypeInv
    <3> QED
      BY <3>1 DEF Uncovered, TypeInv
  <2> QED
    BY <2>1, <2>2
    DEF Changes, Take, Unwatch, Close, AfterClose, SetCallstack, Open, Installed, Uncovered
<1>7. /\ pc'[t] \in {"app"} \cup Working
      /\ \A u \in Threads : u # t => pc'[u] = pc[u] /\ slot'[u] = slot[u]
  BY <1>2, <1>3 DEF TypeInv
<1> QED
  BY <1>1, <1>2, <1>5, <1>6, <1>7

\* What they take from the heap is not watched, nor do they mend the tail of a watched object.
LEMMA ChangesHeap ==
  ASSUME TypeInv, TableInv, NEW t \in Threads, Changes(t),
         NEW s \in Slots, NEW u \in Threads, NEW o \in live, Watches(s, u, o)
  PROVE  o \in live' /\ (o \in smashed => o \in smashed')
<1> USE DEF TableInv, table
<1>1. o \in smashed => o \in smashed'
  BY DEF Changes, Take, Unwatch, Close, AfterClose, SetCallstack, Open, Installed, Exit, Create
<1>2. isUsed[s] /\ callstack[s] = o
  BY DEF Watches
<1>3. CASE Unwatch(t)
  BY <1>2, <1>3 DEF Unwatch
<1>4. CASE AfterClose(t)
  <2>1. SUFFICES ASSUME new[t] = NoObject, callstack[slot[t]] = o PROVE FALSE
    BY <1>4 DEF AfterClose
  <2>2. pc[t] = "close" /\ todo[t] = {}
    BY <1>4 DEF AfterClose
  <2>3. PICK r \in Slots : r = slot[t]
    BY <2>2, WorkersSlot DEF Working
  <2>4. Held(r)
    <3>1. isUsed[r]
      BY <2>1, <2>2, <2>3 DEF ObjectInv
    <3> QED
      BY <2>2, <2>3, <3>1 DEF OwnerInv, Held, Working
  <2>5. Held(s)
    <3>1. \A w \in Threads : new[w] # o
      BY Basics DEF ObjectInv, TypeInv
    <3> QED
      BY <3>1, WatchedObject
  <2>6. r = s
    BY <1>2, <2>1, <2>3, <2>4, <2>5 DEF ObjectInv
  <2> QED
    BY <2>2, <2>3, <2>6 DEF Watches, Working
<1>5. live \subseteq live' \/ Unwatch(t) \/ AfterClose(t)
  BY DEF Changes, Take, Close, SetCallstack, Open, Installed, Exit, Create
<1> QED
  BY <1>1, <1>3, <1>4, <1>5

\* Call stacks in slots are those of objects.
LEMMA ChangesCallstack ==
  ASSUME TypeInv, TableInv, NEW t \in Threads, Changes(t), NEW s \in Slots,
         callstack[s] \in Objects
  PROVE  callstack'[s] \in Objects
<1> USE DEF TableInv, table
<1>1. CASE SetCallstack(t)
  BY <1>1 DEF SetCallstack, ObjectInv, TypeInv
<1>2. SetCallstack(t) \/ callstack' = callstack
  BY DEF Changes, Take, Unwatch, Close, AfterClose, Open, Installed, Exit, Create
<1> QED
  BY <1>1, <1>2

\* An event that is off still has its handler.
LEMMA ChangesOff ==
  ASSUME TypeInv, TableInv, OffInv, NEW t \in Threads, Changes(t)
  PROVE  OffInv'
<1>1. Kept
  BY ChangesTable
<1>2. SUFFICES ASSUME NEW n \in Numbers, IsOpen(n)', ~event'[n].on
               PROVE  \E u \in Threads : sig'[u] = n /\ pc'[u] \in {"look", "enable"}
  BY DEF OffInv
<1>3. event'[n] = event[n]
  BY <1>1, <1>2, ClosedType DEF Kept, IsOpen
<1>4. PICK u \in Threads : sig[u] = n /\ pc[u] \in {"look", "enable"}
  BY <1>2, <1>3 DEF OffInv, IsOpen
<1>5. u # t
  BY <1>4, ChangesHandlers DEF Working
<1> QED
  BY <1>4, <1>5, ChangesHandlers

\* What handlers know stays true, or their event has been closed.
LEMMA ChangesKnown ==
  ASSUME TypeInv, TableInv, HandlerInv, NEW t \in Threads, Changes(t)
  PROVE  HandlerInv'
<1>1. Kept
  BY ChangesTable
<1>2. ASSUME NEW u \in Threads, pc'[u] \in Handling
      PROVE  u # t /\ pc'[u] = pc[u] /\ slot'[u] = slot[u]
  BY <1>2, ChangesHandlers DEF Working, Handling
<1>3. ASSUME NEW u \in Threads, told'[u] # NoObject PROVE pc'[u] = "release"
  BY <1>3, ChangesHandlers DEF HandlerInv, Known, Working
<1>4. ASSUME NEW u \in Threads, pc'[u] \in {"disable", "look", "enable", "tell"}
      PROVE  slot'[u] \in Slots /\ callstack'[slot'[u]] \in Objects
  <2>1. pc'[u] = pc[u] /\ slot'[u] = slot[u]
    BY <1>2, <1>4 DEF Handling
  <2>2. PICK s \in Slots : s = slot[u] /\ callstack[s] \in Objects
    BY <1>4, <2>1 DEF HandlerInv, Known
  <2>3. callstack'[s] \in Objects
    BY <2>2, ChangesCallstack
  <2> QED
    BY <2>1, <2>2, <2>3
<1>5. ASSUME NEW u \in Threads, Current(u)'
      PROVE  Current(u) /\ sig[u] \in Numbers /\ IsOpen(sig[u]) /\ ~Overtaken(sig[u])
  <2>1. pc'[u] \in Handling /\ ~evicted'[u]
    BY <1>5 DEF Current
  <2>2. pc[u] \in Handling /\ ~evicted[u]
    BY <1>2, <2>1, ChangesHandlers
  <2>3. Current(u) /\ sig[u] \in Numbers /\ IsOpen(sig[u])
    BY <2>2 DEF Current, HandlerInv, Known
  <2>4. InHandler(u)
    BY <2>2 DEF InHandler, Handling
  <2> QED
    BY <2>1, <2>3, <2>4 DEF Overtaken
<1>6. ASSUME NEW u \in Threads, Current(u)'
      PROVE  /\ event'[sig[u]] = event[sig[u]] /\ IsOpen(sig[u])'
             /\ access[u].object \in live' /\ (Overwritten(u) => Overwritten(u)')
  <2>1. PICK n \in Numbers : n = sig[u]
    BY <1>5, <1>6
  <2>2. event'[n] = event[n] /\ IsOpen(n)
    BY <1>1, <1>5, <1>6, <2>1 DEF Kept
  <2>3. event[n].object = access[u].object /\ access[u].object \in live
    BY <1>5, <1>6, <2>1 DEF HandlerInv, Known
  <2>4. PICK v \in Threads, o \in live : v = event[n].thread /\ o = event[n].object
    BY <2>2, <2>3, OpenEvents
  <2>5. PICK s \in Slots : Watches(s, v, o)
    BY <2>2, <2>4 DEF TableInv, EventInv
  <2>6. o \in live' /\ (o \in smashed => o \in smashed')
    BY <2>5, ChangesHeap
  <2> QED
    BY <2>1, <2>2, <2>3, <2>4, <2>6, ChangesHandlers DEF Overwritten, IsOpen
<1>7. ASSUME NEW u \in Threads, Current(u)'
      PROVE  /\ IsOpen(sig[u])' /\ event'[sig'[u]].thread = u
             /\ event'[sig'[u]].object = access'[u].object
             /\ access'[u].object \in live'
             /\ access'[u].write => Overwritten(u)'
             /\ pc'[u] = "look" /\ ~lapsed' => ~event'[sig'[u]].on
  <2>1. sig'[u] = sig[u] /\ access'[u] = access[u] /\ lapsed' = lapsed
    BY ChangesHandlers
  <2>2. pc'[u] = pc[u]
    BY <1>2, <1>7 DEF Current
  <2> QED
    BY <1>5, <1>6, <1>7, <2>1, <2>2 DEF HandlerInv, Known
<1>8. ASSUME NEW u \in Threads, Current(u)', ~early'[u], ~Uncovered'
      PROVE  Current(u) /\ ~early[u] /\ ~Uncovered
  BY <1>5, <1>8, ChangesHandlers
<1>9. ASSUME NEW u \in Threads, Current(u)', ~early'[u], ~Uncovered',
             pc'[u] \in {"disable", "look", "enable", "tell"}
      PROVE  fd'[slot'[u]][u] = sig'[u] /\ Watches(slot[u], u, access[u].object)'
  <2>1. pc'[u] = pc[u] /\ slot'[u] = slot[u] /\ sig'[u] = sig[u] /\ access'[u] = access[u]
    BY <1>2, <1>9, ChangesHandlers DEF Current
  <2>2. PICK s \in Slots, o \in {access[u].object} :
          /\ s = slot[u] /\ o = access[u].object
          /\ fd[s][u] = sig[u] /\ Watches(s, u, o)
    BY <1>8, <1>9, <2>1 DEF HandlerInv, Known
  <2>3. Watches(s, u, o)' /\ fd'[s][u] = fd[s][u]
    BY <1>1, <1>5, <1>9, <2>2 DEF Kept
  <2>4. s = slot'[u] /\ o = access'[u].object
    BY <2>1, <2>2
  <2> QED
    BY <2>1, <2>2, <2>3, <2>4
<1>10. ASSUME NEW u \in Threads, Current(u)', ~early'[u], ~Uncovered'
       PROVE  /\ pc'[u] \in {"enable", "tell"} \/ (pc'[u] = "release" /\ told'[u] # NoObject) =>
                   /\ isread'[u] => ~access'[u].write
                   /\ ~isread'[u] => Overwritten(u)'
              /\ pc'[u] = "release" /\ told'[u] # NoObject => told'[u] = access'[u].object
  <2>1. pc'[u] = pc[u]
    BY <1>2, <1>10 DEF Current
  <2> QED
    BY <1>6, <1>8, <1>10, <2>1, ChangesHandlers DEF HandlerInv, Known
<1>11. \A u \in Threads : pc'[u] \in Handling => sig'[u] \in Numbers
  BY <1>2, ChangesHandlers DEF HandlerInv, Known
<1> QED
  BY <1>3, <1>4, <1>7, <1>9, <1>10, <1>11 DEF HandlerInv, Known

-----------------------------------------------------------------------------
(* What a handler does *)

\* What a step other than its own may change for a handler.
LEMMA QuietOthers ==
  ASSUME TypeInv, HandlerInv, NEW t \in Threads, Quiet(t), NEW u \in Threads, u # t,
         \A n \in Numbers : event'[n].thread = event[n].thread /\ event'[n].object = event[n].object,
         \A s \in Slots : \A v, o : Watches(s, v, o)' <=> Watches(s, v, o),
         lapsed => lapsed',
         Current(u) /\ pc[u] = "look" /\ ~lapsed' => event'[sig[u]].on = event[sig[u]].on
  PROVE  Known(u)'
<1>1. /\ pc'[u] = pc[u] /\ slot'[u] = slot[u] /\ sig'[u] = sig[u] /\ isread'[u] = isread[u]
      /\ access'[u] = access[u] /\ told'[u] = told[u] /\ early'[u] = early[u]
      /\ evicted'[u] = evicted[u]
      /\ UNCHANGED <<callstack, fd, live, foreign, failures>>
      /\ smashed \subseteq smashed'
  BY DEF Quiet
<1>2. Current(u)' <=> Current(u)
  BY <1>1 DEF Current
<1>3. Uncovered' <=> Uncovered
  BY <1>1 DEF Uncovered
<1>4. Overwritten(u) => Overwritten(u)'
  BY <1>1 DEF Overwritten
<1>5. ASSUME Current(u)
      PROVE  /\ IsOpen(sig[u])' /\ event'[sig[u]].thread = u
             /\ event'[sig[u]].object = access[u].object
             /\ pc[u] = "look" /\ ~lapsed' => ~event'[sig[u]].on
  <2>1. sig[u] \in Numbers
    BY <1>5 DEF Current, HandlerInv, Known
  <2>2. event'[sig[u]].thread = u /\ event'[sig[u]].object = access[u].object
    BY <1>5, <2>1 DEF HandlerInv, Known
  <2>3. IsOpen(sig[u])'
    BY <1>1, <2>2, Basics DEF IsOpen
  <2> QED
    BY <1>5, <2>2, <2>3 DEF HandlerInv, Known
<1>6. ASSUME Current(u), ~early[u], ~Uncovered, pc[u] \in {"disable", "look", "enable", "tell"}
      PROVE  fd[slot[u]][u] = sig[u] /\ Watches(slot[u], u, access[u].object)'
  <2>1. PICK s \in Slots, o \in {access[u].object} :
          s = slot[u] /\ o = access[u].object /\ fd[s][u] = sig[u]
                              /\ Watches(s, u, o)
    BY <1>6 DEF HandlerInv, Known
  <2>2. Watches(s, u, o)' /\ s = slot'[u] /\ o = access'[u].object
    BY <1>1, <2>1
  <2> QED
    BY <2>1, <2>2
<1>7. /\ pc'[u] \in Handling => sig'[u] \in Numbers
      /\ told'[u] # NoObject => pc'[u] = "release"
      /\ pc'[u] \in {"disable", "look", "enable", "tell"} =>
           slot'[u] \in Slots /\ callstack'[slot'[u]] \in Objects
  BY <1>1 DEF HandlerInv, Known
<1>8. Current(u)' =>
        /\ IsOpen(sig[u])' /\ event'[sig'[u]].thread = u
        /\ event'[sig'[u]].object = access'[u].object
        /\ access'[u].object \in live'
        /\ access'[u].write => Overwritten(u)'
        /\ pc'[u] = "look" /\ ~lapsed' => ~event'[sig'[u]].on
  BY <1>1, <1>2, <1>4, <1>5 DEF HandlerInv, Known
<1>9. Current(u)' /\ ~early'[u] /\ ~Uncovered' =>
        /\ pc'[u] \in {"disable", "look", "enable", "tell"} =>
             fd'[slot'[u]][u] = sig'[u] /\ Watches(slot[u], u, access[u].object)'
        /\ pc'[u] \in {"enable", "tell"} \/ (pc'[u] = "release" /\ told'[u] # NoObject) =>
             /\ isread'[u] => ~access'[u].write
             /\ ~isread'[u] => Overwritten(u)'
        /\ pc'[u] = "release" /\ told'[u] # NoObject => told'[u] = access'[u].object
  BY <1>1, <1>2, <1>3, <1>4, <1>6 DEF HandlerInv, Known
<1> QED
  BY <1>7, <1>8, <1>9 DEF Known

\* No event becomes another.
LEMMA QuietEvents ==
  ASSUME TypeInv, NEW t \in Threads, Access(t) \/ trapHandler(t)
  PROVE  /\ \A n \in Numbers : event'[n].thread = event[n].thread
                               /\ event'[n].object = event[n].object
         /\ lapsed => lapsed'
<1>1. CASE Disable(t) \/ Enable(t)
  <2>1. PICK on \in BOOLEAN : event' = Switched(sig[t], on)
    BY <1>1 DEF Disable, Enable, Enabled
  <2>2. \A n \in Numbers : event'[n].thread = event[n].thread /\ event'[n].object = event[n].object
    BY <2>1, SwitchedEvents
  <2> QED
    BY <1>1, <2>2 DEF Disable, Enable, Lapse
<1>2. (Disable(t) \/ Enable(t)) \/ UNCHANGED <<event, lapsed>>
  BY DEF Access, trapHandler, Classify, Lookup, Look, Tell, Release
<1> QED
  BY <1>1, <1>2

\* A handler that switches another's event has lost its own.
LEMMA QuietLook ==
  ASSUME TypeInv, HandlerInv, NEW t \in Threads, Access(t) \/ trapHandler(t),
         NEW u \in Threads, u # t, Current(u), pc[u] = "look", ~lapsed'
  PROVE  event'[sig[u]].on = event[sig[u]].on
<1>1. CASE Disable(t) \/ Enable(t)
  <2>1. PICK on \in BOOLEAN : event' = Switched(sig[t], on)
    BY <1>1 DEF Disable, Enable, Enabled
  <2>2. ~evicted[t] /\ pc[t] \in Handling
    BY <1>1 DEF Disable, Enable, Lapse, Handling
  <2>3. sig[t] # sig[u]
    BY <2>2 DEF Current, HandlerInv, Known
  <2>4. sig[u] \in Numbers
    BY DEF Current, HandlerInv, Known
  <2> QED
    BY <2>1, <2>3, <2>4, SwitchedEvents
<1>2. (Disable(t) \/ Enable(t)) \/ UNCHANGED event
  BY DEF Access, trapHandler, Classify, Lookup, Look, Tell, Release
<1> QED
  BY <1>1, <1>2

\* The event that sent a signal is in the table.
LEMMA EventInTable ==
  ASSUME TypeInv, TableInv, HandlerInv, NEW t \in Threads, Current(t)
  PROVE  \E s \in Slots : fd[s][t] = sig[t] /\ Watches(s, t, access[t].object)
<1>1. PICK n \in Numbers : n = sig[t]
  BY DEF Current, HandlerInv, Known
<1>2. IsOpen(n) /\ event[n].thread = t /\ event[n].object = access[t].object
  BY <1>1 DEF HandlerInv, Known
<1> QED
  BY <1>1, <1>2 DEF TableInv, EventInv

\* getWatchpointObjectByFd finds the slot of the signal's event.
LEMMA LookupFinds ==
  ASSUME TypeInv, TableInv, HandlerInv, NEW t \in Threads, Current(t), ~Uncovered,
         NEW s \in Slots, Has(s, sig[t]), ~\E u \in Awaited(s) : fd[s][u] = sig[t]
  PROVE  fd[s][t] = sig[t] /\ Watches(s, t, access[t].object)
<1> USE DEF TableInv
<1>1. PICK n \in Numbers : n = sig[t]
  BY DEF Current, HandlerInv, Known
<1>2. PICK u \in alive : fd[s][u] = n /\ isUsed[s]
  BY <1>1 DEF Has
<1>3. u \in Threads /\ n # 0
  BY Basics DEF TypeInv
<1>4. PICK o : o = callstack[s]
  OBVIOUS
<1>5. Watches(s, u, o)
  <2>1. SUFFICES ASSUME NEW w \in Threads, pc[w] \in Working, slot[w] = s
                 PROVE  \/ pc[w] = "close" /\ u \in todo[w]
                        \/ pc[w] = "open" /\ u \notin todo[w]
    BY <1>2, <1>4 DEF Watches
  <2>2. CASE pc[w] = "close"
    BY <1>2, <1>3, <2>1, <2>2 DEF NumberInv
  <2>3. ASSUME NEW X, X = (IF pc[w] = "cs" THEN alive ELSE IF pc[w] = "open" THEN todo[w] ELSE {}),
               u \in X
        PROVE  FALSE
    <3>1. u \in Awaited(s)
      BY <2>1, <2>3 DEF Awaited
    <3> QED
      BY <1>1, <1>2, <3>1
  <2>4. pc[w] # "cs" /\ (pc[w] = "open" => u \notin todo[w])
    BY <1>2, <2>3
  <2> QED
    BY <2>1, <2>2, <2>4 DEF Working
<1>6. event[n].thread = u /\ event[n].object = o
  BY <1>2, <1>3, <1>4, <1>5 DEF EventInv
<1>7. event[n].thread = t /\ event[n].object = access[t].object
  BY <1>1 DEF HandlerInv, Known
<1> QED
  BY <1>1, <1>2, <1>5, <1>6, <1>7

\* What a handler knows after its own step.
LEMMA QuietOwn ==
  ASSUME TypeInv, TableInv, HandlerInv, NEW t \in Threads, Access(t) \/ trapHandler(t), TypeInv'
  PROVE  Known(t)'
<1> USE DEF TableInv
<1>1. Quiet(t) /\ \A s \in Slots : \A u, o : Watches(s, u, o)' <=> Watches(s, u, o)
  <2>1. Quiet(t)
    BY QuietSteps
  <2> QED
    BY <2>1, QuietTable
<1>2. \A n \in Numbers : event'[n].thread = event[n].thread /\ event'[n].object = event[n].object
  BY QuietEvents
<1>3. UNCHANGED <<addr, callstack, fd, live, foreign, failures>> /\ smashed \subseteq smashed'
  BY <1>1 DEF Quiet
<1>4. Uncovered' <=> Uncovered
  BY <1>3 DEF Uncovered
<1>5. CASE Access(t)
  <2>1. CASE UNCHANGED <<pc, sig, access>>
    <3>1. pc'[t] = "app" /\ told'[t] = told[t]
      BY <1>5, <2>1 DEF Access, Call, sigs
    <3>2. told[t] = NoObject
      BY <1>5 DEF Access, Call, HandlerInv, Known
    <3> QED
      BY <3>1, <3>2 DEF Known, Current, Handling
  <2>2. CASE \E o \in live, place \in Places, write \in BOOLEAN :
               /\ smashed' = smashed \cup IF write THEN {o} ELSE {}
               /\ \E n \in Hits(t, o) : sig' = [sig EXCEPT ![t] = n]
               /\ access' = [access EXCEPT ![t] =
                               [object |-> o, place |-> place, write |-> write]]
               /\ pc' = [pc EXCEPT ![t] = "trap"]
    <3>1. PICK o \in live, place \in Places, write \in BOOLEAN :
             /\ smashed' = smashed \cup IF write THEN {o} ELSE {}
             /\ \E n \in Hits(t, o) : sig' = [sig EXCEPT ![t] = n]
             /\ access' = [access EXCEPT ![t] =
                             [object |-> o, place |-> place, write |-> write]]
             /\ pc' = [pc EXCEPT ![t] = "trap"]
      BY <2>2
    <3>2. PICK n \in Numbers : /\ event[n] = [object |-> o, thread |-> t, on |-> TRUE]
                               /\ sig' = [sig EXCEPT ![t] = n]
      BY <3>1 DEF Hits
    <3>3. pc'[t] = "trap" /\ sig'[t] = n /\ access'[t].object = o /\ access'[t].write = write
      BY <3>1, <3>2 DEF TypeInv
    <3>4. told'[t] = NoObject
      BY <1>5 DEF Access, Call, sigs, HandlerInv, Known
    <3>5. event'[n].thread = t /\ event'[n].object = o
      BY <1>2, <3>2
    <3>6. IsOpen(n)'
      BY <3>5, Basics DEF IsOpen
    <3>7. write => o \in smashed'
      BY <3>1
    <3> QED
      BY <1>3, <3>3, <3>4, <3>5, <3>6, <3>7 DEF Known, Overwritten
  <2>3. UNCHANGED <<pc, sig, access>>
        \/ \E o \in live, place \in Places, write \in BOOLEAN :
               /\ smashed' = smashed \cup IF write THEN {o} ELSE {}
               /\ \E n \in Hits(t, o) : sig' = [sig EXCEPT ![t] = n]
               /\ access' = [access EXCEPT ![t] =
                               [object |-> o, place |-> place, write |-> write]]
               /\ pc' = [pc EXCEPT ![t] = "trap"]
    BY <1>5 DEF Access, Goto
  <2> QED
    BY <2>1, <2>2, <2>3
<1>6. ASSUME trapHandler(t), pc'[t] = "app" PROVE Known(t)'
  <2>1. Classify(t) \/ Release(t)
    BY <1>6 DEF trapHandler, Lookup, Disable, Look, Enable, Tell, Goto, TypeInv
  <2>2. told'[t] = NoObject
    <3>1. Classify(t) => Forget(t)
      BY <1>6 DEF Classify, Goto, TypeInv
    <3>2. told' = [told EXCEPT ![t] = NoObject]
      BY <2>1, <3>1 DEF Release, Forget
    <3> QED
      BY <3>2 DEF TypeInv
  <2> QED
    BY <1>6, <2>2 DEF Known, Current, Handling
\* The event is what it was, as far as this step is concerned.
<1>7. ASSUME pc[t] \in Handling, pc'[t] # "app", sig' = sig, evicted' = evicted,
             access'[t].object = access[t].object, access'[t].write = access[t].write
      PROVE  /\ sig'[t] \in Numbers
             /\ Current(t)' => /\ Current(t)
                               /\ IsOpen(sig[t])' /\ event'[sig'[t]].thread = t
                               /\ event'[sig'[t]].object = access'[t].object
                               /\ access'[t].object \in live'
                               /\ access'[t].write => Overwritten(t)'
  <2>1. sig[t] \in Numbers /\ (Current(t)' => Current(t))
    BY <1>7 DEF HandlerInv, Known, Current
  <2>2. IsOpen(sig[t])' <=> IsOpen(sig[t])
    BY <1>2, <1>7, <2>1 DEF IsOpen
  <2> QED
    BY <1>2, <1>3, <1>7, <2>1, <2>2 DEF HandlerInv, Known, Overwritten
<1>8. CASE Classify(t) /\ pc'[t] # "app"
  <2>1. /\ pc[t] = "trap" /\ pc' = [pc EXCEPT ![t] = "lookup"]
        /\ access' = [access EXCEPT ![t].place = "none"]
        /\ UNCHANGED <<sig, isread, told, early, evicted>>
    BY <1>8 DEF Classify, Goto, TypeInv
  <2>2. access'[t].object = access[t].object /\ access'[t].write = access[t].write
    BY <2>1 DEF TypeInv, AccessType
  <2>3. pc'[t] = "lookup" /\ told'[t] = NoObject
    BY <2>1 DEF TypeInv, HandlerInv, Known
  <2> QED
    BY <1>7, <2>1, <2>2, <2>3 DEF Known, Handling
<1>9. CASE Lookup(t)
  <2> DEFINE found == {s \in Slots : Has(s, sig[t])}
             s == Min(found)
  <2>1. pc[t] = "lookup" /\ UNCHANGED <<sig, isread, access, told, evicted>>
    BY <1>9 DEF Lookup
  <2>2. told'[t] = NoObject
    BY <2>1 DEF HandlerInv, Known
  <2>3. pc'[t] \in {"release", "disable"}
    BY <1>9 DEF Lookup, Goto, TypeInv
  <2>4. CASE pc'[t] = "release"
    BY <1>7, <2>1, <2>2, <2>4 DEF Known, Handling
  <2>5. CASE pc'[t] = "disable"
    <3>1. found # {}
      BY <1>9, <2>5 DEF Lookup, Goto, TypeInv
    <3>2. s \in found
      BY <3>1, LeastOf, Basics
    <3>3. /\ slot' = [slot EXCEPT ![t] = s]
          /\ early' = [early EXCEPT ![t] = \E u \in Awaited(s) : fd[s][u] = sig[t]]
      BY <1>9, <3>1 DEF Lookup
    <3> HIDE DEF s
    <3>4. PICK r \in Slots : /\ Has(r, sig[t]) /\ slot'[t] = r
                             /\ early'[t] = \E u \in Awaited(r) : fd[r][u] = sig[t]
      BY <3>2, <3>3 DEF TypeInv
    <3>5. callstack[r] \in Objects
      <4>1. sig[t] \in Numbers /\ sig[t] # 0
        BY <2>1, Basics DEF HandlerInv, Known, Handling
      <4> QED
        BY <3>4, <4>1 DEF Has, NumberInv, TypeInv
    <3>6. ASSUME Current(t)', ~early'[t], ~Uncovered'
          PROVE  fd'[slot'[t]][t] = sig'[t] /\ Watches(slot[t], t, access[t].object)'
      <4>1. Current(t)
        BY <2>1, <3>6 DEF Current, Handling
      <4>2. fd[r][t] = sig[t] /\ Watches(r, t, access[t].object)
        BY <1>4, <3>4, <3>6, <4>1, LookupFinds
      <4>3. PICK o : o = access[t].object
        OBVIOUS
      <4>4. Watches(r, t, o)' /\ o = access'[t].object
        BY <1>1, <2>1, <3>4, <4>2, <4>3
      <4> QED
        BY <1>3, <2>1, <3>4, <4>2, <4>4
    <3> QED
      BY <1>3, <1>7, <2>1, <2>2, <2>5, <3>4, <3>5, <3>6 DEF Known, Handling
  <2> QED
    BY <2>3, <2>4, <2>5
<1>10. ASSUME pc[t] \in {"disable", "look", "enable", "tell"}, slot' = slot, sig' = sig,
              access' = access, early' = early, evicted' = evicted, pc'[t] \in Handling
       PROVE  /\ slot'[t] \in Slots /\ callstack'[slot'[t]] \in Objects
              /\ Current(t)' /\ ~early'[t] /\ ~Uncovered' =>
                   /\ fd'[slot'[t]][t] = sig'[t] /\ Watches(slot[t], t, access[t].object)'
                   /\ addr[slot[t]] = access[t].object /\ callstack[slot[t]] = access[t].object
  <2>1. PICK s \in Slots : s = slot[t] /\ callstack[s] \in Objects
    BY <1>10 DEF HandlerInv, Known
  <2>2. ASSUME Current(t)', ~early'[t], ~Uncovered'
        PROVE  /\ fd'[slot'[t]][t] = sig'[t] /\ Watches(slot[t], t, access[t].object)'
               /\ addr[slot[t]] = access[t].object /\ callstack[slot[t]] = access[t].object
    <3>1. Current(t) /\ ~early[t] /\ ~Uncovered
      BY <1>4, <1>10, <2>2 DEF Current, Handling
    <3>2. PICK o : o = access[t].object
      OBVIOUS
    <3>3. fd[s][t] = sig[t] /\ Watches(s, t, o)
      BY <1>10, <2>1, <3>1, <3>2 DEF HandlerInv, Known
    <3>4. Watches(s, t, o)' /\ s = slot'[t] /\ o = access'[t].object
      BY <1>1, <1>10, <2>1, <3>2, <3>3
    <3>5. addr[s] = o /\ callstack[s] = o
      BY <3>3, WatchedObject
    <3> QED
      BY <1>3, <1>10, <2>1, <3>2, <3>3, <3>4, <3>5
  <2> QED
    BY <1>3, <1>10, <2>1, <2>2
<1>11. CASE Disable(t)
  <2>1. /\ pc[t] = "disable" /\ pc'[t] = "look" /\ UNCHANGED <<slot, sigs, evicted>>
        /\ event' = Switched(sig[t], FALSE)
    BY <1>11 DEF Disable, Goto, TypeInv
  <2>2. told'[t] = NoObject
    BY <2>1 DEF HandlerInv, Known, sigs
  <2>3. Current(t)' => ~event'[sig'[t]].on
    <3>1. sig[t] \in Numbers /\ sig' = sig
      BY <2>1 DEF HandlerInv, Known, Handling, sigs
    <3> QED
      BY <2>1, <3>1, SwitchedEvents
  <2> QED
    BY <1>7, <1>10, <2>1, <2>2, <2>3 DEF Known, Handling, sigs
<1>12. CASE Look(t)
  <2>1. /\ pc[t] = "look" /\ pc'[t] = "enable"
        /\ UNCHANGED <<slot, sig, access, told, early, evicted, smashed>>
    BY <1>12 DEF Look, Goto, TypeInv
  <2>2. told'[t] = NoObject
    BY <2>1 DEF HandlerInv, Known
  <2>3. PICK intact \in BOOLEAN :
          /\ addr[slot[t]] \in live => intact = (addr[slot[t]] \notin smashed)
          /\ isread' = [isread EXCEPT ![t] = intact]
    BY <1>12 DEF Look
  <2>4. isread'[t] = intact
    BY <2>3 DEF TypeInv
  <2>5. ASSUME Current(t)', ~early'[t], ~Uncovered'
        PROVE  /\ isread'[t] => ~access'[t].write
               /\ ~isread'[t] => Overwritten(t)'
    <3>1. addr[slot[t]] = access[t].object
      BY <1>10, <2>1, <2>5 DEF Handling
    <3>2. access[t].object \in live /\ (access[t].write => access[t].object \in smashed)
      BY <2>1, <2>5 DEF Current, Handling, HandlerInv, Known, Overwritten
    <3>3. intact <=> access[t].object \notin smashed
      BY <2>3, <3>1, <3>2
    <3>4. isread'[t] => ~access[t].write
      BY <2>4, <3>2, <3>3
    <3>5. ~isread'[t] => access[t].object \in smashed
      BY <2>4, <3>3
    <3> QED
      BY <2>1, <3>4, <3>5 DEF Overwritten
  <2> QED
    BY <1>7, <1>10, <2>1, <2>2, <2>5 DEF Known, Handling
<1>13. ASSUME Current(t)', ~early'[t], ~Uncovered', pc[t] \in {"enable", "tell"},
              UNCHANGED <<sig, isread, access, early, evicted>>
       PROVE  /\ isread'[t] => ~access'[t].write
              /\ ~isread'[t] => Overwritten(t)'
  <2>1. Current(t) /\ ~early[t] /\ ~Uncovered
    BY <1>4, <1>13 DEF Current, Handling
  <2>2. /\ isread[t] => ~access[t].write
        /\ ~isread[t] => Overwritten(t)
    BY <1>13, <2>1 DEF HandlerInv, Known
  <2> QED
    BY <1>3, <1>13, <2>2 DEF Overwritten
<1>14. CASE Enable(t)
  <2>1. pc[t] = "enable" /\ pc'[t] = "tell" /\ UNCHANGED <<slot, sigs, evicted>>
    BY <1>14 DEF Enable, Goto, TypeInv
  <2>2. told'[t] = NoObject
    BY <2>1 DEF HandlerInv, Known, sigs
  <2> QED
    BY <1>7, <1>10, <1>13, <2>1, <2>2 DEF Known, Handling, sigs
<1>15. CASE Tell(t)
  <2>1. /\ pc[t] = "tell" /\ pc'[t] = "release"
        /\ UNCHANGED <<slot, sig, isread, access, early, evicted>>
    BY <1>15 DEF Tell, Goto, TypeInv
  <2>2. told'[t] = callstack[slot[t]]
    BY <1>15 DEF Tell, TypeInv
  <2>3. Current(t)' /\ ~early'[t] /\ ~Uncovered' => told'[t] = access'[t].object
    BY <1>10, <2>1, <2>2 DEF Handling
  <2> QED
    BY <1>7, <1>13, <2>1, <2>3 DEF Known, Handling
<1> QED
  BY <1>5, <1>6, <1>8, <1>9, <1>11, <1>12, <1>14, <1>15
  DEF trapHandler, Release, Goto, TypeInv

\* The steps of the application's accesses and of handlers keep what handlers know.
LEMMA QuietKnown ==
  ASSUME TypeInv, TypeInv', TableInv, HandlerInv, NEW t \in Threads, Access(t) \/ trapHandler(t)
  PROVE  HandlerInv'
<1>1. Quiet(t) /\ \A s \in Slots : \A u, o : Watches(s, u, o)' <=> Watches(s, u, o)
  <2>1. Quiet(t)
    BY QuietSteps DEF TableInv
  <2> QED
    BY <2>1, QuietTable DEF TableInv
<1>2. /\ \A n \in Numbers : event'[n].thread = event[n].thread /\ event'[n].object = event[n].object
      /\ lapsed => lapsed'
  BY QuietEvents
<1>3. ASSUME NEW u \in Threads, u # t PROVE Known(u)'
  <2>1. Current(u) /\ pc[u] = "look" /\ ~lapsed' => event'[sig[u]].on = event[sig[u]].on
    BY <1>3, QuietLook
  <2> QED
    BY <1>1, <1>2, <1>3, <2>1, QuietOthers
<1>4. Known(t)'
  BY QuietOwn
<1> QED
  BY <1>3, <1>4 DEF HandlerInv

\* An event that is off is switched on again by its handler.
LEMMA QuietOff ==
  ASSUME TypeInv, TypeInv', OffInv, HandlerInv, OwnerInv, NEW t \in Threads,
         Access(t) \/ trapHandler(t)
  PROVE  OffInv'
<1>1. Quiet(t)
  BY QuietSteps
<1>2. SUFFICES ASSUME NEW n \in Numbers, IsOpen(n)', ~event'[n].on
               PROVE  \E u \in Threads : sig'[u] = n /\ pc'[u] \in {"look", "enable"}
  BY DEF OffInv
<1>3. event'[n].thread = event[n].thread /\ IsOpen(n)
  BY <1>2, QuietEvents DEF IsOpen
<1>4. \A u \in Threads : u # t => sig'[u] = sig[u] /\ pc'[u] = pc[u]
  BY <1>1 DEF Quiet
<1>5. CASE Disable(t)
  <2>1. event' = Switched(sig[t], FALSE) /\ sig' = sig /\ pc'[t] = "look" /\ pc[t] = "disable"
    BY <1>5 DEF Disable, sigs, Goto, TypeInv
  <2>2. CASE n = sig[t]
    BY <2>1, <2>2
  <2>3. CASE n # sig[t]
    <3>1. event'[n] = event[n]
      <4>1. \E on \in BOOLEAN : event' = Switched(sig[t], on)
        BY <2>1
      <4> QED
        BY <2>3, <4>1, SwitchedEvents
    <3>2. ~event[n].on
      BY <1>2, <3>1, Zenon
    <3> QED
      BY <1>3, <1>4, <2>1, <3>2 DEF OffInv
  <2> QED
    BY <2>2, <2>3
<1>6. CASE Enable(t)
  <2>1. event' = Switched(sig[t], TRUE) /\ sig' = sig
    BY <1>6 DEF Enable, Enabled, sigs
  <2>2. n # sig[t]
    BY <1>2, <1>3, <2>1, SwitchedEvents
  <2>3. event'[n] = event[n]
    <3>1. \E on \in BOOLEAN : event' = Switched(sig[t], on)
      BY <2>1
    <3> QED
      BY <2>2, <3>1, SwitchedEvents
  <2>4. ~event[n].on
    BY <1>2, <2>3, Zenon
  <2> QED
    BY <1>3, <1>4, <2>1, <2>2, <2>4 DEF OffInv
<1>7. CASE ~Disable(t) /\ ~Enable(t)
  <2>1. event' = event
    BY <1>7 DEF Access, trapHandler, Classify, Lookup, Look, Tell, Release
  <2>2. PICK u \in Threads : sig[u] = n /\ pc[u] \in {"look", "enable"}
    BY <1>2, <1>3, <2>1 DEF OffInv
  <2>3. CASE u = t
    <3>1. Look(t)
      BY <1>7, <2>2, <2>3
      DEF Access, Call, trapHandler, Classify, Lookup, Tell, Release, Disable, Enable
    <3>2. pc'[t] = "enable" /\ sig' = sig
      BY <3>1 DEF Look, Goto, TypeInv
    <3> QED
      BY <2>2, <2>3, <3>2
  <2>4. CASE u # t
    BY <1>4, <2>2, <2>4
  <2> QED
    BY <2>3, <2>4
<1> QED
  BY <1>5, <1>6, <1>7

\* A trap is dropped only if its event has been closed.
LEMMA ReportedStep ==
  ASSUME TypeInv, TypeInv', TableInv, HandlerInv, TrapReported, NEW t \in Threads, Step(t)
  PROVE  TrapReported'
<1>1. CASE Changes(t)
  BY <1>1, ChangesHandlers DEF TrapReported, Working
<1>2. CASE Access(t) \/ trapHandler(t)
  <2>1. \A u \in Threads : u # t => pc'[u] = pc[u] /\ told'[u] = told[u] /\ evicted'[u] = evicted[u]
    <3>1. Quiet(t)
      BY <1>2, QuietSteps DEF TableInv
    <3> QED
      BY <3>1 DEF Quiet
  <2>2. ASSUME pc'[t] = "release", told'[t] = NoObject PROVE evicted'[t]
    <3>1. Lookup(t) \/ Tell(t)
      BY <1>2, <2>2 DEF Access, Call, trapHandler, Classify, Disable, Look, Enable, Release, Goto, TypeInv
    <3>2. CASE Tell(t)
      <4>1. told'[t] = callstack[slot[t]] /\ pc[t] = "tell"
        BY <3>2 DEF Tell, TypeInv
      <4>2. callstack[slot[t]] \in Objects
        BY <4>1 DEF HandlerInv, Known
      <4> QED
        BY <2>2, <4>1, <4>2, Basics
    <3>3. CASE Lookup(t)
      <4>1. pc[t] = "lookup" /\ evicted' = evicted
        BY <3>3 DEF Lookup
      <4>2. \A s \in Slots : ~Has(s, sig[t])
        BY <2>2, <3>3 DEF Lookup, Goto, TypeInv
      <4>3. SUFFICES ASSUME ~evicted[t] PROVE FALSE
        BY <4>1
      <4>4. Current(t)
        BY <4>1, <4>3 DEF Current, Handling
      <4>5. PICK s \in Slots : fd[s][t] = sig[t] /\ Watches(s, t, access[t].object)
        BY <4>4, EventInTable
      <4>6. Has(s, sig[t])
        BY <4>5 DEF Has, Watches
      <4> QED
        BY <4>2, <4>6
    <3> QED
      BY <3>1, <3>2, <3>3
  <2> QED
    BY <2>1, <2>2 DEF TrapReported
<1> QED
  BY <1>1, <1>2 DEF Step, Changes

\* A handler's look sets off no event while all handlers have kept theirs.
LEMMA EchoStep ==
  ASSUME TypeInv, TypeInv', TableInv, HandlerInv, echoed => lapsed \/ Uncovered,
         NEW t \in Threads, Step(t)
  PROVE  echoed' => lapsed' \/ Uncovered'
<1> USE DEF TableInv
<1>1. CASE Changes(t)
  BY <1>1, ChangesHandlers
<1>2. CASE Access(t) \/ trapHandler(t)
  <2>1. Uncovered' <=> Uncovered
    <3>1. Quiet(t)
      BY <1>2, QuietSteps
    <3> QED
      BY <3>1 DEF Quiet, Uncovered
  <2>2. lapsed => lapsed'
    BY <1>2, QuietEvents
  <2>3. CASE ~Look(t)
    BY <1>2, <2>1, <2>2, <2>3
    DEF Access, trapHandler, Classify, Lookup, Disable, Enable, Tell, Release
  <2>4. CASE Look(t)
    <3>1. SUFFICES ASSUME Hits(t, addr[slot[t]]) # {}, ~evicted[t], ~early[t],
                          ~lapsed, ~Uncovered
                   PROVE  FALSE
      BY <2>1, <2>2, <2>4 DEF Look
    <3>2. pc[t] = "look" /\ Current(t)
      BY <2>4, <3>1 DEF Look, Current, Handling
    <3>3. PICK s \in Slots, o \in {access[t].object} :
            s = slot[t] /\ o = access[t].object /\ fd[s][t] = sig[t]
                                /\ Watches(s, t, o)
      BY <3>1, <3>2 DEF HandlerInv, Known
    <3>4. addr[s] = o
      BY <3>3, WatchedObject
    <3>5. PICK n \in Numbers : event[n] = [object |-> o, thread |-> t, on |-> TRUE]
      BY <3>1, <3>3, <3>4 DEF Hits
    <3>6. event[n].object = o /\ event[n].thread = t /\ event[n].on
      BY <3>5
    <3>7. IsOpen(n)
      BY <3>6, Basics DEF IsOpen
    <3>8. PICK r \in Slots : fd[r][t] = n /\ Watches(r, t, o)
      BY <3>6, <3>7 DEF EventInv
    <3>9. r = s
      BY <3>3, <3>8, OneWatch
    <3>10. ~event[sig[t]].on
      BY <3>1, <3>2 DEF HandlerInv, Known
    <3> QED
      BY <3>3, <3>6, <3>8, <3>9, <3>10
  <2> QED
    BY <2>3, <2>4
<1> QED
  BY <1>1, <1>2 DEF Step, Changes

-----------------------------------------------------------------------------
(* The theorems *)

\* At the start one object is watched, in every thread that is alive.
LEMMA InitInv == Init => TrapInv
<1> SUFFICES ASSUME Init PROVE TrapInv
  OBVIOUS
<1>1. PICK o \in Objects :
        /\ addr = [s \in Slots |-> IF s = 1 THEN o ELSE NoObject] /\ callstack = addr
        /\ event = [n \in Numbers |->
                     IF n - 2 \in alive THEN [object |-> o, thread |-> n - 2, on |-> TRUE]
                     ELSE Closed]
        /\ live = {o}
  BY DEF Init
<1>2. 1 \in Slots /\ o # NoObject /\ \A t \in Threads : t + 2 \in Numbers
  <2>1. 1 \in Slots /\ o # NoObject
    BY TrapAssumption DEF Slots
  <2>2. \A t \in Threads : t + 2 \in Numbers
    <3>1. WPs >= 1 /\ NThreads >= 1 /\ WPs \in Nat /\ NThreads \in Nat
      BY TrapAssumption
    <3>2. WPs * NThreads >= NThreads
      BY <3>1
    <3>3. WPs * NThreads \in Nat
      BY <3>1
    <3>4. PICK p \in Nat : p = WPs * NThreads
      BY <3>3
    <3> QED
      BY <3>1, <3>2, <3>4 DEF Numbers, Threads
  <2> QED
    BY <2>1, <2>2
<1>3. alive \subseteq Threads /\ alive \subseteq Nat
  BY Basics DEF Init
<1>4. \A n \in Numbers : event[n] \in EventType /\ (event[n] = Closed \/ event[n].thread \in Threads)
  <2> TAKE n \in Numbers
  <2>1. CASE n - 2 \in alive
    <3>1. event[n] = [object |-> o, thread |-> n - 2, on |-> TRUE]
      BY <1>1, <2>1
    <3>2. PICK t \in Threads : t = n - 2
      BY <1>3, <2>1
    <3>3. event[n] = [object |-> o, thread |-> t, on |-> TRUE]
      BY <3>1, <3>2
    <3> QED
      BY <3>3 DEF EventType
  <2>2. CASE n - 2 \notin alive
    BY <1>1, <2>2, ClosedType
  <2> QED
    BY <2>1, <2>2
<1>5. TypeInv
  <2>1. event \in [Numbers -> EventType]
    BY <1>1, <1>4
  <2>2. addr \in [Slots -> Objects \cup {NoObject}] /\ callstack \in [Slots -> Objects \cup {NoObject}]
    BY <1>1
  <2>3. fd \in [Slots -> [Threads -> Numbers \cup {0}]]
    BY <1>2 DEF Init
  <2>4. pc \in [Threads -> Labels]
    BY LabelList DEF Init
  <2>5. access \in [Threads -> AccessType]
    BY Accesses DEF Init
  <2>6. /\ isUsed \in [Slots -> BOOLEAN] /\ spin \subseteq Slots
        /\ live \subseteq Objects /\ smashed \subseteq Objects
        /\ slot \in [Threads -> Slots \cup {0}]
        /\ new \in [Threads -> Objects \cup {NoObject}]
        /\ todo \in [Threads -> SUBSET Threads]
        /\ sig \in [Threads -> Numbers \cup {0}]
        /\ isread \in [Threads -> BOOLEAN]
        /\ told \in [Threads -> Objects \cup {NoObject}]
        /\ early \in [Threads -> BOOLEAN] /\ evicted \in [Threads -> BOOLEAN]
        /\ echoed \in BOOLEAN /\ lapsed \in BOOLEAN /\ foreign \in BOOLEAN
        /\ failures \in Nat
    BY <1>1 DEF Init
  <2> QED
    BY <1>3, <1>4, <2>1, <2>2, <2>3, <2>4, <2>5, <2>6 DEF TypeInv
<1>6. \A t \in Threads : pc[t] = "app" /\ new[t] = NoObject /\ told[t] = NoObject
  BY DEF Init
<1>7. OwnerInv
  BY <1>6 DEF Init, OwnerInv, Working
<1>8. \A s \in Slots : isUsed[s] <=> s = 1
  BY DEF Init
<1>9. ObjectInv
  <2>1. \A s \in Slots : Held(s) <=> s = 1
    BY <1>6, <1>8 DEF Held
  <2>2. addr[1] = o /\ callstack[1] = o /\ live = {o}
    BY <1>1, <1>2
  <2> QED
    BY <1>6, <2>1, <2>2 DEF ObjectInv
<1>10. \A s \in Slots : \A u, q : Watches(s, u, q) <=> u \in alive /\ s = 1 /\ q = o
  BY <1>1, <1>2, <1>6, <1>8 DEF Watches, Working
<1>11. \A t \in Threads : fd[1][t] = t + 2
  BY <1>2 DEF Init
<1>12. \A t \in alive : /\ t + 2 \in Numbers /\ event[t + 2].thread = t /\ event[t + 2].object = o
                        /\ IsOpen(t + 2)
  <2> TAKE t \in alive
  <2>1. PICK n \in Numbers : n = t + 2 /\ n - 2 = t
    BY <1>2, <1>3
  <2>2. event[n] = [object |-> o, thread |-> t, on |-> TRUE]
    BY <1>1, <2>1
  <2>3. event[n].thread = t /\ event[n].object = o /\ t # 0
    BY <1>3, <2>2, Basics
  <2> QED
    BY <2>1, <2>3 DEF IsOpen
<1>13. \A n \in Numbers : IsOpen(n) =>
         /\ event[n].thread \in alive /\ event[n].thread + 2 = n /\ event[n].object = o
         /\ event[n].on
  <2> TAKE n \in Numbers
  <2>1. CASE n - 2 \in alive
    <3>1. event[n] = [object |-> o, thread |-> n - 2, on |-> TRUE]
      BY <1>1, <2>1
    <3>2. n \in Nat
      BY Basics
    <3> QED
      BY <2>1, <3>1, <3>2
  <2>2. CASE n - 2 \notin alive
    <3>1. event[n] = Closed
      BY <1>1, <2>2
    <3> QED
      BY <3>1, ClosedType DEF IsOpen
  <2> QED
    BY <2>1, <2>2
<1>14. EventInv
  <2>1. ASSUME NEW n \in Numbers, IsOpen(n)
        PROVE  \E s \in Slots : fd[s][event[n].thread] = n
                                /\ Watches(s, event[n].thread, event[n].object)
    BY <1>2, <1>3, <1>10, <1>11, <1>13, <2>1
  <2>2. ASSUME NEW s \in Slots, NEW u \in Threads, Watches(s, u, callstack[s])
        PROVE  /\ fd[s][u] \in Numbers /\ IsOpen(fd[s][u])
               /\ event[fd[s][u]].thread = u /\ event[fd[s][u]].object = callstack[s]
    BY <1>10, <1>11, <1>12, <2>2
  <2> QED
    BY <2>1, <2>2 DEF EventInv
<1>15. NumberInv
  <2>1. \A s \in Slots, u \in Threads : s # 1 => fd[s][u] = 0
    BY DEF Init
  <2>2. callstack[1] \in Objects
    BY <1>1, <1>2
  <2> QED
    BY <1>6, <2>1, <2>2 DEF NumberInv
<1>16. OffInv
  BY <1>13 DEF OffInv
<1>17. HandlerInv
  BY <1>6 DEF HandlerInv, Known, Current, Handling
<1>18. TrapReported /\ echoed = FALSE
  BY <1>6 DEF TrapReported, Init
<1> QED
  BY <1>5, <1>7, <1>9, <1>14, <1>15, <1>16, <1>17, <1>18 DEF TrapInv

\* Every step keeps the invariant.
LEMMA StepInv == TrapInv /\ [Next]_vars => TrapInv'
<1> SUFFICES ASSUME TrapInv, [Next]_vars PROVE TrapInv'
  OBVIOUS
<1> USE DEF TrapInv
<1>1. CASE Next
  <2>1. TypeInv'
    BY <1>1, TypeStep
  <2>2. PICK t \in Threads : Step(t)
    BY <1>1 DEF Next
  <2>3. TrapReported' /\ (echoed' => lapsed' \/ Uncovered')
    BY <2>1, <2>2, ReportedStep, EchoStep DEF TableInv
  <2>4. CASE Changes(t)
    <3>1. TableInv'
      BY <2>4, ChangesTable DEF TableInv
    <3>2. OffInv' /\ HandlerInv'
      BY <2>4, ChangesOff, ChangesKnown DEF TableInv
    <3> QED
      BY <2>1, <2>3, <3>1, <3>2 DEF TableInv
  <2>5. CASE Access(t) \/ trapHandler(t)
    <3>1. Quiet(t)
      BY <2>5, QuietSteps
    <3>2. /\ OwnerInv' /\ ObjectInv' /\ NumberInv'
          /\ \A s \in Slots : \A u, o : Watches(s, u, o)' <=> Watches(s, u, o)
      BY <3>1, QuietTable
    <3>3. EventInv'
      <4>1. fd' = fd /\ UNCHANGED <<failures, foreign>>
        BY <3>1 DEF Quiet
      <4> QED
        BY <2>5, <3>2, <4>1, QuietEvents, SameWatches
    <3>4. OffInv' /\ HandlerInv'
      BY <2>1, <2>5, QuietOff, QuietKnown DEF TableInv
    <3> QED
      BY <2>1, <2>3, <3>2, <3>3, <3>4
  <2> QED
    BY <2>2, <2>4, <2>5 DEF Step, Changes
<1>2. CASE UNCHANGED vars
  <2> USE <1>2 DEF vars, table, sigs
  <2>1. /\ \A s \in Slots : \A u, o : Watches(s, u, o)' <=> Watches(s, u, o)
        /\ \A s \in Slots : Held(s)' <=> Held(s)
        /\ \A n : IsOpen(n)' <=> IsOpen(n)
    BY DEF Watches, Held, IsOpen
  <2>2. TypeInv' /\ OwnerInv' /\ NumberInv' /\ OffInv' /\ TrapReported'
    BY <2>1 DEF TypeInv, OwnerInv, NumberInv, OffInv, TrapReported
  <2>3. ObjectInv'
    BY <2>1 DEF ObjectInv
  <2>4. EventInv'
    BY <2>1, SameWatches
  <2>5. HandlerInv'
    BY DEF HandlerInv, Known, Current, Overwritten, Watches, IsOpen, Uncovered
  <2>6. echoed' => lapsed' \/ Uncovered'
    BY DEF Uncovered
  <2> QED
    BY <2>2, <2>3, <2>4, <2>5, <2>6
<1> QED
  BY <1>1, <1>2

(* The inductive invariant: who works on which slot, which object it       *)
(* watches, that open events and watches correspond, and what a handler    *)
(* whose event is still open knows.                                        *)
THEOREM TrapInvariant == Spec => []TrapInv
<1>1. Init => TrapInv
  BY InitInv
<1>2. TrapInv /\ [Next]_vars => TrapInv'
  BY StepInv
<1> QED
  BY <1>1, <1>2, PTL DEF Spec

(* The report of trapHandler names the call stack of the object that was   *)
(* touched, and tells an over-read from an over-write.                     *)
THEOREM ReportsAreRight == Spec => []ReportRight
<1>1. TrapInv => ReportRight
  <2> SUFFICES ASSUME TrapInv, NEW t \in Threads,
                      pc[t] = "release", told[t] # NoObject, ~evicted[t], ~early[t], ~Uncovered
               PROVE  /\ told[t] = access[t].object
                      /\ isread[t] => ~access[t].write
                      /\ ~isread[t] => access[t].object \in smashed
    BY DEF ReportRight
  <2>1. Current(t)
    BY DEF Current, Handling
  <2> QED
    BY <2>1 DEF TrapInv, HandlerInv, Known, Overwritten
<1> QED
  BY <1>1, TrapInvariant, PTL

(* trapHandler drops a trap that it looks up only if the event was closed. *)
THEOREM TrapsAreReported == Spec => []TrapReported
<1>1. TrapInv => TrapReported
  BY DEF TrapInv
<1> QED
  BY <1>1, TrapInvariant, PTL

(* No event stays off once its handler is done with it, and a handler's    *)
(* own look sets off none.                                                 *)
THEOREM NoEventStaysOff == Spec => []EventsStayOn
<1>1. TrapInv => EventsStayOn
  <2> SUFFICES ASSUME TrapInv PROVE EventsStayOn
    OBVIOUS
  <2>1. ASSUME NEW s \in Slots \ spin, NEW t \in alive, isUsed[s], ~Uncovered
        PROVE  \/ event[fd[s][t]] = [object |-> callstack[s], thread |-> t, on |-> TRUE]
               \/ \E u \in Threads : sig[u] = fd[s][t] /\ pc[u] \in {"look", "enable"}
    <3>1. t \in Threads
      BY DEF TrapInv, TypeInv
    <3>2. Watches(s, t, callstack[s])
      BY <2>1 DEF TrapInv, OwnerInv, Watches
    <3>3. PICK n \in Numbers : n = fd[s][t] /\ IsOpen(n) /\ event[n].thread = t
                               /\ event[n].object = callstack[s]
      BY <2>1, <3>1, <3>2 DEF TrapInv, EventInv
    <3>4. CASE event[n].on
      <4>1. event[n] \in EventType
        BY DEF TrapInv, TypeInv
      <4>2. event[n].on = TRUE
        BY <3>4, <4>1 DEF EventType
      <4>3. event[n] = [object |-> event[n].object, thread |-> event[n].thread, on |-> event[n].on]
        BY <4>1 DEF EventType
      <4> QED
        BY <3>3, <4>2, <4>3
    <3>5. CASE ~event[n].on
      BY <3>3, <3>5 DEF TrapInv, OffInv
    <3> QED
      BY <3>4, <3>5
  <2> QED
    BY <2>1 DEF EventsStayOn, TrapInv
<1> QED
  BY <1>1, TrapInvariant, PTL

-----------------------------------------------------------------------------
(* Which traps are dismissed *)

\* A least element is the minimum.
LEMMA MinimumIs ==
  ASSUME NEW S, S \subseteq Nat, NEW k \in S, \A j \in S : k <= j
  PROVE  Min(S) = k
<1>1. Min(S) \in S /\ \A j \in S : Min(S) <= j
  BY LeastOf
<1>2. Min(S) \in Nat /\ k \in Nat /\ Min(S) <= k /\ k <= Min(S)
  BY <1>1
<1> QED
  BY <1>2

\* The frames below the library's own.
LEMMA Frames ==
  ASSUME NEW place, NEW array \in Backtraces(place)
  PROVE  \E m \in {1, 2}, f \in {"pthread", "restorer"} :
           /\ Len(array) = m + 3
           /\ \A k \in 1..m : array[k] = "causer"
           /\ array[m + 1] = f /\ array[m + 2] = place
<1>1. PICK own \in {<<"causer">>, <<"causer", "causer">>}, s \in {<<"pthread">>, <<"restorer">>} :
        array = own \o s \o <<place, "app">>
  BY DEF Backtraces
<1>2. PICK f \in {"pthread", "restorer"} : s = <<f>>
  OBVIOUS
<1> DEFINE S == {"causer", f, place, "app"}
<1>3. own \in Seq(S) /\ s \in Seq(S) /\ <<place, "app">> \in Seq(S)
  <2>1. own \in Seq(S)
    <3>1. "causer" \in S
      OBVIOUS
    <3> HIDE DEF S
    <3>2. CASE own = <<"causer">>
      BY <3>1, <3>2
    <3>3. CASE own = <<"causer", "causer">>
      BY <3>1, <3>3
    <3> QED
      BY <1>1, <3>2, <3>3
  <2>2. f \in S /\ place \in S /\ "app" \in S
    OBVIOUS
  <2> HIDE DEF S
  <2>3. s \in Seq(S)
    BY <1>2, <2>2
  <2>4. <<place, "app">> \in Seq(S)
    BY <2>2
  <2> QED
    BY <2>1, <2>3, <2>4
<1>4. PICK m \in {1, 2} : Len(own) = m /\ \A k \in 1..m : own[k] = "causer"
  <2>1. CASE own = <<"causer">>
    BY <2>1
  <2>2. CASE own = <<"causer", "causer">>
    BY <2>2
  <2> QED
    BY <1>1, <2>1, <2>2
<1> HIDE DEF S
<1>5. PICK head : head = own \o s
  OBVIOUS
<1>6. /\ head \in Seq(S) /\ Len(head) = m + 1
      /\ \A k \in 1..(m + 1) : head[k] = IF k <= m THEN own[k] ELSE s[k - m]
  <2>1. Len(s) = 1
    BY <1>2
  <2> QED
    BY <1>3, <1>4, <1>5, <2>1, ConcatProperties
<1>7. /\ Len(array) = m + 3
      /\ \A k \in 1..(m + 3) : array[k] = IF k <= m + 1 THEN head[k] ELSE <<place, "app">>[k - (m + 1)]
  <2>1. array = head \o <<place, "app">> /\ Len(<<place, "app">>) = 2
    BY <1>1, <1>5
  <2> QED
    BY <1>3, <1>6, <2>1, ConcatProperties
<1>8. array[m + 1] = f /\ array[m + 2] = place
  <2>1. head[m + 1] = s[1] /\ s[1] = f
    BY <1>2, <1>6
  <2>2. array[m + 1] = head[m + 1] /\ array[m + 2] = <<place, "app">>[1]
    BY <1>7
  <2> QED
    BY <2>1, <2>2
<1>9. \A k \in 1..m : array[k] = "causer"
  BY <1>4, <1>6, <1>7
<1> QED
  BY <1>7, <1>8, <1>9

\* The test of the frames excuses only what the list does.
LEMMA BenignExcuses ==
  ASSUME NEW place \in Places \cup {"none"}, NEW array \in Backtraces(place),
         NEW known \in BOOLEAN, Benign(place, array, known)
  PROVE  place \in Excused
<1>1. PICK m \in {1, 2}, f \in {"pthread", "restorer"} :
        /\ Len(array) = m + 3
        /\ \A k \in 1..m : array[k] = "causer"
        /\ array[m + 1] = f /\ array[m + 2] = place
  BY Frames
<1> DEFINE Outer == {k \in 1..Len(array) : ~(known /\ array[k] = "causer")}
           outside == Min(Outer)
           it == IF array[outside] = "pthread" THEN outside + 1 ELSE outside
           Unsigned == {k \in it..Len(array) : array[k] # "restorer"}
<1>2. \/ place = "listed"
      \/ IF array[it] \in {"listed", "libc", "restorer"}
         THEN array[Min(Unsigned)] \in {"listed", "twin", "ld"}
         ELSE array[it] \in {"ld", "ldsym"}
  BY DEF Benign, FirstFrom, isPthreadLibrary, isLibcLibrary, checkGlibcWL, Places
<1>3. CASE ~known
  <2>1. Outer \subseteq Nat /\ 1 \in Outer /\ \A j \in Outer : 1 <= j
    BY <1>1, <1>3
  <2>2. outside = 1
    BY <2>1, MinimumIs
  <2>3. array[1] = "causer"
    BY <1>1
  <2> QED
    BY <1>2, <2>2, <2>3 DEF Excused
<1>4. CASE known
  <2>1. Outer \subseteq Nat /\ m + 1 \in Outer /\ \A j \in Outer : m + 1 <= j
    <3>1. m + 1 \in 1..Len(array) /\ array[m + 1] # "causer"
      BY <1>1
    <3>2. \A j \in 1..Len(array) : j < m + 1 => array[j] = "causer"
      BY <1>1
    <3> QED
      BY <1>1, <1>4, <3>1, <3>2
  <2>2. outside = m + 1
    BY <2>1, MinimumIs
  <2> HIDE DEF outside, Outer
  <2>3. CASE f = "pthread"
    <3>1. it = m + 2 /\ array[it] = place
      BY <1>1, <2>2, <2>3
    <3>2. place \in {"listed", "libc"} => Min(Unsigned) = m + 2
      <4>1. SUFFICES ASSUME place \in {"listed", "libc"} PROVE Min(Unsigned) = m + 2
        OBVIOUS
      <4>2. Unsigned \subseteq Nat /\ m + 2 \in Unsigned /\ \A j \in Unsigned : m + 2 <= j
        BY <1>1, <3>1, <4>1
      <4> QED
        BY <4>2, MinimumIs
    <3> QED
      BY <1>1, <1>2, <3>1, <3>2 DEF Excused, Places
  <2>4. CASE f = "restorer"
    <3>1. it = m + 1 /\ array[it] = "restorer"
      BY <1>1, <2>2, <2>4
    <3>2. Min(Unsigned) = m + 2
      <4>1. Unsigned \subseteq Nat /\ m + 2 \in Unsigned
        BY <1>1, <3>1 DEF Places
      <4>2. \A j \in Unsigned : m + 2 <= j
        BY <1>1, <3>1
      <4> QED
        BY <4>1, <4>2, MinimumIs
    <3> QED
      BY <1>1, <1>2, <3>1, <3>2 DEF Excused
  <2> QED
    BY <2>3, <2>4
<1> QED
  BY <1>3, <1>4

(* A trap is dismissed before it is looked up only for code that the list  *)
(* excuses, whatever frames lie between.                                   *)
THEOREM OnlyExcusedWaived == Spec => NothingWaived
<1> DEFINE Waived == \A t \in Threads : pc[t] = "trap" /\ pc'[t] = "app" => access[t].place \in Excused
<1>1. TypeInv /\ [Next]_vars => [Waived]_vars
  <2> SUFFICES ASSUME TypeInv, Next, NEW t \in Threads, pc[t] = "trap", pc'[t] = "app"
               PROVE  access[t].place \in Excused
    OBVIOUS
  <2>1. PICK u \in Threads : Step(u)
    BY DEF Next
  <2>2. u = t /\ Classify(t)
    <3>1. pc' = pc \/ \E l : pc' = [pc EXCEPT ![u] = l]
      BY <2>1 DEF Step, Access, trapHandler, Classify, Lookup, Disable, Look, Enable, Tell, Release,
                  Take, Unwatch, Close, AfterClose, SetCallstack, Open, Installed, Exit, Create, Goto
    <3>2. u = t
      BY <3>1 DEF TypeInv
    <3> QED
      BY <2>1, <3>2
      DEF Step, Access, trapHandler, Lookup, Disable, Look, Enable, Tell, Release, Call,
          Take, Unwatch, Close, AfterClose, SetCallstack, Open, Installed, Exit, Create
  <2>3. PICK array \in Backtraces(access[t].place), known \in BOOLEAN :
          Benign(access[t].place, array, known)
    BY <2>2 DEF Classify, Goto, TypeInv
  <2>4. access[t].place \in Places \cup {"none"}
    BY DEF TypeInv, AccessType
  <2> QED
    BY <2>3, <2>4, BenignExcuses
<1>2. Spec => []TypeInv
  <2>1. TrapInv => TypeInv
    BY DEF TrapInv
  <2> QED
    BY <2>1, TrapInvariant, PTL
<1>3. Spec => [][Waived]_vars
  BY <1>1, <1>2, PTL DEF Spec
<1> QED
  BY <1>3 DEF NothingWaived

=============================================================================
