--------------------------- MODULE ThreadTableProofs ---------------------------
(***************************************************************************)
(* Proofs about ThreadTable, for any number of threads, records, calls,    *)
(* handlers and forks, and any depth of calls inside each other.           *)
(***************************************************************************)
EXTENDS ThreadTable, FiniteSetTheorems, WellFoundedInduction, TLAPS

-----------------------------------------------------------------------------
(* Stacks of calls *)

Fns == {"app", "cond", "install", "installed", "handler", "create"}

Frame == [fn : Fns, was : BOOLEAN]

\* Calls of the library.
Inner == Fns \ {"app"}

\* The lowest n frames are the application's.
Clean(s, n) == \A i \in 1..n : s[i].fn \in {"app", "handler"}

\* The upper end of an interval that is not its lower end.
LEMMA Two == ASSUME NEW n \in Nat, n >= 1, n # 1 PROVE n \in 2..n
  OBVIOUS

\* Only the outermost frame is the application's function.
Nested(s) == s[1].fn = "app" /\ \A i \in 2..Len(s) : s[i].fn \in Inner

\* Each frame remembers whether the detector was on below it: always below an installation.
Remembers(s) ==
  \A i \in 2..Len(s) :
    /\ s[i].was <=> Clean(s, i - 1)
    /\ s[i].fn \in {"install", "installed"} => s[i].was

\* A call inside another.
LEMMA Push ==
  ASSUME NEW s \in Seq(Frame), s # <<>>, NEW e \in Frame, e.fn \in Inner, Nested(s)
  PROVE  LET r == Append(s, e) IN
         /\ r \in Seq(Frame) /\ r # <<>> /\ Nested(r)
         /\ Len(r) = Len(s) + 1 /\ r[Len(r)] = e
         /\ Clean(r, Len(r)) <=> Clean(s, Len(s)) /\ e.fn = "handler"
         /\ Remembers(s) /\ (e.was <=> Clean(s, Len(s)))
              /\ (e.fn \in {"install", "installed"} => e.was) => Remembers(r)
<1> DEFINE r == Append(s, e)
<1>1. /\ r \in Seq(Frame) /\ Len(s) \in Nat \ {0} /\ Len(r) = Len(s) + 1 /\ r[Len(r)] = e
      /\ \A i \in 1..Len(s) : r[i] = s[i]
  OBVIOUS
<1> HIDE DEF r
<1>2. r # <<>> /\ Nested(r)
  BY <1>1 DEF Nested
<1>3. \A n \in 0..Len(s) : Clean(r, n) <=> Clean(s, n)
  BY <1>1 DEF Clean
<1>4. Clean(r, Len(r)) <=> Clean(s, Len(s)) /\ e.fn = "handler"
  BY <1>1 DEF Clean, Inner
<1>5. ASSUME Remembers(s), e.was <=> Clean(s, Len(s)), e.fn \in {"install", "installed"} => e.was
      PROVE  Remembers(r)
  <2> SUFFICES ASSUME NEW i \in 2..Len(r)
               PROVE  /\ r[i].was <=> Clean(r, i - 1)
                      /\ r[i].fn \in {"install", "installed"} => r[i].was
    BY DEF Remembers
  <2>1. i - 1 \in 0..Len(s)
    BY <1>1
  <2>2. CASE i = Len(r)
    <3>1. r[i] = e /\ i - 1 = Len(s)
      BY <1>1, <2>2
    <3>2. Clean(r, i - 1) <=> Clean(s, Len(s))
      BY <3>1, <2>1, <1>3
    <3> QED
      BY <1>5, <3>1, <3>2
  <2>3. CASE i # Len(r)
    <3>1. i \in 2..Len(s) /\ r[i] = s[i]
      BY <1>1, <2>3
    <3>2. Clean(r, i - 1) <=> Clean(s, i - 1)
      BY <2>1, <1>3
    <3> QED
      BY <1>5, <3>1, <3>2 DEF Remembers
  <2> QED
    BY <2>2, <2>3
<1> QED
  BY <1>1, <1>2, <1>4, <1>5 DEF r

\* The return of a call.
LEMMA Pop ==
  ASSUME NEW s \in Seq(Frame), s # <<>>, Nested(s), s[Len(s)].fn \in Inner
  PROVE  LET r == SubSeq(s, 1, Len(s) - 1) IN
         /\ r \in Seq(Frame) /\ r # <<>> /\ Nested(r)
         /\ Len(r) = Len(s) - 1 /\ Len(s) \in 2..Len(s)
         /\ Clean(r, Len(r)) <=> Clean(s, Len(s) - 1)
         /\ Clean(s, Len(s)) <=> Clean(s, Len(s) - 1) /\ s[Len(s)].fn = "handler"
         /\ Remembers(s) => Remembers(r)
<1> DEFINE r == SubSeq(s, 1, Len(s) - 1)
<1>1. Len(s) \in Nat /\ Len(s) >= 2
  <2>1. Len(s) \in Nat /\ Len(s) >= 1
    OBVIOUS
  <2>2. Len(s) # 1
    BY DEF Nested, Inner
  <2> QED
    BY <2>1, <2>2
<1>2. r \in Seq(Frame) /\ Len(r) = Len(s) - 1 /\ \A i \in 1..Len(r) : r[i] = s[i]
  BY <1>1
<1> HIDE DEF r
<1>3. r # <<>> /\ Nested(r)
  BY <1>1, <1>2 DEF Nested
<1>4. \A n \in 0..Len(r) : Clean(r, n) <=> Clean(s, n)
  BY <1>1, <1>2 DEF Clean
<1>5. Clean(s, Len(s)) <=> Clean(s, Len(s) - 1) /\ s[Len(s)].fn = "handler"
  BY <1>1 DEF Clean, Inner
<1>6. Remembers(s) => Remembers(r)
  <2> SUFFICES ASSUME Remembers(s), NEW i \in 2..Len(r)
               PROVE  /\ r[i].was <=> Clean(r, i - 1)
                      /\ r[i].fn \in {"install", "installed"} => r[i].was
    BY DEF Remembers
  <2>1. i \in 2..Len(s) /\ i - 1 \in 0..Len(r) /\ r[i] = s[i]
    BY <1>1, <1>2
  <2>2. Clean(r, i - 1) <=> Clean(s, i - 1)
    BY <2>1, <1>4
  <2> QED
    BY <2>1, <2>2 DEF Remembers
<1>7. Clean(r, Len(r)) <=> Clean(s, Len(s) - 1)
  BY <1>1, <1>2, <1>4
<1> QED
  BY <1>1, <1>2, <1>3, <1>5, <1>6, <1>7 DEF r

\* An installation that has read the list of threads.
LEMMA Rename ==
  ASSUME NEW s \in Seq(Frame), s # <<>>, Nested(s), s[Len(s)].fn = "install"
  PROVE  LET r == [s EXCEPT ![Len(s)].fn = "installed"] IN
         /\ r \in Seq(Frame) /\ r # <<>> /\ Nested(r) /\ Len(r) = Len(s)
         /\ r[Len(r)].fn = "installed"
         /\ Clean(r, Len(r)) <=> Clean(s, Len(s))
         /\ Remembers(s) => Remembers(r)
<1> DEFINE e == [s[Len(s)] EXCEPT !.fn = "installed"]
           r == [s EXCEPT ![Len(s)].fn = "installed"]
           same(f, g) ==
             /\ f.was <=> g.was
             /\ f.fn = "app" <=> g.fn = "app"
             /\ f.fn \in Inner <=> g.fn \in Inner
             /\ f.fn \in {"app", "handler"} <=> g.fn \in {"app", "handler"}
             /\ f.fn \in {"install", "installed"} <=> g.fn \in {"install", "installed"}
<1>1. Len(s) \in Nat /\ Len(s) >= 1 /\ \A i \in 1..Len(s) : s[i] \in Frame
  OBVIOUS
<1>2. s[Len(s)] \in Frame
  BY <1>1
<1>3. e \in Frame /\ e.fn = "installed" /\ e.was = s[Len(s)].was
  BY <1>2 DEF Frame, Fns
<1>4. same(e, s[Len(s)])
  BY <1>3 DEF Inner, Fns
<1>5. r = [s EXCEPT ![Len(s)] = e]
  OBVIOUS
<1> HIDE DEF e, r
<1>6. r \in Seq(Frame) /\ Len(r) = Len(s) /\ r[Len(s)] = e
      /\ \A i \in 1..Len(s) : i # Len(s) => r[i] = s[i]
  BY <1>1, <1>3, <1>5
<1>7. ASSUME NEW i \in 1..Len(s)
      PROVE  same(r[i], s[i])
  <2>1. CASE i = Len(s)
    BY <1>4, <1>6, <2>1
  <2>2. CASE i # Len(s)
    <3>1. r[i] = s[i]
      BY <1>6, <2>2
    <3> QED
      BY <3>1
  <2> QED
    BY <2>1, <2>2
<1>8. r # <<>>
  BY <1>1, <1>6
<1>9. Nested(r)
  <2>1. same(r[1], s[1])
    BY <1>1, <1>7
  <2>2. \A i \in 2..Len(s) : same(r[i], s[i])
    BY <1>1, <1>7
  <2> QED
    BY <1>6, <2>1, <2>2 DEF Nested
<1>10. \A n \in 0..Len(s) : Clean(r, n) <=> Clean(s, n)
  <2> SUFFICES ASSUME NEW n \in 0..Len(s), NEW i \in 1..n
               PROVE  r[i].fn \in {"app", "handler"} <=> s[i].fn \in {"app", "handler"}
    BY DEF Clean
  <2>1. i \in 1..Len(s)
    BY <1>1
  <2> QED
    BY <1>7, <2>1
<1>11. Remembers(s) => Remembers(r)
  <2> SUFFICES ASSUME Remembers(s), NEW i \in 2..Len(s)
               PROVE  /\ r[i].was <=> Clean(r, i - 1)
                      /\ r[i].fn \in {"install", "installed"} => r[i].was
    BY <1>6 DEF Remembers
  <2>1. i \in 1..Len(s) /\ i - 1 \in 0..Len(s)
    BY <1>1
  <2>2. (Clean(r, i - 1) <=> Clean(s, i - 1)) /\ same(r[i], s[i])
    BY <1>7, <1>10, <2>1
  <2>3. (s[i].was <=> Clean(s, i - 1)) /\ (s[i].fn \in {"install", "installed"} => s[i].was)
    BY DEF Remembers
  <2> QED
    BY <2>2, <2>3
<1>12. r[Len(r)].fn = "installed" /\ (Clean(r, Len(r)) <=> Clean(s, Len(s)))
  <2>1. Len(s) \in 0..Len(s)
    BY <1>1
  <2> QED
    BY <1>3, <1>6, <1>10, <2>1
<1> QED
  BY <1>6, <1>8, <1>9, <1>11, <1>12 DEF r

-----------------------------------------------------------------------------
(* The invariant *)

CreatePcs == {"cwlock", "calloc", "cbarrier", "cinsert", "creturn"}

\* In startThread, before and after the thread's function.
OuterPcs == {"begin", "barrier", "enable", "xwlock", "xremove"}

PcValues == {"runs", "ended"} \cup CreatePcs \cup OuterPcs

TypeD ==
  /\ watching \in [Threads -> BOOLEAN]
  /\ pc \in [Threads -> PcValues]
  /\ stack \in [Threads -> Seq(Frame)]
  /\ forkedInside \in BOOLEAN

\* What a thread's stack s and its place p have to do with each other.
Fits(s, p) ==
  s # <<>> =>
    /\ Nested(s)
    /\ p \in CreatePcs => s[Len(s)].fn = "create"
    /\ p \in OuterPcs => Len(s) = 1

\* What its switch w is, if fork was not called inside the library.
Detects(s, w, p) ==
  s # <<>> =>
    /\ Remembers(s)
    /\ p = "runs" => (w <=> Clean(s, Len(s)))
    /\ p \in CreatePcs => ~w

ThreadInv ==
  \A t \in Threads :
    Fits(stack[t], pc[t]) /\ (~forkedInside => Detects(stack[t], watching[t], pc[t]))

\* A step that changes the stack, place and switch of t only.
LEMMA OneThread ==
  ASSUME TypeD, ThreadInv, NEW t \in Threads,
         NEW s \in Seq(Frame), NEW w \in BOOLEAN, NEW p \in PcValues,
         stack' = [stack EXCEPT ![t] = s],
         watching' = [watching EXCEPT ![t] = w],
         pc' = [pc EXCEPT ![t] = p],
         forkedInside' = forkedInside,
         Fits(s, p), ~forkedInside => Detects(s, w, p)
  PROVE  TypeD' /\ ThreadInv'
<1>1. TypeD'
  BY DEF TypeD
<1>2. ASSUME NEW u \in Threads
      PROVE  Fits(stack'[u], pc'[u]) /\ (~forkedInside' => Detects(stack'[u], watching'[u], pc'[u]))
  <2>1. CASE u = t
    <3>1. stack'[u] = s /\ watching'[u] = w /\ pc'[u] = p
      BY <2>1 DEF TypeD
    <3> QED
      BY <3>1
  <2>2. CASE u # t
    <3>1. stack'[u] = stack[u] /\ watching'[u] = watching[u] /\ pc'[u] = pc[u]
      BY <2>2 DEF TypeD
    <3> QED
      BY <3>1 DEF ThreadInv
  <2> QED
    BY <2>1, <2>2
<1>3. ThreadInv'
  BY <1>2 DEF ThreadInv
<1> QED
  BY <1>1, <1>3

\* A step that leaves a stack alone and moves the thread's place within the same kind.
LEMMA Moves ==
  ASSUME TypeD, ThreadInv, NEW t \in Threads, NEW p \in PcValues,
         \/ pc[t] \in CreatePcs /\ p \in CreatePcs
         \/ pc[t] \in OuterPcs /\ p \in OuterPcs,
         stack' = stack, watching' = watching, pc' = [pc EXCEPT ![t] = p],
         forkedInside' = forkedInside
  PROVE  TypeD' /\ ThreadInv'
<1>1. /\ stack[t] \in Seq(Frame) /\ watching[t] \in BOOLEAN
      /\ stack' = [stack EXCEPT ![t] = stack[t]]
      /\ watching' = [watching EXCEPT ![t] = watching[t]]
  BY DEF TypeD
<1>2. Fits(stack[t], pc[t]) /\ (~forkedInside => Detects(stack[t], watching[t], pc[t]))
  BY DEF ThreadInv
<1>3. Fits(stack[t], p) /\ (~forkedInside => Detects(stack[t], watching[t], p))
  BY <1>2 DEF Fits, Detects, CreatePcs, OuterPcs
<1> QED
  BY <1>1, <1>3, OneThread

\* The program begins in the invariant, with its main function's frame.
LEMMA DetectsInit == Init => TypeD /\ ThreadInv
<1> SUFFICES ASSUME Init PROVE TypeD /\ ThreadInv
  OBVIOUS
<1>1. App \in Frame /\ App.fn = "app"
  BY DEF App, Frame, Fns
<1>2. <<App>> \in Seq(Frame) /\ Len(<<App>>) = 1 /\ <<App>>[1] = App
  BY <1>1
<1>3. TypeD
  <2>1. <<>> \in Seq(Frame)
    OBVIOUS
  <2>2. stack \in [Threads -> Seq(Frame)]
    BY <1>2, <2>1 DEF Init
  <2>3. watching \in [Threads -> BOOLEAN] /\ pc \in [Threads -> PcValues] /\ forkedInside \in BOOLEAN
    BY DEF Init, PcValues
  <2> QED
    BY <2>2, <2>3 DEF TypeD
<1>4. ASSUME NEW t \in Threads
      PROVE  Fits(stack[t], pc[t]) /\ Detects(stack[t], watching[t], pc[t])
  <2>1. CASE t = Main
    <3>1. stack[t] = <<App>> /\ watching[t] = TRUE /\ pc[t] = "runs"
      BY <2>1 DEF Init
    <3>2. Nested(<<App>>) /\ Remembers(<<App>>) /\ Clean(<<App>>, 1)
      BY <1>1, <1>2 DEF Nested, Remembers, Clean
    <3> QED
      BY <1>2, <3>1, <3>2 DEF Fits, Detects, CreatePcs, OuterPcs
  <2>2. CASE t # Main
    BY <2>2 DEF Init, Fits, Detects
  <2> QED
    BY <2>1, <2>2
<1> QED
  BY <1>3, <1>4 DEF ThreadInv

-----------------------------------------------------------------------------
(* The steps *)

\* A thread that runs, of which the innermost call is in fns.
LEMMA Running ==
  ASSUME TypeD, ThreadInv, NEW t \in Threads, NEW fns, Runs(t, fns)
  PROVE  /\ stack[t] \in Seq(Frame) /\ stack[t] # <<>> /\ Nested(stack[t])
         /\ stack[t][Len(stack[t])] \in Frame /\ stack[t][Len(stack[t])].fn \in fns
         /\ watching[t] \in BOOLEAN /\ pc[t] = "runs"
         /\ ~forkedInside => Remembers(stack[t]) /\ (watching[t] <=> Clean(stack[t], Len(stack[t])))
<1>1. stack[t] \in Seq(Frame) /\ stack[t] # <<>> /\ pc[t] = "runs" /\ watching[t] \in BOOLEAN
  BY DEF TypeD, Runs
<1>2. stack[t][Len(stack[t])] \in Frame
  BY <1>1
<1>3. Fits(stack[t], pc[t]) /\ (~forkedInside => Detects(stack[t], watching[t], pc[t]))
  BY DEF ThreadInv
<1>4. Nested(stack[t])
  BY <1>1, <1>3 DEF Fits
<1>5. ~forkedInside => Remembers(stack[t]) /\ (watching[t] <=> Clean(stack[t], Len(stack[t])))
  BY <1>1, <1>3 DEF Detects
<1>6. stack[t][Len(stack[t])].fn \in fns
  BY DEF Runs, In
<1> QED
  BY <1>1, <1>2, <1>4, <1>5, <1>6

\* A thread that runs calls fn, or is interrupted by a handler.
LEMMA Calls ==
  ASSUME TypeD, ThreadInv, NEW t \in Threads, NEW fns, Runs(t, fns),
         NEW fn \in Inner, NEW w \in BOOLEAN, NEW p \in PcValues,
         Enter(t, fn),
         watching' = [watching EXCEPT ![t] = w],
         pc' = [pc EXCEPT ![t] = p],
         forkedInside' = forkedInside,
         w <=> watching[t] /\ fn = "handler",
         fn \in {"install", "installed"} => watching[t],
         p = IF fn = "create" THEN "cwlock" ELSE "runs"
  PROVE  TypeD' /\ ThreadInv'
<1> DEFINE s == stack[t]
           e == [fn |-> fn, was |-> watching[t]]
           r == Append(s, e)
<1>1. /\ s \in Seq(Frame) /\ s # <<>> /\ Nested(s) /\ watching[t] \in BOOLEAN
      /\ ~forkedInside => Remembers(s) /\ (watching[t] <=> Clean(s, Len(s)))
  BY Running
<1>2. e \in Frame /\ e.fn = fn /\ e.was = watching[t]
  BY <1>1 DEF Frame, Inner
<1>3. stack' = [stack EXCEPT ![t] = r]
  BY DEF Enter
<1> HIDE DEF s, e
<1>4. /\ r \in Seq(Frame) /\ r # <<>> /\ Nested(r) /\ r[Len(r)] = e
      /\ Clean(r, Len(r)) <=> Clean(s, Len(s)) /\ e.fn = "handler"
      /\ Remembers(s) /\ (e.was <=> Clean(s, Len(s)))
           /\ (e.fn \in {"install", "installed"} => e.was) => Remembers(r)
  BY <1>1, <1>2, Push
<1> HIDE DEF r
<1>5. Fits(r, p)
  BY <1>2, <1>4 DEF Fits, CreatePcs, OuterPcs
<1>6. ASSUME ~forkedInside
      PROVE  Detects(r, w, p)
  <2>1. Remembers(r)
    BY <1>1, <1>2, <1>4, <1>6
  <2>2. p = "runs" => (w <=> Clean(r, Len(r)))
    BY <1>1, <1>2, <1>4, <1>6
  <2>3. p \in CreatePcs => ~w
    BY DEF CreatePcs
  <2> QED
    BY <2>1, <2>2, <2>3 DEF Detects
<1> QED
  BY <1>3, <1>4, <1>5, <1>6, OneThread

\* The innermost call returns, with the detector as it was below.
LEMMA Returns ==
  ASSUME TypeD, ThreadInv, NEW t \in Threads, NEW w \in BOOLEAN,
         stack[t] # <<>>, stack[t][Len(stack[t])].fn \in Inner,
         Leave(t),
         watching' = [watching EXCEPT ![t] = w],
         pc' = [pc EXCEPT ![t] = "runs"],
         forkedInside' = forkedInside,
         ~forkedInside => (w <=> Clean(stack[t], Len(stack[t]) - 1))
  PROVE  TypeD' /\ ThreadInv'
<1> DEFINE s == stack[t]
           r == SubSeq(s, 1, Len(s) - 1)
<1>1. s \in Seq(Frame) /\ s # <<>> /\ s[Len(s)].fn \in Inner
  BY DEF TypeD
<1>2. Nested(s) /\ (~forkedInside => Remembers(s))
  BY <1>1 DEF ThreadInv, Fits, Detects
<1>3. stack' = [stack EXCEPT ![t] = r] /\ (~forkedInside => (w <=> Clean(s, Len(s) - 1)))
  BY DEF Leave
<1> HIDE DEF s
<1>4. /\ r \in Seq(Frame) /\ r # <<>> /\ Nested(r)
      /\ Clean(r, Len(r)) <=> Clean(s, Len(s) - 1)
      /\ Remembers(s) => Remembers(r)
  BY <1>1, <1>2, Pop
<1> HIDE DEF r
<1>5. Fits(r, "runs") /\ (~forkedInside => Detects(r, w, "runs"))
  BY <1>2, <1>3, <1>4 DEF Fits, Detects, CreatePcs, OuterPcs
<1>6. "runs" \in PcValues
  BY DEF PcValues
<1> QED
  BY <1>3, <1>4, <1>5, <1>6, OneThread

\* What the innermost call tells of its return.
LEMMA Below ==
  ASSUME TypeD, ThreadInv, NEW t \in Threads, stack[t] # <<>>, stack[t][Len(stack[t])].fn \in Inner,
         ~forkedInside
  PROVE  LET s == stack[t] IN
         /\ s[Len(s)].was <=> Clean(s, Len(s) - 1)
         /\ s[Len(s)].fn \in {"install", "installed"} => Clean(s, Len(s) - 1)
         /\ Clean(s, Len(s)) <=> Clean(s, Len(s) - 1) /\ s[Len(s)].fn = "handler"
<1> DEFINE s == stack[t]
<1>1. s \in Seq(Frame) /\ s # <<>> /\ s[Len(s)].fn \in Inner
  BY DEF TypeD
<1>2. Nested(s) /\ Remembers(s)
  BY <1>1 DEF ThreadInv, Fits, Detects
<1> HIDE DEF s
<1>3. Len(s) \in 2..Len(s) /\ (Clean(s, Len(s)) <=> Clean(s, Len(s) - 1) /\ s[Len(s)].fn = "handler")
  BY <1>1, <1>2, Pop
<1>4. /\ s[Len(s)].was <=> Clean(s, Len(s) - 1)
      /\ s[Len(s)].fn \in {"install", "installed"} => s[Len(s)].was
  BY <1>2, <1>3 DEF Remembers
<1> QED
  BY <1>3, <1>4 DEF s

\* Every step of calls, handlers, creations, exits and forks keeps the invariant.
LEMMA DetectsNext == TypeD /\ ThreadInv /\ [Next]_vars => TypeD' /\ ThreadInv'
<1> SUFFICES ASSUME TypeD, ThreadInv, [Next]_vars PROVE TypeD' /\ ThreadInv'
  OBVIOUS
<1>1. CASE UNCHANGED vars
  BY <1>1 DEF vars, history, TypeD, ThreadInv
<1> SUFFICES ASSUME NEW t \in Threads,
                    \/ CondDisable(t) \/ Install(t) \/ InstallReads(t) \/ Handler(t) \/ Create(t)
                    \/ Finish(t) \/ Cancelled(t) \/ Parent(t) \/ Child(t) \/ Step(t)
             PROVE  TypeD' /\ ThreadInv'
  BY <1>1 DEF Next
<1>t. /\ stack \in [Threads -> Seq(Frame)] /\ watching \in [Threads -> BOOLEAN]
      /\ pc \in [Threads -> PcValues] /\ "runs" \in PcValues /\ "cwlock" \in PcValues
      /\ {"cond", "install", "handler", "create"} \subseteq Inner
  BY DEF TypeD, PcValues, CreatePcs, Inner, Fns
<1>p. ASSUME NEW fns, Runs(t, fns), UNCHANGED pc
      PROVE  pc' = [pc EXCEPT ![t] = "runs"]
  BY <1>t, <1>p DEF Runs
<1>2. CASE CondDisable(t)
  <2>1. Runs(t, {"app", "handler", "install", "installed"}) /\ Enter(t, "cond")
        /\ watching' = [watching EXCEPT ![t] = FALSE] /\ UNCHANGED <<pc, forkedInside>>
    BY <1>2 DEF CondDisable, Set, history
  <2>2. pc' = [pc EXCEPT ![t] = "runs"]
    BY <1>p, <2>1
  <2> QED
    BY <1>t, <2>1, <2>2, Calls
<1>3. CASE Install(t)
  <2>1. Runs(t, {"app", "cond", "install", "installed"}) /\ Enter(t, "install") /\ watching[t]
        /\ watching' = [watching EXCEPT ![t] = FALSE] /\ UNCHANGED <<pc, forkedInside>>
    BY <1>3 DEF Install, Set, history
  <2>2. pc' = [pc EXCEPT ![t] = "runs"]
    BY <1>p, <2>1
  <2> QED
    BY <1>t, <2>1, <2>2, Calls
<1>4. CASE InstallReads(t)
  BY <1>4 DEF InstallReads, history, TypeD, ThreadInv
<1>5. CASE Handler(t)
  <2>1. Runs(t, {"app", "cond", "install", "installed"}) /\ Enter(t, "handler")
        /\ UNCHANGED <<watching, pc, forkedInside>>
    BY <1>5 DEF Handler, history
  <2>2. pc' = [pc EXCEPT ![t] = "runs"]
    BY <1>p, <2>1
  <2>3. watching[t] \in BOOLEAN /\ watching' = [watching EXCEPT ![t] = watching[t]]
    BY <1>t, <2>1
  <2> QED
    BY <1>t, <2>1, <2>2, <2>3, Calls
<1>6. CASE Create(t)
  <2>1. Runs(t, {"app"}) /\ Enter(t, "create") /\ forkedInside' = forkedInside
        /\ watching' = [watching EXCEPT ![t] = FALSE] /\ pc' = [pc EXCEPT ![t] = "cwlock"]
    BY <1>6 DEF Create, Set, Goto, history
  <2> QED
    BY <1>t, <2>1, Calls
<1>7. CASE Finish(t)
  <2> DEFINE s == stack[t]
  <2>1. Runs(t, {"app"}) /\ stack' = stack /\ forkedInside' = forkedInside
        /\ watching' = [watching EXCEPT ![t] = FALSE] /\ pc' = [pc EXCEPT ![t] = "xwlock"]
    BY <1>7 DEF Finish, Set, Goto, history
  <2>2. /\ s \in Seq(Frame) /\ s # <<>> /\ Nested(s) /\ s[Len(s)].fn = "app"
        /\ ~forkedInside => Remembers(s)
    BY <2>1, Running
  <2>3. stack' = [stack EXCEPT ![t] = s]
    BY <1>t, <2>1
  <2> HIDE DEF s
  <2>4. Len(s) = 1
    <3>1. Len(s) \in Nat /\ Len(s) >= 1
      BY <2>2
    <3>2. ASSUME Len(s) # 1
          PROVE  FALSE
      <4>1. Len(s) \in 2..Len(s)
        BY <3>1, <3>2, Two
      <4>2. s[Len(s)].fn \in Inner
        BY <2>2, <4>1 DEF Nested
      <4> QED
        BY <2>2, <4>2 DEF Inner
    <3> QED
      BY <3>1, <3>2
  <2>5. Fits(s, "xwlock") /\ (~forkedInside => Detects(s, FALSE, "xwlock")) /\ "xwlock" \in PcValues
    BY <2>2, <2>4 DEF Fits, Detects, CreatePcs, OuterPcs, PcValues
  <2> QED
    BY <2>1, <2>2, <2>3, <2>5, OneThread
<1>8. CASE Cancelled(t)
  <2>1. stack' = [stack EXCEPT ![t] = <<>>] /\ watching' = [watching EXCEPT ![t] = watching[t]]
        /\ pc' = [pc EXCEPT ![t] = "ended"] /\ forkedInside' = forkedInside
    BY <1>t, <1>8 DEF Cancelled, Goto, history
  <2>2. <<>> \in Seq(Frame) /\ "ended" \in PcValues /\ watching[t] \in BOOLEAN
    BY <1>t DEF PcValues
  <2>3. Fits(<<>>, "ended") /\ Detects(<<>>, watching[t], "ended")
    BY DEF Fits, Detects
  <2> QED
    BY <2>1, <2>2, <2>3, OneThread
<1>9. ASSUME Fork(t),
             \A u \in Threads : \/ stack'[u] = stack[u] /\ pc'[u] = pc[u]
                                \/ u # t /\ stack'[u] = <<>>,
             stack' \in [Threads -> Seq(Frame)], pc' \in [Threads -> PcValues]
      PROVE  TypeD' /\ ThreadInv'
  <2>1. Runs(t, {"app", "handler"}) /\ forkedInside' = (forkedInside \/ ~watching[t])
        /\ watching' = [watching EXCEPT ![t] = TRUE]
    BY <1>9 DEF Fork, Set
  <2>2. TypeD'
    BY <1>t, <1>9, <2>1 DEF TypeD
  <2>3. ~forkedInside' => ~forkedInside /\ watching' = watching
    BY <1>t, <2>1
  <2>4. ASSUME NEW u \in Threads
        PROVE  Fits(stack'[u], pc'[u]) /\ (~forkedInside' => Detects(stack'[u], watching'[u], pc'[u]))
    <3>1. CASE stack'[u] = stack[u] /\ pc'[u] = pc[u]
      BY <2>3, <3>1 DEF ThreadInv
    <3>2. CASE stack'[u] = <<>>
      BY <3>2 DEF Fits, Detects
    <3> QED
      BY <1>9, <3>1, <3>2
  <2>5. ThreadInv'
    BY <2>4 DEF ThreadInv
  <2> QED
    BY <2>2, <2>5
<1>10. CASE Parent(t)
  BY <1>t, <1>9, <1>10 DEF Parent
<1>11. CASE Child(t)
  <2>1. Fork(t) /\ stack' = [u \in Threads |-> IF u = t THEN stack[t] ELSE <<>>]
        /\ pc' = [u \in Threads |-> IF u = t THEN pc[t] ELSE "ended"]
    BY <1>11 DEF Child
  <2>2. <<>> \in Seq(Frame) /\ "ended" \in PcValues
    BY DEF PcValues
  <2>3. stack' \in [Threads -> Seq(Frame)] /\ pc' \in [Threads -> PcValues]
    BY <1>t, <2>1, <2>2
  <2>4. \A u \in Threads : \/ stack'[u] = stack[u] /\ pc'[u] = pc[u]
                           \/ u # t /\ stack'[u] = <<>>
    BY <2>1
  <2> QED
    BY <1>9, <2>1, <2>3, <2>4
<1>12. CASE CondEnable(t)
  <2>1. Runs(t, {"cond"}) /\ Leave(t) /\ UNCHANGED <<pc, forkedInside>>
        /\ watching' = [watching EXCEPT ![t] = Restored(t)]
    BY <1>12 DEF CondEnable, Set, history
  <2>2. pc' = [pc EXCEPT ![t] = "runs"]
    BY <1>p, <2>1
  <2>3. /\ stack[t] # <<>> /\ stack[t][Len(stack[t])] \in Frame
        /\ stack[t][Len(stack[t])].fn = "cond" /\ watching[t] \in BOOLEAN
        /\ ~forkedInside => (watching[t] <=> Clean(stack[t], Len(stack[t])))
    BY <2>1, Running
  <2>4. Restored(t) \in BOOLEAN
    BY <2>3 DEF Restored
  <2>5. ~forkedInside => (Restored(t) <=> Clean(stack[t], Len(stack[t]) - 1))
    BY <1>t, <2>3, Below DEF Restored
  <2> QED
    BY <1>t, <2>1, <2>2, <2>3, <2>4, <2>5, Returns
<1>13. CASE InstallRead(t)
  <2> DEFINE s == stack[t]
             r == [s EXCEPT ![Len(s)].fn = "installed"]
  <2>1. Runs(t, {"install"}) /\ UNCHANGED <<watching, pc, forkedInside>>
    BY <1>13 DEF InstallRead, history
  <2>2. stack' = [stack EXCEPT ![t] = r]
    BY <1>13 DEF InstallRead
  <2>3. pc' = [pc EXCEPT ![t] = "runs"] /\ watching' = [watching EXCEPT ![t] = watching[t]]
    BY <1>t, <1>p, <2>1
  <2>4. /\ s \in Seq(Frame) /\ s # <<>> /\ Nested(s) /\ s[Len(s)].fn = "install"
        /\ watching[t] \in BOOLEAN
        /\ ~forkedInside => Remembers(s) /\ (watching[t] <=> Clean(s, Len(s)))
    BY <2>1, Running
  <2> HIDE DEF s
  <2>5. /\ r \in Seq(Frame) /\ r # <<>> /\ Nested(r)
        /\ Clean(r, Len(r)) <=> Clean(s, Len(s))
        /\ Remembers(s) => Remembers(r)
    BY <2>4, Rename
  <2> HIDE DEF r
  <2>6. Fits(r, "runs") /\ (~forkedInside => Detects(r, watching[t], "runs"))
    BY <2>4, <2>5 DEF Fits, Detects, CreatePcs, OuterPcs
  <2>7. "runs" \in PcValues /\ forkedInside' = forkedInside
    BY <1>t, <2>1
  <2>8. r \in Seq(Frame) /\ watching[t] \in BOOLEAN
    BY <2>4, <2>5
  <2> QED
    BY <2>2, <2>3, <2>6, <2>7, <2>8, OneThread
<1>14. CASE Installed(t)
  <2>1. Runs(t, {"install", "installed"}) /\ Leave(t) /\ UNCHANGED <<pc, forkedInside>>
        /\ watching' = [watching EXCEPT ![t] = TRUE]
    BY <1>14 DEF Installed, Set, history
  <2>2. pc' = [pc EXCEPT ![t] = "runs"]
    BY <1>p, <2>1
  <2>3. stack[t] # <<>> /\ stack[t][Len(stack[t])].fn \in {"install", "installed"}
    BY <2>1, Running
  <2>4. stack[t][Len(stack[t])].fn \in Inner
    BY <2>3 DEF Inner, Fns
  <2>5. ~forkedInside => Clean(stack[t], Len(stack[t]) - 1)
    BY <2>3, <2>4, Below
  <2> QED
    BY <2>1, <2>2, <2>3, <2>4, <2>5, Returns
<1>15. CASE HandlerReturns(t)
  <2>1. Runs(t, {"handler"}) /\ Leave(t) /\ UNCHANGED <<watching, pc, forkedInside>>
    BY <1>15 DEF HandlerReturns, history
  <2>2. pc' = [pc EXCEPT ![t] = "runs"] /\ watching' = [watching EXCEPT ![t] = watching[t]]
    BY <1>t, <1>p, <2>1
  <2>3. /\ stack[t] # <<>> /\ stack[t][Len(stack[t])].fn = "handler" /\ watching[t] \in BOOLEAN
        /\ ~forkedInside => (watching[t] <=> Clean(stack[t], Len(stack[t])))
    BY <2>1, Running
  <2>4. ~forkedInside => (watching[t] <=> Clean(stack[t], Len(stack[t]) - 1))
    BY <1>t, <2>3, Below
  <2> QED
    BY <1>t, <2>1, <2>2, <2>3, <2>4, Returns
<1>16. CASE LockCreate(t)
  BY <1>16, Moves DEF LockCreate, WriteLock, Goto, history, PcValues, CreatePcs, OuterPcs
<1>17. CASE NoRecord(t)
  BY <1>17 DEF NoRecord, TypeD, ThreadInv
<1>18. CASE Spawn(t)
  <2> DEFINE c == born + 1
             mid == [pc EXCEPT ![t] = "cbarrier"]
  <2>1. pc[t] = "calloc" /\ stack' = [stack EXCEPT ![c] = <<App>>] /\ UNCHANGED <<watching, forkedInside>>
        /\ pc' = [pc EXCEPT ![t] = "cbarrier", ![c] = "begin"]
    BY <1>18 DEF Spawn, Creating
  <2>2. App \in Frame /\ App.fn = "app"
    BY DEF App, Frame, Fns
  <2>3. <<App>> \in Seq(Frame) /\ Len(<<App>>) = 1 /\ <<App>>[1] = App
    BY <2>2
  <2>4. Fits(<<App>>, "begin") /\ \A w : Detects(<<App>>, w, "begin")
    BY <2>2, <2>3 DEF Fits, Detects, Nested, Remembers, CreatePcs, OuterPcs
  <2>5. TypeD'
    <3>1. stack' \in [Threads -> Seq(Frame)]
      BY <1>t, <2>1, <2>3
    <3>2. pc' \in [Threads -> PcValues]
      BY <1>t, <2>1 DEF PcValues, CreatePcs, OuterPcs
    <3> QED
      BY <2>1, <3>1, <3>2 DEF TypeD
  <2>6. ASSUME NEW u \in Threads
        PROVE  Fits(stack'[u], pc'[u]) /\ (~forkedInside => Detects(stack'[u], watching[u], pc'[u]))
    <3>1. Fits(stack[u], pc[u]) /\ (~forkedInside => Detects(stack[u], watching[u], pc[u]))
      BY DEF ThreadInv
    <3>2. CASE u = c
      <4>1. stack'[u] = <<App>> /\ pc'[u] = "begin"
        BY <1>t, <2>1, <3>2
      <4> QED
        BY <2>4, <4>1
    <3>3. CASE u # c /\ u = t
      <4>1. stack'[u] = stack[u] /\ pc'[u] = "cbarrier" /\ pc[u] = "calloc"
        BY <1>t, <2>1, <3>3
      <4> QED
        BY <3>1, <4>1 DEF Fits, Detects, CreatePcs, OuterPcs
    <3>4. CASE u # c /\ u # t
      <4>1. stack'[u] = stack[u] /\ pc'[u] = pc[u]
        BY <1>t, <2>1, <3>4
      <4> QED
        BY <3>1, <4>1
    <3> QED
      BY <3>2, <3>3, <3>4
  <2>7. ThreadInv'
    BY <2>1, <2>6 DEF ThreadInv
  <2> QED
    BY <2>5, <2>7
<1>19. CASE SpawnFails(t)
  BY <1>19 DEF SpawnFails, TypeD, ThreadInv
<1>20. CASE Begin(t)
  <2>1. pc[t] = "begin" /\ stack' = stack /\ forkedInside' = forkedInside
        /\ watching' = [watching EXCEPT ![t] = FALSE] /\ pc' = [pc EXCEPT ![t] = "barrier"]
    BY <1>20 DEF Begin, Set, Goto, history
  <2>2. stack[t] \in Seq(Frame) /\ stack' = [stack EXCEPT ![t] = stack[t]] /\ "barrier" \in PcValues
    BY <1>t, <2>1 DEF PcValues, OuterPcs
  <2>3. Fits(stack[t], pc[t]) /\ (~forkedInside => Detects(stack[t], watching[t], pc[t]))
    BY DEF ThreadInv
  <2>4. Fits(stack[t], "barrier") /\ (~forkedInside => Detects(stack[t], FALSE, "barrier"))
    BY <2>1, <2>3 DEF Fits, Detects, CreatePcs, OuterPcs
  <2> QED
    BY <2>1, <2>2, <2>4, OneThread
<1>21. ASSUME NEW c \in Threads, Meet(t, c)
       PROVE  TypeD' /\ ThreadInv'
  <2>1. pc[t] = "cbarrier" /\ pc[c] = "barrier" /\ UNCHANGED <<stack, watching, forkedInside>>
        /\ pc' = [pc EXCEPT ![t] = "cinsert", ![c] = "enable"]
    BY <1>21 DEF Meet, history
  <2>2. TypeD'
    BY <1>t, <2>1 DEF TypeD, PcValues, CreatePcs, OuterPcs
  <2>3. ASSUME NEW u \in Threads
        PROVE  Fits(stack[u], pc'[u]) /\ (~forkedInside => Detects(stack[u], watching[u], pc'[u]))
    <3>1. Fits(stack[u], pc[u]) /\ (~forkedInside => Detects(stack[u], watching[u], pc[u]))
      BY DEF ThreadInv
    <3>2. pc'[u] = IF u = c THEN "enable" ELSE IF u = t THEN "cinsert" ELSE pc[u]
      BY <1>t, <2>1
    <3> QED
      BY <2>1, <3>1, <3>2 DEF Fits, Detects, CreatePcs, OuterPcs
  <2>4. ThreadInv'
    BY <2>1, <2>3 DEF ThreadInv
  <2> QED
    BY <2>2, <2>4
<1>22. CASE Insert(t)
  BY <1>22, Moves DEF Insert, Goto, history, PcValues, CreatePcs, OuterPcs
<1>23. CASE CreateReturns(t)
  <2>1. pc[t] = "creturn" /\ Leave(t) /\ forkedInside' = forkedInside
        /\ watching' = [watching EXCEPT ![t] = Restored(t)] /\ pc' = [pc EXCEPT ![t] = "runs"]
    BY <1>23 DEF CreateReturns, Set, Goto, history
  <2>2. Fits(stack[t], pc[t]) /\ (~forkedInside => Detects(stack[t], watching[t], pc[t]))
    BY DEF ThreadInv
  <2>3. CASE stack[t] # <<>>
    <3>1. stack[t][Len(stack[t])].fn = "create" /\ (~forkedInside => ~watching[t])
      BY <2>1, <2>2, <2>3 DEF Fits, Detects, CreatePcs
    <3>2. stack[t][Len(stack[t])] \in Frame
      <4> DEFINE s == stack[t]
      <4>1. s \in Seq(Frame) /\ s # <<>>
        BY <1>t, <2>3
      <4> HIDE DEF s
      <4>2. s[Len(s)] \in Frame
        BY <4>1
      <4> QED
        BY <4>2 DEF s
    <3>3. Restored(t) \in BOOLEAN
      BY <1>t, <3>2 DEF Restored, Frame
    <3>4. ~forkedInside => (Restored(t) <=> Clean(stack[t], Len(stack[t]) - 1))
      BY <1>t, <2>3, <3>1, Below DEF Restored
    <3> QED
      BY <1>t, <2>1, <2>3, <3>1, <3>3, <3>4, Returns
  <2>4. CASE stack[t] = <<>>
    <3>1. SubSeq(stack[t], 1, Len(stack[t]) - 1) = <<>>
      BY <2>4
    <3>2. stack' = [stack EXCEPT ![t] = SubSeq(stack[t], 1, Len(stack[t]) - 1)]
      BY <2>1 DEF Leave
    <3>3. stack' = [stack EXCEPT ![t] = <<>>]
      BY <3>1, <3>2
    <3>4. <<>> \in Seq(Frame)
      OBVIOUS
    <3>5. Restored(t) \in BOOLEAN
      BY DEF Restored
    <3>6. Fits(<<>>, "runs") /\ Detects(<<>>, Restored(t), "runs")
      BY DEF Fits, Detects
    <3> QED
      BY <1>t, <2>1, <3>3, <3>4, <3>5, <3>6, OneThread
  <2> QED
    BY <2>3, <2>4
<1>24. CASE Enable(t)
  <2> DEFINE s == stack[t]
  <2>1. pc[t] = "enable" /\ stack' = stack /\ forkedInside' = forkedInside
        /\ watching' = [watching EXCEPT ![t] = TRUE] /\ pc' = [pc EXCEPT ![t] = "runs"]
    BY <1>24 DEF Enable, Set, Goto, history
  <2>2. s \in Seq(Frame) /\ stack' = [stack EXCEPT ![t] = s]
    BY <1>t, <2>1
  <2>3. Fits(s, "enable") /\ (~forkedInside => Detects(s, watching[t], "enable"))
    BY <2>1 DEF ThreadInv
  <2> HIDE DEF s
  <2>4. s # <<>> => Len(s) = 1 /\ s[1].fn = "app"
    BY <2>3 DEF Fits, OuterPcs, Nested
  <2>5. s # <<>> => Clean(s, Len(s))
    <3> SUFFICES ASSUME s # <<>>, NEW i \in 1..Len(s)
                 PROVE  s[i].fn \in {"app", "handler"}
      BY DEF Clean
    <3>1. Len(s) = 1 /\ s[1].fn = "app"
      BY <2>4
    <3>2. i \in 1..1
      BY <3>1
    <3> QED
      BY <3>1, <3>2
  <2>6. Fits(s, "runs") /\ (~forkedInside => Detects(s, TRUE, "runs"))
    BY <2>3, <2>5 DEF Fits, Detects, CreatePcs, OuterPcs
  <2> QED
    BY <1>t, <2>1, <2>2, <2>6, OneThread
<1>25. CASE LockExit(t)
  BY <1>25, Moves DEF LockExit, WriteLock, Goto, history, PcValues, CreatePcs, OuterPcs
<1>26. CASE Exit(t)
  <2>1. stack' = [stack EXCEPT ![t] = <<>>] /\ watching' = [watching EXCEPT ![t] = watching[t]]
        /\ pc' = [pc EXCEPT ![t] = "ended"] /\ forkedInside' = forkedInside
    BY <1>t, <1>26 DEF Exit, Goto, history
  <2>2. <<>> \in Seq(Frame) /\ "ended" \in PcValues /\ watching[t] \in BOOLEAN
    BY <1>t DEF PcValues
  <2>3. Fits(<<>>, "ended") /\ Detects(<<>>, watching[t], "ended")
    BY DEF Fits, Detects
  <2> QED
    BY <2>1, <2>2, <2>3, OneThread
<1> QED
  BY <1>2, <1>3, <1>4, <1>5, <1>6, <1>7, <1>8, <1>10, <1>11, <1>12, <1>13, <1>14, <1>15, <1>16,
     <1>17, <1>18, <1>19, <1>20, <1>21, <1>22, <1>23, <1>24, <1>25, <1>26 DEF Step

(* The detector of a thread is on just in the application's own code and   *)
(* in handlers that interrupt it, at any depth of calls inside each other  *)
(* and of handlers inside them, with any number of threads, creations and  *)
(* forks (COND_DISABLE, COND_ENABLE, xxmalloc_install_watchpoint,          *)
(* startThread).                                                           *)
THEOREM DetectorFollowsApplication == Spec => []DetectsApplication
<1>1. TypeD /\ ThreadInv => DetectsApplication
  <2> SUFFICES ASSUME TypeD, ThreadInv, ~forkedInside,
                      NEW t \in Threads, pc[t] = "runs", stack[t] # <<>>
               PROVE  watching[t] <=> \A i \in DOMAIN stack[t] : stack[t][i].fn \in {"app", "handler"}
    BY DEF DetectsApplication
  <2> DEFINE s == stack[t]
  <2>1. s \in Seq(Frame) /\ (watching[t] <=> Clean(s, Len(s)))
    BY DEF TypeD, ThreadInv, Detects
  <2> HIDE DEF s
  <2>2. DOMAIN s = 1..Len(s)
    BY <2>1
  <2> QED
    BY <2>1, <2>2 DEF Clean, s
<1> QED
  BY DetectsInit, DetectsNext, <1>1, PTL DEF Spec

-----------------------------------------------------------------------------
(* Rings *)

\* RecordsAgree's Ring, for any list, with the way back.
IsRing(l, S) ==
  /\ \A n \in S : l.next[n] \in S /\ l.prev[l.next[n]] = n
  /\ \A n \in S : l.prev[n] \in S /\ l.next[l.prev[n]] = n
  /\ \A X \in SUBSET S : Anchor \in X /\ (\A n \in X : l.next[n] \in X) => X = S

Lists == [next : [Nodes -> Nodes], prev : [Nodes -> Nodes]]

\* The anchor is no record.
LEMMA AnchorIsNone == Anchor \in Nodes /\ Anchor \notin Records /\ 0 \in Records /\ Records \subseteq Nodes
<1>1. MAX_ALIVE_THREADS \in Nat /\ MAX_ALIVE_THREADS >= 1
  BY ThreadTableAssumption
<1> QED
  BY <1>1 DEF Nodes, Anchor, Records

\* A node that is not on the ring points to itself.
LEMMA RingInit ==
  ASSUME NEW l \in Lists, NEW S \in SUBSET Nodes, NEW n \in Nodes \ S, IsRing(l, S)
  PROVE  nodeInit(l, n) \in Lists /\ IsRing(nodeInit(l, n), S)
<1> DEFINE r == nodeInit(l, n)
<1>1. r \in Lists /\ \A m \in S : r.next[m] = l.next[m] /\ r.prev[m] = l.prev[m]
  BY DEF Lists, nodeInit
<1> HIDE DEF r
<1>2. IsRing(r, S)
  BY <1>1 DEF IsRing
<1> QED
  BY <1>1, <1>2 DEF r

\* A node is put before the anchor.
LEMMA RingInsert ==
  ASSUME NEW l \in Lists, NEW S \in SUBSET Nodes, Anchor \in S, NEW n \in Nodes \ S, IsRing(l, S)
  PROVE  listInsertTail(l, n, Anchor) \in Lists /\ IsRing(listInsertTail(l, n, Anchor), S \cup {n})
<1> DEFINE r == listInsertTail(l, n, Anchor)
           p == l.prev[Anchor]
           T == S \cup {n}
<1>1. p \in S /\ l.next[p] = Anchor
  BY DEF IsRing
<1>2. /\ r \in Lists
      /\ r.next = [l.next EXCEPT ![n] = Anchor, ![p] = n] /\ r.prev = [l.prev EXCEPT ![n] = p, ![Anchor] = n]
  BY <1>1 DEF Lists, listInsertTail, insertBetween
<1>3. /\ r.next[n] = Anchor /\ r.next[p] = n /\ r.prev[n] = p /\ r.prev[Anchor] = n
      /\ \A m \in S : m # p => r.next[m] = l.next[m]
      /\ \A m \in S : m # Anchor => r.prev[m] = l.prev[m]
  BY <1>1, <1>2 DEF Lists
<1>l. /\ \A m \in S : l.next[m] \in S /\ l.prev[l.next[m]] = m
      /\ \A m \in S : l.prev[m] \in S /\ l.next[l.prev[m]] = m
  BY DEF IsRing
<1> HIDE DEF r, p
<1>4. \A m \in T : r.next[m] \in T /\ r.prev[r.next[m]] = m
  <2> SUFFICES ASSUME NEW m \in T PROVE r.next[m] \in T /\ r.prev[r.next[m]] = m
    OBVIOUS
  <2>1. CASE m = n
    BY <1>3, <2>1
  <2>2. CASE m = p
    BY <1>3, <2>2
  <2>3. CASE m # n /\ m # p
    <3>1. m \in S /\ r.next[m] = l.next[m] /\ l.next[m] \in S
      BY <1>3, <1>l, <2>3
    <3>2. l.next[m] # Anchor
      BY <1>1, <1>l, <2>3, <3>1 DEF p
    <3> QED
      BY <1>3, <1>l, <3>1, <3>2
  <2> QED
    BY <2>1, <2>2, <2>3
<1>5. \A m \in T : r.prev[m] \in T /\ r.next[r.prev[m]] = m
  <2> SUFFICES ASSUME NEW m \in T PROVE r.prev[m] \in T /\ r.next[r.prev[m]] = m
    OBVIOUS
  <2>1. CASE m = n
    BY <1>1, <1>3, <2>1
  <2>2. CASE m = Anchor
    BY <1>3, <2>2
  <2>3. CASE m # n /\ m # Anchor
    <3>1. m \in S /\ r.prev[m] = l.prev[m] /\ l.prev[m] \in S
      BY <1>3, <1>l, <2>3
    <3>2. l.prev[m] # p
      BY <1>1, <1>l, <2>3, <3>1
    <3> QED
      BY <1>3, <1>l, <3>1, <3>2
  <2> QED
    BY <2>1, <2>2, <2>3
<1>6. ASSUME NEW X \in SUBSET T, Anchor \in X, \A m \in X : r.next[m] \in X PROVE X = T
  <2> DEFINE Y == X \cap S
  <2>1. ASSUME NEW m \in Y PROVE l.next[m] \in Y
    <3>1. CASE m = p
      BY <1>1, <1>6, <3>1
    <3>2. CASE m # p
      BY <1>3, <1>l, <1>6, <3>2
    <3> QED
      BY <3>1, <3>2
  <2>2. Y = S
    <3>1. Y \in SUBSET S /\ Anchor \in Y
      BY <1>6
    <3> HIDE DEF Y
    <3> QED
      BY <2>1, <3>1 DEF IsRing
  <2>3. n \in X
    BY <1>1, <1>3, <1>6, <2>2
  <2> QED
    BY <2>2, <2>3
<1>7. IsRing(r, T)
  BY <1>4, <1>5, <1>6 DEF IsRing
<1> QED
  BY <1>2, <1>7 DEF r

\* A node is taken out.
LEMMA RingRemove ==
  ASSUME NEW l \in Lists, NEW S \in SUBSET Nodes, Anchor \in S, NEW n \in S, n # Anchor, IsRing(l, S)
  PROVE  listRemoveNode(l, n) \in Lists /\ IsRing(listRemoveNode(l, n), S \ {n})
<1> DEFINE r == listRemoveNode(l, n)
           p == l.prev[n]
           q == l.next[n]
           T == S \ {n}
<1>l. /\ \A m \in S : l.next[m] \in S /\ l.prev[l.next[m]] = m
      /\ \A m \in S : l.prev[m] \in S /\ l.next[l.prev[m]] = m
  BY DEF IsRing
<1>1. p \in S /\ q \in S /\ l.next[p] = n /\ l.prev[q] = n
  BY <1>l
<1>2. p # n
  <2> SUFFICES ASSUME p = n PROVE FALSE
    OBVIOUS
  <2>1. \A m \in T : l.next[m] \in T
    BY <1>l, <1>1
  <2>2. T \in SUBSET S /\ Anchor \in T
    OBVIOUS
  <2>3. T = S
    <3> HIDE DEF T
    <3> QED
      BY <2>1, <2>2 DEF IsRing
  <2> QED
    BY <2>3
<1>3. q # n
  BY <1>l, <1>1, <1>2
<1>4. /\ r \in Lists
      /\ r.next = [[l.next EXCEPT ![p] = q] EXCEPT ![n] = n]
      /\ r.prev = [[l.prev EXCEPT ![q] = p] EXCEPT ![n] = n]
  BY <1>1 DEF Lists, listRemoveNode, listLink, nodeInit
<1>5. /\ r.next[p] = q /\ r.prev[q] = p
      /\ \A m \in T : m # p => r.next[m] = l.next[m]
      /\ \A m \in T : m # q => r.prev[m] = l.prev[m]
  BY <1>1, <1>2, <1>3, <1>4 DEF Lists
<1> HIDE DEF r, p, q
<1>6. \A m \in T : r.next[m] \in T /\ r.prev[r.next[m]] = m
  <2> SUFFICES ASSUME NEW m \in T PROVE r.next[m] \in T /\ r.prev[r.next[m]] = m
    OBVIOUS
  <2>1. CASE m = p
    BY <1>1, <1>3, <1>5, <2>1
  <2>2. CASE m # p
    <3>1. r.next[m] = l.next[m] /\ l.next[m] \in S
      BY <1>5, <1>l, <2>2
    <3>2. l.next[m] # n /\ l.next[m] # q
      BY <1>1, <1>l, <2>2 DEF p
    <3> QED
      BY <1>5, <1>l, <3>1, <3>2
  <2> QED
    BY <2>1, <2>2
<1>7. \A m \in T : r.prev[m] \in T /\ r.next[r.prev[m]] = m
  <2> SUFFICES ASSUME NEW m \in T PROVE r.prev[m] \in T /\ r.next[r.prev[m]] = m
    OBVIOUS
  <2>1. CASE m = q
    BY <1>1, <1>2, <1>5, <2>1
  <2>2. CASE m # q
    <3>1. r.prev[m] = l.prev[m] /\ l.prev[m] \in S
      BY <1>5, <1>l, <2>2
    <3>2. l.prev[m] # n /\ l.prev[m] # p
      BY <1>1, <1>l, <2>2 DEF q
    <3> QED
      BY <1>5, <1>l, <3>1, <3>2
  <2> QED
    BY <2>1, <2>2
<1>8. ASSUME NEW X \in SUBSET T, Anchor \in X, \A m \in X : r.next[m] \in X PROVE X = T
  <2> DEFINE Y == IF p \in X THEN X \cup {n} ELSE X
  <2>1. ASSUME NEW m \in Y PROVE l.next[m] \in Y
    <3>1. CASE m = n
      <4>1. p \in X
        BY <1>8, <3>1
      <4>2. q \in X
        BY <1>5, <1>8, <4>1
      <4> QED
        BY <3>1, <4>1, <4>2 DEF q
    <3>2. CASE m = p /\ m # n
      BY <1>1, <3>2
    <3>3. CASE m # p /\ m # n
      BY <1>5, <1>8, <3>3
    <3> QED
      BY <3>1, <3>2, <3>3
  <2>2. Y = S
    <3>1. Y \in SUBSET S /\ Anchor \in Y
      BY <1>8
    <3> HIDE DEF Y
    <3> QED
      BY <2>1, <3>1 DEF IsRing
  <2> QED
    BY <1>8, <2>2
<1>9. IsRing(r, T)
  BY <1>6, <1>7, <1>8 DEF IsRing
<1> QED
  BY <1>4, <1>9 DEF r

\* The ring of the caller alone.
LEMMA RingFresh ==
  ASSUME NEW l \in Lists
  PROVE  Fresh(l) \in Lists /\ IsRing(Fresh(l), {0, Anchor})
<1> DEFINE a == nodeInit(l, Anchor)
           b == nodeInit(a, 0)
<1>0. Anchor \in Nodes /\ 0 \in Nodes /\ 0 # Anchor
  BY AnchorIsNone
<1>1. a \in Lists /\ a.next[Anchor] = Anchor /\ a.prev[Anchor] = Anchor
  BY <1>0 DEF Lists, nodeInit
<1>2. IsRing(a, {Anchor})
  BY <1>1 DEF IsRing
<1> HIDE DEF a
<1>3. b \in Lists /\ IsRing(b, {Anchor})
  BY <1>0, <1>1, <1>2, RingInit
<1> HIDE DEF b
<1>4. listInsertTail(b, 0, Anchor) \in Lists /\ IsRing(listInsertTail(b, 0, Anchor), {Anchor} \cup {0})
  BY <1>0, <1>3, RingInsert
<1>5. {Anchor} \cup {0} = {0, Anchor}
  OBVIOUS
<1> QED
  BY <1>4, <1>5 DEF Fresh, a, b

-----------------------------------------------------------------------------
(* The invariant of the table *)

\* The records that are taken, and what the list must hold.
InUse  == {r \in Records : ~available[r]}
OnList == (InUse \ Newborn) \cup {Anchor}

\* A creation has taken a record that is not on the list yet.
Between == \E t \in Threads : pc[t] \in {"cbarrier", "cinsert"}

Alive == {t \in Threads : stack[t] # <<>>}

\* The places with the write lock, and those before a thread is created.
Writing == {"calloc", "cbarrier", "cinsert", "xremove"}
Coming  == {t \in Threads : pc[t] \in {"cwlock", "calloc"}}

TypeR ==
  /\ list \in Lists
  /\ available \in [Records -> BOOLEAN]
  /\ totalAliveThreads \in Nat /\ threadIndex \in Records
  /\ writer \in Threads \cup {Nobody}
  /\ current \in [Threads -> Records]
  /\ born \in Threads

\* Who is in a creation or an exit is alive, and alone between taking a record and putting
\* it on the list; only threads that were created are alive, and none is created too many.
PlaceInv ==
  /\ \A t \in Threads :
       /\ pc[t] \notin {"runs", "ended"} => t \in Alive
       /\ pc[t] \in Writing => writer = t
       /\ t \in Alive => t <= born
  /\ born + Cardinality(Coming) <= NThreads

\* RecordsAgree, and the record of a thread that is being created is taken.
TableInv ==
  /\ totalAliveThreads = Cardinality(InUse)
  /\ IsRing(list, OnList)
  /\ Between => current[born] \in InUse
  /\ \A t \in Alive : current[t] \in InUse
  /\ \A t, u \in Alive : current[t] = current[u] => t = u

RecordsInv == state = "runs" => TypeR /\ PlaceInv /\ TableInv

\* The threads.
LEMMA Finite == /\ NThreads \in Nat /\ NThreads >= 1 /\ Nobody \notin Threads /\ Main \in Threads
                /\ IsFiniteSet(Coming) /\ Cardinality(Coming) \in Nat
<1>1. NThreads \in Nat /\ NThreads >= 1 /\ Nobody \notin Threads /\ Main \in Threads
  BY ThreadTableAssumption DEF Threads, Nobody, Main
<1>2. IsFiniteSet(Threads)
  BY <1>1, FS_Interval DEF Threads
<1>3. Coming \subseteq Threads
  BY DEF Coming
<1>4. IsFiniteSet(Coming)
  BY <1>2, <1>3, FS_Subset
<1> QED
  BY <1>1, <1>4, FS_CardinalityType

\* The records.
LEMMA FiniteRecords ==
  /\ MAX_ALIVE_THREADS \in Nat /\ MAX_ALIVE_THREADS >= 1
  /\ IsFiniteSet(Records) /\ Cardinality(Records) = MAX_ALIVE_THREADS
  /\ InUse \subseteq Records /\ IsFiniteSet(InUse) /\ Cardinality(InUse) \in Nat
<1>1. MAX_ALIVE_THREADS \in Nat /\ MAX_ALIVE_THREADS >= 1
  BY ThreadTableAssumption
<1>2. IsFiniteSet(Records) /\ Cardinality(Records) = (MAX_ALIVE_THREADS - 1) - 0 + 1
  BY <1>1, FS_Interval DEF Records
<1>3. InUse \subseteq Records
  BY DEF InUse
<1>4. IsFiniteSet(InUse)
  BY <1>2, <1>3, FS_Subset
<1> QED
  BY <1>1, <1>2, <1>3, <1>4, FS_CardinalityType

\* A step of one thread that creates none.
LEMMA Places ==
  ASSUME TypeD, TypeR, PlaceInv, NEW t \in Threads, NEW p, pc' = [pc EXCEPT ![t] = p], born' = born,
         Alive' \subseteq Alive, Alive \ {t} \subseteq Alive', p \in {"runs", "ended"} \/ t \in Alive',
         writer' = writer \/ writer \in {Nobody, t},
         p \in Writing => writer' = t,
         p \in {"cwlock", "calloc"} => t \in Coming \/ born + Cardinality(Coming) < NThreads
  PROVE  PlaceInv'
<1>p. pc'[t] = p /\ \A u \in Threads \ {t} : pc'[u] = pc[u]
  BY DEF TypeD
<1>1. ASSUME NEW u \in Threads
      PROVE  /\ pc'[u] \notin {"runs", "ended"} => u \in Alive'
             /\ pc'[u] \in Writing => writer' = u
             /\ u \in Alive' => u <= born
  <2>1. CASE u = t
    BY <1>p, <2>1 DEF PlaceInv
  <2>2. CASE u # t
    <3>1. pc'[u] = pc[u] /\ (u \in Alive' <=> u \in Alive)
      BY <1>p, <2>2
    <3>2. pc[u] \in Writing => writer' = u
      BY <2>2, Finite DEF PlaceInv
    <3> QED
      BY <3>1, <3>2 DEF PlaceInv
  <2> QED
    BY <2>1, <2>2
<1>2. born + Cardinality(Coming') <= NThreads
  <2>b. born \in Nat /\ NThreads \in Nat /\ Cardinality(Coming) \in Nat /\ IsFiniteSet(Coming)
    BY Finite DEF TypeR, Threads
  <2>1. CASE p \in {"cwlock", "calloc"} /\ t \notin Coming
    <3>1. Coming' = Coming \cup {t}
      BY <1>p, <2>1 DEF Coming
    <3>2. Cardinality(Coming') = Cardinality(Coming) + 1
      BY <2>b, <2>1, <3>1, FS_AddElement
    <3> QED
      BY <2>b, <2>1, <3>2
  <2>2. CASE p \in {"cwlock", "calloc"} /\ t \in Coming
    <3>1. Coming' = Coming
      BY <1>p, <2>2 DEF Coming
    <3> QED
      BY <3>1 DEF PlaceInv
  <2>3. CASE p \notin {"cwlock", "calloc"}
    <3>1. Coming' = Coming \ {t}
      BY <1>p, <2>3 DEF Coming
    <3>2. Cardinality(Coming') \in Nat /\ Cardinality(Coming') <= Cardinality(Coming)
      <4>1. CASE t \in Coming
        <5>1. Cardinality(Coming') = Cardinality(Coming) - 1
          BY <2>b, <3>1, <4>1, FS_RemoveElement
        <5>2. IsFiniteSet(Coming')
          BY <2>b, <3>1, FS_RemoveElement
        <5>3. Cardinality(Coming') \in Nat
          BY <5>2, FS_CardinalityType
        <5> QED
          BY <2>b, <5>1, <5>3
      <4>2. CASE t \notin Coming
        <5>1. Coming' = Coming
          BY <3>1, <4>2
        <5> QED
          BY <2>b, <5>1
      <4> QED
        BY <4>1, <4>2
    <3> QED
      BY <2>b, <3>2 DEF PlaceInv
  <2> QED
    BY <2>1, <2>2, <2>3
<1> QED
  BY <1>1, <1>2 DEF PlaceInv

\* A step that leaves the table alone.
LEMMA Calm ==
  ASSUME TypeR, TableInv, list' = list, available' = available, totalAliveThreads' = totalAliveThreads,
         threadIndex' = threadIndex, current' = current, born' = born, Alive' \subseteq Alive,
         Between' <=> Between, writer' \in Threads \cup {Nobody}
  PROVE  TypeR' /\ TableInv'
<1>1. TypeR'
  BY DEF TypeR
<1>2. InUse' = InUse
  BY DEF InUse
<1>3. OnList' = OnList
  BY <1>2 DEF OnList, Newborn, Between
<1>4. \A t \in Alive' : current'[t] \in InUse'
  BY <1>2 DEF TableInv
<1>5. \A t, u \in Alive' : current'[t] = current'[u] => t = u
  BY DEF TableInv
<1> QED
  BY <1>1, <1>2, <1>3, <1>4, <1>5 DEF TableInv

-----------------------------------------------------------------------------
(* The steps, for the table *)

\* A call, a return or a signal.
LEMMA RunsOn ==
  ASSUME TypeD, TypeR, PlaceInv, TableInv, NEW t \in Threads, t \in Alive, pc[t] = "runs", pc' = pc,
         \A u \in Threads \ {t} : stack'[u] = stack[u], UNCHANGED table, current' = current, born' = born,
         writer' = writer
  PROVE  TypeR' /\ PlaceInv' /\ TableInv'
<1>1. Alive' \subseteq Alive /\ Alive \ {t} \subseteq Alive'
  BY DEF Alive
<1>2. pc' = [pc EXCEPT ![t] = "runs"]
  BY DEF TypeD
<1>3. Between' <=> Between
  BY DEF Between
<1>4. list' = list /\ available' = available /\ totalAliveThreads' = totalAliveThreads /\ threadIndex' = threadIndex
  BY DEF table
<1>5. writer' \in Threads \cup {Nobody}
  BY DEF TypeR
<1>6. PlaceInv'
  BY <1>1, <1>2, Places DEF Writing
<1>7. TypeR' /\ TableInv'
  BY <1>1, <1>3, <1>4, <1>5, Calm
<1> QED
  BY <1>6, <1>7

\* A step to another place.
LEMMA GoesOn ==
  ASSUME TypeD, TypeR, PlaceInv, TableInv, NEW t \in Threads, NEW p, pc' = [pc EXCEPT ![t] = p],
         t \in Alive, \A u \in Threads \ {t} : stack'[u] = stack[u], UNCHANGED table, current' = current,
         born' = born,
         pc[t] \in {"cbarrier", "cinsert"} <=> p \in {"cbarrier", "cinsert"},
         p \in {"runs", "ended"} \/ stack'[t] # <<>>,
         writer' = writer \/ (writer' = t /\ writer = Nobody),
         p \in Writing => writer' = t,
         p \in {"cwlock", "calloc"} => t \in Coming \/ born + Cardinality(Coming) < NThreads
  PROVE  TypeR' /\ PlaceInv' /\ TableInv'
<1>1. Alive' \subseteq Alive /\ Alive \ {t} \subseteq Alive' /\ (p \in {"runs", "ended"} \/ t \in Alive')
  BY DEF Alive
<1>2. pc'[t] = p /\ \A u \in Threads \ {t} : pc'[u] = pc[u]
  BY DEF TypeD
<1>3. Between' <=> Between
  BY <1>2 DEF Between
<1>4. list' = list /\ available' = available /\ totalAliveThreads' = totalAliveThreads /\ threadIndex' = threadIndex
  BY DEF table
<1>5. writer' \in Threads \cup {Nobody}
  BY DEF TypeR
<1>6. PlaceInv'
  BY <1>1, Places
<1>7. TypeR' /\ TableInv'
  BY <1>1, <1>3, <1>4, <1>5, Calm
<1> QED
  BY <1>6, <1>7

\* Parent and child go through the barrier.
LEMMA MeetRecords ==
  ASSUME TypeD, TypeR, PlaceInv, TableInv, NEW t \in Threads, NEW c \in Threads, Meet(t, c)
  PROVE  TypeR' /\ PlaceInv' /\ TableInv'
<1>1. /\ pc[t] = "cbarrier" /\ pc[c] = "barrier" /\ t # c
      /\ pc'[t] = "cinsert" /\ pc'[c] = "enable" /\ \A u \in Threads \ {t, c} : pc'[u] = pc[u]
      /\ stack' = stack /\ writer' = writer /\ born' = born /\ current' = current
  BY DEF Meet, TypeD, lock, history
<1>2. list' = list /\ available' = available /\ totalAliveThreads' = totalAliveThreads /\ threadIndex' = threadIndex
  BY DEF Meet, table
<1>3. Alive' = Alive /\ Coming' = Coming /\ Between' /\ Between
  BY <1>1 DEF Alive, Coming, Between
<1>4. PlaceInv'
  <2>1. ASSUME NEW u \in Threads
        PROVE  /\ pc'[u] \notin {"runs", "ended"} => u \in Alive'
               /\ pc'[u] \in Writing => writer' = u
               /\ u \in Alive' => u <= born'
    <3>1. CASE u = t
      BY <1>1, <1>3, <3>1 DEF PlaceInv, Writing
    <3>2. CASE u = c
      BY <1>1, <1>3, <3>2 DEF PlaceInv, Writing
    <3>3. CASE u # t /\ u # c
      BY <1>1, <1>3, <3>3 DEF PlaceInv
    <3> QED
      BY <3>1, <3>2, <3>3
  <2> QED
    BY <1>1, <1>3, <2>1 DEF PlaceInv
<1>5. writer' \in Threads \cup {Nobody}
  BY <1>1 DEF TypeR
<1>6. TypeR' /\ TableInv'
  BY <1>1, <1>2, <1>3, <1>5, Calm
<1> QED
  BY <1>4, <1>6

\* The new thread's record is put on the list.
LEMMA InsertRecords ==
  ASSUME TypeD, TypeR, PlaceInv, TableInv, NEW t \in Threads, Insert(t)
  PROVE  TypeR' /\ PlaceInv' /\ TableInv'
<1> DEFINE r == current[born]
<1>1. /\ pc[t] = "cinsert" /\ pc' = [pc EXCEPT ![t] = "creturn"] /\ list' = listInsertTail(list, r, Anchor)
      /\ writer' = Nobody /\ available' = available /\ totalAliveThreads' = totalAliveThreads
      /\ threadIndex' = threadIndex /\ stack' = stack /\ born' = born /\ current' = current
  BY DEF Insert, releaseGlobalLock, Goto, history
<1>2. pc'[t] = "creturn" /\ \A u \in Threads \ {t} : pc'[u] = pc[u] /\ pc[u] \notin Writing
  BY <1>1 DEF TypeD, PlaceInv, Writing
<1>3. Between /\ ~Between' /\ Newborn = {r} /\ Newborn' = {}
  BY <1>1, <1>2 DEF Between, Newborn, Writing
<1>4. Alive' = Alive /\ t \in Alive
  BY <1>1 DEF Alive, PlaceInv
<1>5. PlaceInv'
  <2>1. Alive' \subseteq Alive /\ Alive \ {t} \subseteq Alive' /\ ("creturn" \in {"runs", "ended"} \/ t \in Alive')
    BY <1>4
  <2>2. writer \in {Nobody, t} /\ "creturn" \notin Writing /\ "creturn" \notin {"cwlock", "calloc"}
    BY <1>1 DEF Writing, PlaceInv
  <2>3. pc' = [pc EXCEPT ![t] = "creturn"] /\ born' = born
    BY <1>1
  <2> QED
    BY <2>1, <2>2, <2>3, Places
<1>6. r \in InUse /\ InUse' = InUse /\ OnList = (InUse \ {r}) \cup {Anchor} /\ OnList' = OnList \cup {r}
  BY <1>1, <1>3 DEF TableInv, InUse, OnList
<1>7. OnList \in SUBSET Nodes /\ Anchor \in OnList /\ r \in Nodes \ OnList
  BY <1>6, AnchorIsNone DEF InUse, Nodes
<1>8. list' \in Lists /\ IsRing(list', OnList')
  <2> HIDE DEF r
  <2>1. list' \in Lists /\ IsRing(list', OnList \cup {r})
    BY <1>1, <1>7, RingInsert DEF TypeR, TableInv
  <2> QED
    BY <1>6, <2>1
<1>9. TypeR'
  BY <1>1, <1>8 DEF TypeR
<1>10. TableInv'
  BY <1>1, <1>3, <1>4, <1>6, <1>8 DEF TableInv
<1> QED
  BY <1>5, <1>9, <1>10

\* A thread gives its record back.
LEMMA ExitRecords ==
  ASSUME TypeD, TypeR, PlaceInv, TableInv, NEW t \in Threads, Exit(t)
  PROVE  TypeR' /\ PlaceInv' /\ TableInv'
<1> DEFINE r == current[t]
<1>1. /\ pc[t] = "xremove" /\ pc' = [pc EXCEPT ![t] = "ended"] /\ list' = listRemoveNode(list, r)
      /\ available' = [available EXCEPT ![r] = TRUE] /\ totalAliveThreads' = totalAliveThreads - 1
      /\ writer' = Nobody /\ threadIndex' = threadIndex /\ stack' = [stack EXCEPT ![t] = <<>>]
      /\ born' = born /\ current' = current
  BY DEF Exit, releaseGlobalLock, Goto, history
<1>2. pc'[t] = "ended" /\ \A u \in Threads \ {t} : pc'[u] = pc[u] /\ pc[u] \notin Writing
  BY <1>1 DEF TypeD, PlaceInv, Writing
<1>3. ~Between /\ ~Between' /\ Newborn = {} /\ Newborn' = {}
  BY <1>1, <1>2 DEF Between, Newborn, Writing
<1>4. Alive' = Alive \ {t} /\ t \in Alive
  BY <1>1 DEF Alive, PlaceInv, TypeD
<1>5. PlaceInv'
  <2>1. Alive' \subseteq Alive /\ Alive \ {t} \subseteq Alive' /\ ("ended" \in {"runs", "ended"} \/ t \in Alive')
    BY <1>4
  <2>2. writer \in {Nobody, t} /\ "ended" \notin Writing /\ "ended" \notin {"cwlock", "calloc"}
    BY <1>1 DEF Writing, PlaceInv
  <2>3. pc' = [pc EXCEPT ![t] = "ended"] /\ born' = born
    BY <1>1
  <2> QED
    BY <2>1, <2>2, <2>3, Places
<1>6. r \in InUse /\ r \in Records /\ available \in [Records -> BOOLEAN]
  BY <1>4 DEF TableInv, TypeR
<1>7. InUse' = InUse \ {r} /\ OnList = InUse \cup {Anchor} /\ OnList' = OnList \ {r} /\ r # Anchor
  <2>1. InUse' = InUse \ {r}
    BY <1>1, <1>6 DEF InUse
  <2>2. r # Anchor
    BY <1>6, AnchorIsNone
  <2> QED
    BY <1>3, <2>1, <2>2 DEF OnList
<1>8. list' \in Lists /\ IsRing(list', OnList')
  <2>1. OnList \in SUBSET Nodes /\ Anchor \in OnList /\ r \in OnList
    BY <1>6, <1>7, AnchorIsNone DEF InUse, Nodes
  <2> HIDE DEF r
  <2>2. list' \in Lists /\ IsRing(list', OnList \ {r})
    BY <1>1, <1>7, <2>1, RingRemove DEF TypeR, TableInv
  <2> QED
    BY <1>7, <2>2
<1>9. totalAliveThreads' = Cardinality(InUse') /\ totalAliveThreads' \in Nat
  <2>1. IsFiniteSet(InUse') /\ Cardinality(InUse') = Cardinality(InUse) - 1
    BY <1>6, <1>7, FiniteRecords, FS_RemoveElement
  <2>2. Cardinality(InUse') \in Nat
    BY <2>1, FS_CardinalityType
  <2> QED
    BY <1>1, <2>1, <2>2 DEF TableInv
<1>10. TypeR'
  BY <1>1, <1>8, <1>9 DEF TypeR
<1>11. \A u \in Alive' : current'[u] \in InUse'
  BY <1>1, <1>4, <1>7 DEF TableInv
<1>12. \A u, v \in Alive' : current'[u] = current'[v] => u = v
  BY <1>1, <1>4 DEF TableInv
<1>13. TableInv'
  BY <1>3, <1>8, <1>9, <1>11, <1>12 DEF TableInv
<1> QED
  BY <1>5, <1>10, <1>13

\* A set of natural numbers has a least element.
LEMMA Least == ASSUME NEW S, S \subseteq Nat, S # {} PROVE \E i \in S : \A j \in S : i <= j
<1>1. IsWellFoundedOn(OpToRel(<, Nat), Nat)
  BY NatLessThanWellFounded
<1>2. PICK i \in S : \A j \in S : ~(<<j, i>> \in OpToRel(<, Nat))
  BY <1>1, WFMin
<1>3. ASSUME NEW j \in S PROVE i <= j
  <2>0. i \in Nat /\ j \in Nat /\ <<j, i>> \in Nat \X Nat
    OBVIOUS
  <2>1. j < i => <<j, i>> \in OpToRel(<, Nat)
    BY <2>0 DEF OpToRel
  <2>2. ~(j < i)
    BY <1>2, <2>1
  <2> QED
    BY <2>0, <2>2
<1> QED
  BY <1>3

\* allocThreadIndex comes round to every record.
LEMMA Around ==
  ASSUME NEW m \in Nat, m >= 1, NEW k \in 0..(m - 1)
  PROVE  /\ \A r \in 0..(m - 1) : \E i \in 0..(m - 1) : (k + i) % m = r
         /\ \A i \in 0..(m - 1) : (k + i) % m \in 0..(m - 1)
         /\ (k + 1) % m \in 0..(m - 1) /\ 1 % m \in 0..(m - 1)
<1>1. ASSUME NEW r \in 0..(m - 1) PROVE \E i \in 0..(m - 1) : (k + i) % m = r
  <2>1. CASE r >= k
    <3>1. (k + (r - k)) % m = r
      OBVIOUS
    <3>2. r - k \in 0..(m - 1)
      BY <2>1
    <3> QED
      BY <3>1, <3>2
  <2>2. CASE r < k
    <3>1. (k + (r - k + m)) % m = r
      OBVIOUS
    <3>2. r - k + m \in 0..(m - 1)
      BY <2>2
    <3> QED
      BY <3>1, <3>2
  <2> QED
    BY <2>1, <2>2
<1>2. \A i \in 0..(m - 1) : (k + i) % m \in 0..(m - 1)
  OBVIOUS
<1>3. (k + 1) % m \in 0..(m - 1) /\ 1 % m \in 0..(m - 1)
  OBVIOUS
<1> QED
  BY <1>1, <1>2, <1>3

\* allocThreadIndex finds a record when the table is not full.
LEMMA TakenIsFree ==
  ASSUME TypeR, TableInv, totalAliveThreads < MAX_ALIVE_THREADS
  PROVE  /\ Taken \in Records /\ available[Taken]
         /\ (Taken + 1) % MAX_ALIVE_THREADS \in Records /\ 1 % MAX_ALIVE_THREADS \in Records
<1> DEFINE After(i) == (threadIndex + i) % MAX_ALIVE_THREADS
           steps == {i \in Records : available[After(i)]}
<1>1. InUse # Records
  BY FiniteRecords DEF TableInv
<1>2. PICK r \in Records : available[r]
  BY <1>1 DEF InUse
<1>3. /\ \A i \in Records : After(i) \in Records
      /\ \E i \in Records : After(i) = r
  BY FiniteRecords, Around DEF TypeR, Records
<1>4. steps # {} /\ steps \subseteq Records
  BY <1>2, <1>3
<1>5. steps \subseteq Nat
  BY <1>4, FiniteRecords DEF Records
<1> DEFINE c == CHOOSE i \in steps : \A j \in steps : i <= j
<1>6. Taken = After(c)
  BY DEF Taken
<1>7. c \in steps
  <2> HIDE DEF steps
  <2>1. \E i \in steps : \A j \in steps : i <= j
    BY <1>4, <1>5, Least
  <2> QED
    BY <2>1
<1> HIDE DEF c
<1>8. c \in Records /\ available[After(c)]
  BY <1>7
<1>9. Taken \in Records /\ available[Taken]
  BY <1>3, <1>6, <1>8
<1>10. (Taken + 1) % MAX_ALIVE_THREADS \in Records /\ 1 % MAX_ALIVE_THREADS \in Records
  BY <1>9, FiniteRecords, Around DEF Records
<1> QED
  BY <1>9, <1>10

\* A thread is created, with a record of its own.
LEMMA SpawnRecords ==
  ASSUME TypeD, TypeR, PlaceInv, TableInv, NEW t \in Threads, Spawn(t)
  PROVE  TypeR' /\ PlaceInv' /\ TableInv'
<1> DEFINE r == Taken
           b == born + 1
<1>1. /\ pc[t] = "calloc" /\ pc' = [pc EXCEPT ![t] = "cbarrier", ![b] = "begin"] /\ list' = nodeInit(list, r)
      /\ available' = [available EXCEPT ![r] = FALSE] /\ totalAliveThreads' = totalAliveThreads + 1
      /\ threadIndex' = (r + 1) % MAX_ALIVE_THREADS /\ stack' = [stack EXCEPT ![b] = <<App>>]
      /\ born' = b /\ current' = [current EXCEPT ![b] = r] /\ writer' = writer
  BY DEF Spawn, Creating, allocThreadIndex, lock
<1>2. r \in Records /\ available[r] /\ (r + 1) % MAX_ALIVE_THREADS \in Records
  BY TakenIsFree DEF Spawn
<1> HIDE DEF r
<1>3. t \in Coming /\ t \in Alive /\ writer = t
  BY <1>1 DEF PlaceInv, Coming, Writing
<1>4. b \in Threads /\ born \in Nat
  <2>1. born \in Nat /\ born >= 1 /\ NThreads \in Nat
    BY Finite DEF TypeR, Threads
  <2>2. Cardinality(Coming) # 0 /\ Cardinality(Coming) \in Nat
    BY <1>3, Finite, FS_EmptySet
  <2> QED
    BY <2>1, <2>2 DEF PlaceInv, Threads
<1>5. b \notin Alive /\ b # t /\ pc[b] \in {"runs", "ended"}
  <2>1. ~(b <= born)
    BY <1>4
  <2> QED
    BY <1>3, <1>4, <2>1 DEF PlaceInv
<1> HIDE DEF b
<1>6. /\ pc'[t] = "cbarrier" /\ pc'[b] = "begin"
      /\ \A u \in Threads \ {t, b} : pc'[u] = pc[u] /\ pc[u] \notin Writing
  BY <1>1, <1>3, <1>4, <1>5 DEF TypeD, PlaceInv
<1>7. Alive' = Alive \cup {b}
  <2>1. stack'[b] = <<App>> /\ \A u \in Threads \ {b} : stack'[u] = stack[u]
    BY <1>1, <1>4 DEF TypeD
  <2>2. stack'[b] # <<>>
    BY <2>1
  <2> QED
    BY <1>4, <2>1, <2>2 DEF Alive
<1>8. ~Between /\ Between'
  BY <1>1, <1>5, <1>6 DEF Between, Writing
<1>9. current'[b] = r /\ \A u \in Alive : u \in Threads /\ current'[u] = current[u]
  BY <1>1, <1>4, <1>5 DEF TypeR, Alive
<1>10. Newborn = {} /\ Newborn' = {r}
  BY <1>1, <1>8, <1>9 DEF Newborn, Between
<1>11. InUse' = InUse \cup {r} /\ r \notin InUse
  BY <1>1, <1>2 DEF InUse, TypeR
<1>12. OnList' = OnList
  BY <1>10, <1>11 DEF OnList
<1>13. list' \in Lists /\ IsRing(list', OnList)
  <2>1. r \in Nodes \ OnList /\ OnList \in SUBSET Nodes
    BY <1>2, <1>10, <1>11, AnchorIsNone DEF OnList, InUse, Nodes
  <2> QED
    BY <1>1, <2>1, RingInit DEF TypeR, TableInv
<1>14. totalAliveThreads' = Cardinality(InUse') /\ totalAliveThreads' \in Nat
  <2>1. Cardinality(InUse') = Cardinality(InUse) + 1
    BY <1>11, FiniteRecords, FS_AddElement
  <2> QED
    BY <1>1, <2>1, FiniteRecords DEF TableInv
<1>15. TypeR'
  <2>1. available' \in [Records -> BOOLEAN] /\ current' \in [Threads -> Records] /\ threadIndex' \in Records
    BY <1>1, <1>2 DEF TypeR
  <2> QED
    BY <1>1, <1>4, <1>13, <1>14, <2>1 DEF TypeR
<1>16. PlaceInv'
  <2>1. ASSUME NEW u \in Threads
        PROVE  /\ pc'[u] \notin {"runs", "ended"} => u \in Alive'
               /\ pc'[u] \in Writing => writer' = u
               /\ u \in Alive' => u <= born'
    <3>0. u \in Nat /\ born \in Nat /\ born' = born + 1
      BY <1>1, <1>4, Finite DEF Threads, b
    <3>1. CASE u = t
      <4>1. t <= born
        BY <1>3 DEF PlaceInv
      <4> QED
        BY <1>1, <1>3, <1>6, <1>7, <3>0, <3>1, <4>1
    <3>2. CASE u = b
      <4>1. pc'[u] = "begin" /\ u \in Alive' /\ born' = u
        BY <1>1, <1>6, <1>7, <3>2
      <4>2. "begin" \notin Writing
        BY DEF Writing
      <4> QED
        BY <3>0, <4>1, <4>2
    <3>3. CASE u # t /\ u # b
      <4>1. pc'[u] = pc[u] /\ pc[u] \notin Writing /\ (u \in Alive' <=> u \in Alive)
        BY <1>6, <1>7, <3>3
      <4>2. u \in Alive => u <= born
        BY DEF PlaceInv
      <4> QED
        BY <3>0, <4>1, <4>2 DEF PlaceInv
    <3> QED
      BY <3>1, <3>2, <3>3
  <2>2. born' + Cardinality(Coming') <= NThreads
    <3>1. Coming' = Coming \ {t}
      BY <1>5, <1>6 DEF Coming
    <3>2. Cardinality(Coming') = Cardinality(Coming) - 1
      BY <1>3, <3>1, Finite, FS_RemoveElement
    <3> QED
      BY <1>1, <1>4, <3>2, Finite DEF PlaceInv, b
  <2> QED
    BY <2>1, <2>2 DEF PlaceInv
<1>17. \A u \in Alive' : current'[u] \in InUse'
  BY <1>7, <1>9, <1>11 DEF TableInv
<1>18. \A u, v \in Alive' : current'[u] = current'[v] => u = v
  BY <1>7, <1>9, <1>11 DEF TableInv
<1>19. Between' => current'[born'] \in InUse'
  BY <1>1, <1>9, <1>11
<1>20. TableInv'
  BY <1>12, <1>13, <1>14, <1>17, <1>18, <1>19 DEF TableInv
<1> QED
  BY <1>15, <1>16, <1>20

\* fork in the child: a new table, with the caller in record 0.
LEMMA ChildRecords ==
  ASSUME TypeD, TypeR, PlaceInv, TableInv, NEW t \in Threads, Child(t)
  PROVE  TypeR' /\ PlaceInv' /\ TableInv'
<1>1. /\ pc[t] = "runs" /\ stack[t] # <<>>
      /\ list' = Fresh(list) /\ available' = [r \in Records |-> r # 0] /\ totalAliveThreads' = 1
      /\ threadIndex' = 1 % MAX_ALIVE_THREADS /\ writer' = Nobody /\ current' = [current EXCEPT ![t] = 0]
      /\ stack' = [u \in Threads |-> IF u = t THEN stack[t] ELSE <<>>]
      /\ pc' = [u \in Threads |-> IF u = t THEN pc[t] ELSE "ended"] /\ born' = born
  BY DEF Child, Fork, Runs
<1>2. /\ Alive' = {t} /\ t \in Alive /\ current'[t] = 0 /\ ~Between' /\ Newborn' = {} /\ Coming' = {}
      /\ \A u \in Threads : pc'[u] \in {"runs", "ended"}
  <2>1. \A u \in Threads : pc'[u] \in {"runs", "ended"} /\ (stack'[u] # <<>> <=> u = t)
    BY <1>1
  <2>2. ~Between' /\ Coming' = {}
    BY <2>1 DEF Between, Coming
  <2> QED
    BY <1>1, <2>1, <2>2 DEF Alive, Newborn, Between, TypeR
<1>3. InUse' = {0} /\ OnList' = {0, Anchor}
  <2>1. InUse' = {0}
    BY <1>1, AnchorIsNone DEF InUse
  <2> QED
    BY <1>2, <2>1 DEF OnList
<1>4. list' \in Lists /\ IsRing(list', OnList')
  BY <1>1, <1>3, RingFresh DEF TypeR
<1>5. TypeR'
  <2>1. 1 % MAX_ALIVE_THREADS \in Records
    BY FiniteRecords, Around DEF Records, TypeR
  <2> QED
    BY <1>1, <1>4, <2>1, AnchorIsNone DEF TypeR
<1>6. PlaceInv'
  <2>1. Cardinality(Coming') = 0
    BY <1>2, FS_EmptySet
  <2>2. t <= born /\ born \in Nat /\ born <= NThreads
    BY <1>2, Finite DEF PlaceInv, TypeR, Threads
  <2> QED
    BY <1>1, <1>2, <2>1, <2>2 DEF PlaceInv, Writing
<1>7. TableInv'
  <2>1. Cardinality(InUse') = 1
    BY <1>3, FS_Singleton
  <2> QED
    BY <1>1, <1>2, <1>3, <1>4, <2>1 DEF TableInv
<1> QED
  BY <1>5, <1>6, <1>7

\* The table of a program that begins.
LEMMA RecordsInit == Init => RecordsInv
<1> SUFFICES ASSUME Init PROVE TypeR /\ PlaceInv /\ TableInv
  BY DEF RecordsInv
<1> DEFINE l == [next |-> [n \in Nodes |-> n], prev |-> [n \in Nodes |-> n]]
<1>1. /\ list = Fresh(l) /\ available = [r \in Records |-> r # 0] /\ totalAliveThreads = 1
      /\ threadIndex = 1 % MAX_ALIVE_THREADS /\ writer = Nobody /\ current = [u \in Threads |-> 0]
      /\ pc = [u \in Threads |-> "runs"] /\ born = 1
      /\ stack = [u \in Threads |-> IF u = Main THEN <<App>> ELSE <<>>]
  BY DEF Init
<1>2. Alive = {Main} /\ ~Between /\ Newborn = {} /\ Coming = {} /\ Main = 1
  <2>1. \A u \in Threads : pc[u] = "runs" /\ (stack[u] # <<>> <=> u = Main)
    BY <1>1
  <2> QED
    BY <2>1, Finite DEF Alive, Between, Newborn, Coming, Main
<1>3. InUse = {0} /\ OnList = {0, Anchor}
  <2>1. InUse = {0}
    BY <1>1, AnchorIsNone DEF InUse
  <2> QED
    BY <1>2, <2>1 DEF OnList
<1>4. list \in Lists /\ IsRing(list, OnList)
  <2>1. l \in Lists
    BY DEF Lists
  <2> HIDE DEF l
  <2> QED
    BY <1>1, <1>3, <2>1, RingFresh
<1>5. TypeR
  <2>1. 1 % MAX_ALIVE_THREADS \in Records
    <3>1. 0 \in 0..(MAX_ALIVE_THREADS - 1)
      BY FiniteRecords
    <3> QED
      BY <3>1, FiniteRecords, Around DEF Records
  <2> QED
    BY <1>1, <1>2, <1>4, <2>1, AnchorIsNone, Finite DEF TypeR
<1>6. PlaceInv
  <2>1. Cardinality(Coming) = 0
    BY <1>2, FS_EmptySet
  <2> QED
    BY <1>1, <1>2, <2>1, Finite DEF PlaceInv, Writing
<1>7. TableInv
  <2>1. totalAliveThreads = Cardinality(InUse)
    BY <1>1, <1>3, FS_Singleton
  <2>2. \A u \in Alive : u = Main /\ current[u] = 0
    BY <1>1, <1>2, Finite
  <2> QED
    BY <1>2, <1>3, <1>4, <2>1, <2>2 DEF TableInv
<1> QED
  BY <1>5, <1>6, <1>7

\* Every step keeps the table right.
LEMMA RecordsNext == TypeD /\ RecordsInv /\ [Next]_vars => RecordsInv'
<1> SUFFICES ASSUME TypeD, RecordsInv, [Next]_vars, state' = "runs" PROVE TypeR' /\ PlaceInv' /\ TableInv'
  BY DEF RecordsInv
<1> USE DEF Goto, Set
<1>s. state = "runs"
  <2>1. CASE UNCHANGED vars
    BY <2>1 DEF vars, history
  <2>2. ASSUME NEW t \in Threads, CondDisable(t) \/ Install(t) \/ InstallReads(t) \/ Handler(t) \/ Create(t)
        PROVE  state = "runs"
    BY <2>2 DEF CondDisable, Install, InstallReads, Handler, Create, Runs
  <2>3. ASSUME NEW t \in Threads, Finish(t) \/ Cancelled(t) \/ Parent(t) \/ Child(t) PROVE state = "runs"
    BY <2>3 DEF Finish, Cancelled, Parent, Child, Fork, Runs
  <2>4. ASSUME NEW t \in Threads, CondEnable(t) \/ InstallRead(t) \/ Installed(t) \/ HandlerReturns(t)
        PROVE  state = "runs"
    BY <2>4 DEF CondEnable, InstallRead, Installed, HandlerReturns, Runs
  <2>5. ASSUME NEW t \in Threads, LockCreate(t) \/ NoRecord(t) \/ Spawn(t) \/ SpawnFails(t) \/ LockExit(t)
        PROVE  state = "runs"
    BY <2>5 DEF LockCreate, NoRecord, Spawn, SpawnFails, LockExit, WriteLock, Creating
  <2>6. ASSUME NEW t \in Threads,
               \/ Begin(t) \/ (\E c \in Threads : Meet(t, c)) \/ Insert(t) \/ CreateReturns(t) \/ Enable(t)
               \/ Exit(t)
        PROVE  state = "runs"
    BY <2>6 DEF Begin, Meet, Insert, CreateReturns, Enable, Exit
  <2> QED
    BY <2>1, <2>2, <2>3, <2>4, <2>5, <2>6 DEF Next, Step
<1>i. TypeR /\ PlaceInv /\ TableInv
  BY <1>s DEF RecordsInv
<1>0. CASE UNCHANGED vars
  <2>1. /\ UNCHANGED <<list, available, totalAliveThreads, threadIndex, writer, current, born>>
        /\ pc' = pc /\ stack' = stack
    BY <1>0 DEF vars, table, lock, history
  <2>2. Alive' = Alive /\ Between' = Between /\ Coming' = Coming
    BY <2>1 DEF Alive, Between, Coming
  <2>3. PlaceInv'
    BY <1>i, <2>1, <2>2 DEF PlaceInv
  <2>4. writer' \in Threads \cup {Nobody}
    BY <1>i, <2>1 DEF TypeR
  <2> QED
    BY <1>i, <2>1, <2>2, <2>3, <2>4, Calm
<1>1. ASSUME NEW t \in Threads,
             \/ CondDisable(t) \/ CondEnable(t) \/ Install(t) \/ InstallReads(t) \/ InstallRead(t) \/ Installed(t)
             \/ Handler(t) \/ HandlerReturns(t) \/ Parent(t)
      PROVE  TypeR' /\ PlaceInv' /\ TableInv'
  <2>1. /\ t \in Alive /\ pc[t] = "runs" /\ pc' = pc /\ UNCHANGED table /\ current' = current
        /\ born' = born /\ writer' = writer
    BY <1>1 DEF CondDisable, CondEnable, Install, InstallReads, InstallRead, Installed, Handler, HandlerReturns,
                Parent, Fork, Runs, Alive, lock, history
  <2>2. \A u \in Threads \ {t} : stack'[u] = stack[u]
    BY <1>1 DEF CondDisable, CondEnable, Install, InstallReads, InstallRead, Installed, Handler, HandlerReturns,
                Parent, Enter, Leave, TypeD
  <2> QED
    BY <1>i, <2>1, <2>2, RunsOn
<1>2. ASSUME NEW t \in Threads, LockCreate(t) \/ LockExit(t) PROVE TypeR' /\ PlaceInv' /\ TableInv'
  <2> DEFINE p == IF LockCreate(t) THEN "calloc" ELSE "xremove"
  <2>1. /\ t \in Alive /\ stack' = stack /\ UNCHANGED table /\ current' = current /\ born' = born
        /\ writer = Nobody /\ writer' = t
    BY <1>2 DEF LockCreate, LockExit, WriteLock, Alive, history
  <2>2. CASE LockCreate(t)
    <3>1. pc' = [pc EXCEPT ![t] = "calloc"] /\ pc[t] = "cwlock" /\ t \in Coming
      BY <2>2 DEF LockCreate, WriteLock, Coming
    <3> QED
      BY <1>i, <2>1, <3>1, GoesOn DEF Alive
  <2>3. CASE LockExit(t)
    <3>1. pc' = [pc EXCEPT ![t] = "xremove"] /\ pc[t] = "xwlock"
      BY <2>3 DEF LockExit, WriteLock
    <3> QED
      BY <1>i, <2>1, <3>1, GoesOn DEF Alive
  <2> QED
    BY <1>2, <2>2, <2>3
<1>3. ASSUME NEW t \in Threads, Create(t) PROVE TypeR' /\ PlaceInv' /\ TableInv'
  <2>1. /\ t \in Alive /\ UNCHANGED table /\ current' = current /\ born' = born /\ writer' = writer
        /\ pc[t] = "runs" /\ pc' = [pc EXCEPT ![t] = "cwlock"] /\ born + Cardinality(Coming) < NThreads
    BY <1>3 DEF Create, Runs, Alive, Coming, lock, history
  <2>2. \A u \in Threads \ {t} : stack'[u] = stack[u]
    BY <1>3 DEF Create, Enter, TypeD
  <2>3. stack'[t] # <<>>
    <3>1. stack[t] \in Seq(Frame)
      BY DEF TypeD
    <3>2. stack'[t] = Append(stack[t], [fn |-> "create", was |-> watching[t]])
      BY <1>3 DEF Create, Enter, TypeD
    <3> QED
      BY <3>1, <3>2
  <2>4. /\ pc[t] \in {"cbarrier", "cinsert"} <=> "cwlock" \in {"cbarrier", "cinsert"}
        /\ "cwlock" \in {"runs", "ended"} \/ stack'[t] # <<>>
        /\ writer' = writer \/ (writer' = t /\ writer = Nobody)
        /\ "cwlock" \in Writing => writer' = t
        /\ "cwlock" \in {"cwlock", "calloc"} => t \in Coming \/ born + Cardinality(Coming) < NThreads
    BY <2>1, <2>3 DEF Writing
  <2> QED
    BY <1>i, <2>1, <2>2, <2>3, <2>4, GoesOn
<1>4. ASSUME NEW t \in Threads, Begin(t) \/ Enable(t) \/ Finish(t) \/ CreateReturns(t) \/ Cancelled(t)
      PROVE  TypeR' /\ PlaceInv' /\ TableInv'
  <2>1. /\ UNCHANGED table /\ current' = current /\ born' = born /\ writer' = writer
        /\ pc[t] \notin {"cbarrier", "cinsert"} /\ t \in Alive
    BY <1>4, <1>i DEF Begin, Enable, Finish, CreateReturns, Cancelled, Runs, lock, history, Alive, PlaceInv
  <2>2. \A u \in Threads \ {t} : stack'[u] = stack[u]
    BY <1>4 DEF Begin, Enable, Finish, CreateReturns, Cancelled, Leave, TypeD
  <2>3. CASE Begin(t) \/ Finish(t)
    <3>1. PICK p \in {"barrier", "xwlock"} : pc' = [pc EXCEPT ![t] = p]
      BY <2>3 DEF Begin, Finish
    <3>2. stack'[t] # <<>>
      BY <2>1, <2>3 DEF Begin, Finish, Alive
    <3>3. /\ pc[t] \in {"cbarrier", "cinsert"} <=> p \in {"cbarrier", "cinsert"}
          /\ p \in {"runs", "ended"} \/ stack'[t] # <<>>
          /\ writer' = writer \/ (writer' = t /\ writer = Nobody)
          /\ p \in Writing => writer' = t
          /\ p \in {"cwlock", "calloc"} => t \in Coming \/ born + Cardinality(Coming) < NThreads
      BY <2>1, <3>2 DEF Writing
    <3> QED
      BY <1>i, <2>1, <2>2, <3>1, <3>2, <3>3, GoesOn
  <2>4. CASE Enable(t) \/ CreateReturns(t) \/ Cancelled(t)
    <3>1. PICK p \in {"runs", "ended"} : pc' = [pc EXCEPT ![t] = p]
      BY <2>4 DEF Enable, CreateReturns, Cancelled
    <3>2. /\ pc[t] \in {"cbarrier", "cinsert"} <=> p \in {"cbarrier", "cinsert"}
          /\ p \in {"runs", "ended"} \/ stack'[t] # <<>>
          /\ writer' = writer \/ (writer' = t /\ writer = Nobody)
          /\ p \in Writing => writer' = t
          /\ p \in {"cwlock", "calloc"} => t \in Coming \/ born + Cardinality(Coming) < NThreads
      BY <2>1 DEF Writing
    <3> QED
      BY <1>i, <2>1, <2>2, <3>1, <3>2, GoesOn
  <2> QED
    BY <1>4, <2>3, <2>4
<1>5. ASSUME NEW t \in Threads, NoRecord(t) \/ SpawnFails(t) PROVE FALSE
  BY <1>5 DEF NoRecord, SpawnFails
<1>6. ASSUME NEW t \in Threads, NEW c \in Threads, Meet(t, c) PROVE TypeR' /\ PlaceInv' /\ TableInv'
  BY <1>i, <1>6, MeetRecords
<1>7. ASSUME NEW t \in Threads, Insert(t) PROVE TypeR' /\ PlaceInv' /\ TableInv'
  BY <1>i, <1>7, InsertRecords
<1>8. ASSUME NEW t \in Threads, Exit(t) PROVE TypeR' /\ PlaceInv' /\ TableInv'
  BY <1>i, <1>8, ExitRecords
<1>9. ASSUME NEW t \in Threads, Spawn(t) PROVE TypeR' /\ PlaceInv' /\ TableInv'
  BY <1>i, <1>9, SpawnRecords
<1>10. ASSUME NEW t \in Threads, Child(t) PROVE TypeR' /\ PlaceInv' /\ TableInv'
  BY <1>i, <1>10, ChildRecords
<1> QED
  BY <1>0, <1>1, <1>2, <1>3, <1>4, <1>5, <1>6, <1>7, <1>8, <1>9, <1>10 DEF Next, Step

(* Table, list and count agree, and each thread has a record of its own,   *)
(* with any number of threads and records, whatever the order of creations *)
(* and exits, failed creations and forks (allocThreadIndex, threadExit,    *)
(* listInsertTail, listRemoveNode, reInitializeAtRuntime).                 *)
THEOREM RecordsAlwaysAgree == Spec => []RecordsAgree
<1>1. RecordsInv => RecordsAgree
  BY DEF RecordsInv, RecordsAgree, TableInv, IsRing, Ring, InUse, OnList, Alive
<1> QED
  BY DetectsInit, DetectsNext, RecordsInit, RecordsNext, <1>1, PTL DEF Spec

=============================================================================
