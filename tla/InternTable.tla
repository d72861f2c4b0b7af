------------------------------ MODULE InternTable ------------------------------
(***************************************************************************)
(* What the call-stack map promises to the threads that allocate: every    *)
(* call stack gets one record, the first time somebody asks for it, and    *)
(* whoever asks for it later is given the same record; and what has been   *)
(* learned of the call stack, in an earlier run or in this one, stays in   *)
(* it.                                                                     *)
(***************************************************************************)
CONSTANTS Threads, Keys, Entries, NoKey, NoEntry

VARIABLES
  known,    \* the record of each call stack that has one
  asked,    \* per thread: the call stack it waits for
  answer,   \* per thread: the record it was given last
  learned   \* the records that hold more than their initial values

vars == <<known, asked, answer, learned>>

Init ==
  /\ known = [k \in {} |-> NoEntry]
  /\ asked = [t \in Threads |-> NoKey]
  /\ answer = [t \in Threads |-> NoEntry]
  /\ learned = {}

\* Before anybody asks, a line of the history file gives k a record that nobody else has, with
\* what an earlier run has learned.
Preset(k, e) ==
  /\ \A t \in Threads : asked[t] = NoKey /\ answer[t] = NoEntry
  /\ k \in Keys \ DOMAIN known
  /\ \A j \in DOMAIN known : known[j] # e
  /\ known' = [j \in DOMAIN known \cup {k} |-> IF j = k THEN e ELSE known[j]]
  /\ learned' = learned \cup {e}
  /\ UNCHANGED <<asked, answer>>

\* findOrAdd is called.
Ask(t, k) ==
  /\ asked[t] = NoKey
  /\ asked' = [asked EXCEPT ![t] = k]
  /\ UNCHANGED <<known, answer, learned>>

\* A record nobody else has becomes that of k, because a thread asked for k.
Add(t, e) ==
  LET k == asked[t] IN
  /\ k \in Keys \ DOMAIN known
  /\ \A j \in DOMAIN known : known[j] # e
  /\ known' = [j \in DOMAIN known \cup {k} |-> IF j = k THEN e ELSE known[j]]
  /\ UNCHANGED <<asked, answer, learned>>

\* The call returns, once the call stack has its record.
Answer(t) ==
  /\ asked[t] \in DOMAIN known
  /\ asked' = [asked EXCEPT ![t] = NoKey]
  /\ answer' = [answer EXCEPT ![t] = known[asked[t]]]
  /\ UNCHANGED <<known, learned>>

\* Who was given a record writes into it.
Learn(t) ==
  /\ asked[t] = NoKey /\ answer[t] # NoEntry
  /\ learned' = learned \cup {answer[t]}
  /\ UNCHANGED <<known, asked, answer>>

Next ==
  \/ \E k \in Keys, e \in Entries : Preset(k, e)
  \/ \E t \in Threads :
       \/ \E k \in Keys : Ask(t, k)
       \/ \E e \in Entries : Add(t, e)
       \/ Answer(t)
       \/ Learn(t)

Spec == Init /\ [][Next]_vars

=============================================================================
