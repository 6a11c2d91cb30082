------------------------------ MODULE TaskPool ------------------------------
(***************************************************************************)
(* What a client of wp_thread_pool.c relies on, without threads, counters  *)
(* or locks: a bounded first-come-first-run queue in front of a bounded    *)
(* number of servers.  A task is handed over at most once, is started at   *)
(* most once and in its turn, and is never taken back.                     *)
(***************************************************************************)
EXTENDS Integers, Sequences, FiniteSets

CONSTANTS Tasks, MaxTasks, MaxThreads

VARIABLES
  fresh,    \* tasks never handed over
  waiting,  \* tasks handed over and not started, in order
  active,   \* tasks being executed
  done      \* tasks whose execution is over

poolState == <<fresh, waiting, active, done>>

Init ==
  /\ fresh = Tasks
  /\ waiting = <<>> /\ active = {} /\ done = {}

Submit(t) ==
  /\ t \in fresh
  /\ Len(waiting) < MaxTasks
  /\ fresh' = fresh \ {t}
  /\ waiting' = Append(waiting, t)
  /\ UNCHANGED <<active, done>>

Start ==
  /\ waiting # <<>>
  /\ Cardinality(active) < MaxThreads
  /\ waiting' = Tail(waiting)
  /\ active' = active \cup {Head(waiting)}
  /\ UNCHANGED <<fresh, done>>

Finish(t) ==
  /\ t \in active
  /\ active' = active \ {t}
  /\ done' = done \cup {t}
  /\ UNCHANGED <<fresh, waiting>>

Next == Start \/ \E t \in Tasks : Submit(t) \/ Finish(t)

Spec == Init /\ [][Next]_poolState
=============================================================================
