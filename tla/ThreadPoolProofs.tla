-------------------------- MODULE ThreadPoolProofs --------------------------
(***************************************************************************)
(* Proofs about ThreadPool, for every set of tasks and workers and every   *)
(* value of the bounds.  CoreInv (types, mutex, counters) is inductive by  *)
(* itself; the order of the tasks, the wakeups and the join loop are       *)
(* proved on top of it.                                                    *)
(***************************************************************************)
EXTENDS ThreadPool, FiniteSetTheorems, SequenceTheorems, TLAPS

-----------------------------------------------------------------------------
(* Counting the workers                                                    *)

\* Adding or removing one worker changes the size of a set of workers by one.
LEMMA Counting ==
  ASSUME PoolAssumption, NEW S \in SUBSET Workers, NEW w
  PROVE  /\ Cardinality(S) \in Nat
         /\ Cardinality(S \cup {w}) = IF w \in S THEN Cardinality(S) ELSE Cardinality(S) + 1
         /\ Cardinality(S \ {w}) = IF w \in S THEN Cardinality(S) - 1 ELSE Cardinality(S)
         /\ w \in S => Cardinality(S) > 0
<1>1. IsFiniteSet(S)
  BY FS_Subset DEF PoolAssumption
<1>2. Cardinality(S) \in Nat
  BY <1>1, FS_CardinalityType
<1>3. Cardinality(S \cup {w}) = IF w \in S THEN Cardinality(S) ELSE Cardinality(S) + 1
  BY <1>1, FS_AddElement
<1>4. Cardinality(S \ {w}) = IF w \in S THEN Cardinality(S) - 1 ELSE Cardinality(S)
  BY <1>1, FS_RemoveElement
<1>5. w \in S => Cardinality(S) > 0
  BY <1>1, <1>2, FS_EmptySet
<1> QED BY <1>2, <1>3, <1>4, <1>5

\* When an element enters or leaves a set of workers, its size follows.
LEMMA Resize ==
  ASSUME PoolAssumption, NEW S \in SUBSET Workers, NEW T, NEW w, NEW v, NEW P,
         v \in P => T = S \cup {w},
         v \notin P => T = S \ {w}
  PROVE  Cardinality(T) =
           Cardinality(S) + (IF v \in P THEN 1 ELSE 0) - (IF w \in S THEN 1 ELSE 0)
<1>1. /\ Cardinality(S) \in Nat
      /\ Cardinality(S \cup {w}) = IF w \in S THEN Cardinality(S) ELSE Cardinality(S) + 1
      /\ Cardinality(S \ {w}) = IF w \in S THEN Cardinality(S) - 1 ELSE Cardinality(S)
  BY Counting
<1>2. CASE v \in P
  <2>1. Cardinality(T) = IF w \in S THEN Cardinality(S) ELSE Cardinality(S) + 1
    BY <1>1, <1>2, Zenon
  <2> QED BY <1>1, <1>2, <2>1
<1>3. CASE v \notin P
  <2>1. Cardinality(T) = IF w \in S THEN Cardinality(S) - 1 ELSE Cardinality(S)
    BY <1>1, <1>3, Zenon
  <2> QED BY <1>1, <1>3, <2>1
<1> QED BY <1>2, <1>3

\* When one worker moves to pc v, the number of workers whose pc is in P changes
\* by what that worker contributes.
LEMMA MoveCount ==
  ASSUME PoolAssumption, pc \in [Workers -> WorkerPC],
         NEW w \in Workers, NEW v, pc' = [pc EXCEPT ![w] = v],
         NEW CONSTANT P
  PROVE  Cardinality({x \in Workers : pc'[x] \in P}) =
           Cardinality({x \in Workers : pc[x] \in P})
             + (IF v \in P THEN 1 ELSE 0) - (IF pc[w] \in P THEN 1 ELSE 0)
<1> DEFINE S == {x \in Workers : pc[x] \in P}
           T == {x \in Workers : pc'[x] \in P}
<1>1. S \in SUBSET Workers /\ (w \in S <=> pc[w] \in P)
  OBVIOUS
<1>2. (v \in P => T = S \cup {w}) /\ (v \notin P => T = S \ {w})
  OBVIOUS
<1> HIDE DEF S, T
<1>3. Cardinality(T) =
           Cardinality(S) + (IF v \in P THEN 1 ELSE 0) - (IF w \in S THEN 1 ELSE 0)
  BY <1>1, <1>2, Resize
<1> QED BY <1>1, <1>3 DEF S, T

\* The same for the three sets of workers the counters speak of.
LEMMA Move ==
  ASSUME PoolAssumption, pc \in [Workers -> WorkerPC],
         NEW w \in Workers, NEW v \in WorkerPC, pc' = [pc EXCEPT ![w] = v]
  PROVE  /\ pc' \in [Workers -> WorkerPC]
         /\ Cardinality(Busy)' = Cardinality(Busy)
              + (IF v \in Running THEN 1 ELSE 0) - (IF pc[w] \in Running THEN 1 ELSE 0)
         /\ Cardinality(Members)' = Cardinality(Members)
              + (IF v \in {"none", "released"} THEN 0 ELSE 1)
              - (IF pc[w] \in {"none", "released"} THEN 0 ELSE 1)
         /\ Cardinality(Coming)' = Cardinality(Coming)
              + (IF v \in {"lock", "woken", "check"} THEN 1 ELSE 0)
              - (IF pc[w] \in {"lock", "woken", "check"} THEN 1 ELSE 0)
<1>1. pc' \in [Workers -> WorkerPC]
  OBVIOUS
<1>2. Cardinality(Busy)' = Cardinality(Busy)
              + (IF v \in Running THEN 1 ELSE 0) - (IF pc[w] \in Running THEN 1 ELSE 0)
  <2> DEFINE P == Running
  <2>1. Cardinality({x \in Workers : pc'[x] \in P}) =
           Cardinality({x \in Workers : pc[x] \in P})
             + (IF v \in P THEN 1 ELSE 0) - (IF pc[w] \in P THEN 1 ELSE 0)
    <3> HIDE DEF P
    <3> QED BY ZenonT(60), MoveCount
  <2> QED BY <2>1 DEF Busy
<1>3. Cardinality(Coming)' = Cardinality(Coming)
              + (IF v \in {"lock", "woken", "check"} THEN 1 ELSE 0)
              - (IF pc[w] \in {"lock", "woken", "check"} THEN 1 ELSE 0)
  <2> DEFINE P == {"lock", "woken", "check"}
  <2>1. Cardinality({x \in Workers : pc'[x] \in P}) =
           Cardinality({x \in Workers : pc[x] \in P})
             + (IF v \in P THEN 1 ELSE 0) - (IF pc[w] \in P THEN 1 ELSE 0)
    <3> HIDE DEF P
    <3> QED BY ZenonT(60), MoveCount
  <2> QED BY <2>1 DEF Coming
<1>4. Cardinality(Members)' = Cardinality(Members)
              + (IF v \in {"none", "released"} THEN 0 ELSE 1)
              - (IF pc[w] \in {"none", "released"} THEN 0 ELSE 1)
  <2> DEFINE P == WorkerPC \ {"none", "released"}
  <2>1. /\ Members = {x \in Workers : pc[x] \in P}
        /\ Members' = {x \in Workers : pc'[x] \in P}
    BY <1>1 DEF Members
  <2>2. Cardinality({x \in Workers : pc'[x] \in P}) =
           Cardinality({x \in Workers : pc[x] \in P})
             + (IF v \in P THEN 1 ELSE 0) - (IF pc[w] \in P THEN 1 ELSE 0)
    <3> HIDE DEF P
    <3> QED BY MoveCount
  <2>3. pc[w] \in WorkerPC
    OBVIOUS
  <2>4. (v \in P <=> v \notin {"none", "released"})
        /\ (pc[w] \in P <=> pc[w] \notin {"none", "released"})
    BY <2>3
  <2> QED BY <2>1, <2>2, <2>4
<1> QED BY <1>1, <1>2, <1>3, <1>4

-----------------------------------------------------------------------------
(* CoreInv: types, mutex, counters                                         *)

LEMMA CoreInit == PoolAssumption /\ Init => CoreInv
<1> SUFFICES ASSUME PoolAssumption, Init PROVE CoreInv
  OBVIOUS
<1>1. Busy = {} /\ Members = {} /\ Released = {}
  BY DEF Init, Busy, Members, Released, Running, Leaving
<1>2. Cardinality(Busy) = 0 /\ Cardinality(Members) = 0
  BY <1>1, FS_EmptySet
<1>3. TypeOK
  <2>1. <<>> \in Seq(Tasks)
    BY EmptySeq
  <2>2. pc \in [Workers -> WorkerPC] /\ task \in [Workers -> Tasks \cup {NoTask}]
        /\ tid \in [Slots -> Workers \cup {Nobody}]
    BY DEF Init, WorkerPC
  <2>3. num \in 0 .. MaxTasks /\ total \in 0 .. MaxThreads
    BY DEF Init, PoolAssumption
  <2>4. /\ mutex = Nobody /\ queue = <<>> /\ accepted = <<>> /\ started = <<>>
        /\ busy = 0 /\ shutdown = FALSE /\ mpc = "init" /\ todo = Tasks /\ arg = NoTask
        /\ i = 0 /\ failures = 0 /\ phantom = 0 /\ spurious = 0
    BY DEF Init
  <2> QED BY <2>1, <2>2, <2>3, <2>4 DEF TypeOK, MainPC
<1>4. MutexInv
  BY DEF Init, MutexInv, PoolAssumption
<1>5. Accounting /\ InitInv /\ ShutdownInv
  BY <1>1, <1>2 DEF Init, Accounting, InitInv, ShutdownInv, PoolAssumption
<1> QED BY <1>3, <1>4, <1>5 DEF CoreInv

\* total_num can be counted down when a worker leaves.
LEMMA LeaverIsCounted ==
  ASSUME PoolAssumption, CoreInv, NEW w \in Workers, pc[w] \in Leaving
  PROVE  mpc # "init" /\ total > 0
<1>1. mpc # "init"
  BY DEF CoreInv, InitInv, Released
<1>2. Members \in SUBSET Workers /\ w \in Members
  BY DEF Members, Leaving
<1>3. Cardinality(Members) \in Nat /\ Cardinality(Members) > 0
  BY <1>2, Counting
<1> QED BY <1>1, <1>3 DEF CoreInv, Accounting, TypeOK

LEMMA TypeStep ==
  ASSUME PoolAssumption, CoreInv, [Next]_vars
  PROVE  TypeOK'
<1> USE DEF CoreInv, TypeOK, MainPC, poolVars, workerVars, mainVars, history
<1>1. CASE InitThread
  <2>1. pc' \in [Workers -> WorkerPC] /\ tid' \in [Slots -> Workers \cup {Nobody}]
    BY ZenonT(60), <1>1 DEF InitThread, Spawn, SpawnFails, WorkerPC
  <2>2. failures' \in Nat /\ phantom' \in Nat /\ i' \in Nat
    BY <1>1 DEF InitThread, SpawnFails, Fail
  <2> QED BY <1>1, <2>1, <2>2 DEF InitThread
<1>2. CASE InitDone
  BY <1>2 DEF InitDone
<1>3. CASE Call
  BY <1>3 DEF Call
<1>4. CASE CreateLock
  BY <1>4 DEF CreateLock
<1>5. CASE Refuse
  BY <1>5 DEF Refuse, Full, Fail
<1>6. CASE Enqueue
  <2> USE DEF Enqueue, MayGrow, NextSlot
  <2>1. arg \in Tasks
    BY <1>6
  <2>2. queue' \in Seq(Tasks) /\ accepted' \in Seq(Tasks)
    BY <1>6, <2>1 DEF Insert
  <2>3. num' \in 0 .. MaxTasks
    BY <1>6 DEF Full, PoolAssumption
  <2>4. pc' \in [Workers -> WorkerPC] /\ tid' \in [Slots -> Workers \cup {Nobody}]
    BY <1>6 DEF Spawn, SpawnFails, WorkerPC
  <2>5. failures' \in Nat /\ total' \in 0 .. MaxThreads
    BY <1>6 DEF SpawnFails, Fail, PoolAssumption
  <2> QED BY <1>6, <2>1, <2>2, <2>3, <2>4, <2>5
<1>7. CASE Signal
  BY <1>7 DEF Signal, Notify, WakeOne, WorkerPC
<1>8. CASE StopLock
  BY <1>8 DEF StopLock
<1>9. CASE Stop
  BY <1>9 DEF Stop, NotifyStop, WakeAll, WorkerPC
<1>10. CASE Join
  BY <1>10 DEF Join
<1>11. CASE JoinUnwritten
  BY <1>11 DEF JoinUnwritten
<1>12. CASE Destroy
  BY <1>12 DEF Destroy
<1>13. ASSUME NEW w \in Workers, LoopLock(w) \/ WokenLock(w) \/ SettleLock(w) \/ LeaveLock(w)
       PROVE  TypeOK'
  BY <1>13 DEF LoopLock, WokenLock, SettleLock, LeaveLock, Lock, WorkerPC, Running, Leaving
<1>14. ASSUME NEW w \in Workers, Wait(w) \/ SpuriousWake(w) \/ Quit(w) \/ Return(w)
       PROVE  TypeOK'
  <2>1. pc' \in [Workers -> WorkerPC]
    BY <1>14 DEF Wait, SpuriousWake, Quit, Return, WorkerPC, Running, Leaving, Gone
  <2>2. /\ mutex' \in {mutex, Nobody} /\ spurious' \in Nat
        /\ UNCHANGED <<poolVars, task, mainVars, accepted, started, failures, phantom>>
    BY <1>14 DEF Wait, SpuriousWake, Quit, Return
  <2> QED BY <2>1, <2>2
<1>15. ASSUME NEW w \in Workers, Take(w)
       PROVE  TypeOK'
  <2>1. queue # <<>> /\ Head(queue) \in Tasks /\ Tail(queue) \in Seq(Tasks)
    BY <1>15 DEF Take, Accounting
  <2>2. pc' \in [Workers -> WorkerPC]
    BY <1>15 DEF Take, WorkerPC, Running
  <2>3. /\ queue' \in Seq(Tasks) /\ started' \in Seq(Tasks)
        /\ task' \in [Workers -> Tasks \cup {NoTask}]
    BY <1>15, <2>1 DEF Take, Pop
  <2>4. num' \in 0 .. MaxTasks /\ busy' \in Nat /\ mutex' = Nobody
    BY <1>15 DEF Take
  <2>5. UNCHANGED <<total, shutdown, tid, mainVars, accepted, failures, phantom, spurious>>
    BY <1>15 DEF Take
  <2> QED BY <2>2, <2>3, <2>4, <2>5
<1>16. ASSUME NEW w \in Workers, Settle(w)
       PROVE  TypeOK'
  <2>1. Busy \in SUBSET Workers /\ w \in Busy
    BY <1>16 DEF Busy, Running, Settle
  <2>2. busy > 0
    BY <2>1, Counting DEF Accounting
  <2>3. pc' \in [Workers -> WorkerPC]
    BY <1>16 DEF Settle, WorkerPC, Leaving
  <2>4. busy' \in Nat /\ mutex' = Nobody
    BY <1>16, <2>2 DEF Settle
  <2>5. UNCHANGED <<queue, num, total, shutdown, tid, task, mainVars, history>>
    BY <1>16 DEF Settle
  <2> QED BY <2>3, <2>4, <2>5
<1>17. ASSUME NEW w \in Workers, Leave(w)
       PROVE  TypeOK'
  <2>1. total > 0
    BY <1>17, LeaverIsCounted DEF Leave, Leaving
  <2>2. pc' \in [Workers -> WorkerPC]
    BY <1>17 DEF Leave, WorkerPC, Gone
  <2> QED BY <1>17, <2>1, <2>2 DEF Leave, PoolAssumption
<1>18. CASE UNCHANGED vars
  BY <1>18 DEF vars
<1>19. CASE Terminated
  BY <1>19, <1>18 DEF Terminated
<1> QED
  BY <1>1, <1>2, <1>3, <1>4, <1>5, <1>6, <1>7, <1>8, <1>9, <1>10, <1>11, <1>12, <1>13,
     <1>14, <1>15, <1>16, <1>17, <1>18, <1>19 DEF Next, MainStep, WorkerStep

LEMMA MutexStep ==
  ASSUME PoolAssumption, CoreInv, [Next]_vars
  PROVE  MutexInv' /\ ShutdownInv'
<1> USE DEF CoreInv, TypeOK, MutexInv, ShutdownInv, PoolAssumption,
            poolVars, workerVars, mainVars, history
<1>1. CASE InitThread
  BY <1>1 DEF InitThread, Spawn, SpawnFails
<1>2. CASE InitDone
  BY <1>2 DEF InitDone
<1>3. CASE Call
  BY <1>3 DEF Call
<1>4. CASE CreateLock
  BY <1>4 DEF CreateLock
<1>5. CASE Refuse
  BY <1>5 DEF Refuse
<1>6. CASE Enqueue
  BY <1>6 DEF Enqueue, Spawn, SpawnFails
<1>7. CASE Signal
  BY <1>7 DEF Signal, Notify, WakeOne
<1>8. CASE StopLock
  BY <1>8 DEF StopLock
<1>9. CASE Stop
  BY <1>9 DEF Stop, NotifyStop, WakeAll
<1>10. CASE Join
  BY <1>10 DEF Join
<1>11. CASE JoinUnwritten
  BY <1>11 DEF JoinUnwritten
<1>12. CASE Destroy
  BY <1>12 DEF Destroy
<1>13. ASSUME NEW w \in Workers, LoopLock(w) \/ WokenLock(w) \/ SettleLock(w) \/ LeaveLock(w)
       PROVE  MutexInv' /\ ShutdownInv'
  BY <1>13 DEF LoopLock, WokenLock, SettleLock, LeaveLock, Lock
<1>14. ASSUME NEW w \in Workers, Wait(w) \/ SpuriousWake(w) \/ Quit(w) \/ Return(w)
       PROVE  MutexInv' /\ ShutdownInv'
  <2>1. CASE Wait(w)
    BY <2>1 DEF Wait
  <2>2. CASE SpuriousWake(w)
    BY <2>2 DEF SpuriousWake
  <2>3. CASE Quit(w)
    BY <2>3 DEF Quit
  <2>4. CASE Return(w)
    BY <2>4 DEF Return
  <2> QED BY <1>14, <2>1, <2>2, <2>3, <2>4
<1>15. ASSUME NEW w \in Workers, Take(w) \/ Settle(w) \/ Leave(w)
       PROVE  MutexInv' /\ ShutdownInv'
  <2>1. CASE Take(w)
    BY <2>1 DEF Take
  <2>2. CASE Settle(w)
    BY <2>2 DEF Settle
  <2>3. CASE Leave(w)
    BY <2>3 DEF Leave
  <2> QED BY <1>15, <2>1, <2>2, <2>3
<1>16. CASE UNCHANGED vars
  BY <1>16 DEF vars
<1>17. CASE Terminated
  BY <1>17, <1>16 DEF Terminated
<1> QED
  BY <1>1, <1>2, <1>3, <1>4, <1>5, <1>6, <1>7, <1>8, <1>9, <1>10, <1>11, <1>12, <1>13,
     <1>14, <1>15, <1>16, <1>17 DEF Next, MainStep, WorkerStep

\* While thread_pool_init runs no worker has had a task or is leaving.
LEMMA InitQuiet ==
  ASSUME PoolAssumption, CoreInv, mpc = "init", NEW w \in Workers
  PROVE  pc[w] \notin Running \cup Leaving \cup {"released"}
<1>1. Busy \in SUBSET Workers /\ (w \in Busy <=> pc[w] \in Running)
  BY DEF Busy
<1>2. Cardinality(Busy) = 0
  BY DEF CoreInv, Accounting, InitInv
<1>3. w \notin Busy
  <2>1. w \in Busy => Cardinality(Busy) > 0
    BY <1>1, Counting
  <2> QED BY <1>2, <2>1
<1> QED BY <1>1, <1>3 DEF CoreInv, InitInv, Released

\* A worker that moves between pcs of the same kind changes no count.
LEMMA SameKind ==
  ASSUME PoolAssumption, CoreInv, NEW w \in Workers, NEW v \in WorkerPC,
         pc' = [pc EXCEPT ![w] = v],
         v \in Running <=> pc[w] \in Running,
         v \in {"none", "released"} <=> pc[w] \in {"none", "released"},
         v \in Leaving \cup {"released"} <=> pc[w] \in Leaving \cup {"released"}
  PROVE  /\ Cardinality(Busy)' = Cardinality(Busy)
         /\ Cardinality(Members)' = Cardinality(Members)
         /\ Released' = Released
<1>1. pc \in [Workers -> WorkerPC]
  BY DEF CoreInv, TypeOK
<1>2. Cardinality(Busy) \in Nat /\ Cardinality(Members) \in Nat
  BY Counting DEF Busy, Members
<1>3. /\ Cardinality(Busy)' = Cardinality(Busy)
              + (IF v \in Running THEN 1 ELSE 0) - (IF pc[w] \in Running THEN 1 ELSE 0)
      /\ Cardinality(Members)' = Cardinality(Members)
              + (IF v \in {"none", "released"} THEN 0 ELSE 1)
              - (IF pc[w] \in {"none", "released"} THEN 0 ELSE 1)
  BY <1>1, Move
<1>4. Released' = Released
  BY <1>1 DEF Released
<1> QED BY <1>2, <1>3, <1>4

LEMMA CountStep ==
  ASSUME PoolAssumption, CoreInv, [Next]_vars
  PROVE  Accounting' /\ InitInv'
<1> USE DEF CoreInv, Accounting, InitInv, poolVars, workerVars, mainVars, history
<1>0. /\ pc \in [Workers -> WorkerPC] /\ num \in Nat /\ total \in Nat /\ busy \in Nat
      /\ i \in Nat /\ phantom \in Nat /\ queue \in Seq(Tasks)
      /\ Cardinality(Busy) \in Nat /\ Cardinality(Members) \in Nat
  <2>1. Cardinality(Busy) \in Nat /\ Cardinality(Members) \in Nat
    BY Counting DEF Busy, Members
  <2> QED BY <2>1 DEF TypeOK, PoolAssumption
<1>1. ASSUME UNCHANGED <<pc, queue, num, busy, total, i, phantom>>,
             mpc' = "init" => mpc = "init",
             mpc # "init" \/ mpc' = mpc \/ i >= total
      PROVE  Accounting' /\ InitInv'
  BY <1>0, <1>1 DEF Busy, Members, Released
<1>2. ASSUME NEW w \in Workers, NEW v \in WorkerPC, pc' = [pc EXCEPT ![w] = v],
             v \in Running <=> pc[w] \in Running,
             v \in {"none", "released"} <=> pc[w] \in {"none", "released"},
             v \in Leaving \cup {"released"} <=> pc[w] \in Leaving \cup {"released"},
             UNCHANGED <<queue, num, busy, total, i, phantom>>,
             mpc' = "init" <=> mpc = "init"
      PROVE  Accounting' /\ InitInv'
  <2>1. /\ Cardinality(Busy)' = Cardinality(Busy)
        /\ Cardinality(Members)' = Cardinality(Members)
        /\ Released' = Released
    BY <1>2, SameKind
  <2> QED BY <1>2, <2>1
\* A new thread: one more member.
<1>3. ASSUME NEW slot, Spawn(slot)
      PROVE  /\ Cardinality(Busy)' = Cardinality(Busy)
             /\ Cardinality(Members)' = Cardinality(Members) + 1
             /\ Released' = Released
  <2> PICK w \in Workers : pc[w] = "none" /\ pc' = [pc EXCEPT ![w] = "lock"]
    BY <1>3 DEF Spawn
  <2>1. "lock" \in WorkerPC
    BY DEF WorkerPC
  <2>2. /\ Cardinality(Busy)' = Cardinality(Busy)
              + (IF "lock" \in Running THEN 1 ELSE 0) - (IF pc[w] \in Running THEN 1 ELSE 0)
        /\ Cardinality(Members)' = Cardinality(Members)
              + (IF "lock" \in {"none", "released"} THEN 0 ELSE 1)
              - (IF pc[w] \in {"none", "released"} THEN 0 ELSE 1)
    BY <1>0, <2>1, Move
  <2>3. Released' = Released
    BY <1>0 DEF Released, Leaving
  <2> QED BY <1>0, <2>2, <2>3 DEF Running
<1>4. CASE InitThread
  <2>1. CASE Spawn(i) /\ UNCHANGED phantom
    BY <1>0, <1>3, <1>4, <2>1 DEF InitThread
  <2>2. CASE SpawnFails /\ phantom' = phantom + 1
    <3>1. UNCHANGED pc
      BY <2>2 DEF SpawnFails
    <3>2. Busy' = Busy /\ Members' = Members /\ Released' = Released
      BY <3>1 DEF Busy, Members, Released
    <3> QED BY <1>0, <1>4, <2>2, <3>2 DEF InitThread
  <2> QED BY <1>4, <2>1, <2>2 DEF InitThread
<1>5. CASE InitDone \/ Call \/ CreateLock \/ Refuse \/ StopLock \/ JoinUnwritten \/ Destroy
  BY <1>1, <1>5 DEF InitDone, Call, CreateLock, Refuse, StopLock, JoinUnwritten, Destroy
<1>6. CASE Enqueue
  <2>1. mpc # "init" /\ mpc' # "init"
    BY <1>6 DEF Enqueue
  <2>2. num' = Len(queue')
    BY <1>0, <1>6 DEF Enqueue, Insert, TypeOK
  <2>3. CASE Spawn(NextSlot) /\ total' = total + 1
    BY <1>0, <1>3, <1>6, <2>1, <2>2, <2>3 DEF Enqueue
  <2>4. CASE UNCHANGED <<total, pc>>
    <3>1. Busy' = Busy /\ Members' = Members
      BY <2>4 DEF Busy, Members
    <3> QED BY <1>0, <1>6, <2>1, <2>2, <2>4, <3>1 DEF Enqueue
  <2> QED BY <1>6, <2>3, <2>4 DEF Enqueue, SpawnFails
<1>7. CASE Signal
  <2>1. mpc # "init" /\ mpc' # "init" /\ UNCHANGED <<queue, num, busy, total, i, phantom>>
    BY <1>7 DEF Signal
  <2>2. CASE \E w \in Workers : pc[w] = "wait" /\ pc' = [pc EXCEPT ![w] = "woken"]
    BY <1>2, <2>1, <2>2 DEF WorkerPC, Running, Leaving
  <2>3. CASE UNCHANGED pc
    BY <1>1, <2>1, <2>3
  <2> QED BY <1>7, <2>2, <2>3 DEF Signal, Notify, WakeOne
<1>8. CASE Stop
  <2>1. mpc # "init" /\ mpc' # "init" /\ UNCHANGED <<queue, num, busy, total, phantom>>
    BY <1>8 DEF Stop
  <2>2. Busy' = Busy /\ Members' = Members
    BY <1>0, <1>8 DEF Stop, NotifyStop, WakeAll, Busy, Members, Running
  <2> QED BY <1>0, <2>1, <2>2
<1>9. CASE Join
  <2>1. mpc # "init" /\ mpc' # "init" /\ UNCHANGED <<pc, queue, num, busy, total, phantom>>
    BY <1>9 DEF Join
  <2>2. Busy' = Busy /\ Members' = Members
    BY <2>1 DEF Busy, Members
  <2> QED BY <1>0, <2>1, <2>2
<1>10. ASSUME NEW w \in Workers, LoopLock(w) \/ WokenLock(w) \/ SettleLock(w) \/ LeaveLock(w)
       PROVE  Accounting' /\ InitInv'
  BY <1>2, <1>10 DEF LoopLock, WokenLock, SettleLock, LeaveLock, Lock, WorkerPC, Running, Leaving
<1>11. ASSUME NEW w \in Workers, Wait(w) \/ SpuriousWake(w) \/ Quit(w) \/ Return(w)
       PROVE  Accounting' /\ InitInv'
  BY <1>2, <1>11
     DEF Wait, SpuriousWake, Quit, Return, WorkerPC, Running, Leaving, Gone
<1>12. ASSUME NEW w \in Workers, Take(w) \/ Settle(w) \/ Leave(w)
       PROVE  mpc # "init" /\ mpc' # "init"
  <2>1. mpc' = mpc
    BY <1>12 DEF Take, Settle, Leave
  <2>2. mpc # "init"
    BY <1>0, <1>12, InitQuiet DEF Take, Settle, Leave, Running, Leaving
  <2> QED BY <2>1, <2>2
<1>13. ASSUME NEW w \in Workers, Take(w)
       PROVE  Accounting' /\ InitInv'
  <2>1. "run" \in WorkerPC /\ pc[w] = "check" /\ pc' = [pc EXCEPT ![w] = "run"]
    BY <1>13 DEF Take, WorkerPC, Running
  <2>2. /\ Cardinality(Busy)' = Cardinality(Busy)
              + (IF "run" \in Running THEN 1 ELSE 0) - (IF pc[w] \in Running THEN 1 ELSE 0)
        /\ Cardinality(Members)' = Cardinality(Members)
              + (IF "run" \in {"none", "released"} THEN 0 ELSE 1)
              - (IF pc[w] \in {"none", "released"} THEN 0 ELSE 1)
    BY <1>0, <2>1, Move
  <2>3. Cardinality(Busy)' = Cardinality(Busy) + 1 /\ Cardinality(Members)' = Cardinality(Members)
    BY <1>0, <2>1, <2>2 DEF Running
  <2>4. num' = Len(queue')
    BY <1>0, <1>13 DEF Take, Pop
  <2> QED BY <1>0, <1>12, <1>13, <2>3, <2>4 DEF Take
<1>14. ASSUME NEW w \in Workers, Settle(w)
       PROVE  Accounting' /\ InitInv'
  <2> PICK v \in {"leaveLock", "lock"} : pc[w] = "settle" /\ pc' = [pc EXCEPT ![w] = v]
    BY <1>14 DEF Settle
  <2>1. v \in WorkerPC
    BY DEF WorkerPC, Leaving
  <2>2. /\ Cardinality(Busy)' = Cardinality(Busy)
              + (IF v \in Running THEN 1 ELSE 0) - (IF pc[w] \in Running THEN 1 ELSE 0)
        /\ Cardinality(Members)' = Cardinality(Members)
              + (IF v \in {"none", "released"} THEN 0 ELSE 1)
              - (IF pc[w] \in {"none", "released"} THEN 0 ELSE 1)
    BY <1>0, <2>1, Move
  <2>3. Cardinality(Busy)' = Cardinality(Busy) - 1 /\ Cardinality(Members)' = Cardinality(Members)
    BY <1>0, <2>2 DEF Running
  <2>4. mpc # "init" /\ mpc' # "init"
    BY <1>12, <1>14
  <2>5. busy' = busy - 1 /\ UNCHANGED <<queue, num, total, phantom>>
    BY <1>14 DEF Settle
  <2> QED BY <1>0, <2>3, <2>4, <2>5
<1>15. ASSUME NEW w \in Workers, Leave(w)
       PROVE  Accounting' /\ InitInv'
  <2>1. "released" \in WorkerPC /\ pc[w] = "leave" /\ pc' = [pc EXCEPT ![w] = "released"]
    BY <1>15 DEF Leave, WorkerPC, Gone
  <2>2. /\ Cardinality(Busy)' = Cardinality(Busy)
              + (IF "released" \in Running THEN 1 ELSE 0) - (IF pc[w] \in Running THEN 1 ELSE 0)
        /\ Cardinality(Members)' = Cardinality(Members)
              + (IF "released" \in {"none", "released"} THEN 0 ELSE 1)
              - (IF pc[w] \in {"none", "released"} THEN 0 ELSE 1)
    BY <1>0, <2>1, Move
  <2>3. Cardinality(Busy)' = Cardinality(Busy) /\ Cardinality(Members)' = Cardinality(Members) - 1
    BY <1>0, <2>1, <2>2 DEF Running
  <2>4. mpc # "init" /\ mpc' # "init"
    BY <1>12, <1>15
  <2>5. total' = total - 1 /\ UNCHANGED <<queue, num, busy, phantom>>
    BY <1>15 DEF Leave
  <2> QED BY <1>0, <2>3, <2>4, <2>5
<1>16. CASE UNCHANGED vars
  BY <1>1, <1>16 DEF vars
<1>17. CASE Terminated
  BY <1>17, <1>16 DEF Terminated
<1> QED
  BY <1>4, <1>5, <1>6, <1>7, <1>8, <1>9, <1>10, <1>11, <1>13, <1>14, <1>15, <1>16, <1>17
     DEF Next, MainStep, WorkerStep

LEMMA CoreStep == PoolAssumption /\ CoreInv /\ [Next]_vars => CoreInv'
BY TypeStep, MutexStep, CountStep DEF CoreInv

LEMMA CoreInvariant == Spec => []CoreInv
<1>1. Init => CoreInv
  BY CoreInit, PoolAssumption
<1>2. CoreInv /\ [Next]_vars => CoreInv'
  BY CoreStep, PoolAssumption
<1> QED BY <1>1, <1>2, PTL DEF Spec

\* TypeOK: every variable of the pool keeps its range; in particular total_num stays
\* within the thread array and num within the queue bound.
THEOREM TypeCorrect == Spec => []TypeOK
<1>1. CoreInv => TypeOK
  BY DEF CoreInv
<1> QED BY <1>1, CoreInvariant, PTL

\* Accounting: the counters that size the pool (wp_thread_pool.c:54-61 and 112-121)
\* agree with the threads and with the list in every reachable state.
THEOREM CountersCorrect == Spec => []Accounting
<1>1. CoreInv => Accounting
  BY DEF CoreInv
<1> QED BY <1>1, CoreInvariant, PTL

-----------------------------------------------------------------------------
(* The order of the tasks                                                  *)

\* Moving the head of q behind s leaves their concatenation as it is.
LEMMA ShiftHead ==
  ASSUME NEW S, NEW s \in Seq(S), NEW q \in Seq(S), q # <<>>
  PROVE  Append(s, Head(q)) \o Tail(q) = s \o q
<1>1. Head(q) \in S /\ Tail(q) \in Seq(S) /\ Len(Tail(q)) = Len(q) - 1
      /\ Len(q) \in Nat \ {0} /\ Len(s) \in Nat
  BY HeadTailProperties, EmptySeq, LenProperties
<1>2. Append(s, Head(q)) \in Seq(S) /\ Len(Append(s, Head(q))) = Len(s) + 1
  BY <1>1
<1> DEFINE l == Append(s, Head(q)) \o Tail(q)
           r == s \o q
<1>3. l \in Seq(S) /\ Len(l) = Len(s) + 1 + Len(Tail(q))
  BY <1>1, <1>2, ConcatProperties
<1>4. r \in Seq(S) /\ Len(r) = Len(s) + Len(q)
  BY ConcatProperties
<1>5. ASSUME NEW k \in 1 .. Len(r)
      PROVE  l[k] = r[k]
  <2>1. l[k] = IF k <= Len(s) + 1 THEN Append(s, Head(q))[k] ELSE Tail(q)[k - (Len(s) + 1)]
    BY <1>1, <1>2, <1>4, <1>5, ConcatProperties
  <2>2. r[k] = IF k <= Len(s) THEN s[k] ELSE q[k - Len(s)]
    BY <1>4, <1>5, ConcatProperties
  <2> QED BY <1>1, <1>4, <1>5, <2>1, <2>2
<1> HIDE DEF l, r
<1>6. Len(l) = Len(r)
  BY <1>1, <1>3, <1>4
<1> QED BY <1>3, <1>4, <1>5, <1>6, SeqEqual DEF l, r

\* Appending behind the second of two sequences appends behind both.
LEMMA AppendBehind ==
  ASSUME NEW S, NEW s \in Seq(S), NEW q \in Seq(S), NEW e \in S
  PROVE  s \o Append(q, e) = Append(s \o q, e)
<1>1. Append(q, e) = q \o <<e>> /\ <<e>> \in Seq(S)
  OBVIOUS
<1>2. s \o q \in Seq(S)
  BY ConcatProperties
<1>3. Append(s \o q, e) = (s \o q) \o <<e>>
  BY <1>2
<1> QED BY <1>1, <1>3, ConcatAssociative

\* The elements of a sequence after an append.
LEMMA AppendRange ==
  ASSUME NEW S, NEW s \in Seq(S), NEW e \in S
  PROVE  Range(Append(s, e)) = Range(s) \cup {e}
<1>1. /\ DOMAIN s = 1 .. Len(s) /\ DOMAIN Append(s, e) = 1 .. Len(s) + 1 /\ Len(s) \in Nat
      /\ \A k \in 1 .. Len(s) : Append(s, e)[k] = s[k]
      /\ Append(s, e)[Len(s) + 1] = e
  OBVIOUS
<1>2. 1 .. Len(s) + 1 = (1 .. Len(s)) \cup {Len(s) + 1}
  BY <1>1
<1> DEFINE t == Append(s, e)
<1> HIDE DEF t
<1>3. /\ DOMAIN t = (DOMAIN s) \cup {Len(s) + 1} /\ t[Len(s) + 1] = e
      /\ \A k \in DOMAIN s : t[k] = s[k]
  BY <1>1, <1>2 DEF t
<1>4. Range(t) = Range(s) \cup {e}
  BY <1>3, ZenonT(60) DEF Range
<1> QED BY <1>4 DEF t

\* Appending a new element to a sequence without repetitions.
LEMMA AppendDistinct ==
  ASSUME NEW S, NEW s \in Seq(S), NEW e \in S, e \notin Range(s), IsInjective(s)
  PROVE  IsInjective(Append(s, e))
<1>1. /\ DOMAIN s = 1 .. Len(s) /\ DOMAIN Append(s, e) = 1 .. Len(s) + 1 /\ Len(s) \in Nat
      /\ \A k \in 1 .. Len(s) : Append(s, e)[k] = s[k]
      /\ Append(s, e)[Len(s) + 1] = e
  OBVIOUS
<1>2. \A k \in 1 .. Len(s) : s[k] # e
  BY <1>1 DEF Range
<1>3. SUFFICES ASSUME NEW j \in 1 .. Len(s) + 1, NEW k \in 1 .. Len(s) + 1,
                      Append(s, e)[j] = Append(s, e)[k]
               PROVE  j = k
  BY <1>1 DEF IsInjective
<1>4. CASE j \in 1 .. Len(s) /\ k \in 1 .. Len(s)
  BY <1>1, <1>3, <1>4 DEF IsInjective
<1>5. CASE j = Len(s) + 1 \/ k = Len(s) + 1
  BY <1>1, <1>2, <1>3, <1>5
<1> QED BY <1>1, <1>4, <1>5

LEMMA OrderStep ==
  ASSUME PoolAssumption, CoreInv, HandInv, FirstComeFirstRun, [Next]_vars
  PROVE  HandInv' /\ FirstComeFirstRun'
<1> USE DEF HandInv, FirstComeFirstRun, poolVars, workerVars, mainVars, history
<1>0. queue \in Seq(Tasks) /\ started \in Seq(Tasks) /\ accepted \in Seq(Tasks)
      /\ num = Len(queue) /\ (mpc \in {"createLock", "create"} => arg \in Tasks)
  BY DEF CoreInv, TypeOK, Accounting
<1>1. ASSUME UNCHANGED <<queue, accepted, started, todo, arg>>,
             mpc' \in {"createLock", "create"} => mpc \in {"createLock", "create"}
      PROVE  HandInv' /\ FirstComeFirstRun'
  BY <1>1
<1>2. CASE InitThread \/ InitDone \/ CreateLock \/ Refuse \/ Signal \/ StopLock \/ Stop
             \/ Join \/ JoinUnwritten \/ Destroy
  BY <1>1, <1>2 DEF InitThread, InitDone, CreateLock, Refuse, Signal, StopLock, Stop, Join,
                    JoinUnwritten, Destroy
<1>3. CASE Call
  <2>1. UNCHANGED <<queue, accepted, started>>
    BY <1>3 DEF Call
  <2> QED BY <1>3, <2>1 DEF Call
<1>4. CASE Enqueue
  <2>1. /\ arg \in Tasks /\ arg \notin todo /\ arg \notin Range(accepted)
        /\ accepted' = Append(accepted, arg) /\ queue' = Append(queue, arg)
        /\ UNCHANGED <<started, todo>> /\ mpc' = "signal"
    BY <1>0, <1>4 DEF Enqueue, Insert
  <2>2. accepted' = started' \o queue'
    <3>1. started \o Append(queue, arg) = Append(started \o queue, arg)
      BY <1>0, <2>1, AppendBehind
    <3> QED BY <2>1, <3>1
  <2>3. Range(accepted') = Range(accepted) \cup {arg}
    BY <1>0, <2>1, AppendRange
  <2>4. IsInjective(accepted')
    BY <1>0, <2>1, AppendDistinct
  <2>5. HandInv'
    BY <2>1, <2>3
  <2> QED BY <2>2, <2>4, <2>5
<1>5. ASSUME NEW w \in Workers, Take(w)
      PROVE  HandInv' /\ FirstComeFirstRun'
  <2>1. /\ queue # <<>>
        /\ queue' = Tail(queue) /\ started' = Append(started, Head(queue))
        /\ UNCHANGED <<accepted, todo, arg, mpc>>
    BY <1>0, <1>5 DEF Take, Pop
  <2>2. started' \o queue' = started \o queue
    BY <1>0, <2>1, ShiftHead
  <2> QED BY <2>1, <2>2
<1>6. ASSUME NEW w \in Workers,
             \/ LoopLock(w) \/ WokenLock(w) \/ SettleLock(w) \/ LeaveLock(w)
             \/ Wait(w) \/ SpuriousWake(w) \/ Quit(w) \/ Return(w) \/ Settle(w) \/ Leave(w)
      PROVE  HandInv' /\ FirstComeFirstRun'
  BY <1>1, <1>6 DEF LoopLock, WokenLock, SettleLock, LeaveLock, Lock, Wait, SpuriousWake, Quit,
                    Return, Settle, Leave
<1>7. CASE UNCHANGED vars
  BY <1>1, <1>7 DEF vars
<1>8. CASE Terminated
  BY <1>7, <1>8 DEF Terminated
<1> QED BY <1>2, <1>3, <1>4, <1>5, <1>6, <1>7, <1>8 DEF Next, MainStep, WorkerStep

\* FirstComeFirstRun: no task that task_create enqueued is ever lost, run twice or
\* overtaken, for any number of workers, tasks and failures.
THEOREM OrderCorrect == Spec => []FirstComeFirstRun
<1>1. Init => HandInv /\ FirstComeFirstRun
  BY DEF Init, HandInv, FirstComeFirstRun, Range, IsInjective
<1>2. CoreInv /\ HandInv /\ FirstComeFirstRun /\ [Next]_vars => (HandInv /\ FirstComeFirstRun)'
  BY OrderStep, PoolAssumption
<1> QED BY <1>1, <1>2, CoreInvariant, PTL DEF Spec

-----------------------------------------------------------------------------
(* The queue at shutdown                                                   *)

\* The three ways a step can touch ShutdownDrains: a worker quits, a task is taken, a
\* task is queued; every other step lets no worker exit and leaves the queue alone.
LEMMA DrainStep ==
  ASSUME PoolAssumption, CoreInv, ShutdownDrains, [Next]_vars
  PROVE  ShutdownDrains'
<1> USE DEF ShutdownDrains, poolVars, workerVars, mainVars, history
<1>0. /\ queue \in Seq(Tasks) /\ num = Len(queue) /\ pc \in [Workers -> WorkerPC]
      /\ mutex = Main => mpc \in {"create", "stop"}
      /\ shutdown <=> mpc \in {"join", "stopped", "fault"}
  BY DEF CoreInv, TypeOK, Accounting, MutexInv, ShutdownInv
<1>1. ASSUME queue' = queue, shutdown => shutdown',
             \A v \in Workers : pc'[v] = "exited" => pc[v] = "exited"
      PROVE  ShutdownDrains'
  BY <1>1
<1>2. CASE InitThread \/ InitDone \/ Call \/ CreateLock \/ Refuse \/ StopLock \/ Join
             \/ JoinUnwritten \/ Destroy
  BY <1>0, <1>1, <1>2 DEF InitThread, InitDone, Call, CreateLock, Refuse, StopLock, Join,
                          JoinUnwritten, Destroy, Spawn, SpawnFails
<1>3. CASE Enqueue
  <2>1. ~shutdown /\ shutdown' = shutdown
    BY <1>0, <1>3 DEF Enqueue
  <2>2. \A v \in Workers : pc'[v] = "exited" => pc[v] = "exited"
    BY <1>0, <1>3 DEF Enqueue, Spawn, SpawnFails
  <2> QED BY <2>1, <2>2
<1>4. CASE Signal \/ Stop
  BY <1>0, <1>1, <1>4 DEF Signal, Notify, Stop, NotifyStop, WakeOne, WakeAll
<1>5. ASSUME NEW w \in Workers,
             \/ LoopLock(w) \/ WokenLock(w) \/ SettleLock(w) \/ LeaveLock(w)
             \/ Wait(w) \/ SpuriousWake(w) \/ Return(w) \/ Settle(w) \/ Leave(w)
      PROVE  ShutdownDrains'
  BY <1>0, <1>1, <1>5 DEF LoopLock, WokenLock, SettleLock, LeaveLock, Lock, Wait, SpuriousWake,
                          Return, Settle, Leave
<1>6. ASSUME NEW w \in Workers, Quit(w)
      PROVE  ShutdownDrains'
  <2>1. shutdown /\ num = 0 /\ UNCHANGED <<queue, shutdown>>
    BY <1>6 DEF Quit, MayQuit
  <2>2. queue = <<>>
    BY <1>0, <2>1, EmptySeq
  <2> QED BY <2>1, <2>2
<1>7. ASSUME NEW w \in Workers, Take(w)
      PROVE  ShutdownDrains'
  <2>1. queue # <<>>
    BY <1>0, <1>7 DEF Take
  <2>2. \A v \in Workers : pc'[v] = "exited" => pc[v] = "exited"
    BY <1>0, <1>7 DEF Take
  <2> QED BY <2>1, <2>2
<1>8. CASE UNCHANGED vars
  BY <1>1, <1>8 DEF vars
<1>9. CASE Terminated
  BY <1>8, <1>9 DEF Terminated
<1> QED BY <1>2, <1>3, <1>4, <1>5, <1>6, <1>7, <1>8, <1>9 DEF Next, MainStep, WorkerStep

\* ShutdownDrains: when a worker has exited at shutdown (wp_thread_pool.c:38-41) no
\* task is left in the queue and none comes in any more.
THEOREM ShutdownCorrect == Spec => []ShutdownDrains
<1>1. Init => ShutdownDrains
  BY DEF Init, ShutdownDrains
<1>2. CoreInv /\ ShutdownDrains /\ [Next]_vars => ShutdownDrains'
  BY DrainStep, PoolAssumption
<1> QED BY <1>1, <1>2, CoreInvariant, PTL DEF Spec

-----------------------------------------------------------------------------
(* The wakeups                                                             *)

\* When one worker moves to pc v, Coming changes by what it contributes.
LEMMA ComingMoves ==
  ASSUME PoolAssumption, CoreInv, NEW w \in Workers, NEW v \in WorkerPC,
         pc' = [pc EXCEPT ![w] = v]
  PROVE  /\ Cardinality(Coming) \in Nat
         /\ Cardinality(Coming)' = Cardinality(Coming)
              + (IF v \in {"lock", "woken", "check"} THEN 1 ELSE 0)
              - (IF pc[w] \in {"lock", "woken", "check"} THEN 1 ELSE 0)
<1>1. pc \in [Workers -> WorkerPC]
  BY DEF CoreInv, TypeOK
<1>2. Cardinality(Coming) \in Nat
  BY Counting DEF Coming
<1> QED BY <1>1, <1>2, Move

\* A worker that comes no less than before, and does not begin to wait, keeps WakeInv.
LEMMA WorkerKeepsWake ==
  ASSUME PoolAssumption, CoreInv, WakeInv, UNCHANGED <<num, mpc>>,
         NEW w \in Workers, NEW v \in WorkerPC \ {"wait"}, pc' = [pc EXCEPT ![w] = v],
         pc[w] \in {"lock", "woken", "check"} => v \in {"lock", "woken", "check"}
  PROVE  WakeInv'
<1>0. /\ Cardinality(Coming) \in Nat
      /\ Cardinality(Coming)' = Cardinality(Coming)
              + (IF v \in {"lock", "woken", "check"} THEN 1 ELSE 0)
              - (IF pc[w] \in {"lock", "woken", "check"} THEN 1 ELSE 0)
  BY ComingMoves
<1>1. Cardinality(Coming)' \in Int /\ Cardinality(Coming)' >= Cardinality(Coming)
  BY <1>0
<1>2. pc \in [Workers -> WorkerPC] /\ num \in Nat
  BY DEF CoreInv, TypeOK
<1>3. (\E x \in Workers : pc'[x] = "wait") => (\E x \in Workers : pc[x] = "wait")
  BY <1>2
<1> QED BY <1>0, <1>1, <1>2, <1>3 DEF WakeInv

LEMMA WakeStep ==
  ASSUME PoolAssumption, CoreInv, WakeInv, [Next]_vars
  PROVE  WakeInv'
<1> USE DEF poolVars, workerVars, mainVars, history
<1>0. /\ pc \in [Workers -> WorkerPC] /\ num \in Nat
      /\ mpc = "init" => num = 0
  BY DEF CoreInv, TypeOK, InitInv
<1>coming. Cardinality(Coming) \in Nat
  BY Counting DEF Coming
\* A step that leaves the workers and the queue alone.
<1>1. ASSUME UNCHANGED <<pc, num>>, mpc = "signal" => mpc' = "signal"
      PROVE  WakeInv'
  <2>1. Coming' = Coming
    BY <1>1 DEF Coming
  <2> QED BY <1>0, <1>coming, <1>1, <2>1 DEF WakeInv
\* A step after which the queue is empty.
<1>2. ASSUME num' = 0, Cardinality(Coming)' \in Nat
      PROVE  WakeInv'
  BY <1>2 DEF WakeInv
<1>3. CASE InitThread
  <2>1. num' = 0 /\ pc' \in [Workers -> WorkerPC]
    BY <1>0, <1>3 DEF InitThread, Spawn, SpawnFails, WorkerPC
  <2>2. Coming' \in SUBSET Workers
    BY DEF Coming
  <2>3. Cardinality(Coming)' \in Nat
    BY <2>2, Counting
  <2> QED BY <1>2, <2>1, <2>3
<1>4. CASE InitDone \/ Call \/ CreateLock \/ Refuse \/ StopLock \/ Join \/ JoinUnwritten \/ Destroy
  BY <1>1, <1>4 DEF InitDone, Call, CreateLock, Refuse, StopLock, Join, JoinUnwritten, Destroy
<1>5. CASE Enqueue
  <2>1. num' = num + 1 /\ mpc = "create" /\ mpc' = "signal"
    BY <1>5 DEF Enqueue
  <2>2. CASE \E w \in Workers : pc[w] = "none" /\ pc' = [pc EXCEPT ![w] = "lock"]
    <3> PICK w \in Workers : pc[w] = "none" /\ pc' = [pc EXCEPT ![w] = "lock"]
      BY <2>2
    <3>1. Cardinality(Coming)' = Cardinality(Coming) + 1
      <4>1. "lock" \in WorkerPC
        BY DEF WorkerPC
      <4>2. Cardinality(Coming)' = Cardinality(Coming)
              + (IF "lock" \in {"lock", "woken", "check"} THEN 1 ELSE 0)
              - (IF pc[w] \in {"lock", "woken", "check"} THEN 1 ELSE 0)
        BY <4>1, ComingMoves
      <4> QED BY <1>coming, <4>2
    <3>2. (\E x \in Workers : pc'[x] = "wait") => (\E x \in Workers : pc[x] = "wait")
      BY <1>0
    <3> QED BY <1>0, <1>coming, <2>1, <3>1, <3>2 DEF WakeInv
  <2>3. CASE UNCHANGED pc
    <3>1. Coming' = Coming
      BY <2>3 DEF Coming
    <3> QED BY <1>0, <1>coming, <2>1, <2>3, <3>1 DEF WakeInv
  <2> QED BY <1>5, <2>2, <2>3 DEF Enqueue, Spawn, SpawnFails
<1>6. CASE Signal
  <2>1. mpc = "signal" /\ mpc' = "idle" /\ num' = num
    BY <1>6 DEF Signal
  <2>2. CASE \E w \in Workers : pc[w] = "wait" /\ pc' = [pc EXCEPT ![w] = "woken"]
    <3> PICK w \in Workers : pc[w] = "wait" /\ pc' = [pc EXCEPT ![w] = "woken"]
      BY <2>2
    <3>1. Cardinality(Coming)' = Cardinality(Coming) + 1
      <4>1. "woken" \in WorkerPC
        BY DEF WorkerPC
      <4>2. Cardinality(Coming)' = Cardinality(Coming)
              + (IF "woken" \in {"lock", "woken", "check"} THEN 1 ELSE 0)
              - (IF pc[w] \in {"lock", "woken", "check"} THEN 1 ELSE 0)
        BY <4>1, ComingMoves
      <4> QED BY <1>coming, <4>2
    <3>2. num <= Cardinality(Coming) + 1
      BY <2>1 DEF WakeInv
    <3> QED BY <1>0, <1>coming, <2>1, <3>1, <3>2 DEF WakeInv
  <2>3. CASE (\A w \in Workers : pc[w] # "wait") /\ UNCHANGED pc
    BY <2>3 DEF WakeInv
  <2> QED BY <1>6, <2>2, <2>3 DEF Signal, Notify, WakeOne
<1>7. CASE Stop
  <2>1. \A w \in Workers : pc'[w] # "wait"
    BY <1>0, <1>7 DEF Stop, NotifyStop, WakeAll
  <2> QED BY <2>1 DEF WakeInv
<1>8. ASSUME NEW w \in Workers,
             \/ LoopLock(w) \/ WokenLock(w) \/ SettleLock(w) \/ LeaveLock(w)
             \/ SpuriousWake(w) \/ Return(w) \/ Settle(w) \/ Leave(w)
      PROVE  WakeInv'
  <2>1. /\ UNCHANGED <<num, mpc>>
        /\ \E v \in WorkerPC \ {"wait"} :
             /\ pc' = [pc EXCEPT ![w] = v]
             /\ pc[w] \in {"lock", "woken", "check"} => v \in {"lock", "woken", "check"}
    BY <1>8 DEF LoopLock, WokenLock, SettleLock, LeaveLock, Lock, SpuriousWake, Return, Settle,
                Leave, WorkerPC, Running, Leaving, Gone
  <2> QED BY <2>1, WorkerKeepsWake
<1>9. ASSUME NEW w \in Workers, Wait(w) \/ Quit(w)
      PROVE  WakeInv'
  <2>1. num' = 0
    BY <1>9 DEF Wait, Quit, MayQuit
  <2>2. Coming' \in SUBSET Workers
    BY DEF Coming
  <2>3. Cardinality(Coming)' \in Nat
    BY <2>2, Counting
  <2> QED BY <1>2, <2>1, <2>3
<1>10. ASSUME NEW w \in Workers, Take(w)
       PROVE  WakeInv'
  <2>1. /\ pc[w] = "check" /\ pc' = [pc EXCEPT ![w] = "run"] /\ "run" \in WorkerPC
        /\ num' = num - 1 /\ mpc' = mpc
    BY <1>10 DEF Take, WorkerPC, Running
  <2>2. Cardinality(Coming)' = Cardinality(Coming)
              + (IF "run" \in {"lock", "woken", "check"} THEN 1 ELSE 0)
              - (IF pc[w] \in {"lock", "woken", "check"} THEN 1 ELSE 0)
    BY <2>1, ComingMoves
  <2>3. (\E x \in Workers : pc'[x] = "wait") => (\E x \in Workers : pc[x] = "wait")
    BY <1>0, <2>1
  <2> QED BY <1>0, <1>coming, <2>1, <2>2, <2>3 DEF WakeInv
<1>11. CASE UNCHANGED vars
  BY <1>1, <1>11 DEF vars
<1>12. CASE Terminated
  BY <1>11, <1>12 DEF Terminated
<1> QED
  BY <1>3, <1>4, <1>5, <1>6, <1>7, <1>8, <1>9, <1>10, <1>11, <1>12 DEF Next, MainStep, WorkerStep

\* NoLostWakeup: whatever the spurious returns of pthread_cond_wait and the signals sent
\* behind the unlock (wp_thread_pool.c:125), no queued task is left to workers that all
\* sleep: WakeInv counts a worker on its way, or the signal to come, for every task.
THEOREM WakeupCorrect == Spec => []NoLostWakeup
<1>1. Init => WakeInv
  BY DEF Init, WakeInv
<1>2. CoreInv /\ WakeInv /\ [Next]_vars => WakeInv'
  BY WakeStep, PoolAssumption
<1>3. ASSUME CoreInv, WakeInv
      PROVE  NoLostWakeup
  <2>1. SUFFICES ASSUME queue # <<>>, NEW w \in Staying, \A x \in Staying : pc[x] = "wait"
                 PROVE  mpc = "signal"
    BY DEF NoLostWakeup
  <2>2. num # 0
    <3>1. queue \in Seq(Tasks) /\ num = Len(queue)
      BY <1>3 DEF CoreInv, TypeOK, Accounting
    <3> QED BY <2>1, <3>1
  <2>3. Coming = {}
    BY <2>1 DEF Coming, Staying, Leaving, Gone
  <2>4. Cardinality(Coming) = 0
    BY <2>3, FS_EmptySet
  <2>5. num <= Cardinality(Coming) + (IF mpc = "signal" THEN 1 ELSE 0)
    BY <1>3, <2>1 DEF WakeInv, Staying
  <2>6. num \in Nat
    BY <1>3 DEF CoreInv, TypeOK
  <2> QED BY <2>2, <2>4, <2>5, <2>6
<1> QED BY <1>1, <1>2, <1>3, CoreInvariant, PTL DEF Spec

-----------------------------------------------------------------------------
(* The refinement of TaskPool                                              *)

\* In a sequence without repetitions the part that was started does not hold the head
\* of the rest.
LEMMA HeadIsNew ==
  ASSUME NEW S, NEW s \in Seq(S), NEW q \in Seq(S), q # <<>>, IsInjective(s \o q)
  PROVE  Head(q) \notin Range(s)
<1>1. Len(q) \in Nat \ {0} /\ Len(s) \in Nat /\ DOMAIN s = 1 .. Len(s) /\ Head(q) = q[1]
  BY EmptySeq, LenProperties
<1> DEFINE r == s \o q
<1>2. r \in Seq(S) /\ Len(r) = Len(s) + Len(q)
  BY ConcatProperties
<1>3. DOMAIN r = 1 .. Len(s) + Len(q)
  BY <1>2
<1>4. SUFFICES ASSUME NEW k \in 1 .. Len(s), s[k] = q[1]
               PROVE  FALSE
  BY <1>1 DEF Range
<1>5. k \in 1 .. Len(s) + Len(q) /\ Len(s) + 1 \in 1 .. Len(s) + Len(q) /\ k # Len(s) + 1
  BY <1>1
<1>6. r[k] = s[k] /\ r[Len(s) + 1] = q[1]
  BY <1>1, <1>5, ConcatProperties
<1> HIDE DEF r
<1>7. r[k] = r[Len(s) + 1]
  BY <1>4, <1>6
<1>8. IsInjective(r)
  BY DEF r
<1> QED BY <1>3, <1>5, <1>7, <1>8 DEF IsInjective

\* The workers that execute a task; a task each.
Runners == {w \in Workers : pc[w] = "run"}

LEMMA RunnersExecute ==
  ASSUME PoolAssumption, CoreInv
  PROVE  /\ Cardinality(Executing) \in Nat /\ Cardinality(Runners) \in Nat
         /\ Cardinality(Executing) <= Cardinality(Runners)
<1> DEFINE f == [w \in Runners |-> task[w]]
<1>1. IsFiniteSet(Runners) /\ Cardinality(Runners) \in Nat
  BY FS_Subset, FS_CardinalityType DEF PoolAssumption, Runners
<1>2. f \in Surjection(Runners, Executing)
  BY DEF Surjection, Executing, Runners
<1> HIDE DEF f
<1> QED BY <1>1, <1>2, FS_Surjection, FS_CardinalityType

\* A worker that finds a task leaves room for it: it is a member that executes none.
LEMMA RoomForOne ==
  ASSUME PoolAssumption, CoreInv, NEW w \in Workers, pc[w] = "check", num # 0
  PROVE  Cardinality(Executing) < MaxThreads
<1>1. Runners \in SUBSET Workers /\ w \notin Runners
  BY DEF Runners
<1>2. Cardinality(Runners \cup {w}) = Cardinality(Runners) + 1
  BY <1>1, Counting
<1>3. Members \in SUBSET Workers /\ Runners \cup {w} \subseteq Members
  BY DEF Members, Runners
<1>4. IsFiniteSet(Members) /\ Cardinality(Members) \in Nat
  BY <1>3, FS_Subset, FS_CardinalityType DEF PoolAssumption
<1>5. Cardinality(Runners \cup {w}) <= Cardinality(Members)
  BY <1>3, <1>4, FS_Subset
<1>6. total = Cardinality(Members) + phantom /\ phantom \in Nat /\ total \in 0 .. MaxThreads
      /\ MaxThreads \in Nat
  BY DEF CoreInv, Accounting, InitInv, TypeOK, PoolAssumption
<1>7. Cardinality(Executing) \in Nat /\ Cardinality(Executing) <= Cardinality(Runners)
      /\ Cardinality(Runners) \in Nat
  BY RunnersExecute
<1> QED BY <1>2, <1>4, <1>5, <1>6, <1>7

\* What the step that takes a task does to the tasks started and executing.
LEMMA TakeMoves ==
  ASSUME PoolAssumption, CoreInv, FirstComeFirstRun, HoldsInv, NEW w \in Workers, Take(w)
  PROVE  /\ queue # <<>> /\ queue' = Tail(queue) /\ accepted' = accepted
         /\ Head(queue) \notin Range(started)
         /\ Range(started') = Range(started) \cup {Head(queue)}
         /\ Executing' = Executing \cup {Head(queue)}
         /\ HoldsInv'
<1>1. queue \in Seq(Tasks) /\ started \in Seq(Tasks) /\ num = Len(queue)
      /\ pc \in [Workers -> WorkerPC] /\ task \in [Workers -> Tasks \cup {NoTask}]
  BY DEF CoreInv, TypeOK, Accounting
<1>2. /\ queue # <<>> /\ queue' = Tail(queue) /\ accepted' = accepted
      /\ started' = Append(started, Head(queue))
      /\ pc[w] = "check" /\ pc' = [pc EXCEPT ![w] = "run"]
      /\ task' = [task EXCEPT ![w] = Head(queue)]
  BY <1>1 DEF Take, Pop, history
<1>3. Head(queue) \in Tasks
  BY <1>1, <1>2
<1>4. Head(queue) \notin Range(started)
  BY <1>1, <1>2, HeadIsNew DEF FirstComeFirstRun
<1>5. Range(started') = Range(started) \cup {Head(queue)}
  BY <1>1, <1>2, <1>3, AppendRange
<1> DEFINE h == Head(queue)
<1> HIDE DEF h
<1>6. /\ pc'[w] = "run" /\ task'[w] = h /\ pc[w] # "run"
      /\ \A v \in Workers \ {w} : pc'[v] = pc[v] /\ task'[v] = task[v]
  BY <1>1, <1>2 DEF h
<1>7. Executing' = Executing \cup {h}
  <2>1. Executing' \subseteq Executing \cup {h}
    BY <1>6 DEF Executing
  <2>2. Executing \cup {h} \subseteq Executing'
    BY <1>6 DEF Executing
  <2> QED BY <2>1, <2>2
<1>8. HoldsInv'
  BY <1>4, <1>5, <1>6 DEF HoldsInv, h
<1> QED BY <1>2, <1>4, <1>5, <1>7, <1>8 DEF h

\* What the return of a task does to them.
LEMMA ReturnMoves ==
  ASSUME CoreInv, HoldsInv, NEW w \in Workers, Return(w)
  PROVE  /\ task[w] \in Executing /\ task[w] \in Range(started)
         /\ Executing' = Executing \ {task[w]}
         /\ UNCHANGED <<queue, accepted, started>>
         /\ HoldsInv'
<1>1. /\ pc[w] = "run" /\ pc' = [pc EXCEPT ![w] = "settleLock"] /\ UNCHANGED task
      /\ UNCHANGED <<queue, accepted, started>> /\ pc \in [Workers -> WorkerPC]
  BY DEF Return, poolVars, history, CoreInv, TypeOK
<1>2. pc'[w] # "run" /\ \A v \in Workers \ {w} : pc'[v] = pc[v]
  BY <1>1
<1>3. task[w] \in Executing /\ task[w] \in Range(started)
  BY <1>1 DEF Executing, HoldsInv
<1>4. Executing' = Executing \ {task[w]}
  <2>1. Executing' \subseteq Executing \ {task[w]}
    BY <1>1, <1>2 DEF Executing, HoldsInv
  <2>2. Executing \ {task[w]} \subseteq Executing'
    BY <1>1, <1>2 DEF Executing
  <2> QED BY <2>1, <2>2
<1>5. HoldsInv'
  BY <1>1, <1>2 DEF HoldsInv
<1> QED BY <1>1, <1>3, <1>4, <1>5

\* A step by which nobody begins or ends a task.
LEMMA NobodyMoves ==
  ASSUME HoldsInv, UNCHANGED <<task, started>>,
         \A v \in Workers : pc'[v] = "run" <=> pc[v] = "run"
  PROVE  UNCHANGED Executing /\ HoldsInv'
<1>1. Executing' = Executing
  BY DEF Executing
<1>2. HoldsInv'
  BY DEF HoldsInv
<1> QED BY <1>1, <1>2

\* TaskPool's Cardinality is the one of FiniteSets.
LEMMA SameCardinality == \A S : Abstract!Cardinality(S) = Cardinality(S)
BY DEF Abstract!Cardinality, Cardinality

\* Every step of the pool is a step of TaskPool or leaves its variables alone.
LEMMA PoolStep ==
  ASSUME PoolAssumption, CoreInv, HandInv, FirstComeFirstRun, HoldsInv, [Next]_vars
  PROVE  [Abstract!Next]_(Abstract!poolState) /\ HoldsInv'
<1> USE DEF poolVars, workerVars, mainVars, history
<1>0. pc \in [Workers -> WorkerPC]
  BY DEF CoreInv, TypeOK
<1>1. ASSUME UNCHANGED <<task, started, queue, accepted>>,
             \A v \in Workers : pc'[v] = "run" <=> pc[v] = "run"
      PROVE  [Abstract!Next]_(Abstract!poolState) /\ HoldsInv'
  BY <1>1, NobodyMoves DEF Abstract!poolState
<1>2. CASE InitThread \/ InitDone \/ Call \/ CreateLock \/ Refuse \/ Signal \/ StopLock
             \/ Stop \/ Join \/ JoinUnwritten \/ Destroy
  <2>1. UNCHANGED <<task, started, queue, accepted>>
    BY <1>2 DEF InitThread, InitDone, Call, CreateLock, Refuse, Signal, StopLock, Stop, Join,
                JoinUnwritten, Destroy
  <2>2. \A v \in Workers : pc'[v] = "run" <=> pc[v] = "run"
    BY <1>0, <1>2 DEF InitThread, InitDone, Call, CreateLock, Refuse, Signal, StopLock, Stop,
                      Join, JoinUnwritten, Destroy, Spawn, SpawnFails, Notify, WakeOne,
                      NotifyStop, WakeAll
  <2> QED BY <1>1, <2>1, <2>2
<1>3. CASE Enqueue
  <2>1. /\ arg \in Tasks /\ arg \notin Range(accepted) /\ accepted \in Seq(Tasks)
        /\ accepted' = Append(accepted, arg) /\ queue' = Append(queue, arg)
        /\ UNCHANGED <<task, started>>
    BY <1>3 DEF Enqueue, Insert, CoreInv, TypeOK, HandInv
  <2>2. Len(queue) < MaxTasks
    BY <1>3 DEF Enqueue, Full, CoreInv, TypeOK, Accounting, PoolAssumption
  <2>3. Range(accepted') = Range(accepted) \cup {arg}
    BY <2>1, AppendRange
  <2>4. \A v \in Workers : pc'[v] = "run" <=> pc[v] = "run"
    BY <1>0, <1>3 DEF Enqueue, Spawn, SpawnFails
  <2>5. UNCHANGED Executing /\ HoldsInv'
    BY <2>1, <2>4, NobodyMoves
  <2>6. Abstract!Submit(arg)
    BY <2>1, <2>2, <2>3, <2>5 DEF Abstract!Submit
  <2> QED BY <2>1, <2>5, <2>6 DEF Abstract!Next
<1>4. ASSUME NEW w \in Workers, Take(w)
      PROVE  [Abstract!Next]_(Abstract!poolState) /\ HoldsInv'
  <2>1. /\ queue # <<>> /\ queue' = Tail(queue) /\ accepted' = accepted
        /\ Head(queue) \notin Range(started)
        /\ Range(started') = Range(started) \cup {Head(queue)}
        /\ Executing' = Executing \cup {Head(queue)}
        /\ HoldsInv'
    BY <1>4, TakeMoves
  <2>2. Cardinality(Executing) < MaxThreads
    BY <1>4, RoomForOne DEF Take
  <2>5. Abstract!Cardinality(Executing) < MaxThreads
    BY <2>2, SameCardinality
  <2>3. Range(started') \ Executing' = Range(started) \ Executing
    BY <2>1
  <2>4. Abstract!Start
    BY <2>1, <2>3, <2>5 DEF Abstract!Start
  <2> QED BY <2>1, <2>4 DEF Abstract!Next
<1>5. ASSUME NEW w \in Workers, Return(w)
      PROVE  [Abstract!Next]_(Abstract!poolState) /\ HoldsInv'
  <2>1. /\ task[w] \in Executing /\ task[w] \in Range(started)
        /\ Executing' = Executing \ {task[w]}
        /\ UNCHANGED <<queue, accepted, started>>
        /\ HoldsInv'
    BY <1>5, ReturnMoves
  <2>2. task[w] \in Tasks
    <3>1. started \in Seq(Tasks)
      BY DEF CoreInv, TypeOK
    <3> QED BY <2>1, <3>1 DEF Range
  <2>3. Range(started') \ Executing' = (Range(started) \ Executing) \cup {task[w]}
    BY <2>1
  <2>4. Abstract!Finish(task[w])
    BY <2>1, <2>3 DEF Abstract!Finish
  <2> QED BY <2>1, <2>2, <2>4 DEF Abstract!Next
<1>6. ASSUME NEW w \in Workers,
             \/ LoopLock(w) \/ WokenLock(w) \/ SettleLock(w) \/ LeaveLock(w)
             \/ Wait(w) \/ SpuriousWake(w) \/ Quit(w) \/ Settle(w) \/ Leave(w)
      PROVE  [Abstract!Next]_(Abstract!poolState) /\ HoldsInv'
  <2>1. UNCHANGED <<task, started, queue, accepted>>
    BY <1>6 DEF LoopLock, WokenLock, SettleLock, LeaveLock, Lock, Wait, SpuriousWake, Quit,
                Settle, Leave
  <2>2. \A v \in Workers : pc'[v] = "run" <=> pc[v] = "run"
    BY <1>0, <1>6 DEF LoopLock, WokenLock, SettleLock, LeaveLock, Lock, Wait, SpuriousWake,
                      Quit, Settle, Leave
  <2> QED BY <1>1, <2>1, <2>2
<1>7. CASE UNCHANGED vars
  BY <1>1, <1>7 DEF vars
<1>8. CASE Terminated
  BY <1>7, <1>8 DEF Terminated
<1> QED BY <1>2, <1>3, <1>4, <1>5, <1>6, <1>7, <1>8 DEF Next, MainStep, WorkerStep

\* ImplementsTaskPool: to its client the pool is the bounded first-come-first-run queue
\* of TaskPool before at most MAX_THREAD_NUM servers, for any number of workers, tasks,
\* failed calls and spurious wakeups.
THEOREM ImplementsPool == Spec => ImplementsTaskPool
<1>1. Init => Abstract!Init /\ HandInv /\ FirstComeFirstRun /\ HoldsInv
  BY DEF Init, Abstract!Init, Executing, HandInv, FirstComeFirstRun, HoldsInv, Range, IsInjective
<1>2. CoreInv /\ HandInv /\ FirstComeFirstRun /\ [Next]_vars => (HandInv /\ FirstComeFirstRun)'
  BY OrderStep, PoolAssumption
<1>3. CoreInv /\ HandInv /\ FirstComeFirstRun /\ HoldsInv /\ [Next]_vars
        => [Abstract!Next]_(Abstract!poolState) /\ HoldsInv'
  BY PoolStep, PoolAssumption
<1> QED BY <1>1, <1>2, <1>3, CoreInvariant, PTL DEF Spec, ImplementsTaskPool, Abstract!Spec

-----------------------------------------------------------------------------
(* The join loop: the slots it reads hold threads (SlotInv), and as long   *)
(* as no worker was released they hold all of them (JoinInv).              *)

StopInv == SlotInv /\ JoinInv /\ JoinsAThread /\ StopJoinsEveryMember

LEMMA StopInit == PoolAssumption /\ Init => StopInv
<1> SUFFICES ASSUME PoolAssumption, Init PROVE StopInv
  OBVIOUS
<1>1. UsedSlots = {} /\ Created = {}
  BY DEF Init, UsedSlots, Created
<1>2. mpc = "init"
  BY DEF Init
<1> QED BY <1>1, <1>2 DEF StopInv, SlotInv, JoinInv, JoinsAThread, StopJoinsEveryMember

\* What CoreInv says of the slots: the next one to be written is not in use.
LEMMA SlotFacts ==
  ASSUME PoolAssumption, CoreInv
  PROVE  /\ UsedSlots \subseteq Slots
         /\ i \in Nat /\ total \in 0 .. MaxThreads /\ MaxThreads \in Nat /\ phantom \in Nat
         /\ mpc = "init" => i <= total
         /\ tid \in [Slots -> Workers \cup {Nobody}] /\ pc \in [Workers -> WorkerPC]
         /\ Nobody \notin Workers
BY DEF PoolAssumption, CoreInv, TypeOK, InitInv, UsedSlots, Slots

\* A step that creates no thread, lets none come back from its exit, and leaves the
\* slots and the loop alone.
LEMMA StopKept ==
  ASSUME PoolAssumption, CoreInv, StopInv, UNCHANGED <<tid, total, i, mpc, phantom>>,
         pc' \in [Workers -> WorkerPC],
         \A x \in Workers : pc[x] = "none" <=> pc'[x] = "none",
         \A x \in Workers : pc[x] = "exited" => pc'[x] = "exited",
         \A x \in Workers : pc[x] \in Leaving \cup {"released"} => pc'[x] \in Leaving \cup {"released"}
  PROVE  StopInv'
<1>1. Created' = Created /\ UsedSlots' = UsedSlots
  BY DEF Created, UsedSlots
<1>2. Released' = {} => Released = {}
  BY DEF Released
<1>3. SlotInv'
  BY <1>1 DEF StopInv, SlotInv
<1>4. JoinInv'
  <2>1. SUFFICES ASSUME Released' = {}, phantom' = 0
                 PROVE  /\ \A x \in Created' : \E s \in UsedSlots' : tid'[s] = x
                        /\ mpc' = "join" => \A s \in UsedSlots' : s < i' => pc'[tid'[s]] = "exited"
    BY DEF JoinInv
  <2>2. \A s \in UsedSlots : tid[s] \in Workers
    BY <2>1 DEF StopInv, SlotInv, Created
  <2> QED BY <1>1, <1>2, <2>1, <2>2 DEF StopInv, JoinInv
<1>5. JoinsAThread' /\ StopJoinsEveryMember'
  BY <1>1, <1>2 DEF StopInv, JoinsAThread, StopJoinsEveryMember, Created
<1> QED BY <1>3, <1>4, <1>5 DEF StopInv

\* A new thread in the next slot, by thread_pool_init or by task_create.
LEMMA StopSpawns ==
  ASSUME PoolAssumption, CoreInv, StopInv, NEW slot \in Slots, Spawn(slot),
         slot \notin UsedSlots, UsedSlots' = UsedSlots \cup {slot},
         phantom' = phantom, mpc' \notin {"join", "stopped", "fault"}
  PROVE  StopInv'
<1> PICK w \in Workers : pc[w] = "none" /\ tid' = [tid EXCEPT ![slot] = w]
                         /\ pc' = [pc EXCEPT ![w] = "lock"]
  BY DEF Spawn
<1>1. /\ UsedSlots \subseteq Slots
      /\ tid \in [Slots -> Workers \cup {Nobody}] /\ pc \in [Workers -> WorkerPC]
  BY SlotFacts
<1>2. Created' = Created \cup {w}
  BY <1>1 DEF Created
<1>3. tid'[slot] = w /\ \A s \in UsedSlots : tid'[s] = tid[s]
  BY <1>1
<1>4. Released' = {} => Released = {}
  BY <1>1 DEF Released, Leaving
<1>5. SlotInv'
  BY <1>2, <1>3 DEF StopInv, SlotInv
<1>6. JoinInv'
  BY <1>2, <1>3, <1>4 DEF StopInv, JoinInv
<1>7. JoinsAThread' /\ StopJoinsEveryMember'
  BY DEF JoinsAThread, StopJoinsEveryMember
<1> QED BY <1>5, <1>6, <1>7 DEF StopInv

\* A step of main that touches neither threads nor slots, outside the join loop.
LEMMA StopMain ==
  ASSUME PoolAssumption, CoreInv, StopInv, UNCHANGED <<tid, total, pc, phantom>>,
         mpc # "init" \/ i = total, mpc' \notin {"init", "join", "stopped", "fault"}
  PROVE  StopInv'
<1>1. Created' = Created /\ Released' = Released /\ UsedSlots' = UsedSlots
  BY DEF Created, Released, UsedSlots
<1> QED BY <1>1 DEF StopInv, SlotInv, JoinInv, JoinsAThread, StopJoinsEveryMember

LEMMA StopStep ==
  ASSUME PoolAssumption, CoreInv, StopInv, [Next]_vars
  PROVE  StopInv'
<1> USE DEF poolVars, workerVars, mainVars, history
<1>0. /\ UsedSlots \subseteq Slots
      /\ i \in Nat /\ total \in 0 .. MaxThreads /\ MaxThreads \in Nat /\ phantom \in Nat
      /\ mpc = "init" => i <= total
      /\ tid \in [Slots -> Workers \cup {Nobody}] /\ pc \in [Workers -> WorkerPC]
      /\ Nobody \notin Workers
  BY SlotFacts
<1>1. CASE InitThread
  <2>1. mpc = "init" /\ mpc' = "init" /\ i < total /\ i' = i + 1 /\ total' = total
    BY <1>1 DEF InitThread
  <2>2. CASE Spawn(i) /\ phantom' = phantom
    <3>1. i \in Slots /\ i \notin UsedSlots /\ UsedSlots' = UsedSlots \cup {i}
      BY <1>0, <2>1 DEF Slots, UsedSlots
    <3> QED BY <2>1, <2>2, <3>1, StopSpawns
  <2>3. CASE phantom' = phantom + 1
    <3>1. phantom' # 0
      BY <1>0, <2>3
    <3> QED BY <2>1, <3>1 DEF StopInv, SlotInv, JoinInv, JoinsAThread, StopJoinsEveryMember
  <2> QED BY <1>1, <2>2, <2>3 DEF InitThread
<1>2. CASE InitDone
  <2>1. mpc' = "idle" /\ i = total /\ UNCHANGED <<tid, total, pc, phantom>>
    BY <1>0, <1>2 DEF InitDone
  <2> QED BY <2>1, StopMain
<1>3. CASE Call \/ CreateLock \/ Refuse \/ StopLock
  <2>1. /\ mpc # "init" /\ mpc' \notin {"init", "join", "stopped", "fault"}
        /\ UNCHANGED <<tid, total, pc, phantom>>
    BY <1>3 DEF Call, CreateLock, Refuse, StopLock
  <2> QED BY <2>1, StopMain
<1>4. CASE Enqueue
  <2>1. mpc = "create" /\ mpc' = "signal" /\ phantom' = phantom
    BY <1>4 DEF Enqueue
  <2>2. CASE total < MaxThreads /\ Spawn(total) /\ total' = total + 1
    <3>1. total \in Slots /\ total \notin UsedSlots /\ UsedSlots' = UsedSlots \cup {total}
      BY <1>0, <2>1, <2>2 DEF Slots, UsedSlots
    <3> QED BY <2>1, <2>2, <3>1, StopSpawns
  <2>3. CASE UNCHANGED <<total, tid, pc>>
    BY <2>1, <2>3, StopMain
  <2> QED BY <1>4, <2>2, <2>3 DEF Enqueue, SpawnFails, MayGrow, NextSlot
<1>5. CASE Signal
  <2>1. mpc = "signal" /\ mpc' = "idle" /\ UNCHANGED <<tid, total, phantom>>
    BY <1>5 DEF Signal
  <2>2. /\ \A x \in Workers : pc[x] = "none" <=> pc'[x] = "none"
        /\ \A x \in Workers : pc[x] \in Leaving \cup {"released"} => pc'[x] \in Leaving \cup {"released"}
    BY <1>0, <1>5 DEF Signal, Notify, WakeOne, Leaving
  <2>3. Created' = Created /\ UsedSlots' = UsedSlots /\ (Released' = {} => Released = {})
    BY <2>1, <2>2 DEF Created, UsedSlots, Released
  <2> QED BY <2>1, <2>3 DEF StopInv, SlotInv, JoinInv, JoinsAThread, StopJoinsEveryMember
<1>6. CASE Stop
  <2>1. mpc = "stop" /\ mpc' = "join" /\ i' = 0 /\ UNCHANGED <<tid, total, phantom>>
    BY <1>6 DEF Stop
  <2>2. /\ \A x \in Workers : pc[x] = "none" <=> pc'[x] = "none"
        /\ \A x \in Workers : pc[x] \in Leaving \cup {"released"} => pc'[x] \in Leaving \cup {"released"}
    BY <1>0, <1>6 DEF Stop, NotifyStop, WakeAll, Leaving
  <2>3. Created' = Created /\ UsedSlots' = UsedSlots /\ (Released' = {} => Released = {})
    BY <2>1, <2>2 DEF Created, UsedSlots, Released
  <2>4. \A s \in UsedSlots : ~(s < 0)
    BY <1>0 DEF Slots
  <2> QED BY <2>1, <2>3, <2>4 DEF StopInv, SlotInv, JoinInv, JoinsAThread, StopJoinsEveryMember
<1>7. CASE Join
  <2>1. /\ mpc = "join" /\ mpc' = "join" /\ i < total /\ pc[tid[i]] \in Gone /\ i' = i + 1
        /\ UNCHANGED <<tid, total, phantom, pc>>
    BY <1>7 DEF Join, JoinsLeft
  <2>2. Created' = Created /\ UsedSlots' = UsedSlots /\ Released' = Released
    BY <2>1 DEF Created, UsedSlots, Released
  <2>3. ASSUME Released = {}, phantom = 0
        PROVE  pc[tid[i]] = "exited"
    <3>1. i \in UsedSlots
      BY <1>0, <2>1 DEF UsedSlots
    <3>2. tid[i] \in Workers
      BY <2>3, <3>1 DEF StopInv, SlotInv, Created
    <3> QED BY <2>1, <2>3, <3>2 DEF Released, Gone
  <2>4. \A s \in UsedSlots : s < i + 1 => s < i \/ s = i
    BY <1>0 DEF Slots
  <2>5. SlotInv' /\ JoinsAThread' /\ StopJoinsEveryMember'
    BY <2>1, <2>2 DEF StopInv, SlotInv, JoinsAThread, StopJoinsEveryMember
  <2>6. JoinInv'
    BY <2>1, <2>2, <2>3, <2>4 DEF StopInv, JoinInv
  <2> QED BY <2>5, <2>6 DEF StopInv
<1>8. CASE JoinUnwritten
  <2>1. /\ mpc = "join" /\ mpc' = "fault" /\ i < total /\ tid[i] = Nobody
        /\ UNCHANGED <<tid, total, phantom, pc>>
    BY <1>8 DEF JoinUnwritten, JoinsLeft
  <2>2. i \in UsedSlots
    BY <1>0, <2>1 DEF UsedSlots
  <2>3. phantom # 0
    BY <1>0, <2>1, <2>2 DEF StopInv, SlotInv, Created
  <2> QED BY <1>0, <2>1, <2>3 DEF StopInv, SlotInv, JoinInv, JoinsAThread, StopJoinsEveryMember
<1>9. CASE Destroy
  <2>1. mpc = "join" /\ mpc' = "stopped" /\ ~(i < total) /\ UNCHANGED <<tid, total, phantom, pc>>
    BY <1>9 DEF Destroy, JoinsLeft
  <2>2. Created' = Created /\ UsedSlots' = UsedSlots /\ Released' = Released
    BY <2>1 DEF Created, UsedSlots, Released
  <2>3. \A s \in UsedSlots : s < i
    BY <1>0, <2>1 DEF UsedSlots
  <2>4. SlotInv' /\ JoinsAThread'
    BY <2>1, <2>2 DEF StopInv, SlotInv, JoinsAThread
  <2>5. JoinInv'
    BY <2>1, <2>2 DEF StopInv, JoinInv
  <2>6. StopJoinsEveryMember'
    BY <2>1, <2>2, <2>3 DEF StopInv, JoinInv, StopJoinsEveryMember
  <2> QED BY <2>4, <2>5, <2>6 DEF StopInv
<1>10. ASSUME NEW w \in Workers,
              \/ LoopLock(w) \/ WokenLock(w) \/ SettleLock(w) \/ LeaveLock(w)
              \/ Wait(w) \/ SpuriousWake(w) \/ Quit(w) \/ Return(w) \/ Take(w) \/ Settle(w)
       PROVE  StopInv'
  <2>1. /\ UNCHANGED <<tid, total, i, mpc, phantom>>
        /\ \E v \in WorkerPC \ {"none"} :
             /\ pc' = [pc EXCEPT ![w] = v]
             /\ pc[w] \notin {"none", "exited", "released"}
             /\ pc[w] \in Leaving => v \in Leaving
    BY <1>10 DEF LoopLock, WokenLock, SettleLock, LeaveLock, Lock, Wait, SpuriousWake, Quit, Return,
                 Take, Settle, WorkerPC, Running, Leaving, Gone
  <2>2. /\ pc' \in [Workers -> WorkerPC]
        /\ \A x \in Workers : pc[x] = "none" <=> pc'[x] = "none"
        /\ \A x \in Workers : pc[x] = "exited" => pc'[x] = "exited"
        /\ \A x \in Workers : pc[x] \in Leaving \cup {"released"} => pc'[x] \in Leaving \cup {"released"}
    BY <1>0, <2>1
  <2> QED BY <2>1, <2>2, StopKept
<1>11. ASSUME NEW w \in Workers, Leave(w)
       PROVE  StopInv'
  <2>1. /\ pc[w] = "leave" /\ pc' = [pc EXCEPT ![w] = "released"] /\ total' = total - 1
        /\ UNCHANGED <<tid, i, mpc, phantom>>
    BY <1>11 DEF Leave
  <2>2. Released # {} /\ Released' # {}
    BY <1>0, <2>1 DEF Released, Leaving
  <2>3. Created' = Created
    BY <1>0, <2>1 DEF Created
  <2>4. UsedSlots' \subseteq UsedSlots
    BY <1>0, <2>1 DEF UsedSlots
  <2> QED BY <2>1, <2>2, <2>3, <2>4 DEF StopInv, SlotInv, JoinInv, JoinsAThread, StopJoinsEveryMember
<1>12. CASE UNCHANGED vars
  BY <1>0, <1>12, StopKept DEF vars
<1>13. CASE Terminated
  BY <1>12, <1>13 DEF Terminated
<1> QED
  BY <1>1, <1>2, <1>3, <1>4, <1>5, <1>6, <1>7, <1>8, <1>9, <1>10, <1>11, <1>12, <1>13
     DEF Next, MainStep, WorkerStep

LEMMA StopInvariant == Spec => []StopInv
<1>1. Init => StopInv
  BY StopInit, PoolAssumption
<1>2. CoreInv /\ StopInv /\ [Next]_vars => StopInv'
  BY StopStep, PoolAssumption
<1> QED BY <1>1, <1>2, CoreInvariant, PTL DEF Spec

\* JoinsAThread: thread_pool_stop (wp_thread_pool.c:153) reads a slot of tid that no
\* pthread_create wrote only when thread_pool_init failed to create a thread.
THEOREM JoinCorrect == Spec => []JoinsAThread
<1>1. StopInv => JoinsAThread
  BY DEF StopInv
<1> QED BY <1>1, StopInvariant, PTL

\* StopJoinsEveryMember: as long as no worker was released and every thread was created,
\* thread_pool_stop returns only when every thread has left thread_pool_routine.
THEOREM StopCorrect == Spec => []StopJoinsEveryMember
<1>1. StopInv => StopJoinsEveryMember
  BY DEF StopInv
<1> QED BY <1>1, StopInvariant, PTL

\* StopsClean: the drained queue, the joins of threads only, and nobody left behind.
THEOREM StopsCleanCorrect == Spec => []StopsClean
<1>1. ShutdownDrains /\ JoinsAThread /\ StopJoinsEveryMember => StopsClean
  BY DEF StopsClean
<1> QED BY <1>1, ShutdownCorrect, JoinCorrect, StopCorrect, PTL
=============================================================================
