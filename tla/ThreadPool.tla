----------------------------- MODULE ThreadPool -----------------------------
(***************************************************************************)
(* The worker pool of Robot/src/wp_thread_pool.c: one thread ("main")      *)
(* calls thread_pool_init, task_create once per task and thread_pool_stop; *)
(* the workers run thread_pool_routine.  The pool mutex is explicit: a     *)
(* step named ...Lock acquires it and the step that follows is the whole   *)
(* critical section up to the unlock.  A pc names the statement the thread *)
(* executes next.                                                          *)
(***************************************************************************)
EXTENDS Integers, Sequences, FiniteSets, Functions

CONSTANTS
  Tasks,         \* the tasks main hands to the pool, each once
  Daemons,       \* the tasks among them that need not return
  Workers,       \* every thread pthread_create can give the pool
  Main,          \* the thread that owns the pool
  Nobody,        \* "no thread": a free mutex, an unwritten tid slot
  NoTask,        \* "no task": a worker or a main that has not held one yet
  InitThreads,   \* thread_num of thread_pool_init
  MaxThreads,    \* MAX_THREAD_NUM
  MaxTasks,      \* MAX_TASK_NUM
  MaxIdle,       \* MAX_IDLE_THREAD_NUM
  MaxFailures,   \* bound on failed pthread_create and malloc calls
  MaxSpurious    \* bound on spurious returns of pthread_cond_wait

ASSUME PoolAssumption ==
  /\ IsFiniteSet(Workers)
  /\ Main \notin Workers /\ Nobody \notin Workers /\ Main # Nobody
  /\ Daemons \subseteq Tasks /\ NoTask \notin Tasks
  /\ MaxThreads \in Nat /\ InitThreads \in 0 .. MaxThreads
  /\ MaxTasks \in Nat /\ MaxIdle \in Nat
  /\ MaxFailures \in Nat /\ MaxSpurious \in Nat

VARIABLES
  mutex,      \* queue.mutex: the thread that holds it, or Nobody
  queue,      \* the list from queue.head
  num,        \* queue.num
  total,      \* total_num
  busy,       \* busy_num
  shutdown,   \* shutdown == ENABLE
  tid,        \* the tid array
  pc,         \* where each worker is
  task,       \* the task each worker took last
  mpc,        \* where main is
  todo,       \* the tasks main has still to submit
  arg,        \* the task main is submitting
  i,          \* the loop counter of thread_pool_init and of thread_pool_stop
  accepted,   \* history: the tasks in the order task_create enqueued them
  started,    \* history: the tasks in the order the workers took them
  failures,   \* failed pthread_create and malloc calls so far
  phantom,    \* threads counted by thread_pool_init that were never created
  spurious    \* spurious wakeups so far

poolVars == <<queue, num, total, busy, shutdown, tid>>
workerVars == <<pc, task>>
mainVars == <<mpc, todo, arg, i>>
history == <<accepted, started, failures, phantom, spurious>>
vars == <<mutex, poolVars, workerVars, mainVars, history>>

Slots == 0 .. MaxThreads - 1

\* The pcs of a worker that is executing a task or has not yet given it back.
Running == {"run", "settleLock", "settle"}
\* The pcs of a worker on its way out of the pool, still counted by total.
Leaving == {"leaveLock", "leave"}
Gone == {"exited", "released"}
WorkerPC == {"none", "lock", "check", "wait", "woken"}
              \cup Running \cup Leaving \cup Gone
MainPC == {"init", "idle", "createLock", "create", "signal",
           "stop", "join", "stopped", "fault"}

Created == {w \in Workers : pc[w] # "none"}
Busy == {w \in Workers : pc[w] \in Running}
Members == {w \in Workers : pc[w] \notin {"none", "released"}}
Released == {w \in Workers : pc[w] \in Leaving \cup {"released"}}
Staying == {w \in Workers : pc[w] \notin {"none"} \cup Leaving \cup Gone}

-----------------------------------------------------------------------------
Init ==
  /\ mutex = Nobody
  /\ queue = <<>> /\ num = 0
  /\ total = InitThreads /\ busy = 0 /\ shutdown = FALSE
  /\ tid = [s \in Slots |-> Nobody]
  /\ pc = [w \in Workers |-> "none"]
  /\ task = [w \in Workers |-> NoTask]
  /\ mpc = "init" /\ todo = Tasks /\ arg = NoTask /\ i = 0
  /\ accepted = <<>> /\ started = <<>>
  /\ failures = 0 /\ phantom = 0 /\ spurious = 0

\* pthread_create(&pool->tid[slot], ...): a thread that never ran before starts
\* at the top of thread_pool_routine.
Spawn(slot) ==
  \E w \in Workers :
    /\ pc[w] = "none"
    /\ tid' = [tid EXCEPT ![slot] = w]
    /\ pc' = [pc EXCEPT ![w] = "lock"]

\* A call that may fail for want of memory or threads; MaxFailures bounds how
\* often it does.
Fail == failures < MaxFailures /\ failures' = failures + 1

\* pthread_create fails: so it must when Workers, the threads the process can
\* have, is used up.
SpawnFails ==
  /\ \/ Fail
     \/ (\A w \in Workers : pc[w] # "none") /\ UNCHANGED failures
  /\ UNCHANGED <<tid, pc>>

-----------------------------------------------------------------------------
(* thread_pool_init: the result of pthread_create is not looked at, and    *)
(* total_num counts the thread whether or not it exists.                   *)
InitThread ==
  /\ mpc = "init" /\ i < total
  /\ \/ Spawn(i) /\ UNCHANGED <<failures, phantom>>
     \/ SpawnFails /\ phantom' = phantom + 1
  /\ i' = i + 1
  /\ UNCHANGED <<mutex, queue, num, total, busy, shutdown, task, mpc, todo, arg,
                 accepted, started, spurious>>

InitDone ==
  /\ mpc = "init" /\ i >= total
  /\ mpc' = "idle"
  /\ UNCHANGED <<mutex, poolVars, workerVars, todo, arg, i, history>>

-----------------------------------------------------------------------------
(* thread_pool_routine                                                     *)

Lock(w, from, to) ==
  /\ pc[w] = from
  /\ mutex = Nobody
  /\ mutex' = w
  /\ pc' = [pc EXCEPT ![w] = to]
  /\ UNCHANGED <<poolVars, task, mainVars, history>>

\* The four places where a worker takes the mutex: the top of the loop, the
\* return of pthread_cond_wait, after the task, and before leaving.
LoopLock(w)   == Lock(w, "lock", "check")
WokenLock(w)  == Lock(w, "woken", "check")
SettleLock(w) == Lock(w, "settleLock", "settle")
LeaveLock(w)  == Lock(w, "leaveLock", "leave")

Wait(w) ==
  /\ pc[w] = "check" /\ mutex = w
  /\ num = 0 /\ ~shutdown
  /\ mutex' = Nobody
  /\ pc' = [pc EXCEPT ![w] = "wait"]
  /\ UNCHANGED <<poolVars, task, mainVars, history>>

SpuriousWake(w) ==
  /\ pc[w] = "wait"
  /\ spurious < MaxSpurious
  /\ spurious' = spurious + 1
  /\ pc' = [pc EXCEPT ![w] = "woken"]
  /\ UNCHANGED <<mutex, poolVars, task, mainVars, accepted, started, failures, phantom>>

MayQuit == shutdown /\ num = 0

\* Shut down with nothing queued: the worker exits and total_num keeps it.
Quit(w) ==
  /\ pc[w] = "check" /\ mutex = w
  /\ MayQuit
  /\ mutex' = Nobody
  /\ pc' = [pc EXCEPT ![w] = "exited"]
  /\ UNCHANGED <<poolVars, task, mainVars, history>>

\* The head of the list moves to the next task.  A slip: not when it is the last.
PopKeepLast == IF num = 1 THEN queue ELSE Tail(queue)
Pop == Tail(queue)

Take(w) ==
  /\ pc[w] = "check" /\ mutex = w
  /\ num # 0
  /\ task' = [task EXCEPT ![w] = Head(queue)]
  /\ queue' = Pop
  /\ num' = num - 1
  /\ busy' = busy + 1
  /\ started' = Append(started, Head(queue))
  /\ mutex' = Nobody
  /\ pc' = [pc EXCEPT ![w] = "run"]
  /\ UNCHANGED <<total, shutdown, tid, mainVars, accepted, failures, phantom, spurious>>

\* task->function(task->arg) returns.
Return(w) ==
  /\ pc[w] = "run"
  /\ pc' = [pc EXCEPT ![w] = "settleLock"]
  /\ UNCHANGED <<mutex, poolVars, task, mainVars, history>>

\* The worker gives its task back, and decides to leave from the counters it
\* reads here; it leaves (LeaveLock, Leave) after the mutex has been released.
Settle(w) ==
  /\ pc[w] = "settle" /\ mutex = w
  /\ busy' = busy - 1
  /\ mutex' = Nobody
  /\ pc' = [pc EXCEPT ![w] =
              IF total >= num + 1 /\ total - busy' > MaxIdle
              THEN "leaveLock" ELSE "lock"]
  /\ UNCHANGED <<queue, num, total, shutdown, tid, task, mainVars, history>>

\* A slip: leaving without being taken off the count.
LeaveUncounted(w) ==
  /\ pc[w] = "leave" /\ mutex = w
  /\ mutex' = Nobody
  /\ pc' = [pc EXCEPT ![w] = "released"]
  /\ UNCHANGED <<poolVars, task, mainVars, history>>

Leave(w) ==
  /\ pc[w] = "leave" /\ mutex = w
  /\ total' = total - 1
  /\ mutex' = Nobody
  /\ pc' = [pc EXCEPT ![w] = "released"]
  /\ UNCHANGED <<queue, num, busy, shutdown, tid, task, mainVars, history>>

-----------------------------------------------------------------------------
(* task_create                                                             *)

Call ==
  /\ mpc = "idle"
  /\ \E t \in todo : arg' = t /\ todo' = todo \ {t}
  /\ mpc' = "createLock"
  /\ UNCHANGED <<mutex, poolVars, workerVars, i, history>>

CreateLock ==
  /\ mpc = "createLock" /\ mutex = Nobody
  /\ mutex' = Main
  /\ mpc' = "create"
  /\ UNCHANGED <<poolVars, workerVars, todo, arg, i, history>>

Full == num = MaxTasks

\* The new task goes to the tail of the list.  A slip: it goes to the head.
InsertAtHead(t) == <<t>> \o queue
Insert(t) == Append(queue, t)

\* No member is idle and there is room for one more.
MayGrow == total - busy = 0 /\ total < MaxThreads

\* The slot of the thread array a new thread is written to.
NextSlot == total

\* A full queue or a failed malloc: the task is not queued and 1 is returned.
Refuse ==
  /\ mpc = "create" /\ mutex = Main
  /\ \/ Full /\ UNCHANGED failures
     \/ ~Full /\ Fail
  /\ mutex' = Nobody
  /\ mpc' = "idle"
  /\ UNCHANGED <<poolVars, workerVars, todo, arg, i, accepted, started, phantom, spurious>>

\* The task is appended; a thread is created only when no member is idle.  A
\* failed pthread_create returns 1 and leaves the task in the queue.
Enqueue ==
  /\ mpc = "create" /\ mutex = Main
  /\ ~Full
  /\ queue' = Insert(arg)
  /\ num' = num + 1
  /\ accepted' = Append(accepted, arg)
  /\ IF MayGrow
     THEN \/ Spawn(NextSlot) /\ total' = total + 1 /\ UNCHANGED failures
          \/ SpawnFails /\ UNCHANGED total
     ELSE UNCHANGED <<total, tid, pc, failures>>
  /\ mutex' = Nobody
  /\ mpc' = "signal"
  /\ UNCHANGED <<busy, shutdown, task, todo, arg, i, started, phantom, spurious>>

\* pthread_cond_signal: one waiter wakes if there is one.
WakeOne ==
  \/ \E w \in Workers : pc[w] = "wait" /\ pc' = [pc EXCEPT ![w] = "woken"]
  \/ (\A w \in Workers : pc[w] # "wait") /\ UNCHANGED pc

\* pthread_cond_broadcast: every waiter wakes.
WakeAll == pc' = [w \in Workers |-> IF pc[w] = "wait" THEN "woken" ELSE pc[w]]

\* A slip: signalling only when the queue was empty.
NotifyIfFirst == IF num = 1 THEN WakeOne ELSE UNCHANGED pc
Notify == WakeOne

\* The signal follows the unlock.
Signal ==
  /\ mpc = "signal"
  /\ mpc' = "idle"
  /\ Notify
  /\ UNCHANGED <<mutex, poolVars, task, todo, arg, i, history>>

-----------------------------------------------------------------------------
(* thread_pool_stop                                                        *)

StopLock ==
  /\ mpc = "idle" /\ todo = {}
  /\ mutex = Nobody
  /\ mutex' = Main
  /\ mpc' = "stop"
  /\ UNCHANGED <<poolVars, workerVars, todo, arg, i, history>>

\* A slip: the workers are woken only when there is something left to do.
NotifyStopIfQueued == IF num # 0 THEN WakeAll ELSE UNCHANGED pc
NotifyStop == WakeAll

Stop ==
  /\ mpc = "stop" /\ mutex = Main
  /\ shutdown' = TRUE
  /\ NotifyStop
  /\ mutex' = Nobody
  /\ mpc' = "join" /\ i' = 0
  /\ UNCHANGED <<queue, num, total, busy, tid, task, todo, arg, history>>

\* The condition of the join loop.  A slip: one turn too few.
JoinsLeftOneShort == i + 1 < total
JoinsLeft == i < total

\* One turn of the join loop: total_num is read again, without the mutex.
Join ==
  /\ mpc = "join" /\ JoinsLeft /\ tid[i] # Nobody
  /\ pc[tid[i]] \in Gone
  /\ i' = i + 1
  /\ UNCHANGED <<mutex, poolVars, workerVars, mpc, todo, arg, history>>

\* pthread_join of a slot that no pthread_create wrote: undefined behaviour.
JoinUnwritten ==
  /\ mpc = "join" /\ JoinsLeft /\ tid[i] = Nobody
  /\ mpc' = "fault"
  /\ UNCHANGED <<mutex, poolVars, workerVars, todo, arg, i, history>>

\* The loop ends: the mutex and the condition variable are destroyed.
Destroy ==
  /\ mpc = "join" /\ ~JoinsLeft
  /\ mpc' = "stopped"
  /\ UNCHANGED <<mutex, poolVars, workerVars, todo, arg, i, history>>

-----------------------------------------------------------------------------
WorkerStep(w) ==
  \/ LoopLock(w) \/ WokenLock(w) \/ SettleLock(w) \/ LeaveLock(w)
  \/ Wait(w) \/ Quit(w) \/ Take(w) \/ Settle(w) \/ Leave(w)

MainStep ==
  \/ InitThread \/ InitDone
  \/ Call \/ CreateLock \/ Refuse \/ Enqueue \/ Signal
  \/ StopLock \/ Stop \/ Join \/ JoinUnwritten \/ Destroy

\* The program is over: nothing is left to do.
Terminated ==
  /\ mpc \in {"stopped", "fault"}
  /\ \A w \in Workers : pc[w] \in {"none"} \cup Gone
  /\ UNCHANGED vars

Next ==
  \/ MainStep
  \/ \E w \in Workers : WorkerStep(w) \/ Return(w) \/ SpuriousWake(w)
  \/ Terminated

Spec == Init /\ [][Next]_vars

\* The threads run, and a task that is not a daemon returns.  Nothing is assumed
\* of a daemon and of spurious wakeups, and main need not stop the pool.
Fairness ==
  /\ WF_vars(MainStep /\ mpc' # "stop")
  /\ \A w \in Workers : WF_vars(WorkerStep(w))
  /\ \A w \in Workers : WF_vars(Return(w) /\ task[w] \notin Daemons)

FairSpec == Spec /\ Fairness

-----------------------------------------------------------------------------
(* What the pool promises                                                  *)

TypeOK ==
  /\ mutex \in Workers \cup {Main, Nobody}
  /\ queue \in Seq(Tasks) /\ num \in 0 .. MaxTasks
  /\ total \in 0 .. MaxThreads /\ busy \in Nat /\ shutdown \in BOOLEAN
  /\ tid \in [Slots -> Workers \cup {Nobody}]
  /\ pc \in [Workers -> WorkerPC] /\ task \in [Workers -> Tasks \cup {NoTask}]
  /\ mpc \in MainPC /\ todo \subseteq Tasks /\ arg \in Tasks \cup {NoTask} /\ i \in Nat
  /\ mpc \in {"createLock", "create"} => arg \in Tasks
  /\ accepted \in Seq(Tasks) /\ started \in Seq(Tasks)
  /\ failures \in Nat /\ phantom \in Nat /\ spurious \in Nat

\* The counters tell the truth about the threads and the list: busy_num is the
\* number of workers holding a task, total_num the number of workers that have
\* not been released (with the threads thread_pool_init counted but could not
\* create), so that total_num - busy_num never wraps below zero.
Accounting ==
  /\ num = Len(queue)
  /\ busy = Cardinality(Busy)
  /\ mpc # "init" => total = Cardinality(Members) + phantom

\* Every task task_create enqueued is queued or was started exactly once, and
\* the tasks start in the order in which they were enqueued: none is lost,
\* duplicated or overtaken, whatever the interleaving, the failed calls and
\* the shutdown.
FirstComeFirstRun ==
  /\ accepted = started \o queue
  /\ IsInjective(accepted)

\* thread_pool_stop returns only when no member is still in the routine,
\* provided that no worker was ever released and every thread was created:
\* the join loop then covers every thread exactly once.
StopJoinsEveryMember ==
  mpc = "stopped" /\ Released = {} /\ phantom = 0
    => \A w \in Created : pc[w] = "exited"

\* The queue is empty when a worker quits, and stays empty: shutdown drains it.
ShutdownDrains ==
  (\E w \in Workers : pc[w] = "exited") => shutdown /\ queue = <<>>

\* A join never reads a tid slot that was not written unless thread_pool_init
\* failed to create a thread.
JoinsAThread == mpc = "fault" => phantom > 0

\* What thread_pool_stop relies on and leaves: a drained queue, joins of threads only, and
\* nobody in the routine when it returns, each under the condition stated with it.
StopsClean == ShutdownDrains /\ JoinsAThread /\ StopJoinsEveryMember

\* Nobody sleeps over work: when a task is queued and every worker that stays
\* in the pool waits on the condition variable, main is about to signal it.
NoLostWakeup ==
  queue # <<>> /\ Staying # {} /\ (\A w \in Staying : pc[w] = "wait")
    => mpc = "signal"

\* An enqueued task is started, unless no worker is left to take it: every one
\* that stays is held by a daemon, or the pool has run dry.
Served ==
  \A t \in Tasks :
    (t \in Range(queue))
      ~> (t \in Range(started) \/ \A w \in Staying : pc[w] = "run" /\ task[w] \in Daemons)

\* thread_pool_stop terminates, unless it waits for a daemon.
StopTerminates ==
  (mpc = "stop") ~> (mpc \in {"stopped", "fault"}
                       \/ \E w \in Workers : pc[w] = "run" /\ task[w] \in Daemons)

\* The pool implements the bounded queue of TaskPool.  A task refused for a full
\* queue or for want of memory has not been handed over.
Executing == {task[w] : w \in {v \in Workers : pc[v] = "run"}}
Abstract == INSTANCE TaskPool WITH
  fresh <- Tasks \ Range(accepted),
  waiting <- queue,
  active <- Executing,
  done <- Range(started) \ Executing
ImplementsTaskPool == Abstract!Spec

-----------------------------------------------------------------------------
(* The inductive invariant behind the properties (ThreadPoolProofs)        *)

\* A thread is inside a critical section exactly when it holds the mutex.
MutexInv ==
  /\ \A w \in Workers : pc[w] \in {"check", "settle", "leave"} <=> mutex = w
  /\ mpc \in {"create", "stop"} <=> mutex = Main

\* While thread_pool_init runs, its loop counter is the number of threads so far,
\* and there is no task yet.
InitInv ==
  mpc = "init" => /\ i <= total /\ i = Cardinality(Members) + phantom
                  /\ num = 0 /\ busy = 0 /\ Released = {}

ShutdownInv == shutdown <=> mpc \in {"join", "stopped", "fault"}

\* The task being submitted, and the ones main still has, were never enqueued.
HandInv ==
  /\ todo \cap Range(accepted) = {}
  /\ mpc \in {"createLock", "create"} => arg \notin todo \cup Range(accepted)

\* A worker executes a task that was started, and no two execute the same.
HoldsInv ==
  \A w \in Workers : pc[w] = "run" =>
    /\ task[w] \in Range(started)
    /\ \A v \in Workers : pc[v] = "run" /\ task[v] = task[w] => v = w

\* The workers that will look at the queue before they wait.
Coming == {w \in Workers : pc[w] \in {"lock", "woken", "check"}}

\* While somebody waits, every queued task has a worker coming for it or a
\* signal still to be sent.
WakeInv ==
  (\E w \in Workers : pc[w] = "wait")
    => num <= Cardinality(Coming) + (IF mpc = "signal" THEN 1 ELSE 0)

\* Unless thread_pool_init failed to create a thread, the slots the join loop
\* reads hold threads.
UsedSlots == 0 .. (IF mpc = "init" THEN i ELSE total) - 1
SlotInv == phantom = 0 => \A s \in UsedSlots : tid[s] \in Created

\* As long as nobody was released, every thread is in a used slot, and the join
\* loop has seen the threads of the slots behind it exit.
JoinInv ==
  Released = {} /\ phantom = 0 =>
    /\ \A w \in Created : \E s \in UsedSlots : tid[s] = w
    /\ mpc = "join" => \A s \in UsedSlots : s < i => pc[tid[s]] = "exited"

CoreInv == TypeOK /\ MutexInv /\ Accounting /\ InitInv /\ ShutdownInv

IInv ==
  /\ CoreInv
  /\ HandInv /\ FirstComeFirstRun /\ HoldsInv
  /\ WakeInv /\ ShutdownDrains
  /\ SlotInv /\ JoinInv /\ JoinsAThread /\ StopJoinsEveryMember

-----------------------------------------------------------------------------
(* What the comments of wp_thread_pool.c say and the code does not do      *)

\* wp_thread_pool.c:23 says that releasing only when the threads outnumber the
\* tasks keeps the system from releasing threads while tasks are queued: a
\* pool that is not shut down never has queued tasks and no worker.
NeverDry == queue # <<>> /\ ~shutdown => Staying # {}
=============================================================================
