----------------------------- MODULE ThreadPool -----------------------------
(***************************************************************************)
(* windz::ThreadPool: workers that pop tasks from a BlockingQueue, clients *)
(* that add them, and the owner's Start() and Stop().  The queue and its   *)
(* wait sets are those of module BlockingQueue; a worker is one of its     *)
(* threads.                                                                *)
(***************************************************************************)
EXTENDS BlockingQueue

CONSTANT Workers    \* the threads in threads_

ASSUME ThreadPoolAssumption == Workers \subseteq Threads /\ Workers # {}

VARIABLES
    running_,
    worker_pc,  \* "none", "check" (while (running_)), "pop", "task", "exited"
    owner_pc    \* "stopped", "starting", "running", "wakeup", "join", "restore"

poolVars == <<running_, worker_pc, owner_pc>>
vars == <<queueVars, poolVars>>

Clients == Threads \ Workers

\* One type per variable, those of the queue included (ThreadPool.h).
PoolTypeOK ==
    /\ QueueTypeOK
    /\ running_ \in BOOLEAN
    /\ worker_pc \in [Workers -> {"none", "check", "pop", "task", "exited"}]
    /\ owner_pc \in {"stopped", "starting", "running", "wakeup", "join", "restore"}

Init ==
    /\ QueueInit
    /\ running_ = FALSE
    /\ worker_pc = [w \in Workers |-> "none"]
    /\ owner_pc = "stopped"

WorkerTo(w, s) == worker_pc' = [worker_pc EXCEPT ![w] = s]

-----------------------------------------------------------------------------
(* The owner.                                                              *)

\* Start(): running_ is set, then the threads are made one after the other.
Start ==
    /\ owner_pc = "stopped"
    /\ running_' = TRUE
    /\ owner_pc' = "starting"
    /\ UNCHANGED <<queueVars, worker_pc>>

StartWorker(w) ==
    /\ owner_pc = "starting"
    /\ worker_pc[w] = "none"
    /\ WorkerTo(w, "check")
    /\ UNCHANGED <<queueVars, running_, owner_pc>>

StartReturns ==
    /\ owner_pc = "starting"
    /\ \A w \in Workers : worker_pc[w] # "none"
    /\ owner_pc' = "running"
    /\ UNCHANGED <<queueVars, running_, worker_pc>>

\* Stop(): running_ = false ...
Stop ==
    /\ owner_pc = "running"
    /\ running_' = FALSE
    /\ owner_pc' = "wakeup"
    /\ UNCHANGED <<queueVars, worker_pc>>

\* A slip: no WakeUp().
StopForgetsWakeUp ==
    /\ owner_pc = "wakeup"
    /\ owner_pc' = "join"
    /\ UNCHANGED <<queueVars, running_, worker_pc>>

\* ... queue_.WakeUp() ...
StopWakesQueue ==
    /\ owner_pc = "wakeup"
    /\ WakeUp
    /\ owner_pc' = "join"
    /\ UNCHANGED <<running_, worker_pc>>

\* A slip: one worker's end is enough.
StopJoinsOne ==
    /\ owner_pc = "join"
    /\ \E w \in Workers : worker_pc[w] = "exited"
    /\ owner_pc' = "restore"
    /\ worker_pc' = [w \in Workers |-> IF worker_pc[w] = "exited" THEN "none" ELSE worker_pc[w]]
    /\ UNCHANGED <<queueVars, running_>>

\* ... Join() on each worker, threads_.clear() ...
StopJoins ==
    /\ owner_pc = "join"
    /\ \A w \in Workers : worker_pc[w] = "exited"
    /\ owner_pc' = "restore"
    /\ worker_pc' = [w \in Workers |-> "none"]
    /\ UNCHANGED <<queueVars, running_>>

\* ... queue_.Restore().
StopRestores ==
    /\ owner_pc = "restore"
    /\ Restore
    /\ owner_pc' = "stopped"
    /\ UNCHANGED <<running_, worker_pc>>

-----------------------------------------------------------------------------
(* The workers.                                                            *)

\* while (running_)
WorkerCheck(w) ==
    /\ worker_pc[w] = "check"
    /\ \/ running_ /\ PopCall(w) /\ WorkerTo(w, "pop")
       \/ ~running_ /\ WorkerTo(w, "exited") /\ UNCHANGED queueVars
    /\ UNCHANGED <<running_, owner_pc>>

\* Task task = queue_.Pop(); an empty task is not called.
WorkerPop(w) ==
    /\ worker_pc[w] = "pop"
    /\ \/ PopWait(w) /\ UNCHANGED worker_pc
       \/ PopTake(w) /\ WorkerTo(w, "task")
       \/ PopGiveUp(w) /\ WorkerTo(w, "check")
    /\ UNCHANGED <<running_, owner_pc>>

\* A task that calls AddTask itself.
TaskAdds(w) ==
    /\ worker_pc[w] = "task"
    /\ PushCall(w)
    /\ UNCHANGED poolVars

TaskReturns(w) ==
    /\ worker_pc[w] = "task"
    /\ status[w] = "idle"
    /\ WorkerTo(w, "check")
    /\ UNCHANGED <<queueVars, running_, owner_pc>>

-----------------------------------------------------------------------------

\* AddTask, by a client or in a task, once called.
AddTask(t) ==
    /\ PushWait(t) \/ PushAdd(t) \/ PushGiveUp(t)
    /\ UNCHANGED poolVars

OwnerStep ==
    \/ \E w \in Workers : StartWorker(w)
    \/ StartReturns
    \/ StopWakesQueue \/ StopJoins \/ StopRestores

Next ==
    \/ Start
    \/ Stop
    \/ OwnerStep
    \/ \E w \in Workers :
          WorkerCheck(w) \/ WorkerPop(w) \/ TaskAdds(w) \/ TaskReturns(w)
    \/ \E c \in Clients : PushCall(c) /\ UNCHANGED poolVars
    \/ \E t \in Threads : AddTask(t)
    \/ \E t \in Threads : Spurious(t) /\ UNCHANGED poolVars

\* Threads keep running and tasks return.  Nobody has to call Start or Stop.
Fairness ==
    /\ WF_vars(OwnerStep)
    /\ \A w \in Workers :
          WF_vars(WorkerCheck(w)) /\ WF_vars(WorkerPop(w)) /\ WF_vars(TaskReturns(w))
    /\ \A t \in Threads : WF_vars(AddTask(t))

Spec == Init /\ [][Next]_vars /\ Fairness

-----------------------------------------------------------------------------
(* Properties.                                                             *)

\* While the pool is stopped no thread runs a task or waits for one, so that
\* Start() may be called again and the queue is back in its initial mode
\* (ThreadPool.cpp:17, 33-41).
StoppedMeansQuiet ==
    owner_pc = "stopped" =>
        /\ ~wakeup_
        /\ \A w \in Workers : worker_pc[w] = "none" /\ status[w] = "idle"

\* Stop() returns, whatever the workers are doing when it is called: in Pop(),
\* in a task, or in a task's AddTask on a full queue (ThreadPool.cpp:33-41).
StopReturns ==
    owner_pc = "wakeup" ~> owner_pc = "stopped"

\* Every worker is blocked in the AddTask of its own task.
AllWorkersAdd ==
    \A w \in Workers : worker_pc[w] = "task" /\ status[w] \in {"pushing", "pushwait"}

\* An added task runs as long as the pool is not stopped (ThreadPool.cpp:22-27):
\* the one thing in the way is tasks that add tasks to a full queue in every
\* worker at once.
AddedTaskRuns ==
    \A x \in Items :
        (owner_pc = "running" /\ \E i \in 1..Len(queue_) : queue_[i] = x)
            ~> \/ owner_pc # "running"
               \/ AllWorkersAdd
               \/ \E i \in 1..Len(popped) : popped[i] = x

\* The comment on WakeUp() (BlockingQueue.h:80-82): threads blocked in Push()
\* are woken, all of them before Restore().  So an AddTask that is blocked when
\* Stop() is called returns.
StopReleasesClients ==
    \A c \in Clients :
        (owner_pc = "wakeup" /\ status[c] = "pushwait") ~> status[c] = "idle"
=============================================================================
