--------------------------- MODULE BlockingQueue ---------------------------
(***************************************************************************)
(* windz::BlockingQueue: a bounded queue under one mutex with two          *)
(* condition variables, and WakeUp()/Restore() to get blocked threads out. *)
(*                                                                         *)
(* A step is one critical section of mutex_: a thread that holds the mutex *)
(* either finishes its operation or releases it in pthread_cond_wait.  Who *)
(* calls what is said by the module that uses the queue (ThreadPool).      *)
(*                                                                         *)
(*   "idle"                not in the queue's code                         *)
(*   "pushing", "popping"  about to lock mutex_ and test the predicate     *)
(*   "pushwait", "popwait" in not_full_.Wait / not_empty_.Wait             *)
(***************************************************************************)
EXTENDS Naturals, Sequences, FiniteSets

CONSTANTS
    Threads,
    Items,      \* values pushed, each at most once
    maxsize_    \* 0 means no limit

ASSUME BlockingQueueAssumption ==
    IsFiniteSet(Threads) /\ Items # {} /\ maxsize_ \in Nat

VARIABLES
    queue_,
    wakeup_,
    status,     \* what each thread is doing
    arg,        \* the item a thread in Push() brings
    pushed,     \* history: items that entered the queue
    popped,     \* history: items that left it
    dropped     \* history: items whose Push() returned because of wakeup_

queueVars == <<queue_, wakeup_, status, arg, pushed, popped, dropped>>

Statuses == {"idle", "pushing", "pushwait", "popping", "popwait"}

\* One type per variable; only items somebody pushed are ever popped
\* (BlockingQueue.h:60-71).
QueueTypeOK ==
    /\ queue_ \in Seq(Items)
    /\ wakeup_ \in BOOLEAN
    /\ status \in [Threads -> Statuses]
    /\ arg \in [Threads -> Items]
    /\ pushed \in Seq(Items)
    /\ popped \in Seq(Items)
    /\ dropped \subseteq Items

QueueInit ==
    /\ queue_ = <<>>
    /\ wakeup_ = FALSE
    /\ status = [t \in Threads |-> "idle"]
    /\ arg = [t \in Threads |-> CHOOSE x \in Items : TRUE]
    /\ pushed = <<>>
    /\ popped = <<>>
    /\ dropped = {}

At(s) == {t \in Threads : status[t] = s}

Room == maxsize_ = 0 \/ Len(queue_) < maxsize_

\* The threads' next status when t goes to s and pthread_cond_signal is called
\* on a condition whose waiters have status w: one of them, if any, has to
\* test its predicate again, at r.
Signal(t, s, w, r) ==
    IF At(w) = {}
    THEN status' = [status EXCEPT ![t] = s]
    ELSE \E v \in At(w) : status' = [status EXCEPT ![t] = s, ![v] = r]

Unused(x) ==
    /\ \A i \in 1..Len(pushed) : pushed[i] # x
    /\ x \notin dropped
    /\ \A t \in At("pushing") \cup At("pushwait") : arg[t] # x

-----------------------------------------------------------------------------
(* Push.                                                                   *)

\* What is pushed is a new item; which one makes no difference.
PushCall(t) ==
    /\ status[t] = "idle"
    /\ \E x \in Items : Unused(x)
    /\ status' = [status EXCEPT ![t] = "pushing"]
    /\ arg' = [arg EXCEPT ![t] = CHOOSE x \in Items : Unused(x)]
    /\ UNCHANGED <<queue_, wakeup_, pushed, popped, dropped>>

PushWait(t) ==
    /\ status[t] = "pushing"
    /\ ~wakeup_ /\ ~Room
    /\ status' = [status EXCEPT ![t] = "pushwait"]
    /\ UNCHANGED <<queue_, wakeup_, arg, pushed, popped, dropped>>

\* A slip: the element is added and nobody is told.
PushSilent(t) ==
    /\ status[t] = "pushing"
    /\ ~wakeup_ /\ Room
    /\ queue_' = Append(queue_, arg[t])
    /\ pushed' = Append(pushed, arg[t])
    /\ status' = [status EXCEPT ![t] = "idle"]
    /\ UNCHANGED <<wakeup_, arg, popped, dropped>>

PushAdd(t) ==
    /\ status[t] = "pushing"
    /\ ~wakeup_ /\ Room
    /\ queue_' = Append(queue_, arg[t])
    /\ pushed' = Append(pushed, arg[t])
    /\ Signal(t, "idle", "popwait", "popping")
    /\ UNCHANGED <<wakeup_, arg, popped, dropped>>

\* wakeup_: Push returns without adding.
PushGiveUp(t) ==
    /\ status[t] = "pushing"
    /\ wakeup_
    /\ dropped' = dropped \cup {arg[t]}
    /\ status' = [status EXCEPT ![t] = "idle"]
    /\ UNCHANGED <<queue_, wakeup_, arg, pushed, popped>>

-----------------------------------------------------------------------------
(* Pop.                                                                    *)

PopCall(t) ==
    /\ status[t] = "idle"
    /\ status' = [status EXCEPT ![t] = "popping"]
    /\ UNCHANGED <<queue_, wakeup_, arg, pushed, popped, dropped>>

PopWait(t) ==
    /\ status[t] = "popping"
    /\ ~wakeup_ /\ queue_ = <<>>
    /\ status' = [status EXCEPT ![t] = "popwait"]
    /\ UNCHANGED <<queue_, wakeup_, arg, pushed, popped, dropped>>

\* A slip: not_full_ is not signalled.
PopSilent(t) ==
    /\ status[t] = "popping"
    /\ ~wakeup_ /\ queue_ # <<>>
    /\ popped' = Append(popped, Head(queue_))
    /\ queue_' = Tail(queue_)
    /\ status' = [status EXCEPT ![t] = "idle"]
    /\ UNCHANGED <<wakeup_, arg, pushed, dropped>>

PopTake(t) ==
    /\ status[t] = "popping"
    /\ ~wakeup_ /\ queue_ # <<>>
    /\ popped' = Append(popped, Head(queue_))
    /\ queue_' = Tail(queue_)
    /\ Signal(t, "idle", "pushwait", "pushing")
    /\ UNCHANGED <<wakeup_, arg, pushed, dropped>>

\* wakeup_: Pop returns T().
PopGiveUp(t) ==
    /\ status[t] = "popping"
    /\ wakeup_
    /\ status' = [status EXCEPT ![t] = "idle"]
    /\ UNCHANGED <<queue_, wakeup_, arg, pushed, popped, dropped>>

-----------------------------------------------------------------------------

\* A wait that returns without a signal, which POSIX allows.
Spurious(t) ==
    /\ status[t] \in {"pushwait", "popwait"}
    /\ status' = [status EXCEPT ![t] =
                    IF @ = "pushwait" THEN "pushing" ELSE "popping"]
    /\ UNCHANGED <<queue_, wakeup_, arg, pushed, popped, dropped>>

\* NotifyAll on both conditions.
AllAwake ==
    [t \in Threads |-> CASE status[t] = "pushwait" -> "pushing"
                         [] status[t] = "popwait" -> "popping"
                         [] OTHER -> status[t]]

WakeUp ==
    /\ wakeup_' = TRUE
    /\ status' = AllAwake
    /\ UNCHANGED <<queue_, arg, pushed, popped, dropped>>

Restore ==
    /\ wakeup_' = FALSE
    /\ UNCHANGED <<queue_, status, arg, pushed, popped, dropped>>

-----------------------------------------------------------------------------
(* Properties.                                                             *)

\* No consumer is left asleep beside an element nobody is coming for: while a
\* thread waits in Pop(), every element in the queue has a thread of its own
\* that will test the predicate (BlockingQueue.h:38, 60-65).
NoLostElement ==
    At("popwait") # {} => Len(queue_) <= Cardinality(At("popping"))

\* No producer is left asleep beside a free slot nobody is coming for
\* (BlockingQueue.h:24-32, 72).
NoLostSlot ==
    At("pushwait") # {} => maxsize_ <= Len(queue_) + Cardinality(At("pushing"))
=============================================================================
