-------------------------- MODULE ThreadPoolProofs --------------------------
(***************************************************************************)
(* Theorems about BlockingQueue, as ThreadPool uses it, for any finite set *)
(* of threads, any workers among them and any bound: no signal is lost.    *)
(* The invariants count the threads that are on their way to the queue.    *)
(***************************************************************************)
EXTENDS ThreadPool, FiniteSetTheorems, SequenceTheorems, TLAPS

\* Nobody waits while wakeup_ is set.
WakeUpInv == wakeup_ => \A t \in Threads : status[t] \notin {"pushwait", "popwait"}

\* The bound holds (BlockingQueue.h:24-32).
QueueBounded == maxsize_ # 0 => Len(queue_) <= maxsize_

QueueIInv == QueueTypeOK /\ WakeUpInv /\ QueueBounded /\ NoLostElement /\ NoLostSlot

-----------------------------------------------------------------------------
(* Counting threads.                                                       *)

Where(f, s) == {t \in Threads : f[t] = s}

Many(f, s) == Cardinality(Where(f, s))

\* Threads is finite, so the threads with a status can be counted.
LEMMA Counted ==
    ASSUME NEW f, NEW s
    PROVE  /\ IsFiniteSet(Where(f, s))
           /\ Many(f, s) \in Nat
           /\ Many(f, s) = 0 <=> Where(f, s) = {}
<1>1. IsFiniteSet(Where(f, s))
  BY BlockingQueueAssumption, FS_Subset DEF Where
<1> QED
  BY <1>1, FS_CardinalityType, FS_EmptySet DEF Many

\* A thread that goes from one status to another leaves one set of threads and
\* joins another.
LEMMA Move ==
    ASSUME NEW f \in [Threads -> Statuses], NEW t \in Threads, NEW to \in Statuses,
           f[t] # to, NEW s \in Statuses
    PROVE  /\ s = f[t] => Many([f EXCEPT ![t] = to], s) = Many(f, s) - 1
           /\ s = to => Many([f EXCEPT ![t] = to], s) = Many(f, s) + 1
           /\ s # f[t] /\ s # to => Many([f EXCEPT ![t] = to], s) = Many(f, s)
<1> DEFINE g == [f EXCEPT ![t] = to]
<1>1. IsFiniteSet(Where(f, s))
  BY Counted
<1>2. ASSUME s = f[t] PROVE Many(g, s) = Many(f, s) - 1
  <2>1. Where(g, s) = Where(f, s) \ {t} /\ t \in Where(f, s)
    BY <1>2 DEF Where
  <2>2. Cardinality(Where(f, s) \ {t}) = Cardinality(Where(f, s)) - 1
    BY <1>1, <2>1, FS_RemoveElement
  <2> QED
    BY <2>1, <2>2 DEF Many
<1>3. ASSUME s = to PROVE Many(g, s) = Many(f, s) + 1
  <2>1. Where(g, s) = Where(f, s) \cup {t} /\ t \notin Where(f, s)
    BY <1>3 DEF Where
  <2>2. Cardinality(Where(f, s) \cup {t}) = Cardinality(Where(f, s)) + 1
    BY <1>1, <2>1, FS_AddElement
  <2> QED
    BY <2>1, <2>2 DEF Many
<1>4. ASSUME s # f[t], s # to PROVE Many(g, s) = Many(f, s)
  <2>1. Where(g, s) = Where(f, s)
    BY <1>4 DEF Where
  <2> QED
    BY <2>1 DEF Many
<1> QED
  BY <1>2, <1>3, <1>4

\* NoLostElement and NoLostSlot, of statuses f and a queue of length n.
Balanced(f, n) ==
    /\ Many(f, "popwait") # 0 => n <= Many(f, "popping")
    /\ Many(f, "pushwait") # 0 => maxsize_ <= n + Many(f, "pushing")

\* Balanced is what the properties say, in this state ...
LEMMA BalancedIsNoneLost ==
    Balanced(status, Len(queue_)) <=> NoLostElement /\ NoLostSlot
BY Counted DEF Balanced, NoLostElement, NoLostSlot, At, Where, Many

\* ... and in the next one.
LEMMA BalancedNext ==
    Balanced(status', Len(queue_')) <=> NoLostElement' /\ NoLostSlot'
BY Counted DEF Balanced, NoLostElement, NoLostSlot, At, Where, Many

\* The counts that matter after one move.
LEMMA MoveCounts ==
    ASSUME NEW f \in [Threads -> Statuses], NEW t \in Threads, NEW to \in Statuses,
           f[t] # to
    PROVE  LET g == [f EXCEPT ![t] = to]
               Change(s) == IF s = to THEN 1 ELSE IF s = f[t] THEN -1 ELSE 0
           IN  /\ Many(g, "pushing") = Many(f, "pushing") + Change("pushing")
               /\ Many(g, "pushwait") = Many(f, "pushwait") + Change("pushwait")
               /\ Many(g, "popping") = Many(f, "popping") + Change("popping")
               /\ Many(g, "popwait") = Many(f, "popwait") + Change("popwait")
<1> DEFINE g == [f EXCEPT ![t] = to]
           Change(s) == IF s = to THEN 1 ELSE IF s = f[t] THEN -1 ELSE 0
<1>1. ASSUME NEW s \in Statuses PROVE Many(g, s) = Many(f, s) + Change(s)
  <2>1. Many(f, s) \in Nat /\ Many(g, s) \in Nat
    BY Counted
  <2> HIDE DEF g
  <2>2. /\ s = f[t] => Many(g, s) = Many(f, s) - 1
        /\ s = to => Many(g, s) = Many(f, s) + 1
        /\ s # f[t] /\ s # to => Many(g, s) = Many(f, s)
    BY Move DEF g
  <2> QED
    BY <2>1, <2>2
<1>2. "pushing" \in Statuses /\ "pushwait" \in Statuses
      /\ "popping" \in Statuses /\ "popwait" \in Statuses
  BY DEF Statuses
<1> QED
  BY <1>1, <1>2

\* What a move does to the balance, case by case.
LEMMA MoveBalanced ==
    ASSUME NEW f \in [Threads -> Statuses], NEW t \in Threads, NEW to \in Statuses,
           NEW n \in Nat, Balanced(f, n), f[t] # to
    PROVE  LET g == [f EXCEPT ![t] = to]
           IN  /\ f[t] \in {"idle", "pushwait", "popwait"} /\ to \in {"pushing", "popping"}
                     => Balanced(g, n)
               /\ f[t] = "pushing" /\ to = "pushwait" /\ maxsize_ <= n => Balanced(g, n)
               /\ f[t] = "popping" /\ to = "popwait" /\ n = 0 => Balanced(g, n)
               /\ f[t] = "pushing" /\ to = "idle" /\ Many(f, "popwait") = 0
                     => Balanced(g, n + 1)
               /\ f[t] = "popping" /\ to = "idle" /\ Many(f, "pushwait") = 0 /\ n # 0
                     => Balanced(g, n - 1)
<1> DEFINE g == [f EXCEPT ![t] = to]
<1>1. /\ Many(f, "pushing") \in Nat /\ Many(f, "pushwait") \in Nat
      /\ Many(f, "popping") \in Nat /\ Many(f, "popwait") \in Nat
      /\ Many(g, "pushing") \in Nat /\ Many(g, "pushwait") \in Nat
      /\ Many(g, "popping") \in Nat /\ Many(g, "popwait") \in Nat
  BY Counted
<1>2. maxsize_ \in Nat
  BY BlockingQueueAssumption
<1> HIDE DEF g
<1>3. LET Change(s) == IF s = to THEN 1 ELSE IF s = f[t] THEN -1 ELSE 0
      IN  /\ Many(g, "pushing") = Many(f, "pushing") + Change("pushing")
          /\ Many(g, "pushwait") = Many(f, "pushwait") + Change("pushwait")
          /\ Many(g, "popping") = Many(f, "popping") + Change("popping")
          /\ Many(g, "popwait") = Many(f, "popwait") + Change("popwait")
  BY MoveCounts DEF g
<1>4. /\ f[t] \in {"idle", "pushwait", "popwait"} /\ to \in {"pushing", "popping"}
            => Balanced(g, n)
      /\ f[t] = "pushing" /\ to = "pushwait" /\ maxsize_ <= n => Balanced(g, n)
      /\ f[t] = "popping" /\ to = "popwait" /\ n = 0 => Balanced(g, n)
      /\ f[t] = "pushing" /\ to = "idle" /\ Many(f, "popwait") = 0
            => Balanced(g, n + 1)
      /\ f[t] = "popping" /\ to = "idle" /\ Many(f, "pushwait") = 0 /\ n # 0
            => Balanced(g, n - 1)
  BY <1>1, <1>2, <1>3 DEF Balanced
<1> QED
  BY <1>4 DEF g

\* The same for a thread that leaves and the waiter it signals.
LEMMA SignalBalanced ==
    ASSUME NEW f \in [Threads -> Statuses], NEW t \in Threads, NEW v \in Threads, t # v,
           NEW n \in Nat, Balanced(f, n)
    PROVE  LET g(to) == [f EXCEPT ![t] = "idle", ![v] = to]
           IN  /\ f[t] = "pushing" /\ f[v] = "popwait" => Balanced(g("popping"), n + 1)
               /\ f[t] = "popping" /\ f[v] = "pushwait" /\ n # 0
                     => Balanced(g("pushing"), n - 1)
<1> DEFINE h == [f EXCEPT ![t] = "idle"]
           g(to) == [f EXCEPT ![t] = "idle", ![v] = to]
<1>1. h \in [Threads -> Statuses] /\ h[v] = f[v] /\ \A to : g(to) = [h EXCEPT ![v] = to]
  BY DEF Statuses
<1>2. maxsize_ \in Nat
  BY BlockingQueueAssumption
<1>3. /\ Many(f, "pushing") \in Nat /\ Many(f, "pushwait") \in Nat
      /\ Many(f, "popping") \in Nat /\ Many(f, "popwait") \in Nat
  BY Counted
<1>4. ASSUME f[t] = "pushing", f[v] = "popwait" PROVE Balanced(g("popping"), n + 1)
  <2> HIDE DEF g
  <2>1. /\ Many(h, "pushing") = Many(f, "pushing") + (-1)
        /\ Many(h, "pushwait") = Many(f, "pushwait") + 0
        /\ Many(h, "popping") = Many(f, "popping") + 0
    BY <1>4, MoveCounts DEF Statuses
  <2> HIDE DEF h
  <2>2. [h EXCEPT ![v] = "popping"] = g("popping")
    BY <1>1
  <2>3. /\ Many(g("popping"), "pushing") = Many(h, "pushing") + 0
        /\ Many(g("popping"), "pushwait") = Many(h, "pushwait") + 0
        /\ Many(g("popping"), "popping") = Many(h, "popping") + 1
    BY <1>1, <1>4, <2>2, MoveCounts DEF Statuses
  <2>4. Many(f, "popwait") # 0
    BY <1>4, Counted DEF Where
  <2> QED
    BY <1>2, <1>3, <2>1, <2>3, <2>4 DEF Balanced
<1>5. ASSUME f[t] = "popping", f[v] = "pushwait", n # 0 PROVE Balanced(g("pushing"), n - 1)
  <2> HIDE DEF g
  <2>1. /\ Many(h, "pushing") = Many(f, "pushing") + 0
        /\ Many(h, "popwait") = Many(f, "popwait") + 0
        /\ Many(h, "popping") = Many(f, "popping") + (-1)
    BY <1>5, MoveCounts DEF Statuses
  <2> HIDE DEF h
  <2>2. [h EXCEPT ![v] = "pushing"] = g("pushing")
    BY <1>1
  <2>3. /\ Many(g("pushing"), "pushing") = Many(h, "pushing") + 1
        /\ Many(g("pushing"), "popwait") = Many(h, "popwait") + 0
        /\ Many(g("pushing"), "popping") = Many(h, "popping") + 0
    BY <1>1, <1>5, <2>2, MoveCounts DEF Statuses
  <2>4. Many(f, "pushwait") # 0
    BY <1>5, Counted DEF Where
  <2> QED
    BY <1>2, <1>3, <2>1, <2>3, <2>4 DEF Balanced
<1> QED
  BY <1>4, <1>5

-----------------------------------------------------------------------------
(* Every step of a thread in the queue's code.                             *)

\* A thread that calls Push() or Pop() only adds to those that will test a
\* predicate.
LEMMA CallsKeep ==
    ASSUME QueueIInv, NEW t \in Threads, PushCall(t) \/ PopCall(t)
    PROVE  QueueIInv'
<1> USE DEF QueueIInv, QueueTypeOK, Statuses
<1>0. Len(queue_) \in Nat
  OBVIOUS
<1>1. ASSUME PushCall(t) PROVE QueueIInv'
  <2> DEFINE x == CHOOSE x \in Items : Unused(x)
  <2>1. x \in Items
    BY <1>1 DEF PushCall
  <2>2. QueueTypeOK'
    BY <1>1, <2>1 DEF PushCall
  <2>3. WakeUpInv' /\ QueueBounded'
    BY <1>1 DEF PushCall, WakeUpInv, QueueBounded
  <2>4. Balanced(status', Len(queue_'))
    BY <1>0, <1>1, BalancedIsNoneLost, MoveBalanced DEF PushCall
  <2> QED
    BY <2>2, <2>3, <2>4, BalancedNext
<1>2. ASSUME PopCall(t) PROVE QueueIInv'
  <2>1. QueueTypeOK' /\ WakeUpInv' /\ QueueBounded'
    BY <1>2 DEF PopCall, WakeUpInv, QueueBounded
  <2>2. Balanced(status', Len(queue_'))
    BY <1>0, <1>2, BalancedIsNoneLost, MoveBalanced DEF PopCall
  <2> QED
    BY <2>1, <2>2, BalancedNext
<1> QED
  BY <1>1, <1>2

\* A thread waits only when the queue gives it a reason to.
LEMMA WaitsKeep ==
    ASSUME QueueIInv, NEW t \in Threads, PushWait(t) \/ PopWait(t)
    PROVE  QueueIInv'
<1> USE DEF QueueIInv, QueueTypeOK, Statuses
<1>0. Len(queue_) \in Nat /\ maxsize_ \in Nat
  BY BlockingQueueAssumption
<1>1. ASSUME PushWait(t) PROVE QueueIInv'
  <2>1. QueueTypeOK' /\ WakeUpInv' /\ QueueBounded'
    BY <1>1 DEF PushWait, WakeUpInv, QueueBounded
  <2>2. maxsize_ <= Len(queue_) /\ queue_' = queue_ /\ status[t] = "pushing"
    BY <1>0, <1>1 DEF PushWait, Room
  <2>3. Balanced(status', Len(queue_'))
    BY <1>0, <1>1, <2>2, BalancedIsNoneLost, MoveBalanced DEF PushWait
  <2> QED
    BY <2>1, <2>3, BalancedNext
<1>2. ASSUME PopWait(t) PROVE QueueIInv'
  <2>1. QueueTypeOK' /\ WakeUpInv' /\ QueueBounded'
    BY <1>2 DEF PopWait, WakeUpInv, QueueBounded
  <2>2. Balanced(status', Len(queue_'))
    BY <1>0, <1>2, BalancedIsNoneLost, MoveBalanced DEF PopWait
  <2> QED
    BY <2>1, <2>2, BalancedNext
<1> QED
  BY <1>1, <1>2

\* When wakeup_ is set nobody waits, so that nobody misses those who leave.
LEMMA GivingUpKeeps ==
    ASSUME QueueIInv, NEW t \in Threads, PushGiveUp(t) \/ PopGiveUp(t)
    PROVE  QueueIInv'
<1> USE DEF QueueIInv, QueueTypeOK, Statuses
<1>1. wakeup_ /\ wakeup_' = wakeup_ /\ queue_' = queue_
  BY DEF PushGiveUp, PopGiveUp
<1>2. status' = [status EXCEPT ![t] = "idle"]
  BY DEF PushGiveUp, PopGiveUp
<1>3. QueueTypeOK'
  BY DEF PushGiveUp, PopGiveUp
<1>4. WakeUpInv' /\ QueueBounded'
  BY <1>1, <1>2 DEF WakeUpInv, QueueBounded
<1>5. NoLostElement' /\ NoLostSlot'
  BY <1>1, <1>4 DEF WakeUpInv, NoLostElement, NoLostSlot, At
<1> QED
  BY <1>3, <1>4, <1>5

\* A spurious wakeup only adds to those that will test a predicate.
LEMMA SpuriousKeeps ==
    ASSUME QueueIInv, NEW t \in Threads, Spurious(t)
    PROVE  QueueIInv'
<1> USE DEF QueueIInv, QueueTypeOK, Statuses
<1>0. Len(queue_) \in Nat
  OBVIOUS
<1> DEFINE to == IF status[t] = "pushwait" THEN "pushing" ELSE "popping"
<1>1. status' = [status EXCEPT ![t] = to] /\ to \in Statuses /\ status[t] # to
  BY DEF Spurious
<1>2. QueueTypeOK' /\ WakeUpInv' /\ QueueBounded'
  BY <1>1 DEF Spurious, WakeUpInv, QueueBounded
<1>3. Balanced(status', Len(queue_'))
  <2>1. /\ queue_' = queue_ /\ Balanced(status, Len(queue_))
        /\ status[t] \in {"idle", "pushwait", "popwait"} /\ to \in {"pushing", "popping"}
    BY BalancedIsNoneLost DEF Spurious
  <2> HIDE DEF to
  <2> QED
    BY <1>0, <1>1, <2>1, MoveBalanced
<1> QED
  BY <1>2, <1>3, BalancedNext

\* WakeUp() gets everybody out of the waits (BlockingQueue.h:83-88).
LEMMA WakeUpKeeps ==
    ASSUME QueueIInv, WakeUp
    PROVE  QueueIInv'
<1> USE DEF QueueIInv, QueueTypeOK, Statuses
<1>1. \A t \in Threads : status'[t] \in Statuses \ {"pushwait", "popwait"}
  BY DEF WakeUp, AllAwake
<1>2. QueueTypeOK'
  BY <1>1 DEF WakeUp, AllAwake
<1>3. WakeUpInv' /\ QueueBounded'
  BY <1>1 DEF WakeUp, WakeUpInv, QueueBounded
<1>4. NoLostElement' /\ NoLostSlot'
  BY <1>1 DEF NoLostElement, NoLostSlot, At
<1> QED
  BY <1>2, <1>3, <1>4

\* Restore() only resets wakeup_.
LEMMA RestoreKeeps ==
    ASSUME QueueIInv, Restore
    PROVE  QueueIInv'
BY DEF QueueIInv, QueueTypeOK, Restore, WakeUpInv, QueueBounded,
       NoLostElement, NoLostSlot, At

\* The thread that adds an element leaves, and if a thread waits in Pop() one
\* of those goes to fetch it.
LEMMA PushAddKeeps ==
    ASSUME QueueIInv, NEW t \in Threads, PushAdd(t)
    PROVE  QueueIInv'
<1> USE DEF QueueIInv, QueueTypeOK, Statuses
<1> DEFINE f == [status EXCEPT ![t] = "idle"]
<1>1. /\ queue_' \in Seq(Items) /\ pushed' \in Seq(Items)
      /\ Len(queue_) \in Nat /\ Len(queue_') = Len(queue_) + 1
  BY DEF PushAdd
<1>2. maxsize_ \in Nat
  BY BlockingQueueAssumption
<1>3. QueueBounded'
  BY <1>1, <1>2 DEF PushAdd, Room, QueueBounded
<1>4. WakeUpInv'
  BY DEF PushAdd, WakeUpInv
<1>5. status' \in [Threads -> Statuses]
  BY DEF PushAdd, Signal
<1>6. QueueTypeOK'
  BY <1>1, <1>5 DEF PushAdd
<1>7. Balanced(status, Len(queue_)) /\ status[t] = "pushing"
  BY BalancedIsNoneLost DEF PushAdd
<1>8. CASE At("popwait") = {}
  <2>1. status' = f
    BY <1>8 DEF PushAdd, Signal
  <2>2. Many(status, "popwait") = 0
    BY <1>8, Counted DEF At, Where
  <2>3. Balanced(status', Len(queue_'))
    BY <1>1, <1>7, <2>1, <2>2, MoveBalanced
  <2> QED
    BY <1>3, <1>4, <1>6, <2>3, BalancedNext
<1>9. CASE At("popwait") # {}
  <2>1. PICK v \in At("popwait") : status' = [status EXCEPT ![t] = "idle", ![v] = "popping"]
    BY <1>9 DEF PushAdd, Signal
  <2>2. v \in Threads /\ v # t /\ status[v] = "popwait"
    BY <1>7, <2>1 DEF At
  <2>3. Balanced(status', Len(queue_'))
    BY <1>1, <1>7, <2>1, <2>2, SignalBalanced
  <2> QED
    BY <1>3, <1>4, <1>6, <2>3, BalancedNext
<1> QED
  BY <1>8, <1>9
\* The thread that takes an element leaves, and if a thread waits in Push() one
\* of those goes to fill the slot.
LEMMA PopTakeKeeps ==
    ASSUME QueueIInv, NEW t \in Threads, PopTake(t)
    PROVE  QueueIInv'
<1> USE DEF QueueIInv, QueueTypeOK, Statuses
<1> DEFINE f == [status EXCEPT ![t] = "idle"]
<1>1. /\ queue_' \in Seq(Items) /\ popped' \in Seq(Items)
      /\ Len(queue_) \in Nat /\ Len(queue_) # 0 /\ Len(queue_') = Len(queue_) - 1
  BY DEF PopTake
<1>2. maxsize_ \in Nat
  BY BlockingQueueAssumption
<1>3. QueueBounded'
  BY <1>1, <1>2 DEF PopTake, QueueBounded
<1>4. WakeUpInv'
  BY DEF PopTake, WakeUpInv
<1>5. status' \in [Threads -> Statuses]
  BY DEF PopTake, Signal
<1>6. QueueTypeOK'
  BY <1>1, <1>5 DEF PopTake
<1>7. Balanced(status, Len(queue_)) /\ status[t] = "popping"
  BY BalancedIsNoneLost DEF PopTake
<1>8. CASE At("pushwait") = {}
  <2>1. status' = f
    BY <1>8 DEF PopTake, Signal
  <2>2. Many(status, "pushwait") = 0
    BY <1>8, Counted DEF At, Where
  <2>3. Balanced(status', Len(queue_'))
    BY <1>1, <1>7, <2>1, <2>2, MoveBalanced
  <2> QED
    BY <1>3, <1>4, <1>6, <2>3, BalancedNext
<1>9. CASE At("pushwait") # {}
  <2>1. PICK v \in At("pushwait") : status' = [status EXCEPT ![t] = "idle", ![v] = "pushing"]
    BY <1>9 DEF PopTake, Signal
  <2>2. v \in Threads /\ v # t /\ status[v] = "pushwait"
    BY <1>7, <2>1 DEF At
  <2>3. Balanced(status', Len(queue_'))
    BY <1>1, <1>7, <2>1, <2>2, SignalBalanced
  <2> QED
    BY <1>3, <1>4, <1>6, <2>3, BalancedNext
<1> QED
  BY <1>8, <1>9

-----------------------------------------------------------------------------
(* The pool.                                                               *)

\* What a worker may be doing in the queue's code, by where it is in its own
\* (ThreadPool.cpp:20-29).
WorkerInv ==
    \A w \in Workers :
        /\ worker_pc[w] \in {"none", "check", "exited"} => status[w] = "idle"
        /\ worker_pc[w] = "pop" => status[w] \in {"popping", "popwait"}
        /\ worker_pc[w] = "task" => status[w] \in {"idle", "pushing", "pushwait"}

\* When Stop() has joined the workers there are none, and the queue is back in
\* its initial mode before Start() may be called (ThreadPool.cpp:33-41).
OwnerInv ==
    /\ owner_pc \in {"stopped", "restore"} => \A w \in Workers : worker_pc[w] = "none"
    /\ owner_pc = "stopped" => ~wakeup_

PoolIInv == PoolTypeOK /\ QueueIInv /\ WorkerInv /\ OwnerInv

\* A step of one thread in the queue's code at most sends the others from a
\* wait back to the predicate.
OthersOnlyWake(t) ==
    \A u \in Threads \ {t} :
        \/ status'[u] = status[u]
        \/ status[u] = "popwait" /\ status'[u] = "popping"
        \/ status[u] = "pushwait" /\ status'[u] = "pushing"

\* What the steps of Push() do to statuses: their own thread's, and one it wakes.
LEMMA PushEffect ==
    ASSUME QueueTypeOK, NEW t \in Threads, PushWait(t) \/ PushAdd(t) \/ PushGiveUp(t)
    PROVE  /\ OthersOnlyWake(t)
           /\ status[t] = "pushing" /\ status'[t] \in {"idle", "pushwait"}
           /\ wakeup_' = wakeup_
<1>1. CASE PushWait(t)
  BY <1>1 DEF PushWait, QueueTypeOK, OthersOnlyWake
<1>2. CASE PushGiveUp(t)
  BY <1>2 DEF PushGiveUp, QueueTypeOK, OthersOnlyWake
<1>3. CASE PushAdd(t)
  <2>1. CASE At("popwait") = {}
    BY <1>3, <2>1 DEF PushAdd, Signal, QueueTypeOK, OthersOnlyWake
  <2>2. CASE At("popwait") # {}
    BY <1>3, <2>2 DEF PushAdd, Signal, At, QueueTypeOK, OthersOnlyWake
  <2> QED
    BY <2>1, <2>2
<1> QED
  BY <1>1, <1>2, <1>3

\* The same for Pop().
LEMMA PopEffect ==
    ASSUME QueueTypeOK, NEW t \in Threads
    PROVE  /\ PopWait(t) => OthersOnlyWake(t) /\ status'[t] = "popwait"
           /\ PopTake(t) \/ PopGiveUp(t) => OthersOnlyWake(t) /\ status'[t] = "idle"
           /\ PopWait(t) \/ PopTake(t) \/ PopGiveUp(t) => wakeup_' = wakeup_
<1>1. ASSUME PopWait(t) PROVE OthersOnlyWake(t) /\ status'[t] = "popwait" /\ wakeup_' = wakeup_
  BY <1>1 DEF PopWait, QueueTypeOK, OthersOnlyWake
<1>2. ASSUME PopGiveUp(t) PROVE OthersOnlyWake(t) /\ status'[t] = "idle" /\ wakeup_' = wakeup_
  BY <1>2 DEF PopGiveUp, QueueTypeOK, OthersOnlyWake
<1>3. ASSUME PopTake(t) PROVE OthersOnlyWake(t) /\ status'[t] = "idle" /\ wakeup_' = wakeup_
  <2>1. CASE At("pushwait") = {}
    BY <1>3, <2>1 DEF PopTake, Signal, QueueTypeOK, OthersOnlyWake
  <2>2. CASE At("pushwait") # {}
    BY <1>3, <2>2 DEF PopTake, Signal, At, QueueTypeOK, OthersOnlyWake
  <2> QED
    BY <2>1, <2>2
<1> QED
  BY <1>1, <1>2, <1>3

\* Before Start().
LEMMA PoolInit == Init => PoolIInv
<1> SUFFICES ASSUME Init PROVE PoolIInv
  OBVIOUS
<1> USE DEF Init, QueueInit
<1>1. QueueTypeOK
  <2> DEFINE first == CHOOSE x \in Items : TRUE
  <2>1. first \in Items
    BY BlockingQueueAssumption
  <2>2. arg = [t \in Threads |-> first]
    OBVIOUS
  <2> HIDE DEF first
  <2>3. arg \in [Threads -> Items]
    BY <2>1, <2>2
  <2>4. queue_ \in Seq(Items) /\ pushed \in Seq(Items) /\ popped \in Seq(Items)
    OBVIOUS
  <2> QED
    BY <2>3, <2>4 DEF QueueTypeOK, Statuses
<1>2. NoLostElement /\ NoLostSlot /\ WakeUpInv /\ QueueBounded
  BY BlockingQueueAssumption DEF NoLostElement, NoLostSlot, At, WakeUpInv, QueueBounded
<1>3. PoolTypeOK /\ WorkerInv /\ OwnerInv
  BY <1>1, ThreadPoolAssumption DEF PoolTypeOK, WorkerInv, OwnerInv
<1> QED
  BY <1>1, <1>2, <1>3 DEF PoolIInv, QueueIInv

\* Start(), Stop() and the steps within Stop().
LEMMA OwnerKeeps ==
    ASSUME PoolIInv, Start \/ Stop \/ OwnerStep
    PROVE  PoolIInv'
<1> USE DEF PoolIInv, PoolTypeOK, WorkerInv, OwnerInv
<1>1. ASSUME UNCHANGED queueVars PROVE QueueIInv'
  BY <1>1 DEF queueVars, QueueIInv, QueueTypeOK, WakeUpInv, QueueBounded,
              NoLostElement, NoLostSlot, At
<1>2. CASE Start
  BY <1>1, <1>2 DEF Start, QueueIInv, queueVars
<1>3. CASE Stop
  BY <1>1, <1>3 DEF Stop, QueueIInv, queueVars
<1>4. ASSUME NEW w \in Workers, StartWorker(w) PROVE PoolIInv'
  BY <1>1, <1>4 DEF StartWorker, WorkerTo, QueueIInv, queueVars
<1>5. CASE StartReturns
  BY <1>1, <1>5 DEF StartReturns, QueueIInv, queueVars
<1>6. CASE StopWakesQueue
  <2>1. QueueIInv' /\ QueueTypeOK'
    BY <1>6, WakeUpKeeps DEF StopWakesQueue, QueueIInv
  <2>2. \A w \in Workers :
           /\ status[w] \in {"pushing", "popping", "idle"} => status'[w] = status[w]
           /\ status[w] = "pushwait" => status'[w] = "pushing"
           /\ status[w] = "popwait" => status'[w] = "popping"
    BY <1>6, ThreadPoolAssumption DEF StopWakesQueue, WakeUp, AllAwake
  <2>3. WorkerInv'
    BY <1>6, <2>2 DEF StopWakesQueue
  <2>4. OwnerInv'
    BY <1>6 DEF StopWakesQueue
  <2> QED
    BY <1>6, <2>1, <2>3, <2>4 DEF StopWakesQueue
<1>7. CASE StopJoins
  BY <1>1, <1>7 DEF StopJoins, QueueIInv, queueVars
<1>8. CASE StopRestores
  <2>1. QueueIInv' /\ QueueTypeOK'
    BY <1>8, RestoreKeeps DEF StopRestores, QueueIInv
  <2> QED
    BY <1>8, <2>1 DEF StopRestores, Restore
<1> QED
  BY <1>2, <1>3, <1>4, <1>5, <1>6, <1>7, <1>8 DEF OwnerStep

\* The workers' loop around Pop().
LEMMA WorkerKeeps ==
    ASSUME PoolIInv, NEW w \in Workers,
           WorkerCheck(w) \/ WorkerPop(w) \/ TaskAdds(w) \/ TaskReturns(w)
    PROVE  PoolIInv'
<1> USE DEF PoolIInv, PoolTypeOK
<1>0. w \in Threads /\ Workers \subseteq Threads /\ QueueTypeOK
  BY ThreadPoolAssumption
<1>1. ASSUME UNCHANGED queueVars PROVE QueueIInv'
  BY <1>1 DEF queueVars, QueueIInv, QueueTypeOK, WakeUpInv, QueueBounded,
              NoLostElement, NoLostSlot, At
<1>2. CASE WorkerCheck(w)
  <2>1. CASE running_ /\ PopCall(w) /\ WorkerTo(w, "pop")
    <3>1. QueueIInv'
      BY <1>0, <2>1, CallsKeep
    <3>2. WorkerInv' /\ OwnerInv'
      BY <1>0, <1>2, <2>1 DEF WorkerCheck, WorkerTo, PopCall, WorkerInv, OwnerInv, QueueTypeOK
    <3> QED
      BY <1>2, <2>1, <3>1, <3>2 DEF WorkerCheck, WorkerTo, QueueIInv
  <2>2. CASE ~running_ /\ WorkerTo(w, "exited") /\ UNCHANGED queueVars
    BY <1>1, <1>2, <2>2 DEF WorkerCheck, WorkerTo, QueueIInv, queueVars, WorkerInv, OwnerInv
  <2> QED
    BY <1>2, <2>1, <2>2 DEF WorkerCheck
<1>3. CASE WorkerPop(w)
  <2>1. QueueIInv' /\ OthersOnlyWake(w) /\ wakeup_' = wakeup_
    BY <1>0, <1>3, PopEffect, WaitsKeep, PopTakeKeeps, GivingUpKeeps DEF WorkerPop
  <2>2. /\ worker_pc' \in [Workers -> {"none", "check", "pop", "task", "exited"}]
        /\ \A u \in Workers \ {w} : worker_pc'[u] = worker_pc[u]
        /\ \/ worker_pc'[w] = "pop" /\ status'[w] = "popwait"
           \/ worker_pc'[w] \in {"task", "check"} /\ status'[w] = "idle"
    BY <1>0, <1>3, PopEffect DEF WorkerPop, WorkerTo
  <2>3. WorkerInv'
    BY <1>0, <2>1, <2>2 DEF WorkerInv, OthersOnlyWake
  <2>4. OwnerInv'
    BY <1>3, <2>1 DEF WorkerPop, OwnerInv
  <2> QED
    BY <1>3, <2>1, <2>2, <2>3, <2>4 DEF WorkerPop, QueueIInv
<1>4. CASE TaskAdds(w)
  <2>1. QueueIInv'
    BY <1>0, <1>4, CallsKeep DEF TaskAdds
  <2>2. WorkerInv' /\ OwnerInv'
    BY <1>0, <1>4 DEF TaskAdds, PushCall, poolVars, WorkerInv, OwnerInv, QueueTypeOK
  <2> QED
    BY <1>4, <2>1, <2>2 DEF TaskAdds, poolVars, QueueIInv
<1>5. CASE TaskReturns(w)
  BY <1>1, <1>5 DEF TaskReturns, WorkerTo, QueueIInv, queueVars, WorkerInv, OwnerInv
<1> QED
  BY <1>2, <1>3, <1>4, <1>5

\* AddTask(), by a client or by a task.
LEMMA AddTaskKeeps ==
    ASSUME PoolIInv, NEW t \in Threads, AddTask(t)
    PROVE  PoolIInv'
<1> USE DEF PoolIInv, PoolTypeOK
<1>1. Workers \subseteq Threads /\ QueueTypeOK
  BY ThreadPoolAssumption
<1>2. /\ OthersOnlyWake(t) /\ wakeup_' = wakeup_ /\ UNCHANGED poolVars
      /\ status[t] = "pushing" /\ status'[t] \in {"idle", "pushwait"}
  BY <1>1, PushEffect DEF AddTask
<1>3. QueueIInv'
  BY WaitsKeep, PushAddKeeps, GivingUpKeeps DEF AddTask
<1>4. WorkerInv'
  BY <1>1, <1>2 DEF WorkerInv, OthersOnlyWake, poolVars
<1> QED
  BY <1>2, <1>3, <1>4 DEF OwnerInv, poolVars, QueueIInv

\* A client's call and a spurious wakeup.
LEMMA OtherStepsKeep ==
    ASSUME PoolIInv, UNCHANGED poolVars,
           \/ \E c \in Clients : PushCall(c)
           \/ \E t \in Threads : Spurious(t)
    PROVE  PoolIInv'
<1> USE DEF PoolIInv, PoolTypeOK
<1>1. Workers \subseteq Threads /\ QueueTypeOK
  BY ThreadPoolAssumption
<1>2. ASSUME NEW c \in Clients, PushCall(c) PROVE PoolIInv'
  <2>1. c \in Threads /\ c \notin Workers
    BY DEF Clients
  <2>2. QueueIInv'
    BY <1>2, <2>1, CallsKeep
  <2>3. WorkerInv' /\ OwnerInv'
    BY <1>1, <1>2, <2>1 DEF PushCall, poolVars, WorkerInv, OwnerInv, QueueTypeOK
  <2> QED
    BY <2>2, <2>3 DEF poolVars, QueueIInv
<1>3. ASSUME NEW t \in Threads, Spurious(t) PROVE PoolIInv'
  <2>1. QueueIInv'
    BY <1>3, SpuriousKeeps
  <2>2. WorkerInv' /\ OwnerInv'
    BY <1>1, <1>3 DEF Spurious, poolVars, WorkerInv, OwnerInv, QueueTypeOK
  <2> QED
    BY <2>1, <2>2 DEF poolVars, QueueIInv
<1> QED
  BY <1>2, <1>3

\* Every step keeps the invariant.
LEMMA PoolNext ==
    ASSUME PoolIInv, [Next]_vars
    PROVE  PoolIInv'
<1>1. CASE Next
  BY <1>1, OwnerKeeps, WorkerKeeps, AddTaskKeeps, OtherStepsKeep DEF Next
<1>2. CASE UNCHANGED vars
  BY <1>2 DEF vars, queueVars, poolVars, PoolIInv, PoolTypeOK, QueueIInv, QueueTypeOK,
              WakeUpInv, QueueBounded, NoLostElement, NoLostSlot, At, WorkerInv, OwnerInv
<1> QED
  BY <1>1, <1>2

-----------------------------------------------------------------------------
(* The theorems.                                                           *)

\* Balanced signals (BlockingQueue.h:24-72), and workers and the owner where
\* Start() and Stop() leave them (ThreadPool.cpp:13-73).
THEOREM PoolInvariant == Spec => []PoolIInv
<1>1. PoolIInv /\ [Next]_vars => PoolIInv'
  BY PoolNext
<1> QED
  BY PoolInit, <1>1, PTL DEF Spec

\* No signal to a consumer is lost: beside a thread asleep in Pop() every element
\* has a thread of its own on its way to it (BlockingQueue.h:38, 60-72).
THEOREM NoElementIsLost == Spec => []NoLostElement
<1>1. PoolIInv => NoLostElement
  BY DEF PoolIInv, QueueIInv
<1> QED
  BY PoolInvariant, <1>1, PTL

\* Nor one to a producer: beside a thread asleep in Push() every free slot has a
\* thread of its own on its way to it (BlockingQueue.h:24-32, 72).
THEOREM NoSlotIsLost == Spec => []NoLostSlot
<1>1. PoolIInv => NoLostSlot
  BY DEF PoolIInv, QueueIInv
<1> QED
  BY PoolInvariant, <1>1, PTL

\* When Stop() has returned no worker is left in the queue's code and the queue
\* is ready for the next Start() (ThreadPool.cpp:17, 33-41).
THEOREM StopLeavesQuiet == Spec => []StoppedMeansQuiet
<1>1. PoolIInv => StoppedMeansQuiet
  BY DEF PoolIInv, WorkerInv, OwnerInv, StoppedMeansQuiet
<1> QED
  BY PoolInvariant, <1>1, PTL

\* The queue never holds more elements than its bound allows, however many
\* threads a signal or a spurious wakeup sends to it at once
\* (BlockingQueue.h:24-32).
THEOREM BoundHolds == Spec => []QueueBounded
<1>1. PoolIInv => QueueBounded
  BY DEF PoolIInv, QueueIInv
<1> QED
  BY PoolInvariant, <1>1, PTL
=============================================================================
