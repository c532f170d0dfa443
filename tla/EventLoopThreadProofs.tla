----------------------- MODULE EventLoopThreadProofs -----------------------
(***************************************************************************)
(* Theorems about EventLoop and EventLoopThread, for any set of callers    *)
(* and of functors.  The first part is about a loop (Spec), the second     *)
(* carries its theorems over to a loop that lives on a thread's stack      *)
(* (ThreadSpec): its owner's destructor comes after it.                    *)
(***************************************************************************)
EXTENDS EventLoopThread, SequenceTheorems, TLAPS

-----------------------------------------------------------------------------
(* EventLoop.                                                              *)

\* The eventfd is readable, or a caller is between its push (or its store to
\* quit_) and its WakeUp().
Awake == wakeup_fd_ = 1 \/ WakeUpComing

\* Which phase the loop's flags say it is in.
FlagsInv ==
    /\ pending_functors_calling_ <=> pc = "functors"
    /\ in_functor => pc = "functors"

\* NoSleepOnWork carried backwards from epoll_wait: whatever is queued beyond
\* the batch being run, or at the while test, has a wakeup.
WorkInv ==
    /\ pc = "functors" /\ batch < Len(pending_functors_) => Awake
    /\ pc \in {"while", "poll"} /\ iterated /\ pending_functors_ # <<>> => Awake

\* The inductive invariant.
IInv ==
    /\ TypeOK
    /\ FlagsInv
    /\ PopNeverBlocks
    /\ WorkInv
    /\ NoSleepOnQuit
    /\ FifoExactlyOnce

-----------------------------------------------------------------------------
(* Sequences.                                                              *)

\* Appending to the second of two concatenated sequences.
LEMMA AppendConcat ==
    ASSUME NEW S, NEW s \in Seq(S), NEW t \in Seq(S), NEW e \in S
    PROVE  s \o Append(t, e) = Append(s \o t, e)
<1>1. <<e>> \in Seq(S)
  OBVIOUS
<1>2. s \o t \in Seq(S)
  BY ConcatProperties
<1>3. Append(t, e) = t \o <<e>> /\ Append(s \o t, e) = (s \o t) \o <<e>>
  BY <1>2, AppendIsConcat
<1> QED
  BY <1>1, <1>3, ConcatAssociative

\* Moving the head of the second sequence to the end of the first.
LEMMA ShiftHead ==
    ASSUME NEW S, NEW s \in Seq(S), NEW t \in Seq(S), t # <<>>
    PROVE  Append(s, Head(t)) \o Tail(t) = s \o t
<1>1. Head(t) \in S /\ Tail(t) \in Seq(S) /\ Len(Tail(t)) = Len(t) - 1
  BY HeadTailProperties
<1>2. <<Head(t)>> \in Seq(S)
  BY <1>1
<1>3. Append(s, Head(t)) = s \o <<Head(t)>>
  BY <1>1, AppendIsConcat
<1>4. Append(s, Head(t)) \o Tail(t) = s \o (<<Head(t)>> \o Tail(t))
  BY <1>1, <1>2, <1>3, ConcatAssociative
<1>5. <<Head(t)>> \o Tail(t) = t
  <2>1. <<Head(t)>> \o Tail(t) \in Seq(S)
    BY <1>1, <1>2, ConcatProperties
  <2>2. Len(<<Head(t)>> \o Tail(t)) = Len(t)
    BY <1>1, <1>2, ConcatProperties, LenProperties
  <2>3. ASSUME NEW i \in 1..Len(t)
        PROVE  (<<Head(t)>> \o Tail(t))[i] = t[i]
    BY <1>1, <1>2, HeadTailProperties
  <2> QED
    BY <2>1, <2>2, <2>3, SeqEqual
<1> QED
  BY <1>4, <1>5

-----------------------------------------------------------------------------
(* Type correctness.                                                       *)

\* A constructed EventLoop (EventLoop.cpp:18-39) is well typed.
LEMMA TypeInit == Init => TypeOK
<1> SUFFICES ASSUME Init PROVE TypeOK
  OBVIOUS
<1>1. <<>> \in Seq(Functors)
  BY EmptySeq
<1>2. caller_pc \in [Callers -> {"idle", "wake"}]
  BY DEF Init
<1> QED
  BY <1>1, <1>2 DEF Init, TypeOK, Locations

\* Every step of the loop thread, user code and callers keeps the types.
LEMMA TypeStep == TypeOK /\ [Next]_vars => TypeOK'
<1> SUFFICES ASSUME TypeOK, [Next]_vars PROVE TypeOK'
  OBVIOUS
<1> USE DEF TypeOK, Locations, loopVars, WakeUp, Push
<1>1. CASE LoopEnter
  BY <1>1 DEF LoopEnter
<1>2. CASE LoopStep
  <2>1. CASE CheckQuit
    BY <2>1 DEF CheckQuit
  <2>2. CASE PollWakeup
    BY <2>2 DEF PollWakeup
  <2>3. CASE HandleRead
    BY <2>3 DEF HandleRead
  <2>4. CASE EventsDone
    BY <2>4 DEF EventsDone
  <2>5. CASE BeginFunctors
    BY <2>5, LenProperties DEF BeginFunctors
  <2>6. CASE PopFunctor
    <3>1. /\ Head(pending_functors_) \in Functors
          /\ Tail(pending_functors_) \in Seq(Functors)
      BY <2>6, HeadTailProperties DEF PopFunctor
    <3> QED
      BY <2>6, <3>1, AppendProperties DEF PopFunctor
  <2>7. CASE FunctorReturn
    BY <2>7 DEF FunctorReturn
  <2>8. CASE EndFunctors
    BY <2>8 DEF EndFunctors
  <2> QED
    BY <1>2, <2>1, <2>2, <2>3, <2>4, <2>5, <2>6, <2>7, <2>8 DEF LoopStep
<1>3. CASE PollOther
  BY <1>3 DEF PollOther
<1>4. CASE UserCode
  <2>1. ASSUME NEW f \in Functors, LoopThreadQueueInLoop(f) PROVE TypeOK'
    BY <2>1, AppendProperties DEF LoopThreadQueueInLoop
  <2>2. CASE LoopThreadQuit
    BY <2>2 DEF LoopThreadQuit
  <2> QED
    BY <1>4, <2>1, <2>2 DEF UserCode
<1>5. ASSUME NEW c \in Callers, CallerStep(c) PROVE TypeOK'
  <2>1. ASSUME NEW f \in Functors, CallerQueueInLoop(c, f) PROVE TypeOK'
    BY <2>1, AppendProperties DEF CallerQueueInLoop
  <2>2. CASE CallerQuit(c)
    BY <2>2 DEF CallerQuit
  <2>3. CASE CallerWakeUp(c)
    BY <2>3 DEF CallerWakeUp
  <2> QED
    BY <1>5, <2>1, <2>2, <2>3 DEF CallerStep
<1>6. CASE UNCHANGED vars
  BY <1>6 DEF vars
<1> QED
  BY <1>1, <1>2, <1>3, <1>4, <1>5, <1>6 DEF Next

\* Every reachable state of EventLoop.cpp's loop is well typed.
THEOREM TypeCorrect == Spec => []TypeOK
  BY TypeInit, TypeStep, PTL DEF Spec

-----------------------------------------------------------------------------
(* The inductive invariant.                                                *)

\* A constructed EventLoop satisfies the inductive invariant.
LEMMA IInvInit == Init => IInv
<1> SUFFICES ASSUME Init PROVE IInv
  OBVIOUS
<1>1. TypeOK
  BY TypeInit
<1>2. FifoExactlyOnce
  BY EmptySeq, ConcatEmptySeq DEF Init, FifoExactlyOnce
<1> QED
  BY <1>1, <1>2
  DEF Init, IInv, FlagsInv, PopNeverBlocks, WorkInv, NoSleepOnQuit

\* A push at the end of the queue.
LEMMA PushEffect ==
    ASSUME TypeOK, FifoExactlyOnce, NEW f \in Functors, Push(f),
           executed' = executed
    PROVE  /\ Len(pending_functors_') = Len(pending_functors_) + 1
           /\ FifoExactlyOnce'
<1>1. Len(pending_functors_') = Len(pending_functors_) + 1
  BY AppendProperties DEF TypeOK, Push
<1>2. executed \o Append(pending_functors_, f)
        = Append(executed \o pending_functors_, f)
  BY AppendConcat DEF TypeOK
<1> QED
  BY <1>1, <1>2 DEF FifoExactlyOnce, Push

\* Every step of the loop thread (EventLoop.cpp:51-68, 145-163), of user code in
\* it and of other threads (EventLoop.cpp:70-90, 106-112) preserves it.
LEMMA IInvStep == IInv /\ [Next]_vars => IInv'
<1> SUFFICES ASSUME IInv, [Next]_vars PROVE IInv'
  OBVIOUS
<1>0. TypeOK /\ TypeOK'
  BY TypeStep DEF IInv
<1> USE <1>0
<1> DEFINE L == Len(pending_functors_)
<1>len. L \in Nat /\ (L = 0 <=> pending_functors_ = <<>>)
  BY LenProperties, EmptySeq DEF TypeOK
<1>len2. Len(pending_functors_') \in Nat
         /\ (Len(pending_functors_') = 0 <=> pending_functors_' = <<>>)
  BY LenProperties, EmptySeq DEF TypeOK
<1> USE DEF Locations, loopVars, Awake, WakeUpComing, IInv, FlagsInv,
            PopNeverBlocks, WorkInv, NoSleepOnQuit
\* What every step that leaves the queue alone keeps.
<1>fifo. ASSUME UNCHANGED <<pending_functors_, executed, submitted>>
         PROVE  FifoExactlyOnce'
  BY <1>fifo DEF FifoExactlyOnce
<1>1. CASE LoopEnter
  BY <1>1, <1>fifo, <1>len DEF LoopEnter, TypeOK
<1>2. CASE LoopStep
  <2>1. CASE CheckQuit
    BY <2>1, <1>fifo, <1>len DEF CheckQuit, TypeOK
  <2>2. CASE PollWakeup
    BY <2>2, <1>fifo, <1>len DEF PollWakeup, TypeOK
  <2>3. CASE HandleRead
    BY <2>3, <1>fifo, <1>len DEF HandleRead, TypeOK
  <2>4. CASE EventsDone
    BY <2>4, <1>fifo, <1>len DEF EventsDone, TypeOK
  <2>5. CASE BeginFunctors
    BY <2>5, <1>fifo, <1>len DEF BeginFunctors, TypeOK
  <2>6. CASE PopFunctor
    <3>1. Len(pending_functors_') = L - 1
      BY <2>6, HeadTailProperties DEF PopFunctor, TypeOK
    <3>2. FifoExactlyOnce'
      BY <2>6, ShiftHead DEF PopFunctor, TypeOK, FifoExactlyOnce
    <3> QED
      BY <2>6, <3>1, <3>2, <1>len DEF PopFunctor, TypeOK
  <2>7. CASE FunctorReturn
    BY <2>7, <1>fifo, <1>len DEF FunctorReturn, TypeOK
  <2>8. CASE EndFunctors
    BY <2>8, <1>fifo, <1>len DEF EndFunctors, TypeOK
  <2> QED
    BY <1>2, <2>1, <2>2, <2>3, <2>4, <2>5, <2>6, <2>7, <2>8 DEF LoopStep
<1>3. CASE PollOther
  BY <1>3, <1>fifo, <1>len DEF PollOther, TypeOK
<1>4. CASE UserCode
  <2>1. ASSUME NEW f \in Functors, LoopThreadQueueInLoop(f) PROVE IInv'
    <3>1. /\ Len(pending_functors_') = L + 1
          /\ FifoExactlyOnce'
      BY <2>1, PushEffect DEF LoopThreadQueueInLoop
    <3> QED
      BY <2>1, <3>1, <1>len
      DEF LoopThreadQueueInLoop, UserCodeRuns, WakeUp, TypeOK
  <2>2. CASE LoopThreadQuit
    BY <2>2, <1>fifo, <1>len DEF LoopThreadQuit, UserCodeRuns, TypeOK
  <2> QED
    BY <1>4, <2>1, <2>2 DEF UserCode
<1>5. ASSUME NEW c \in Callers, CallerStep(c) PROVE IInv'
  <2>1. ASSUME NEW f \in Functors, CallerQueueInLoop(c, f) PROVE IInv'
    <3>1. /\ Len(pending_functors_') = L + 1
          /\ FifoExactlyOnce'
      BY <2>1, PushEffect DEF CallerQueueInLoop
    <3>2. caller_pc'[c] = "wake"
      BY <2>1 DEF CallerQueueInLoop, TypeOK
    <3> QED
      BY <2>1, <3>1, <3>2, <1>len DEF CallerQueueInLoop, TypeOK
  <2>2. CASE CallerQuit(c)
    <3>1. caller_pc'[c] = "wake"
      BY <2>2 DEF CallerQuit, TypeOK
    <3> QED
      BY <2>2, <3>1, <1>fifo, <1>len DEF CallerQuit, TypeOK
  <2>3. CASE CallerWakeUp(c)
    BY <2>3, <1>fifo, <1>len DEF CallerWakeUp, WakeUp, TypeOK
  <2> QED
    BY <1>5, <2>1, <2>2, <2>3 DEF CallerStep
<1>6. CASE UNCHANGED vars
  BY <1>6, <1>fifo DEF vars
<1> QED
  BY <1>1, <1>2, <1>3, <1>4, <1>5, <1>6 DEF Next

\* Hence it holds of every behaviour.
LEMMA Invariance == Spec => []IInv
  BY IInvInit, IInvStep, PTL DEF Spec

\* The loop thread never sleeps on a queued functor or a Quit() without a wakeup
\* that is there or coming (EventLoop.cpp:57-90).
THEOREM WakeupsAreKept == Spec => []NoLostWakeup
<1>1. IInv => NoSleepOnWork
  BY DEF IInv, WorkInv, NoSleepOnWork, Awake
<1>2. IInv => NoSleepOnQuit
  BY DEF IInv
<1>3. IInv => NoLostWakeup
  BY <1>1, <1>2 DEF NoLostWakeup
<1> QED
  BY <1>3, Invariance, PTL

\* CallPendingFunctors (EventLoop.cpp:153-163) never blocks in Pop().
THEOREM PopDoesNotBlock == Spec => []PopNeverBlocks
<1>1. IInv => PopNeverBlocks
  BY DEF IInv
<1> QED
  BY <1>1, Invariance, PTL

\* What ran, followed by what is queued, is what was pushed, in that order.
THEOREM FunctorsInOrder == Spec => []FifoExactlyOnce
<1>1. IInv => FifoExactlyOnce
  BY DEF IInv
<1> QED
  BY <1>1, Invariance, PTL

-----------------------------------------------------------------------------
(* Refinement.                                                             *)

\* A functor never pushed before is neither queued nor run.
LEMMA FreshIsNew ==
    ASSUME TypeOK, FifoExactlyOnce, NEW f, Fresh(f)
    PROVE  f \notin Executor!Elements(pending_functors_)
                    \cup Executor!Elements(executed)
<1>1. /\ Len(submitted) = Len(executed) + Len(pending_functors_)
      /\ \A i \in 1 .. Len(executed) + Len(pending_functors_) :
            submitted[i] = IF i <= Len(executed) THEN executed[i]
                           ELSE pending_functors_[i - Len(executed)]
  BY ConcatProperties DEF TypeOK, FifoExactlyOnce
<1>2. Len(executed) \in Nat /\ Len(pending_functors_) \in Nat
  BY LenProperties DEF TypeOK
<1>3. ASSUME NEW i \in 1..Len(executed) PROVE executed[i] # f
  BY <1>1, <1>2 DEF Fresh
<1>4. ASSUME NEW i \in 1..Len(pending_functors_)
      PROVE  pending_functors_[i] # f
  <2>1. /\ i + Len(executed) \in 1 .. Len(executed) + Len(pending_functors_)
        /\ ~ (i + Len(executed) <= Len(executed))
        /\ (i + Len(executed)) - Len(executed) = i
    BY <1>2
  <2>2. submitted[i + Len(executed)] = pending_functors_[i]
    BY <1>1, <2>1
  <2> QED
    BY <1>1, <2>1, <2>2 DEF Fresh
<1> QED
  BY <1>3, <1>4 DEF Executor!Elements

\* A step of EventLoop.cpp:57-90, 153-163 pushes a new functor, runs the oldest
\* one, or leaves both alone.
LEMMA LoopStepImplements ==
    IInv /\ [Next]_vars => [Executor!Next]_<<pending_functors_, executed>>
<1> SUFFICES ASSUME IInv, [Next]_vars
             PROVE  \/ Executor!Next
                    \/ UNCHANGED <<pending_functors_, executed>>
  OBVIOUS
<1>0. TypeOK /\ FifoExactlyOnce
  BY DEF IInv
<1>push. ASSUME NEW f \in Functors, Push(f), UNCHANGED executed
         PROVE  Executor!Next
  <2>1. Executor!Submit(f)
    BY <1>0, <1>push, FreshIsNew DEF Executor!Submit, Push
  <2> QED
    BY <2>1 DEF Executor!Next
<1>1. CASE PopFunctor
  BY <1>1 DEF PopFunctor, Executor!Next, Executor!Run
<1>2. CASE UserCode
  BY <1>2, <1>push
  DEF UserCode, LoopThreadQueueInLoop, LoopThreadQuit
<1>3. ASSUME NEW c \in Callers, CallerStep(c)
      PROVE  Executor!Next \/ UNCHANGED <<pending_functors_, executed>>
  BY <1>3, <1>push
  DEF CallerStep, CallerQueueInLoop, CallerQuit, CallerWakeUp
<1>4. CASE LoopEnter \/ PollOther \/ CheckQuit \/ PollWakeup \/ HandleRead
           \/ EventsDone \/ BeginFunctors \/ FunctorReturn \/ EndFunctors
  BY <1>4 DEF LoopEnter, PollOther, CheckQuit, PollWakeup, HandleRead,
              EventsDone, BeginFunctors, FunctorReturn, EndFunctors
<1>5. CASE UNCHANGED vars
  BY <1>5 DEF vars
<1> QED
  BY <1>1, <1>2, <1>3, <1>4, <1>5 DEF Next, LoopStep

\* EventLoop.cpp:77-90 and 153-163 implement the abstract executor.
THEOREM LoopImplementsExecutor == Spec => ImplementsExecutor
<1>1. Init => Executor!Init
  BY DEF Init, Executor!Init
<1> QED
  BY <1>1, LoopStepImplements, Invariance, PTL
  DEF Spec, Executor!Spec, ImplementsExecutor

-----------------------------------------------------------------------------
(* EventLoopThread.                                                        *)

\* Where the thread is tells what it has done with its loop.
ThreadFlagsInv ==
    /\ looping_ <=> thread_pc = "loop"
    /\ pc # "outside" <=> thread_pc = "loop"
    /\ loop_ <=> thread_pc \in {"enter", "loop", "clear"}

\* The thread has begun when Start() has, and has published its loop when
\* Start() has returned.
StartedInv ==
    /\ owner_pc = "new" <=> thread_pc = "none"
    /\ owner_pc \notin {"new", "starting"} => thread_pc \notin {"construct", "publish"}

\* As long as nobody but the destructor quits the loop, the thread stays in it
\* until then, and the loop is there for every call.
QuitInv ==
    ~user_quit =>
        /\ owner_pc \in {"new", "starting", "running", "check", "quit"} =>
              /\ thread_pc \notin {"clear", "unlock", "destroy", "exited"}
              /\ thread_pc = "loop" => ~quit_
        /\ owner_pc \in {"new", "starting", "running", "check", "quit", "wake"} => touched = {}
        /\ touched \subseteq {"wake"}

\* The inductive invariant.
ThreadIInv ==
    /\ IInv
    /\ ThreadTypeOK
    /\ ThreadFlagsInv
    /\ StartedInv
    /\ QuitInv
    /\ NoCallbackAfterDestruction

-----------------------------------------------------------------------------

\* Nothing has been started yet.
LEMMA ThreadIInvInit == ThreadInit => ThreadIInv
<1> SUFFICES ASSUME ThreadInit PROVE ThreadIInv
  OBVIOUS
<1>1. IInv
  BY IInvInit DEF ThreadInit
<1> QED
  BY <1>1 DEF ThreadInit, Init, ThreadIInv, IInv, ThreadTypeOK, ThreadLocations, OwnerLocations,
     ThreadFlagsInv, StartedInv, QuitInv, NoCallbackAfterDestruction

\* A WakeUp() on a destroyed loop, which only the caller notices.
DeadWakeUp(c) ==
    /\ pc = "outside"
    /\ caller_pc' = [caller_pc EXCEPT ![c] = "idle"]
    /\ UNCHANGED <<loopVars, pending_functors_, wakeup_fd_, submitted, executed>>

\* Whatever thread and owner do is a step of the loop, or does not concern it.
LEMMA LoopSteps ==
    ASSUME ThreadIInv, [ThreadNext]_allVars
    PROVE  [Next]_vars \/ \E c \in Callers : DeadWakeUp(c)
<1> USE OwnerAssumption
<1>1. CASE Start \/ StartReturns \/ BeginDestruction \/ Construct \/ Publish \/ Clear
           \/ Unlock \/ Destroy \/ DestructorCheck \/ DestructorJoin \/ Finished
           \/ UNCHANGED allVars
  BY <1>1 DEF Start, StartReturns, BeginDestruction, Construct, Publish, Clear, Unlock,
     Destroy, DestructorCheck, DestructorJoin, Finished, allVars
<1>2. CASE CallLoop \/ InLoop
  BY <1>2 DEF CallLoop, InLoop, Next
<1>3. CASE InLoopUserCode
  BY <1>3 DEF InLoopUserCode, UserCode, Next
<1>4. CASE DestructorQuit \/ DestructorWakeUp
  BY <1>4 DEF DestructorQuit, DestructorWakeUp, OnLoop, CallerStep, Next
<1>5. ASSUME NEW c \in Callers, NEW f \in Functors, UserQueueInLoop(c, f)
      PROVE  [Next]_vars
  BY <1>5 DEF UserQueueInLoop, OnLoop, CallerStep, Next
<1>6. ASSUME NEW c \in Callers, UserQuit(c) PROVE [Next]_vars
  BY <1>6 DEF UserQuit, OnLoop, CallerStep, Next
<1>7. ASSUME NEW c \in Callers, UserWakeUp(c) PROVE [Next]_vars \/ DeadWakeUp(c)
  <2>1. CASE Alive
    BY <1>7, <2>1 DEF UserWakeUp, CallerStep, Next
  <2>2. CASE ~Alive
    BY <1>7, <2>2 DEF UserWakeUp, DeadWakeUp, Alive, ThreadIInv, ThreadFlagsInv
  <2> QED
    BY <2>1, <2>2
<1> QED
  BY <1>1, <1>2, <1>3, <1>4, <1>5, <1>6, <1>7 DEF ThreadNext, ThreadStep, DestructorStep

\* So the loop's own invariant survives in its thread.
LEMMA LoopKept == ThreadIInv /\ [ThreadNext]_allVars => IInv'
<1> SUFFICES ASSUME ThreadIInv, [ThreadNext]_allVars PROVE IInv'
  OBVIOUS
<1>1. CASE [Next]_vars
  BY <1>1, IInvStep DEF ThreadIInv
<1>2. ASSUME NEW c \in Callers, DeadWakeUp(c) PROVE IInv'
  BY <1>2 DEF DeadWakeUp, ThreadIInv, IInv, TypeOK, loopVars, FlagsInv, PopNeverBlocks,
     WorkInv, NoSleepOnQuit, FifoExactlyOnce
<1> QED
  BY <1>1, <1>2, LoopSteps

\* Every step of thread, owner and users (EventLoopThread.cpp:15-50) keeps the
\* rest.
LEMMA ThreadIInvStep == ThreadIInv /\ [ThreadNext]_allVars => ThreadIInv'
<1> SUFFICES ASSUME ThreadIInv, [ThreadNext]_allVars
             PROVE  /\ ThreadTypeOK' /\ ThreadFlagsInv' /\ StartedInv'
                    /\ QuitInv' /\ NoCallbackAfterDestruction'
  BY LoopKept DEF ThreadIInv
<1> DEFINE Goal == /\ ThreadTypeOK' /\ ThreadFlagsInv' /\ StartedInv'
                   /\ QuitInv' /\ NoCallbackAfterDestruction'
<1>0. TypeOK /\ TypeOK'
  BY LoopKept DEF ThreadIInv, IInv
<1> USE <1>0, OwnerAssumption
    DEF ThreadIInv, ThreadTypeOK, ThreadLocations, OwnerLocations, ThreadFlagsInv,
        StartedInv, QuitInv, NoCallbackAfterDestruction, vars, Alive
<1>1. CASE Start
  BY <1>1 DEF Start
<1>2. CASE StartReturns
  BY <1>2 DEF StartReturns
<1>3. CASE BeginDestruction
  BY <1>3 DEF BeginDestruction
<1>4. CASE DestructorCheck
  BY <1>4 DEF DestructorCheck
<1>5. CASE DestructorJoin
  BY <1>5 DEF DestructorJoin
<1>6. CASE Construct
  BY <1>6 DEF Construct
<1>7. CASE Publish
  BY <1>7 DEF Publish
<1>8. CASE Clear
  BY <1>8 DEF Clear
<1>9. CASE Unlock
  BY <1>9 DEF Unlock
<1>10. CASE Destroy
  BY <1>10 DEF Destroy
<1>11. CASE CallLoop
  BY <1>11 DEF CallLoop, LoopEnter
<1>12. CASE InLoop
  <2>1. CASE CheckQuit
    BY <1>12, <2>1 DEF InLoop, CheckQuit, TypeOK
  <2>2. ASSUME UNCHANGED <<looping_, quit_>>, pc # "outside", pc' # "outside"
        PROVE  Goal
    BY <1>12, <2>2 DEF InLoop
  <2>3. CASE PollWakeup \/ PollOther \/ HandleRead \/ EventsDone
    BY <2>2, <2>3 DEF PollWakeup, PollOther, HandleRead, EventsDone
  <2>4. CASE BeginFunctors \/ PopFunctor \/ FunctorReturn \/ EndFunctors
    BY <2>2, <2>4 DEF BeginFunctors, PopFunctor, FunctorReturn, EndFunctors
  <2> QED
    BY <1>12, <2>1, <2>3, <2>4 DEF InLoop, LoopStep
<1>13. CASE InLoopUserCode
  <2>1. UNCHANGED <<pc, looping_>>
    BY <1>13 DEF InLoopUserCode, LoopThreadQueueInLoop, LoopThreadQuit, loopVars
  <2>2. /\ thread_pc = "loop"
        /\ UNCHANGED <<thread_pc, owner_pc, loop_, touched>>
    BY <1>13 DEF InLoopUserCode
  <2>3. CASE user_quit' = TRUE
    BY <2>1, <2>2, <2>3
  <2>4. CASE UNCHANGED <<quit_, user_quit>>
    BY <2>1, <2>2, <2>4
  <2>5. user_quit' = TRUE \/ UNCHANGED <<quit_, user_quit>>
    BY <1>13 DEF InLoopUserCode, LoopThreadQueueInLoop, LoopThreadQuit, loopVars
  <2> QED
    BY <2>3, <2>4, <2>5
<1>14. CASE DestructorQuit
  BY <1>14 DEF DestructorQuit, OnLoop, CallerQuit
<1>15. CASE DestructorWakeUp
  BY <1>15 DEF DestructorWakeUp, OnLoop, CallerWakeUp, loopVars
<1>16. ASSUME NEW c \in Callers, NEW f \in Functors, UserQueueInLoop(c, f) PROVE Goal
  BY <1>16 DEF UserQueueInLoop, OnLoop, CallerQueueInLoop, loopVars
<1>17. ASSUME NEW c \in Callers, UserQuit(c) PROVE Goal
  BY <1>17 DEF UserQuit, OnLoop, CallerQuit
<1>18. ASSUME NEW c \in Callers, UserWakeUp(c) PROVE Goal
  <2>1. UNCHANGED <<pc, looping_, quit_>>
    BY <1>18 DEF UserWakeUp, CallerWakeUp, loopVars
  <2>2. touched' \subseteq touched \cup {"wake"} /\ (Alive => UNCHANGED touched)
    BY <1>18 DEF UserWakeUp
  <2> QED
    BY <1>18, <2>1, <2>2 DEF UserWakeUp
<1>19. CASE Finished \/ UNCHANGED allVars
  <2>1. UNCHANGED <<pc, looping_, quit_>> /\ UNCHANGED threadVars
    BY <1>19 DEF Finished, allVars
  <2> QED
    BY <2>1 DEF threadVars
<1> QED
  BY <1>1, <1>2, <1>3, <1>4, <1>5, <1>6, <1>7, <1>8, <1>9, <1>10, <1>11, <1>12, <1>13, <1>14, <1>15, <1>16, <1>17, <1>18, <1>19
     DEF ThreadNext, ThreadStep, DestructorStep

\* The inductive invariant holds throughout.
LEMMA ThreadInvariance == ThreadSpec => []ThreadIInv
  BY ThreadIInvInit, ThreadIInvStep, PTL DEF ThreadSpec

\* ~EventLoopThread() (EventLoopThread.cpp:15-21) leaves no thread in Loop().
THEOREM NoLateCallback == ThreadSpec => []NoCallbackAfterDestruction
<1>1. ThreadIInv => NoCallbackAfterDestruction
  BY DEF ThreadIInv
<1> QED
  BY <1>1, ThreadInvariance, PTL

\* Only the destructor's own Quit() may meet a destroyed loop
\* (EventLoop.cpp:70-75), if nobody else quits it.
THEOREM OnlyOwnQuitTouches == ThreadSpec => []OnlyOwnQuitTouchesDeadLoop
<1>1. ThreadIInv => OnlyOwnQuitTouchesDeadLoop
  BY DEF ThreadIInv, ThreadTypeOK, OwnerLocations, QuitInv, OnlyOwnQuitTouchesDeadLoop
<1> QED
  BY <1>1, ThreadInvariance, PTL

\* The loop in its thread loses no wakeup and no functor either
\* (EventLoop.cpp:57-90, 145-163).
THEOREM LoopInThreadKeepsWakeups ==
    ThreadSpec => [](NoLostWakeup /\ FifoExactlyOnce)
<1>1. ThreadIInv => NoLostWakeup /\ FifoExactlyOnce
  BY DEF ThreadIInv, IInv, WorkInv, NoLostWakeup, NoSleepOnWork, Awake
<1> QED
  BY <1>1, ThreadInvariance, PTL

\* And it implements the abstract executor from Start() on, through the
\* destructor, whatever calls find it destroyed.
THEOREM ThreadImplementsExecutor == ThreadSpec => ImplementsExecutor
<1>1. ThreadInit => Executor!Init
  BY DEF ThreadInit, Init, Executor!Init
<1>2. ThreadIInv /\ [ThreadNext]_allVars
        => [Executor!Next]_<<pending_functors_, executed>>
  <2> SUFFICES ASSUME ThreadIInv, [ThreadNext]_allVars
               PROVE  [Executor!Next]_<<pending_functors_, executed>>
    OBVIOUS
  <2>1. CASE [Next]_vars
    BY <2>1, LoopStepImplements DEF ThreadIInv
  <2>2. ASSUME NEW c \in Callers, DeadWakeUp(c)
        PROVE  UNCHANGED <<pending_functors_, executed>>
    BY <2>2 DEF DeadWakeUp
  <2> QED
    BY <2>1, <2>2, LoopSteps
<1> QED
  BY <1>1, <1>2, ThreadInvariance, PTL DEF ThreadSpec, Executor!Spec, ImplementsExecutor
=============================================================================
