----------------------------- MODULE EventLoop -----------------------------
(***************************************************************************)
(* windz::EventLoop: the loop thread, the eventfd that wakes it, and the   *)
(* queue of functors other threads hand to it.                             *)
(*                                                                         *)
(* The loop thread is a program counter that walks through Loop():         *)
(*                                                                         *)
(*   "outside"   before Loop() or after it returned                        *)
(*   "while"     at the test  while (!quit_)                               *)
(*   "poll"      blocked in epoll_wait                                     *)
(*   "events"    in the for over active_channels_                          *)
(*   "timers"    in timer_manager_->HandleExpired()                        *)
(*   "functors"  in CallPendingFunctors()                                  *)
(*                                                                         *)
(* User code runs in the loop thread in "outside", in "events" and         *)
(* "timers" (handlers and timer callbacks) and in "functors" while a       *)
(* functor is being called.  Callers are the other threads; what they do   *)
(* to the loop is not atomic: the push (or the store to quit_) and the     *)
(* WakeUp() that follows are two steps.                                    *)
(***************************************************************************)
EXTENDS Naturals, Sequences

CONSTANTS
    Callers,    \* threads other than the loop thread
    Functors    \* closures, each handed to the loop at most once

VARIABLES
    pc,                         \* where the loop thread is
    looping_,
    quit_,
    pending_functors_calling_,
    pending_functors_,          \* BlockingQueue<Functor>, its operations atomic
    wakeup_fd_,                 \* eventfd counter: 0, or 1 for "readable"
    wakeup_active,              \* wakeup_channel_ is in active_channels_
    batch,                      \* functors CallPendingFunctors still has to pop
    in_functor,                 \* a popped functor is being called
    caller_pc,                  \* "idle", or "wake": about to call WakeUp()
    submitted,                  \* history: functors in the order pushed
    executed,                   \* history: functors in the order called
    iterated                    \* history: this Loop() finished an iteration

loopVars == <<pc, looping_, quit_, pending_functors_calling_,
              wakeup_active, batch, in_functor, iterated>>
vars == <<pc, looping_, quit_, pending_functors_calling_, pending_functors_,
          wakeup_fd_, wakeup_active, batch, in_functor, caller_pc, submitted,
          executed, iterated>>

Locations == {"outside", "while", "poll", "events", "timers", "functors"}

\* One type per variable (EventLoop.h:60-74).
TypeOK ==
    /\ pc \in Locations
    /\ looping_ \in BOOLEAN
    /\ quit_ \in BOOLEAN
    /\ pending_functors_calling_ \in BOOLEAN
    /\ pending_functors_ \in Seq(Functors)
    /\ wakeup_fd_ \in {0, 1}
    /\ wakeup_active \in BOOLEAN
    /\ batch \in Nat
    /\ in_functor \in BOOLEAN
    /\ caller_pc \in [Callers -> {"idle", "wake"}]
    /\ submitted \in Seq(Functors)
    /\ executed \in Seq(Functors)
    /\ iterated \in BOOLEAN

Init ==
    /\ pc = "outside"
    /\ looping_ = FALSE
    /\ quit_ = FALSE
    /\ pending_functors_calling_ = FALSE
    /\ pending_functors_ = <<>>
    /\ wakeup_fd_ = 0
    /\ wakeup_active = FALSE
    /\ batch = 0
    /\ in_functor = FALSE
    /\ caller_pc = [c \in Callers |-> "idle"]
    /\ submitted = <<>>
    /\ executed = <<>>
    /\ iterated = FALSE

-----------------------------------------------------------------------------
(* What the operations are made of.                                        *)

Fresh(f) == \A i \in 1..Len(submitted) : submitted[i] # f

\* pending_functors_.Push(func)
Push(f) ==
    /\ Fresh(f)
    /\ pending_functors_' = Append(pending_functors_, f)
    /\ submitted' = Append(submitted, f)

\* WakeUp(): write(wakeup_fd_, 1); the counter only matters as zero or not.
WakeUp == wakeup_fd_' = 1

\* User code may run in the loop thread now.
UserCodeRuns ==
    \/ pc \in {"outside", "events", "timers"}
    \/ pc = "functors" /\ in_functor

-----------------------------------------------------------------------------
(* The loop thread.                                                        *)

\* Loop() up to its while: quit_ is reset, whoever set it before.
LoopEnter ==
    /\ pc = "outside"
    /\ ~looping_
    /\ pc' = "while"
    /\ looping_' = TRUE
    /\ quit_' = FALSE
    /\ iterated' = FALSE
    /\ UNCHANGED <<pending_functors_calling_, pending_functors_, wakeup_fd_,
                   wakeup_active, batch, in_functor, caller_pc, submitted,
                   executed>>

\* while (!quit_): leave, or clear active_channels_ and go to epoll_wait.
CheckQuit ==
    /\ pc = "while"
    /\ pc' = IF quit_ THEN "outside" ELSE "poll"
    /\ looping_' = ~quit_
    /\ wakeup_active' = FALSE
    /\ UNCHANGED <<quit_, pending_functors_calling_, pending_functors_,
                   wakeup_fd_, batch, in_functor, caller_pc, submitted,
                   executed, iterated>>

\* epoll_wait returns because wakeup_fd_ is readable.
PollWakeup ==
    /\ pc = "poll"
    /\ wakeup_fd_ = 1
    /\ pc' = "events"
    /\ wakeup_active' = TRUE
    /\ UNCHANGED <<looping_, quit_, pending_functors_calling_,
                   pending_functors_, wakeup_fd_, batch, in_functor,
                   caller_pc, submitted, executed, iterated>>

\* epoll_wait returns for another channel, a timer, the 10 s cap or EINTR.
PollOther ==
    /\ pc = "poll"
    /\ wakeup_fd_ = 0
    /\ pc' = "events"
    /\ UNCHANGED <<looping_, quit_, pending_functors_calling_,
                   pending_functors_, wakeup_fd_, wakeup_active, batch,
                   in_functor, caller_pc, submitted, executed, iterated>>

\* wakeup_channel_'s read handler empties the eventfd.
HandleRead ==
    /\ pc = "events"
    /\ wakeup_active
    /\ wakeup_active' = FALSE
    /\ wakeup_fd_' = 0
    /\ UNCHANGED <<pc, looping_, quit_, pending_functors_calling_,
                   pending_functors_, batch, in_functor, caller_pc, submitted,
                   executed, iterated>>

\* Every active channel has been handled.
EventsDone ==
    /\ pc = "events"
    /\ ~wakeup_active
    /\ pc' = "timers"
    /\ UNCHANGED <<looping_, quit_, pending_functors_calling_,
                   pending_functors_, wakeup_fd_, wakeup_active, batch,
                   in_functor, caller_pc, submitted, executed, iterated>>

\* HandleExpired() returns; CallPendingFunctors() reads Size() once.
BeginFunctors ==
    /\ pc = "timers"
    /\ pc' = "functors"
    /\ pending_functors_calling_' = TRUE
    /\ batch' = Len(pending_functors_)
    /\ UNCHANGED <<looping_, quit_, pending_functors_, wakeup_fd_,
                   wakeup_active, in_functor, caller_pc, submitted, executed,
                   iterated>>

\* func = pending_functors_.Pop(); func() begins.  Pop waits for an element.
PopFunctor ==
    /\ pc = "functors"
    /\ ~in_functor
    /\ batch > 0
    /\ pending_functors_ # <<>>
    /\ in_functor' = TRUE
    /\ batch' = batch - 1
    /\ executed' = Append(executed, Head(pending_functors_))
    /\ pending_functors_' = Tail(pending_functors_)
    /\ UNCHANGED <<pc, looping_, quit_, pending_functors_calling_, wakeup_fd_,
                   wakeup_active, caller_pc, submitted, iterated>>

FunctorReturn ==
    /\ pc = "functors"
    /\ in_functor
    /\ in_functor' = FALSE
    /\ UNCHANGED <<pc, looping_, quit_, pending_functors_calling_,
                   pending_functors_, wakeup_fd_, wakeup_active, batch,
                   caller_pc, submitted, executed, iterated>>

\* A slip: the queue is cleared after its batch was called.
EndFunctorsClears ==
    /\ pc = "functors"
    /\ ~in_functor
    /\ batch = 0
    /\ pc' = "while"
    /\ pending_functors_calling_' = FALSE
    /\ iterated' = TRUE
    /\ pending_functors_' = <<>>
    /\ UNCHANGED <<looping_, quit_, wakeup_fd_, wakeup_active, batch,
                   in_functor, caller_pc, submitted, executed>>

EndFunctors ==
    /\ pc = "functors"
    /\ ~in_functor
    /\ batch = 0
    /\ pc' = "while"
    /\ pending_functors_calling_' = FALSE
    /\ iterated' = TRUE
    /\ UNCHANGED <<looping_, quit_, pending_functors_, wakeup_fd_,
                   wakeup_active, batch, in_functor, caller_pc, submitted,
                   executed>>

-----------------------------------------------------------------------------
(* User code in the loop thread.  RunInLoop(func) there is a plain call of *)
(* func: it is user code going on, and changes nothing of the loop.        *)

\* A slip: the loop thread never wakes itself.
LoopThreadQueueNoWake(f) ==
    /\ UserCodeRuns
    /\ Push(f)
    /\ UNCHANGED <<loopVars, wakeup_fd_, caller_pc, executed>>

LoopThreadQueueInLoop(f) ==
    /\ UserCodeRuns
    /\ Push(f)
    /\ IF pending_functors_calling_ THEN WakeUp ELSE UNCHANGED wakeup_fd_
    /\ UNCHANGED <<loopVars, caller_pc, executed>>

\* Quit() in the loop thread: no WakeUp.
LoopThreadQuit ==
    /\ UserCodeRuns
    /\ quit_' = TRUE
    /\ UNCHANGED <<pc, looping_, pending_functors_calling_, pending_functors_,
                   wakeup_fd_, wakeup_active, batch, in_functor, caller_pc,
                   submitted, executed, iterated>>

-----------------------------------------------------------------------------
(* Other threads.                                                          *)

\* A slip: a functor pushed from another thread wakes nobody.
CallerQueueNoWake(c, f) ==
    /\ caller_pc[c] = "idle"
    /\ Push(f)
    /\ UNCHANGED <<loopVars, wakeup_fd_, caller_pc, executed>>

\* RunInLoop or QueueInLoop in another thread, up to its WakeUp().
CallerQueueInLoop(c, f) ==
    /\ caller_pc[c] = "idle"
    /\ Push(f)
    /\ caller_pc' = [caller_pc EXCEPT ![c] = "wake"]
    /\ UNCHANGED <<loopVars, wakeup_fd_, executed>>

\* A slip: Quit() from another thread wakes nobody.
CallerQuitNoWake(c) ==
    /\ caller_pc[c] = "idle"
    /\ quit_' = TRUE
    /\ UNCHANGED <<pc, looping_, pending_functors_calling_, pending_functors_,
                   wakeup_fd_, wakeup_active, batch, in_functor, caller_pc,
                   submitted, executed, iterated>>

\* Quit() in another thread, up to its WakeUp().
CallerQuit(c) ==
    /\ caller_pc[c] = "idle"
    /\ quit_' = TRUE
    /\ caller_pc' = [caller_pc EXCEPT ![c] = "wake"]
    /\ UNCHANGED <<pc, looping_, pending_functors_calling_, pending_functors_,
                   wakeup_fd_, wakeup_active, batch, in_functor, submitted,
                   executed, iterated>>

CallerWakeUp(c) ==
    /\ caller_pc[c] = "wake"
    /\ WakeUp
    /\ caller_pc' = [caller_pc EXCEPT ![c] = "idle"]
    /\ UNCHANGED <<loopVars, pending_functors_, submitted, executed>>

-----------------------------------------------------------------------------

\* The loop thread's own steps, apart from waiting for something external.
LoopStep ==
    \/ CheckQuit
    \/ PollWakeup
    \/ HandleRead
    \/ EventsDone
    \/ BeginFunctors
    \/ PopFunctor
    \/ FunctorReturn
    \/ EndFunctors

UserCode ==
    \/ \E f \in Functors : LoopThreadQueueInLoop(f)
    \/ LoopThreadQuit

CallerStep(c) ==
    \/ \E f \in Functors : CallerQueueInLoop(c, f)
    \/ CallerQuit(c)
    \/ CallerWakeUp(c)

Next ==
    \/ LoopEnter
    \/ LoopStep
    \/ PollOther
    \/ UserCode
    \/ \E c \in Callers : CallerStep(c)

\* A thread that runs keeps running: the loop thread between two waits, and a
\* caller between its push and its WakeUp.  Nothing forces epoll_wait to
\* return unless wakeup_fd_ is readable, nobody has to call Loop() or Quit().
Fairness ==
    /\ WF_vars(LoopStep)
    /\ \A c \in Callers : WF_vars(CallerWakeUp(c))

Spec == Init /\ [][Next]_vars /\ Fairness

-----------------------------------------------------------------------------
(* Properties.                                                             *)

\* Some caller has done its push or its store and will call WakeUp().
WakeUpComing == \E c \in Callers : caller_pc[c] = "wake"

\* No lost wakeup for functors (EventLoop.cpp:85-90 against :145-163): once an
\* iteration has completed, the loop thread sleeps in epoll_wait with a functor
\* queued only if the eventfd is readable or a caller is about to make it so.
NoSleepOnWork ==
    pc = "poll" /\ iterated /\ pending_functors_ # <<>>
        => wakeup_fd_ = 1 \/ WakeUpComing

\* No lost wakeup for Quit (EventLoop.cpp:70-75): the loop thread sleeps with
\* quit_ set only if the eventfd is readable or is about to be.
NoSleepOnQuit ==
    pc = "poll" /\ quit_ => wakeup_fd_ = 1 \/ WakeUpComing

\* So nothing that was asked of the loop waits for the next event
\* (EventLoop.cpp:57-90, 145-163).
NoLostWakeup == NoSleepOnWork /\ NoSleepOnQuit

\* CallPendingFunctors (EventLoop.cpp:156-158) never blocks in Pop(), which
\* would hang the loop thread: the size it read once stays a lower bound.
PopNeverBlocks ==
    pc = "functors" => batch <= Len(pending_functors_)

\* Functors run in the order they were pushed, each once, none dropped, across
\* any number of Loop() calls (EventLoop.cpp:85-90, 153-163).
FifoExactlyOnce ==
    executed \o pending_functors_ = submitted

\* Every functor queued while the loop iterates runs, unless the loop is quit:
\* no timeout of epoll_wait is needed (EventLoop.cpp:57-66, 85-90).
QueuedRuns ==
    \A f \in Functors :
        (looping_ /\ iterated /\ \E i \in 1..Len(pending_functors_) :
                                     pending_functors_[i] = f)
            ~> (~looping_ \/ \E i \in 1..Len(executed) : executed[i] = f)

\* The abstract executor, its queue and history read off the loop's.
Executor == INSTANCE FunctorExecutor
                WITH queue <- pending_functors_, done <- executed

\* The loop implements the abstract executor: functors enter its queue once and
\* only its head runs next, whatever threads push while it runs a batch
\* (EventLoop.cpp:77-90, 153-163).
ImplementsExecutor == Executor!Spec
=============================================================================
