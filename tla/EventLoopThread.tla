-------------------------- MODULE EventLoopThread --------------------------
(***************************************************************************)
(* windz::EventLoopThread: a thread whose stack holds an EventLoop, and    *)
(* the owner that starts it and destroys it.  The loop inside is the one   *)
(* of module EventLoop; Owner is one of its callers.                       *)
(*                                                                         *)
(* The loop object lives on the thread's stack: a call made through the    *)
(* pointer Start() returned may find it destroyed.  Such a call is         *)
(* recorded in `touched' instead of being given a meaning.                 *)
(***************************************************************************)
EXTENDS EventLoop

CONSTANT
    Owner       \* the thread that owns the EventLoopThread object

ASSUME OwnerAssumption == Owner \in Callers

VARIABLES
    thread_pc,  \* where ThreadFunc() is
    owner_pc,   \* where the owner is
    loop_,      \* the member loop_ is not null
    touched,    \* history: kinds of access made to a destroyed loop
    user_quit   \* history: user code, not only the destructor, called Quit()

threadVars == <<thread_pc, owner_pc, loop_, touched, user_quit>>
allVars == <<vars, threadVars>>

ThreadLocations ==
    {"none", "construct", "publish", "enter", "loop", "clear", "unlock",
     "destroy", "exited"}
OwnerLocations ==
    {"new", "starting", "running", "check", "quit", "wake", "join", "gone"}

\* The EventLoop object exists.
Alive == thread_pc \in {"publish", "enter", "loop", "clear", "unlock", "destroy"}

\* One type per variable, those of the loop included (EventLoopThread.h).
ThreadTypeOK ==
    /\ TypeOK
    /\ thread_pc \in ThreadLocations
    /\ owner_pc \in OwnerLocations
    /\ loop_ \in BOOLEAN
    /\ touched \subseteq {"push", "quit", "wake"}
    /\ user_quit \in BOOLEAN

ThreadInit ==
    /\ Init
    /\ thread_pc = "none"
    /\ owner_pc = "new"
    /\ loop_ = FALSE
    /\ touched = {}
    /\ user_quit = FALSE

-----------------------------------------------------------------------------
(* The thread.                                                             *)

\* EventLoop loop; is constructed.
Construct ==
    /\ thread_pc = "construct"
    /\ thread_pc' = "publish"
    /\ UNCHANGED <<vars, owner_pc, loop_, touched, user_quit>>

\* Under mutex_: loop_.Reset(&loop); cond_.Notify().
Publish ==
    /\ thread_pc = "publish"
    /\ thread_pc' = "enter"
    /\ loop_' = TRUE
    /\ UNCHANGED <<vars, owner_pc, touched, user_quit>>

CallLoop ==
    /\ thread_pc = "enter"
    /\ LoopEnter
    /\ thread_pc' = "loop"
    /\ UNCHANGED <<owner_pc, loop_, touched, user_quit>>

\* A step inside Loop(); the last one returns to ThreadFunc.
InLoop ==
    /\ thread_pc = "loop"
    /\ LoopStep \/ PollOther
    /\ thread_pc' = IF looping_' THEN "loop" ELSE "clear"
    /\ UNCHANGED <<owner_pc, loop_, touched, user_quit>>

\* User code in handlers, timers and functors of this loop: there is none
\* before Start() has returned the loop.
InLoopUserCode ==
    /\ thread_pc = "loop"
    /\ owner_pc # "starting"
    /\ \/ \E f \in Functors : LoopThreadQueueInLoop(f) /\ UNCHANGED user_quit
       \/ LoopThreadQuit /\ user_quit' = TRUE
    /\ UNCHANGED <<thread_pc, owner_pc, loop_, touched>>

\* Under mutex_: loop_.Reset(nullptr).
Clear ==
    /\ thread_pc = "clear"
    /\ thread_pc' = "unlock"
    /\ loop_' = FALSE
    /\ UNCHANGED <<vars, owner_pc, touched, user_quit>>

\* ~LockGuard: the last access of the thread to the EventLoopThread object.
Unlock ==
    /\ thread_pc = "unlock"
    /\ thread_pc' = "destroy"
    /\ UNCHANGED <<vars, owner_pc, loop_, touched, user_quit>>

\* ~EventLoop, and the thread ends.
Destroy ==
    /\ thread_pc = "destroy"
    /\ thread_pc' = "exited"
    /\ UNCHANGED <<vars, owner_pc, loop_, touched, user_quit>>

-----------------------------------------------------------------------------
(* The owner.                                                              *)

\* Start(): thread_.Start(), then wait for loop_.
Start ==
    /\ owner_pc = "new"
    /\ thread_pc = "none"
    /\ owner_pc' = "starting"
    /\ thread_pc' = "construct"
    /\ UNCHANGED <<vars, loop_, touched, user_quit>>

\* A slip: Start() returns once the thread runs, without waiting for loop_.
StartReturnsEarly ==
    /\ owner_pc = "starting"
    /\ owner_pc' = "running"
    /\ UNCHANGED <<vars, thread_pc, loop_, touched, user_quit>>

\* cond_.Wait([this] { return loop_.Get() != nullptr; })
StartReturns ==
    /\ owner_pc = "starting"
    /\ loop_
    /\ owner_pc' = "running"
    /\ UNCHANGED <<vars, thread_pc, loop_, touched, user_quit>>

\* The owner reaches the end of the object's life; the other threads have
\* finished the calls they make on its loop.
BeginDestruction ==
    /\ owner_pc = "running"
    /\ ~WakeUpComing
    /\ owner_pc' = "check"
    /\ UNCHANGED <<vars, thread_pc, loop_, touched, user_quit>>

\* if (loop_.Get() != nullptr), without mutex_; if null, ~Thread detaches.
DestructorCheck ==
    /\ owner_pc = "check"
    /\ owner_pc' = IF loop_ THEN "quit" ELSE "gone"
    /\ UNCHANGED <<vars, thread_pc, loop_, touched, user_quit>>

\* A call through the loop pointer: A if the loop exists, else recorded.
OnLoop(kind, A) ==
    IF Alive THEN A /\ UNCHANGED touched
             ELSE touched' = touched \cup {kind} /\ UNCHANGED vars

\* loop_->Quit(), first half.
DestructorQuit ==
    /\ owner_pc = "quit"
    /\ owner_pc' = "wake"
    /\ OnLoop("quit", CallerQuit(Owner))
    /\ UNCHANGED <<thread_pc, loop_, user_quit>>

\* A slip: Quit() stores to quit_ and wakes nobody.
DestructorSkipsWakeUp ==
    /\ owner_pc = "wake"
    /\ owner_pc' = "join"
    /\ UNCHANGED <<vars, thread_pc, loop_, touched, user_quit>>

\* loop_->Quit(), second half: IsInLoopThread() and WakeUp().
DestructorWakeUp ==
    /\ owner_pc = "wake"
    /\ owner_pc' = "join"
    /\ OnLoop("wake", caller_pc[Owner] = "wake" /\ CallerWakeUp(Owner))
    /\ UNCHANGED <<thread_pc, loop_, user_quit>>

\* A slip: the destructor does not join.
DestructorForgetsJoin ==
    /\ owner_pc = "join"
    /\ owner_pc' = "gone"
    /\ UNCHANGED <<vars, thread_pc, loop_, touched, user_quit>>

DestructorJoin ==
    /\ owner_pc = "join"
    /\ thread_pc = "exited"
    /\ owner_pc' = "gone"
    /\ UNCHANGED <<vars, thread_pc, loop_, touched, user_quit>>

-----------------------------------------------------------------------------
(* Calls on the loop between Start() and the destructor.                   *)

UserQueueInLoop(c, f) ==
    /\ owner_pc = "running"
    /\ caller_pc[c] = "idle"
    /\ OnLoop("push", CallerQueueInLoop(c, f))
    /\ UNCHANGED <<thread_pc, owner_pc, loop_, user_quit>>

UserQuit(c) ==
    /\ owner_pc = "running"
    /\ caller_pc[c] = "idle"
    /\ user_quit' = TRUE
    /\ OnLoop("quit", CallerQuit(c))
    /\ UNCHANGED <<thread_pc, owner_pc, loop_>>

UserWakeUp(c) ==
    /\ owner_pc = "running"
    /\ caller_pc[c] = "wake"
    /\ \/ Alive /\ CallerWakeUp(c) /\ UNCHANGED touched
       \/ /\ ~Alive
          /\ touched' = touched \cup {"wake"}
          /\ caller_pc' = [caller_pc EXCEPT ![c] = "idle"]
          /\ UNCHANGED <<loopVars, pending_functors_, wakeup_fd_, submitted,
                         executed>>
    /\ UNCHANGED <<thread_pc, owner_pc, loop_, user_quit>>

-----------------------------------------------------------------------------

ThreadStep == Construct \/ Publish \/ CallLoop \/ Clear \/ Unlock \/ Destroy

DestructorStep ==
    DestructorCheck \/ DestructorQuit \/ DestructorWakeUp \/ DestructorJoin

\* Everything is over: the object is gone and the thread has ended.
Finished ==
    /\ owner_pc = "gone"
    /\ thread_pc \in {"none", "exited"}
    /\ UNCHANGED allVars

ThreadNext ==
    \/ Start
    \/ StartReturns
    \/ BeginDestruction
    \/ DestructorStep
    \/ ThreadStep
    \/ InLoop
    \/ InLoopUserCode
    \/ \E c \in Callers :
          \/ \E f \in Functors : UserQueueInLoop(c, f)
          \/ UserQuit(c)
          \/ UserWakeUp(c)
    \/ Finished

\* The thread and the owner keep running; as in EventLoop, epoll_wait returns
\* only if the eventfd is readable.
ThreadFairness ==
    /\ WF_allVars(ThreadStep)
    /\ WF_allVars(InLoop /\ LoopStep)
    /\ WF_allVars(StartReturns)
    /\ WF_allVars(DestructorStep)
    /\ \A c \in Callers : WF_allVars(UserWakeUp(c))

ThreadSpec == ThreadInit /\ [][ThreadNext]_allVars /\ ThreadFairness

-----------------------------------------------------------------------------
(* Properties.                                                             *)

\* As long as only the destructor quits the loop, the one access that may come after
\* the loop's destruction is the second half of that very Quit(): its store to
\* quit_ lets the thread leave Loop() and destroy the loop before
\* IsInLoopThread() and WakeUp() run (EventLoop.cpp:70-75,
\* EventLoopThread.cpp:15-21, 46-50).  Every push finds the loop alive.
OnlyOwnQuitTouchesDeadLoop ==
    ~user_quit =>
        touched \subseteq {"wake"} /\ (touched # {} => owner_pc \in {"join", "gone"})

\* Once the destructor is over the thread is past Loop(): it runs no functor,
\* handler or timer any more, also if user code quit the loop and the
\* destructor took the branch without Join() (EventLoopThread.cpp:15-21).  If
\* nobody else quits the loop, the thread has ended.
NoCallbackAfterDestruction ==
    owner_pc = "gone" =>
        /\ thread_pc \in {"unlock", "destroy", "exited"}
        /\ ~user_quit => thread_pc = "exited"

\* A destructor that finds the thread inside Loop() returns: Quit() reaches the
\* loop and Join() ends (EventLoopThread.cpp:15-21, EventLoop.cpp:57, 70-75).
DestructorOfRunningLoopReturns ==
    (owner_pc = "quit" /\ looping_) ~> owner_pc = "gone"

\* What RAII promises of the object (README.md:17; tcpclient_test3.cpp:9-19
\* lets it go out of scope): its destructor returns.
DestructorReturns ==
    owner_pc = "check" ~> owner_pc = "gone"
=============================================================================
