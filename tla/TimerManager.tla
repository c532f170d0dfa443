---------------------------- MODULE TimerManager ----------------------------
(***************************************************************************)
(* windz::TimerManager: the timers of one loop in a binary min-heap.       *)
(*                                                                         *)
(* heap_ is a vector of timers, here a sequence (index i of the code is    *)
(* index i + 1 here).  Other threads add and cancel through the loop's     *)
(* functor queue (RunInLoop); the loop thread does so at once, also inside *)
(* a timer's callback, in the middle of HandleExpired.  Time is counted in *)
(* ticks and may pass at any moment.                                       *)
(***************************************************************************)
EXTENDS TimerHeap, FiniteSets

CONSTANTS
    N,            \* timers created, numbered in the order of creation
    MaxQueued,    \* calls of other threads waiting in the functor queue (a bound)
    MaxTime,      \* the clock stops here (a bound)
    Intervals,    \* intervals of timers; 0: not repeated
    TicksPerMs,   \* clock ticks in a millisecond
    PollCap,      \* the cap of EventLoop::Loop on its wait, in ms
    MaxRuns,      \* runs counted per timer (a bound)
    EarlierAdds   \* whether a callback adds timers due before its own

ASSUME TimerManagerAssumption ==
    /\ N \in Nat \ {0} /\ MaxQueued \in Nat
    /\ MaxTime \in Nat /\ TicksPerMs \in Nat \ {0} /\ PollCap \in Nat
    /\ MaxRuns \in Nat /\ MaxRuns > 1
    /\ Intervals \subseteq Nat
    /\ EarlierAdds \in BOOLEAN

VARIABLES
    heap_,
    when,       \* Timer::when_
    interval,   \* Timer::interval_
    canceled,   \* Timer::canceled_
    created,    \* how many timers were created
    queue,      \* functors of AddTimer and Cancel from other threads
    pc,         \* "idle": not in HandleExpired; "while", "run": in it
    running,    \* the local `timer' of HandleExpired, while in "run"
    hnow,       \* the local `now' of HandleExpired
    now,        \* the clock
    runs        \* history: how often each timer ran

Timers == 1..N

vars == <<heap_, when, interval, canceled, created, queue, pc, running, hnow,
          now, runs>>

Init ==
    /\ heap_ = <<>>
    /\ when = [t \in Timers |-> 0]
    /\ interval = [t \in Timers |-> 0]
    /\ canceled = [t \in Timers |-> FALSE]
    /\ created = 0
    /\ queue = <<>>
    /\ pc = "idle"
    /\ running = 1
    /\ hnow = 0
    /\ now = 0
    /\ runs = [t \in Timers |-> 0]

InHeap == {heap_[i] : i \in 1..Len(heap_)}
Queued == {queue[i][2] : i \in {j \in 1..Len(queue) : queue[j][1] = "add"}}

\* TimerId::Expired(): no shared_ptr is left in the heap, a queued closure or
\* HandleExpired.
Expired(t) ==
    t \notin InHeap \cup Queued \cup (IF pc = "run" THEN {running} ELSE {})

-----------------------------------------------------------------------------
(* AddTimer and Cancel.                                                    *)

\* RunAfter and RunEvery give times from now on; RunAt gives any, past ones too.
Deadlines == 0..MaxTime

\* make_shared<Timer>(cb, when, interval)
NewTimer(t, w, i) ==
    /\ t = created + 1
    /\ created' = t
    /\ when' = [when EXCEPT ![t] = w]
    /\ interval' = [interval EXCEPT ![t] = i]

\* User code runs in the loop thread: outside HandleExpired or in a callback.
LoopUserCode == pc \in {"idle", "run"}

AddTimerInLoop(t, w, i) ==
    /\ LoopUserCode
    /\ pc = "run" /\ ~EarlierAdds => w >= when[running]
    /\ NewTimer(t, w, i)
    /\ heap_' = PushInHeap(heap_, when', t)
    /\ UNCHANGED <<canceled, queue, pc, running, hnow, now, runs>>

AddTimerElsewhere(t, w, i) ==
    /\ Len(queue) < MaxQueued
    /\ NewTimer(t, w, i)
    /\ queue' = Append(queue, <<"add", t>>)
    /\ UNCHANGED <<heap_, canceled, pc, running, hnow, now, runs>>

CancelInLoop(t) ==
    /\ LoopUserCode
    /\ t <= created /\ ~canceled[t]
    /\ ~Expired(t)
    /\ canceled' = [canceled EXCEPT ![t] = TRUE]
    /\ UNCHANGED <<heap_, when, interval, created, queue, pc, running, hnow,
                   now, runs>>

CancelElsewhere(t) ==
    /\ Len(queue) < MaxQueued
    /\ t <= created /\ ~canceled[t]
    /\ queue' = Append(queue, <<"cancel", t>>)
    /\ UNCHANGED <<heap_, when, interval, canceled, created, pc, running, hnow,
                   now, runs>>

\* CallPendingFunctors runs a closure of AddTimer or Cancel.
RunQueued ==
    /\ pc = "idle"
    /\ queue # <<>>
    /\ LET t == Head(queue)[2]
       IN  \/ /\ Head(queue)[1] = "add"
              /\ heap_' = PushInHeap(heap_, when, t)
              /\ UNCHANGED canceled
           \/ /\ Head(queue)[1] = "cancel"
              /\ canceled' = [canceled EXCEPT ![t] = @ \/ ~Expired(t)]
              /\ UNCHANGED heap_
    /\ queue' = Tail(queue)
    /\ UNCHANGED <<when, interval, created, pc, running, hnow, now, runs>>

-----------------------------------------------------------------------------
(* HandleExpired.                                                          *)

BeginHandleExpired ==
    /\ pc = "idle"
    /\ pc' = "while"
    /\ hnow' = now
    /\ UNCHANGED <<heap_, when, interval, canceled, created, queue, running,
                   now, runs>>

PopCanceled ==
    /\ pc = "while"
    /\ heap_ # <<>> /\ canceled[Head(heap_)]
    /\ heap_' = PopInHeap(heap_, when)
    /\ UNCHANGED <<when, interval, canceled, created, queue, pc, running, hnow,
                   now, runs>>

\* timer->Run(): the callback starts.
RunTop ==
    /\ pc = "while"
    /\ heap_ # <<>> /\ ~canceled[Head(heap_)]
    /\ when[Head(heap_)] <= hnow
    /\ pc' = "run"
    /\ running' = Head(heap_)
    /\ runs' = [runs EXCEPT ![running'] = IF @ < MaxRuns THEN @ + 1 ELSE @]
    /\ UNCHANGED <<heap_, when, interval, canceled, created, queue, hnow, now>>

\* A slip: a repeated timer gets its new deadline and keeps its place.
CallbackReturnsNoSift ==
    /\ pc = "run"
    /\ pc' = "while"
    /\ IF interval[running] # 0
       THEN when' = [when EXCEPT ![running] = now + interval[running]] /\ UNCHANGED heap_
       ELSE UNCHANGED when /\ heap_' = PopInHeap(heap_, when)
    /\ UNCHANGED <<interval, canceled, created, queue, running, hnow, now, runs>>

\* A slip: repeat() is not looked at.
CallbackReturnsPops ==
    /\ pc = "run"
    /\ pc' = "while"
    /\ heap_' = PopInHeap(heap_, when)
    /\ UNCHANGED <<when, interval, canceled, created, queue, running, hnow, now,
                   runs>>

\* The callback has returned: Restart and DownInHeap(0), or PopInHeap(), both
\* on whatever is at the top now.
CallbackReturns ==
    /\ pc = "run"
    /\ pc' = "while"
    /\ IF interval[running] # 0
       THEN /\ when' = [when EXCEPT ![running] = now + interval[running]]
            /\ heap_' = DownInHeap(heap_, when')
       ELSE UNCHANGED when /\ heap_' = PopInHeap(heap_, when)
    /\ UNCHANGED <<interval, canceled, created, queue, running, hnow, now, runs>>

EndHandleExpired ==
    /\ pc = "while"
    /\ heap_ # <<>> => ~canceled[Head(heap_)] /\ when[Head(heap_)] > hnow
    /\ pc' = "idle"
    /\ running' = 1 /\ hnow' = 0
    /\ UNCHANGED <<heap_, when, interval, canceled, created, queue, now, runs>>

Tick ==
    /\ now < MaxTime
    /\ now' = now + 1
    /\ UNCHANGED <<heap_, when, interval, canceled, created, queue, pc, running,
                   hnow, runs>>

\* A slip: the wait is rounded up to whole milliseconds.
NextTimeoutRoundsUp ==
    LET ms == IF heap_ = <<>> THEN PollCap
              ELSE IF when[Head(heap_)] < now THEN 0
              ELSE (when[Head(heap_)] - now + TicksPerMs - 1) \div TicksPerMs
    IN  IF ms < PollCap THEN ms ELSE PollCap

\* NextTimeout(), with the cap of EventLoop::Loop: ms epoll_wait may sleep.
NextTimeout ==
    LET ms == IF heap_ = <<>> THEN PollCap
              ELSE IF when[Head(heap_)] < now THEN 0
              ELSE (when[Head(heap_)] - now) \div TicksPerMs
    IN  IF ms < PollCap THEN ms ELSE PollCap

Next ==
    \/ \E t \in Timers, i \in Intervals : \E w \in Deadlines :
          AddTimerInLoop(t, w, i) \/ AddTimerElsewhere(t, w, i)
    \/ \E t \in Timers : CancelInLoop(t) \/ CancelElsewhere(t)
    \/ RunQueued
    \/ BeginHandleExpired \/ PopCanceled \/ RunTop \/ CallbackReturns
    \/ EndHandleExpired
    \/ Tick

Spec == Init /\ [][Next]_vars

-----------------------------------------------------------------------------
(* Properties.                                                             *)

\* One type per variable; HandleExpired's `now' is a time that has been
\* (Timer.cpp:39).
TypeOK ==
    /\ heap_ \in Seq(Timers)
    /\ when \in [Timers -> Nat] /\ interval \in [Timers -> Nat]
    /\ canceled \in [Timers -> BOOLEAN]
    /\ created \in 0..N
    /\ queue \in Seq({"add", "cancel"} \X Timers)
    /\ pc \in {"idle", "while", "run"}
    /\ running \in Timers
    /\ hnow \in 0..MaxTime /\ now \in 0..MaxTime
    /\ runs \in [Timers -> 0..MaxRuns]

\* The vector is a min-heap on the deadlines (README.md:16; Timer.cpp:69-107),
\* whatever the callbacks add and cancel meanwhile.
HeapOrdered == Ordered(heap_, when)

\* No timer is lost: one that was added and neither ran out nor was canceled
\* is in the heap, once, or on its way there (Timer.cpp:19-26, 45-51).
NoTimerLost ==
    /\ \A i, j \in 1..Len(heap_) : heap_[i] = heap_[j] => i = j
    /\ \A t \in 1..created :
          ~canceled[t] /\ (interval[t] # 0 \/ runs[t] = 0) => t \in InHeap \cup Queued

\* When HandleExpired returns, no timer is left that was due when it began
\* (Timer.cpp:38-56).
AllExpiredRun ==
    [][pc = "while" /\ pc' = "idle" =>
          \A t \in InHeap : canceled[t] \/ when[t] > hnow]_vars

\* epoll_wait never sleeps past a deadline (Timer.cpp:58-67): the wait computed
\* ends no later than the deadline of each timer in the heap.
NeverOversleeps ==
    \A t \in InHeap : when[t] >= now => now + NextTimeout * TicksPerMs <= when[t]
=============================================================================
