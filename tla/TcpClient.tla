----------------------------- MODULE TcpClient -----------------------------
(***************************************************************************)
(* windz::TcpClient and its Connector in a loop, and the user's thread     *)
(* that calls Connect, Disconnect, Stop and the destructor.  The loop goes *)
(* round  events, timers, functors  as in module EventLoop.                *)
(*                                                                         *)
(* Of the connection only its being there is kept: module TcpConnection    *)
(* says when its close callback comes.  A call of the user's is several    *)
(* steps: the stores to the two start_ flags, and RunInLoop.  If the user  *)
(* is in the loop thread (in_loop) the loop waits for the call to end, and *)
(* RunInLoop runs the closure at once.                                     *)
(***************************************************************************)
EXTENDS Connector

CONSTANTS
    UserCalls,    \* which of "disconnect", "stop", "destroy" the user calls
    MaxConnects,  \* calls of Connect() (a bound)
    MaxQueued,    \* closures queued when the user calls (a bound)
    retry_,       \* EnableRetry() was called
    Outcomes      \* how connect() may end

ASSUME TcpClientAssumption ==
    /\ retry_ \in BOOLEAN
    /\ UserCalls \subseteq {"disconnect", "stop", "destroy"}
    /\ MaxConnects \in Nat /\ MaxQueued \in Nat
    /\ Outcomes \subseteq {"pending", "refused", "fatal"}

VARIABLES
    connector,    \* the Connector; see module Connector
    client,       \* the TcpClient: its start_; connection_ ("none", "new" in
                  \* this iteration, or "up"); whether the object exists
    phase,        \* where the loop thread is
    batch,        \* functors CallPendingFunctors still has to run
    restarting,   \* RemoveTcpConnection has decided to call Restart()
    in_loop,      \* the user calls in the loop thread
    user_pc,      \* <<"idle">>, or the call the user is in and its next step
    connects,     \* calls of Connect() so far
    stopped,      \* history: Stop()'s closure ran after the last Connect()
    hasty,        \* history: Connect() was called with something left of the call before
    hurried       \* history: in an iteration longer than a retry timer, one that was
                  \* set there was due, or a connection made there closed

vars == <<connector, client, phase, batch, restarting, in_loop, user_pc,
          connects, stopped, hasty, hurried>>

Init ==
    /\ connector = InitConnector
    /\ client = [start_ |-> FALSE, connection_ |-> "none", exists |-> TRUE]
    /\ phase = "events"
    /\ batch = 0
    /\ restarting = FALSE
    /\ in_loop \in BOOLEAN
    /\ user_pc = <<"idle">>
    /\ connects = 0
    /\ stopped = FALSE
    /\ hasty = FALSE /\ hurried = FALSE

\* No assert has failed.
Up == connector.failed = {}

\* The loop thread is between two handlers, timers or functors.
LoopFree(p) ==
    /\ Up
    /\ phase = p
    /\ ~restarting
    /\ in_loop => user_pc = <<"idle">>

-----------------------------------------------------------------------------
(* The loop thread.                                                        *)

\* HandleWrite with a good socket: NewTcpConnection if start_, else it closes.
ConnectorWritable ==
    /\ LoopFree("events")
    /\ connector.channel_ = "armed"
    /\ connector' = HandleWrite(connector, TRUE)
    /\ client' = [client EXCEPT !.connection_ = IF connector.start_ THEN "new" ELSE @]
    /\ UNCHANGED <<phase, batch, restarting, user_pc, connects, stopped, in_loop,
                   hurried, hasty>>

\* HandleWrite with a bad socket, or HandleError.
ConnectorFails ==
    /\ LoopFree("events")
    /\ connector.channel_ = "armed"
    /\ connector' \in {HandleWrite(connector, FALSE), HandleError(connector)}
    /\ UNCHANGED <<client, phase, batch, restarting, user_pc, connects, stopped,
                   in_loop, hurried, hasty>>

\* The connection is there, and not new, or it is closed by a timer: its channel is
\* not in the active_channels_ of the iteration that made it.
Closable == client.connection_ = "up" \/ (client.connection_ = "new" /\ phase = "timers")

\* A slip: nobody calls Restart().
RemoveTcpConnectionForgets ==
    /\ LoopFree(phase)
    /\ client.exists /\ Closable
    /\ client' = [client EXCEPT !.connection_ = "none"]
    /\ hurried' = (hurried \/ client.connection_ = "new")
    /\ UNCHANGED <<connector, phase, batch, restarting, user_pc, connects, stopped,
                   in_loop, hasty>>

\* close_cb_ of the connection, up to its test of retry_ and start_.
RemoveTcpConnection ==
    /\ LoopFree(phase)
    /\ client.exists /\ Closable
    /\ client' = [client EXCEPT !.connection_ = "none"]
    /\ restarting' = (retry_ /\ client.start_)
    /\ hurried' = (hurried \/ client.connection_ = "new")
    /\ UNCHANGED <<connector, phase, batch, user_pc, connects, stopped, in_loop, hasty>>

CallRestart(r) ==
    /\ Up /\ restarting
    /\ restarting' = FALSE
    /\ connector' = Restart(connector, r)
    /\ UNCHANGED <<client, phase, batch, user_pc, connects, stopped, in_loop, hurried, hasty>>

\* HandleExpired comes; in a long iteration timers just set are due already.
EventsDone ==
    /\ LoopFree("events")
    /\ phase' = "timers"
    /\ \E n \in 0..connector.fresh :
          /\ connector' = [connector EXCEPT !.fresh = @ - n, !.due = @ + n]
          /\ hurried' = (hurried \/ n > 0)
    /\ UNCHANGED <<client, batch, restarting, user_pc, connects, stopped, in_loop, hasty>>

RetryTimerFires(r) ==
    /\ LoopFree("timers")
    /\ connector.due > 0
    /\ connector' = RetryTimer(connector, r)
    /\ UNCHANGED <<client, phase, batch, restarting, user_pc, connects, stopped,
                   in_loop, hurried, hasty>>

TimersDone ==
    /\ LoopFree("timers")
    /\ phase' = "functors"
    /\ batch' = Len(connector.functors)
    /\ UNCHANGED <<connector, client, restarting, user_pc, connects, stopped, in_loop,
                   hurried, hasty>>

\* The next closure: Start()'s, Stop()'s or ResetChannel()'s.
RunFunctor(r) ==
    /\ LoopFree("functors")
    /\ batch > 0
    /\ batch' = batch - 1
    /\ LET f == Head(connector.functors)
           c == [connector EXCEPT !.functors = Tail(@)]
       IN  /\ connector' = CASE f = "start" -> StartInLoop(c, r)
                             [] f = "stop" -> StopInLoop(c)
                             [] f = "reset" -> [c EXCEPT !.channel_ = "null"]
           /\ stopped' = (stopped \/ f = "stop")
    /\ UNCHANGED <<client, phase, restarting, user_pc, connects, in_loop, hurried, hasty>>

FunctorsDone ==
    /\ LoopFree("functors")
    /\ batch = 0
    /\ phase' = "events"
    /\ connector' = [connector EXCEPT !.fresh = 0, !.due = @ + connector.fresh]
    /\ client' = [client EXCEPT !.connection_ = IF @ = "new" THEN "up" ELSE @]
    /\ UNCHANGED <<batch, restarting, user_pc, connects, stopped, in_loop, hurried, hasty>>

-----------------------------------------------------------------------------
(* The user.                                                               *)

CanCall ==
    /\ Up /\ client.exists
    /\ user_pc = <<"idle">>
    /\ in_loop => ~restarting
    /\ Len(connector.functors) < MaxQueued

\* Nothing is left of an earlier Connect().
AtRest ==
    /\ connector.state_ = "kDisconnected" /\ connector.channel_ = "null"
    /\ connector.functors = <<>> /\ connector.fresh + connector.due = 0
    /\ client.connection_ = "none" /\ ~restarting

\* Connect(): its assert, and start_.SetTrue().
UserConnect ==
    /\ CanCall
    /\ connects < MaxConnects
    /\ ~client.start_
    /\ connects' = connects + 1
    /\ client' = [client EXCEPT !.start_ = TRUE]
    /\ stopped' = FALSE
    /\ hasty' = (hasty \/ ~AtRest)
    /\ user_pc' = <<"start", "store">>
    /\ UNCHANGED <<connector, phase, batch, restarting, in_loop, hurried>>

\* Disconnect(): start_.SetFalse() and, under mutex_, connection_->Shutdown(),
\* after which the connection closes sooner or later.
UserDisconnect ==
    /\ CanCall /\ "disconnect" \in UserCalls
    /\ client' = [client EXCEPT !.start_ = FALSE]
    /\ UNCHANGED <<connector, phase, batch, restarting, user_pc, connects, stopped,
                   in_loop, hurried, hasty>>

\* Stop(): start_.SetFalse(), then Connector::Stop().
UserStop ==
    /\ CanCall /\ "stop" \in UserCalls
    /\ client' = [client EXCEPT !.start_ = FALSE]
    /\ user_pc' = <<"stop", "store">>
    /\ UNCHANGED <<connector, phase, batch, restarting, connects, stopped, in_loop,
                   hurried, hasty>>

\* ~TcpClient without a connection: Connector::Stop().  (With one, the
\* connection's close callback is replaced and the connector left alone.)
UserDestroy ==
    /\ CanCall /\ "destroy" \in UserCalls
    /\ client.connection_ = "none"
    /\ client' = [client EXCEPT !.exists = FALSE]
    /\ user_pc' = <<"stop", "store">>
    /\ UNCHANGED <<connector, phase, batch, restarting, connects, stopped, in_loop,
                   hurried, hasty>>

UserDestroyConnected ==
    /\ CanCall /\ "destroy" \in UserCalls
    /\ client.connection_ # "none"
    /\ client' = [client EXCEPT !.exists = FALSE]
    /\ UNCHANGED <<connector, phase, batch, restarting, user_pc, connects, stopped,
                   in_loop, hurried, hasty>>

\* A slip: Stop() does not clear the connector's start_.
ConnectorStoresTrue ==
    /\ Up /\ user_pc # <<"idle">> /\ user_pc[2] = "store"
    /\ connector' = [connector EXCEPT !.start_ = TRUE]
    /\ user_pc' = <<user_pc[1], "run">>
    /\ UNCHANGED <<client, phase, batch, restarting, connects, stopped, in_loop,
                   hurried, hasty>>

\* Connector::Start() or Stop(): the store to start_ ...
ConnectorStores ==
    /\ Up /\ user_pc # <<"idle">> /\ user_pc[2] = "store"
    /\ connector' = [connector EXCEPT !.start_ = (user_pc[1] = "start")]
    /\ user_pc' = <<user_pc[1], "run">>
    /\ UNCHANGED <<client, phase, batch, restarting, connects, stopped, in_loop,
                   hurried, hasty>>

\* ... and RunInLoop.
ConnectorRunsInLoop(r) ==
    /\ Up /\ user_pc # <<"idle">> /\ user_pc[2] = "run"
    /\ user_pc' = <<"idle">>
    /\ IF ~in_loop
       THEN /\ connector' = [connector EXCEPT !.functors = Append(@, user_pc[1])]
            /\ UNCHANGED stopped
       ELSE /\ connector' = IF user_pc[1] = "start" THEN StartInLoop(connector, r)
                                                   ELSE StopInLoop(connector)
            /\ stopped' = (user_pc[1] = "stop")
    /\ UNCHANGED <<client, phase, batch, restarting, connects, in_loop, hurried, hasty>>

-----------------------------------------------------------------------------

LoopStep(r) ==
    \/ ConnectorFails \/ CallRestart(r) \/ EventsDone \/ RetryTimerFires(r)
    \/ TimersDone \/ RunFunctor(r) \/ FunctorsDone

UserCall ==
    \/ UserConnect \/ UserDisconnect \/ UserStop
    \/ UserDestroy \/ UserDestroyConnected

Next ==
    \/ ConnectorWritable
    \/ RemoveTcpConnection
    \/ \E r \in Outcomes : LoopStep(r) \/ ConnectorRunsInLoop(r)
    \/ UserCall
    \/ ConnectorStores

\* The threads keep running and expired timers fire; of connect() and of the
\* sockets, what a server that is up now and then gives: an attempt made again
\* and again is under way at last, and one of these succeeds.
Fairness ==
    /\ WF_vars(\E r \in Outcomes : LoopStep(r))
    /\ WF_vars(ConnectorStores \/ \E r \in Outcomes : ConnectorRunsInLoop(r))
    /\ SF_vars(RetryTimerFires("pending"))
    /\ SF_vars(ConnectorWritable)

Spec == Init /\ [][Next]_vars /\ Fairness

-----------------------------------------------------------------------------
(* Properties.                                                             *)

\* One type per variable; a retry never waits longer than kMaxRetryDuration.
TypeOK ==
    /\ connector.start_ \in BOOLEAN
    /\ connector.state_ \in {"kDisconnected", "kConnecting", "kConnected"}
    /\ connector.channel_ \in {"null", "armed", "closed"}
    /\ connector.retry_duration_ \in 1..kMaxRetry
    /\ connector.functors \in Seq({"start", "stop", "reset"})
    /\ connector.fatal \in BOOLEAN
    /\ connector.fresh \in Nat /\ connector.due \in Nat
    /\ client \in [start_ : BOOLEAN, connection_ : {"none", "new", "up"}, exists : BOOLEAN]
    /\ phase \in {"events", "timers", "functors"}
    /\ batch \in 0..Len(connector.functors)
    /\ restarting \in BOOLEAN /\ stopped \in BOOLEAN
    /\ hasty \in BOOLEAN /\ hurried \in BOOLEAN
    /\ connects \in 0..MaxConnects

\* assert(state_ == kDisconnected) in Start()'s closure (Connector.cpp:31).
StartFindsDisconnected == "Start" \notin connector.failed

\* assert(state_ == kDisconnected) in the retry timer (Connector.cpp:115).
RetryFindsDisconnected == "Retry" \notin connector.failed

\* assert(!channel_) in Connecting() (Connector.cpp:100): the reset queued by
\* ResetChannel has run by then.
ConnectingFindsNoChannel == "Connecting" \notin connector.failed

\* As long as Connect() is called only when nothing is left of the call before, the
\* first two asserts never fail, and the third only if a timer catches up with the
\* iteration that has closed the channel of the attempt before: its reset is queued
\* behind the timers (Connector.cpp:31, 100, 115, 160-163).
AssertsHold ==
    ~hasty =>
        /\ StartFindsDisconnected /\ RetryFindsDisconnected
        /\ hurried \/ ConnectingFindsNoChannel

\* Something still holds a shared_ptr to the connector: the client, a closure
\* of Start() or Stop(), the user's call, or a retry timer; ResetChannel's
\* closure does not.
Referenced ==
    \/ client.exists \/ user_pc # <<"idle">>
    \/ connector.fresh + connector.due > 0
    \/ \E i \in 1..Len(connector.functors) : connector.functors[i] # "reset"

\* assert(!channel_) in ~Connector (Connector.cpp:24).
DestroyedWithoutChannel == ~Referenced => connector.channel_ = "null"

\* One attempt at a time, unless Connect() is called while something is left of the
\* call before: while a channel waits for connect() to end there is neither a retry
\* timer that would start another nor a connection (Connector.cpp:61-125,
\* TcpClient.cpp:81-92).
OneAttemptAtATime ==
    ~hasty /\ connector.channel_ = "armed" =>
        /\ connector.state_ = "kConnecting"
        /\ connector.fresh + connector.due = 0
        /\ client.connection_ = "none"

\* Once Stop() has taken effect in the loop, no connection comes up until
\* Connect() is called again (Connector.cpp:38-49, 111-125, 138-142).  It may
\* if the calls come from another thread: Restart() sets start_ again
\* (Connector.cpp:55).
StopStops ==
    [][in_loop /\ stopped => ~(client.connection_ = "none" /\ client'.connection_ # "none")]_vars

\* Automatic reconnection (README.md:21, TcpClient.cpp:89-91): a client with
\* EnableRetry() that has called Connect() is connected again and again, until
\* Disconnect(), Stop() or the destructor, unless connect() ends in an error
\* that is not retried (Connector.cpp:82-94) or an assert ends the process.
AutoReconnect ==
    [](client.start_ => <>(\/ client.connection_ # "none"
                           \/ ~client.start_ \/ ~client.exists
                           \/ connector.fatal \/ connector.failed # {}))
=============================================================================
