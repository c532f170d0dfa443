--------------------------- MODULE TcpClientProofs ---------------------------
(***************************************************************************)
(* Theorems about TcpClient and its Connector, for any outcomes of         *)
(* connect(), any cap of the backoff and any calls of the user's.          *)
(*                                                                         *)
(* What keeps attempts apart is that there is one thing at a time that may *)
(* lead to one: a queued Start(), a channel waiting for EPOLLOUT, a timer, *)
(* a connection that may be restarted, or a Restart() under way.           *)
(***************************************************************************)
EXTENDS TcpClient, SequenceTheorems, TLAPS

Closures == {"start", "stop", "reset"}

ConnectorType ==
    [start_ : BOOLEAN, state_ : {"kDisconnected", "kConnecting", "kConnected"},
     channel_ : {"null", "armed", "closed"}, retry_duration_ : 1..kMaxRetry,
     functors : Seq(Closures), fresh : Nat, due : Nat,
     failed : SUBSET {"Start", "Retry", "Connecting"}, fatal : BOOLEAN]

ClientTypeOK ==
    /\ connector \in ConnectorType
    /\ client \in [start_ : BOOLEAN, connection_ : {"none", "new", "up"}, exists : BOOLEAN]
    /\ phase \in {"events", "timers", "functors"}
    /\ batch \in 0..Len(connector.functors)
    /\ restarting \in BOOLEAN /\ stopped \in BOOLEAN /\ in_loop \in BOOLEAN
    /\ hasty \in BOOLEAN /\ hurried \in BOOLEAN
    /\ user_pc \in {<<"idle">>} \cup ({"start", "stop"} \X {"store", "run"})
    /\ connects \in 0..MaxConnects

One(b) == IF b THEN 1 ELSE 0

Has(fs, f) == \E i \in 1..Len(fs) : fs[i] = f

\* A call of Connect() whose closure has not run.
Starting == Has(connector.functors, "start") \/ user_pc[1] = "start"

\* What may lead to an attempt, or is one.
Attempts ==
    One(restarting) + One(connector.channel_ = "armed") + One(client.connection_ # "none")
    + connector.fresh + connector.due + One(Starting)

\* f is queued once, at most.
Once(fs, f) == \A i, j \in 1..Len(fs) : fs[i] = f /\ fs[j] = f => i = j

\* ResetChannel()'s closure is queued while the channel is closed, and only then.
ResetInv ==
    Up => /\ connector.state_ = "kConnecting" => connector.channel_ = "armed"
          /\ Has(connector.functors, "reset") <=> connector.channel_ = "closed"
          /\ Once(connector.functors, "reset")

\* There is one attempt, at most, and the connector's state goes with it.
Apart ==
    /\ Attempts <= 1
    /\ Once(connector.functors, "start")
    /\ user_pc[1] = "start" => ~Has(connector.functors, "start")
    /\ connector.channel_ = "armed" <=> connector.state_ = "kConnecting"
    /\ Starting \/ connector.fresh + connector.due > 0
          => connector.state_ = "kDisconnected"

\* So it is as long as Connect() is called when nothing is left of the call before.
AttemptInv == ~hasty => Apart

\* ResetChannel()'s closure is run in this iteration.
ResetSoon ==
    \E i \in 1..Len(connector.functors) :
        connector.functors[i] = "reset" /\ (phase = "functors" => i <= batch)

\* No assert has failed, and none will: a channel that is closed while there is
\* still something to come of the call is reset before the timer or the
\* connection that is to come of it can lead to another attempt.
Clean ==
    /\ connector.failed = {}
    /\ connector.channel_ = "closed" /\ Attempts > 0
          => /\ client.connection_ = "new" \/ connector.fresh = 1
             /\ ResetSoon

\* As long as Connect() is called when nothing is left of the call before, Clean holds
\* until a timer catches up with its iteration; even then only one assert can fail.
AssertInv ==
    ~hasty => connector.failed \subseteq {"Connecting"} /\ (hurried \/ Clean)

StopInv ==
    in_loop =>
        /\ \A i \in 1..Len(connector.functors) : connector.functors[i] = "reset"
        /\ user_pc # <<"idle">> => ~restarting
        /\ user_pc \in {"start", "stop"} \X {"run"} => connector.start_ = (user_pc[1] = "start")
        /\ stopped => /\ ~connector.start_ /\ ~restarting
                      /\ ~client.start_ \/ ~client.exists
                      /\ user_pc[1] # "start"
        /\ user_pc[1] = "stop" => ~client.start_ \/ ~client.exists

-----------------------------------------------------------------------------
(* The connector's operators.                                              *)

\* How an attempt to connect leaves the connector, if it is made at all: under
\* way, to be retried after a timer, or given up.
Attempted(c, d) ==
    /\ d \in ConnectorType
    /\ d.functors = c.functors /\ d.due = c.due /\ d.start_ = c.start_
    /\ \/ /\ d.channel_ = "armed" /\ d.state_ = "kConnecting" /\ d.fresh = c.fresh
          /\ c.channel_ # "null" => d.failed # {}
       \/ d.channel_ = c.channel_ /\ d.state_ = "kDisconnected" /\ d.fresh = c.fresh + 1
       \/ /\ d.channel_ = c.channel_ /\ d.fresh = c.fresh
          /\ d.state_ \in {c.state_, "kDisconnected"}
    /\ c.state_ = "kDisconnected" => d.failed \subseteq c.failed \cup {"Connecting"}
    /\ c.state_ = "kDisconnected" /\ c.channel_ = "null" => d.failed = c.failed

\* How an attempt that is under way ends without a connection.
Abandoned(c, d) ==
    /\ d \in ConnectorType
    /\ d.functors = Append(c.functors, "reset")
    /\ d.channel_ = "closed" /\ d.state_ = "kDisconnected"
    /\ d.start_ = c.start_ /\ d.due = c.due /\ d.failed = c.failed
    /\ d.fresh = c.fresh + One(c.start_)

\* Retry() (Connector.cpp:108-125).
LEMMA RetryEffect ==
    ASSUME NEW c \in ConnectorType
    PROVE  /\ Retry(c) \in ConnectorType
           /\ Retry(c).functors = c.functors /\ Retry(c).due = c.due
           /\ Retry(c).channel_ = c.channel_ /\ Retry(c).failed = c.failed
           /\ Retry(c).state_ = "kDisconnected" /\ Retry(c).start_ = c.start_
           /\ Retry(c).fresh = c.fresh + One(c.start_)
<1> DEFINE twice == 2 * c.retry_duration_
           next == IF twice > kMaxRetry THEN kMaxRetry ELSE twice
<1>1. c.retry_duration_ \in 1..kMaxRetry /\ kMaxRetry \in Nat
  BY ConnectorAssumption DEF ConnectorType
<1>2. next \in 1..kMaxRetry
  BY <1>1
<1> HIDE DEF next
<1>3. CASE c.start_
  <2>1. Retry(c) = [c EXCEPT !.state_ = "kDisconnected", !.fresh = @ + 1, !.retry_duration_ = next]
    BY <1>3 DEF Retry, next, ConnectorType
  <2>2. Retry(c) \in ConnectorType
    <3>1. c.fresh + 1 \in Nat
      BY DEF ConnectorType
    <3> QED
      BY <2>1, <1>2, <3>1 DEF ConnectorType
  <2>3. /\ Retry(c).functors = c.functors /\ Retry(c).due = c.due
        /\ Retry(c).channel_ = c.channel_ /\ Retry(c).failed = c.failed
        /\ Retry(c).state_ = "kDisconnected" /\ Retry(c).start_ = c.start_
        /\ Retry(c).fresh = c.fresh + 1
    BY <2>1 DEF ConnectorType
  <2> QED
    BY <2>2, <2>3, <1>3 DEF One
<1>4. CASE ~c.start_
  BY <1>4 DEF Retry, ConnectorType, One
<1> QED
  BY <1>3, <1>4

\* Connect() (Connector.cpp:61-96).
LEMMA ConnectEffect ==
    ASSUME NEW c \in ConnectorType, NEW r \in {"pending", "refused", "fatal"}
    PROVE  Attempted(c, Connect(c, r))
<1>1. CASE r = "pending"
  BY <1>1 DEF Connect, Connecting, Assert_, Attempted, ConnectorType
<1>2. CASE r = "refused"
  <2>1. Connect(c, r) = Retry(c)
    BY <1>2 DEF Connect
  <2>2. c.start_ \in BOOLEAN /\ c.fresh \in Nat
    BY DEF ConnectorType
  <2> QED
    BY <2>1, <2>2, RetryEffect DEF Attempted, One
<1>3. CASE r = "fatal"
  BY <1>3 DEF Connect, Attempted, ConnectorType
<1> QED
  BY <1>1, <1>2, <1>3

\* An assert leaves the connector as it is if it holds (Connector.cpp:31, 100,
\* 115).
LEMMA AssertEffect ==
    ASSUME NEW c \in ConnectorType, NEW where \in {"Start", "Retry", "Connecting"},
           NEW holds \in BOOLEAN
    PROVE  LET d == Assert_(c, where, holds)
           IN  /\ d \in ConnectorType
               /\ d.functors = c.functors /\ d.due = c.due /\ d.start_ = c.start_
               /\ d.channel_ = c.channel_ /\ d.state_ = c.state_ /\ d.fresh = c.fresh
               /\ holds => d.failed = c.failed
BY DEF Assert_, ConnectorType

\* Start()'s closure (Connector.cpp:26-36).
LEMMA StartEffect ==
    ASSUME NEW c \in ConnectorType, NEW r \in {"pending", "refused", "fatal"}
    PROVE  Attempted(c, StartInLoop(c, r))
<1> DEFINE d == Assert_(c, "Start", c.state_ = "kDisconnected")
<1>1. /\ d \in ConnectorType
      /\ d.functors = c.functors /\ d.due = c.due /\ d.start_ = c.start_
      /\ d.channel_ = c.channel_ /\ d.state_ = c.state_ /\ d.fresh = c.fresh
      /\ c.state_ = "kDisconnected" => d.failed = c.failed
  BY AssertEffect
<1>2. StartInLoop(c, r) = IF d.start_ THEN Connect(d, r) ELSE d
  BY DEF StartInLoop
<1> HIDE DEF d
<1>3. Attempted(d, Connect(d, r))
  BY <1>1, ConnectEffect
<1> QED
  BY <1>1, <1>2, <1>3 DEF Attempted

\* The retry timer's closure (Connector.cpp:113-118).
LEMMA RetryTimerEffect ==
    ASSUME NEW c \in ConnectorType, c.due > 0, NEW r \in {"pending", "refused", "fatal"}
    PROVE  Attempted([c EXCEPT !.due = @ - 1], RetryTimer(c, r))
<1> DEFINE b == [c EXCEPT !.due = @ - 1]
           d == Assert_(b, "Retry", c.state_ = "kDisconnected")
<1>1. b \in ConnectorType /\ b.state_ = c.state_
  BY DEF ConnectorType
<1> HIDE DEF b
<1>2. /\ d \in ConnectorType
      /\ d.functors = b.functors /\ d.due = b.due /\ d.start_ = b.start_
      /\ d.channel_ = b.channel_ /\ d.state_ = b.state_ /\ d.fresh = b.fresh
      /\ b.state_ = "kDisconnected" => d.failed = b.failed
  BY <1>1, AssertEffect
<1>3. RetryTimer(c, r) = IF d.start_ THEN Connect(d, r) ELSE d
  BY DEF RetryTimer, b
<1> HIDE DEF d
<1>4. Attempted(d, Connect(d, r))
  BY <1>2, ConnectEffect
<1>5. Attempted(b, RetryTimer(c, r))
  BY <1>2, <1>3, <1>4 DEF Attempted
<1> QED
  BY <1>5 DEF b

\* Restart() (Connector.cpp:51-59).
LEMMA RestartEffect ==
    ASSUME NEW c \in ConnectorType, NEW r \in {"pending", "refused", "fatal"}
    PROVE  Attempted([c EXCEPT !.state_ = "kDisconnected", !.retry_duration_ = 1,
                               !.start_ = TRUE], Restart(c, r))
<1> DEFINE b == [c EXCEPT !.state_ = "kDisconnected", !.retry_duration_ = 1, !.start_ = TRUE]
<1>1. b \in ConnectorType
  <2>1. 1 \in 1..kMaxRetry
    BY ConnectorAssumption
  <2> QED
    BY <2>1 DEF ConnectorType
<1> QED
  BY <1>1, ConnectEffect DEF Restart

\* ResetChannel() (Connector.cpp:156-165).
LEMMA ResetChannelEffect ==
    ASSUME NEW c \in ConnectorType
    PROVE  LET d == ResetChannel(c)
           IN  /\ d \in ConnectorType
               /\ d.functors = Append(c.functors, "reset") /\ d.channel_ = "closed"
               /\ d.due = c.due /\ d.start_ = c.start_ /\ d.state_ = c.state_
               /\ d.fresh = c.fresh /\ d.failed = c.failed
<1>1. c.functors \in Seq(Closures) /\ Append(c.functors, "reset") \in Seq(Closures)
  BY DEF ConnectorType, Closures
<1> QED
  BY <1>1 DEF ResetChannel, ConnectorType

\* A handler finds a bad socket (Connector.cpp:127-135, 146-154).
LEMMA AbandonEffect ==
    ASSUME NEW c \in ConnectorType
    PROVE  /\ Abandoned(c, HandleWrite(c, FALSE))
           /\ HandleError(c) = c \/ Abandoned(c, HandleError(c))
<1> DEFINE d == ResetChannel(c)
<1>1. /\ d \in ConnectorType
      /\ d.functors = Append(c.functors, "reset") /\ d.channel_ = "closed"
      /\ d.due = c.due /\ d.start_ = c.start_ /\ d.state_ = c.state_
      /\ d.fresh = c.fresh /\ d.failed = c.failed
  BY ResetChannelEffect
<1>2. /\ HandleWrite(c, FALSE) = Retry(d)
      /\ HandleError(c) \in {Retry(d), c}
  BY DEF HandleWrite, HandleError
<1> HIDE DEF d
<1>3. Abandoned(c, Retry(d))
  BY <1>1, RetryEffect DEF Abandoned
<1> QED
  BY <1>2, <1>3

\* A handler finds the connection made (Connector.cpp:136-144).
LEMMA MadeEffect ==
    ASSUME NEW c \in ConnectorType
    PROVE  LET d == HandleWrite(c, TRUE)
           IN  /\ d \in ConnectorType
               /\ d.functors = Append(c.functors, "reset") /\ d.channel_ = "closed"
               /\ d.due = c.due /\ d.start_ = c.start_ /\ d.state_ = "kConnected"
               /\ d.fresh = c.fresh /\ d.failed = c.failed
<1>1. c.functors \in Seq(Closures) /\ Append(c.functors, "reset") \in Seq(Closures)
  BY DEF ConnectorType, Closures
<1> QED
  BY <1>1 DEF HandleWrite, ResetChannel, ConnectorType

\* Stop()'s closure (Connector.cpp:38-49).
LEMMA StopEffect ==
    ASSUME NEW c \in ConnectorType
    PROVE  LET d == StopInLoop(c)
           IN  IF c.state_ = "kConnecting"
               THEN /\ d \in ConnectorType
                    /\ d.functors = Append(c.functors, "reset") /\ d.channel_ = "closed"
                    /\ d.due = c.due /\ d.start_ = c.start_ /\ d.state_ = "kDisconnected"
                    /\ d.fresh = c.fresh /\ d.failed = c.failed
               ELSE d = c
<1>1. c.functors \in Seq(Closures) /\ Append(c.functors, "reset") \in Seq(Closures)
  BY DEF ConnectorType, Closures
<1> QED
  BY <1>1 DEF StopInLoop, ResetChannel, ConnectorType
-----------------------------------------------------------------------------
(* Types.                                                                  *)

LEMMA OutcomesType == \A r \in Outcomes : r \in {"pending", "refused", "fatal"}
BY TcpClientAssumption

\* A closure that has run is out of the queue.
LEMMA TailType ==
    ASSUME NEW c \in ConnectorType, Len(c.functors) > 0
    PROVE  LET b == [c EXCEPT !.functors = Tail(@)]
           IN  /\ b \in ConnectorType
               /\ Len(b.functors) = Len(c.functors) - 1
               /\ \A i \in 1..Len(b.functors) : b.functors[i] = c.functors[i + 1]
               /\ b.due = c.due /\ b.start_ = c.start_ /\ b.channel_ = c.channel_
               /\ b.state_ = c.state_ /\ b.fresh = c.fresh /\ b.failed = c.failed
               /\ Head(c.functors) = c.functors[1] /\ Head(c.functors) \in Closures
<1>1. c.functors \in Seq(Closures) /\ c.functors # <<>>
  BY DEF ConnectorType
<1>2. /\ Tail(c.functors) \in Seq(Closures)
      /\ Len(Tail(c.functors)) = Len(c.functors) - 1
      /\ \A i \in 1..Len(Tail(c.functors)) : Tail(c.functors)[i] = c.functors[i + 1]
      /\ Head(c.functors) = c.functors[1] /\ Head(c.functors) \in Closures
  BY <1>1, HeadTailProperties
<1> QED
  BY <1>1, <1>2 DEF ConnectorType

\* A closure that is queued comes last.
LEMMA AppendType ==
    ASSUME NEW fs \in Seq(Closures), NEW f \in Closures
    PROVE  /\ Append(fs, f) \in Seq(Closures)
           /\ Len(Append(fs, f)) = Len(fs) + 1 /\ Len(fs) \in Nat
           /\ \A i \in 1..Len(fs) : Append(fs, f)[i] = fs[i]
           /\ Append(fs, f)[Len(fs) + 1] = f
OBVIOUS

\* How a closure leaves the connector: Start(), Stop() or ResetChannel().
ClosureRan(c, d, f) ==
    \/ f = "start" /\ Attempted(c, d)
    \/ f = "stop" /\ d = StopInLoop(c)
    \/ f = "reset" /\ d = [c EXCEPT !.channel_ = "null"]

LEMMA FunctorEffect ==
    ASSUME ClientTypeOK, NEW r \in Outcomes, RunFunctor(r)
    PROVE  /\ batch > 0 /\ Len(connector.functors) > 0
           /\ [connector EXCEPT !.functors = Tail(@)] \in ConnectorType
           /\ ClosureRan([connector EXCEPT !.functors = Tail(@)], connector',
                         Head(connector.functors))
<1>1. batch > 0 /\ Len(connector.functors) > 0 /\ connector \in ConnectorType
  BY DEF RunFunctor, ClientTypeOK, ConnectorType
<1> DEFINE f == Head(connector.functors)
           c == [connector EXCEPT !.functors = Tail(@)]
<1>2. c \in ConnectorType /\ f \in Closures
  BY <1>1, TailType
<1>3. connector' = CASE f = "start" -> StartInLoop(c, r)
                     [] f = "stop" -> StopInLoop(c)
                     [] f = "reset" -> [c EXCEPT !.channel_ = "null"]
  BY DEF RunFunctor
<1> HIDE DEF f, c
<1>4. Attempted(c, StartInLoop(c, r))
  BY <1>2, StartEffect, OutcomesType
<1>5. ClosureRan(c, connector', f)
  BY <1>2, <1>3, <1>4 DEF ClosureRan, Closures
<1> QED
  BY <1>1, <1>2, <1>5 DEF f, c

LEMMA ClosureType ==
    ASSUME NEW c \in ConnectorType, NEW d, NEW f, ClosureRan(c, d, f)
    PROVE  /\ d \in ConnectorType
           /\ \/ d.functors = c.functors
              \/ f = "stop" /\ d.functors = Append(c.functors, "reset")
           /\ Len(d.functors) >= Len(c.functors)
<1>1. c.functors \in Seq(Closures) /\ "reset" \in Closures
  BY DEF ConnectorType, Closures
<1>2. Len(Append(c.functors, "reset")) = Len(c.functors) + 1 /\ Len(c.functors) \in Nat
  BY <1>1, AppendType
<1>3. CASE f = "start" /\ Attempted(c, d)
  BY <1>2, <1>3 DEF Attempted
<1>4. CASE f = "stop" /\ d = StopInLoop(c)
  BY <1>2, <1>4, StopEffect
<1>5. CASE f = "reset" /\ d = [c EXCEPT !.channel_ = "null"]
  BY <1>2, <1>5 DEF ConnectorType
<1> QED
  BY <1>3, <1>4, <1>5 DEF ClosureRan

\* The types are right, and CallPendingFunctors never runs more closures than
\* there are (Connector.h, TcpClient.h, EventLoop.cpp:117-128).
THEOREM TypeCorrect == Spec => []ClientTypeOK
<1>1. Init => ClientTypeOK
  <2>1. 1 \in 1..kMaxRetry /\ <<>> \in Seq(Closures) /\ Len(<<>>) = 0
    BY ConnectorAssumption
  <2>2. InitConnector \in ConnectorType /\ InitConnector.functors = <<>>
    BY <2>1 DEF InitConnector, ConnectorType
  <2>3. 0 \in 0..MaxConnects /\ 0 \in 0..0
    BY TcpClientAssumption
  <2> QED
    <3> SUFFICES ASSUME Init PROVE ClientTypeOK
      OBVIOUS
    <3>1. connector \in ConnectorType /\ batch \in 0..Len(connector.functors)
      BY <2>1, <2>2, <2>3 DEF Init
    <3>2. connects \in 0..MaxConnects
      BY <2>3 DEF Init
    <3> QED
      BY <3>1, <3>2 DEF Init, ClientTypeOK
<1>2. ClientTypeOK /\ [Next]_vars => ClientTypeOK'
  <2> SUFFICES ASSUME ClientTypeOK, [Next]_vars
               PROVE  ClientTypeOK'
    OBVIOUS
  <2> USE DEF ClientTypeOK
  <2>0. /\ connector \in ConnectorType /\ connector.functors \in Seq(Closures)
        /\ Len(connector.functors) \in Nat /\ "reset" \in Closures
        /\ Len(Append(connector.functors, "reset")) = Len(connector.functors) + 1
    <3>1. connector.functors \in Seq(Closures) /\ "reset" \in Closures
      BY DEF ConnectorType, Closures
    <3> QED
      BY <3>1, AppendType
  <2>1. CASE ConnectorWritable
    <3>1. /\ connector' \in ConnectorType
          /\ connector'.functors = Append(connector.functors, "reset")
      BY <2>0, <2>1, MadeEffect DEF ConnectorWritable
    <3> QED
      <4>1. batch' \in 0..Len(connector'.functors)
        <5>1. batch' = batch
          BY <2>1 DEF ConnectorWritable
        <5> QED
          BY <2>0, <3>1, <5>1
      <4>2. client' \in [start_ : BOOLEAN, connection_ : {"none", "new", "up"}, exists : BOOLEAN]
        BY <2>1 DEF ConnectorWritable
      <4> QED
        BY <2>1, <3>1, <4>1, <4>2 DEF ConnectorWritable
  <2>2. CASE ConnectorFails
    <3>1. connector' = connector \/ Abandoned(connector, connector')
      BY <2>0, <2>2, AbandonEffect DEF ConnectorFails
    <3> QED
      BY <2>0, <2>2, <3>1 DEF ConnectorFails, Abandoned
  <2>3. CASE RemoveTcpConnection
    BY <2>3, TcpClientAssumption DEF RemoveTcpConnection
  <2>4. ASSUME NEW r \in Outcomes, CallRestart(r)
        PROVE  ClientTypeOK'
    <3> DEFINE b == [connector EXCEPT !.state_ = "kDisconnected", !.retry_duration_ = 1,
                                     !.start_ = TRUE]
    <3>1. Attempted(b, connector')
      BY <2>0, <2>4, RestartEffect, OutcomesType DEF CallRestart
    <3>2. b.functors = connector.functors
      BY <2>0 DEF ConnectorType
    <3> QED
      BY <2>4, <3>1, <3>2 DEF CallRestart, Attempted
  <2>5. CASE EventsDone
    <3>1. PICK n \in 0..connector.fresh :
            connector' = [connector EXCEPT !.fresh = @ - n, !.due = @ + n]
      BY <2>5 DEF EventsDone
    <3>2. connector.fresh - n \in Nat /\ connector.due + n \in Nat
      BY <2>0 DEF ConnectorType
    <3>3. connector' \in ConnectorType /\ connector'.functors = connector.functors
      BY <2>0, <3>1, <3>2 DEF ConnectorType
    <3> QED
      BY <2>5, <3>3 DEF EventsDone
  <2>6. ASSUME NEW r \in Outcomes, RetryTimerFires(r)
        PROVE  ClientTypeOK'
    <3>1. Attempted([connector EXCEPT !.due = @ - 1], connector')
      BY <2>0, <2>6, RetryTimerEffect, OutcomesType DEF RetryTimerFires
    <3>2. [connector EXCEPT !.due = @ - 1].functors = connector.functors
      BY <2>0 DEF ConnectorType
    <3> QED
      BY <2>6, <3>1, <3>2 DEF RetryTimerFires, Attempted
  <2>7. CASE TimersDone
    BY <2>0, <2>7 DEF TimersDone
  <2>8. ASSUME NEW r \in Outcomes, RunFunctor(r)
        PROVE  ClientTypeOK'
    <3> DEFINE c == [connector EXCEPT !.functors = Tail(@)]
    <3>1. /\ batch > 0 /\ Len(connector.functors) > 0 /\ c \in ConnectorType
          /\ ClosureRan(c, connector', Head(connector.functors))
      BY <2>8, FunctorEffect
    <3>2. Len(c.functors) = Len(connector.functors) - 1
      BY <2>0, <3>1, TailType
    <3> HIDE DEF c
    <3>3. connector' \in ConnectorType /\ Len(connector'.functors) >= Len(c.functors)
      BY <3>1, ClosureType
    <3>4. Len(connector'.functors) \in Nat
      BY <3>3 DEF ConnectorType
    <3>5. batch' = batch - 1 /\ stopped' \in BOOLEAN
      BY <2>8 DEF RunFunctor
    <3>6. batch' \in 0..Len(connector'.functors)
      BY <2>0, <3>1, <3>2, <3>3, <3>4, <3>5
    <3> QED
      BY <2>8, <3>3, <3>5, <3>6 DEF RunFunctor
  <2>9. CASE FunctorsDone
    <3>1. connector.due + connector.fresh \in Nat
      BY <2>0 DEF ConnectorType
    <3>2. connector' \in ConnectorType /\ connector'.functors = connector.functors
      BY <2>0, <2>9, <3>1 DEF FunctorsDone, ConnectorType
    <3> QED
      BY <2>9, <3>2 DEF FunctorsDone
  <2>10. CASE UserCall
    <3>1. connector' = connector /\ batch' = batch /\ user_pc' \in {user_pc, <<"start", "store">>, <<"stop", "store">>}
      BY <2>10 DEF UserCall, UserConnect, UserDisconnect, UserStop, UserDestroy,
                   UserDestroyConnected
    <3>2. connects' \in 0..MaxConnects
      BY <2>10, TcpClientAssumption
         DEF UserCall, UserConnect, UserDisconnect, UserStop, UserDestroy,
             UserDestroyConnected
    <3>3. /\ client' \in [start_ : BOOLEAN, connection_ : {"none", "new", "up"}, exists : BOOLEAN]
          /\ phase' = phase /\ restarting' = restarting /\ in_loop' = in_loop
          /\ stopped' \in {stopped, FALSE} /\ hurried' = hurried /\ hasty' \in BOOLEAN
      BY <2>10 DEF UserCall, UserConnect, UserDisconnect, UserStop, UserDestroy,
                   UserDestroyConnected
    <3>4. user_pc' \in {<<"idle">>} \cup ({"start", "stop"} \X {"store", "run"})
      <4>1. <<"start", "store">> \in {"start", "stop"} \X {"store", "run"}
        OBVIOUS
      <4>2. <<"stop", "store">> \in {"start", "stop"} \X {"store", "run"}
        OBVIOUS
      <4> QED
        BY <3>1, <4>1, <4>2
    <3> QED
      BY <3>1, <3>2, <3>3, <3>4
  <2>11. CASE ConnectorStores
    <3>1. connector' \in ConnectorType /\ connector'.functors = connector.functors
      BY <2>0, <2>11 DEF ConnectorStores, ConnectorType
    <3>2. user_pc \in {"start", "stop"} \X {"store", "run"}
      BY <2>11 DEF ConnectorStores
    <3> QED
      BY <2>11, <3>1, <3>2 DEF ConnectorStores
  <2>12. ASSUME NEW r \in Outcomes, ConnectorRunsInLoop(r)
         PROVE  ClientTypeOK'
    <3>1. user_pc[1] \in {"start", "stop"} /\ user_pc[1] \in Closures
      BY <2>12 DEF ConnectorRunsInLoop, Closures
    <3>2. connector' \in ConnectorType /\ Len(connector'.functors) >= Len(connector.functors)
      <4>1. CASE in_loop
        <5>1. Attempted(connector, StartInLoop(connector, r))
          BY <2>0, StartEffect, OutcomesType
        <5>2. \/ Attempted(connector, connector')
              \/ connector' = StopInLoop(connector)
          BY <2>12, <4>1, <5>1, <3>1 DEF ConnectorRunsInLoop
        <5> QED
          BY <2>0, <5>2, StopEffect DEF Attempted
      <4>2. CASE ~in_loop
        <5>1. Append(connector.functors, user_pc[1]) \in Seq(Closures)
          BY <2>0, <3>1, AppendType
        <5>2. connector' = [connector EXCEPT !.functors = Append(@, user_pc[1])]
          BY <2>12, <4>2 DEF ConnectorRunsInLoop
        <5>3. connector' \in ConnectorType
              /\ connector'.functors = Append(connector.functors, user_pc[1])
          BY <2>0, <5>1, <5>2 DEF ConnectorType
        <5> QED
          BY <2>0, <3>1, <5>3, AppendType
      <4> QED
        BY <4>1, <4>2
    <3>3. Len(connector'.functors) \in Nat
      BY <3>2 DEF ConnectorType
    <3>4. batch' = batch /\ batch' \in 0..Len(connector'.functors)
      BY <2>0, <2>12, <3>2, <3>3 DEF ConnectorRunsInLoop
    <3>5. stopped' \in BOOLEAN /\ user_pc' = <<"idle">>
      BY <2>12 DEF ConnectorRunsInLoop
    <3> QED
      BY <2>12, <3>2, <3>4, <3>5 DEF ConnectorRunsInLoop
  <2>13. CASE UNCHANGED vars
    BY <2>13 DEF vars
  <2> QED
    BY <2>1, <2>2, <2>3, <2>4, <2>5, <2>6, <2>7, <2>8, <2>9, <2>10, <2>11, <2>12, <2>13
       DEF Next, LoopStep
<1> QED
  BY <1>1, <1>2, PTL DEF Spec
-----------------------------------------------------------------------------
(* One attempt at a time.                                                  *)

\* What a queue holds when a closure is added ...
LEMMA QueueAppend ==
    ASSUME NEW fs \in Seq(Closures), NEW f \in Closures
    PROVE  \A g : /\ Has(Append(fs, f), g) <=> Has(fs, g) \/ f = g
                  /\ Once(fs, g) /\ (f = g => ~Has(fs, g)) => Once(Append(fs, f), g)
<1> DEFINE gs == Append(fs, f)
<1>1. /\ Len(gs) = Len(fs) + 1 /\ Len(fs) \in Nat
      /\ \A i \in 1..Len(fs) : gs[i] = fs[i]
      /\ gs[Len(fs) + 1] = f
  BY AppendType
<1> HIDE DEF gs
<1>2. /\ 1..Len(gs) = (1..Len(fs)) \cup {Len(fs) + 1}
      /\ Len(fs) + 1 \in 1..Len(gs)
  BY <1>1
<1> SUFFICES ASSUME NEW g
             PROVE  /\ Has(gs, g) <=> Has(fs, g) \/ f = g
                    /\ Once(fs, g) /\ (f = g => ~Has(fs, g)) => Once(gs, g)
  BY DEF gs
<1>3. Has(gs, g) <=> Has(fs, g) \/ f = g
  BY <1>1, <1>2 DEF Has
<1>4. ASSUME Once(fs, g), f = g => ~Has(fs, g)
      PROVE  Once(gs, g)
  BY <1>1, <1>2, <1>4 DEF Once, Has
<1> QED
  BY <1>3, <1>4

\* ... and when the first one is taken.
LEMMA QueueTail ==
    ASSUME NEW fs \in Seq(Closures), Len(fs) > 0
    PROVE  \A g : /\ Has(fs, g) <=> Has(Tail(fs), g) \/ Head(fs) = g
                  /\ Once(fs, g) => /\ Once(Tail(fs), g)
                                    /\ Head(fs) = g => ~Has(Tail(fs), g)
<1> DEFINE gs == Tail(fs)
           n == Len(gs)
<1>1. /\ gs \in Seq(Closures) /\ n = Len(fs) - 1 /\ n \in Nat
      /\ \A i \in 1..n : gs[i] = fs[i + 1]
      /\ Head(fs) = fs[1]
  BY HeadTailProperties
<1> HIDE DEF gs, n
<1>2. Len(fs) = n + 1
  BY <1>1
<1> SUFFICES ASSUME NEW g
             PROVE  /\ Has(fs, g) <=> Has(gs, g) \/ Head(fs) = g
                    /\ Once(fs, g) => /\ Once(gs, g)
                                      /\ Head(fs) = g => ~Has(gs, g)
  BY DEF gs
<1>3. Has(fs, g) <=> (\E i \in 1..n : gs[i] = g) \/ Head(fs) = g
  <2>1. ASSUME Has(fs, g)  PROVE (\E i \in 1..n : gs[i] = g) \/ Head(fs) = g
    <3>1. PICK i \in 1..(n + 1) : fs[i] = g
      BY <1>2, <2>1 DEF Has
    <3>2. CASE i = 1
      BY <1>1, <3>1, <3>2
    <3>3. CASE i # 1
      <4>1. i - 1 \in 1..n /\ (i - 1) + 1 = i
        BY <1>1, <3>3
      <4> QED
        BY <1>1, <3>1, <4>1
    <3> QED
      BY <3>2, <3>3
  <2>2. ASSUME NEW i \in 1..n, gs[i] = g  PROVE Has(fs, g)
    <3>1. i + 1 \in 1..(n + 1) /\ fs[i + 1] = g
      BY <1>1, <2>2
    <3> QED
      BY <1>2, <3>1 DEF Has
  <2>3. ASSUME Head(fs) = g  PROVE Has(fs, g)
    <3>1. 1 \in 1..(n + 1)
      BY <1>1
    <3> QED
      BY <1>1, <1>2, <2>3, <3>1 DEF Has
  <2> QED
    BY <2>1, <2>2, <2>3
<1>4. ASSUME Once(fs, g)
      PROVE  /\ \A i, j \in 1..n : gs[i] = g /\ gs[j] = g => i = j
             /\ Head(fs) = g => \A i \in 1..n : gs[i] # g
  <2>1. ASSUME NEW i \in 1..n, NEW j \in 1..n, gs[i] = g, gs[j] = g
        PROVE  i = j
    <3>1. i + 1 \in 1..(n + 1) /\ j + 1 \in 1..(n + 1)
      BY <1>1
    <3>2. i + 1 = j + 1
      BY <1>1, <1>2, <1>4, <2>1, <3>1 DEF Once
    <3> QED
      BY <1>1, <3>2
  <2>2. ASSUME Head(fs) = g, NEW i \in 1..n, gs[i] = g
        PROVE  FALSE
    <3>1. i + 1 \in 1..(n + 1) /\ 1 \in 1..(n + 1) /\ i + 1 # 1
      BY <1>1
    <3> QED
      BY <1>1, <1>2, <1>4, <2>2, <3>1 DEF Once
  <2> QED
    BY <2>1, <2>2
<1> QED
  BY <1>3, <1>4 DEF Once, Has, n

\* The closures that Start() and Stop() queue say nothing of a reset.
LEMMA ResetStep ==
    ASSUME ClientTypeOK, ClientTypeOK', [Next]_vars, ResetInv
    PROVE  ResetInv'
<1> SUFFICES ASSUME Up' PROVE ResetInv'
  BY DEF ResetInv
<1>0. /\ connector \in ConnectorType /\ connector' \in ConnectorType
      /\ connector.functors \in Seq(Closures)
      /\ "reset" \in Closures /\ "start" \in Closures /\ "stop" \in Closures
      /\ connector'.failed = {}
  BY DEF ClientTypeOK, ConnectorType, Closures, Up
\* What is used of the invariant before the step, and what is to be shown.
<1> DEFINE I(c) == /\ c.state_ = "kConnecting" => c.channel_ = "armed"
                   /\ Has(c.functors, "reset") <=> c.channel_ = "closed"
                   /\ Once(c.functors, "reset")
<1>a. Up => I(connector)
  BY DEF ResetInv
<1>b. I(connector') => ResetInv'
  BY DEF ResetInv
<1> HIDE DEF I
\* A channel that waited is closed.
<1>c. ASSUME NEW c \in ConnectorType, I(c), c.channel_ = "armed", NEW d,
             d.functors = Append(c.functors, "reset"), d.channel_ = "closed",
             d.state_ # "kConnecting"
      PROVE  I(d)
  <2>1. c.functors \in Seq(Closures)
    BY DEF ConnectorType
  <2> QED
    BY <1>0, <1>c, <2>1, QueueAppend DEF I
\* An attempt is made, if any.
<1>d. ASSUME NEW c, I(c), NEW d, Attempted(c, d), d.failed = {}
      PROVE  I(d)
  BY <1>d DEF I, Attempted
<1>1. CASE ConnectorWritable
  BY <1>0, <1>1, <1>a, <1>b, <1>c, MadeEffect DEF ConnectorWritable, LoopFree
<1>2. CASE ConnectorFails
  <2>1. connector' = connector \/ Abandoned(connector, connector')
    BY <1>0, <1>2, AbandonEffect DEF ConnectorFails
  <2>2. I(connector) /\ connector.channel_ = "armed"
    BY <1>2, <1>a DEF ConnectorFails, LoopFree
  <2>3. Abandoned(connector, connector') => I(connector')
    BY <1>0, <1>c, <2>2 DEF Abandoned
  <2> QED
    BY <1>b, <2>1, <2>2, <2>3
<1>4. ASSUME NEW r \in Outcomes, CallRestart(r)
      PROVE  ResetInv'
  <2> DEFINE b == [connector EXCEPT !.state_ = "kDisconnected", !.retry_duration_ = 1,
                                   !.start_ = TRUE]
  <2>1. Attempted(b, connector')
    BY <1>0, <1>4, RestartEffect, OutcomesType DEF CallRestart
  <2>2. b.state_ = "kDisconnected" /\ b.channel_ = connector.channel_ /\ b.functors = connector.functors
    BY <1>0 DEF ConnectorType
  <2> HIDE DEF b
  <2>3. I(b)
    BY <1>4, <1>a, <2>2 DEF I, CallRestart
  <2> QED
    BY <1>0, <1>b, <1>d, <2>1, <2>3
<1>5. CASE EventsDone
  <2>1. PICK n \in 0..connector.fresh :
          connector' = [connector EXCEPT !.fresh = @ - n, !.due = @ + n]
    BY <1>5 DEF EventsDone
  <2>2. /\ connector'.functors = connector.functors /\ connector'.channel_ = connector.channel_
        /\ connector'.state_ = connector.state_
    BY <1>0, <2>1 DEF ConnectorType
  <2> QED
    BY <1>5, <1>a, <1>b, <2>2 DEF I, EventsDone, LoopFree
<1>6. ASSUME NEW r \in Outcomes, RetryTimerFires(r)
      PROVE  ResetInv'
  <2> DEFINE b == [connector EXCEPT !.due = @ - 1]
  <2>1. Attempted(b, connector')
    BY <1>0, <1>6, RetryTimerEffect, OutcomesType DEF RetryTimerFires
  <2>2. b.state_ = connector.state_ /\ b.channel_ = connector.channel_ /\ b.functors = connector.functors
    BY <1>0 DEF ConnectorType
  <2> HIDE DEF b
  <2>3. I(b)
    BY <1>6, <1>a, <2>2 DEF I, RetryTimerFires, LoopFree
  <2> QED
    BY <1>0, <1>b, <1>d, <2>1, <2>3
<1>8. ASSUME NEW r \in Outcomes, RunFunctor(r)
      PROVE  ResetInv'
  <2> DEFINE c == [connector EXCEPT !.functors = Tail(@)]
             f == Head(connector.functors)
  <2>1. /\ Len(connector.functors) > 0 /\ c \in ConnectorType
        /\ ClosureRan(c, connector', f) /\ I(connector)
    BY <1>8, <1>a, FunctorEffect DEF RunFunctor, LoopFree
  <2>2. c.channel_ = connector.channel_ /\ c.state_ = connector.state_
    BY <1>0, <2>1, TailType
  <2>3. c.functors = Tail(connector.functors)
    BY <1>0 DEF ConnectorType
  <2>4. /\ Has(connector.functors, "reset") <=> Has(c.functors, "reset") \/ f = "reset"
        /\ Once(c.functors, "reset") /\ (f = "reset" => ~Has(c.functors, "reset"))
    BY <1>0, <2>1, <2>3, QueueTail DEF I
  <2> HIDE DEF c, f
  <2>5. CASE f = "start" /\ Attempted(c, connector')
    <3>1. I(c)
      BY <2>1, <2>2, <2>4, <2>5 DEF I
    <3> QED
      BY <1>0, <1>b, <1>d, <2>5, <3>1
  <2>6. CASE f = "stop" /\ connector' = StopInLoop(c)
    <3>1. I(c)
      BY <2>1, <2>2, <2>4, <2>6 DEF I
    <3>2. CASE c.state_ = "kConnecting"
      <4>1. /\ connector'.functors = Append(c.functors, "reset")
            /\ connector'.channel_ = "closed" /\ connector'.state_ = "kDisconnected"
        BY <2>1, <2>6, <3>2, StopEffect
      <4>2. c.channel_ = "armed"
        BY <3>1, <3>2 DEF I
      <4> QED
        BY <1>b, <1>c, <2>1, <3>1, <4>1, <4>2
    <3>3. CASE c.state_ # "kConnecting"
      BY <1>b, <2>1, <2>6, <3>1, <3>3, StopEffect
    <3> QED
      BY <3>2, <3>3
  <2>7. CASE f = "reset" /\ connector' = [c EXCEPT !.channel_ = "null"]
    <3>1. /\ connector'.functors = c.functors /\ connector'.channel_ = "null"
          /\ connector'.state_ = c.state_
      BY <2>1, <2>7 DEF ConnectorType
    <3> QED
      BY <1>b, <2>1, <2>2, <2>4, <2>7, <3>1 DEF I
  <2> QED
    BY <2>1, <2>5, <2>6, <2>7 DEF ClosureRan
<1>9. CASE FunctorsDone
  <2>1. /\ connector'.functors = connector.functors /\ connector'.channel_ = connector.channel_
        /\ connector'.state_ = connector.state_
    BY <1>0, <1>9 DEF FunctorsDone, ConnectorType
  <2> QED
    BY <1>9, <1>a, <1>b, <2>1 DEF I, FunctorsDone, LoopFree
<1>10. CASE ConnectorStores
  <2>1. /\ connector'.functors = connector.functors /\ connector'.channel_ = connector.channel_
        /\ connector'.state_ = connector.state_
    BY <1>0, <1>10 DEF ConnectorStores, ConnectorType
  <2> QED
    BY <1>10, <1>a, <1>b, <2>1 DEF I, ConnectorStores
<1>11. ASSUME NEW r \in Outcomes, ConnectorRunsInLoop(r)
       PROVE  ResetInv'
  <2>1. user_pc[1] \in {"start", "stop"} /\ I(connector)
    BY <1>11, <1>a DEF ConnectorRunsInLoop, ClientTypeOK
  <2>2. CASE ~in_loop
    <3>1. /\ connector'.functors = Append(connector.functors, user_pc[1])
          /\ connector'.channel_ = connector.channel_ /\ connector'.state_ = connector.state_
      BY <1>0, <1>11, <2>2 DEF ConnectorRunsInLoop, ConnectorType
    <3>2. user_pc[1] \in Closures /\ user_pc[1] # "reset"
      BY <2>1 DEF Closures
    <3> QED
      BY <1>0, <1>b, <2>1, <3>1, <3>2, QueueAppend DEF I
  <2>3. CASE in_loop
    <3>1. \/ connector' = StartInLoop(connector, r)
          \/ connector' = StopInLoop(connector)
      BY <1>11, <2>3 DEF ConnectorRunsInLoop
    <3>2. CASE connector' = StartInLoop(connector, r)
      BY <1>0, <1>b, <1>d, <2>1, <3>2, StartEffect, OutcomesType
    <3>3. CASE connector' = StopInLoop(connector)
      <4>1. CASE connector.state_ = "kConnecting"
        <5>1. /\ connector'.functors = Append(connector.functors, "reset")
              /\ connector'.channel_ = "closed" /\ connector'.state_ = "kDisconnected"
          BY <1>0, <3>3, <4>1, StopEffect
        <5>2. connector.channel_ = "armed"
          BY <2>1, <4>1 DEF I
        <5> QED
          BY <1>0, <1>b, <1>c, <2>1, <5>1, <5>2
      <4>2. CASE connector.state_ # "kConnecting"
        BY <1>0, <1>b, <2>1, <3>3, <4>2, StopEffect
      <4> QED
        BY <4>1, <4>2
    <3> QED
      BY <3>1, <3>2, <3>3
  <2> QED
    BY <2>2, <2>3
<1>12. ASSUME UNCHANGED connector
       PROVE  ResetInv'
  BY <1>12, <1>a, <1>b DEF Up
<1> QED
  BY <1>1, <1>2, <1>4, <1>5, <1>6, <1>8, <1>9, <1>10, <1>11, <1>12
     DEF Next, LoopStep, RemoveTcpConnection, TimersDone, UserCall, UserConnect,
         UserDisconnect, UserStop, UserDestroy, UserDestroyConnected, vars

\* An attempt is made where there is none: it is one, at most.
LEMMA AttemptMade ==
    ASSUME ClientTypeOK, ClientTypeOK', client' = client, client.connection_ = "none",
           ~restarting', ~Starting', connector.channel_ # "armed",
           connector'.channel_ = connector.channel_ \/ connector'.channel_ = "armed",
           Once(connector'.functors, "start"),
           NEW b \in ConnectorType, b.fresh = 0, b.due = 0, b.state_ = "kDisconnected",
           b.channel_ = connector.channel_,
           Attempted(b, connector')
    PROVE  Apart'
<1>1. connector'.due = 0 /\ connector'.fresh \in {0, 1}
  BY DEF Attempted
<1>2. /\ connector'.fresh = 1 => connector'.state_ = "kDisconnected" /\ connector'.channel_ # "armed"
      /\ connector'.channel_ = "armed" <=> connector'.state_ = "kConnecting"
  BY DEF Attempted
<1>3. Attempts' <= 1
  BY <1>1, <1>2 DEF Attempts, One
<1>4. connector'.fresh + connector'.due > 0 => connector'.state_ = "kDisconnected"
  BY <1>1, <1>2
<1> QED
  BY <1>2, <1>3, <1>4 DEF Apart, Starting

\* The things that may lead to an attempt can be counted in any order.
LEMMA AttemptsType ==
    ASSUME ClientTypeOK, ClientTypeOK'
    PROVE  /\ Attempts \in Nat /\ Attempts' \in Nat
           /\ Attempts = One(restarting) + One(connector.channel_ = "armed")
                + One(client.connection_ # "none") + (connector.fresh + connector.due) + One(Starting)
           /\ Attempts' = One(restarting') + One(connector'.channel_ = "armed")
                + One(client'.connection_ # "none") + (connector'.fresh + connector'.due) + One(Starting')
<1> DEFINE a == One(restarting)
           b == One(connector.channel_ = "armed")
           c == One(client.connection_ # "none")
           d == One(Starting)
           a2 == One(restarting')
           b2 == One(connector'.channel_ = "armed")
           c2 == One(client'.connection_ # "none")
           d2 == One(Starting')
<1>1. a \in {0, 1} /\ b \in {0, 1} /\ c \in {0, 1} /\ d \in {0, 1}
  BY DEF One
<1>2. a2 \in {0, 1} /\ b2 \in {0, 1} /\ c2 \in {0, 1} /\ d2 \in {0, 1}
  BY DEF One
<1>3. Attempts = a + b + c + connector.fresh + connector.due + d
  BY DEF Attempts
<1>4. Attempts' = a2 + b2 + c2 + connector'.fresh + connector'.due + d2
  BY DEF Attempts
<1>5. /\ connector.fresh \in Nat /\ connector.due \in Nat
      /\ connector'.fresh \in Nat /\ connector'.due \in Nat
  BY DEF ClientTypeOK, ConnectorType
<1> HIDE DEF a, b, c, d, a2, b2, c2, d2
<1>6. Attempts \in Nat /\ Attempts = a + b + c + (connector.fresh + connector.due) + d
  BY <1>1, <1>3, <1>5
<1>7. Attempts' \in Nat /\ Attempts' = a2 + b2 + c2 + (connector'.fresh + connector'.due) + d2
  BY <1>2, <1>4, <1>5
<1> QED
  BY <1>6, <1>7 DEF a, b, c, d, a2, b2, c2, d2

LEMMA AttemptStep ==
    ASSUME ClientTypeOK, ClientTypeOK', [Next]_vars, AttemptInv, ResetInv, ~hasty'
    PROVE  Apart'
<1>0. /\ connector \in ConnectorType /\ connector' \in ConnectorType
      /\ connector.functors \in Seq(Closures)
      /\ connector.fresh \in Nat /\ connector.due \in Nat
      /\ connector'.fresh \in Nat /\ connector'.due \in Nat
      /\ "reset" \in Closures /\ "start" \in Closures /\ "stop" \in Closures
  BY TcpClientAssumption DEF ClientTypeOK, ConnectorType, Closures
<1>a. /\ \A g : Has(Append(connector.functors, "reset"), g)
                  <=> Has(connector.functors, g) \/ "reset" = g
      /\ Once(connector.functors, "start") => Once(Append(connector.functors, "reset"), "start")
  BY <1>0, QueueAppend
\* The step leaves the calls of Connect() alone.
<1>b. ASSUME hasty' = hasty
      PROVE  Apart
  BY <1>b DEF AttemptInv
<1>1. CASE ConnectorWritable
  <2>1. /\ hasty' = hasty /\ user_pc' = user_pc /\ restarting' = restarting
        /\ ~restarting /\ connector.channel_ = "armed"
        /\ client.connection_ = "none" => client'.connection_ \in {"none", "new"}
        /\ client.connection_ # "none" => client'.connection_ # "none"
    BY <1>1 DEF ConnectorWritable, LoopFree, ClientTypeOK
  <2>2. /\ connector'.functors = Append(connector.functors, "reset")
        /\ connector'.channel_ = "closed" /\ connector'.state_ = "kConnected"
        /\ connector'.due = connector.due /\ connector'.fresh = connector.fresh
    BY <1>0, <1>1, MadeEffect DEF ConnectorWritable
  <2>3. Apart
    BY <1>b, <2>1
  <2>4. /\ connector.fresh = 0 /\ connector.due = 0 /\ ~Starting
        /\ client.connection_ = "none"
    BY <1>0, <2>1, <2>3 DEF Apart, Attempts, One
  <2>5. ~Starting' /\ Once(connector'.functors, "start")
    BY <1>a, <2>1, <2>2, <2>3, <2>4 DEF Starting, Apart
  <2>6. Attempts' <= 1
    BY <2>1, <2>2, <2>4, <2>5 DEF Attempts, One
  <2> QED
    BY <2>1, <2>2, <2>3, <2>4, <2>5, <2>6 DEF Apart, Starting
<1>2. CASE ConnectorFails
  <2>1. /\ hasty' = hasty /\ user_pc' = user_pc /\ restarting' = restarting
        /\ ~restarting /\ connector.channel_ = "armed" /\ client' = client
    BY <1>2 DEF ConnectorFails, LoopFree
  <2>2. Apart
    BY <1>b, <2>1
  <2>3. /\ connector.fresh = 0 /\ connector.due = 0 /\ ~Starting
        /\ client.connection_ = "none"
    BY <1>0, <2>1, <2>2 DEF Apart, Attempts, One
  <2>4. connector' = connector \/ Abandoned(connector, connector')
    BY <1>0, <1>2, AbandonEffect DEF ConnectorFails
  <2>5. CASE connector' = connector
    BY <2>1, <2>2, <2>5 DEF Apart, Attempts, Starting
  <2>6. CASE Abandoned(connector, connector')
    <3>1. ~Starting' /\ Once(connector'.functors, "start")
      BY <1>a, <2>1, <2>2, <2>3, <2>6 DEF Starting, Apart, Abandoned
    <3>2. connector'.fresh \in {0, 1} /\ connector'.due = 0
      BY <2>3, <2>6 DEF Abandoned, One
    <3>3. connector'.channel_ = "closed" /\ connector'.state_ = "kDisconnected"
      BY <2>6 DEF Abandoned
    <3>4. Attempts' <= 1
      BY <2>1, <2>3, <3>1, <3>2, <3>3 DEF Attempts, One
    <3> QED
      BY <2>1, <2>2, <3>1, <3>3, <3>4 DEF Apart, Starting
  <2> QED
    BY <2>4, <2>5, <2>6
<1>3. CASE RemoveTcpConnection
  <2>1. /\ hasty' = hasty /\ user_pc' = user_pc /\ connector' = connector
        /\ ~restarting /\ client.connection_ # "none" /\ client'.connection_ = "none"
    BY <1>3 DEF RemoveTcpConnection, LoopFree, Closable, ClientTypeOK
  <2>2. Apart
    BY <1>b, <2>1
  <2>3. Attempts' <= Attempts
    BY <1>0, <2>1 DEF Attempts, One, Starting
  <2> QED
    BY <1>0, <2>1, <2>2, <2>3 DEF Apart, Starting, Attempts, One
<1>4. ASSUME NEW r \in Outcomes, CallRestart(r)
      PROVE  Apart'
  <2>1. /\ hasty' = hasty /\ user_pc' = user_pc /\ client' = client
        /\ restarting /\ ~restarting'
    BY <1>4 DEF CallRestart
  <2>2. Apart
    BY <1>b, <2>1
  <2>3. /\ connector.fresh = 0 /\ connector.due = 0 /\ ~Starting
        /\ client.connection_ = "none" /\ connector.channel_ # "armed"
    BY <1>0, <2>1, <2>2 DEF Apart, Attempts, One
  <2> DEFINE b == [connector EXCEPT !.state_ = "kDisconnected", !.retry_duration_ = 1,
                                   !.start_ = TRUE]
  <2>4. /\ b \in ConnectorType /\ b.fresh = 0 /\ b.due = 0
        /\ b.state_ = "kDisconnected" /\ b.channel_ = connector.channel_
        /\ b.functors = connector.functors
    <3>1. 1 \in 1..kMaxRetry
      BY ConnectorAssumption
    <3> QED
      BY <1>0, <2>3, <3>1 DEF ConnectorType
  <2>5. Attempted(b, connector')
    BY <1>0, <1>4, RestartEffect, OutcomesType DEF CallRestart
  <2> HIDE DEF b
  <2>6. /\ connector'.functors = connector.functors
        /\ connector'.channel_ \in {connector.channel_, "armed"}
    BY <2>4, <2>5 DEF Attempted
  <2>7. ~Starting' /\ Once(connector'.functors, "start")
    BY <2>1, <2>2, <2>3, <2>6 DEF Starting, Apart
  <2> QED
    BY <2>1, <2>2, <2>3, <2>4, <2>5, <2>6, <2>7, AttemptMade
<1>5. CASE EventsDone
  <2>1. PICK n \in 0..connector.fresh :
          connector' = [connector EXCEPT !.fresh = @ - n, !.due = @ + n]
    BY <1>5 DEF EventsDone
  <2>2. /\ hasty' = hasty /\ user_pc' = user_pc /\ client' = client
        /\ restarting' = restarting
    BY <1>5 DEF EventsDone
  <2>3. /\ connector'.functors = connector.functors /\ connector'.channel_ = connector.channel_
        /\ connector'.state_ = connector.state_
        /\ connector'.fresh + connector'.due = connector.fresh + connector.due
    BY <1>0, <2>1 DEF ConnectorType
  <2>4. Apart
    BY <1>b, <2>2
  <2>5. Attempts' = Attempts
    BY <1>0, <2>2, <2>3 DEF Attempts, One, Starting
  <2> QED
    BY <2>2, <2>3, <2>4, <2>5 DEF Apart, Starting
<1>6. ASSUME NEW r \in Outcomes, RetryTimerFires(r)
      PROVE  Apart'
  <2>1. /\ hasty' = hasty /\ user_pc' = user_pc /\ client' = client
        /\ connector.due > 0 /\ ~restarting /\ ~restarting'
    BY <1>6 DEF RetryTimerFires, LoopFree
  <2>2. Apart
    BY <1>0, <1>b, <2>1
  <2>3. /\ connector.fresh = 0 /\ connector.due = 1 /\ ~Starting
        /\ client.connection_ = "none" /\ connector.channel_ # "armed"
    BY <1>0, <2>1, <2>2 DEF Apart, Attempts, One
  <2>4. connector.state_ = "kDisconnected"
    BY <1>0, <2>2, <2>3 DEF Apart
  <2> DEFINE b == [connector EXCEPT !.due = @ - 1]
  <2>5. /\ b \in ConnectorType /\ b.fresh = 0 /\ b.due = 0
        /\ b.state_ = "kDisconnected" /\ b.channel_ = connector.channel_
        /\ b.functors = connector.functors
    <3>1. b.due = 0 /\ b \in ConnectorType
      <4>1. connector.due - 1 = 0 /\ 0 \in Nat
        BY <2>3
      <4> QED
        BY <1>0, <4>1 DEF ConnectorType
    <3>2. /\ b.fresh = connector.fresh /\ b.state_ = connector.state_
          /\ b.channel_ = connector.channel_ /\ b.functors = connector.functors
      BY <1>0 DEF ConnectorType
    <3> QED
      BY <2>3, <2>4, <3>1, <3>2
  <2>6. Attempted(b, connector')
    BY <1>0, <2>1, <1>6, RetryTimerEffect, OutcomesType DEF RetryTimerFires
  <2> HIDE DEF b
  <2>7. /\ connector'.functors = connector.functors
        /\ connector'.channel_ \in {connector.channel_, "armed"}
    BY <2>5, <2>6 DEF Attempted
  <2>8. ~Starting' /\ Once(connector'.functors, "start")
    BY <2>1, <2>2, <2>3, <2>7 DEF Starting, Apart
  <2> QED
    BY <2>1, <2>2, <2>3, <2>5, <2>6, <2>7, <2>8, AttemptMade
<1>7. CASE TimersDone
  <2>1. /\ hasty' = hasty /\ user_pc' = user_pc /\ client' = client
        /\ restarting' = restarting /\ connector' = connector
    BY <1>7 DEF TimersDone
  <2> QED
    BY <1>b, <2>1 DEF Apart, Attempts, Starting
<1>8. ASSUME NEW r \in Outcomes, RunFunctor(r)
      PROVE  Apart'
  <2> DEFINE c == [connector EXCEPT !.functors = Tail(@)]
             f == Head(connector.functors)
  <2>1. /\ hasty' = hasty /\ user_pc' = user_pc /\ client' = client
        /\ ~restarting /\ ~restarting'
    BY <1>8 DEF RunFunctor, LoopFree
  <2>2. Apart
    BY <1>b, <2>1
  <2>3. /\ Len(connector.functors) > 0 /\ c \in ConnectorType
        /\ ClosureRan(c, connector', f)
    BY <1>8, FunctorEffect
  <2>4. /\ c.due = connector.due /\ c.channel_ = connector.channel_
        /\ c.state_ = connector.state_ /\ c.fresh = connector.fresh
        /\ c.functors = Tail(connector.functors) /\ c.functors \in Seq(Closures)
    <3>1. /\ c.due = connector.due /\ c.channel_ = connector.channel_
          /\ c.state_ = connector.state_ /\ c.fresh = connector.fresh
      BY <1>0, <2>3, TailType
    <3>2. c.functors = Tail(connector.functors)
      BY <1>0 DEF ConnectorType
    <3>3. c.functors \in Seq(Closures)
      BY <2>3 DEF ConnectorType
    <3> QED
      BY <3>1, <3>2, <3>3
  <2>5. /\ Has(connector.functors, "start") <=> Has(c.functors, "start") \/ f = "start"
        /\ Once(c.functors, "start") /\ (f = "start" => ~Has(c.functors, "start"))
    BY <1>0, <2>2, <2>3, <2>4, QueueTail DEF Apart
  <2>6. /\ Has(Append(c.functors, "reset"), "start") <=> Has(c.functors, "start")
        /\ Once(Append(c.functors, "reset"), "start")
    BY <1>0, <2>4, <2>5, QueueAppend
  <2> HIDE DEF c, f
  <2>7. CASE f = "start" /\ Attempted(c, connector')
    <3>1. Starting
      BY <1>b, <2>1, <2>2, <2>5, <2>7 DEF Starting
    <3>2. /\ connector.fresh = 0 /\ connector.due = 0
          /\ client.connection_ = "none" /\ connector.channel_ # "armed"
          /\ connector.state_ = "kDisconnected"
      BY <1>0, <2>2, <3>1 DEF Apart, Attempts, One
    <3>3. user_pc[1] # "start" /\ ~Has(c.functors, "start")
      BY <2>2, <2>5, <2>7 DEF Apart
    <3>4. /\ connector'.functors = c.functors
          /\ connector'.channel_ \in {connector.channel_, "armed"}
      BY <2>4, <2>7 DEF Attempted
    <3>5. ~Starting' /\ Once(connector'.functors, "start")
      BY <2>1, <2>5, <3>3, <3>4 DEF Starting
    <3> QED
      BY <2>1, <2>2, <2>3, <2>4, <2>7, <3>1, <3>2, <3>4, <3>5, AttemptMade
  <2>8. CASE f = "stop" /\ connector' = StopInLoop(c)
    <3>1. CASE connector.state_ = "kConnecting"
      <4>1. /\ connector'.functors = Append(c.functors, "reset")
            /\ connector'.channel_ = "closed" /\ connector'.state_ = "kDisconnected"
            /\ connector'.due = connector.due /\ connector'.fresh = connector.fresh
        BY <2>3, <2>4, <2>8, <3>1, StopEffect
      <4>2. /\ Has(connector'.functors, "start") <=> Has(connector.functors, "start")
            /\ Once(connector'.functors, "start")
        BY <2>5, <2>6, <2>8, <4>1
      <4>3. Attempts' <= Attempts
        BY <1>0, <2>1, <4>1, <4>2 DEF Attempts, One, Starting
      <4> QED
        BY <1>0, <2>1, <2>2, <4>1, <4>2, <4>3 DEF Apart, Attempts, One
    <3>2. CASE connector.state_ # "kConnecting"
      <4>1. connector' = c
        BY <2>3, <2>4, <2>8, <3>2, StopEffect
      <4>2. Starting' <=> Starting
        BY <2>1, <2>5, <2>8, <4>1 DEF Starting
      <4>3. Attempts' = Attempts
        BY <2>1, <2>4, <4>1, <4>2 DEF Attempts, One
      <4> QED
        BY <2>1, <2>2, <2>4, <2>5, <2>8, <4>1, <4>2, <4>3 DEF Apart
    <3> QED
      BY <3>1, <3>2
  <2>9. CASE f = "reset" /\ connector' = [c EXCEPT !.channel_ = "null"]
    <3>1. /\ connector'.functors = c.functors /\ connector'.channel_ = "null"
          /\ connector'.state_ = connector.state_
          /\ connector'.due = connector.due /\ connector'.fresh = connector.fresh
      BY <2>3, <2>4, <2>9 DEF ConnectorType
    <3>2. connector.state_ # "kConnecting"
      <4>1. Has(connector.functors, "reset")
        BY <1>0, <2>3, <2>9, QueueTail DEF f
      <4>2. connector.channel_ = "closed"
        BY <1>8, <4>1 DEF ResetInv, RunFunctor, LoopFree
      <4> QED
        BY <2>2, <4>2 DEF Apart
    <3>3. Starting' <=> Starting
      BY <2>1, <2>5, <2>9, <3>1 DEF Starting
    <3>4. Attempts' <= Attempts
      BY <1>0, <2>1, <3>1, <3>3 DEF Attempts, One
    <3> QED
      <4>1. Attempts' \in Nat /\ Attempts \in Nat
        BY AttemptsType
      <4>2. Attempts' <= 1
        BY <1>0, <2>1, <2>2, <3>4, <4>1 DEF Apart
      <4>3. Starting' \/ connector'.fresh + connector'.due > 0
              => connector'.state_ = "kDisconnected"
        BY <2>1, <2>2, <3>1, <3>3 DEF Apart
      <4> QED
        BY <2>1, <2>2, <2>5, <2>9, <3>1, <3>2, <4>2, <4>3 DEF Apart
  <2> QED
    BY <2>3, <2>7, <2>8, <2>9 DEF ClosureRan
<1>9. CASE FunctorsDone
  <2>1. /\ hasty' = hasty /\ user_pc' = user_pc /\ restarting' = restarting
        /\ client'.connection_ # "none" <=> client.connection_ # "none"
    BY <1>9 DEF FunctorsDone, ClientTypeOK
  <2>2. /\ connector'.functors = connector.functors /\ connector'.channel_ = connector.channel_
        /\ connector'.state_ = connector.state_
        /\ connector'.fresh + connector'.due = connector.fresh + connector.due
    BY <1>0, <1>9 DEF FunctorsDone, ConnectorType
  <2>3. Apart
    BY <1>b, <2>1
  <2>4. Attempts' = Attempts
    <3>1. Starting' <=> Starting
      BY <2>1, <2>2 DEF Starting
    <3>2. One(client'.connection_ # "none") = One(client.connection_ # "none")
      BY <2>1 DEF One
    <3>3. One(Starting') = One(Starting)
      BY <3>1 DEF One
    <3>4. One(restarting') = One(restarting)
          /\ One(connector'.channel_ = "armed") = One(connector.channel_ = "armed")
      BY <2>1, <2>2
    <3> QED
      BY <2>2, <3>2, <3>3, <3>4, AttemptsType
  <2> QED
    BY <2>1, <2>2, <2>3, <2>4 DEF Apart, Starting
<1>10. CASE UserConnect
  <2>1. /\ connector' = connector /\ restarting' = restarting
        /\ client'.connection_ = client.connection_ /\ user_pc' = <<"start", "store">>
        /\ user_pc = <<"idle">> /\ ~hasty /\ AtRest
    BY <1>10 DEF UserConnect, CanCall, ClientTypeOK
  <2>2. Apart
    BY <2>1 DEF AttemptInv
  <2>3. /\ ~restarting /\ connector.channel_ # "armed" /\ client.connection_ = "none"
        /\ connector.fresh = 0 /\ connector.due = 0
        /\ connector.state_ = "kDisconnected" /\ ~Has(connector.functors, "start")
    BY <1>0, <2>1 DEF AtRest, Has
  <2>4. Attempts' <= 1
    BY <2>1, <2>3 DEF Attempts, One
  <2> QED
    BY <2>1, <2>2, <2>3, <2>4 DEF Apart, Starting
<1>11. CASE UserDisconnect \/ UserStop \/ UserDestroy \/ UserDestroyConnected
  <2>1. /\ hasty' = hasty /\ connector' = connector /\ restarting' = restarting
        /\ client'.connection_ = client.connection_
        /\ user_pc[1] # "start" => user_pc'[1] # "start"
        /\ user_pc[1] = "start" => user_pc' = user_pc
    BY <1>11 DEF UserDisconnect, UserStop, UserDestroy, UserDestroyConnected, CanCall, ClientTypeOK
  <2>2. Starting' <=> Starting
    BY <2>1 DEF Starting
  <2>3. Attempts' = Attempts
    BY <2>1, <2>2 DEF Attempts, One
  <2> QED
    BY <1>b, <2>1, <2>2, <2>3 DEF Apart
<1>12. CASE ConnectorStores
  <2>1. /\ hasty' = hasty /\ restarting' = restarting /\ client' = client
        /\ user_pc'[1] = user_pc[1]
    BY <1>12 DEF ConnectorStores
  <2>2. /\ connector'.functors = connector.functors /\ connector'.channel_ = connector.channel_
        /\ connector'.state_ = connector.state_ /\ connector'.fresh = connector.fresh
        /\ connector'.due = connector.due
    BY <1>0, <1>12 DEF ConnectorStores, ConnectorType
  <2>3. (Starting' <=> Starting) /\ Attempts' = Attempts
    BY <2>1, <2>2 DEF Starting, Attempts, One
  <2> QED
    BY <1>b, <2>1, <2>2, <2>3 DEF Apart
<1>13. ASSUME NEW r \in Outcomes, ConnectorRunsInLoop(r)
       PROVE  Apart'
  <2>1. /\ hasty' = hasty /\ restarting' = restarting /\ client' = client
        /\ user_pc[1] \in {"start", "stop"} /\ user_pc' = <<"idle">>
    BY <1>13 DEF ConnectorRunsInLoop, ClientTypeOK
  <2>2. Apart
    BY <1>b, <2>1
  <2>3. CASE ~in_loop
    <3>1. /\ connector'.functors = Append(connector.functors, user_pc[1])
          /\ connector'.channel_ = connector.channel_ /\ connector'.state_ = connector.state_
          /\ connector'.fresh = connector.fresh /\ connector'.due = connector.due
      BY <1>0, <1>13, <2>3 DEF ConnectorRunsInLoop, ConnectorType
    <3>2. user_pc[1] \in Closures
      BY <2>1 DEF Closures
    <3>3. /\ Has(connector'.functors, "start")
                <=> Has(connector.functors, "start") \/ user_pc[1] = "start"
          /\ Once(connector'.functors, "start")
      BY <1>0, <2>2, <3>1, <3>2, QueueAppend DEF Apart
    <3>4. user_pc'[1] # "start"
      BY <2>1
    <3>5. (Starting' <=> Starting) /\ Attempts' = Attempts
      BY <2>1, <3>1, <3>3, <3>4 DEF Starting, Attempts, One
    <3> QED
      BY <2>1, <2>2, <3>1, <3>3, <3>4, <3>5 DEF Apart
  <2>4. CASE in_loop /\ user_pc[1] = "start"
    <3>1. Attempted(connector, connector')
      BY <1>0, <1>13, <2>4, StartEffect, OutcomesType DEF ConnectorRunsInLoop
    <3>2. Starting
      BY <1>b, <2>1, <2>4 DEF Starting
    <3>3. /\ connector.fresh = 0 /\ connector.due = 0 /\ ~restarting
          /\ client.connection_ = "none" /\ connector.channel_ # "armed"
          /\ connector.state_ = "kDisconnected"
      BY <1>0, <2>2, <3>2 DEF Apart, Attempts, One
    <3>4. /\ connector'.functors = connector.functors
          /\ connector'.channel_ \in {connector.channel_, "armed"}
      BY <3>1 DEF Attempted
    <3>5. ~Starting' /\ Once(connector'.functors, "start")
      BY <2>1, <2>2, <2>4, <3>4 DEF Starting, Apart
    <3> QED
      BY <1>0, <2>1, <2>2, <3>1, <3>2, <3>3, <3>4, <3>5, AttemptMade
  <2>5. CASE in_loop /\ user_pc[1] = "stop"
    <3>1. connector' = StopInLoop(connector)
      BY <1>13, <2>5 DEF ConnectorRunsInLoop
    <3>2. user_pc'[1] # "start" /\ user_pc[1] # "start"
      BY <2>1, <2>5
    <3>3. CASE connector.state_ = "kConnecting"
      <4>1. /\ connector'.functors = Append(connector.functors, "reset")
            /\ connector'.channel_ = "closed" /\ connector'.state_ = "kDisconnected"
            /\ connector'.due = connector.due /\ connector'.fresh = connector.fresh
        BY <1>0, <3>1, <3>3, StopEffect
      <4>2. /\ Has(connector'.functors, "start") <=> Has(connector.functors, "start")
            /\ Once(connector'.functors, "start")
        BY <1>a, <2>2, <4>1 DEF Apart
      <4>3. Attempts' <= Attempts
        BY <1>0, <2>1, <3>2, <4>1, <4>2 DEF Attempts, One, Starting
      <4> QED
        BY <1>0, <2>1, <2>2, <3>2, <4>1, <4>2, <4>3 DEF Apart, Attempts, One
    <3>4. CASE connector.state_ # "kConnecting"
      <4>1. connector' = connector
        BY <1>0, <3>1, <3>4, StopEffect
      <4>2. (Starting' <=> Starting) /\ Attempts' = Attempts
        BY <2>1, <3>2, <4>1 DEF Starting, Attempts, One
      <4> QED
        BY <2>1, <2>2, <3>2, <4>1, <4>2 DEF Apart
    <3> QED
      BY <3>3, <3>4
  <2> QED
    BY <2>1, <2>3, <2>4, <2>5 DEF ClientTypeOK
<1>14. CASE UNCHANGED vars
  BY <1>14, <1>b DEF vars, Apart, Attempts, Starting
<1> QED
  BY <1>1, <1>2, <1>3, <1>4, <1>5, <1>6, <1>7, <1>8, <1>9, <1>10, <1>11, <1>12, <1>13, <1>14
     DEF Next, LoopStep, UserCall

\* The two invariants hold.
LEMMA AttemptInvariant == Spec => [](ResetInv /\ AttemptInv)
<1>1. Init => ResetInv /\ AttemptInv
  <2> SUFFICES ASSUME Init PROVE ResetInv /\ AttemptInv
    OBVIOUS
  <2>1. ~Has(<<>>, "start") /\ ~Has(<<>>, "reset") /\ Once(<<>>, "start") /\ Once(<<>>, "reset")
    BY DEF Has, Once
  <2>2. ~Starting /\ Attempts = 0
    BY <2>1 DEF Init, InitConnector, Starting, Attempts, One
  <2> QED
    BY <2>1, <2>2 DEF Init, InitConnector, ResetInv, AttemptInv, Apart
<1>2. ClientTypeOK /\ ClientTypeOK' /\ ResetInv /\ AttemptInv /\ [Next]_vars
        => ResetInv' /\ AttemptInv'
  BY ResetStep, AttemptStep DEF AttemptInv
<1> QED
  BY <1>1, <1>2, TypeCorrect, PTL DEF Spec

\* However often Connect() is called, there is never more than one attempt, and no
\* connection is lost or taken by a second one: a channel that waits has no timer
\* and no connection beside it (Connector.cpp:61-125, TcpClient.cpp:81-92).  Only a
\* Connect() with something left of the call before may break it: a retry timer, for
\* one, survives Stop() (Connector.cpp:113-118).
THEOREM OneAttempt == Spec => []OneAttemptAtATime
<1>1. ClientTypeOK /\ AttemptInv => OneAttemptAtATime
  <2> SUFFICES ASSUME ClientTypeOK, Apart, ~hasty, connector.channel_ = "armed"
               PROVE  OneAttemptAtATime
    BY DEF AttemptInv, OneAttemptAtATime
  <2>1. connector.fresh \in Nat /\ connector.due \in Nat
    BY TcpClientAssumption DEF ClientTypeOK, ConnectorType
  <2>2. connector.fresh + connector.due = 0 /\ client.connection_ = "none"
    BY <2>1 DEF Apart, Attempts, One
  <2> QED
    BY <2>2 DEF Apart, OneAttemptAtATime
<1> QED
  BY <1>1, TypeCorrect, AttemptInvariant, PTL

-----------------------------------------------------------------------------
(* The asserts.                                                            *)

LEMMA AssertStep ==
    ASSUME ClientTypeOK, ClientTypeOK', [Next]_vars, ResetInv, ResetInv',
           AttemptInv, AttemptInv', AssertInv, ~hasty', ~hurried'
    PROVE  Clean'
<1>0. /\ connector \in ConnectorType /\ connector' \in ConnectorType
      /\ connector.functors \in Seq(Closures) /\ Len(connector.functors) \in Nat
      /\ connector.fresh \in Nat /\ connector.due \in Nat
      /\ connector'.fresh \in Nat /\ connector'.due \in Nat
      /\ batch \in 0..Len(connector.functors)
      /\ "reset" \in Closures /\ "start" \in Closures /\ "stop" \in Closures
      /\ Apart'
  BY TcpClientAssumption DEF ClientTypeOK, ConnectorType, Closures, AttemptInv
\* No timer has caught up with its iteration, and none does now.
<1>h. ~hurried
  BY DEF Next, LoopStep, UserCall, ConnectorWritable, ConnectorFails, RemoveTcpConnection,
         CallRestart, EventsDone, RetryTimerFires, TimersDone, RunFunctor, FunctorsDone,
         UserConnect, UserDisconnect, UserStop, UserDestroy, UserDestroyConnected,
         ConnectorStores, ConnectorRunsInLoop, vars
\* What is used of the invariants before the step, and when the step is harmless.
<1>a. ASSUME hasty' = hasty
      PROVE  /\ Apart /\ Clean
             /\ restarting \/ Starting \/ connector.due > 0 =>
                   /\ connector.channel_ = "null"
                   /\ connector.fresh = 0
             /\ connector.channel_ = "armed" =>
                   /\ ~restarting /\ ~Starting /\ connector.fresh = 0
                   /\ connector.due = 0 /\ client.connection_ = "none"
  <2>1. Apart /\ Clean
    BY <1>0, <1>a, <1>h DEF AttemptInv, AssertInv
  <2> DEFINE f == connector.fresh
             d == connector.due
             r == One(restarting)
             a == One(connector.channel_ = "armed")
             u == One(client.connection_ # "none")
             s == One(Starting)
  <2>c. /\ r \in {0, 1} /\ (restarting <=> r = 1)
        /\ a \in {0, 1} /\ (connector.channel_ = "armed" <=> a = 1)
        /\ u \in {0, 1} /\ (client.connection_ # "none" <=> u = 1)
        /\ s \in {0, 1} /\ (Starting <=> s = 1)
    BY DEF One
  <2>f. f \in Nat /\ d \in Nat
    BY <1>0
  <2>s. Attempts = r + a + u + f + d + s /\ Attempts <= 1
    BY <2>1 DEF Attempts, Apart
  <2> HIDE DEF f, d, r, a, u, s
  <2>2. ASSUME restarting \/ Starting \/ connector.due > 0
        PROVE  connector.channel_ = "null" /\ connector.fresh = 0
    <3>1. /\ connector.channel_ # "armed" /\ Attempts > 0
          /\ client.connection_ = "none" /\ connector.fresh = 0
      <4>1. r + d + s > 0
        BY <2>2, <2>c, <2>f DEF d
      <4>2. Attempts > 0 /\ a = 0 /\ u = 0 /\ f = 0
        BY <2>1, <2>c, <2>f, <2>s, <4>1
      <4> QED
        BY <2>c, <4>2 DEF f
    <3>2. connector.channel_ # "closed"
      BY <1>0, <2>1, <3>1 DEF Clean
    <3> QED
      BY <1>0, <3>1, <3>2 DEF ConnectorType
  <2>3. ASSUME connector.channel_ = "armed"
        PROVE  /\ ~restarting /\ ~Starting /\ connector.fresh = 0
               /\ connector.due = 0 /\ client.connection_ = "none"
    <3>1. a = 1
      BY <2>3, <2>c
    <3>2. r = 0 /\ s = 0 /\ f = 0 /\ d = 0 /\ u = 0
      BY <2>1, <2>c, <2>f, <2>s, <3>1
    <3> QED
      BY <2>c, <3>2 DEF f, d
  <2> QED
    BY <2>1, <2>2, <2>3
<1>b. ASSUME hasty' = hasty, Clean, connector'.failed = connector.failed,
             connector'.channel_ = connector.channel_, client'.connection_ = client.connection_,
             connector'.fresh = connector.fresh, Attempts' = Attempts, ResetSoon => ResetSoon'
      PROVE  Clean'
  BY <1>b DEF Clean
\* An attempt is made, if any, where the channel has been reset.
<1>c. ASSUME hasty' = hasty, connector.failed = {},
             NEW b, Attempted(b, connector'), b.state_ = "kDisconnected",
             b.channel_ = "null", b.failed = {}
      PROVE  Clean'
  BY <1>c DEF Attempted, Clean
<1>d. Has(Append(connector.functors, "reset"), "reset")
  BY <1>0, QueueAppend
<1>1. CASE ConnectorWritable
  <2>1. /\ hasty' = hasty /\ user_pc' = user_pc /\ restarting' = restarting
        /\ connector.channel_ = "armed" /\ phase' = "events"
        /\ client'.connection_ \in {"new", client.connection_}
    BY <1>1 DEF ConnectorWritable, LoopFree, ClientTypeOK
  <2>2. /\ connector'.functors = Append(connector.functors, "reset")
        /\ connector'.channel_ = "closed" /\ connector'.failed = connector.failed
        /\ connector'.due = connector.due /\ connector'.fresh = connector.fresh
    BY <1>0, <1>1, MadeEffect DEF ConnectorWritable
  <2>3. /\ ~restarting /\ ~Starting /\ connector.fresh = 0 /\ Clean
        /\ connector.due = 0 /\ client.connection_ = "none"
    BY <1>a, <2>1
  <2>4. ResetSoon'
    BY <1>d, <2>1, <2>2 DEF ResetSoon, Has
  <2>5. ~Starting'
    BY <1>0, <2>1, <2>2, <2>3, QueueAppend DEF Starting
  <2>6. Attempts' > 0 => client'.connection_ = "new"
    BY <2>1, <2>2, <2>3, <2>5 DEF Attempts, One
  <2> QED
    BY <2>1, <2>2, <2>3, <2>4, <2>6 DEF Clean
<1>2. CASE ConnectorFails
  <2>1. /\ hasty' = hasty /\ user_pc' = user_pc /\ restarting' = restarting
        /\ connector.channel_ = "armed" /\ phase' = "events" /\ client' = client
        /\ phase = phase'
    BY <1>2 DEF ConnectorFails, LoopFree
  <2>2. /\ ~restarting /\ ~Starting /\ connector.fresh = 0 /\ Clean
        /\ connector.due = 0 /\ client.connection_ = "none"
    BY <1>a, <2>1
  <2>3. connector' = connector \/ Abandoned(connector, connector')
    BY <1>0, <1>2, AbandonEffect DEF ConnectorFails
  <2>4. CASE connector' = connector
    BY <2>1, <2>2, <2>4 DEF Clean
  <2>5. CASE Abandoned(connector, connector')
    <3>1. ResetSoon'
      BY <1>d, <2>1, <2>5 DEF ResetSoon, Has, Abandoned
    <3>2. ~Starting'
      BY <1>0, <2>1, <2>2, <2>5, QueueAppend DEF Starting, Abandoned
    <3>3. Attempts' > 0 => connector'.fresh = 1
      BY <2>1, <2>2, <2>5, <3>2 DEF Attempts, One, Abandoned
    <3> QED
      BY <2>1, <2>2, <2>5, <3>1, <3>3 DEF Clean, Abandoned
  <2> QED
    BY <2>3, <2>4, <2>5
<1>3. CASE RemoveTcpConnection
  <2>1. /\ hasty' = hasty /\ connector' = connector /\ client.connection_ = "up"
    BY <1>3 DEF RemoveTcpConnection, Closable, ClientTypeOK
  <2>2. Apart /\ Clean
    BY <1>a, <2>1
  <2>3. connector.channel_ # "closed"
    <3>1. One(client.connection_ = "up") = 1
      BY <2>1 DEF One
    <3>2. /\ connector.fresh \in Nat /\ connector.due \in Nat
          /\ \A v \in BOOLEAN : One(v) \in {0, 1}
      BY <1>0 DEF One
    <3>3. Attempts > 0 /\ (connector.fresh = 1 => Attempts > 1)
      <4> DEFINE f == connector.fresh
                 d == connector.due
                 a == One(restarting)
                 b == One(connector.channel_ = "armed")
                 e == One(Starting)
      <4>1. a \in {0, 1} /\ b \in {0, 1} /\ e \in {0, 1}
        BY DEF One
      <4>2. Attempts = a + b + 1 + f + d + e
        BY <2>1, <3>1 DEF Attempts, One
      <4> HIDE DEF a, b, e, f, d
      <4> QED
        BY <3>2, <4>1, <4>2 DEF f, d
    <3>4. Attempts <= 1
      BY <2>2 DEF Apart
    <3>5. Attempts \in Int
      BY <1>0, <2>1 DEF Attempts, One
    <3> QED
      BY <2>1, <2>2, <3>3, <3>4, <3>5 DEF Clean
  <2> QED
    BY <2>1, <2>2, <2>3 DEF Clean
<1>4. ASSUME NEW r \in Outcomes, CallRestart(r)
      PROVE  Clean'
  <2> DEFINE b == [connector EXCEPT !.state_ = "kDisconnected", !.retry_duration_ = 1,
                                   !.start_ = TRUE]
  <2>1. hasty' = hasty /\ restarting /\ connector.failed = {}
    BY <1>4 DEF CallRestart, Up
  <2>2. Attempted(b, connector')
    BY <1>0, <1>4, RestartEffect, OutcomesType DEF CallRestart
  <2>3. b.state_ = "kDisconnected" /\ b.channel_ = connector.channel_ /\ b.failed = connector.failed
    BY <1>0 DEF ConnectorType
  <2> HIDE DEF b
  <2> QED
    BY <1>a, <1>c, <2>1, <2>2, <2>3
<1>5. CASE EventsDone
  <2>0. PICK n \in 0..connector.fresh :
          /\ connector' = [connector EXCEPT !.fresh = @ - n, !.due = @ + n]
          /\ hurried' = (hurried \/ n > 0)
    BY <1>5 DEF EventsDone
  <2>1. n = 0
    <3>1. ~(n > 0)
      BY <2>0
    <3> QED
      BY <1>0, <2>0, <3>1
  <2>2. /\ hasty' = hasty /\ user_pc' = user_pc /\ client' = client
        /\ restarting' = restarting /\ phase' = "timers"
    BY <1>5 DEF EventsDone
  <2>3. /\ connector'.functors = connector.functors /\ connector'.channel_ = connector.channel_
        /\ connector'.fresh = connector.fresh /\ connector'.due = connector.due
        /\ connector'.failed = connector.failed
    BY <1>0, <2>0, <2>1 DEF ConnectorType
  <2>4. Attempts' = Attempts
    BY <2>2, <2>3 DEF Attempts, Starting
  <2>5. ResetSoon => ResetSoon'
    BY <2>2, <2>3 DEF ResetSoon
  <2> QED
    BY <1>a, <1>b, <2>2, <2>3, <2>4, <2>5
<1>6. ASSUME NEW r \in Outcomes, RetryTimerFires(r)
      PROVE  Clean'
  <2> DEFINE b == [connector EXCEPT !.due = @ - 1]
  <2>1. hasty' = hasty /\ connector.due > 0 /\ connector.failed = {}
    BY <1>6 DEF RetryTimerFires, LoopFree, Up
  <2>2. Attempted(b, connector')
    BY <1>0, <1>6, <2>1, RetryTimerEffect, OutcomesType DEF RetryTimerFires
  <2>3. b.state_ = connector.state_ /\ b.channel_ = connector.channel_ /\ b.failed = connector.failed
    BY <1>0 DEF ConnectorType
  <2> HIDE DEF b
  <2>4. connector.state_ = "kDisconnected"
    BY <1>0, <1>a, <2>1 DEF Apart
  <2> QED
    BY <1>a, <1>c, <2>1, <2>2, <2>3, <2>4
<1>7. CASE TimersDone
  <2>1. /\ hasty' = hasty /\ user_pc' = user_pc /\ client' = client
        /\ restarting' = restarting /\ connector' = connector
        /\ batch' = Len(connector.functors)
    BY <1>7 DEF TimersDone
  <2>2. ResetSoon => ResetSoon'
    BY <1>0, <2>1 DEF ResetSoon
  <2>3. Attempts' = Attempts
    BY <2>1 DEF Attempts, Starting
  <2> QED
    BY <1>a, <1>b, <2>1, <2>2, <2>3
<1>8. ASSUME NEW r \in Outcomes, RunFunctor(r)
      PROVE  Clean'
  <2> DEFINE c == [connector EXCEPT !.functors = Tail(@)]
             f == Head(connector.functors)
  <2>1. /\ hasty' = hasty /\ user_pc' = user_pc /\ client' = client /\ batch' = batch - 1
        /\ connector.failed = {} /\ restarting' = restarting /\ phase = "functors" /\ phase' = phase
    BY <1>8 DEF RunFunctor, LoopFree, Up
  <2>2. /\ Len(connector.functors) > 0 /\ c \in ConnectorType /\ batch > 0
        /\ ClosureRan(c, connector', f)
    BY <1>8, FunctorEffect
  <2>3. /\ Len(c.functors) = Len(connector.functors) - 1
        /\ \A i \in 1..Len(c.functors) : c.functors[i] = connector.functors[i + 1]
        /\ c.due = connector.due /\ c.channel_ = connector.channel_
        /\ c.state_ = connector.state_ /\ c.fresh = connector.fresh
        /\ c.failed = connector.failed /\ f = connector.functors[1]
    BY <1>0, <2>2, TailType
  <2>4. Has(connector.functors, "start") <=> Has(c.functors, "start") \/ f = "start"
    <3>1. c.functors = Tail(connector.functors)
      BY <1>0 DEF ConnectorType
    <3> QED
      BY <1>0, <2>2, <3>1, QueueTail
  <2> HIDE DEF c, f
  <2>5. CASE f = "start" /\ Attempted(c, connector')
    <3>1. Starting
      BY <2>4, <2>5 DEF Starting
    <3>2. connector.state_ = "kDisconnected"
      BY <1>a, <2>1, <3>1 DEF Apart
    <3> QED
      BY <1>a, <1>c, <2>1, <2>3, <2>5, <3>1, <3>2
  <2>6. CASE f = "stop" /\ connector' = StopInLoop(c)
    <3>1. CASE connector.state_ = "kConnecting"
      <4>1. /\ connector'.functors = Append(c.functors, "reset")
            /\ connector'.channel_ = "closed" /\ connector'.failed = {}
            /\ connector'.due = connector.due /\ connector'.fresh = connector.fresh
        BY <2>1, <2>2, <2>3, <2>6, <3>1, StopEffect
      <4>2. /\ ~restarting /\ ~Starting /\ connector.fresh = 0
            /\ connector.due = 0 /\ client.connection_ = "none"
        BY <1>a, <2>1, <3>1 DEF Apart
      <4>3. c.functors \in Seq(Closures)
        BY <2>2 DEF ConnectorType
      <4>4. ~Starting'
        BY <1>0, <2>1, <2>4, <4>1, <4>2, <4>3, QueueAppend DEF Starting
      <4>5. Attempts' = 0
        BY <2>1, <4>1, <4>2, <4>4 DEF Attempts, One
      <4> QED
        BY <2>1, <4>1, <4>2, <4>5 DEF Clean
    <3>2. CASE connector.state_ # "kConnecting"
      <4>1. connector' = c
        BY <2>2, <2>3, <2>6, <3>2, StopEffect
      <4>2. Starting' <=> Starting
        BY <2>1, <2>4, <2>6, <4>1 DEF Starting
      <4>3. Attempts' = Attempts
        BY <2>1, <2>3, <4>1, <4>2 DEF Attempts, One
      <4>4. ASSUME ResetSoon
            PROVE  ResetSoon'
        <5>1. PICK i \in 1..Len(connector.functors) : connector.functors[i] = "reset" /\ i <= batch
          BY <2>1, <4>4 DEF ResetSoon
        <5>2. i # 1
          BY <2>3, <2>6, <5>1
        <5>3. i - 1 \in 1..Len(c.functors) /\ c.functors[i - 1] = "reset" /\ i - 1 <= batch'
          BY <1>0, <2>1, <2>3, <5>1, <5>2
        <5> QED
          BY <4>1, <5>3 DEF ResetSoon
      <4> QED
        BY <1>a, <1>b, <2>1, <2>3, <4>1, <4>3, <4>4
    <3> QED
      BY <3>1, <3>2
  <2>7. CASE f = "reset" /\ connector' = [c EXCEPT !.channel_ = "null"]
    <3>1. connector'.channel_ = "null" /\ connector'.failed = {}
      BY <2>1, <2>2, <2>3, <2>7 DEF ConnectorType
    <3> QED
      BY <3>1 DEF Clean
  <2> QED
    BY <2>2, <2>5, <2>6, <2>7 DEF ClosureRan
<1>9. CASE FunctorsDone
  <2>1. /\ hasty' = hasty /\ user_pc' = user_pc /\ restarting' = restarting
        /\ client'.connection_ # "none" <=> client.connection_ # "none"
        /\ phase = "functors" /\ batch = 0
    BY <1>9 DEF FunctorsDone, ClientTypeOK, LoopFree
  <2>2. /\ connector'.functors = connector.functors /\ connector'.channel_ = connector.channel_
        /\ connector'.fresh + connector'.due = connector.fresh + connector.due
        /\ connector'.failed = connector.failed
    BY <1>0, <1>9 DEF FunctorsDone, ConnectorType
  <2>3. Attempts' = Attempts
    <3>1. Starting' <=> Starting
      BY <2>1, <2>2 DEF Starting
    <3>2. One(client'.connection_ # "none") = One(client.connection_ # "none")
      BY <2>1 DEF One
    <3>3. One(Starting') = One(Starting)
      BY <3>1 DEF One
    <3>4. One(restarting') = One(restarting)
          /\ One(connector'.channel_ = "armed") = One(connector.channel_ = "armed")
      BY <2>1, <2>2
    <3> QED
      BY <2>2, <3>2, <3>3, <3>4, AttemptsType
  <2>4. ~ResetSoon
    BY <1>0, <2>1 DEF ResetSoon
  <2> QED
    BY <1>a, <2>1, <2>2, <2>3, <2>4 DEF Clean
<1>10. CASE UserConnect
  <2>1. connector' = connector /\ ~hasty /\ AtRest
    BY <1>10 DEF UserConnect
  <2>2. Clean
    BY <1>h, <2>1 DEF AssertInv
  <2> QED
    BY <2>1, <2>2 DEF Clean, AtRest
<1>11. CASE UserDisconnect \/ UserStop \/ UserDestroy \/ UserDestroyConnected
  <2>1. /\ hasty' = hasty /\ connector' = connector /\ restarting' = restarting
        /\ client'.connection_ = client.connection_ /\ phase' = phase /\ batch' = batch
        /\ user_pc[1] # "start" => user_pc'[1] # "start"
        /\ user_pc[1] = "start" => user_pc' = user_pc
    BY <1>11 DEF UserDisconnect, UserStop, UserDestroy, UserDestroyConnected, CanCall, ClientTypeOK
  <2>2. Starting' <=> Starting
    BY <2>1 DEF Starting
  <2>3. Attempts' = Attempts
    BY <2>1, <2>2 DEF Attempts, One
  <2>4. ResetSoon => ResetSoon'
    BY <2>1 DEF ResetSoon
  <2> QED
    BY <1>a, <1>b, <2>1, <2>3, <2>4
<1>12. CASE ConnectorStores
  <2>1. /\ hasty' = hasty /\ restarting' = restarting /\ client' = client
        /\ user_pc'[1] = user_pc[1] /\ phase' = phase /\ batch' = batch
    BY <1>12 DEF ConnectorStores
  <2>2. /\ connector'.functors = connector.functors /\ connector'.channel_ = connector.channel_
        /\ connector'.fresh = connector.fresh /\ connector'.due = connector.due
        /\ connector'.failed = connector.failed
    BY <1>0, <1>12 DEF ConnectorStores, ConnectorType
  <2>3. Attempts' = Attempts
    BY <2>1, <2>2 DEF Starting, Attempts, One
  <2>4. ResetSoon => ResetSoon'
    BY <2>1, <2>2 DEF ResetSoon
  <2> QED
    BY <1>a, <1>b, <2>1, <2>2, <2>3, <2>4
<1>13. ASSUME NEW r \in Outcomes, ConnectorRunsInLoop(r)
       PROVE  Clean'
  <2>1. /\ hasty' = hasty /\ restarting' = restarting /\ client' = client
        /\ user_pc[1] \in {"start", "stop"} /\ user_pc' = <<"idle">>
        /\ connector.failed = {} /\ phase' = phase /\ batch' = batch
    BY <1>13 DEF ConnectorRunsInLoop, ClientTypeOK, Up
  <2>2. CASE ~in_loop
    <3>1. /\ connector'.functors = Append(connector.functors, user_pc[1])
          /\ connector'.channel_ = connector.channel_ /\ connector'.failed = connector.failed
          /\ connector'.fresh = connector.fresh /\ connector'.due = connector.due
      BY <1>0, <1>13, <2>2 DEF ConnectorRunsInLoop, ConnectorType
    <3>2. user_pc[1] \in Closures
      BY <2>1 DEF Closures
    <3>3. Has(connector'.functors, "start")
             <=> Has(connector.functors, "start") \/ user_pc[1] = "start"
      BY <1>0, <3>1, <3>2, QueueAppend
    <3>4. user_pc'[1] # "start"
      BY <2>1
    <3>5. (Starting' <=> Starting) /\ Attempts' = Attempts
      BY <2>1, <3>1, <3>3, <3>4 DEF Starting, Attempts, One
    <3>6. /\ Len(connector'.functors) = Len(connector.functors) + 1
          /\ \A i \in 1..Len(connector.functors) : connector'.functors[i] = connector.functors[i]
      BY <1>0, <3>1, <3>2, AppendType
    <3>7. ResetSoon => ResetSoon'
      BY <1>0, <2>1, <3>6 DEF ResetSoon
    <3> QED
      BY <1>a, <1>b, <2>1, <3>1, <3>5, <3>7
  <2>3. CASE in_loop /\ user_pc[1] = "start"
    <3>1. Attempted(connector, connector')
      BY <1>0, <1>13, <2>3, StartEffect, OutcomesType DEF ConnectorRunsInLoop
    <3>2. Starting
      BY <2>3 DEF Starting
    <3>3. connector.state_ = "kDisconnected"
      BY <1>a, <2>1, <3>2 DEF Apart
    <3> QED
      BY <1>a, <1>c, <2>1, <3>1, <3>2, <3>3
  <2>4. CASE in_loop /\ user_pc[1] = "stop"
    <3>1. connector' = StopInLoop(connector)
      BY <1>13, <2>4 DEF ConnectorRunsInLoop
    <3>2. user_pc'[1] # "start" /\ user_pc[1] # "start"
      BY <2>1, <2>4
    <3>3. CASE connector.state_ = "kConnecting"
      <4>1. /\ connector'.functors = Append(connector.functors, "reset")
            /\ connector'.channel_ = "closed" /\ connector'.failed = {}
            /\ connector'.due = connector.due /\ connector'.fresh = connector.fresh
        BY <1>0, <2>1, <3>1, <3>3, StopEffect
      <4>2. /\ ~restarting /\ ~Starting /\ connector.fresh = 0
            /\ connector.due = 0 /\ client.connection_ = "none"
        BY <1>a, <2>1, <3>3 DEF Apart
      <4>3. ~Starting'
        BY <1>0, <3>2, <4>1, <4>2, QueueAppend DEF Starting
      <4>4. Attempts' = 0
        BY <2>1, <4>1, <4>2, <4>3 DEF Attempts, One
      <4> QED
        BY <2>1, <4>1, <4>2, <4>4 DEF Clean
    <3>4. CASE connector.state_ # "kConnecting"
      <4>1. connector' = connector
        BY <1>0, <3>1, <3>4, StopEffect
      <4>2. Attempts' = Attempts
        BY <2>1, <3>2, <4>1 DEF Starting, Attempts, One
      <4>3. ResetSoon => ResetSoon'
        BY <2>1, <4>1 DEF ResetSoon
      <4> QED
        BY <1>a, <1>b, <2>1, <4>1, <4>2, <4>3
    <3> QED
      BY <3>3, <3>4
  <2> QED
    BY <2>1, <2>2, <2>3, <2>4 DEF ClientTypeOK
<1>14. CASE UNCHANGED vars
  BY <1>14, <1>a, <1>b DEF vars, Attempts, Starting, ResetSoon
<1> QED
  BY <1>1, <1>2, <1>3, <1>4, <1>5, <1>6, <1>7, <1>8, <1>9, <1>10, <1>11, <1>12, <1>13, <1>14
     DEF Next, LoopStep, UserCall

\* Of the three asserts only the one in Connecting() can fail.
LEMMA FewAsserts ==
    ASSUME ClientTypeOK, ClientTypeOK', [Next]_vars, AttemptInv, AssertInv, ~hasty'
    PROVE  connector'.failed \subseteq {"Connecting"}
<1>0. /\ connector \in ConnectorType /\ connector.fresh \in Nat /\ connector.due \in Nat
  BY TcpClientAssumption DEF ClientTypeOK, ConnectorType
<1>1. ~hasty
  BY DEF Next, LoopStep, UserCall, ConnectorWritable, ConnectorFails, RemoveTcpConnection,
         CallRestart, EventsDone, RetryTimerFires, TimersDone, RunFunctor, FunctorsDone,
         UserConnect, UserDisconnect, UserStop, UserDestroy, UserDestroyConnected,
         ConnectorStores, ConnectorRunsInLoop, vars
<1>2. connector.failed \subseteq {"Connecting"} /\ Apart
  BY <1>1 DEF AssertInv, AttemptInv
\* A step that makes an attempt makes it where there is none.
<1>a. ASSUME NEW b, b.failed = connector.failed, b.state_ = "kDisconnected",
             Attempted(b, connector')
      PROVE  connector'.failed \subseteq {"Connecting"}
  BY <1>2, <1>a DEF Attempted
<1>3. CASE ConnectorWritable
  BY <1>0, <1>2, <1>3, MadeEffect DEF ConnectorWritable
<1>4. CASE ConnectorFails
  BY <1>0, <1>2, <1>4, AbandonEffect DEF ConnectorFails, Abandoned
<1>5. ASSUME NEW r \in Outcomes, CallRestart(r)
      PROVE  connector'.failed \subseteq {"Connecting"}
  <2> DEFINE b == [connector EXCEPT !.state_ = "kDisconnected", !.retry_duration_ = 1,
                                   !.start_ = TRUE]
  <2>1. Attempted(b, connector')
    BY <1>0, <1>5, RestartEffect, OutcomesType DEF CallRestart
  <2>2. b.failed = connector.failed /\ b.state_ = "kDisconnected"
    BY <1>0 DEF ConnectorType
  <2> HIDE DEF b
  <2> QED
    BY <1>a, <2>1, <2>2
<1>6. CASE EventsDone
  <2>1. PICK n \in 0..connector.fresh :
          connector' = [connector EXCEPT !.fresh = @ - n, !.due = @ + n]
    BY <1>6 DEF EventsDone
  <2> QED
    BY <1>0, <1>2, <2>1 DEF ConnectorType
<1>7. ASSUME NEW r \in Outcomes, RetryTimerFires(r)
      PROVE  connector'.failed \subseteq {"Connecting"}
  <2> DEFINE b == [connector EXCEPT !.due = @ - 1]
  <2>1. connector.due > 0
    BY <1>7 DEF RetryTimerFires
  <2>2. Attempted(b, connector')
    BY <1>0, <1>7, <2>1, RetryTimerEffect, OutcomesType DEF RetryTimerFires
  <2>3. b.failed = connector.failed /\ b.state_ = connector.state_
    BY <1>0 DEF ConnectorType
  <2>4. connector.state_ = "kDisconnected"
    BY <1>0, <1>2, <2>1 DEF Apart
  <2> HIDE DEF b
  <2> QED
    BY <1>a, <2>2, <2>3, <2>4
<1>8. ASSUME NEW r \in Outcomes, RunFunctor(r)
      PROVE  connector'.failed \subseteq {"Connecting"}
  <2> DEFINE c == [connector EXCEPT !.functors = Tail(@)]
             f == Head(connector.functors)
  <2>1. Len(connector.functors) > 0 /\ c \in ConnectorType /\ ClosureRan(c, connector', f)
    BY <1>8, FunctorEffect
  <2>2. /\ c.failed = connector.failed /\ c.state_ = connector.state_
        /\ f = connector.functors[1] /\ Len(connector.functors) \in Nat
    <3>1. connector.functors \in Seq(Closures)
      BY <1>0 DEF ConnectorType
    <3> QED
      BY <1>0, <2>1, <3>1, TailType
  <2> HIDE DEF c, f
  <2>3. CASE f = "start" /\ Attempted(c, connector')
    <3>1. 1 \in 1..Len(connector.functors)
      BY <2>1, <2>2
    <3>2. Starting
      BY <2>2, <2>3, <3>1 DEF Starting, Has
    <3> QED
      BY <1>2, <1>a, <2>2, <2>3, <3>2 DEF Apart
  <2>4. CASE f = "stop" /\ connector' = StopInLoop(c)
    BY <1>2, <2>1, <2>2, <2>4, StopEffect
  <2>5. CASE f = "reset" /\ connector' = [c EXCEPT !.channel_ = "null"]
    BY <1>2, <2>1, <2>2, <2>5 DEF ConnectorType
  <2> QED
    BY <2>1, <2>3, <2>4, <2>5 DEF ClosureRan
<1>9. CASE FunctorsDone \/ ConnectorStores
  BY <1>0, <1>2, <1>9 DEF FunctorsDone, ConnectorStores, ConnectorType
<1>10. ASSUME NEW r \in Outcomes, ConnectorRunsInLoop(r)
       PROVE  connector'.failed \subseteq {"Connecting"}
  <2>1. \/ connector'.failed = connector.failed
        \/ user_pc[1] = "start" /\ connector' = StartInLoop(connector, r)
        \/ connector' = StopInLoop(connector)
    BY <1>0, <1>10 DEF ConnectorRunsInLoop, ConnectorType
  <2>2. CASE user_pc[1] = "start" /\ connector' = StartInLoop(connector, r)
    <3>1. connector.state_ = "kDisconnected"
      BY <1>2, <2>2 DEF Apart, Starting
    <3> QED
      BY <1>0, <1>a, <2>2, <3>1, StartEffect, OutcomesType
  <2>3. CASE connector' = StopInLoop(connector)
    BY <1>0, <1>2, <2>3, StopEffect
  <2> QED
    BY <1>2, <2>1, <2>2, <2>3
<1>11. ASSUME UNCHANGED connector
       PROVE  connector'.failed \subseteq {"Connecting"}
  BY <1>2, <1>11
<1> QED
  BY <1>3, <1>4, <1>5, <1>6, <1>7, <1>8, <1>9, <1>10, <1>11
     DEF Next, LoopStep, RemoveTcpConnection, TimersDone, UserCall, UserConnect,
         UserDisconnect, UserStop, UserDestroy, UserDestroyConnected, vars

\* Unless Connect() is called with something left of the call before, the asserts of
\* Start()'s closure and of the retry timer never fail, however long the loop's
\* iterations take; and the one in Connecting() not before a timer, or the close of a
\* connection, has caught up with the iteration it comes from, which is the FIXME of
\* ResetChannel() (Connector.cpp:31, 100, 115, 161).
THEOREM AssertsAreKept == Spec => []AssertsHold
<1>1. Init => AssertInv
  <2>1. \A n : Has(<<>>, n) = FALSE
    BY DEF Has
  <2> QED
    BY <2>1 DEF Init, InitConnector, AssertInv, Clean
<1>2. (/\ ClientTypeOK /\ ClientTypeOK' /\ ResetInv /\ ResetInv' /\ AttemptInv /\ AttemptInv'
       /\ AssertInv /\ [Next]_vars)
         => AssertInv'
  <2> SUFFICES ASSUME ClientTypeOK, ClientTypeOK', ResetInv, ResetInv', AttemptInv, AttemptInv',
                      AssertInv, [Next]_vars
               PROVE  AssertInv'
    OBVIOUS
  <2>1. ~hasty' => connector'.failed \subseteq {"Connecting"}
    BY FewAsserts
  <2>2. ~hasty' /\ ~hurried' => Clean'
    BY AssertStep
  <2> QED
    BY <2>1, <2>2 DEF AssertInv
<1>3. AssertInv => AssertsHold
  BY DEF AssertInv, Clean, AssertsHold, StartFindsDisconnected, RetryFindsDisconnected,
         ConnectingFindsNoChannel
<1> QED
  BY <1>1, <1>2, <1>3, TypeCorrect, AttemptInvariant, PTL DEF Spec
-----------------------------------------------------------------------------
(* Stop().                                                                 *)

\* With calls made in the loop thread only resets are queued.
LEMMA ResetsOnly ==
    ASSUME NEW fs \in Seq(Closures), \A i \in 1..Len(fs) : fs[i] = "reset"
    PROVE  \A i \in 1..Len(Append(fs, "reset")) : Append(fs, "reset")[i] = "reset"
<1>1. "reset" \in Closures
  BY DEF Closures
<1>2. /\ Len(Append(fs, "reset")) = Len(fs) + 1 /\ Len(fs) \in Nat
      /\ \A i \in 1..Len(fs) : Append(fs, "reset")[i] = fs[i]
      /\ Append(fs, "reset")[Len(fs) + 1] = "reset"
  BY <1>1, AppendType
<1>3. 1..(Len(fs) + 1) = (1..Len(fs)) \cup {Len(fs) + 1}
  BY <1>2
<1> QED
  BY <1>2, <1>3

LEMMA StopStep ==
    ASSUME ClientTypeOK, ClientTypeOK', [Next]_vars, StopInv
    PROVE  StopInv'
<1> SUFFICES ASSUME in_loop' PROVE StopInv'
  BY DEF StopInv
<1> DEFINE Q(c) == \A i \in 1..Len(c.functors) : c.functors[i] = "reset"
<1>0. /\ connector \in ConnectorType /\ connector.functors \in Seq(Closures)
      /\ in_loop /\ in_loop' = in_loop /\ Q(connector)
      /\ user_pc # <<"idle">> => ~restarting
      /\ user_pc \in {"start", "stop"} \X {"run"} => connector.start_ = (user_pc[1] = "start")
      /\ stopped => /\ ~connector.start_ /\ ~restarting
                    /\ ~client.start_ \/ ~client.exists
                    /\ user_pc[1] # "start"
      /\ user_pc[1] = "stop" => ~client.start_ \/ ~client.exists
  <2>1. in_loop' = in_loop
    BY DEF Next, LoopStep, UserCall, ConnectorWritable, ConnectorFails, RemoveTcpConnection,
           CallRestart, EventsDone, RetryTimerFires, TimersDone, RunFunctor, FunctorsDone,
           UserConnect, UserDisconnect, UserStop, UserDestroy, UserDestroyConnected,
           ConnectorStores, ConnectorRunsInLoop, vars
  <2>2. connector \in ConnectorType /\ connector.functors \in Seq(Closures)
    BY DEF ClientTypeOK, ConnectorType
  <2> QED
    BY <2>1, <2>2 DEF StopInv
<1>q. ASSUME NEW c \in ConnectorType, Q(c), NEW d, d.functors = Append(c.functors, "reset")
      PROVE  Q(d)
  BY <1>q, ResetsOnly DEF ConnectorType
<1>i. ASSUME Q(connector')
      PROVE  \A i \in 1..Len(connector'.functors) : connector'.functors[i] = "reset"
  BY <1>i
<1> HIDE DEF Q
\* The loop's steps leave the user's call and start_ alone.
<1>l. ASSUME Q(connector'), user_pc' = user_pc, stopped' = stopped,
             connector'.start_ = connector.start_, restarting' = restarting,
             client'.start_ = client.start_, client'.exists = client.exists
      PROVE  StopInv'
  BY <1>0, <1>i, <1>l DEF StopInv
<1>1. CASE ConnectorWritable
  <2>1. /\ connector'.functors = Append(connector.functors, "reset")
        /\ connector'.start_ = connector.start_
    BY <1>0, <1>1, MadeEffect DEF ConnectorWritable
  <2>2. Q(connector')
    BY <1>0, <1>q, <2>1
  <2> QED
    BY <1>1, <1>l, <2>1, <2>2 DEF ConnectorWritable, ClientTypeOK
<1>2. CASE ConnectorFails
  <2>1. connector' = connector \/ Abandoned(connector, connector')
    BY <1>0, <1>2, AbandonEffect DEF ConnectorFails
  <2>2. Q(connector') /\ connector'.start_ = connector.start_
    BY <1>0, <1>q, <2>1 DEF Abandoned
  <2> QED
    BY <1>2, <1>l, <2>2 DEF ConnectorFails
<1>3. CASE RemoveTcpConnection
  <2>1. /\ connector' = connector /\ user_pc = <<"idle">> /\ user_pc' = user_pc
        /\ stopped' = stopped /\ restarting' = (retry_ /\ client.start_) /\ client.exists
        /\ client'.start_ = client.start_ /\ client'.exists = client.exists
    BY <1>0, <1>3 DEF RemoveTcpConnection, LoopFree, ClientTypeOK
  <2>2. Q(connector')
    BY <1>0, <2>1
  <2> QED
    BY <1>0, <1>i, <2>1, <2>2 DEF StopInv
<1>4. ASSUME NEW r \in Outcomes, CallRestart(r)
      PROVE  StopInv'
  <2> DEFINE b == [connector EXCEPT !.state_ = "kDisconnected", !.retry_duration_ = 1,
                                   !.start_ = TRUE]
  <2>1. Attempted(b, connector')
    BY <1>0, <1>4, RestartEffect, OutcomesType DEF CallRestart
  <2>2. b.functors = connector.functors
    BY <1>0 DEF ConnectorType
  <2>3. Q(connector')
    BY <1>0, <2>1, <2>2 DEF Q, Attempted
  <2>4. /\ restarting /\ ~restarting' /\ user_pc' = user_pc /\ stopped' = stopped
        /\ client' = client
    BY <1>4 DEF CallRestart
  <2>5. user_pc = <<"idle">> /\ ~stopped
    BY <1>0, <2>4
  <2> QED
    BY <1>0, <1>i, <2>3, <2>4, <2>5 DEF StopInv
<1>5. CASE EventsDone
  <2>1. PICK n \in 0..connector.fresh :
          connector' = [connector EXCEPT !.fresh = @ - n, !.due = @ + n]
    BY <1>5 DEF EventsDone
  <2>2. connector'.functors = connector.functors /\ connector'.start_ = connector.start_
    BY <1>0, <2>1 DEF ConnectorType
  <2>3. Q(connector')
    BY <1>0, <2>2 DEF Q
  <2> QED
    BY <1>5, <1>l, <2>2, <2>3 DEF EventsDone
<1>6. ASSUME NEW r \in Outcomes, RetryTimerFires(r)
      PROVE  StopInv'
  <2> DEFINE b == [connector EXCEPT !.due = @ - 1]
  <2>1. Attempted(b, connector')
    BY <1>0, <1>6, RetryTimerEffect, OutcomesType DEF RetryTimerFires
  <2>2. b.functors = connector.functors /\ b.start_ = connector.start_
    BY <1>0 DEF ConnectorType
  <2>3. Q(connector') /\ connector'.start_ = connector.start_
    BY <1>0, <2>1, <2>2 DEF Q, Attempted
  <2> QED
    BY <1>6, <1>l, <2>3 DEF RetryTimerFires
<1>8. ASSUME NEW r \in Outcomes, RunFunctor(r)
      PROVE  StopInv'
  <2> DEFINE c == [connector EXCEPT !.functors = Tail(@)]
             f == Head(connector.functors)
  <2>1. Len(connector.functors) > 0 /\ c \in ConnectorType /\ ClosureRan(c, connector', f)
    BY <1>8, FunctorEffect
  <2>2. /\ Len(c.functors) = Len(connector.functors) - 1 /\ c.start_ = connector.start_
        /\ \A i \in 1..Len(c.functors) : c.functors[i] = connector.functors[i + 1]
        /\ f = connector.functors[1]
    BY <1>0, <2>1, TailType
  <2>3. Len(connector.functors) \in Nat
    BY <1>0
  <2>4. f = "reset"
    BY <1>0, <2>1, <2>2, <2>3 DEF Q
  <2>5. stopped' = stopped
    BY <1>8, <2>4 DEF RunFunctor, ClientTypeOK
  <2> HIDE DEF c, f
  <2>6. connector' = [c EXCEPT !.channel_ = "null"]
    BY <2>1, <2>4 DEF ClosureRan
  <2>7. connector'.functors = c.functors /\ connector'.start_ = connector.start_
    BY <2>1, <2>2, <2>6 DEF ConnectorType
  <2>8. Q(connector')
    BY <1>0, <2>2, <2>3, <2>7 DEF Q
  <2> QED
    BY <1>8, <1>l, <2>5, <2>7, <2>8 DEF RunFunctor
<1>9. CASE FunctorsDone
  <2>1. connector'.functors = connector.functors /\ connector'.start_ = connector.start_
    BY <1>0, <1>9 DEF FunctorsDone, ConnectorType
  <2>2. Q(connector')
    BY <1>0, <2>1 DEF Q
  <2> QED
    BY <1>9, <1>l, <2>1, <2>2 DEF FunctorsDone, ClientTypeOK
<1>10. CASE UserCall
  <2>1. connector' = connector /\ restarting' = restarting /\ user_pc = <<"idle">> /\ ~restarting
        /\ client.exists
    BY <1>0, <1>10 DEF UserCall, UserConnect, UserDisconnect, UserStop, UserDestroy,
                  UserDestroyConnected, CanCall
  <2>2. Q(connector')
    BY <1>0, <2>1
  <2>3. \/ ~stopped' /\ user_pc' = <<"start", "store">>
        \/ /\ user_pc' \in {user_pc, <<"stop", "store">>} /\ stopped' = stopped
           /\ user_pc' = <<"stop", "store">> => ~client'.start_ \/ ~client'.exists
           /\ ~client.start_ => ~client'.start_
    BY <1>10 DEF UserCall, UserConnect, UserDisconnect, UserStop, UserDestroy,
                  UserDestroyConnected, CanCall, ClientTypeOK
  <2> QED
    BY <1>0, <1>i, <2>1, <2>2, <2>3 DEF StopInv
<1>11. CASE ConnectorStores
  <2>1. /\ user_pc # <<"idle">> /\ user_pc' = <<user_pc[1], "run">> /\ client' = client
        /\ restarting' = restarting /\ stopped' = stopped
        /\ connector' = [connector EXCEPT !.start_ = (user_pc[1] = "start")]
    BY <1>11 DEF ConnectorStores
  <2>2. connector'.functors = connector.functors /\ connector'.start_ = (user_pc[1] = "start")
    BY <1>0, <2>1 DEF ConnectorType
  <2>3. Q(connector')
    BY <1>0, <2>2 DEF Q
  <2> QED
    BY <1>0, <1>i, <2>1, <2>2, <2>3 DEF StopInv
<1>12. ASSUME NEW r \in Outcomes, ConnectorRunsInLoop(r)
       PROVE  StopInv'
  <2>1. /\ user_pc # <<"idle">> /\ user_pc[2] = "run" /\ user_pc' = <<"idle">> /\ client' = client
        /\ restarting' = restarting /\ stopped' = (user_pc[1] = "stop")
        /\ \/ user_pc[1] = "start" /\ connector' = StartInLoop(connector, r)
           \/ user_pc[1] # "start" /\ connector' = StopInLoop(connector)
    BY <1>0, <1>12 DEF ConnectorRunsInLoop
  <2>2. user_pc \in {"start", "stop"} \X {"run"} /\ ~restarting
    BY <1>0, <2>1 DEF ClientTypeOK
  <2>3. connector'.start_ = connector.start_ /\ Q(connector')
    <3>1. CASE connector' = StartInLoop(connector, r)
      BY <1>0, <3>1, StartEffect, OutcomesType DEF Attempted, Q
    <3>2. CASE connector' = StopInLoop(connector) /\ connector.state_ = "kConnecting"
      <4>1. /\ connector'.functors = Append(connector.functors, "reset")
            /\ connector'.start_ = connector.start_
        BY <1>0, <3>2, StopEffect
      <4> QED
        BY <1>0, <1>q, <4>1
    <3>3. CASE connector' = StopInLoop(connector) /\ connector.state_ # "kConnecting"
      BY <1>0, <3>3, StopEffect
    <3> QED
      BY <2>1, <3>1, <3>2, <3>3
  <2>4. user_pc[1] = "stop" => ~connector'.start_
    BY <1>0, <2>2, <2>3
  <2> QED
    BY <1>0, <1>i, <2>1, <2>2, <2>3, <2>4 DEF StopInv
<1>13. ASSUME UNCHANGED <<connector, client, restarting, user_pc, stopped>>
       PROVE  StopInv'
  BY <1>0, <1>l, <1>13
<1> QED
  BY <1>1, <1>2, <1>3, <1>4, <1>5, <1>6, <1>8, <1>9, <1>10, <1>11, <1>12, <1>13
     DEF Next, LoopStep, TimersDone, vars

\* Stop(), or the destructor, called in the loop thread is final: no connection
\* comes up afterwards but by another Connect(), however many Connect(), retry
\* timers and Restart() there were before (Connector.cpp:38-59, 108-125, 136-143).
THEOREM StopIsFinal == Spec => StopStops
<1> DEFINE Quiet == in_loop /\ stopped
                      => ~(client.connection_ = "none" /\ client'.connection_ # "none")
<1>1. Init => StopInv
  <2> SUFFICES ASSUME Init PROVE StopInv
    OBVIOUS
  <2>1. connector.functors = <<>> /\ ~restarting /\ ~stopped /\ user_pc = <<"idle">>
    BY DEF Init, InitConnector
  <2>2. user_pc \notin {"start", "stop"} \X {"run"}
    <3> SUFFICES ASSUME NEW x \in {"start", "stop"}, <<"idle">> = <<x, "run">>
                 PROVE  FALSE
      BY <2>1
    <3>1. Len(<<"idle">>) = 1 /\ Len(<<x, "run">>) = 2
      OBVIOUS
    <3> QED
      BY <3>1
  <2>3. Len(connector.functors) = 0 /\ user_pc[1] # "stop"
    BY <2>1
  <2> QED
    BY <2>1, <2>2, <2>3 DEF StopInv
<1>2. ClientTypeOK /\ ClientTypeOK' /\ StopInv /\ [Next]_vars => StopInv'
  BY StopStep
<1>3. ClientTypeOK /\ StopInv /\ [Next]_vars => [Quiet]_vars
  <2> SUFFICES ASSUME ClientTypeOK, StopInv, Next, in_loop, stopped, client.connection_ = "none"
               PROVE  client'.connection_ = "none"
    OBVIOUS
  <2>1. ~connector.start_
    BY DEF StopInv
  <2>2. CASE ConnectorWritable
    BY <2>1, <2>2 DEF ConnectorWritable, ClientTypeOK
  <2>3. CASE ~ConnectorWritable
    BY <2>3 DEF Next, LoopStep, UserCall, ConnectorFails, RemoveTcpConnection,
           CallRestart, EventsDone, RetryTimerFires, TimersDone, RunFunctor, FunctorsDone,
           UserConnect, UserDisconnect, UserStop, UserDestroy, UserDestroyConnected,
           ConnectorStores, ConnectorRunsInLoop, ClientTypeOK
  <2> QED
    BY <2>2, <2>3
<1> QED
  BY <1>1, <1>2, <1>3, TypeCorrect, PTL DEF Spec, StopStops
=============================================================================
