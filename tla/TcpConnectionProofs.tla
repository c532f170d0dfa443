------------------------ MODULE TcpConnectionProofs ------------------------
(***************************************************************************)
(* Theorems about TcpConnection, for any messages, users, calls and high-  *)
(* water mark: what is watched, when SHUT_WR is done, and that it closes   *)
(* once.                                                                   *)
(***************************************************************************)
EXTENDS TcpConnection, SequenceTheorems, TLAPS

OutputBytes == Msgs \X (1..MsgLen)

Closures ==
    {<<"establish">>, <<"shutdown">>, <<"forceclose">>, <<"lowwater">>, <<"destroy">>}
        \cup {<<"send", m>> : m \in Msgs}

CallsUnderWay ==
    {<<"idle">>, <<"shutdown">>, <<"forceclose">>} \cup {<<"send", m>> : m \in Msgs}

States == {"kConnecting", "kConnected", "kDisconnecting", "kDisconnected"}

Records ==
    [elsewhere : BOOLEAN, state : States, reading : BOOLEAN, writing : BOOLEAN,
     registered : BOOLEAN, open : BOOLEAN, shutWr : BOOLEAN, out : Seq(OutputBytes),
     functors : Seq(Closures), timer : BOOLEAN, removing : 0..2, revived : BOOLEAN,
     wire : Seq(OutputBytes), taken : Seq(OutputBytes), closes : 0..2, downs : 0..2]

LoopStates ==
    [phase : {"poll", "events", "timers", "functors"}, revents : SUBSET {"ERR", "IN", "OUT"},
     callback : BOOLEAN, batch : Nat]

Queued(c, what) == \E i \in 1..Len(c.functors) : c.functors[i][1] = what

\* EPOLLOUT and SHUT_WR go with the output.
OutputOK(c) ==
    c.downs = 0 =>
        /\ c.writing <=> c.out # <<>>
        /\ "shutdown" \notin HighWaterCalls /\ c.shutWr => c.out = <<>>

\* EstablishConnection runs once, and DestroyConnection follows a close.
OrderOK(c) ==
    /\ c.state # "kConnecting" => ~Queued(c, "establish")
    /\ c.closes = 0 => c.downs = 0 /\ c.removing = 0 /\ ~Queued(c, "destroy")

\* What a close leaves: nothing is watched that could bring another one.
ClosedOK(c) ==
    ~c.revived /\ c.closes > 0 =>
        /\ c.closes = 1 /\ c.state = "kDisconnected"
        /\ ~c.reading /\ ~c.writing
        /\ c.downs > 0 => ~c.registered

RecordOK(c) == c \in Records /\ OutputOK(c) /\ OrderOK(c) /\ ClosedOK(c)

\* Before EstablishConnection nobody has the connection.
ConnectingInv ==
    conn.state = "kConnecting" =>
        /\ conn.functors = <<<<"establish">>>>
        /\ conn.closes = 0 /\ conn.out = <<>>
        /\ ~conn.reading /\ ~conn.writing /\ ~conn.registered /\ ~conn.shutWr /\ ~conn.timer
        /\ loop.revents = {} /\ ~loop.callback
        /\ \A u \in Users : user_pc[u] = <<"idle">>

\* The loop has what it is about to call, and after a close no EPOLLIN left.
LoopInv ==
    /\ loop \in LoopStates
    /\ loop.phase # "events" => loop.revents = {}
    /\ loop.batch <= Len(conn.functors)
    /\ ~conn.revived /\ conn.closes > 0 => "IN" \notin loop.revents

ConnIInv ==
    /\ RecordOK(conn)
    /\ user_pc \in [Users -> CallsUnderWay]
    /\ ConnectingInv
    /\ LoopInv

-----------------------------------------------------------------------------
(* The methods, each from a good record to a good one.                     *)

\* What every method that runs after EstablishConnection does.
Follows(c, r) ==
    /\ RecordOK(r) /\ r.state # "kConnecting"
    /\ r.revived <=> c.revived
    /\ Len(r.functors) >= Len(c.functors)

\* QueueInLoop() changes nothing but the queue.
LEMMA QueueFields ==
    ASSUME NEW c \in Records, NEW f \in Closures
    PROVE  /\ Queue(c, f) \in Records
           /\ Queue(c, f).functors = Append(c.functors, f)
           /\ Queue(c, f).state = c.state /\ Queue(c, f).out = c.out
           /\ Queue(c, f).closes = c.closes /\ Queue(c, f).downs = c.downs
           /\ Queue(c, f).removing = c.removing
           /\ Queue(c, f).reading <=> c.reading
           /\ Queue(c, f).writing <=> c.writing
           /\ Queue(c, f).registered <=> c.registered
           /\ Queue(c, f).shutWr <=> c.shutWr
           /\ Queue(c, f).revived <=> c.revived
           /\ Queue(c, f).elsewhere <=> c.elsewhere
           /\ Queue(c, f).timer <=> c.timer
<1> DEFINE q == Append(c.functors, f)
<1>1. c.functors \in Seq(Closures)
  BY DEF Records
<1>2. q \in Seq(Closures)
  BY <1>1, AppendProperties
<1>3. Queue(c, f) = [c EXCEPT !.functors = q]
  BY DEF Queue
<1> HIDE DEF q
<1> QED
  BY <1>2, <1>3 DEF Records, q

\* A closure in the queue afterwards was there, or is the new one.
LEMMA QueuedByQueue ==
    ASSUME NEW c \in Records, NEW f \in Closures, NEW what
    PROVE  Queued(Queue(c, f), what) => Queued(c, what) \/ f[1] = what
<1>1. c.functors \in Seq(Closures) /\ Queue(c, f).functors = Append(c.functors, f)
  BY QueueFields DEF Records
<1> DEFINE q == Append(c.functors, f)
<1>2. Len(q) = Len(c.functors) + 1 /\ q[Len(q)] = f
      /\ \A i \in 1..Len(c.functors) : q[i] = c.functors[i]
  BY <1>1, AppendProperties
<1>3. \A i \in 1..Len(q) : i \in 1..Len(c.functors) \/ i = Len(q)
  BY <1>1, <1>2
<1> HIDE DEF q
<1> QED
  BY <1>1, <1>2, <1>3 DEF Queued, q

\* QueueInLoop() of a closure that may be queued.
LEMMA QueueFollows ==
    ASSUME NEW c, RecordOK(c), c.state # "kConnecting", NEW f \in Closures,
           f[1] # "establish", f[1] = "destroy" => c.closes > 0
    PROVE  Follows(c, Queue(c, f)) /\ Len(Queue(c, f).functors) = Len(c.functors) + 1
<1> DEFINE r == Queue(c, f)
<1>1. c \in Records
  BY DEF RecordOK
<1>2. /\ r \in Records
      /\ r.functors = Append(c.functors, f)
      /\ r.state = c.state /\ r.out = c.out
      /\ r.closes = c.closes /\ r.downs = c.downs
      /\ r.removing = c.removing
      /\ r.reading <=> c.reading
      /\ r.writing <=> c.writing
      /\ r.registered <=> c.registered
      /\ r.shutWr <=> c.shutWr
      /\ r.revived <=> c.revived
  BY <1>1, QueueFields
<1>3. /\ Queued(r, "establish") => Queued(c, "establish") \/ f[1] = "establish"
      /\ Queued(r, "destroy") => Queued(c, "destroy") \/ f[1] = "destroy"
  BY <1>1, QueuedByQueue
<1>4. Len(r.functors) = Len(c.functors) + 1 /\ Len(c.functors) \in Nat
  BY <1>1, <1>2, AppendProperties DEF Records
<1> HIDE DEF r
<1>5. c.closes \in Nat
  BY <1>1 DEF Records
<1>6. OutputOK(r)
  BY <1>2 DEF RecordOK, OutputOK
<1>7. OrderOK(r)
  BY <1>2, <1>3, <1>5 DEF RecordOK, OrderOK
<1>8. ClosedOK(r)
  BY <1>2 DEF RecordOK, ClosedOK
<1> QED
  BY <1>2, <1>4, <1>6, <1>7, <1>8 DEF Follows, RecordOK, r

\* Channel::Update() changes nothing but what is watched.
LEMMA SetEventsFields ==
    ASSUME NEW c \in Records, NEW r \in BOOLEAN, NEW w \in BOOLEAN
    PROVE  LET d == SetEvents(c, r, w)
           IN  /\ d \in Records
               /\ d.functors = c.functors /\ d.state = c.state /\ d.out = c.out
               /\ d.closes = c.closes /\ d.downs = c.downs /\ d.removing = c.removing
               /\ d.reading <=> r
               /\ d.writing <=> w
               /\ d.registered
               /\ d.shutWr <=> c.shutWr
               /\ d.revived <=> c.revived
               /\ d.elsewhere <=> c.elsewhere
               /\ d.timer <=> c.timer
BY DEF SetEvents, Records

\* HandleClose() of a connection that has not closed yet: it closes, or waits
\* for the output to be written.
LEMMA HandleCloseFollows ==
    ASSUME NEW c, RecordOK(c), c.state # "kConnecting", ~c.revived => c.closes = 0
    PROVE  Follows(c, HandleClose(c))
<1> DEFINE b == [c EXCEPT !.state = "kDisconnected"]
           d == SetEvents(b, FALSE, c.writing)
           e == [d EXCEPT !.closes = CountTo2(@)]
<1>1. c \in Records /\ OutputOK(c) /\ OrderOK(c) /\ ClosedOK(c)
  BY DEF RecordOK
<1>2. /\ b \in Records /\ b.state = "kDisconnected"
      /\ b.functors = c.functors /\ b.out = c.out
      /\ b.closes = c.closes /\ b.downs = c.downs /\ b.removing = c.removing
      /\ b.shutWr <=> c.shutWr
      /\ b.revived <=> c.revived
      /\ b.elsewhere <=> c.elsewhere
  BY <1>1 DEF Records, States
<1>3. c.writing \in BOOLEAN
  BY <1>1 DEF Records
<1> HIDE DEF b
<1>4. /\ d \in Records /\ d.state = "kDisconnected"
      /\ d.functors = c.functors /\ d.out = c.out
      /\ d.closes = c.closes /\ d.downs = c.downs /\ d.removing = c.removing
      /\ ~d.reading
      /\ d.writing <=> c.writing
      /\ d.shutWr <=> c.shutWr
      /\ d.revived <=> c.revived
      /\ d.elsewhere <=> c.elsewhere
  BY <1>2, <1>3, SetEventsFields, ZenonT(30)
<1>5. HandleClose(c) = IF c.writing THEN d ELSE CloseCallBack(d)
  BY DEF HandleClose, b
<1> HIDE DEF d
<1>6. \A w : Queued(d, w) <=> Queued(c, w)
  BY <1>4 DEF Queued
<1>7. Len(c.functors) \in Nat /\ c.closes \in 0..2 /\ c.removing \in 0..2 /\ c.downs \in 0..2
  BY <1>1 DEF Records
<1>8. ASSUME c.writing PROVE Follows(c, d)
  <2>1. OutputOK(d)
    BY <1>1, <1>4 DEF OutputOK
  <2>2. OrderOK(d)
    BY <1>1, <1>4, <1>6 DEF OrderOK
  <2>3. ClosedOK(d)
    BY <1>4 DEF ClosedOK
  <2> QED
    BY <1>4, <1>7, <2>1, <2>2, <2>3 DEF Follows, RecordOK
<1>9. ASSUME ~c.writing PROVE Follows(c, CloseCallBack(d))
  <2> DEFINE n == CountTo2(d.closes)
  <2>1. n \in 0..2 /\ n # 0 /\ (c.closes = 0 => n = 1)
    BY <1>4, <1>7 DEF CountTo2
  <2>2. e = [d EXCEPT !.closes = n]
    OBVIOUS
  <2> HIDE DEF n, e
  <2>3. /\ e \in Records /\ e.closes = n /\ e.state = "kDisconnected"
        /\ e.functors = c.functors /\ e.out = c.out
        /\ e.downs = c.downs /\ e.removing = c.removing
        /\ ~e.reading /\ ~e.writing
        /\ e.shutWr <=> c.shutWr
        /\ e.revived <=> c.revived
        /\ e.elsewhere <=> c.elsewhere
    <3>1. /\ e \in Records /\ e.closes = n /\ e.state = d.state
          /\ e.functors = d.functors /\ e.out = d.out
          /\ e.downs = d.downs /\ e.removing = d.removing
          /\ e.reading <=> d.reading
          /\ e.writing <=> d.writing
          /\ e.shutWr <=> d.shutWr
          /\ e.revived <=> d.revived
          /\ e.elsewhere <=> d.elsewhere
      BY <1>4, <2>1, <2>2 DEF Records
    <3> QED
      BY <1>4, <1>9, <3>1
  <2>4. \A w : Queued(e, w) <=> Queued(c, w)
    BY <2>3 DEF Queued
  <2>5. OutputOK(e)
    BY <1>1, <1>9, <2>3 DEF OutputOK
  <2>6. OrderOK(e)
    BY <1>1, <2>1, <2>3, <2>4 DEF OrderOK
  <2>7. ~c.revived => c.downs = 0 /\ e.closes = 1
    BY <1>1, <2>1, <2>3 DEF OrderOK
  <2>8. ClosedOK(e)
    BY <2>3, <2>7 DEF ClosedOK
  <2>9. RecordOK(e)
    BY <2>3, <2>5, <2>6, <2>8 DEF RecordOK
  <2>10. CASE e.elsewhere
    <3> DEFINE k == CountTo2(e.removing)
               f == [e EXCEPT !.removing = k]
    <3>1. CloseCallBack(d) = f
      BY <1>4, <2>3, <2>10 DEF CloseCallBack, e
    <3>2. k \in 0..2
      BY <1>7, <2>3 DEF CountTo2
    <3> HIDE DEF k
    <3>3. /\ f \in Records /\ f.closes = n /\ f.state = "kDisconnected"
          /\ f.functors = c.functors /\ f.out = c.out /\ f.downs = c.downs
          /\ ~f.reading /\ ~f.writing
          /\ f.shutWr <=> c.shutWr
          /\ f.revived <=> c.revived
      BY <2>3, <3>2 DEF Records
    <3> HIDE DEF f
    <3>4. \A w : Queued(f, w) <=> Queued(c, w)
      BY <3>3 DEF Queued
    <3>5. OutputOK(f) /\ OrderOK(f)
      BY <1>1, <1>9, <2>1, <3>3, <3>4 DEF OutputOK, OrderOK
    <3>6. ClosedOK(f)
      BY <2>3, <2>7, <3>3 DEF ClosedOK
    <3> QED
      BY <1>7, <3>1, <3>3, <3>5, <3>6 DEF Follows, RecordOK
  <2>11. CASE ~e.elsewhere
    <3>1. CloseCallBack(d) = Queue(e, <<"destroy">>)
      BY <1>4, <2>3, <2>11 DEF CloseCallBack, e
    <3>2. Follows(e, Queue(e, <<"destroy">>))
      BY <2>1, <2>3, <2>9, QueueFollows DEF Closures
    <3> QED
      BY <2>3, <3>1, <3>2 DEF Follows
  <2> QED
    BY <2>10, <2>11
<1> QED
  BY <1>5, <1>8, <1>9

\* ForceCloseInLoop() does nothing once the connection is down.
LEMMA ForceCloseInLoopFollows ==
    ASSUME NEW c, RecordOK(c), c.state # "kConnecting"
    PROVE  Follows(c, ForceCloseInLoop(c))
<1>1. CASE c.state \in {"kConnected", "kDisconnecting"}
  <2>1. c.closes \in Nat
    BY DEF RecordOK, Records
  <2>2. ~c.revived => c.closes = 0
    BY <1>1, <2>1 DEF RecordOK, ClosedOK
  <2> QED
    BY <1>1, <2>2, HandleCloseFollows DEF ForceCloseInLoop
<1>2. CASE ~(c.state \in {"kConnected", "kDisconnecting"})
  <2>1. Len(c.functors) \in Nat
    BY DEF RecordOK, Records
  <2> QED
    BY <1>2, <2>1 DEF ForceCloseInLoop, Follows
<1> QED
  BY <1>1, <1>2

\* What shutdown(SHUT_WR) leaves as it was.
LEMMA ShutWrFields ==
    ASSUME NEW c \in Records
    PROVE  LET d == [c EXCEPT !.shutWr = TRUE]
           IN  /\ d \in Records
               /\ d.functors = c.functors /\ d.state = c.state /\ d.out = c.out
               /\ d.closes = c.closes /\ d.downs = c.downs /\ d.removing = c.removing
               /\ d.reading <=> c.reading
               /\ d.writing <=> c.writing
               /\ d.registered <=> c.registered
               /\ d.revived <=> c.revived
BY DEF Records

\* ShutdownInLoop() waits for the output.
LEMMA ShutdownInLoopFollows ==
    ASSUME NEW c, RecordOK(c), c.state # "kConnecting"
    PROVE  LET r == ShutdownInLoop(c)
           IN  /\ Follows(c, r)
               /\ r.closes = c.closes /\ r.downs = c.downs /\ r.out = c.out /\ r.state = c.state
<1> DEFINE d == [c EXCEPT !.shutWr = TRUE]
<1>1. c \in Records /\ OutputOK(c) /\ OrderOK(c) /\ ClosedOK(c) /\ Len(c.functors) \in Nat
  BY DEF RecordOK, Records
<1>2. CASE c.writing
  BY <1>1, <1>2 DEF ShutdownInLoop, Follows
<1>3. CASE ~c.writing
  <2>1. ShutdownInLoop(c) = d
    BY <1>3 DEF ShutdownInLoop
  <2>2. /\ d \in Records
        /\ d.functors = c.functors /\ d.state = c.state /\ d.out = c.out
        /\ d.closes = c.closes /\ d.downs = c.downs /\ d.removing = c.removing
        /\ d.reading <=> c.reading
        /\ d.writing <=> c.writing
        /\ d.registered <=> c.registered
        /\ d.revived <=> c.revived
    BY <1>1, ShutWrFields
  <2> HIDE DEF d
  <2>3. \A w : Queued(d, w) <=> Queued(c, w)
    BY <2>2 DEF Queued
  <2>4. OutputOK(d) /\ OrderOK(d) /\ ClosedOK(d)
    BY <1>1, <1>3, <2>2, <2>3 DEF OutputOK, OrderOK, ClosedOK
  <2> QED
    BY <1>1, <2>1, <2>2, <2>4 DEF Follows, RecordOK
<1> QED
  BY <1>2, <1>3

\* A call that only stores to state_, in a connection that is up.
LEMMA StateFollows ==
    ASSUME NEW c, RecordOK(c), NEW s \in {"kDisconnecting", "kDisconnected"},
           c.state # "kConnecting", ~c.revived => c.closes = 0
    PROVE  LET d == [c EXCEPT !.state = s]
           IN  /\ Follows(c, d)
               /\ d.state = s /\ d.functors = c.functors
               /\ d.closes = c.closes /\ d.downs = c.downs /\ d.out = c.out
               /\ d.shutWr <=> c.shutWr
<1> DEFINE d == [c EXCEPT !.state = s]
<1>1. c \in Records /\ OutputOK(c) /\ OrderOK(c) /\ ClosedOK(c) /\ Len(c.functors) \in Nat
  BY DEF RecordOK, Records
<1>2. /\ d \in Records /\ d.state = s
      /\ d.functors = c.functors /\ d.out = c.out
      /\ d.closes = c.closes /\ d.downs = c.downs /\ d.removing = c.removing
      /\ d.reading <=> c.reading
      /\ d.writing <=> c.writing
      /\ d.registered <=> c.registered
      /\ d.shutWr <=> c.shutWr
      /\ d.revived <=> c.revived
  BY <1>1 DEF Records, States
<1> HIDE DEF d
<1>3. \A w : Queued(d, w) <=> Queued(c, w)
  BY <1>2 DEF Queued
<1>4. OutputOK(d) /\ OrderOK(d)
  BY <1>1, <1>2, <1>3 DEF OutputOK, OrderOK
<1>5. ClosedOK(d)
  BY <1>2 DEF ClosedOK
<1> QED
  BY <1>1, <1>2, <1>4, <1>5 DEF Follows, RecordOK, d

\* A call that stores to state_ and queues the rest.
LEMMA StateAndQueueFollows ==
    ASSUME NEW c, RecordOK(c), NEW s \in {"kDisconnecting", "kDisconnected"},
           NEW f \in {<<"shutdown">>, <<"forceclose">>},
           c.state # "kConnecting", ~c.revived => c.closes = 0
    PROVE  LET d == Queue([c EXCEPT !.state = s], f)
           IN  /\ Follows(c, d)
               /\ d.closes = c.closes /\ d.downs = c.downs /\ d.out = c.out
               /\ d.shutWr <=> c.shutWr
<1> DEFINE e == [c EXCEPT !.state = s]
<1>1. /\ Follows(c, e) /\ e.state = s
      /\ e.functors = c.functors
      /\ e.closes = c.closes /\ e.downs = c.downs /\ e.out = c.out
      /\ e.shutWr <=> c.shutWr
  BY StateFollows
<1> HIDE DEF e
<1>2. f \in Closures /\ f[1] # "establish" /\ f[1] # "destroy"
  BY DEF Closures
<1>3. Follows(e, Queue(e, f)) /\ e \in Records
  BY <1>1, <1>2, QueueFollows DEF Follows, RecordOK
<1>4. /\ Queue(e, f).closes = e.closes /\ Queue(e, f).downs = e.downs
      /\ Queue(e, f).out = e.out
      /\ Queue(e, f).shutWr <=> e.shutWr
  BY <1>2, <1>3, QueueFields
<1> QED
  BY <1>1, <1>3, <1>4 DEF Follows, e

\* The high-water-mark callback may end the connection, but not close it.
LEMMA HighWaterFollows ==
    ASSUME NEW c, RecordOK(c), NEW h \in HighWaterCalls, NEW k,
           c.state # "kConnecting", ~c.revived => c.closes = 0
    PROVE  LET r == HighWaterCallBack(c, h, k)
           IN  /\ Follows(c, r)
               /\ r.closes = c.closes /\ r.downs = c.downs /\ r.out = c.out
               /\ r.shutWr => c.shutWr \/ "shutdown" \in HighWaterCalls
<1> DEFINE r == HighWaterCallBack(c, h, k)
           d == [c EXCEPT !.state = "kDisconnecting"]
           e == Queue([c EXCEPT !.state = "kDisconnected"], <<"forceclose">>)
<1> SUFFICES /\ Follows(c, r)
             /\ r.closes = c.closes /\ r.downs = c.downs /\ r.out = c.out
             /\ r.shutWr => c.shutWr \/ "shutdown" \in HighWaterCalls
  OBVIOUS
<1>1. r = c \/ (h = "shutdown" /\ r = ShutdownInLoop(d)) \/ r = e
  <2>1. r = c \/ r = ShutdownInLoop(d) \/ r = e
    BY DEF HighWaterCallBack
  <2>2. h # "shutdown" => r = c \/ r = e
    BY DEF HighWaterCallBack
  <2> QED
    BY <2>1, <2>2
<1>2. CASE r = c
  <2>1. Len(c.functors) \in Nat
    BY DEF RecordOK, Records
  <2> QED
    BY <1>2, <2>1 DEF Follows
<1>3. CASE r = e
  <2>1. /\ Follows(c, e) /\ e.closes = c.closes /\ e.downs = c.downs /\ e.out = c.out
        /\ e.shutWr <=> c.shutWr
    BY StateAndQueueFollows
  <2> HIDE DEF e, r
  <2> QED
    BY <1>3, <2>1
<1>4. CASE h = "shutdown" /\ r = ShutdownInLoop(d)
  <2>1. /\ Follows(c, d) /\ d.functors = c.functors /\ d.state = "kDisconnecting"
        /\ d.closes = c.closes /\ d.downs = c.downs /\ d.out = c.out
    BY StateFollows
  <2> HIDE DEF d
  <2>2. /\ Follows(d, ShutdownInLoop(d))
        /\ ShutdownInLoop(d).closes = d.closes /\ ShutdownInLoop(d).downs = d.downs
        /\ ShutdownInLoop(d).out = d.out
    BY <2>1, ShutdownInLoopFollows DEF Follows
  <2> QED
    BY <1>4, <2>1, <2>2 DEF Follows
<1> QED
  BY <1>1, <1>2, <1>3, <1>4

\* Bytes of a message and of the output.
LEMMA ByteSequences ==
    ASSUME NEW m \in Msgs, NEW out \in Seq(OutputBytes), NEW k \in 0..MsgLen
    PROVE  /\ Bytes(m) \in Seq(OutputBytes)
           /\ out \o SubSeq(Bytes(m), 1, k) \in Seq(OutputBytes)
           /\ out \o SubSeq(Bytes(m), k + 1, MsgLen) \in Seq(OutputBytes)
           /\ out \o SubSeq(Bytes(m), k + 1, MsgLen) = <<>> <=> out = <<>> /\ k = MsgLen
<1>1. MsgLen \in Nat /\ MsgLen > 0
  BY TcpConnectionAssumption
<1>2. Bytes(m) \in Seq(OutputBytes) /\ Len(Bytes(m)) = MsgLen
  BY <1>1 DEF Bytes, OutputBytes
<1> DEFINE b == Bytes(m)
           t == SubSeq(b, k + 1, MsgLen)
<1> HIDE DEF b
<1>3. SubSeq(b, 1, k) \in Seq(OutputBytes)
  BY <1>1, <1>2 DEF b
<1>4. t \in Seq(OutputBytes) /\ Len(t) = MsgLen - k
  BY <1>1, <1>2 DEF b
<1> HIDE DEF t
<1>5. /\ out \o t \in Seq(OutputBytes)
      /\ Len(out \o t) = Len(out) + Len(t)
      /\ out \o SubSeq(b, 1, k) \in Seq(OutputBytes)
  BY <1>3, <1>4, ConcatProperties
<1>6. out \o t = <<>> <=> out = <<>> /\ k = MsgLen
  <2>1. \A q \in Seq(OutputBytes) : q = <<>> <=> Len(q) = 0
    BY EmptySeq
  <2>2. Len(out \o t) = 0 <=> Len(out) = 0 /\ Len(t) = 0
    BY <1>4, <1>5
  <2>3. Len(t) = 0 <=> k = MsgLen
    BY <1>1, <1>4
  <2> QED
    BY <1>5, <2>1, <2>2, <2>3
<1> QED
  BY <1>2, <1>5, <1>6 DEF b, t

\* k bytes of m are written, the rest is buffered, and EPOLLOUT asked for.
LEMMA SentFollows ==
    ASSUME NEW c, RecordOK(c), NEW m \in Msgs, NEW k \in 0..MsgLen,
           c.state # "kConnecting", ~c.revived => c.closes = 0,
           c.shutWr /\ c.downs = 0 => "shutdown" \in HighWaterCalls
    PROVE  LET r == AskForWrite(Accept(c, m, k))
           IN  Follows(c, r) /\ r.closes = c.closes
<1> DEFINE a == Accept(c, m, k)
           w == c.wire \o SubSeq(Bytes(m), 1, k)
           o == c.out \o SubSeq(Bytes(m), k + 1, MsgLen)
           t == c.taken \o Bytes(m)
           r == AskForWrite(a)
<1>1. c \in Records /\ OutputOK(c) /\ OrderOK(c) /\ ClosedOK(c) /\ Len(c.functors) \in Nat
  BY DEF RecordOK, Records
<1>2. w \in Seq(OutputBytes) /\ o \in Seq(OutputBytes) /\ (o = <<>> => c.out = <<>>)
  <2>1. c.wire \in Seq(OutputBytes) /\ c.out \in Seq(OutputBytes)
    BY <1>1 DEF Records
  <2> QED
    BY <2>1, ByteSequences
<1>3. t \in Seq(OutputBytes)
  <2>1. c.taken \in Seq(OutputBytes)
    BY <1>1 DEF Records
  <2> QED
    BY <2>1, ByteSequences, ConcatProperties
<1>4. a = [c EXCEPT !.wire = w, !.out = o, !.taken = t]
  BY DEF Accept
<1> HIDE DEF w, o, t, a
<1>5. /\ a \in Records /\ a.out = o
      /\ a.functors = c.functors /\ a.state = c.state
      /\ a.closes = c.closes /\ a.downs = c.downs /\ a.removing = c.removing
      /\ a.reading <=> c.reading
      /\ a.writing <=> c.writing
      /\ a.registered <=> c.registered
      /\ a.shutWr <=> c.shutWr
      /\ a.revived <=> c.revived
  BY <1>1, <1>2, <1>3, <1>4 DEF Records
<1>6. /\ r \in Records /\ r.out = o
      /\ r.functors = c.functors /\ r.state = c.state
      /\ r.closes = c.closes /\ r.downs = c.downs /\ r.removing = c.removing
      /\ o = <<>> => (r.writing <=> c.writing)
      /\ o # <<>> => r.writing
      /\ r.shutWr <=> c.shutWr
      /\ r.revived <=> c.revived
  <2>1. CASE o = <<>>
    BY <1>5, <2>1 DEF AskForWrite
  <2>2. CASE o # <<>>
    <3>1. r = SetEvents(a, a.reading, TRUE) /\ a.reading \in BOOLEAN
      BY <1>5, <2>2 DEF AskForWrite, Records
    <3> HIDE DEF r
    <3> QED
      BY <1>5, <2>2, <3>1, SetEventsFields, ZenonT(30)
  <2> QED
    BY <2>1, <2>2
<1> HIDE DEF r
<1>7. \A x : Queued(r, x) <=> Queued(c, x)
  BY <1>6 DEF Queued
<1>8. OutputOK(r)
  BY <1>1, <1>2, <1>6 DEF OutputOK
<1>9. OrderOK(r)
  BY <1>1, <1>6, <1>7 DEF OrderOK
<1>10. ClosedOK(r)
  BY <1>6 DEF ClosedOK
<1> QED
  BY <1>1, <1>6, <1>8, <1>9, <1>10 DEF Follows, RecordOK, r, a

\* SendInLoop() adds nothing to a connection that is down, and writes nothing
\* behind SHUT_WR.
LEMMA SendInLoopFollows ==
    ASSUME NEW c, RecordOK(c), NEW m \in Msgs, NEW n \in Taken(c), NEW h \in HighWaterCalls,
           c.state # "kConnecting"
    PROVE  LET r == SendInLoop(c, m, n, h)
           IN  Follows(c, r) /\ r.closes = c.closes
<1> DEFINE r == SendInLoop(c, m, n, h)
           k == IF CanWriteAtOnce(c) THEN n ELSE 0
           b == HighWaterCallBack(c, h, MsgLen - k)
           s == AskForWrite(Accept(c, m, k))
<1> SUFFICES Follows(c, r) /\ r.closes = c.closes
  OBVIOUS
<1>1. /\ c \in Records /\ OutputOK(c) /\ ClosedOK(c) /\ Len(c.functors) \in Nat
      /\ c.closes \in Nat
  BY DEF RecordOK, Records
<1>2. k \in 0..MsgLen
  BY TcpConnectionAssumption DEF Taken
<1> HIDE DEF k
<1>3. CASE c.state = "kDisconnected" \/ (CanWriteAtOnce(c) /\ WriteFails(c))
  <2>1. r = c
    BY <1>3 DEF SendInLoop
  <2> QED
    BY <1>1, <2>1 DEF Follows
<1>4. CASE ~(c.state = "kDisconnected" \/ (CanWriteAtOnce(c) /\ WriteFails(c)))
  <2>1. ~c.revived => c.closes = 0
    BY <1>1, <1>4 DEF ClosedOK
  <2>2. c.shutWr /\ c.downs = 0 => "shutdown" \in HighWaterCalls
    BY <1>1, <1>4 DEF OutputOK, CanWriteAtOnce, WriteFails
  <2>3. CASE k = MsgLen
    <3>1. r = Queue(s, <<"lowwater">>)
      BY <1>4, <2>3 DEF SendInLoop, k
    <3>2. Follows(c, s) /\ s.closes = c.closes
      BY <1>2, <2>1, <2>2, SentFollows
    <3> HIDE DEF s
    <3>3. Follows(s, Queue(s, <<"lowwater">>))
      BY <3>2, QueueFollows DEF Follows, Closures
    <3>4. Queue(s, <<"lowwater">>).closes = s.closes
      BY <3>2, QueueFields DEF Follows, RecordOK, Closures
    <3> HIDE DEF r
    <3> QED
      BY <3>1, <3>2, <3>3, <3>4 DEF Follows
  <2>4. CASE k # MsgLen
    <3>1. r = AskForWrite(Accept(b, m, k))
      BY <1>4, <2>4 DEF SendInLoop, k
    <3>2. /\ Follows(c, b) /\ b.closes = c.closes /\ b.downs = c.downs
          /\ b.shutWr => c.shutWr \/ "shutdown" \in HighWaterCalls
      BY <2>1, HighWaterFollows
    <3> HIDE DEF b
    <3>3. Follows(b, AskForWrite(Accept(b, m, k))) /\ AskForWrite(Accept(b, m, k)).closes = b.closes
      BY <1>2, <2>1, <2>2, <3>2, SentFollows DEF Follows
    <3> HIDE DEF r
    <3> QED
      BY <3>1, <3>2, <3>3 DEF Follows
  <2> QED
    BY <2>3, <2>4
<1> QED
  BY <1>3, <1>4

\* Once the output is written EPOLLOUT is not asked for any longer.
LEMMA DrainFollows ==
    ASSUME NEW c, RecordOK(c), c.state # "kConnecting", c.writing,
           NEW n \in 1..Len(c.out)
    PROVE  LET d == Drain(c, n)
           IN  Follows(c, d) /\ d.closes = c.closes /\ d.state = c.state
<1> DEFINE w == c.wire \o SubSeq(c.out, 1, n)
           o == SubSeq(c.out, n + 1, Len(c.out))
           a == [c EXCEPT !.wire = w, !.out = o]
           b == SetEvents(a, a.reading, FALSE)
           d == Drain(c, n)
<1>1. c \in Records /\ OutputOK(c) /\ OrderOK(c) /\ ClosedOK(c) /\ Len(c.functors) \in Nat
  BY DEF RecordOK, Records
<1>2. w \in Seq(OutputBytes) /\ o \in Seq(OutputBytes)
  <2>1. c.wire \in Seq(OutputBytes) /\ c.out \in Seq(OutputBytes)
    BY <1>1 DEF Records
  <2>2. SubSeq(c.out, 1, n) \in Seq(OutputBytes) /\ o \in Seq(OutputBytes)
    BY <2>1
  <2> QED
    BY <2>1, <2>2, ConcatProperties
<1>3. d = IF a.out # <<>> THEN a ELSE Queue(b, <<"lowwater">>)
  BY DEF Drain
<1>4. ~c.revived => c.closes = 0
  <2>1. c.closes \in Nat
    BY <1>1 DEF Records
  <2> QED
    BY <1>1, <2>1 DEF ClosedOK
<1> HIDE DEF w, o
<1>5. /\ a \in Records /\ a.out = o
      /\ a.functors = c.functors /\ a.state = c.state
      /\ a.closes = c.closes /\ a.downs = c.downs /\ a.removing = c.removing
      /\ a.writing <=> c.writing
      /\ a.shutWr <=> c.shutWr
      /\ a.revived <=> c.revived
  BY <1>1, <1>2 DEF Records
<1> HIDE DEF a, d
<1>6. c.downs = 0 /\ "shutdown" \notin HighWaterCalls => ~c.shutWr
  BY <1>1 DEF OutputOK
<1>7. CASE a.out # <<>>
  <2>1. \A x : Queued(a, x) <=> Queued(c, x)
    BY <1>5 DEF Queued
  <2>2. OutputOK(a) /\ OrderOK(a)
    BY <1>1, <1>5, <1>6, <1>7, <2>1 DEF OutputOK, OrderOK
  <2>3. ClosedOK(a)
    BY <1>4, <1>5 DEF ClosedOK
  <2> QED
    BY <1>1, <1>3, <1>5, <1>7, <2>2, <2>3 DEF Follows, RecordOK, d
<1>8. CASE a.out = <<>>
  <2>1. /\ b \in Records /\ b.out = <<>>
        /\ b.functors = c.functors /\ b.state = c.state
        /\ b.closes = c.closes /\ b.downs = c.downs /\ b.removing = c.removing
        /\ ~b.writing
        /\ b.revived <=> c.revived
    <3>1. a.reading \in BOOLEAN
      BY <1>5 DEF Records
    <3> QED
      BY <1>5, <1>8, <3>1, SetEventsFields, ZenonT(30)
  <2> HIDE DEF b
  <2>2. \A x : Queued(b, x) <=> Queued(c, x)
    BY <2>1 DEF Queued
  <2>3. OutputOK(b) /\ OrderOK(b)
    BY <1>1, <2>1, <2>2 DEF OutputOK, OrderOK
  <2>4. ClosedOK(b)
    BY <1>4, <2>1 DEF ClosedOK
  <2>5. Follows(b, Queue(b, <<"lowwater">>))
    BY <2>1, <2>3, <2>4, QueueFollows DEF RecordOK, Closures
  <2>6. Queue(b, <<"lowwater">>).closes = b.closes /\ Queue(b, <<"lowwater">>).state = b.state
    BY <2>1, QueueFields DEF Closures
  <2>7. d = Queue(b, <<"lowwater">>)
    BY <1>3, <1>8
  <2>8. Follows(c, d) /\ d.closes = c.closes /\ d.state = c.state
    BY <2>1, <2>5, <2>6, <2>7 DEF Follows
  <2> QED
    BY <2>8 DEF d
<1> QED
  BY <1>7, <1>8

\* HandleWrite() goes on with a shutdown or a close that has waited for it.
LEMMA HandleWriteFollows ==
    ASSUME NEW c, RecordOK(c), c.state # "kConnecting", NEW n \in 1..Len(c.out)
    PROVE  Follows(c, HandleWrite(c, n))
<1> DEFINE d == Drain(c, n)
           r == HandleWrite(c, n)
<1>1. r = c \/ (c.writing /\ r \in {d, ShutdownInLoop(d), HandleClose(d)})
  BY DEF HandleWrite
<1>2. CASE r = c
  <2>1. Len(c.functors) \in Nat
    BY DEF RecordOK, Records
  <2> QED
    BY <1>2, <2>1 DEF Follows
<1>3. CASE c.writing /\ r \in {d, ShutdownInLoop(d), HandleClose(d)}
  <2>1. Follows(c, d) /\ d.closes = c.closes
    BY <1>3, DrainFollows
  <2>2. ~d.revived => d.closes = 0
    <3>1. c.closes \in Nat
      BY DEF RecordOK, Records
    <3> QED
      BY <1>3, <2>1, <3>1 DEF Follows, RecordOK, ClosedOK
  <2> HIDE DEF d
  <2>3. Follows(d, ShutdownInLoop(d)) /\ Follows(d, HandleClose(d))
    BY <2>1, <2>2, ShutdownInLoopFollows, HandleCloseFollows DEF Follows
  <2>4. Follows(c, ShutdownInLoop(d)) /\ Follows(c, HandleClose(d))
    BY <2>1, <2>3 DEF Follows
  <2> QED
    BY <1>3, <2>1, <2>4
<1> QED
  BY <1>1, <1>2, <1>3

\* EstablishConnection() of a connection nobody has yet.
LEMMA EstablishFollows ==
    ASSUME NEW c \in Records, c.functors = <<>>, c.closes = 0, c.out = <<>>,
           c.removing = 0, c.downs = 0, ~c.writing, ~c.shutWr
    PROVE  Follows(c, EstablishConnection(c)) /\ EstablishConnection(c).closes = c.closes
<1> DEFINE a == [c EXCEPT !.state = "kConnected"]
           w == c.writing
           t == TRUE
           r == SetEvents(a, t, w)
<1>1. /\ a \in Records /\ a.state = "kConnected" /\ a.functors = c.functors /\ a.out = c.out
      /\ a.closes = c.closes /\ a.downs = c.downs /\ a.removing = c.removing
      /\ a.shutWr <=> c.shutWr
      /\ a.revived <=> c.revived
  BY DEF Records, States
<1> HIDE DEF a
<1>2. /\ r \in Records /\ r.state = "kConnected" /\ r.functors = c.functors /\ r.out = c.out
      /\ r.closes = c.closes /\ r.downs = c.downs /\ r.removing = c.removing
      /\ ~r.writing /\ ~r.shutWr
      /\ r.revived <=> c.revived
  <2>1. w \in BOOLEAN /\ ~w /\ t \in BOOLEAN
    BY DEF Records
  <2> HIDE DEF w, t
  <2>2. /\ r \in Records /\ r.state = a.state /\ r.functors = a.functors /\ r.out = a.out
        /\ r.closes = a.closes /\ r.downs = a.downs /\ r.removing = a.removing
        /\ r.writing <=> w
        /\ r.shutWr <=> a.shutWr
        /\ r.revived <=> a.revived
    BY <1>1, <2>1, SetEventsFields
  <2> HIDE DEF r
  <2>3. ~r.writing
    BY <2>1, <2>2
  <2>4. ~r.shutWr
    BY <1>1, <2>2
  <2>5. r.revived <=> c.revived
    BY <1>1, <2>2
  <2> QED
    BY <1>1, <2>2, <2>3, <2>4, <2>5
<1>3. EstablishConnection(c) = r
  BY DEF EstablishConnection, a
<1> HIDE DEF r
<1>4. ~Queued(r, "establish") /\ ~Queued(r, "destroy")
  BY <1>2 DEF Queued
<1>5. OutputOK(r) /\ OrderOK(r) /\ ClosedOK(r)
  BY <1>2, <1>4 DEF OutputOK, OrderOK, ClosedOK
<1> QED
  BY <1>2, <1>3, <1>5 DEF Follows, RecordOK

\* DestroyConnection() of a connection that has closed.
LEMMA DestroyFollows ==
    ASSUME NEW c, RecordOK(c), c.state # "kConnecting", c.closes # 0
    PROVE  Follows(c, DestroyConnection(c)) /\ DestroyConnection(c).closes = c.closes
<1> DEFINE n == CountTo2(c.downs)
           r == DestroyConnection(c)
<1>1. c \in Records /\ OrderOK(c) /\ ClosedOK(c) /\ Len(c.functors) \in Nat
      /\ c.closes \in Nat /\ c.downs \in 0..2
  BY DEF RecordOK, Records
<1>2. n \in 0..2 /\ n # 0
  BY <1>1 DEF CountTo2
<1>3. r = [c EXCEPT !.state = "kDisconnected", !.reading = FALSE, !.writing = FALSE,
                    !.registered = FALSE, !.downs = n]
  BY DEF DestroyConnection
<1> HIDE DEF n, r
<1>4. /\ r \in Records /\ r.state = "kDisconnected" /\ r.functors = c.functors
      /\ r.closes = c.closes /\ r.downs = n
      /\ ~r.reading /\ ~r.writing /\ ~r.registered
      /\ r.revived <=> c.revived
  BY <1>1, <1>2, <1>3 DEF Records, States
<1>5. \A x : Queued(r, x) <=> Queued(c, x)
  BY <1>4 DEF Queued
<1>6. OutputOK(r) /\ OrderOK(r) /\ ClosedOK(r)
  BY <1>1, <1>2, <1>4, <1>5 DEF OutputOK, OrderOK, ClosedOK
<1>7. Follows(c, r) /\ r.closes = c.closes
  BY <1>1, <1>4, <1>6 DEF Follows, RecordOK
<1> QED
  BY <1>7 DEF r

\* A ForceCloseAfter timer is set, or goes off.
LEMMA TimerFollows ==
    ASSUME NEW c, RecordOK(c), c.state # "kConnecting", NEW t \in BOOLEAN
    PROVE  LET d == [c EXCEPT !.timer = t]
           IN  Follows(c, d) /\ d.closes = c.closes
<1> DEFINE d == [c EXCEPT !.timer = t]
<1>1. c \in Records /\ OutputOK(c) /\ OrderOK(c) /\ ClosedOK(c) /\ Len(c.functors) \in Nat
  BY DEF RecordOK, Records
<1>2. /\ d \in Records /\ d.state = c.state /\ d.functors = c.functors /\ d.out = c.out
      /\ d.closes = c.closes /\ d.downs = c.downs /\ d.removing = c.removing
      /\ d.reading <=> c.reading
      /\ d.writing <=> c.writing
      /\ d.registered <=> c.registered
      /\ d.shutWr <=> c.shutWr
      /\ d.revived <=> c.revived
  BY <1>1 DEF Records
<1> HIDE DEF d
<1>3. \A x : Queued(d, x) <=> Queued(c, x)
  BY <1>2 DEF Queued
<1>4. OutputOK(d) /\ OrderOK(d)
  BY <1>1, <1>2, <1>3 DEF OutputOK, OrderOK
<1>5. ClosedOK(d)
  BY <1>1, <1>2 DEF ClosedOK
<1> QED
  BY <1>1, <1>2, <1>4, <1>5 DEF Follows, RecordOK, d

\* CallPendingFunctors() takes a closure from the queue.
LEMMA TakeFunctor ==
    ASSUME NEW c, RecordOK(c), Len(c.functors) > 0
    PROVE  LET d == [c EXCEPT !.functors = Tail(@)]
               f == Head(c.functors)
           IN  /\ RecordOK(d) /\ d.functors = Tail(c.functors)
               /\ Len(d.functors) = Len(c.functors) - 1
               /\ d.state = c.state /\ d.out = c.out
               /\ d.closes = c.closes /\ d.downs = c.downs /\ d.removing = c.removing
               /\ d.writing <=> c.writing
               /\ d.shutWr <=> c.shutWr
               /\ d.revived <=> c.revived
               /\ f \in Closures /\ Queued(c, f[1])
<1> DEFINE q == Tail(c.functors)
           d == [c EXCEPT !.functors = q]
           f == Head(c.functors)
<1>1. c \in Records /\ OutputOK(c) /\ OrderOK(c) /\ ClosedOK(c) /\ c.functors \in Seq(Closures)
  BY DEF RecordOK, Records
<1>2. /\ q \in Seq(Closures) /\ Len(q) = Len(c.functors) - 1
      /\ \A i \in 1..Len(q) : q[i] = c.functors[i + 1]
      /\ f = c.functors[1] /\ f \in Closures
  BY <1>1, HeadTailProperties, ElementOfSeq
<1>3. Queued(c, f[1])
  <2>1. 1 \in 1..Len(c.functors)
    BY <1>1
  <2> QED
    BY <1>2, <2>1 DEF Queued
<1> HIDE DEF q, f
<1>4. /\ d \in Records /\ d.functors = q /\ d.state = c.state /\ d.out = c.out
      /\ d.closes = c.closes /\ d.downs = c.downs /\ d.removing = c.removing
      /\ d.reading <=> c.reading
      /\ d.writing <=> c.writing
      /\ d.registered <=> c.registered
      /\ d.shutWr <=> c.shutWr
      /\ d.revived <=> c.revived
  BY <1>1, <1>2 DEF Records
<1> HIDE DEF d
<1>5. \A x : Queued(d, x) => Queued(c, x)
  <2> SUFFICES ASSUME NEW x, NEW i \in 1..Len(q), q[i][1] = x PROVE Queued(c, x)
    BY <1>4 DEF Queued
  <2>1. i + 1 \in 1..Len(c.functors) /\ c.functors[i + 1][1] = x
    BY <1>1, <1>2
  <2> QED
    BY <2>1 DEF Queued
<1>6. OutputOK(d) /\ OrderOK(d)
  BY <1>1, <1>4, <1>5 DEF OutputOK, OrderOK
<1>7. ClosedOK(d)
  BY <1>1, <1>4 DEF ClosedOK
<1> QED
  BY <1>2, <1>3, <1>4, <1>6, <1>7 DEF RecordOK, d, q, f

-----------------------------------------------------------------------------
(* The steps.                                                              *)

\* What a step of an established connection has to show.
LEMMA EstablishedKeeps ==
    ASSUME ConnIInv, Follows(conn, conn') \/ UNCHANGED conn, conn'.state # "kConnecting",
           user_pc' \in [Users -> CallsUnderWay],
           loop' \in LoopStates, loop'.phase # "events" => loop'.revents = {},
           loop'.batch <= Len(conn'.functors),
           "IN" \in loop'.revents => "IN" \in loop.revents /\ conn'.closes = conn.closes
    PROVE  ConnIInv'
<1>1. RecordOK(conn')
  BY DEF ConnIInv, Follows
<1>2. conn'.revived <=> conn.revived
  BY DEF Follows
<1>3. ConnectingInv'
  BY DEF ConnectingInv
<1>4. LoopInv'
  <2>1. ~conn'.revived /\ conn'.closes > 0 => "IN" \notin loop'.revents
    BY <1>2 DEF ConnIInv, LoopInv
  <2> QED
    BY <2>1 DEF LoopInv
<1> QED
  BY <1>1, <1>3, <1>4 DEF ConnIInv, RecordOK, OutputOK, OrderOK, ClosedOK, Queued

\* Going round the loop, with the connection left as it is.
LEMMA RoundKeeps ==
    ASSUME ConnIInv,
           \/ \E w \in BOOLEAN : Poll(w)
           \/ HandleError \/ HandleReadData \/ HandleReadError
           \/ EventsDone \/ UserTimer \/ TimersDone \/ FunctorsDone \/ CallbackReturns
    PROVE  ConnIInv'
<1> USE DEF ConnIInv, In
<1>1. UNCHANGED <<conn, user_pc>>
  BY DEF Poll, HandleError, HandleReadData, HandleReadError, EventsDone, UserTimer,
         TimersDone, FunctorsDone, CallbackReturns
<1>2. RecordOK(conn)' /\ user_pc' \in [Users -> CallsUnderWay]
  BY <1>1
<1>3. Len(conn.functors) \in Nat /\ conn.closes \in Nat
  BY DEF RecordOK, Records
<1>4. SUFFICES LoopInv' /\ (conn.state = "kConnecting" => loop'.revents = {} /\ ~loop'.callback)
  BY <1>1, <1>2 DEF ConnectingInv
<1>5. CASE \E w \in BOOLEAN : Poll(w)
  <2>1. PICK w \in BOOLEAN : Poll(w)
    BY <1>5
  <2>2. loop' = [loop EXCEPT !.phase = "events", !.revents = Ready(w)] /\ ~loop.callback
    BY <2>1 DEF Poll
  <2>3. Ready(w) \in SUBSET {"ERR", "IN", "OUT"}
    BY DEF Ready
  <2>4. conn.state = "kConnecting" => Ready(w) = {}
    BY DEF Ready, ConnectingInv
  <2>5. ~conn.revived /\ conn.closes > 0 => "IN" \notin Ready(w)
    BY DEF Ready, RecordOK, ClosedOK
  <2>6. /\ loop' \in LoopStates /\ loop'.phase = "events" /\ loop'.revents = Ready(w)
        /\ loop'.batch = loop.batch
        /\ ~loop'.callback
    BY <2>2, <2>3 DEF LoopInv, LoopStates
  <2>7. conn'.state = conn.state /\ conn'.functors = conn.functors
        /\ conn'.closes = conn.closes /\ (conn'.revived <=> conn.revived)
    BY <1>1
  <2>8. LoopInv'
    <3>1. loop.batch <= Len(conn.functors)
      BY DEF LoopInv
    <3> QED
      BY <2>5, <2>6, <2>7, <3>1, SMTT(20) DEF LoopInv
  <2>9. ~loop'.callback /\ (conn.state = "kConnecting" => loop'.revents = {})
    BY <2>4, <2>6
  <2> QED
    BY <2>8, <2>9
<1>6. CASE HandleError \/ HandleReadData \/ HandleReadError
  <2>1. /\ loop' \in LoopStates /\ loop'.phase = loop.phase /\ loop'.batch = loop.batch
        /\ loop'.revents \subseteq loop.revents /\ loop.revents # {}
    <3>1. loop.revents # {}
      BY <1>6 DEF HandleError, HandleReadData, HandleReadError, CanRead
    <3>2. PICK z \in {"ERR", "IN"}, back \in BOOLEAN :
            loop' = [loop EXCEPT !.revents = loop.revents \ {z}, !.callback = back]
      <4>1. loop \in LoopStates
        BY DEF LoopInv
      <4>2. CASE HandleReadData
        BY <4>2 DEF HandleReadData
      <4>3. CASE HandleError \/ HandleReadError
        <5>1. loop.callback \in BOOLEAN
          BY <4>1 DEF LoopStates
        <5>2. PICK z \in {"ERR", "IN"} : loop' = [loop EXCEPT !.revents = loop.revents \ {z}]
          BY <4>3 DEF HandleError, HandleReadError
        <5>3. [loop EXCEPT !.revents = loop.revents \ {z}]
              = [loop EXCEPT !.revents = loop.revents \ {z}, !.callback = loop.callback]
          BY <4>1 DEF LoopStates
        <5> QED
          BY <5>1, <5>2, <5>3
      <4> QED
        BY <1>6, <4>2, <4>3
    <3>3. loop \in LoopStates
      BY DEF LoopInv
    <3> QED
      BY <3>1, <3>2, <3>3 DEF LoopStates
  <2>2. /\ loop'.phase # "events" => loop'.revents = {}
        /\ loop'.batch <= Len(conn.functors)
        /\ ~conn.revived /\ conn.closes > 0 => "IN" \notin loop'.revents
    BY <2>1 DEF LoopInv
  <2>3. LoopInv'
    BY <1>1, <2>1, <2>2 DEF LoopInv
  <2>4. conn.state # "kConnecting"
    BY <2>1 DEF ConnectingInv
  <2> QED
    BY <2>3, <2>4
<1>7. CASE EventsDone \/ FunctorsDone
  <2>1. /\ loop' \in LoopStates /\ loop'.batch = loop.batch
        /\ loop'.revents = {} /\ ~loop'.callback
    BY <1>7 DEF EventsDone, FunctorsDone, LoopInv, LoopStates
  <2> QED
    BY <1>1, <2>1 DEF LoopInv
<1>8. CASE TimersDone
  <2> DEFINE n == Len(conn.functors)
  <2>1. loop' = [loop EXCEPT !.phase = "functors", !.batch = n] /\ n \in Nat /\ n <= n
        /\ loop.revents = {} /\ ~loop.callback
    BY <1>3, <1>8 DEF TimersDone, LoopInv
  <2> HIDE DEF n
  <2>2. loop' \in LoopStates /\ loop'.batch = n /\ loop'.revents = {} /\ ~loop'.callback
    BY <2>1 DEF LoopInv, LoopStates
  <2> QED
    BY <1>1, <2>1, <2>2 DEF LoopInv, n
<1>9. CASE UserTimer \/ CallbackReturns
  <2>1. /\ loop' \in LoopStates /\ loop'.phase = loop.phase /\ loop'.batch = loop.batch
        /\ loop'.revents = loop.revents
    BY <1>9 DEF UserTimer, CallbackReturns, LoopInv, LoopStates
  <2>2. conn.state # "kConnecting"
    BY <1>9 DEF UserTimer, CallbackReturns, ConnectingInv
  <2> QED
    BY <1>1, <2>1, <2>2 DEF LoopInv
<1> QED
  BY <1>5, <1>6, <1>7, <1>8, <1>9

\* The handlers that may close, and the timer.
LEMMA HandlersKeep ==
    ASSUME ConnIInv, HandleReadEof \/ HandleWriteEvent \/ ForceCloseTimer
    PROVE  ConnIInv'
<1> USE DEF ConnIInv, In
<1>1. conn.state # "kConnecting" /\ user_pc' = user_pc
  BY DEF HandleReadEof, HandleWriteEvent, ForceCloseTimer, CanRead, ConnectingInv
<1>2. Len(conn.functors) \in Nat /\ conn.closes \in Nat
  BY DEF RecordOK, Records
<1>3. /\ Follows(conn, conn')
      /\ loop' \in LoopStates /\ loop'.phase = loop.phase /\ loop'.batch = loop.batch
      /\ loop'.revents \subseteq loop.revents /\ "IN" \notin loop'.revents
  <2>1. CASE HandleReadEof
    <3>1. "IN" \in loop.revents /\ conn' = HandleClose(conn)
          /\ loop' = [loop EXCEPT !.revents = @ \ {"IN"}]
      BY <2>1 DEF HandleReadEof, CanRead
    <3>2. ~conn.revived => conn.closes = 0
      BY <1>2, <3>1 DEF LoopInv
    <3>3. Follows(conn, conn')
      BY <1>1, <3>1, <3>2, HandleCloseFollows
    <3> QED
      BY <3>1, <3>3 DEF LoopInv, LoopStates
  <2>2. CASE HandleWriteEvent
    <3>1. PICK n \in 1..Len(conn.out) : conn' = HandleWrite(conn, n)
      BY <2>2 DEF HandleWriteEvent
    <3>2. loop' = [loop EXCEPT !.revents = {}]
      BY <2>2 DEF HandleWriteEvent
    <3>3. Follows(conn, conn')
      BY <1>1, <3>1, HandleWriteFollows
    <3> QED
      BY <3>2, <3>3 DEF LoopInv, LoopStates
  <2>3. CASE ForceCloseTimer
    <3> DEFINE c == [conn EXCEPT !.timer = FALSE]
    <3>1. conn' = ForceCloseInLoop(c) /\ loop' = loop /\ loop.revents = {}
      BY <2>3 DEF ForceCloseTimer, LoopInv
    <3>2. Follows(conn, c)
      BY <1>1, TimerFollows
    <3> HIDE DEF c
    <3>3. Follows(c, ForceCloseInLoop(c))
      BY <3>2, ForceCloseInLoopFollows DEF Follows
    <3>4. Len(c.functors) \in Nat /\ Len(conn'.functors) \in Nat
      BY <3>1, <3>2, <3>3 DEF Follows, RecordOK, Records
    <3> QED
      BY <1>2, <3>1, <3>2, <3>3, <3>4 DEF Follows, LoopInv
  <2> QED
    BY <2>1, <2>2, <2>3
<1>4. loop'.batch <= Len(conn'.functors)
  <2>1. Len(conn'.functors) \in Nat /\ loop.batch \in Nat
    BY <1>3 DEF Follows, RecordOK, Records, LoopInv, LoopStates
  <2> QED
    BY <1>2, <1>3, <2>1 DEF Follows, LoopInv
<1> QED
  BY <1>1, <1>3, <1>4, EstablishedKeeps DEF LoopInv, Follows

\* CallPendingFunctors(), whatever the closure is.
LEMMA RunFunctorKeeps ==
    ASSUME ConnIInv, RunFunctor
    PROVE  ConnIInv'
<1> USE DEF ConnIInv, In
<1> DEFINE f == Head(conn.functors)
           c == [conn EXCEPT !.functors = Tail(@)]
<1>1. /\ loop.phase = "functors" /\ loop.batch > 0 /\ loop.revents = {} /\ user_pc' = user_pc
      /\ loop' = [loop EXCEPT !.batch = @ - 1,
                              !.callback = f[1] \in {"establish", "lowwater", "destroy"}]
  BY DEF RunFunctor, LoopInv
<1>2. Len(conn.functors) \in Nat /\ Len(conn.functors) > 0 /\ loop.batch \in Nat
  BY <1>1 DEF LoopInv, LoopStates, RecordOK, Records
<1>3. /\ RecordOK(c) /\ c.functors = Tail(conn.functors)
      /\ Len(c.functors) = Len(conn.functors) - 1
      /\ c.state = conn.state /\ c.out = conn.out
      /\ c.closes = conn.closes /\ c.downs = conn.downs /\ c.removing = conn.removing
      /\ c.writing <=> conn.writing
      /\ c.shutWr <=> conn.shutWr
      /\ c.revived <=> conn.revived
      /\ f \in Closures /\ Queued(conn, f[1])
  BY <1>2, TakeFunctor
<1>4. /\ loop' \in LoopStates /\ loop'.phase = loop.phase /\ loop'.revents = {}
      /\ loop'.batch = loop.batch - 1
  <2> DEFINE n == loop.batch - 1
             b == f[1] \in {"establish", "lowwater", "destroy"}
  <2>1. n \in Nat /\ b \in BOOLEAN /\ loop' = [loop EXCEPT !.batch = n, !.callback = b]
    BY <1>1, <1>2
  <2>2. n = loop.batch - 1
    OBVIOUS
  <2> HIDE DEF n, b
  <2> QED
    BY <1>1, <2>1, <2>2 DEF LoopInv, LoopStates
<1>5. \/ f[1] = "establish" /\ conn' = EstablishConnection(c)
      \/ f[1] = "send" /\ \E n \in Taken(c) : \E h \in HighWaterCalls :
                              conn' = SendInLoop(c, f[2], n, h)
      \/ f[1] = "shutdown" /\ conn' = ShutdownInLoop(c)
      \/ f[1] = "forceclose" /\ conn' = ForceCloseInLoop(c)
      \/ f[1] = "lowwater" /\ conn' = c
      \/ f[1] = "destroy" /\ conn' = DestroyConnection(c)
  BY DEF RunFunctor
<1> HIDE DEF c, f
<1>6. Follows(c, conn')
  <2>1. CASE f[1] = "establish" /\ conn' = EstablishConnection(c)
    <3>1. conn.state = "kConnecting"
      BY <1>3, <2>1 DEF RecordOK, OrderOK
    <3>2. conn.functors = <<<<"establish">>>> /\ conn.closes = 0 /\ conn.out = <<>>
          /\ conn.downs = 0 /\ conn.removing = 0 /\ ~conn.writing /\ ~conn.shutWr
      BY <3>1 DEF ConnectingInv, RecordOK, OrderOK
    <3>3. Tail(conn.functors) = <<>>
      BY <3>2
    <3> QED
      BY <1>3, <2>1, <3>2, <3>3, EstablishFollows DEF RecordOK
  <2>2. ASSUME f[1] # "establish" PROVE c.state # "kConnecting"
    <3>1. ASSUME conn.state = "kConnecting" PROVE FALSE
      <4>1. conn.functors = <<<<"establish">>>>
        BY <3>1 DEF ConnectingInv
      <4>2. f = <<"establish">>
        BY <4>1 DEF f
      <4> QED
        BY <2>2, <4>2
    <3> QED
      BY <1>3, <3>1
  <2>3. CASE f[1] = "send" /\ \E n \in Taken(c) : \E h \in HighWaterCalls :
                                 conn' = SendInLoop(c, f[2], n, h)
    <3>1. f[2] \in Msgs
      BY <1>3, <2>3 DEF Closures
    <3> QED
      BY <1>3, <2>2, <2>3, <3>1, SendInLoopFollows
  <2>4. CASE f[1] = "shutdown" /\ conn' = ShutdownInLoop(c)
    BY <1>3, <2>2, <2>4, ShutdownInLoopFollows
  <2>5. CASE f[1] = "forceclose" /\ conn' = ForceCloseInLoop(c)
    BY <1>3, <2>2, <2>5, ForceCloseInLoopFollows
  <2>6. CASE f[1] = "lowwater" /\ conn' = c
    <3>1. Len(c.functors) \in Nat
      BY <1>3 DEF RecordOK, Records
    <3>2. RecordOK(c) /\ c.state # "kConnecting"
      BY <1>3, <2>2, <2>6
    <3>3. Follows(c, c)
      BY <3>1, <3>2 DEF Follows
    <3> QED
      BY <2>6, <3>3
  <2>7. CASE f[1] = "destroy" /\ conn' = DestroyConnection(c)
    <3>1. conn.closes # 0
      BY <1>3, <2>7 DEF RecordOK, OrderOK
    <3> QED
      BY <1>3, <2>2, <2>7, <3>1, DestroyFollows
  <2> QED
    BY <1>5, <2>1, <2>3, <2>4, <2>5, <2>6, <2>7
<1>7. RecordOK(conn') /\ conn'.state # "kConnecting"
  BY <1>6 DEF Follows
<1>8. loop'.batch <= Len(conn'.functors)
  <2>1. Len(conn'.functors) \in Nat
    BY <1>7 DEF RecordOK, Records
  <2> QED
    BY <1>2, <1>3, <1>4, <1>6, <2>1 DEF Follows, LoopInv
<1>9. LoopInv' /\ ConnectingInv'
  BY <1>4, <1>7, <1>8 DEF LoopInv, ConnectingInv
<1>10. RecordOK(conn)'
  BY <1>7 DEF RecordOK, OutputOK, OrderOK, ClosedOK, Queued
<1> QED
  BY <1>1, <1>9, <1>10

\* As long as there is one, NewMsg is a message.
LEMMA NewMsgIsOne == Unsent # {} => NewMsg \in Msgs
<1>1. \A m \in Unsent : m \in Msgs
  BY DEF Unsent
<1> QED
  BY <1>1 DEF NewMsg

\* Calls of user code in the loop thread.
LEMMA LoopCallsKeep ==
    ASSUME ConnIInv, UserCode
    PROVE  ConnIInv'
<1> USE DEF ConnIInv
<1>1. UNCHANGED <<loop, user_pc>> /\ conn.state # "kConnecting"
  BY DEF UserCode, LoopSend, LoopShutdown, LoopForceClose, LoopForceCloseAfter, CanCall,
         ConnectingInv
<1>2. conn.closes \in Nat /\ Len(conn.functors) \in Nat
  BY DEF RecordOK, Records
<1>3. Follows(conn, conn') /\ conn'.closes = conn.closes
  <2>1. CASE LoopSend
    <3>1. PICK n \in Taken(conn), h \in HighWaterCalls : conn' = SendInLoop(conn, NewMsg, n, h)
      BY <2>1 DEF LoopSend
    <3>2. NewMsg \in Msgs
      BY <2>1, NewMsgIsOne DEF LoopSend
    <3> QED
      BY <1>1, <3>1, <3>2, SendInLoopFollows
  <2>2. CASE LoopShutdown
    <3> DEFINE d == [conn EXCEPT !.state = "kDisconnecting"]
    <3>1. conn' = ShutdownInLoop(d) /\ conn.state = "kConnected"
      BY <2>2 DEF LoopShutdown
    <3>2. ~conn.revived => conn.closes = 0
      BY <1>2, <3>1 DEF RecordOK, ClosedOK
    <3>3. Follows(conn, d) /\ d.closes = conn.closes
      BY <1>1, <3>2, StateFollows
    <3> HIDE DEF d
    <3>4. Follows(d, ShutdownInLoop(d)) /\ ShutdownInLoop(d).closes = d.closes
      BY <3>3, ShutdownInLoopFollows DEF Follows
    <3> QED
      BY <3>1, <3>3, <3>4 DEF Follows
  <2>3. CASE LoopForceClose
    <3>1. conn' = Queue([conn EXCEPT !.state = "kDisconnected"], <<"forceclose">>)
          /\ conn.state \in {"kConnected", "kDisconnecting"}
      BY <2>3 DEF LoopForceClose, ForceClosable
    <3>2. ~conn.revived => conn.closes = 0
      BY <1>2, <3>1 DEF RecordOK, ClosedOK
    <3> QED
      BY <1>1, <3>1, <3>2, StateAndQueueFollows
  <2>4. CASE LoopForceCloseAfter
    BY <1>1, <2>4, TimerFollows DEF LoopForceCloseAfter
  <2> QED
    BY <2>1, <2>2, <2>3, <2>4 DEF UserCode
<1>4. loop'.batch <= Len(conn'.functors)
  <2>1. Len(conn'.functors) \in Nat /\ loop.batch \in Nat
    BY <1>3 DEF Follows, RecordOK, Records, LoopInv, LoopStates
  <2> QED
    BY <1>1, <1>2, <1>3, <2>1 DEF Follows, LoopInv
<1> QED
  BY <1>1, <1>3, <1>4, EstablishedKeeps DEF LoopInv, Follows

\* A call of another thread, in its two steps.
LEMMA UserThreadKeeps ==
    ASSUME ConnIInv, NEW u \in Users, UserThread(u)
    PROVE  ConnIInv'
<1> USE DEF ConnIInv
<1>1. loop' = loop
  BY DEF UserThread, UserSend, UserShutdown, UserForceClose, UserQueues
<1>2. conn.state # "kConnecting"
  BY DEF UserThread, UserSend, UserShutdown, UserForceClose, UserQueues, ForceClosable,
         ConnectingInv
<1>3. Len(conn.functors) \in Nat /\ loop.batch \in Nat /\ conn.closes \in Nat
  BY DEF RecordOK, Records, LoopInv, LoopStates
<1>4. CASE UserSend(u) \/ UserShutdown(u) \/ UserForceClose(u)
  <2>1. conn' = conn
    BY <1>4 DEF UserSend, UserShutdown, UserForceClose
  <2>2. user_pc' \in [Users -> CallsUnderWay]
    <3>1. CASE UserSend(u)
      <4>1. user_pc' = [user_pc EXCEPT ![u] = <<"send", NewMsg>>] /\ NewMsg \in Msgs
        BY <3>1, NewMsgIsOne DEF UserSend
      <4> QED
        BY <4>1 DEF CallsUnderWay
    <3>2. CASE UserShutdown(u)
      BY <3>2 DEF UserShutdown, CallsUnderWay
    <3>3. CASE UserForceClose(u)
      BY <3>3 DEF UserForceClose, CallsUnderWay
    <3> QED
      BY <1>4, <3>1, <3>2, <3>3
  <2> QED
    BY <1>1, <1>2, <1>3, <2>1, <2>2, EstablishedKeeps DEF LoopInv
<1>5. CASE UserQueues(u)
  <2> DEFINE f == user_pc[u]
             s == CASE f[1] = "shutdown" -> "kDisconnecting"
                    [] f[1] = "forceclose" -> "kDisconnected"
                    [] OTHER -> conn.state
             r == f[1] = "shutdown" /\ conn.state = "kDisconnected"
             v == conn.revived \/ r
             d == [conn EXCEPT !.state = s, !.revived = v]
  <2>1. conn' = Queue(d, f) /\ f # <<"idle">>
    BY <1>5 DEF UserQueues
  <2>2. user_pc' \in [Users -> CallsUnderWay]
    <3>1. user_pc' = [user_pc EXCEPT ![u] = <<"idle">>] /\ <<"idle">> \in CallsUnderWay
      BY <1>5 DEF UserQueues, CallsUnderWay
    <3> QED
      BY <3>1
  <2>3. f \in Closures /\ f[1] \in {"shutdown", "forceclose", "send"}
    <3>1. f \in CallsUnderWay
      OBVIOUS
    <3> QED
      BY <2>1, <3>1 DEF CallsUnderWay, Closures
  <2>4. conn \in Records /\ OutputOK(conn) /\ OrderOK(conn) /\ ClosedOK(conn)
    BY DEF RecordOK
  <2>5. /\ s \in States /\ s # "kConnecting" /\ v \in BOOLEAN
        /\ ~v => ~conn.revived
        /\ ~v /\ conn.state = "kDisconnected" => s = "kDisconnected"
    BY <1>2, <2>3, <2>4 DEF Records, States
  <2> HIDE DEF s, v, r, f
  <2>6. /\ d \in Records /\ d.state = s /\ d.functors = conn.functors /\ d.out = conn.out
        /\ d.closes = conn.closes /\ d.downs = conn.downs /\ d.removing = conn.removing
        /\ d.reading <=> conn.reading
        /\ d.writing <=> conn.writing
        /\ d.registered <=> conn.registered
        /\ d.shutWr <=> conn.shutWr
        /\ d.revived <=> v
    BY <2>4, <2>5 DEF Records
  <2> HIDE DEF d
  <2>7. \A x : Queued(d, x) <=> Queued(conn, x)
    BY <2>6 DEF Queued
  <2>8. OutputOK(d) /\ OrderOK(d)
    BY <1>2, <2>4, <2>5, <2>6, <2>7 DEF OutputOK, OrderOK
  <2>9. ClosedOK(d)
    BY <2>4, <2>5, <2>6 DEF ClosedOK
  <2>10. Follows(d, Queue(d, f)) /\ Queue(d, f).closes = d.closes
    BY <2>3, <2>5, <2>6, <2>8, <2>9, QueueFollows, QueueFields DEF RecordOK
  <2>11. /\ RecordOK(conn') /\ conn'.state # "kConnecting" /\ conn'.closes = conn.closes
         /\ ~conn'.revived => ~conn.revived
         /\ Len(conn'.functors) >= Len(conn.functors)
    BY <2>1, <2>5, <2>6, <2>10 DEF Follows
  <2>12. loop'.batch <= Len(conn'.functors)
    <3>1. Len(conn'.functors) \in Nat
      BY <2>11 DEF RecordOK, Records
    <3> QED
      BY <1>1, <1>3, <2>11, <3>1 DEF LoopInv
  <2>13. LoopInv' /\ ConnectingInv'
    BY <1>1, <2>11, <2>12 DEF LoopInv, ConnectingInv
  <2>14. RecordOK(conn)'
    BY <2>11 DEF RecordOK, OutputOK, OrderOK, ClosedOK, Queued
  <2> QED
    BY <2>2, <2>13, <2>14
<1> QED
  BY <1>4, <1>5 DEF UserThread

\* The owner's loop, the peer and the end of the object.
LEMMA OutsideKeeps ==
    ASSUME ConnIInv, BaseLoopRemoves \/ Peer \/ Destruct \/ UNCHANGED vars
    PROVE  ConnIInv'
<1> USE DEF ConnIInv
<1>1. loop' = loop /\ user_pc' = user_pc
  BY DEF BaseLoopRemoves, Peer, PeerSends, PeerCloses, PeerResets, Destruct, vars
<1>2. Len(conn.functors) \in Nat /\ loop.batch \in Nat /\ conn.removing \in 0..2
      /\ conn.closes \in Nat
  BY DEF RecordOK, Records, LoopInv, LoopStates
<1>3. conn \in Records /\ OutputOK(conn) /\ OrderOK(conn) /\ ClosedOK(conn)
  BY DEF RecordOK
<1>4. CASE Peer \/ UNCHANGED vars
  <2>1. conn' = conn
    BY <1>4 DEF Peer, PeerSends, PeerCloses, PeerResets, vars
  <2> QED
    BY <1>1, <2>1 DEF RecordOK, OutputOK, OrderOK, ClosedOK, Queued, ConnectingInv, LoopInv
<1>5. CASE BaseLoopRemoves
  <2> DEFINE n == conn.removing - 1
             d == [conn EXCEPT !.removing = n]
  <2>1. conn' = Queue(d, <<"destroy">>) /\ conn.removing > 0
    BY <1>5 DEF BaseLoopRemoves
  <2>2. n \in 0..2 /\ conn.closes > 0 /\ conn.state # "kConnecting"
    BY <1>2, <1>3, <2>1 DEF OrderOK, ConnectingInv
  <2> HIDE DEF n
  <2>3. /\ d \in Records /\ d.state = conn.state /\ d.functors = conn.functors
        /\ d.out = conn.out /\ d.closes = conn.closes /\ d.downs = conn.downs
        /\ d.reading <=> conn.reading
        /\ d.writing <=> conn.writing
        /\ d.registered <=> conn.registered
        /\ d.shutWr <=> conn.shutWr
        /\ d.revived <=> conn.revived
    BY <1>3, <2>2 DEF Records
  <2> HIDE DEF d
  <2>4. \A x : Queued(d, x) <=> Queued(conn, x)
    BY <2>3 DEF Queued
  <2>5. OutputOK(d) /\ OrderOK(d) /\ ClosedOK(d)
    BY <1>2, <1>3, <2>2, <2>3, <2>4 DEF OutputOK, OrderOK, ClosedOK
  <2>6. /\ Follows(d, Queue(d, <<"destroy">>))
        /\ Queue(d, <<"destroy">>).closes = d.closes
    BY <2>2, <2>3, <2>5, QueueFollows, QueueFields DEF RecordOK, Closures
  <2>7. Follows(conn, conn') /\ conn'.closes = conn.closes
    BY <2>1, <2>3, <2>6 DEF Follows
  <2>8. loop'.batch <= Len(conn'.functors)
    <3>1. Len(conn'.functors) \in Nat
      BY <2>7 DEF Follows, RecordOK, Records
    <3> QED
      BY <1>1, <1>2, <2>7, <3>1 DEF Follows, LoopInv
  <2> QED
    BY <1>1, <2>7, <2>8, EstablishedKeeps DEF LoopInv, Follows
<1>6. CASE Destruct
  <2>1. /\ conn' = [conn EXCEPT !.open = FALSE, !.reading = FALSE,
                                !.writing = FALSE, !.registered = FALSE]
        /\ conn.downs > 0
    BY <1>6 DEF Destruct
  <2>2. conn.downs # 0 /\ conn.state # "kConnecting"
    BY <1>3, <2>1 DEF OrderOK, ConnectingInv, Records
  <2>3. /\ conn' \in Records /\ conn'.state = conn.state /\ conn'.functors = conn.functors
        /\ conn'.closes = conn.closes /\ conn'.downs = conn.downs
        /\ conn'.removing = conn.removing
        /\ ~conn'.reading /\ ~conn'.writing /\ ~conn'.registered
        /\ conn'.revived <=> conn.revived
    BY <1>3, <2>1 DEF Records
  <2>4. Queued(conn', "establish") <=> Queued(conn, "establish")
    BY <2>3 DEF Queued
  <2>5. Queued(conn', "destroy") <=> Queued(conn, "destroy")
    BY <2>3 DEF Queued
  <2>6. OutputOK(conn') /\ OrderOK(conn') /\ ClosedOK(conn')
    BY <1>3, <2>2, <2>3, <2>4, <2>5 DEF OutputOK, OrderOK, ClosedOK
  <2>7. Follows(conn, conn')
    BY <1>2, <2>2, <2>3, <2>6 DEF Follows, RecordOK
  <2> QED
    BY <1>1, <2>2, <2>3, <2>7, EstablishedKeeps DEF LoopInv
<1> QED
  BY <1>4, <1>5, <1>6

-----------------------------------------------------------------------------
(* The theorems.                                                           *)

\* The constructor, with EstablishConnection queued.
LEMMA ConnInit == Init => ConnIInv
<1> SUFFICES ASSUME Init PROVE ConnIInv
  OBVIOUS
<1>1. PICK b \in BOOLEAN : conn =
              [ elsewhere |-> b, state |-> "kConnecting", reading |-> FALSE, writing |-> FALSE,
                registered |-> FALSE, open |-> TRUE, shutWr |-> FALSE, out |-> <<>>,
                functors |-> <<<<"establish">>>>, timer |-> FALSE, removing |-> 0,
                revived |-> FALSE, wire |-> <<>>, taken |-> <<>>, closes |-> 0, downs |-> 0 ]
  BY DEF Init
<1>2. <<<<"establish">>>> \in Seq(Closures)
  BY DEF Closures
<1>3. conn \in Records
  BY <1>1, <1>2 DEF Records, States
<1>4. /\ conn.state = "kConnecting" /\ conn.functors = <<<<"establish">>>>
      /\ conn.closes = 0 /\ conn.downs = 0 /\ conn.removing = 0 /\ conn.out = <<>>
      /\ ~conn.reading /\ ~conn.writing /\ ~conn.registered /\ ~conn.shutWr /\ ~conn.timer
  BY <1>1
<1>5. ~Queued(conn, "destroy")
  BY <1>4 DEF Queued
<1>6. RecordOK(conn)
  BY <1>3, <1>4, <1>5 DEF RecordOK, OutputOK, OrderOK, ClosedOK
<1>7. loop \in LoopStates /\ loop.batch = 0 /\ loop.revents = {} /\ ~loop.callback
  BY DEF Init, LoopStates
<1>8. user_pc \in [Users -> CallsUnderWay] /\ \A u \in Users : user_pc[u] = <<"idle">>
  BY DEF Init, CallsUnderWay
<1> QED
  BY <1>4, <1>6, <1>7, <1>8 DEF ConnIInv, ConnectingInv, LoopInv

\* Every step keeps the invariant.
LEMMA ConnNext == ConnIInv /\ [Next]_vars => ConnIInv'
<1> SUFFICES ASSUME ConnIInv, [Next]_vars PROVE ConnIInv'
  OBVIOUS
<1>1. ASSUME NEW w \in BOOLEAN, Poll(w) PROVE ConnIInv'
  BY <1>1, RoundKeeps
<1>2. ASSUME LoopThread PROVE ConnIInv'
  BY <1>2, RoundKeeps, HandlersKeep, RunFunctorKeeps DEF LoopThread
<1>3. ASSUME ForceCloseTimer PROVE ConnIInv'
  BY <1>3, HandlersKeep
<1>4. ASSUME UserTimer PROVE ConnIInv'
  BY <1>4, RoundKeeps
<1>5. ASSUME UserCode PROVE ConnIInv'
  BY <1>5, LoopCallsKeep
<1>6. ASSUME NEW u \in Users, UserThread(u) PROVE ConnIInv'
  BY <1>6, UserThreadKeeps
<1>7. ASSUME BaseLoopRemoves \/ Peer \/ Destruct \/ UNCHANGED vars PROVE ConnIInv'
  BY <1>7, OutsideKeeps
<1> QED
  BY <1>1, <1>2, <1>3, <1>4, <1>5, <1>6, <1>7 DEF Next

\* What the handlers, the closures and the threads keep of a connection
\* (TcpConnection.cpp:31-208).
THEOREM ConnectionInvariant == Spec => []ConnIInv
<1>1. Init => ConnIInv
  BY ConnInit
<1>2. ConnIInv /\ [Next]_vars => ConnIInv'
  BY ConnNext
<1> QED
  BY <1>1, <1>2, PTL DEF Spec

\* EPOLLOUT is watched exactly while there is output, whoever sends, shuts down
\* or closes, and whatever write() takes (TcpConnection.cpp:78-121, 173-196).
THEOREM WriteInterest == Spec => []WriteInterestMatchesOutput
<1>1. ConnIInv => WriteInterestMatchesOutput
  BY DEF ConnIInv, RecordOK, OutputOK, WriteInterestMatchesOutput
<1> QED
  BY <1>1, ConnectionInvariant, PTL

\* SHUT_WR comes behind all output (TcpConnection.cpp:131-136, 185-187) unless
\* the high-water-mark callback shuts the connection down.
THEOREM ShutdownComesLast ==
    ASSUME "shutdown" \notin HighWaterCalls
    PROVE  Spec => []ShutdownAfterDrain
<1>1. ConnIInv => ShutdownAfterDrain
  BY DEF ConnIInv, RecordOK, OutputOK, ShutdownAfterDrain
<1> QED
  BY <1>1, ConnectionInvariant, PTL

\* However read, write, timer and ForceClose() meet, the owner hears of the end
\* once, unless Shutdown() in another thread overwrote a kDisconnected
\* (TcpConnection.cpp:123-171, 199-208; the assert of TcpClient.cpp:85).
THEOREM ClosesOnce == Spec => []CloseOnce
<1>1. ConnIInv => CloseOnce
  <2>1. ConnIInv => conn.closes \in Nat
    BY DEF ConnIInv, RecordOK, Records
  <2> QED
    BY <2>1 DEF ConnIInv, RecordOK, ClosedOK, CloseOnce
<1> QED
  BY <1>1, ConnectionInvariant, PTL

\* And a destroyed connection's channel is never in the epoll set again
\* (TcpConnection.cpp:47-55, Channel.cpp:49-53).
THEOREM DestroyedForGood == Spec => []NotRegisteredAfterDestroy
<1>1. ConnIInv => NotRegisteredAfterDestroy
  <2>1. ConnIInv => conn.closes \in Nat /\ conn.downs \in Nat
    BY DEF ConnIInv, RecordOK, Records
  <2> QED
    BY <2>1 DEF ConnIInv, RecordOK, OrderOK, ClosedOK, NotRegisteredAfterDestroy
<1> QED
  BY <1>1, ConnectionInvariant, PTL
-----------------------------------------------------------------------------
(* The bytes.                                                              *)

\* What is written and what is buffered are the bytes taken.
InOrder(c) == c.wire \o c.out = c.taken

\* A method that neither writes nor buffers.
SameBytes(c, d) == d.wire = c.wire /\ d.out = c.out /\ d.taken = c.taken

\* What has no bytes of its own in a connection's record.
LEMMA QueueKeepsBytes ==
    ASSUME NEW c \in Records, NEW f
    PROVE  SameBytes(c, Queue(c, f))
BY DEF Records, Queue, SameBytes

LEMMA SetEventsKeepsBytes ==
    ASSUME NEW c \in Records, NEW r, NEW w
    PROVE  SameBytes(c, SetEvents(c, r, w))
BY DEF Records, SetEvents, SameBytes

LEMMA HandleCloseKeepsBytes ==
    ASSUME NEW c \in Records
    PROVE  SameBytes(c, HandleClose(c))
<1> DEFINE b == [c EXCEPT !.state = "kDisconnected"]
           d == SetEvents(b, FALSE, c.writing)
           n == CountTo2(d.closes)
           e == [d EXCEPT !.closes = n]
           k == CountTo2(e.removing)
           f == [e EXCEPT !.removing = k]
<1>1. b \in Records /\ SameBytes(c, b) /\ c.writing \in BOOLEAN
  BY DEF Records, States, SameBytes
<1> HIDE DEF b
<1>2. d \in Records /\ SameBytes(b, d)
  BY <1>1, SetEventsFields, SetEventsKeepsBytes
<1>3. HandleClose(c) = IF c.writing THEN d ELSE CloseCallBack(d)
  BY DEF HandleClose, b
<1> HIDE DEF d
<1>4. n \in 0..2
  BY <1>2 DEF CountTo2, Records
<1>5. CloseCallBack(d) = IF e.elsewhere THEN f ELSE Queue(e, <<"destroy">>)
  BY <1>2 DEF CloseCallBack, Records
<1> HIDE DEF n
<1>6. e \in Records /\ SameBytes(d, e)
  BY <1>2, <1>4 DEF Records, SameBytes
<1> HIDE DEF e
<1>7. SameBytes(e, f) /\ SameBytes(e, Queue(e, <<"destroy">>))
  BY <1>6, QueueKeepsBytes DEF Records, SameBytes
<1> QED
  BY <1>1, <1>2, <1>3, <1>5, <1>6, <1>7 DEF SameBytes

LEMMA ShutdownKeepsBytes ==
    ASSUME NEW c \in Records
    PROVE  SameBytes(c, ShutdownInLoop(c))
BY DEF Records, ShutdownInLoop, SameBytes

LEMMA HighWaterKeepsBytes ==
    ASSUME NEW c \in Records, NEW h, NEW k
    PROVE  SameBytes(c, HighWaterCallBack(c, h, k))
<1> DEFINE d == [c EXCEPT !.state = "kDisconnecting"]
           b == [c EXCEPT !.state = "kDisconnected"]
           r == HighWaterCallBack(c, h, k)
<1>1. r = c \/ r = ShutdownInLoop(d) \/ r = Queue(b, <<"forceclose">>)
  BY DEF HighWaterCallBack
<1>2. b \in Records /\ d \in Records /\ SameBytes(c, b) /\ SameBytes(c, d)
  BY DEF Records, States, SameBytes
<1> HIDE DEF b, d, r
<1> QED
  BY <1>1, <1>2, ShutdownKeepsBytes, QueueKeepsBytes DEF SameBytes, r

\* Cut anywhere, the pieces of a sequence are the sequence.
LEMMA CutAndJoin ==
    ASSUME NEW S, NEW s \in Seq(S), NEW k \in 0..Len(s)
    PROVE  SubSeq(s, 1, k) \o SubSeq(s, k + 1, Len(s)) = s
<1> DEFINE a == SubSeq(s, 1, k)
           b == SubSeq(s, k + 1, Len(s))
<1>1. Len(s) \in Nat
  OBVIOUS
<1>2. a \in Seq(S) /\ Len(a) = k /\ \A i \in 1..k : a[i] = s[i]
  BY <1>1
<1>3. b \in Seq(S) /\ Len(b) = Len(s) - k /\ \A i \in 1..(Len(s) - k) : b[i] = s[k + i]
  BY <1>1
<1> HIDE DEF a, b
<1>4. a \o b \in Seq(S) /\ Len(a \o b) = Len(s)
  BY <1>1, <1>2, <1>3, ConcatProperties
<1>5. ASSUME NEW i \in 1..Len(s)
      PROVE  (a \o b)[i] = s[i]
  <2>1. (a \o b)[i] = IF i <= k THEN a[i] ELSE b[i - k]
    BY <1>1, <1>2, <1>3
  <2>2. CASE i <= k
    BY <1>2, <2>1, <2>2
  <2>3. CASE i > k
    <3>1. i - k \in 1..(Len(s) - k) /\ k + (i - k) = i
      BY <1>1, <2>3
    <3> QED
      BY <1>1, <1>3, <2>1, <2>3, <3>1
  <2>4. i <= k \/ i > k
    BY <1>1
  <2> QED
    BY <2>2, <2>3, <2>4
<1>6. a \o b = s
  BY <1>4, <1>5, SeqEqual
<1> QED
  BY <1>6 DEF a, b

\* Joining is associative.
LEMMA JoinBytes ==
    \A s, t, u \in Seq(OutputBytes) : (s \o t) \o u = s \o (t \o u)
BY ConcatAssociative

\* write() takes the first n bytes of output_buf_ (TcpConnection.cpp:173-196).
LEMMA DrainInOrder ==
    ASSUME NEW c \in Records, InOrder(c), NEW n \in 1..Len(c.out)
    PROVE  InOrder(Drain(c, n))
<1> DEFINE w == c.wire \o SubSeq(c.out, 1, n)
           o == SubSeq(c.out, n + 1, Len(c.out))
           a == [c EXCEPT !.wire = w, !.out = o]
           b == SetEvents(a, a.reading, FALSE)
           d == Drain(c, n)
<1>1. d = IF a.out # <<>> THEN a ELSE Queue(b, <<"lowwater">>)
  BY DEF Drain
<1>2. c.wire \in Seq(OutputBytes) /\ c.out \in Seq(OutputBytes)
  BY DEF Records
<1>3. SubSeq(c.out, 1, n) \in Seq(OutputBytes) /\ o \in Seq(OutputBytes) /\ n \in 0..Len(c.out)
  BY <1>2
<1>4. w \in Seq(OutputBytes)
  BY <1>2, <1>3, ConcatProperties
<1>5. w \o o = c.taken
  <2> DEFINE x == SubSeq(c.out, 1, n)
  <2>1. x \o o = c.out
    BY <1>2, <1>3, CutAndJoin
  <2> HIDE DEF x, o
  <2>2. (c.wire \o x) \o o = c.wire \o (x \o o)
    <3>1. c.wire \in Seq(OutputBytes) /\ x \in Seq(OutputBytes) /\ o \in Seq(OutputBytes)
      BY <1>2, <1>3 DEF x
    <3> QED
      BY <3>1, JoinBytes
  <2> QED
    BY <2>1, <2>2 DEF InOrder, x
<1> HIDE DEF w, o, d
<1>6. /\ a \in Records /\ a.reading \in BOOLEAN
      /\ a.wire = w /\ a.out = o /\ a.taken = c.taken
  BY <1>3, <1>4 DEF Records
<1> HIDE DEF a
<1>7. b \in Records /\ SameBytes(a, b)
  BY <1>6, SetEventsFields, SetEventsKeepsBytes, ZenonT(30)
<1> HIDE DEF b
<1>8. SameBytes(b, Queue(b, <<"lowwater">>))
  BY <1>7, QueueKeepsBytes
<1>9. InOrder(d)
  BY <1>1, <1>5, <1>6, <1>7, <1>8 DEF SameBytes, InOrder
<1> QED
  BY <1>9 DEF d

LEMMA HandleWriteInOrder ==
    ASSUME NEW c, RecordOK(c), c.state # "kConnecting", InOrder(c), NEW n \in 1..Len(c.out)
    PROVE  InOrder(HandleWrite(c, n))
<1> DEFINE d == Drain(c, n)
           r == HandleWrite(c, n)
<1>1. r = c \/ (c.writing /\ r \in {d, ShutdownInLoop(d), HandleClose(d)})
  BY DEF HandleWrite
<1>2. InOrder(d)
  BY DrainInOrder DEF RecordOK
<1>3. c.writing => d \in Records
  BY DrainFollows DEF Follows, RecordOK
<1> HIDE DEF d, r
<1>4. InOrder(r)
  BY <1>1, <1>2, <1>3, HandleCloseKeepsBytes, ShutdownKeepsBytes DEF SameBytes, InOrder
<1> QED
  BY <1>4 DEF r

\* A message is written in part or in whole only if nothing is buffered; what is
\* left of it comes behind what is (TcpConnection.cpp:78-121).
LEMMA AcceptInOrder ==
    ASSUME NEW c \in Records, InOrder(c), NEW m \in Msgs, NEW k \in 0..MsgLen,
           k = 0 \/ c.out = <<>>
    PROVE  InOrder(AskForWrite(Accept(c, m, k)))
<1> DEFINE x == SubSeq(Bytes(m), 1, k)
           y == SubSeq(Bytes(m), k + 1, MsgLen)
           w == c.wire \o x
           o == c.out \o y
           t == c.taken \o Bytes(m)
           a == Accept(c, m, k)
           r == AskForWrite(a)
<1>1. MsgLen \in Nat
  BY TcpConnectionAssumption
<1>2. Bytes(m) \in Seq(OutputBytes) /\ Len(Bytes(m)) = MsgLen
  BY <1>1 DEF Bytes, OutputBytes
<1>3. c.wire \in Seq(OutputBytes) /\ c.out \in Seq(OutputBytes) /\ c.taken \in Seq(OutputBytes)
  BY DEF Records
<1> HIDE DEF x, y
<1>4. x \in Seq(OutputBytes) /\ y \in Seq(OutputBytes) /\ x \o y = Bytes(m) /\ (k = 0 => x = <<>>)
  <2> DEFINE b == Bytes(m)
  <2> HIDE DEF b
  <2>1. SubSeq(b, 1, k) \in Seq(OutputBytes) /\ SubSeq(b, k + 1, MsgLen) \in Seq(OutputBytes)
        /\ (k = 0 => SubSeq(b, 1, k) = <<>>)
    BY <1>1, <1>2 DEF b
  <2>2. SubSeq(b, 1, k) \o SubSeq(b, k + 1, MsgLen) = b
    BY <1>1, <1>2, CutAndJoin DEF b
  <2> QED
    BY <2>1, <2>2 DEF b, x, y
<1>5. w \in Seq(OutputBytes) /\ o \in Seq(OutputBytes) /\ t \in Seq(OutputBytes)
  BY <1>2, <1>3, <1>4, ConcatProperties
<1>6. w \o o = t
  <2>1. x \o (c.out \o y) = c.out \o Bytes(m)
    <3>1. CASE c.out = <<>>
      BY <1>2, <1>4, <3>1, ConcatEmptySeq
    <3>2. CASE k = 0
      BY <1>3, <1>4, <1>5, <3>2, ConcatEmptySeq, ZenonT(30)
    <3> QED
      BY <3>1, <3>2
  <2>2. w \o o = c.wire \o (x \o o)
    <3> DEFINE v == c.wire
               u == o
    <3>1. v \in Seq(OutputBytes) /\ u \in Seq(OutputBytes)
      BY <1>3, <1>5
    <3> HIDE DEF u, v
    <3>2. (v \o x) \o u = v \o (x \o u)
      BY <1>4, <3>1, JoinBytes
    <3> QED
      BY <3>2 DEF u, v
  <2>3. t = c.wire \o (c.out \o Bytes(m))
    <3>1. c.taken = c.wire \o c.out
      BY DEF InOrder
    <3>2. (c.wire \o c.out) \o Bytes(m) = c.wire \o (c.out \o Bytes(m))
      BY <1>2, <1>3, JoinBytes
    <3> QED
      BY <3>1, <3>2
  <2> QED
    BY <2>1, <2>2, <2>3
<1>7. a = [c EXCEPT !.wire = w, !.out = o, !.taken = t]
  BY DEF Accept, x, y
<1> HIDE DEF w, o, t, a
<1>8. a \in Records /\ a.reading \in BOOLEAN /\ a.wire = w /\ a.out = o /\ a.taken = t
  BY <1>5, <1>7 DEF Records
<1>9. SameBytes(a, r)
  BY <1>8, SetEventsKeepsBytes DEF AskForWrite, SameBytes
<1>10. InOrder(r)
  BY <1>6, <1>8, <1>9 DEF SameBytes, InOrder
<1> QED
  BY <1>10 DEF a

LEMMA SendInLoopInOrder ==
    ASSUME NEW c, RecordOK(c), c.state # "kConnecting", InOrder(c),
           NEW m \in Msgs, NEW n \in Taken(c), NEW h \in HighWaterCalls
    PROVE  InOrder(SendInLoop(c, m, n, h))
<1> DEFINE r == SendInLoop(c, m, n, h)
           k == IF CanWriteAtOnce(c) THEN n ELSE 0
           b == HighWaterCallBack(c, h, MsgLen - k)
           s == AskForWrite(Accept(c, m, k))
<1>1. c \in Records /\ ClosedOK(c) /\ c.closes \in Nat
  BY DEF RecordOK, Records
<1>2. k \in 0..MsgLen /\ (k = 0 \/ c.out = <<>>)
  BY TcpConnectionAssumption DEF Taken, CanWriteAtOnce
<1> HIDE DEF k
<1>3. InOrder(s)
  BY <1>1, <1>2, AcceptInOrder
<1>4. CASE r = c
  BY <1>4
<1>5. CASE r # c
  <2>1. c.state # "kDisconnected" /\ ~(CanWriteAtOnce(c) /\ WriteFails(c))
    BY <1>5 DEF SendInLoop
  <2>2. CASE k = MsgLen
    <3>1. r = Queue(s, <<"lowwater">>)
      BY <2>1, <2>2 DEF SendInLoop, k
    <3>2. s \in Records
      <4>1. ~c.revived => c.closes = 0
        BY <1>1, <2>1 DEF ClosedOK
      <4>2. c.shutWr /\ c.downs = 0 => "shutdown" \in HighWaterCalls
        BY <2>1 DEF RecordOK, OutputOK, CanWriteAtOnce, WriteFails
      <4> QED
        BY <1>2, <4>1, <4>2, SentFollows DEF Follows, RecordOK
    <3> HIDE DEF s, r
    <3>3. SameBytes(s, Queue(s, <<"lowwater">>))
      BY <3>2, QueueKeepsBytes
    <3>4. InOrder(r)
      BY <1>3, <3>1, <3>3 DEF SameBytes, InOrder
    <3> QED
      BY <3>4 DEF r
  <2>3. CASE k # MsgLen
    <3>1. r = AskForWrite(Accept(b, m, k))
      BY <2>1, <2>3 DEF SendInLoop, k
    <3>2. SameBytes(c, b)
      BY <1>1, HighWaterKeepsBytes
    <3>3. b \in Records
      <4>1. ~c.revived => c.closes = 0
        BY <1>1, <2>1 DEF ClosedOK
      <4> QED
        BY <4>1, HighWaterFollows DEF Follows, RecordOK
    <3> HIDE DEF b, r
    <3>4. InOrder(b) /\ (k = 0 \/ b.out = <<>>)
      BY <1>2, <3>2 DEF SameBytes, InOrder
    <3>5. InOrder(r)
      BY <1>2, <3>1, <3>3, <3>4, AcceptInOrder
    <3> QED
      BY <3>5 DEF r
  <2> QED
    BY <2>2, <2>3
<1> QED
  BY <1>4, <1>5

LEMMA BytesStep ==
    ASSUME ConnIInv, [Next]_vars, BytesInOrder
    PROVE  BytesInOrder'
<1>0. conn \in Records /\ RecordOK(conn) /\ InOrder(conn)
  BY DEF ConnIInv, RecordOK, InOrder, BytesInOrder
<1>a. InOrder(conn') => BytesInOrder'
  BY DEF InOrder, BytesInOrder
<1>b. SameBytes(conn, conn') => BytesInOrder'
  BY <1>0, <1>a DEF InOrder, SameBytes
<1>1. CASE UNCHANGED conn
  BY <1>1, <1>b DEF SameBytes
<1>2. CASE HandleReadEof
  BY <1>0, <1>2, <1>b, HandleCloseKeepsBytes DEF HandleReadEof
<1>3. CASE HandleWriteEvent
  <2>1. PICK n \in 1..Len(conn.out) : conn' = HandleWrite(conn, n)
    BY <1>3 DEF HandleWriteEvent
  <2>2. conn.state # "kConnecting"
    BY <1>3 DEF HandleWriteEvent, ConnIInv, ConnectingInv
  <2> QED
    BY <1>0, <1>a, <2>1, <2>2, HandleWriteInOrder
<1>4. CASE ForceCloseTimer
  <2> DEFINE d == [conn EXCEPT !.timer = FALSE]
  <2>1. conn' = ForceCloseInLoop(d)
    BY <1>4 DEF ForceCloseTimer
  <2>2. d \in Records /\ SameBytes(conn, d)
    BY <1>0 DEF Records, SameBytes
  <2> HIDE DEF d
  <2>3. SameBytes(d, conn')
    BY <2>1, <2>2, HandleCloseKeepsBytes DEF ForceCloseInLoop, SameBytes
  <2> QED
    BY <1>b, <2>2, <2>3 DEF SameBytes
<1>5. CASE RunFunctor
  <2> DEFINE f == Head(conn.functors)
             c == [conn EXCEPT !.functors = Tail(@)]
  <2>1. /\ RecordOK(c) /\ f \in Closures /\ c.state = conn.state /\ Queued(conn, f[1])
    <3>1. Len(conn.functors) > 0
      BY <1>0, <1>5 DEF RunFunctor, ConnIInv, LoopInv, LoopStates, Records
    <3> QED
      BY <1>0, <3>1, TakeFunctor
  <2>2. SameBytes(conn, c)
    BY <1>0 DEF Records, SameBytes
  <2>3. \/ f[1] = "establish" /\ conn' = EstablishConnection(c)
        \/ f[1] = "send" /\ \E n \in Taken(c) : \E h \in HighWaterCalls :
                                conn' = SendInLoop(c, f[2], n, h)
        \/ f[1] = "shutdown" /\ conn' = ShutdownInLoop(c)
        \/ f[1] = "forceclose" /\ conn' = ForceCloseInLoop(c)
        \/ f[1] = "lowwater" /\ conn' = c
        \/ f[1] = "destroy" /\ conn' = DestroyConnection(c)
    BY <1>5 DEF RunFunctor
  <2>4. ASSUME f[1] # "establish" PROVE conn.state # "kConnecting"
    BY <2>4 DEF ConnIInv, ConnectingInv
  <2> HIDE DEF c, f
  <2>5. c \in Records /\ InOrder(c)
    BY <1>0, <2>1, <2>2 DEF RecordOK, InOrder, SameBytes
  <2>6. CASE f[1] = "send" /\ \E n \in Taken(c) : \E h \in HighWaterCalls :
                                 conn' = SendInLoop(c, f[2], n, h)
    <3>1. f[2] \in Msgs
      BY <2>1, <2>6 DEF Closures
    <3> QED
      BY <1>a, <2>1, <2>4, <2>5, <2>6, <3>1, SendInLoopInOrder
  <2>7. CASE conn' \in {ShutdownInLoop(c), ForceCloseInLoop(c), c}
    <3>1. SameBytes(c, conn')
      BY <2>5, <2>7, ShutdownKeepsBytes, HandleCloseKeepsBytes DEF ForceCloseInLoop, SameBytes
    <3> QED
      BY <1>b, <2>2, <3>1 DEF SameBytes
  <2>8. CASE conn' \in {EstablishConnection(c), DestroyConnection(c)}
    <3>1. SameBytes(c, EstablishConnection(c)) /\ SameBytes(c, DestroyConnection(c))
      BY <2>5 DEF EstablishConnection, DestroyConnection, SetEvents, Records, SameBytes
    <3> QED
      BY <1>b, <2>2, <2>8, <3>1 DEF SameBytes
  <2> QED
    BY <2>3, <2>6, <2>7, <2>8
<1>6. CASE UserCode
  <2>1. conn.state # "kConnecting"
    BY <1>6 DEF UserCode, LoopSend, LoopShutdown, LoopForceClose, LoopForceCloseAfter, CanCall,
                ConnIInv, ConnectingInv
  <2>2. CASE LoopSend
    <3>1. PICK n \in Taken(conn), h \in HighWaterCalls : conn' = SendInLoop(conn, NewMsg, n, h)
      BY <2>2 DEF LoopSend
    <3>2. NewMsg \in Msgs
      BY <2>2, NewMsgIsOne DEF LoopSend
    <3> QED
      BY <1>0, <1>a, <2>1, <3>1, <3>2, SendInLoopInOrder
  <2>3. CASE LoopShutdown
    <3> DEFINE d == [conn EXCEPT !.state = "kDisconnecting"]
    <3>1. d \in Records /\ SameBytes(conn, d)
      BY <1>0 DEF Records, States, SameBytes
    <3>2. conn' = ShutdownInLoop(d)
      BY <2>3 DEF LoopShutdown
    <3> HIDE DEF d
    <3> QED
      BY <1>b, <3>1, <3>2, ShutdownKeepsBytes DEF SameBytes
  <2>4. CASE LoopForceClose
    <3> DEFINE d == [conn EXCEPT !.state = "kDisconnected"]
    <3>1. d \in Records /\ SameBytes(conn, d)
      BY <1>0 DEF Records, States, SameBytes
    <3>2. conn' = Queue(d, <<"forceclose">>)
      BY <2>4 DEF LoopForceClose
    <3> HIDE DEF d
    <3> QED
      BY <1>b, <3>1, <3>2, QueueKeepsBytes DEF SameBytes
  <2>5. CASE LoopForceCloseAfter
    BY <1>0, <1>b, <2>5 DEF LoopForceCloseAfter, Records, SameBytes
  <2> QED
    BY <1>6, <2>2, <2>3, <2>4, <2>5 DEF UserCode
<1>7. ASSUME NEW u \in Users, UserQueues(u)
      PROVE  BytesInOrder'
  <2>1. PICK s, v, f : conn' = Queue([conn EXCEPT !.state = s, !.revived = v], f)
    BY <1>7 DEF UserQueues
  <2>2. SameBytes(conn, conn')
    BY <1>0, <2>1 DEF Queue, Records, SameBytes
  <2> QED
    BY <1>b, <2>2
<1>8. CASE BaseLoopRemoves \/ Destruct
  <2>1. SameBytes(conn, conn')
    BY <1>0, <1>8 DEF BaseLoopRemoves, Destruct, Queue, Records, SameBytes
  <2> QED
    BY <1>b, <2>1
<1> QED
  BY <1>1, <1>2, <1>3, <1>4, <1>5, <1>6, <1>7, <1>8
     DEF Next, Poll, LoopThread, HandleError, HandleReadData, HandleReadError, EventsDone,
         UserTimer, TimersDone, FunctorsDone, CallbackReturns, UserThread, UserSend, UserShutdown,
         UserForceClose, Peer, PeerSends, PeerCloses, PeerResets, vars

\* The peer sees the messages whole and in the order they were taken, however
\* write() splits them, whoever sends, and whatever the high-water-mark callback
\* does meanwhile (TcpConnection.cpp:78-121, 173-196).
THEOREM BytesComeInOrder == Spec => []BytesInOrder
<1>1. Init => BytesInOrder
  BY ConcatEmptySeq DEF Init, BytesInOrder
<1>2. ConnIInv /\ BytesInOrder /\ [Next]_vars => BytesInOrder'
  BY BytesStep
<1> QED
  BY <1>1, <1>2, ConnectionInvariant, PTL DEF Spec
=============================================================================
