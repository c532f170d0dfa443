--------------------------- MODULE TcpConnection ---------------------------
(***************************************************************************)
(* windz::TcpConnection in its I/O loop, with its channel, its socket and  *)
(* the owner (TcpServer or TcpClient) that its close callback tells.       *)
(*                                                                         *)
(* The loop thread goes round  poll, events, timers, functors  as in       *)
(* module EventLoop; that a queued functor gets the loop out of epoll_wait *)
(* is what that module shows, and is taken from it.  Handlers and functors *)
(* run in the loop thread and are atomic, except that a user callback they *)
(* end with is a stretch of steps of its own (loop.callback).  Other       *)
(* threads call Send, Shutdown and ForceClose in two steps: the unlocked   *)
(* read of state_, and what follows it.                                    *)
(*                                                                         *)
(* A handler is an operator from the connection's record to the next one;  *)
(* a call of one handler by another is the composition of their operators. *)
(***************************************************************************)
EXTENDS Integers, Sequences

CONSTANTS
    Users,          \* threads other than the loop thread
    Msgs,           \* messages; each is sent at most once
    MsgLen,         \* bytes in a message
    MaxRx,          \* chunks of received data not yet read (a bound)
    HighWaterMark,  \* high_watermark_, in bytes
    HighWaterCalls, \* what the high-water-mark callback may do: "nothing", or
                    \* shut the connection down or close it by force
    LoopCalls,      \* calls user code makes in the loop thread
    UserCalls       \* calls Users make

Calls == {"send", "shutdown", "forceclose", "forcecloseafter"}

ASSUME TcpConnectionAssumption ==
    /\ MsgLen \in Nat \ {0}
    /\ {MaxRx, HighWaterMark} \subseteq Nat
    /\ HighWaterCalls \subseteq {"nothing", "shutdown", "forceclose"}
    /\ LoopCalls \subseteq Calls
    /\ UserCalls \subseteq Calls \ {"forcecloseafter"}
    /\ "loop" \notin Users

VARIABLES
    conn,      \* the TcpConnection, its channel and its functors; see Init
    peer,      \* what the kernel has received: data, FIN, RST, pending error
    loop,      \* the loop thread: phase, reported events not yet handled,
               \* whether a user callback runs, functors still to run
    user_pc,   \* call each user is in the middle of
    sent,      \* history: messages each thread's Send() accepted
    promised   \* history: messages its caller sent before it called Shutdown()

vars == <<conn, peer, loop, user_pc, sent, promised>>

Bytes(m) == [i \in 1..MsgLen |-> <<m, i>>]

Init ==
    /\ \E b \in BOOLEAN : conn =
              [ elsewhere |-> b,  \* the owner's loop is another thread (TcpServer)
                state |-> "kConnecting",
                reading |-> FALSE, writing |-> FALSE,  \* channel_'s events_
                registered |-> FALSE,             \* channel_ is in the epoll set
                open |-> TRUE,                    \* the object and its fd exist
                shutWr |-> FALSE,                 \* shutdown(SHUT_WR) was done
                out |-> <<>>,                     \* output_buf_
                functors |-> <<<<"establish">>>>, \* this connection's closures
                timer |-> FALSE,                  \* a ForceCloseAfter timer is set
                removing |-> 0,   \* RemoveTcpConnection closures in the owner's loop
                revived |-> FALSE, \* history: a Shutdown() stored over kDisconnected
                wire |-> <<>>,    \* history: bytes written
                taken |-> <<>>,   \* history: bytes of the messages SendInLoop took
                closes |-> 0,     \* history: calls of close_cb_, counted to 2
                downs |-> 0 ]     \* history: disconnect callbacks, counted to 2
    /\ peer = [rx |-> 0, fin |-> FALSE, rst |-> FALSE, err |-> FALSE]
    /\ loop = [phase |-> "poll", revents |-> {}, callback |-> FALSE, batch |-> 0]
    /\ user_pc = [u \in Users |-> <<"idle">>]
    /\ sent = [t \in Users \cup {"loop"} |-> {}]
    /\ promised = {}

-----------------------------------------------------------------------------
(* The connection's methods, as operators on its record.                   *)

CountTo2(n) == IF n < 2 THEN n + 1 ELSE 2

\* QueueInLoop(f)
Queue(c, f) == [c EXCEPT !.functors = Append(@, f)]

\* Channel::Update adds the channel to the epoll set if it is not there.
SetEvents(c, r, w) ==
    [c EXCEPT !.reading = r, !.writing = w, !.registered = TRUE]

\* write() fails: the peer reset the connection, or SHUT_WR was done.
WriteFails(c) == c.shutWr \/ peer.rst

\* close_cb_: RemoveTcpConnection, in the owner's loop.  In the same thread it
\* queues DestroyConnection at once; else see BaseLoopRemoves.
CloseCallBack(c) ==
    LET d == [c EXCEPT !.closes = CountTo2(@)]
    IN  IF c.elsewhere THEN [d EXCEPT !.removing = CountTo2(@)]
                       ELSE Queue(d, <<"destroy">>)

HandleClose(c) ==
    LET d == SetEvents([c EXCEPT !.state = "kDisconnected"], FALSE, c.writing)
    IN  IF c.writing THEN d ELSE CloseCallBack(d)

\* A slip: SHUT_WR without looking at the output still buffered.
ShutdownInLoopEager(c) == [c EXCEPT !.shutWr = TRUE]

ShutdownInLoop(c) == IF c.writing THEN c ELSE [c EXCEPT !.shutWr = TRUE]

\* A slip: the state is not looked at.
ForceCloseInLoopAlways(c) == HandleClose(c)

ForceCloseInLoop(c) ==
    IF c.state \in {"kConnected", "kDisconnecting"} THEN HandleClose(c) ELSE c

\* write() at once if nothing is buffered; n is what the kernel takes.
CanWriteAtOnce(c) == ~c.writing /\ c.out = <<>>

\* k bytes of m have been written, the rest goes to output_buf_.
Accept(c, m, k) ==
    [c EXCEPT !.wire = @ \o SubSeq(Bytes(m), 1, k),
              !.out = @ \o SubSeq(Bytes(m), k + 1, MsgLen),
              !.taken = @ \o Bytes(m)]

AskForWrite(c) == IF c.out = <<>> THEN c ELSE SetEvents(c, c.reading, TRUE)

\* The high-water-mark callback, which RunInLoop calls at once, before the bytes
\* that reach the mark are buffered; it does h.
HighWaterCallBack(c, h, remain) ==
    LET reached == Len(c.out) <= HighWaterMark /\ Len(c.out) + remain > HighWaterMark
    IN  CASE reached /\ h = "shutdown" /\ c.state = "kConnected" ->
                ShutdownInLoop([c EXCEPT !.state = "kDisconnecting"])
          [] reached /\ h = "forceclose" /\ c.state \in {"kConnected", "kDisconnecting"} ->
                Queue([c EXCEPT !.state = "kDisconnected"], <<"forceclose">>)
          [] OTHER -> c

\* A slip: a message is written although older bytes are still buffered.
SendInLoopOvertakes(c, m, n, h) ==
    IF c.state = "kDisconnected" \/ WriteFails(c) THEN c
    ELSE AskForWrite(Accept(c, m, IF CanWriteAtOnce(c) THEN n ELSE MsgLen))

\* A slip: what write() did not take is buffered, but EPOLLOUT not asked for.
SendInLoopNoInterest(c, m, n, h) ==
    IF c.state = "kDisconnected" \/ (CanWriteAtOnce(c) /\ WriteFails(c)) THEN c
    ELSE Accept(c, m, IF CanWriteAtOnce(c) THEN n ELSE 0)

\* A slip: a queued message is taken after the connection went down.
SendInLoopUnchecked(c, m, n, h) ==
    IF CanWriteAtOnce(c) /\ WriteFails(c) THEN c
    ELSE AskForWrite(Accept(c, m, IF CanWriteAtOnce(c) THEN n ELSE 0))

SendInLoop(c, m, n, h) ==
    LET k == IF CanWriteAtOnce(c) THEN n ELSE 0
        Sent(d) == AskForWrite(Accept(d, m, k))
    IN  IF c.state = "kDisconnected" \/ (CanWriteAtOnce(c) /\ WriteFails(c)) THEN c
        ELSE IF k = MsgLen THEN Queue(Sent(c), <<"lowwater">>)
        ELSE Sent(HighWaterCallBack(c, h, MsgLen - k))

\* Bytes write() may take from SendInLoop (0: EWOULDBLOCK).
Taken(c) == IF CanWriteAtOnce(c) /\ ~WriteFails(c) THEN 0..MsgLen ELSE {0}

\* n bytes of output_buf_ have been written; an empty one needs no EPOLLOUT.
Drain(c, n) ==
    LET d == [c EXCEPT !.wire = @ \o SubSeq(c.out, 1, n),
                       !.out = SubSeq(@, n + 1, Len(@))]
    IN  IF d.out # <<>> THEN d
        ELSE Queue(SetEvents(d, d.reading, FALSE), <<"lowwater">>)

HandleWrite(c, n) ==
    LET d == Drain(c, n)
    IN  IF ~c.writing \/ WriteFails(c) THEN c
        ELSE IF d.out = <<>> /\ d.state = "kDisconnecting" THEN ShutdownInLoop(d)
        ELSE IF d.out = <<>> /\ d.state = "kDisconnected" THEN HandleClose(d)
        ELSE d

EstablishConnection(c) ==
    SetEvents([c EXCEPT !.state = "kConnected"], TRUE, c.writing)

\* The disconnect callback, and channel_->Close().
DestroyConnection(c) ==
    [c EXCEPT !.state = "kDisconnected", !.reading = FALSE, !.writing = FALSE,
              !.registered = FALSE, !.downs = CountTo2(@)]

-----------------------------------------------------------------------------
(* The loop thread.                                                        *)

In(p) == loop.phase = p /\ ~loop.callback

\* What epoll reports of the channel; w: the socket takes more output.
Ready(w) ==
    {e \in {"ERR", "IN", "OUT"} :
        /\ conn.registered
        /\ \/ e = "ERR" /\ peer.err
           \/ e = "IN" /\ conn.reading /\ (peer.rx > 0 \/ peer.fin \/ peer.rst)
           \/ e = "OUT" /\ conn.writing /\ (w \/ WriteFails(conn))}

Poll(w) ==
    /\ In("poll") /\ conn.open
    /\ loop' = [loop EXCEPT !.phase = "events", !.revents = Ready(w)]
    /\ UNCHANGED <<conn, peer, user_pc, sent, promised>>

\* Channel::HandleEvents: EPOLLERR, then EPOLLIN, then EPOLLOUT.
HandleError ==
    /\ "ERR" \in loop.revents
    /\ loop' = [loop EXCEPT !.revents = @ \ {"ERR"}]
    /\ peer' = [peer EXCEPT !.err = FALSE]
    /\ UNCHANGED <<conn, user_pc, sent, promised>>

CanRead == "IN" \in loop.revents /\ "ERR" \notin loop.revents

\* read() > 0: message_cb_
HandleReadData ==
    /\ CanRead
    /\ peer.rx > 0
    /\ loop' = [loop EXCEPT !.revents = @ \ {"IN"}, !.callback = TRUE]
    /\ \E left \in 0..(peer.rx - 1) : peer' = [peer EXCEPT !.rx = left]
    /\ UNCHANGED <<conn, user_pc, sent, promised>>

\* read() = 0: HandleClose
HandleReadEof ==
    /\ CanRead
    /\ peer.rx = 0 /\ ~peer.err
    /\ loop' = [loop EXCEPT !.revents = @ \ {"IN"}]
    /\ conn' = HandleClose(conn)
    /\ UNCHANGED <<peer, user_pc, sent, promised>>

\* read() < 0: HandleError, which reads and clears the pending error.
HandleReadError ==
    /\ CanRead
    /\ peer.rx = 0 /\ peer.err
    /\ loop' = [loop EXCEPT !.revents = @ \ {"IN"}]
    /\ peer' = [peer EXCEPT !.err = FALSE]
    /\ UNCHANGED <<conn, user_pc, sent, promised>>

HandleWriteEvent ==
    /\ In("events") /\ loop.revents = {"OUT"}
    /\ loop' = [loop EXCEPT !.revents = {}]
    /\ \E n \in 1..Len(conn.out) : conn' = HandleWrite(conn, n)
    /\ UNCHANGED <<peer, user_pc, sent, promised>>

EventsDone ==
    /\ In("events") /\ loop.revents = {}
    /\ loop' = [loop EXCEPT !.phase = "timers"]
    /\ UNCHANGED <<conn, peer, user_pc, sent, promised>>

\* A ForceCloseAfter timer expires.
ForceCloseTimer ==
    /\ In("timers") /\ conn.timer
    /\ conn' = ForceCloseInLoop([conn EXCEPT !.timer = FALSE])
    /\ UNCHANGED <<peer, loop, user_pc, sent, promised>>

\* A timer of the user's runs code that uses the connection.
UserTimer ==
    /\ In("timers")
    /\ conn.state # "kConnecting" /\ LoopCalls # {}
    /\ loop' = [loop EXCEPT !.callback = TRUE]
    /\ UNCHANGED <<conn, peer, user_pc, sent, promised>>

TimersDone ==
    /\ In("timers")
    /\ loop' = [loop EXCEPT !.phase = "functors", !.batch = Len(conn.functors)]
    /\ UNCHANGED <<conn, peer, user_pc, sent, promised>>

\* CallPendingFunctors calls the next closure; three of them call user code.
RunFunctor ==
    /\ In("functors") /\ loop.batch > 0
    /\ LET f == Head(conn.functors)
           c == [conn EXCEPT !.functors = Tail(@)]
       IN  /\ loop' = [loop EXCEPT !.batch = @ - 1,
                         !.callback = f[1] \in {"establish", "lowwater", "destroy"}]
           /\ \/ f[1] = "establish" /\ conn' = EstablishConnection(c)
              \/ f[1] = "send" /\ \E n \in Taken(c) : \E h \in HighWaterCalls :
                                      conn' = SendInLoop(c, f[2], n, h)
              \/ f[1] = "shutdown" /\ conn' = ShutdownInLoop(c)
              \/ f[1] = "forceclose" /\ conn' = ForceCloseInLoop(c)
              \/ f[1] = "lowwater" /\ conn' = c
              \/ f[1] = "destroy" /\ conn' = DestroyConnection(c)
    /\ UNCHANGED <<peer, user_pc, sent, promised>>

FunctorsDone ==
    /\ In("functors") /\ loop.batch = 0
    /\ loop' = [loop EXCEPT !.phase = "poll"]
    /\ UNCHANGED <<conn, peer, user_pc, sent, promised>>

-----------------------------------------------------------------------------
(* User code in the loop thread.                                           *)

CanCall(call) == loop.callback /\ call \in LoopCalls

\* A message not sent yet; which one makes no difference.
Unsent == Msgs \ UNION {sent[t] : t \in DOMAIN sent}
NewMsg == CHOOSE m \in Msgs : m \in Unsent

\* Send() and Shutdown() run SendInLoop and ShutdownInLoop directly.
LoopSend ==
    /\ CanCall("send") /\ Unsent # {}
    /\ conn.state = "kConnected"
    /\ \E n \in Taken(conn) : \E h \in HighWaterCalls :
          conn' = SendInLoop(conn, NewMsg, n, h)
    /\ sent' = [sent EXCEPT !["loop"] = @ \cup {NewMsg}]
    /\ UNCHANGED <<peer, loop, user_pc, promised>>

LoopShutdown ==
    /\ CanCall("shutdown")
    /\ conn.state = "kConnected"
    /\ conn' = ShutdownInLoop([conn EXCEPT !.state = "kDisconnecting"])
    /\ promised' = sent["loop"]
    /\ UNCHANGED <<peer, loop, user_pc, sent>>

ForceClosable == conn.state \in {"kConnected", "kDisconnecting"}

LoopForceClose ==
    /\ CanCall("forceclose")
    /\ ForceClosable
    /\ conn' = Queue([conn EXCEPT !.state = "kDisconnected"], <<"forceclose">>)
    /\ UNCHANGED <<peer, loop, user_pc, sent, promised>>

LoopForceCloseAfter ==
    /\ CanCall("forcecloseafter")
    /\ ~conn.timer
    /\ conn' = [conn EXCEPT !.timer = TRUE]
    /\ UNCHANGED <<peer, loop, user_pc, sent, promised>>

CallbackReturns ==
    /\ loop.callback
    /\ loop' = [loop EXCEPT !.callback = FALSE]
    /\ UNCHANGED <<conn, peer, user_pc, sent, promised>>

-----------------------------------------------------------------------------
(* Other threads: read state_, then act on what was read.                  *)

Idle(u) == user_pc[u] = <<"idle">> /\ conn.open

UserSend(u) ==
    /\ Idle(u) /\ "send" \in UserCalls /\ Unsent # {}
    /\ conn.state = "kConnected"
    /\ user_pc' = [user_pc EXCEPT ![u] = <<"send", NewMsg>>]
    /\ sent' = [sent EXCEPT ![u] = @ \cup {NewMsg}]
    /\ UNCHANGED <<conn, peer, loop, promised>>

UserShutdown(u) ==
    /\ Idle(u) /\ "shutdown" \in UserCalls
    /\ conn.state = "kConnected"
    /\ user_pc' = [user_pc EXCEPT ![u] = <<"shutdown">>]
    /\ UNCHANGED <<conn, peer, loop, sent, promised>>

UserForceClose(u) ==
    /\ Idle(u) /\ "forceclose" \in UserCalls
    /\ ForceClosable
    /\ user_pc' = [user_pc EXCEPT ![u] = <<"forceclose">>]
    /\ UNCHANGED <<conn, peer, loop, sent, promised>>

\* The store to state_, if any, and QueueInLoop.
UserQueues(u) ==
    /\ user_pc[u] # <<"idle">>
    /\ LET f == user_pc[u]
           s == CASE f[1] = "shutdown" -> "kDisconnecting"
                  [] f[1] = "forceclose" -> "kDisconnected"
                  [] OTHER -> conn.state
           r == f[1] = "shutdown" /\ conn.state = "kDisconnected"
       IN  /\ conn' = Queue([conn EXCEPT !.state = s, !.revived = @ \/ r], f)
           /\ promised' = IF f[1] = "shutdown" THEN sent[u] ELSE promised
    /\ user_pc' = [user_pc EXCEPT ![u] = <<"idle">>]
    /\ UNCHANGED <<peer, loop, sent>>

-----------------------------------------------------------------------------
(* The owner, the peer and the object's end.                               *)

\* The closure of RemoveTcpConnection runs in the owner's loop.
BaseLoopRemoves ==
    /\ conn.removing > 0
    /\ conn' = Queue([conn EXCEPT !.removing = @ - 1], <<"destroy">>)
    /\ UNCHANGED <<peer, loop, user_pc, sent, promised>>

PeerSends ==
    /\ ~peer.fin /\ ~peer.rst
    /\ peer.rx < MaxRx
    /\ peer' = [peer EXCEPT !.rx = @ + 1]
    /\ UNCHANGED <<conn, loop, user_pc, sent, promised>>

PeerCloses ==
    /\ ~peer.fin /\ ~peer.rst
    /\ peer' = [peer EXCEPT !.fin = TRUE]
    /\ UNCHANGED <<conn, loop, user_pc, sent, promised>>

PeerResets ==
    /\ ~peer.rst
    /\ peer' = [peer EXCEPT !.rst = TRUE, !.err = TRUE]
    /\ UNCHANGED <<conn, loop, user_pc, sent, promised>>

\* The last shared_ptr goes: no closure, timer, call or owner holds one.
Destruct ==
    /\ conn.open /\ conn.downs > 0
    /\ In("poll") /\ conn.functors = <<>> /\ ~conn.timer /\ conn.removing = 0
    /\ \A u \in Users : user_pc[u] = <<"idle">>
    /\ conn' = [conn EXCEPT !.open = FALSE, !.reading = FALSE,
                            !.writing = FALSE, !.registered = FALSE]
    /\ UNCHANGED <<peer, loop, user_pc, sent, promised>>

-----------------------------------------------------------------------------

LoopThread ==
    \/ HandleError \/ HandleReadData \/ HandleReadEof \/ HandleReadError
    \/ HandleWriteEvent \/ EventsDone \/ TimersDone \/ RunFunctor
    \/ FunctorsDone \/ CallbackReturns

UserCode ==
    \/ LoopSend
    \/ LoopShutdown \/ LoopForceClose \/ LoopForceCloseAfter

Peer == PeerSends \/ PeerCloses \/ PeerResets

UserThread(u) ==
    \/ UserSend(u)
    \/ UserShutdown(u)
    \/ UserForceClose(u)
    \/ UserQueues(u)

Next ==
    \/ \E w \in BOOLEAN : Poll(w)
    \/ LoopThread
    \/ ForceCloseTimer
    \/ UserTimer
    \/ UserCode
    \/ \E u \in Users : UserThread(u)
    \/ BaseLoopRemoves
    \/ Peer
    \/ Destruct

Spec == Init /\ [][Next]_vars

-----------------------------------------------------------------------------
(* Properties.                                                             *)

\* One type per variable; a batch is never longer than the functors queued.
TypeOK ==
    /\ conn.state \in {"kConnecting", "kConnected", "kDisconnecting", "kDisconnected"}
    /\ \A b \in {"elsewhere", "reading", "writing", "registered", "open", "shutWr",
              "timer", "revived"} :
          conn[b] \in BOOLEAN
    /\ conn.out \in Seq(Msgs \X (1..MsgLen))
    /\ conn.wire \in Seq(Msgs \X (1..MsgLen))
    /\ conn.taken \in Seq(Msgs \X (1..MsgLen))
    /\ \A n \in {"closes", "downs", "removing"} : conn[n] \in 0..2
    /\ peer.rx \in 0..MaxRx
    /\ loop.phase \in {"poll", "events", "timers", "functors"}
    /\ loop.revents \subseteq {"ERR", "IN", "OUT"}
    /\ loop.batch \in 0..Len(conn.functors)
    /\ promised \subseteq Msgs

\* The peer sees the messages in the order SendInLoop took them, each whole:
\* what was written and what is buffered are their bytes, however the writes
\* were split (TcpConnection.cpp:78-121, 173-196).
BytesInOrder == conn.wire \o conn.out = conn.taken

\* EPOLLOUT is asked for exactly while output is buffered: no output is left
\* behind, no busy loop on a writable socket (TcpConnection.cpp:116-119,
\* 178-180).
WriteInterestMatchesOutput ==
    conn.downs = 0 => (conn.writing <=> conn.out # <<>>)

\* SHUT_WR comes only after all buffered output (TcpConnection.cpp:131-136,
\* 185-187), and nothing is buffered after it while the connection is up.
ShutdownAfterDrain ==
    conn.shutWr /\ conn.downs = 0 => conn.out = <<>>

\* Graceful close (README.md:22): when SHUT_WR is done, every message its
\* caller had sent before it called Shutdown() has been written
\* (TcpConnection.cpp:123-136, 185-187), unless the peer closed or reset it.
GracefulShutdown ==
    conn.shutWr /\ ~peer.rst /\ ~peer.fin =>
        \A m \in promised : \A i \in 1..MsgLen :
            \E j \in 1..Len(conn.wire) : conn.wire[j] = <<m, i>>

\* close_cb_ is called at most once: TcpClient.cpp:85 asserts that the closing
\* connection is the one it still owns.  Shutdown() in another thread tests and
\* stores state_ in two steps (TcpConnection.cpp:124-125); only if its store
\* overwrites the kDisconnected of a close may the connection close again.
CloseOnce == ~conn.revived => conn.closes <= 1

\* Once destroyed, the channel is out of the epoll set for good, whatever
\* closures, timers or threads still do with the connection
\* (TcpConnection.cpp:47-55, Channel.cpp:49-53); under the same condition.
NotRegisteredAfterDestroy ==
    conn.downs > 0 /\ ~conn.revived => ~conn.registered
=============================================================================
