----------------------------- MODULE TcpServer -----------------------------
(***************************************************************************)
(* windz::TcpServer with its Acceptor and its EventLoopThreadPool: where   *)
(* connections come from, which loop each one gets, and who tears it down. *)
(*                                                                         *)
(* Loop 0 is the server's own loop, 1..thread_num are those of the pool.   *)
(* An I/O loop goes round  events, functors  as in module EventLoop, and   *)
(* leaves at its test of quit_; loop 0 is not quit while it is looked at,  *)
(* and its thread's handlers, functors and the user code that destroys the *)
(* server come in any order.  Of a connection (module TcpConnection) only  *)
(* what its owner has to do with is left: the user sends, and sets timers  *)
(* with ForceCloseAfter().                                                 *)
(***************************************************************************)
EXTENDS Integers, Sequences, FiniteSets

CONSTANTS
    MaxThreads,     \* Start() is given 0..MaxThreads
    MaxClients,     \* clients that connect (a bound)
    FdLimit,        \* descriptors the process may have open
    MaxOthers       \* of these, what other threads may have open (a bound)

ASSUME TcpServerAssumption ==
    /\ {MaxThreads, MaxClients, MaxOthers} \subseteq Nat
    /\ FdLimit \in Nat \ {0}

VARIABLES
    server,     \* the TcpServer and its pool; see Init
    acceptor,   \* the Acceptor, its kernel queue and the process' descriptors
    base_pc,    \* the server's thread: "loop", or in the middle of HandleRead()
                \* ("spare", "reopen") or of ~TcpServer ("destructor")
    conn,       \* the connections by number
    queue,      \* pending_functors_ of each loop: <<what, connection>>
    loop,       \* each I/O loop: phase, batch and quit_
    caught      \* history: connections whose DestroyConnection was queued behind
                \* the functors their loop was calling when it was told to quit

vars == <<server, acceptor, base_pc, conn, queue, loop, caught>>

Conns == 1..MaxClients
Loops == 0..MaxThreads
IoLoops == 1..server.thread_num

\* The constructors of TcpServer and Acceptor.
Init ==
    /\ server = [state |-> "alive", started |-> 0, thread_num |-> 0,
                 next |-> 1, next_connid |-> 1, connections |-> {},
                 touched |-> FALSE]     \* history: its close_cb_ was called after its end
    /\ acceptor = [listening |-> FALSE, backlog |-> 0, arrived |-> 0,
                   idle |-> TRUE,       \* idle_fd_ is open
                   others |-> 0,        \* descriptors of other threads
                   stolen |-> FALSE]    \* history: one taken while idle_fd_ was closed
    /\ base_pc = "loop"
    /\ conn = [c \in Conns |-> [state |-> "none", loop |-> 0, registered |-> FALSE,
                                out |-> FALSE, fin |-> FALSE, reset |-> FALSE,
                                timer |-> FALSE,    \* ForceCloseAfter()'s is set
                                ups |-> 0, downs |-> 0]]
    /\ queue = [l \in Loops |-> <<>>]
    /\ loop = [l \in Loops |-> [phase |-> "none", batch |-> 0, quit |-> FALSE]]
    /\ caught = {}

-----------------------------------------------------------------------------

\* A connection's socket is open as long as somebody holds a pointer to it.
Open(c) ==
    \/ c \in server.connections
    \/ conn[c].registered \/ conn[c].timer
    \/ \E l \in Loops : \E i \in 1..Len(queue[l]) : queue[l][i][2] = c

Free ==
    FdLimit - Cardinality({c \in Conns : Open(c)}) - acceptor.others
            - (IF acceptor.idle THEN 1 ELSE 0)

Put(q, l, what, c) == [q EXCEPT ![l] = Append(@, <<what, c>>)]

EstablishConnection(cs, c) ==
    [cs EXCEPT ![c].state = "kConnected", ![c].registered = TRUE, ![c].ups = @ + 1]

\* A slip: state_ is left as it was.
DestroyConnectionOnly(cs, c) ==
    [cs EXCEPT ![c].registered = FALSE, ![c].downs = @ + 1]

DestroyConnection(cs, c) ==
    [cs EXCEPT ![c].state = "kDisconnected", ![c].registered = FALSE,
               ![c].downs = @ + 1]

\* This step is one of the thread that runs loop l, in the part of it where
\* channels are handled.
Handling(l) ==
    IF l = 0 THEN base_pc = "loop" ELSE loop[l].phase = "events"

-----------------------------------------------------------------------------
(* Start(), in the server's thread.                                        *)

\* The first call starts the pool, if there is to be one, and listens; another one
\* finds started_ above zero and changes nothing else.
Start(n) ==
    /\ base_pc = "loop" /\ server.state = "alive" /\ server.started = 0
    /\ server' = [server EXCEPT !.started = 1, !.thread_num = n]
    /\ acceptor' = [acceptor EXCEPT !.listening = TRUE]
    /\ loop' = [l \in Loops |-> IF l \in 1..n
                    THEN [loop[l] EXCEPT !.phase = "events"] ELSE loop[l]]
    /\ UNCHANGED <<base_pc, conn, queue, caught>>

-----------------------------------------------------------------------------
(* Acceptor::HandleRead(), the listening socket being readable.            *)

Readable == acceptor.listening /\ acceptor.backlog > 0 /\ server.state = "alive"

\* Next(): the pool's loops in turn; loop_ without a pool.
NextLoop == IF server.thread_num = 0 THEN 0 ELSE server.next
AfterNext == IF server.next >= server.thread_num THEN 1 ELSE server.next + 1

\* accept() gives a socket: NewTcpConnection().
NewTcpConnection ==
    /\ base_pc = "loop" /\ Readable
    /\ Free > 0
    /\ acceptor' = [acceptor EXCEPT !.backlog = @ - 1]
    /\ LET c == server.next_connid
           l == NextLoop
           cs == [conn EXCEPT ![c].state = "kConnecting", ![c].loop = l]
       IN  /\ server' = [server EXCEPT !.next_connid = @ + 1, !.next = AfterNext,
                                       !.connections = @ \cup {c}]
           /\ IF l = 0 THEN conn' = EstablishConnection(cs, c) /\ UNCHANGED queue
                       ELSE conn' = cs /\ queue' = Put(queue, l, "establish", c)
    /\ UNCHANGED <<base_pc, loop, caught>>

\* accept() fails with EMFILE: close(idle_fd_) ...  (The failure is logged twice
\* before errno is tested; if that changes errno nothing happens, and the
\* socket, still readable, is handled again.)
AcceptFails ==
    /\ base_pc = "loop" /\ Readable
    /\ Free <= 0
    /\ acceptor' = [acceptor EXCEPT !.idle = FALSE]
    /\ base_pc' = "spare"
    /\ UNCHANGED <<server, conn, queue, loop, caught>>

\* A slip: idle_fd_ is closed and opened again, and that is all.
TurnAwaySkips ==
    /\ base_pc = "spare"
    /\ base_pc' = "reopen"
    /\ UNCHANGED <<server, acceptor, conn, queue, loop, caught>>

\* ... Accept().Close(), which works if that descriptor, or another one, is still
\* free ...
TurnAway ==
    /\ base_pc = "spare"
    /\ acceptor' = [acceptor EXCEPT !.backlog = @ - (IF Free > 0 THEN 1 ELSE 0)]
    /\ base_pc' = "reopen"
    /\ UNCHANGED <<server, conn, queue, loop, caught>>

\* A slip: the accepted socket is closed only behind it.
ReopenFirst ==
    /\ base_pc = "reopen"
    /\ acceptor' = [acceptor EXCEPT !.idle = Free > 1]
    /\ base_pc' = "loop"
    /\ UNCHANGED <<server, conn, queue, loop, caught>>

\* ... and open(), if one is.
Reopen ==
    /\ base_pc = "reopen"
    /\ acceptor' = [acceptor EXCEPT !.idle = Free > 0]
    /\ base_pc' = "loop"
    /\ UNCHANGED <<server, conn, queue, loop, caught>>

-----------------------------------------------------------------------------
(* Connections, in their loops.                                            *)

\* close_cb_ is RemoveTcpConnection, which in loop_'s own thread runs its closure
\* at once.
CloseCallBack(c) ==
    IF server.state = "dead"
    THEN server' = [server EXCEPT !.touched = TRUE] /\ UNCHANGED queue
    ELSE IF conn[c].loop = 0
    THEN /\ server' = [server EXCEPT !.connections = @ \ {c}]
         /\ queue' = Put(queue, 0, "destroy", c)
    ELSE /\ queue' = Put(queue, 0, "remove", c)
         /\ UNCHANGED server

\* HandleClose(): with output pending the rest is left to HandleWrite().
CloseEffect(c) == IF conn[c].out THEN UNCHANGED <<server, queue>> ELSE CloseCallBack(c)

\* read() = 0, in the state that still reads; after a reset behind the error.
HandleReadEof(c) ==
    /\ Handling(conn[c].loop)
    /\ conn[c].registered /\ conn[c].state = "kConnected" /\ conn[c].fin
    /\ conn' = [conn EXCEPT ![c].state = "kDisconnected"]
    /\ CloseEffect(c)
    /\ UNCHANGED <<acceptor, base_pc, loop, caught>>

\* User code sends, and the kernel does not take all of it.
SendPartly(c) ==
    /\ Handling(conn[c].loop)
    /\ conn[c].registered /\ conn[c].state = "kConnected"
    /\ ~conn[c].out /\ ~conn[c].reset
    /\ conn' = [conn EXCEPT ![c].out = TRUE]
    /\ UNCHANGED <<server, acceptor, base_pc, queue, loop, caught>>

\* A slip: a close that waited for the output is forgotten.
HandleWriteForgets(c) ==
    /\ Handling(conn[c].loop)
    /\ conn[c].registered /\ conn[c].out /\ ~conn[c].reset
    /\ conn' = [conn EXCEPT ![c].out = FALSE]
    /\ UNCHANGED <<server, acceptor, base_pc, queue, loop, caught>>

\* The rest of the output goes out, and a close that waited for that goes on; or
\* write() fails, the client having reset the connection, which is only logged.
HandleWrite(c) ==
    /\ Handling(conn[c].loop)
    /\ conn[c].registered /\ conn[c].out
    /\ \/ conn[c].reset /\ UNCHANGED <<server, conn, queue>>
       \/ /\ ~conn[c].reset
          /\ conn' = [conn EXCEPT ![c].out = FALSE]
          /\ IF conn[c].state = "kDisconnected" THEN CloseCallBack(c)
                                                ELSE UNCHANGED <<server, queue>>
    /\ UNCHANGED <<acceptor, base_pc, loop, caught>>

\* User code calls ForceCloseAfter(); the timer keeps the connection alive.
ForceCloseAfter(c) ==
    /\ Handling(conn[c].loop)
    /\ conn[c].registered /\ conn[c].state = "kConnected" /\ ~conn[c].timer
    /\ conn' = [conn EXCEPT ![c].timer = TRUE]
    /\ UNCHANGED <<server, acceptor, base_pc, queue, loop, caught>>

\* Its timer: ForceCloseInLoop(), perhaps long after the connection's end.
ForceCloseTimer(c) ==
    /\ Handling(conn[c].loop) /\ conn[c].timer
    /\ IF conn[c].state = "kConnected"
       THEN /\ conn' = [conn EXCEPT ![c].timer = FALSE, ![c].state = "kDisconnected"]
            /\ CloseEffect(c)
       ELSE conn' = [conn EXCEPT ![c].timer = FALSE] /\ UNCHANGED <<server, queue>>
    /\ UNCHANGED <<acceptor, base_pc, loop, caught>>

-----------------------------------------------------------------------------
(* The loops' functors.                                                    *)

\* RemoveTcpConnection's closure, queued by one of the pool's loops.  It has captured
\* the server: after its end what it does is undefined, here nothing.
RemoveClosure(c) ==
    IF server.state = "alive"
    THEN /\ server' = [server EXCEPT !.connections = @ \ {c}]
         /\ queue' = Put([queue EXCEPT ![0] = Tail(@)], conn[c].loop, "destroy", c)
    ELSE queue' = [queue EXCEPT ![0] = Tail(@)] /\ UNCHANGED server

BaseFunctor ==
    /\ base_pc = "loop" /\ queue[0] # <<>>
    /\ LET f == Head(queue[0])
       IN  \/ /\ f[1] = "remove" /\ RemoveClosure(f[2]) /\ UNCHANGED conn
           \/ /\ f[1] = "destroy"
              /\ conn' = DestroyConnection(conn, f[2])
              /\ queue' = [queue EXCEPT ![0] = Tail(@)]
              /\ UNCHANGED server
    /\ UNCHANGED <<acceptor, base_pc, loop, caught>>

BeginFunctors(l) ==
    /\ loop[l].phase = "events"
    /\ loop' = [loop EXCEPT ![l].phase = "functors", ![l].batch = Len(queue[l])]
    /\ UNCHANGED <<server, acceptor, base_pc, conn, queue, caught>>

RunFunctor(l) ==
    /\ loop[l].phase = "functors" /\ loop[l].batch > 0
    /\ LET f == Head(queue[l])
       IN  conn' = IF f[1] = "establish" THEN EstablishConnection(conn, f[2])
                                         ELSE DestroyConnection(conn, f[2])
    /\ queue' = [queue EXCEPT ![l] = Tail(@)]
    /\ loop' = [loop EXCEPT ![l].batch = @ - 1]
    /\ UNCHANGED <<server, acceptor, base_pc, caught>>

\* while (!quit_); ~EventLoop closes the channels and drops timers and functors.
EndFunctors(l) ==
    /\ loop[l].phase = "functors" /\ loop[l].batch = 0
    /\ IF loop[l].quit
       THEN /\ loop' = [loop EXCEPT ![l].phase = "exited"]
            /\ queue' = [queue EXCEPT ![l] = <<>>]
            /\ conn' = [c \in Conns |-> IF conn[c].loop = l
                            THEN [conn[c] EXCEPT !.registered = FALSE, !.timer = FALSE]
                            ELSE conn[c]]
       ELSE /\ loop' = [loop EXCEPT ![l].phase = "events"]
            /\ UNCHANGED <<queue, conn>>
    /\ UNCHANGED <<server, acceptor, base_pc, caught>>

-----------------------------------------------------------------------------
(* ~TcpServer, in the server's thread.                                     *)

Destructor ==
    /\ base_pc = "loop" /\ server.state = "alive"
    /\ server' = [server EXCEPT !.state = "dying"]
    /\ base_pc' = "destructor"
    /\ UNCHANGED <<acceptor, conn, queue, loop, caught>>

\* A slip: the connections of the pool are left to its end.
DestroyNextSkips ==
    /\ base_pc = "destructor"
    /\ \E c \in server.connections :
          /\ server' = [server EXCEPT !.connections = @ \ {c}]
          /\ conn' = IF conn[c].loop = 0 THEN DestroyConnection(conn, c) ELSE conn
    /\ UNCHANGED <<acceptor, base_pc, queue, loop, caught>>

\* The body, a connection at a time while the pool's loops run: DestroyConnection
\* in its loop, which is at once if that is this thread's.
DestroyNext ==
    /\ base_pc = "destructor"
    /\ \E c \in server.connections :
          /\ server' = [server EXCEPT !.connections = @ \ {c}]
          /\ IF conn[c].loop = 0
             THEN conn' = DestroyConnection(conn, c) /\ UNCHANGED queue
             ELSE queue' = Put(queue, conn[c].loop, "destroy", c) /\ UNCHANGED conn
    /\ UNCHANGED <<acceptor, base_pc, loop, caught>>

\* The DestroyConnection of c is queued behind the functors loop l is calling.
Late(l, c) ==
    /\ loop[l].phase = "functors"
    /\ \E i \in 1..Len(queue[l]) : i > loop[l].batch /\ queue[l][i] = <<"destroy", c>>

\* ~EventLoopThreadPool: each thread in turn is told to quit and joined.
JoinNext ==
    /\ base_pc = "destructor" /\ server.connections = {}
    /\ \E l \in IoLoops :
          /\ \A k \in 1..(l - 1) : loop[k].phase = "exited"
          /\ ~loop[l].quit
          /\ loop' = [loop EXCEPT ![l].quit = TRUE]
          /\ caught' = caught \cup {c \in Conns : Late(l, c)}
    /\ UNCHANGED <<server, acceptor, base_pc, conn, queue>>

\* All joined; ~Acceptor closes its descriptors.
DestructorEnds ==
    /\ base_pc = "destructor" /\ server.connections = {}
    /\ \A l \in IoLoops : loop[l].phase = "exited"
    /\ server' = [server EXCEPT !.state = "dead"]
    /\ acceptor' = [acceptor EXCEPT !.listening = FALSE, !.idle = FALSE]
    /\ base_pc' = "loop"
    /\ UNCHANGED <<conn, queue, loop, caught>>

-----------------------------------------------------------------------------
(* Clients, and the process' other descriptors.                            *)

ClientConnects ==
    /\ acceptor.listening /\ acceptor.arrived < MaxClients
    /\ acceptor' = [acceptor EXCEPT !.backlog = @ + 1, !.arrived = @ + 1]
    /\ UNCHANGED <<server, base_pc, conn, queue, loop, caught>>

ClientCloses(c) ==
    /\ conn[c].state # "none" /\ ~conn[c].fin
    /\ conn' = [conn EXCEPT ![c].fin = TRUE]
    /\ UNCHANGED <<server, acceptor, base_pc, queue, loop, caught>>

\* It is gone altogether: what it is sent from now on is answered by a reset.
ClientResets(c) ==
    /\ conn[c].state # "none" /\ ~conn[c].reset
    /\ conn' = [conn EXCEPT ![c].fin = TRUE, ![c].reset = TRUE]
    /\ UNCHANGED <<server, acceptor, base_pc, queue, loop, caught>>

OtherOpens ==
    /\ Free > 0 /\ acceptor.others < MaxOthers
    /\ acceptor' = [acceptor EXCEPT !.others = @ + 1,
                                    !.stolen = @ \/ base_pc \in {"spare", "reopen"}]
    /\ UNCHANGED <<server, base_pc, conn, queue, loop, caught>>

OtherCloses ==
    /\ acceptor.others > 0
    /\ acceptor' = [acceptor EXCEPT !.others = @ - 1]
    /\ UNCHANGED <<server, base_pc, conn, queue, loop, caught>>

-----------------------------------------------------------------------------

HandleRead == NewTcpConnection \/ AcceptFails
LoopStep(l) == BeginFunctors(l) \/ RunFunctor(l) \/ EndFunctors(l)

Next ==
    \/ \E n \in 0..MaxThreads : Start(n)
    \/ HandleRead \/ TurnAway \/ Reopen
    \/ \E c \in Conns :
          \/ HandleReadEof(c) \/ SendPartly(c) \/ HandleWrite(c)
          \/ ForceCloseAfter(c) \/ ForceCloseTimer(c)
    \/ BaseFunctor
    \/ \E l \in IoLoops : LoopStep(l)
    \/ Destructor \/ DestroyNext \/ JoinNext \/ DestructorEnds
    \/ ClientConnects \/ (\E c \in Conns : ClientCloses(c) \/ ClientResets(c))
    \/ OtherOpens \/ OtherCloses

\* The threads run; an iteration of a loop handles every ready channel (epoll is
\* level-triggered) and calls its functors, so neither starves the other.  A client
\* that has not reset its connection reads what it is sent.
Fairness ==
    /\ SF_vars(HandleRead)
    /\ WF_vars(TurnAway) /\ WF_vars(Reopen)
    /\ SF_vars(BaseFunctor)
    /\ \A c \in Conns : SF_vars(HandleReadEof(c)) /\ SF_vars(HandleWrite(c))
    /\ \A l \in 1..MaxThreads : WF_vars(l \in IoLoops /\ LoopStep(l))
    /\ WF_vars(DestroyNext) /\ WF_vars(JoinNext) /\ WF_vars(DestructorEnds)

Spec == Init /\ [][Next]_vars /\ Fairness

-----------------------------------------------------------------------------
(* Properties.                                                             *)

\* One type per variable (TcpServer.h:38-47, Acceptor.h, EventLoopThreadPool.h).
TypeOK ==
    /\ server.state \in {"alive", "dying", "dead"}
    /\ server.thread_num \in 0..MaxThreads /\ server.next \in 1..(MaxThreads + 1)
    /\ server.connections \subseteq Conns
    /\ acceptor.backlog \in 0..MaxClients /\ acceptor.others \in 0..FdLimit
    /\ base_pc \in {"loop", "spare", "reopen", "destructor"}
    /\ \A l \in Loops : queue[l] \in Seq({"establish", "destroy", "remove"} \X Conns)
    /\ \A l \in Loops : loop[l].phase \in {"none", "events", "functors", "exited"}

\* A connection its client closed is drained, removed from connections_ and
\* destroyed, over two loops (TcpServer.cpp:62-73, TcpConnection.cpp:188-190,
\* 199-208), unless the server ends first - or the client resets it while there is
\* output: that is never written, so that the connection stays
\* (TcpConnection.cpp:192-194, 203-205).
PeerCloseRemoves ==
    \A c \in Conns :
        conn[c].fin ~> \/ conn[c].downs > 0 /\ c \notin server.connections
                       \/ server.state # "alive"
                       \/ conn[c].reset /\ conn[c].out

\* DestroyConnection of c is left to the server's loop.
Pending(c) == \E i \in 1..Len(queue[0]) : queue[0][i] = <<"destroy", c>>

\* The user is told of the end of a connection once, whether its close or the
\* server's destructor comes first, and has been told of every one when the
\* destructor is over (TcpServer.cpp:25-33, 66-73) - except for just those whose
\* closure the destructor queued behind the functors that their loop was calling
\* when it was told to quit: Loop() leaves before it looks at its queue again
\* (EventLoop.cpp:57-66, 153-163).
DownOnce ==
    \A c \in Conns :
        /\ conn[c].downs <= conn[c].ups
        /\ conn[c].ups <= 1
        /\ server.state = "dead" /\ conn[c].ups = 1 =>
              (conn[c].downs = 1 \/ Pending(c) <=> c \notin caught)

\* No connection calls back a server that is gone, although a timer of
\* ForceCloseAfter() may keep one alive that long: the destructor leaves all of them
\* disconnected and unregistered, or in a loop that has ended
\* (TcpServer.cpp:25-33, 62; TcpConnection.cpp:47-55, 146-156).
DeadServerUntouched == ~server.touched

\* The spare descriptor is there again after every HandleRead(), unless another
\* thread opened a file in the moment it was closed (Acceptor.cpp:54-62).
SpareKept ==
    server.state = "alive" /\ base_pc = "loop" => acceptor.idle \/ acceptor.stolen

\* A client in the kernel's queue is served or turned away, also when no
\* descriptor is free, unless another thread took the spare one in the moment it
\* was closed (Acceptor.cpp:43-63).
BacklogServed ==
    acceptor.backlog > 0 ~>
        acceptor.backlog = 0 \/ server.state # "alive" \/ acceptor.stolen
=============================================================================
