-------------------------- MODULE TcpServerProofs --------------------------
(***************************************************************************)
(* Theorems about TcpServer, for any number of loops and clients and any   *)
(* limit on descriptors: the acceptor's spare descriptor, what the user is *)
(* told of a connection, and that no connection calls back a server that   *)
(* is gone.                                                                *)
(***************************************************************************)
EXTENDS TcpServer, FiniteSetTheorems, SequenceTheorems, TLAPS

Servers ==
    [state : {"alive", "dying", "dead"}, started : Nat, thread_num : 0..MaxThreads,
     next : Nat, next_connid : Nat, connections : SUBSET Nat, touched : BOOLEAN]

Acceptors ==
    [listening : BOOLEAN, backlog : Int, arrived : Nat, idle : BOOLEAN, others : Int,
     stolen : BOOLEAN]

Connections ==
    [state : {"none", "kConnecting", "kConnected", "kDisconnected"}, loop : Nat,
     registered : BOOLEAN, out : BOOLEAN, fin : BOOLEAN, reset : BOOLEAN,
     timer : BOOLEAN, ups : Nat, downs : Nat]

LoopStates ==
    [phase : {"none", "events", "functors", "exited"}, batch : Nat, quit : BOOLEAN]

Functors == {"establish", "destroy", "remove"} \X Nat

RecordsOK ==
    /\ server \in Servers
    /\ acceptor \in Acceptors
    /\ conn \in [Conns -> Connections]
    /\ base_pc \in {"loop", "spare", "reopen", "destructor"}
    /\ queue \in [Loops -> Seq(Functors)]
    /\ loop \in [Loops -> LoopStates]

\* What a loop is about to call is in its queue.
BatchInv ==
    \A l \in Loops \ {0} : loop[l].phase = "functors" => loop[l].batch <= Len(queue[l])

InQueue(q, c) == \E l \in Loops : \E i \in 1..Len(q[l]) : q[l][i][2] = c

\* A channel or a timer holds a pointer to the connection.
Held(r) == r.registered \/ r.timer

OpenConns == {c \in Conns : Open(c)}

\* There are never more descriptors than the process may have, and the accepted
\* socket finds the one idle_fd_ has left, unless another thread took it.
SpareInv ==
    /\ Free >= 0
    /\ base_pc \in {"spare", "reopen"} =>
          server.state = "alive" /\ (Free > 0 \/ acceptor.stolen)

ServerIInv == RecordsOK /\ BatchInv /\ SpareInv /\ SpareKept

-----------------------------------------------------------------------------
(* Queues and descriptors.                                                 *)

\* The queues after QueueInLoop, and after a functor is taken from one.
LEMMA QueuePut ==
    ASSUME NEW q \in [Loops -> Seq(Functors)], NEW l,
           NEW what \in {"establish", "destroy", "remove"}, NEW c \in Nat
    PROVE  /\ Put(q, l, what, c) \in [Loops -> Seq(Functors)]
           /\ \A d : InQueue(Put(q, l, what, c), d) => InQueue(q, d) \/ d = c
           /\ \A m \in Loops : Len(Put(q, l, what, c)[m]) >= Len(q[m])
<1> DEFINE f == <<what, c>>
           p == Put(q, l, what, c)
<1>1. f \in Functors /\ f[2] = c
  BY DEF Functors
<1>2. /\ p \in [Loops -> Seq(Functors)]
      /\ \A m \in Loops : p[m] = IF m = l THEN Append(q[m], f) ELSE q[m]
  <2> HIDE DEF f
  <2>1. p = [q EXCEPT ![l] = Append(@, f)]
    BY DEF Put, f
  <2>2. \A m \in Loops : Append(q[m], f) \in Seq(Functors)
    BY <1>1, AppendProperties
  <2> HIDE DEF p
  <2> QED
    BY <2>1, <2>2
<1> HIDE DEF f, p
<1>3. ASSUME NEW d, InQueue(p, d) PROVE InQueue(q, d) \/ d = c
  <2>1. PICK m \in Loops : \E i \in 1..Len(p[m]) : p[m][i][2] = d
    BY <1>3 DEF InQueue
  <2>2. CASE m # l
    BY <1>2, <2>1, <2>2 DEF InQueue
  <2>3. CASE m = l
    <3>1. PICK i \in 1..Len(p[m]) : p[m][i][2] = d
      BY <2>1
    <3>2. q[m] \in Seq(Functors) /\ p[m] = Append(q[m], f)
      BY <1>2, <2>3
    <3>3. (i \in 1..Len(q[m]) /\ p[m][i] = q[m][i]) \/ p[m][i] = f
      BY <1>1, <3>1, <3>2, AppendProperties
    <3> QED
      BY <1>1, <3>1, <3>3 DEF InQueue
  <2> QED
    BY <2>2, <2>3
<1>4. \A m \in Loops : Len(p[m]) >= Len(q[m])
  BY <1>1, <1>2, AppendProperties
<1> QED
  BY <1>2, <1>3, <1>4 DEF p

\* A functor that is called leaves its queue.
LEMMA QueueTaken ==
    ASSUME NEW q \in [Loops -> Seq(Functors)], NEW l \in Loops, q[l] # <<>>
    PROVE  /\ [q EXCEPT ![l] = Tail(@)] \in [Loops -> Seq(Functors)]
           /\ Len(q[l]) > 0 /\ Head(q[l]) = q[l][1] /\ Head(q[l]) \in Functors
           /\ InQueue(q, Head(q[l])[2])
           /\ \A d : InQueue([q EXCEPT ![l] = Tail(@)], d) => InQueue(q, d)
<1> DEFINE p == [q EXCEPT ![l] = Tail(@)]
<1>1. /\ Len(q[l]) > 0 /\ Head(q[l]) = q[l][1] /\ Head(q[l]) \in Functors
      /\ Tail(q[l]) \in Seq(Functors) /\ Len(Tail(q[l])) = Len(q[l]) - 1
      /\ \A i \in 1..Len(Tail(q[l])) : Tail(q[l])[i] = q[l][i + 1]
  BY HeadTailProperties, ElementOfSeq
<1>2. p \in [Loops -> Seq(Functors)] /\ \A m \in Loops : p[m] = IF m = l THEN Tail(q[m]) ELSE q[m]
  BY <1>1
<1>3. InQueue(q, Head(q[l])[2])
  BY <1>1 DEF InQueue
<1> HIDE DEF p
<1>4. ASSUME NEW d, InQueue(p, d) PROVE InQueue(q, d)
  <2>1. PICK m \in Loops : \E i \in 1..Len(p[m]) : p[m][i][2] = d
    BY <1>4 DEF InQueue
  <2>2. CASE m # l
    BY <1>2, <2>1, <2>2 DEF InQueue
  <2>3. CASE m = l
    <3>1. PICK i \in 1..Len(Tail(q[l])) : Tail(q[l])[i][2] = d
      BY <1>2, <2>1, <2>3
    <3>2. i + 1 \in 1..Len(q[l]) /\ q[l][i + 1][2] = d
      BY <1>1, <3>1
    <3> QED
      BY <3>2 DEF InQueue
  <2> QED
    BY <2>2, <2>3
<1> QED
  BY <1>1, <1>2, <1>3, <1>4 DEF p

\* Open connections can be counted, before and after a step.
LEMMA OpenCounted ==
    /\ IsFiniteSet(OpenConns) /\ Cardinality(OpenConns) \in Nat
    /\ IsFiniteSet(OpenConns') /\ Cardinality(OpenConns') \in Nat
<1>1. MaxClients \in Nat
  BY TcpServerAssumption
<1>2. IsFiniteSet(Conns)
  BY <1>1, FS_Interval DEF Conns
<1>3. OpenConns \in SUBSET Conns /\ OpenConns' \in SUBSET Conns
  BY DEF OpenConns
<1>4. IsFiniteSet(OpenConns) /\ IsFiniteSet(OpenConns')
  BY <1>2, <1>3, FS_Subset
<1> QED
  BY <1>4, FS_CardinalityType

\* Who keeps a connection open, before and after a step ...
LEMMA OpenIs ==
    /\ \A c : Open(c) <=> c \in server.connections \/ Held(conn[c]) \/ InQueue(queue, c)
    /\ \A c : Open(c)' <=> c \in server'.connections \/ Held(conn'[c]) \/ InQueue(queue', c)
BY DEF Open, InQueue, Held

\* ... and how many descriptors that leaves.
LEMMA FreeIs ==
    /\ Free = FdLimit - Cardinality(OpenConns) - acceptor.others
                - (IF acceptor.idle THEN 1 ELSE 0)
    /\ Free' = FdLimit - Cardinality(OpenConns') - acceptor'.others
                - (IF acceptor'.idle THEN 1 ELSE 0)
BY DEF Free, OpenConns

\* Descriptors are only got back when no connection is opened.
LEMMA FreeGrows ==
    ASSUME acceptor \in Acceptors, acceptor' \in Acceptors,
           acceptor'.idle = acceptor.idle, acceptor'.others = acceptor.others,
           \A c \in Conns : Open(c)' => Open(c)
    PROVE  Free \in Int /\ Free' \in Int /\ Free' >= Free
<1>1. OpenConns' \in SUBSET OpenConns
  BY DEF OpenConns
<1>2. Cardinality(OpenConns') <= Cardinality(OpenConns)
  BY <1>1, OpenCounted, FS_Subset
<1>3. FdLimit \in Int /\ acceptor.others \in Int /\ acceptor.idle \in BOOLEAN
  BY TcpServerAssumption DEF Acceptors
<1> QED
  BY <1>2, <1>3, OpenCounted, FreeIs

\* One connection more is one descriptor less.
LEMMA FreeButOne ==
    ASSUME acceptor \in Acceptors, acceptor' \in Acceptors,
           acceptor'.idle = acceptor.idle, acceptor'.others = acceptor.others,
           NEW x, \A c \in Conns : Open(c)' => Open(c) \/ c = x
    PROVE  Free \in Int /\ Free' \in Int /\ Free' >= Free - 1
<1>1. OpenConns' \in SUBSET (OpenConns \cup {x})
  BY DEF OpenConns
<1>2. IsFiniteSet(OpenConns \cup {x}) /\ Cardinality(OpenConns \cup {x}) <= Cardinality(OpenConns) + 1
      /\ Cardinality(OpenConns \cup {x}) \in Nat
  <2>1. IsFiniteSet(OpenConns) /\ Cardinality(OpenConns) \in Nat
    BY OpenCounted
  <2>2. /\ IsFiniteSet(OpenConns \cup {x})
        /\ Cardinality(OpenConns \cup {x})
             = IF x \in OpenConns THEN Cardinality(OpenConns) ELSE Cardinality(OpenConns) + 1
    BY <2>1, FS_AddElement
  <2> QED
    BY <2>1, <2>2
<1>3. Cardinality(OpenConns') <= Cardinality(OpenConns \cup {x})
  BY <1>1, <1>2, FS_Subset
<1>4. FdLimit \in Int /\ acceptor.others \in Int /\ acceptor.idle \in BOOLEAN
  BY TcpServerAssumption DEF Acceptors
<1> QED
  BY <1>2, <1>3, <1>4, OpenCounted, FreeIs

\* It is an integer.
LEMMA FreeType ==
    ASSUME acceptor \in Acceptors
    PROVE  Free \in Int
<1>1. FdLimit \in Int /\ acceptor.others \in Int /\ acceptor.idle \in BOOLEAN
  BY TcpServerAssumption DEF Acceptors
<1> QED
  BY <1>1, OpenCounted, FreeIs

\* A step that neither touches the acceptor nor opens a connection.
LEMMA SpareUntouched ==
    ASSUME ServerIInv, acceptor' = acceptor, base_pc' = base_pc,
           server'.state = server.state, \A c \in Conns : Open(c)' => Open(c)
    PROVE  SpareInv' /\ SpareKept'
<1>1. Free \in Int /\ Free' \in Int /\ Free' >= Free
  <2>1. acceptor \in Acceptors /\ acceptor' \in Acceptors
    BY DEF ServerIInv, RecordsOK
  <2> QED
    BY <2>1, FreeGrows
<1>2. Free' >= 0 /\ (Free > 0 => Free' > 0)
  BY <1>1 DEF ServerIInv, SpareInv
<1> QED
  BY <1>2 DEF ServerIInv, SpareInv, SpareKept

\* A step that leaves the I/O loops alone and only adds functors.
LEMMA BatchUntouched ==
    ASSUME ServerIInv, loop' = loop, queue' \in [Loops -> Seq(Functors)],
           \A m \in Loops \ {0} : Len(queue'[m]) >= Len(queue[m])
    PROVE  BatchInv'
<1> SUFFICES ASSUME NEW l \in Loops \ {0}, loop[l].phase = "functors"
             PROVE  loop[l].batch <= Len(queue'[l])
  BY DEF BatchInv
<1>1. queue[l] \in Seq(Functors) /\ queue'[l] \in Seq(Functors)
  BY DEF ServerIInv, RecordsOK
<1>2. loop[l].batch \in Nat
  <2>1. loop[l] \in LoopStates
    BY DEF ServerIInv, RecordsOK
  <2> QED
    BY <2>1 DEF LoopStates
<1>3. Len(queue[l]) \in Nat /\ Len(queue'[l]) \in Nat /\ Len(queue'[l]) >= Len(queue[l])
  BY <1>1
<1> QED
  BY <1>2, <1>3 DEF ServerIInv, BatchInv

-----------------------------------------------------------------------------
(* The steps of connections and loops.                                     *)

\* close_cb_ opens nothing.
LEMMA CloseCallBackEffect ==
    ASSUME RecordsOK, NEW c \in Conns, Held(conn[c]), CloseCallBack(c)
    PROVE  /\ server' \in Servers /\ server'.state = server.state
           /\ server'.connections \subseteq server.connections
           /\ queue' \in [Loops -> Seq(Functors)]
           /\ \A d : InQueue(queue', d) => InQueue(queue, d) \/ Open(d)
           /\ \A m \in Loops : Len(queue'[m]) >= Len(queue[m])
<1>1. c \in Nat /\ Open(c)
  BY OpenIs, TcpServerAssumption DEF Conns
<1>2. server \in Servers /\ queue \in [Loops -> Seq(Functors)]
      /\ \A m \in Loops : Len(queue[m]) \in Nat
  BY DEF RecordsOK
<1>3. CASE server.state = "dead"
  <2>1. server' = [server EXCEPT !.touched = TRUE] /\ queue' = queue
    BY <1>3 DEF CloseCallBack
  <2>2. /\ server' \in Servers /\ server'.state = server.state
        /\ server'.connections \subseteq server.connections
    BY <1>2, <2>1 DEF Servers
  <2> QED
    BY <1>2, <2>1, <2>2
<1>4. CASE server.state # "dead" /\ conn[c].loop = 0
  <2>1. server' = [server EXCEPT !.connections = @ \ {c}] /\ queue' = Put(queue, 0, "destroy", c)
    BY <1>4 DEF CloseCallBack
  <2>2. /\ server' \in Servers /\ server'.state = server.state
        /\ server'.connections \subseteq server.connections
    BY <1>2, <2>1 DEF Servers
  <2> QED
    BY <1>1, <1>2, <2>1, <2>2, QueuePut
<1>5. CASE server.state # "dead" /\ conn[c].loop # 0
  <2>1. queue' = Put(queue, 0, "remove", c) /\ server' = server
    BY <1>5 DEF CloseCallBack
  <2> QED
    BY <1>1, <1>2, <2>1, QueuePut
<1> QED
  BY <1>3, <1>4, <1>5

\* What a connection's loop and timer do with it, and its client.
ConnectionStep(c) ==
    \/ HandleReadEof(c) \/ SendPartly(c) \/ HandleWrite(c)
    \/ ForceCloseAfter(c) \/ ForceCloseTimer(c)
    \/ ClientCloses(c) \/ ClientResets(c)

\* It changes that connection only, and what is called back is close_cb_.
LEMMA ConnectionStepIs ==
    ASSUME ServerIInv, NEW c \in Conns, ConnectionStep(c)
    PROVE  /\ UNCHANGED <<acceptor, base_pc, loop, caught>>
           /\ conn' \in [Conns -> Connections]
           /\ \A d \in Conns : d # c => conn'[d] = conn[d]
           /\ conn'[c].loop = conn[c].loop /\ conn'[c].registered = conn[c].registered
           /\ conn'[c].ups = conn[c].ups /\ conn'[c].downs = conn[c].downs
           /\ Held(conn'[c]) => Held(conn[c])
           /\ conn'[c].state = conn[c].state
              \/ (conn[c].state = "kConnected" /\ conn'[c].state = "kDisconnected")
           /\ conn[c].state = "kDisconnected" /\ ~conn[c].out => ~conn'[c].out
           /\ \/ UNCHANGED <<server, queue>>
              \/ /\ CloseCallBack(c) /\ Held(conn[c]) /\ Handling(conn[c].loop)
                 /\ conn[c].state = "kConnected" \/ (conn[c].registered /\ conn[c].out)
                 /\ conn'[c].state = "kDisconnected" /\ ~conn'[c].out
<1> DEFINE r == conn[c]
<1>1. conn \in [Conns -> Connections] /\ r \in Connections
  BY DEF ServerIInv, RecordsOK
<1>2. PICK s :
        /\ conn' = [conn EXCEPT ![c] = s]
        /\ UNCHANGED <<acceptor, base_pc, loop, caught>>
        /\ \/ /\ s = [r EXCEPT !.state = "kDisconnected"]
              /\ r.registered /\ r.state = "kConnected" /\ Handling(r.loop) /\ CloseEffect(c)
           \/ s = [r EXCEPT !.out = TRUE] /\ r.state = "kConnected" /\ UNCHANGED <<server, queue>>
           \/ s = r /\ UNCHANGED <<server, queue>>
           \/ /\ s = [r EXCEPT !.out = FALSE] /\ r.registered /\ r.out /\ Handling(r.loop)
              /\ \/ UNCHANGED <<server, queue>>
                 \/ r.state = "kDisconnected" /\ CloseCallBack(c)
           \/ s = [r EXCEPT !.timer = TRUE] /\ r.registered /\ UNCHANGED <<server, queue>>
           \/ /\ s = [r EXCEPT !.timer = FALSE, !.state = "kDisconnected"]
              /\ r.timer /\ r.state = "kConnected" /\ Handling(r.loop) /\ CloseEffect(c)
           \/ s = [r EXCEPT !.timer = FALSE] /\ UNCHANGED <<server, queue>>
           \/ s = [r EXCEPT !.fin = TRUE] /\ UNCHANGED <<server, queue>>
           \/ s = [r EXCEPT !.fin = TRUE, !.reset = TRUE] /\ UNCHANGED <<server, queue>>
  <2>1. ASSUME conn' = conn PROVE conn' = [conn EXCEPT ![c] = r]
    BY <1>1, <2>1
  <2>2. CASE HandleReadEof(c)
    BY <2>2 DEF HandleReadEof
  <2>3. CASE SendPartly(c)
    BY <2>3 DEF SendPartly
  <2>4. CASE HandleWrite(c)
    BY <2>1, <2>4 DEF HandleWrite
  <2>5. CASE ForceCloseAfter(c)
    BY <2>5 DEF ForceCloseAfter
  <2>6. CASE ForceCloseTimer(c)
    BY <2>6 DEF ForceCloseTimer
  <2>7. CASE ClientCloses(c)
    BY <2>7 DEF ClientCloses
  <2>8. CASE ClientResets(c)
    BY <2>8 DEF ClientResets
  <2> QED
    BY <2>2, <2>3, <2>4, <2>5, <2>6, <2>7, <2>8 DEF ConnectionStep
<1>3. (r.out /\ UNCHANGED <<server, queue>>) \/ (~r.out /\ CloseCallBack(c)) \/ ~CloseEffect(c)
  BY DEF CloseEffect
<1> HIDE DEF r
<1>4. /\ s \in Connections
      /\ s.loop = r.loop /\ s.registered = r.registered /\ s.ups = r.ups /\ s.downs = r.downs
      /\ Held(s) => Held(r)
      /\ s.state = r.state \/ (r.state = "kConnected" /\ s.state = "kDisconnected")
      /\ r.state = "kDisconnected" /\ ~r.out => ~s.out
      /\ \/ UNCHANGED <<server, queue>>
         \/ /\ CloseCallBack(c) /\ Held(r) /\ Handling(r.loop)
            /\ r.state = "kConnected" \/ (r.registered /\ r.out)
            /\ s.state = "kDisconnected" /\ ~s.out
  <2>1. s \in Connections
    BY <1>1, <1>2 DEF Connections
  <2>2. /\ s.loop = r.loop /\ s.registered = r.registered /\ s.ups = r.ups /\ s.downs = r.downs
        /\ Held(s) => Held(r)
    BY <1>1, <1>2 DEF Connections, Held
  <2>3. /\ s.state = r.state \/ (r.state = "kConnected" /\ s.state = "kDisconnected")
        /\ r.state = "kDisconnected" /\ ~r.out => ~s.out
    BY <1>1, <1>2 DEF Connections
  <2>4. \/ UNCHANGED <<server, queue>>
        \/ /\ CloseCallBack(c) /\ Held(r) /\ Handling(r.loop)
           /\ r.state = "kConnected" \/ (r.registered /\ r.out)
           /\ s.state = "kDisconnected" /\ ~s.out
    BY <1>1, <1>2, <1>3 DEF Connections, Held
  <2> QED
    BY <2>1, <2>2, <2>3, <2>4
<1>5. conn'[c] = s /\ \A d \in Conns : d # c => conn'[d] = conn[d]
  BY <1>1, <1>2
<1>6. conn' \in [Conns -> Connections]
  BY <1>1, <1>2, <1>4
<1> QED
  BY <1>2, <1>4, <1>5, <1>6 DEF r

LEMMA ConnectionKeeps ==
    ASSUME ServerIInv, NEW c \in Conns, ConnectionStep(c)
    PROVE  ServerIInv'
<1>1. /\ UNCHANGED <<acceptor, base_pc, loop>> /\ conn' \in [Conns -> Connections]
      /\ \A d \in Conns : Held(conn'[d]) => Held(conn[d])
      /\ UNCHANGED <<server, queue>> \/ (CloseCallBack(c) /\ Held(conn[c]))
  BY ConnectionStepIs
<1>2. RecordsOK
  BY DEF ServerIInv
<1>3. /\ server' \in Servers /\ server'.state = server.state
      /\ server'.connections \subseteq server.connections
      /\ queue' \in [Loops -> Seq(Functors)]
      /\ \A d : InQueue(queue', d) => InQueue(queue, d) \/ Open(d)
      /\ \A m \in Loops : Len(queue'[m]) >= Len(queue[m])
  <2>1. CASE UNCHANGED <<server, queue>>
    <3>1. \A m \in Loops : Len(queue[m]) \in Nat
      BY <1>2 DEF RecordsOK
    <3> QED
      BY <1>2, <2>1, <3>1 DEF RecordsOK
  <2> QED
    BY <1>1, <1>2, <2>1, CloseCallBackEffect
<1>4. \A d \in Conns : Open(d)' => Open(d)
  BY <1>1, <1>3, OpenIs
<1>5. SpareInv' /\ SpareKept'
  BY <1>1, <1>3, <1>4, SpareUntouched
<1>6. BatchInv'
  BY <1>1, <1>3, BatchUntouched
<1> QED
  BY <1>1, <1>2, <1>3, <1>5, <1>6 DEF ServerIInv, RecordsOK

\* EstablishConnection() registers that connection only.
LEMMA EstablishEffect ==
    ASSUME NEW cs \in [Conns -> Connections], NEW c
    PROVE  /\ EstablishConnection(cs, c) \in [Conns -> Connections]
           /\ \A d \in Conns : Held(EstablishConnection(cs, c)[d]) => Held(cs[d]) \/ d = c
<1> DEFINE g == EstablishConnection(cs, c)
<1>1. g = [cs EXCEPT ![c] = [cs[c] EXCEPT !.state = "kConnected", !.registered = TRUE, !.ups = @ + 1]]
  BY DEF EstablishConnection
<1> HIDE DEF g
<1>2. ASSUME NEW d \in Conns
      PROVE  g[d] \in Connections /\ (Held(g[d]) => Held(cs[d]) \/ d = c)
  <2>1. CASE d # c
    BY <1>1, <2>1
  <2>2. CASE d = c
    <3> DEFINE r == cs[d]
               n == r.ups + 1
    <3>1. r \in Connections /\ n \in Nat
      BY DEF Connections
    <3>2. g[d] = [r EXCEPT !.state = "kConnected", !.registered = TRUE, !.ups = n]
      BY <1>1, <2>2
    <3> HIDE DEF r, n
    <3>3. g[d] \in Connections
      BY <3>1, <3>2 DEF Connections
    <3> QED
      BY <2>2, <3>3
  <2> QED
    BY <2>1, <2>2
<1>3. g = [d \in Conns |-> g[d]]
  BY <1>1
<1> QED
  BY <1>2, <1>3 DEF g

\* DestroyConnection() registers none.
LEMMA DestroyEffect ==
    ASSUME NEW cs \in [Conns -> Connections], NEW c
    PROVE  /\ DestroyConnection(cs, c) \in [Conns -> Connections]
           /\ \A d \in Conns : Held(DestroyConnection(cs, c)[d]) => Held(cs[d])
<1> DEFINE g == DestroyConnection(cs, c)
<1>1. g = [cs EXCEPT ![c] = [cs[c] EXCEPT !.state = "kDisconnected", !.registered = FALSE, !.downs = @ + 1]]
  BY DEF DestroyConnection
<1> HIDE DEF g
<1>2. ASSUME NEW d \in Conns
      PROVE  g[d] \in Connections /\ (Held(g[d]) => Held(cs[d]))
  <2>1. CASE d # c
    BY <1>1, <2>1
  <2>2. CASE d = c
    <3> DEFINE r == cs[d]
               n == r.downs + 1
    <3>1. r \in Connections /\ n \in Nat
      BY DEF Connections
    <3>2. g[d] = [r EXCEPT !.state = "kDisconnected", !.registered = FALSE, !.downs = n]
      BY <1>1, <2>2
    <3> HIDE DEF r, n
    <3>3. g[d] \in Connections /\ g[d].registered = FALSE /\ g[d].timer = r.timer
      BY <3>1, <3>2 DEF Connections
    <3> QED
      BY <2>2, <3>3 DEF r, Held
  <2> QED
    BY <2>1, <2>2
<1>3. g = [d \in Conns |-> g[d]]
  BY <1>1
<1> QED
  BY <1>2, <1>3 DEF g

\* The functors of the server's own loop.
LEMMA BaseFunctorKeeps ==
    ASSUME ServerIInv, BaseFunctor
    PROVE  ServerIInv'
<1>0. RecordsOK /\ queue \in [Loops -> Seq(Functors)] /\ conn \in [Conns -> Connections]
      /\ server \in Servers
  BY DEF ServerIInv, RecordsOK
<1> DEFINE f == Head(queue[0])
           rest == [queue EXCEPT ![0] = Tail(@)]
<1>1. UNCHANGED <<acceptor, base_pc, loop>> /\ queue[0] # <<>>
  BY DEF BaseFunctor
<1>2. 0 \in Loops
  BY TcpServerAssumption DEF Loops
<1>3. /\ rest \in [Loops -> Seq(Functors)] /\ f[2] \in Nat
      /\ InQueue(queue, f[2]) /\ \A d : InQueue(rest, d) => InQueue(queue, d)
  <2>1. /\ rest \in [Loops -> Seq(Functors)] /\ f \in Functors
        /\ InQueue(queue, f[2]) /\ \A d : InQueue(rest, d) => InQueue(queue, d)
    BY <1>0, <1>1, <1>2, QueueTaken
  <2>2. \A g \in Functors : g[2] \in Nat
    BY DEF Functors
  <2> QED
    BY <2>1, <2>2
<1>4. \A m \in Loops \ {0} : rest[m] = queue[m] /\ Len(queue[m]) \in Nat
  BY <1>0
<1> HIDE DEF rest, f
<1>5. /\ server' \in Servers /\ server'.state = server.state
      /\ server'.connections \subseteq server.connections
      /\ conn' \in [Conns -> Connections]
      /\ \A d \in Conns : Held(conn'[d]) => Held(conn[d])
      /\ \/ queue' = rest
         \/ \E l : queue' = Put(rest, l, "destroy", f[2])
  <2>1. CASE RemoveClosure(f[2]) /\ UNCHANGED conn /\ server.state = "alive"
    <3>1. /\ server' = [server EXCEPT !.connections = @ \ {f[2]}]
          /\ queue' = Put(rest, conn[f[2]].loop, "destroy", f[2])
      BY <2>1 DEF RemoveClosure, rest
    <3>2. /\ server' \in Servers /\ server'.state = server.state
          /\ server'.connections \subseteq server.connections
      BY <1>0, <3>1 DEF Servers
    <3> QED
      BY <1>0, <2>1, <3>1, <3>2
  <2>2. CASE RemoveClosure(f[2]) /\ UNCHANGED conn /\ server.state # "alive"
    BY <1>0, <2>2 DEF RemoveClosure, rest
  <2>3. CASE conn' = DestroyConnection(conn, f[2]) /\ queue' = rest /\ UNCHANGED server
    BY <1>0, <2>3, DestroyEffect
  <2> QED
    BY <2>1, <2>2, <2>3 DEF BaseFunctor, f, rest
<1>6. /\ queue' \in [Loops -> Seq(Functors)]
      /\ \A d : InQueue(queue', d) => InQueue(queue, d)
      /\ \A m \in Loops \ {0} : Len(queue'[m]) >= Len(queue[m])
  <2>1. CASE queue' = rest
    BY <1>3, <1>4, <2>1
  <2>2. CASE \E l : queue' = Put(rest, l, "destroy", f[2])
    <3>0. PICK l : queue' = Put(rest, l, "destroy", f[2])
      BY <2>2
    <3>1. /\ queue' \in [Loops -> Seq(Functors)]
          /\ \A d : InQueue(queue', d) => InQueue(rest, d) \/ d = f[2]
          /\ \A m \in Loops : Len(queue'[m]) >= Len(rest[m])
      BY <1>3, <3>0, QueuePut
    <3> QED
      BY <1>3, <1>4, <3>1
  <2> QED
    BY <1>5, <2>1, <2>2
<1>7. \A d \in Conns : Open(d)' => Open(d)
  BY <1>5, <1>6, OpenIs
<1>8. SpareInv' /\ SpareKept'
  BY <1>1, <1>5, <1>7, SpareUntouched
<1>9. BatchInv'
  BY <1>1, <1>6, BatchUntouched
<1> QED
  BY <1>0, <1>1, <1>5, <1>6, <1>8, <1>9 DEF ServerIInv, RecordsOK

\* The loops of the pool; there are none without one.
LEMMA LoopKeeps ==
    ASSUME ServerIInv, NEW l \in IoLoops, LoopStep(l)
    PROVE  ServerIInv'
<1>1. UNCHANGED <<server, acceptor, base_pc>>
  BY DEF LoopStep, BeginFunctors, RunFunctor, EndFunctors
<1>2. l \in Loops \ {0}
  <2>1. server.thread_num \in 0..MaxThreads
    BY DEF ServerIInv, RecordsOK, Servers
  <2> QED
    BY <2>1, TcpServerAssumption DEF IoLoops, Loops
<1>3. /\ RecordsOK /\ queue \in [Loops -> Seq(Functors)] /\ loop \in [Loops -> LoopStates]
      /\ conn \in [Conns -> Connections]
  BY DEF ServerIInv, RecordsOK
<1>4. /\ queue[l] \in Seq(Functors) /\ Len(queue[l]) \in Nat
      /\ loop[l] \in LoopStates /\ loop[l].batch \in Nat
  <2>1. queue[l] \in Seq(Functors) /\ loop[l] \in LoopStates
    BY <1>2, <1>3
  <2> QED
    BY <2>1 DEF LoopStates
\* It is enough to show what becomes of connections and queues.
<1>5. ASSUME conn' \in [Conns -> Connections],
             \A d \in Conns : Held(conn'[d]) => Held(conn[d]) \/ InQueue(queue, d),
             queue' \in [Loops -> Seq(Functors)], loop' \in [Loops -> LoopStates],
             \A d : InQueue(queue', d) => InQueue(queue, d),
             \A m \in Loops : m # l => queue'[m] = queue[m] /\ loop'[m] = loop[m],
             loop'[l].phase = "functors" => loop'[l].batch <= Len(queue'[l])
      PROVE  ServerIInv'
  <2>1. \A d \in Conns : Open(d)' => Open(d)
    BY <1>1, <1>5, OpenIs
  <2>2. SpareInv' /\ SpareKept'
    BY <1>1, <2>1, SpareUntouched
  <2>3. BatchInv'
    BY <1>5 DEF BatchInv, ServerIInv
  <2> QED
    BY <1>1, <1>3, <1>5, <2>2, <2>3 DEF ServerIInv, RecordsOK
<1>6. CASE BeginFunctors(l)
  <2> DEFINE n == Len(queue[l])
  <2>1. /\ UNCHANGED <<conn, queue>>
        /\ loop' = [loop EXCEPT ![l] = [@ EXCEPT !.phase = "functors", !.batch = n]]
    BY <1>6 DEF BeginFunctors
  <2>2. n \in Nat
    BY <1>4
  <2> HIDE DEF n
  <2>3. /\ loop' \in [Loops -> LoopStates] /\ loop'[l].batch = n
        /\ \A m \in Loops : m # l => loop'[m] = loop[m]
    BY <1>2, <1>3, <1>4, <2>1, <2>2 DEF LoopStates
  <2> QED
    BY <1>3, <1>4, <1>5, <2>1, <2>3 DEF n
<1>7. CASE RunFunctor(l)
  <2> DEFINE f == Head(queue[l])
             n == loop[l].batch - 1
  <2>1. /\ queue' = [queue EXCEPT ![l] = Tail(@)]
        /\ loop' = [loop EXCEPT ![l] = [@ EXCEPT !.batch = n]]
        /\ loop[l].phase = "functors" /\ loop[l].batch > 0
        /\ conn' = EstablishConnection(conn, f[2]) \/ conn' = DestroyConnection(conn, f[2])
    BY <1>7 DEF RunFunctor
  <2>2. /\ conn' \in [Conns -> Connections]
        /\ \A d \in Conns : Held(conn'[d]) => Held(conn[d]) \/ d = f[2]
    <3>1. CASE conn' = EstablishConnection(conn, f[2])
      BY <1>3, <3>1, EstablishEffect
    <3>2. CASE conn' = DestroyConnection(conn, f[2])
      BY <1>3, <3>2, DestroyEffect
    <3> QED
      BY <2>1, <3>1, <3>2
  <2>3. queue[l] # <<>> /\ n \in Nat /\ n + 1 <= Len(queue[l])
    BY <1>2, <1>4, <2>1 DEF ServerIInv, BatchInv
  <2>4. /\ queue' \in [Loops -> Seq(Functors)] /\ InQueue(queue, f[2])
        /\ \A d : InQueue(queue', d) => InQueue(queue, d)
        /\ \A m \in Loops : m # l => queue'[m] = queue[m]
        /\ Len(queue'[l]) = Len(queue[l]) - 1
    <3>1. /\ queue' \in [Loops -> Seq(Functors)] /\ InQueue(queue, f[2])
          /\ \A d : InQueue(queue', d) => InQueue(queue, d)
      BY <1>2, <1>3, <2>1, <2>3, QueueTaken
    <3>2. queue'[l] = Tail(queue[l]) /\ \A m \in Loops : m # l => queue'[m] = queue[m]
      BY <1>2, <1>3, <2>1
    <3>3. Len(Tail(queue[l])) = Len(queue[l]) - 1
      BY <1>4, <2>3
    <3> QED
      BY <3>1, <3>2, <3>3
  <2>5. n + 1 <= Len(queue[l]) /\ n \in Nat
    BY <2>3
  <2> HIDE DEF n, f
  <2>6. /\ loop' \in [Loops -> LoopStates] /\ loop'[l].batch = n
        /\ \A m \in Loops : m # l => loop'[m] = loop[m]
    BY <1>2, <1>3, <1>4, <2>1, <2>5 DEF LoopStates
  <2>7. loop'[l].batch <= Len(queue'[l])
    BY <1>4, <2>4, <2>5, <2>6
  <2> QED
    BY <1>5, <2>2, <2>4, <2>6, <2>7
<1>8. CASE EndFunctors(l)
  <2>1. CASE loop[l].quit
    <3>1. /\ queue' = [queue EXCEPT ![l] = <<>>]
          /\ loop' = [loop EXCEPT ![l] = [@ EXCEPT !.phase = "exited"]]
          /\ conn' = [c \in Conns |-> IF conn[c].loop = l
                         THEN [conn[c] EXCEPT !.registered = FALSE, !.timer = FALSE]
                         ELSE conn[c]]
      BY <1>8, <2>1 DEF EndFunctors
    <3>2. /\ conn' \in [Conns -> Connections]
          /\ \A d \in Conns : Held(conn'[d]) => Held(conn[d])
      BY <1>3, <3>1 DEF Connections, Held
    <3>3. /\ queue' \in [Loops -> Seq(Functors)] /\ queue'[l] = <<>>
          /\ \A m \in Loops : m # l => queue'[m] = queue[m]
      <4>1. <<>> \in Seq(Functors) /\ l \in Loops
        BY <1>2
      <4> QED
        BY <1>3, <3>1, <4>1
    <3>4. \A d : InQueue(queue', d) => InQueue(queue, d)
      BY <3>3 DEF InQueue
    <3>5. /\ loop' \in [Loops -> LoopStates] /\ loop'[l].phase = "exited"
          /\ \A m \in Loops : m # l => loop'[m] = loop[m]
      BY <1>2, <1>3, <1>4, <3>1 DEF LoopStates
    <3> QED
      BY <1>5, <3>2, <3>3, <3>4, <3>5
  <2>2. CASE ~loop[l].quit
    <3>1. /\ UNCHANGED <<conn, queue>>
          /\ loop' = [loop EXCEPT ![l] = [@ EXCEPT !.phase = "events"]]
      BY <1>8, <2>2 DEF EndFunctors
    <3>2. /\ loop' \in [Loops -> LoopStates] /\ loop'[l].phase = "events"
          /\ \A m \in Loops : m # l => loop'[m] = loop[m]
      BY <1>2, <1>3, <1>4, <3>1 DEF LoopStates
    <3> QED
      BY <1>3, <1>5, <3>1, <3>2
  <2> QED
    BY <2>1, <2>2
<1> QED
  BY <1>6, <1>7, <1>8 DEF LoopStep

-----------------------------------------------------------------------------
(* The server's and the acceptor's own steps.                              *)

\* The pool is only chosen while there is no connection and no loop.
LEMMA StartKeeps ==
    ASSUME ServerIInv, NEW n \in 0..MaxThreads, Start(n)
    PROVE  ServerIInv'
<1> USE DEF ServerIInv, RecordsOK
<1>1. UNCHANGED <<base_pc, conn, queue>> /\ server.state = "alive"
  BY DEF Start
<1>2. /\ server' \in Servers /\ server'.state = "alive"
      /\ server'.connections = server.connections
  <2>1. server' = [server EXCEPT !.started = 1, !.thread_num = n]
    BY DEF Start
  <2> QED
    BY <1>1, <2>1 DEF Servers
<1>3. /\ acceptor' \in Acceptors /\ acceptor'.idle = acceptor.idle
      /\ acceptor'.others = acceptor.others /\ acceptor'.stolen = acceptor.stolen
  <2>1. acceptor' = [acceptor EXCEPT !.listening = TRUE]
    BY DEF Start
  <2> QED
    BY <2>1 DEF Acceptors
<1>4. /\ loop' \in [Loops -> LoopStates]
      /\ \A l \in Loops : loop'[l] = loop[l] \/ loop'[l].phase = "events"
  <2>1. loop' = [l \in Loops |-> IF l \in 1..n
                     THEN [loop[l] EXCEPT !.phase = "events"] ELSE loop[l]]
    BY DEF Start
  <2> QED
    BY <2>1 DEF LoopStates
<1>5. Free \in Int /\ Free' \in Int /\ Free' >= Free
  <2>1. \A c \in Conns : Open(c)' => Open(c)
    BY <1>1, <1>2, OpenIs
  <2> QED
    BY <1>3, <2>1, FreeGrows
<1>6. SpareInv' /\ SpareKept'
  <2>1. Free' >= 0 /\ (Free > 0 => Free' > 0)
    BY <1>5 DEF SpareInv
  <2> QED
    BY <1>1, <1>2, <1>3, <2>1 DEF SpareInv, SpareKept
<1>7. BatchInv'
  BY <1>1, <1>4 DEF BatchInv
<1> QED
  BY <1>1, <1>2, <1>3, <1>4, <1>6, <1>7

\* The accepted socket takes a descriptor that is free.
LEMMA NewConnectionKeeps ==
    ASSUME ServerIInv, NewTcpConnection
    PROVE  ServerIInv'
<1> USE DEF ServerIInv, RecordsOK
<1> DEFINE c == server.next_connid
           l == NextLoop
           cs == [conn EXCEPT ![c].state = "kConnecting", ![c].loop = l]
<1>1. /\ UNCHANGED <<base_pc, loop>> /\ base_pc = "loop"
      /\ server.state = "alive" /\ Free > 0
  BY DEF NewTcpConnection, Readable
<1>2. c \in Nat /\ l \in Nat
  BY DEF NextLoop, Servers
<1>3. /\ acceptor' \in Acceptors /\ acceptor'.idle = acceptor.idle
      /\ acceptor'.others = acceptor.others /\ acceptor'.stolen = acceptor.stolen
  <2>1. acceptor' = [acceptor EXCEPT !.backlog = @ - 1] /\ acceptor \in Acceptors
    BY DEF NewTcpConnection
  <2> HIDE DEF ServerIInv, RecordsOK
  <2> QED
    BY <2>1 DEF Acceptors
<1>4. /\ server' \in Servers /\ server'.state = "alive"
      /\ server'.connections = server.connections \cup {c}
  <2>1. server' = [server EXCEPT !.next_connid = c + 1, !.next = AfterNext,
                                 !.connections = @ \cup {c}]
    BY DEF NewTcpConnection
  <2>2. c + 1 \in Nat /\ AfterNext \in Nat
    BY <1>2 DEF AfterNext, Servers
  <2> DEFINE n == c + 1
  <2> HIDE DEF n, c
  <2>3. server' = [server EXCEPT !.next_connid = n, !.next = AfterNext,
                                 !.connections = @ \cup {c}]
    BY <2>1 DEF n
  <2>4. n \in Nat /\ c \in Nat /\ AfterNext \in Nat
    BY <1>2, <2>2 DEF n
  <2> QED
    BY <1>1, <2>3, <2>4 DEF Servers
<1>5. /\ cs \in [Conns -> Connections]
      /\ \A d \in Conns : Held(cs[d]) <=> Held(conn[d])
  <2> HIDE DEF l, c, ServerIInv, RecordsOK
  <2>1. conn \in [Conns -> Connections]
    BY DEF ServerIInv, RecordsOK
  <2>2. /\ \A d \in Conns : cs[d] = IF d = c THEN [conn[d] EXCEPT !.state = "kConnecting", !.loop = l]
                                       ELSE conn[d]
        /\ cs = [d \in Conns |-> cs[d]]
    BY <2>1
  <2> HIDE DEF cs
  <2>3. ASSUME NEW d \in Conns PROVE cs[d] \in Connections /\ (Held(cs[d]) <=> Held(conn[d]))
    <3>1. conn[d] \in Connections /\ l \in Nat
      BY <1>2, <2>1
    <3>2. CASE d = c
      <4>1. cs[d] = [conn[d] EXCEPT !.state = "kConnecting", !.loop = l]
        BY <2>2, <3>2
      <4> QED
        BY <3>1, <4>1 DEF Connections, Held
    <3>3. CASE d # c
      BY <2>2, <3>1, <3>3
    <3> QED
      BY <3>2, <3>3
  <2> QED
    BY <2>2, <2>3
<1>6. \/ conn' = EstablishConnection(cs, c) /\ UNCHANGED queue
      \/ /\ l # 0 /\ conn' = cs
         /\ queue' = Put(queue, l, "establish", c)
  BY DEF NewTcpConnection
<1> HIDE DEF cs, l, c
<1>7. /\ conn' \in [Conns -> Connections]
      /\ \A d \in Conns : Held(conn'[d]) => Held(conn[d]) \/ d = c
  BY <1>5, <1>6, EstablishEffect
<1>8. /\ queue' \in [Loops -> Seq(Functors)]
      /\ \A d : InQueue(queue', d) => InQueue(queue, d) \/ d = c
      /\ \A m \in Loops : Len(queue'[m]) >= Len(queue[m])
  <2>1. queue \in [Loops -> Seq(Functors)]
    BY <1>1
  <2>2. CASE UNCHANGED queue
    BY <2>1, <2>2
  <2>3. CASE queue' = Put(queue, l, "establish", c)
    BY <1>2, <2>1, <2>3, QueuePut
  <2> QED
    BY <1>6, <2>2, <2>3
<1>9. SpareInv' /\ SpareKept'
  <2>1. \A d \in Conns : Open(d)' => Open(d) \/ d = c
    BY <1>4, <1>7, <1>8, OpenIs
  <2>2. Free \in Int /\ Free' \in Int /\ Free' >= Free - 1
    BY <1>3, <2>1, FreeButOne
  <2>3. Free' >= 0
    BY <1>1, <2>2
  <2> QED
    BY <1>1, <1>3, <1>4, <2>3 DEF SpareInv, SpareKept
<1>10. BatchInv'
  BY <1>1, <1>8, BatchUntouched
<1> QED
  BY <1>1, <1>3, <1>4, <1>7, <1>8, <1>9, <1>10

\* The steps that only count descriptors.
LEMMA AcceptorKeeps ==
    ASSUME ServerIInv,
           \/ AcceptFails \/ TurnAway \/ Reopen
           \/ ClientConnects \/ OtherOpens \/ OtherCloses
    PROVE  ServerIInv'
<1> USE DEF ServerIInv, RecordsOK
<1>1. UNCHANGED <<server, conn, queue, loop>>
  BY DEF AcceptFails, TurnAway, Reopen, ClientConnects, OtherOpens, OtherCloses
<1>2. BatchInv'
  BY <1>1 DEF BatchInv
<1>3. Cardinality(OpenConns') = Cardinality(OpenConns) /\ Cardinality(OpenConns) \in Nat
  <2>1. OpenConns' = OpenConns
    BY <1>1 DEF OpenConns, Open
  <2> QED
    BY <2>1, OpenCounted
<1>4. /\ FdLimit \in Nat /\ FdLimit > 0
      /\ acceptor.others \in Int /\ acceptor.idle \in BOOLEAN
      /\ acceptor.backlog \in Int /\ acceptor.arrived \in Nat
      /\ Free \in Int
  BY TcpServerAssumption, FreeType DEF Acceptors
<1>5. ASSUME AcceptFails PROVE ServerIInv'
  <2>1. /\ acceptor' = [acceptor EXCEPT !.idle = FALSE] /\ base_pc' = "spare"
        /\ server.state = "alive" /\ base_pc = "loop"
    BY <1>5 DEF AcceptFails, Readable
  <2>2. /\ acceptor' \in Acceptors /\ acceptor'.others = acceptor.others
        /\ acceptor'.stolen = acceptor.stolen /\ acceptor'.idle = FALSE
    BY <2>1 DEF Acceptors
  <2>3. Free >= 0 /\ (acceptor.idle \/ acceptor.stolen)
    BY <2>1 DEF SpareInv, SpareKept
  <2>4. Free' = Free + (IF acceptor.idle THEN 1 ELSE 0)
    BY <1>3, <1>4, <2>2, FreeIs
  <2>5. Free' >= 0 /\ (Free' > 0 \/ acceptor'.stolen)
    BY <1>4, <2>2, <2>3, <2>4
  <2> QED
    BY <1>1, <1>2, <2>1, <2>2, <2>5 DEF SpareInv, SpareKept
<1>6. ASSUME TurnAway PROVE ServerIInv'
  <2> DEFINE n == acceptor.backlog - (IF Free > 0 THEN 1 ELSE 0)
  <2>1. acceptor' = [acceptor EXCEPT !.backlog = n] /\ base_pc' = "reopen" /\ base_pc = "spare"
    BY <1>6 DEF TurnAway
  <2>2. n \in Int
    BY <1>4
  <2> HIDE DEF n
  <2>3. /\ acceptor' \in Acceptors /\ acceptor'.others = acceptor.others
        /\ acceptor'.stolen = acceptor.stolen /\ acceptor'.idle = acceptor.idle
    BY <2>1, <2>2 DEF Acceptors
  <2>4. Free' = Free
    BY <1>3, <1>4, <2>3, FreeIs
  <2> QED
    BY <1>1, <1>2, <2>1, <2>3, <2>4 DEF SpareInv, SpareKept
<1>10. ASSUME Reopen PROVE ServerIInv'
  <2> DEFINE b == Free > 0
  <2>1. /\ acceptor' = [acceptor EXCEPT !.idle = b]
        /\ base_pc' = "loop" /\ base_pc = "reopen"
    BY <1>10 DEF Reopen
  <2>2. b \in BOOLEAN /\ (b <=> Free > 0)
    BY <1>4
  <2> HIDE DEF b
  <2>3. /\ acceptor' \in Acceptors /\ acceptor'.others = acceptor.others
        /\ acceptor'.stolen = acceptor.stolen
    BY <2>1, <2>2 DEF Acceptors
  <2>4. acceptor'.idle = b
    BY <2>1, Zenon DEF Acceptors
  <2>5. Free >= 0 /\ (Free > 0 \/ acceptor.stolen)
    BY <2>1 DEF SpareInv
  <2>6. Free' >= 0
    <3>1. /\ Free = FdLimit - Cardinality(OpenConns) - acceptor.others
                      - (IF acceptor.idle THEN 1 ELSE 0)
          /\ Free' = FdLimit - Cardinality(OpenConns) - acceptor.others
                      - (IF b THEN 1 ELSE 0)
      BY <1>3, <2>3, <2>4, FreeIs
    <3>2. CASE b
      BY <1>3, <1>4, <2>2, <3>1, <3>2
    <3>3. CASE ~b
      BY <1>3, <1>4, <2>5, <3>1, <3>3
    <3> QED
      BY <3>2, <3>3
  <2>7. acceptor'.idle \/ acceptor'.stolen
    BY <2>2, <2>3, <2>4, <2>5
  <2> QED
    BY <1>1, <1>2, <2>1, <2>3, <2>6, <2>7 DEF SpareInv, SpareKept
<1>7. ASSUME ClientConnects PROVE ServerIInv'
  <2> DEFINE n == acceptor.backlog + 1
             m == acceptor.arrived + 1
  <2>1. acceptor' = [acceptor EXCEPT !.backlog = n, !.arrived = m] /\ base_pc' = base_pc
    BY <1>7 DEF ClientConnects
  <2>2. n \in Int /\ m \in Nat
    BY <1>4
  <2> HIDE DEF n, m
  <2>3. /\ acceptor' \in Acceptors /\ acceptor'.others = acceptor.others
        /\ acceptor'.stolen = acceptor.stolen /\ acceptor'.idle = acceptor.idle
    BY <2>1, <2>2 DEF Acceptors
  <2>4. Free' = Free
    BY <1>3, <1>4, <2>3, FreeIs
  <2> QED
    BY <1>1, <1>2, <2>1, <2>3, <2>4 DEF SpareInv, SpareKept
<1>8. ASSUME OtherOpens PROVE ServerIInv'
  <2> DEFINE n == acceptor.others + 1
             b == acceptor.stolen \/ base_pc \in {"spare", "reopen"}
  <2>1. acceptor' = [acceptor EXCEPT !.others = n, !.stolen = b] /\ base_pc' = base_pc /\ Free > 0
    BY <1>8 DEF OtherOpens
  <2>2. n \in Int /\ b \in BOOLEAN /\ (base_pc \in {"spare", "reopen"} \/ acceptor.stolen => b)
    BY <1>4 DEF Acceptors
  <2> HIDE DEF b
  <2>3. /\ acceptor' \in Acceptors /\ acceptor'.others = n /\ acceptor'.idle = acceptor.idle
    <3> HIDE DEF n
    <3> QED
      BY <2>1, <2>2 DEF Acceptors
  <2>4. acceptor'.stolen = b
    BY <2>1, Zenon DEF Acceptors
  <2>5. Free' = Free - 1
    BY <1>3, <1>4, <2>3, FreeIs
  <2>6. Free' >= 0
    BY <1>4, <2>1, <2>5
  <2> QED
    BY <1>1, <1>2, <2>1, <2>2, <2>3, <2>4, <2>6 DEF SpareInv, SpareKept
<1>9. ASSUME OtherCloses PROVE ServerIInv'
  <2> DEFINE n == acceptor.others - 1
  <2>1. acceptor' = [acceptor EXCEPT !.others = n] /\ base_pc' = base_pc
    BY <1>9 DEF OtherCloses
  <2>2. n \in Int
    BY <1>4
  <2>3. /\ acceptor' \in Acceptors /\ acceptor'.others = n
        /\ acceptor'.stolen = acceptor.stolen /\ acceptor'.idle = acceptor.idle
    <3> HIDE DEF n
    <3> QED
      BY <2>1, <2>2 DEF Acceptors
  <2>4. Free' = Free + 1
    BY <1>3, <1>4, <2>3, FreeIs
  <2>5. (Free >= 0 => Free' >= 0) /\ (Free > 0 => Free' > 0)
    BY <1>4, <2>4
  <2> QED
    BY <1>1, <1>2, <2>1, <2>3, <2>5 DEF SpareInv, SpareKept
<1> QED
  BY <1>5, <1>6, <1>7, <1>8, <1>9, <1>10

-----------------------------------------------------------------------------
(* The destructor, and the whole.                                          *)

\* ~TcpServer opens nothing, and its closures go behind what loops have begun.
LEMMA DestructorKeeps ==
    ASSUME ServerIInv, Destructor \/ DestroyNext \/ JoinNext \/ DestructorEnds
    PROVE  ServerIInv'
<1>0. /\ RecordsOK /\ queue \in [Loops -> Seq(Functors)] /\ loop \in [Loops -> LoopStates]
      /\ conn \in [Conns -> Connections] /\ server \in Servers /\ acceptor \in Acceptors
      /\ \A m \in Loops : Len(queue[m]) \in Nat
  BY DEF ServerIInv, RecordsOK
<1>1. ASSUME Destructor PROVE ServerIInv'
  <2>1. /\ UNCHANGED <<acceptor, conn, queue, loop>>
        /\ base_pc' = "destructor" /\ base_pc = "loop"
        /\ server' = [server EXCEPT !.state = "dying"]
    BY <1>1 DEF Destructor
  <2>2. /\ server' \in Servers /\ server'.state = "dying"
        /\ server'.connections = server.connections
    BY <1>0, <2>1 DEF Servers
  <2>3. Free \in Int /\ Free' \in Int /\ Free' >= Free
    <3>1. \A c \in Conns : Open(c)' => Open(c)
      BY <2>1, <2>2, OpenIs
    <3> QED
      BY <1>0, <2>1, <3>1, FreeGrows
  <2>4. Free' >= 0
    BY <2>3 DEF ServerIInv, SpareInv
  <2> QED
    BY <1>0, <2>1, <2>2, <2>4 DEF ServerIInv, RecordsOK, BatchInv, SpareInv, SpareKept
<1>2. ASSUME DestroyNext PROVE ServerIInv'
  <2>1. UNCHANGED <<acceptor, base_pc, loop>>
    BY <1>2 DEF DestroyNext
  <2>2. PICK c \in server.connections :
           /\ server' = [server EXCEPT !.connections = @ \ {c}]
           /\ \/ conn' = DestroyConnection(conn, c) /\ UNCHANGED queue
              \/ queue' = Put(queue, conn[c].loop, "destroy", c) /\ UNCHANGED conn
    BY <1>2 DEF DestroyNext
  <2>3. /\ server' \in Servers /\ server'.state = server.state
        /\ server'.connections = server.connections \ {c} /\ c \in Nat
    BY <1>0, <2>2 DEF Servers
  <2>4. conn' \in [Conns -> Connections] /\ \A d \in Conns : Held(conn'[d]) => Held(conn[d])
    BY <1>0, <2>2, DestroyEffect
  <2>5. /\ queue' \in [Loops -> Seq(Functors)]
        /\ \A d : InQueue(queue', d) => InQueue(queue, d) \/ d = c
        /\ \A m \in Loops : Len(queue'[m]) >= Len(queue[m])
    <3>1. CASE UNCHANGED queue
      BY <1>0, <3>1
    <3>2. CASE queue' = Put(queue, conn[c].loop, "destroy", c)
      BY <1>0, <2>3, <3>2, QueuePut
    <3> QED
      BY <2>2, <3>1, <3>2
  <2>6. \A d \in Conns : Open(d)' => Open(d)
    BY <2>3, <2>4, <2>5, OpenIs
  <2>7. SpareInv' /\ SpareKept'
    BY <2>1, <2>3, <2>6, SpareUntouched
  <2>8. BatchInv'
    BY <2>1, <2>5, BatchUntouched
  <2> QED
    BY <1>0, <2>1, <2>3, <2>4, <2>5, <2>7, <2>8 DEF ServerIInv, RecordsOK
<1>3. ASSUME JoinNext PROVE ServerIInv'
  <2>1. UNCHANGED <<server, acceptor, base_pc, conn, queue>>
    BY <1>3 DEF JoinNext
  <2>2. PICK l \in IoLoops : loop' = [loop EXCEPT ![l].quit = TRUE]
    BY <1>3 DEF JoinNext
  <2>3. /\ loop' \in [Loops -> LoopStates]
        /\ \A m \in Loops : loop'[m].phase = loop[m].phase /\ loop'[m].batch = loop[m].batch
    BY <1>0, <2>2 DEF LoopStates
  <2>4. BatchInv'
    BY <2>1, <2>3 DEF ServerIInv, BatchInv
  <2>5. \A c \in Conns : Open(c)' => Open(c)
    BY <2>1, OpenIs
  <2>6. SpareInv' /\ SpareKept'
    BY <2>1, <2>5, SpareUntouched
  <2> QED
    BY <1>0, <2>1, <2>3, <2>4, <2>6 DEF ServerIInv, RecordsOK
<1>4. ASSUME DestructorEnds PROVE ServerIInv'
  <2>1. /\ UNCHANGED <<conn, queue, loop>> /\ base_pc' = "loop"
        /\ server' = [server EXCEPT !.state = "dead"]
        /\ acceptor' = [acceptor EXCEPT !.listening = FALSE, !.idle = FALSE]
    BY <1>4 DEF DestructorEnds
  <2>2. /\ server' \in Servers /\ server'.state = "dead"
        /\ server'.connections = server.connections
    BY <1>0, <2>1 DEF Servers
  <2>3. /\ acceptor' \in Acceptors /\ acceptor'.others = acceptor.others
        /\ acceptor'.idle = FALSE
    BY <1>0, <2>1 DEF Acceptors
  <2>4. OpenConns' = OpenConns
    BY <2>1, <2>2 DEF OpenConns, Open
  <2>5. Free' >= 0
    <3>1. /\ Free = FdLimit - Cardinality(OpenConns) - acceptor.others
                      - (IF acceptor.idle THEN 1 ELSE 0)
          /\ Free' = FdLimit - Cardinality(OpenConns) - acceptor.others
      BY <2>3, <2>4, FreeIs, FreeType, OpenCounted, TcpServerAssumption DEF Acceptors
    <3>2. Cardinality(OpenConns) \in Int /\ acceptor.others \in Int /\ FdLimit \in Int
      BY <1>0, OpenCounted, TcpServerAssumption DEF Acceptors
    <3> QED
      BY <3>1, <3>2 DEF ServerIInv, SpareInv
  <2> QED
    BY <1>0, <2>1, <2>2, <2>3, <2>5 DEF ServerIInv, RecordsOK, BatchInv, SpareInv, SpareKept
<1> QED
  BY <1>1, <1>2, <1>3, <1>4

\* The constructors.
LEMMA ServerInit == Init => ServerIInv
<1> SUFFICES ASSUME Init PROVE ServerIInv
  OBVIOUS
<1>1. {MaxThreads, MaxClients} \subseteq Nat /\ FdLimit \in Nat \ {0}
  BY TcpServerAssumption
<1>2. server \in Servers /\ acceptor \in Acceptors
  BY <1>1 DEF Init, Servers, Acceptors
<1>3. conn \in [Conns -> Connections] /\ loop \in [Loops -> LoopStates]
  BY DEF Init, Connections, LoopStates
<1>4. queue \in [Loops -> Seq(Functors)] /\ \A l \in Loops : queue[l] = <<>>
  BY DEF Init
<1>5. RecordsOK
  BY <1>2, <1>3, <1>4 DEF Init, RecordsOK
<1>6. BatchInv
  BY DEF Init, BatchInv
<1>7. Free >= 0
  <2>1. OpenConns = {}
    <3>1. \A c : ~InQueue(queue, c)
      BY <1>4 DEF InQueue
    <3> QED
      BY <3>1, OpenIs DEF OpenConns, Held, Init
  <2>2. Cardinality(OpenConns) = 0
    BY <2>1, FS_EmptySet
  <2> QED
    BY <1>1, <2>2, FreeIs DEF Init
<1> QED
  BY <1>5, <1>6, <1>7 DEF Init, ServerIInv, SpareInv, SpareKept

\* Every step keeps the invariant.
LEMMA ServerNext == ServerIInv /\ [Next]_vars => ServerIInv'
<1> SUFFICES ASSUME ServerIInv, [Next]_vars PROVE ServerIInv'
  OBVIOUS
<1>1. ASSUME NEW n \in 0..MaxThreads, Start(n) PROVE ServerIInv'
  BY <1>1, StartKeeps
<1>2. ASSUME NewTcpConnection PROVE ServerIInv'
  BY <1>2, NewConnectionKeeps
<1>3. ASSUME \/ AcceptFails \/ TurnAway \/ Reopen
             \/ ClientConnects \/ OtherOpens \/ OtherCloses
      PROVE  ServerIInv'
  BY <1>3, AcceptorKeeps
<1>4. ASSUME NEW c \in Conns, ConnectionStep(c) PROVE ServerIInv'
  BY <1>4, ConnectionKeeps
<1>5. ASSUME BaseFunctor PROVE ServerIInv'
  BY <1>5, BaseFunctorKeeps
<1>6. ASSUME NEW l \in IoLoops, LoopStep(l) PROVE ServerIInv'
  BY <1>6, LoopKeeps
<1>7. ASSUME Destructor \/ DestroyNext \/ JoinNext \/ DestructorEnds PROVE ServerIInv'
  BY <1>7, DestructorKeeps
<1>8. ASSUME UNCHANGED vars PROVE ServerIInv'
  <2>1. UNCHANGED <<server, acceptor, base_pc, conn, queue, loop>>
    BY <1>8 DEF vars
  <2>2. Free' = Free
    BY <2>1 DEF Free, Open
  <2> QED
    BY <2>1, <2>2 DEF ServerIInv, RecordsOK, BatchInv, SpareInv, SpareKept
<1> QED
  BY <1>1, <1>2, <1>3, <1>4, <1>5, <1>6, <1>7, <1>8 DEF Next, HandleRead, ConnectionStep

\* What the acceptor, the connections and the loops keep among them
\* (Acceptor.cpp:43-63, TcpServer.cpp:35-73, TcpConnection.cpp:188-208).
THEOREM ServerInvariant == Spec => []ServerIInv
<1>1. Init => ServerIInv
  BY ServerInit
<1>2. ServerIInv /\ [Next]_vars => ServerIInv'
  BY ServerNext
<1> QED
  BY <1>1, <1>2, PTL DEF Spec

\* The acceptor has its spare descriptor again after every HandleRead(), however
\* many clients and files there are: what it closed is what accept() takes and
\* gives back (Acceptor.cpp:54-62) - unless another thread came in between.
THEOREM SpareDescriptorKept == Spec => []SpareKept
<1>1. ServerIInv => SpareKept
  BY DEF ServerIInv
<1> QED
  BY <1>1, ServerInvariant, PTL

-----------------------------------------------------------------------------
(* How a connection's end reaches its loop.  What its loop still has to do  *)
(* for it is a ticket, a functor in a queue; the invariant below says which *)
(* tickets there can be at each stage of a connection's life.               *)

Ticket(q, l, what, c) == \E i \in 1..Len(q[l]) : q[l][i] = <<what, c>>

New(c) == Ticket(queue, conn[c].loop, "establish", c)
Ending(c) == Ticket(queue, conn[c].loop, "destroy", c)
Closing(c) == Ticket(queue, 0, "remove", c)

\* No ticket twice, and none to establish what an earlier one has destroyed.
WellOrdered(q) ==
    \A l \in Loops : \A i, j \in 1..Len(q[l]) :
        i < j /\ q[l][i][2] = q[l][j][2] =>
            /\ q[l][i][1] # q[l][j][1]
            /\ ~(q[l][i][1] = "destroy" /\ q[l][j][1] = "establish")

\* Nobody is accepted who did not connect, and nobody connects before Start().
CountInv ==
    /\ acceptor.backlog >= 0 /\ server.next_connid >= 1
    /\ acceptor.backlog + server.next_connid <= acceptor.arrived + 1
    /\ acceptor.arrived <= MaxClients
    /\ base_pc = "spare" => acceptor.backlog > 0
    /\ server.started = 0 => /\ ~acceptor.listening /\ acceptor.arrived = 0
                             /\ server.thread_num = 0 /\ server.next = 1
    /\ server.thread_num = 0 \/ server.next \in IoLoops

\* In the queue of a loop told to quit, the destroy tickets behind the functors it
\* is calling are those of the connections that were caught.
CaughtBehind(l) ==
    loop[l].quit /\ loop[l].phase = "functors" =>
        \A i \in 1..Len(queue[l]) : queue[l][i][1] = "destroy" =>
            (queue[l][i][2] \in caught <=> i > loop[l].batch)

\* Where the loops are while the server lives, ends, and is gone: they are only
\* told to quit when no connection is listed any more.
PhaseInv ==
    /\ server.state = "dying" <=> base_pc = "destructor"
    /\ server.state = "dead" => server.connections = {}
    /\ \A l \in Loops : loop[l].quit => server.state # "alive" /\ server.connections = {}
    /\ \A l \in IoLoops :
          /\ loop[l].phase \in {"events", "functors", "exited"}
          /\ loop[l].phase = "exited" => queue[l] = <<>> /\ loop[l].quit
          /\ server.state = "dead" => loop[l].phase = "exited"
          /\ CaughtBehind(l)

\* A ticket is in the queue it belongs to.
TicketOK(l, what, c) ==
    /\ c \in Conns /\ c < server.next_connid
    /\ what = "remove" => l = 0
    /\ what = "establish" => l # 0
    /\ what # "remove" => l = conn[c].loop

TicketInv ==
    /\ WellOrdered(queue)
    /\ \A l \in Loops : \A what, c : Ticket(queue, l, what, c) => TicketOK(l, what, c)

Finished(c) == conn[c].state = "kDisconnected" /\ ~conn[c].out

\* The user has been told of its beginning and not of its end.
Told(c) == conn[c].ups = 1 /\ conn[c].downs = 0

\* What is counted, where it is listed and which tickets it has.
StageOK(c) ==
    /\ c >= server.next_connid =>
          /\ conn[c].ups = 0 /\ conn[c].downs = 0 /\ conn[c].loop = 0
          /\ c \notin server.connections
    /\ c < server.next_connid =>
          conn[c].loop \in IoLoops \/ (conn[c].loop = 0 /\ server.thread_num = 0)
    /\ conn[c].registered \/ conn[c].state = "kConnected" => Told(c)
    /\ conn[c].ups <= 1 /\ conn[c].downs <= conn[c].ups
    /\ New(c) => /\ conn[c].ups = 0 /\ conn[c].state = "kConnecting"
                 /\ c \in server.connections \/ Ending(c)
    /\ Ending(c) => /\ conn[c].downs = 0 /\ c \notin server.connections
                    /\ conn[c].ups = 1 \/ New(c)
                    /\ server.state = "alive" \/ conn[c].loop = 0 => Finished(c)
    /\ c \in server.connections => conn[c].downs = 0 /\ (conn[c].ups = 1 \/ New(c))
    /\ Closing(c) => /\ Finished(c) /\ conn[c].loop # 0
                     /\ server.state = "alive" => c \in server.connections
    /\ Told(c) => c \in server.connections \/ Ending(c) \/ c \in caught

\* Whoever is caught is so in a loop of the pool that was told to quit, and is
\* never told of its end.
CaughtOK(c) ==
    c \in caught =>
        /\ conn[c].loop \in IoLoops /\ conn[c].downs = 0
        /\ loop[conn[c].loop].quit /\ loop[conn[c].loop].phase # "events"

RouteTypes ==
    /\ queue \in [Loops -> Seq(Functors)]
    /\ loop \in [Loops -> LoopStates]
    /\ server.connections \subseteq Conns

RouteInv ==
    /\ RouteTypes /\ CountInv /\ PhaseInv /\ TicketInv
    /\ \A c \in Conns : StageOK(c) /\ CaughtOK(c)

-----------------------------------------------------------------------------
(* Tickets.                                                                *)

\* QueueInLoop puts one ticket behind the others.
LEMMA PutTicket ==
    ASSUME NEW q \in [Loops -> Seq(Functors)], NEW l \in Loops,
           NEW what \in {"establish", "destroy", "remove"}, NEW c \in Nat,
           NEW p, p = Put(q, l, what, c), NEW f, f = <<what, c>>
    PROVE  /\ p \in [Loops -> Seq(Functors)]
           /\ \A m \in Loops : m # l => p[m] = q[m]
           /\ Len(q[l]) \in Nat /\ Len(p[l]) = Len(q[l]) + 1
           /\ \A i \in 1..Len(q[l]) : p[l][i] = q[l][i]
           /\ p[l][Len(q[l]) + 1] = f
           /\ \A m \in Loops : \A v, d :
                 Ticket(p, m, v, d) <=> Ticket(q, m, v, d) \/ (m = l /\ v = what /\ d = c)
<1>1. f \in Functors /\ f[1] = what /\ f[2] = c /\ (\A v, d : <<v, d>> = f <=> v = what /\ d = c)
  BY DEF Functors
<1>2. p \in [Loops -> Seq(Functors)]
  BY QueuePut
<1>3. \A m \in Loops : p[m] = IF m = l THEN Append(q[m], f) ELSE q[m]
  <2>1. p = [q EXCEPT ![l] = Append(@, f)]
    BY DEF Put
  <2> QED
    BY <2>1
<1>4. /\ q[l] \in Seq(Functors) /\ Len(q[l]) \in Nat
      /\ Len(p[l]) = Len(q[l]) + 1 /\ p[l][Len(q[l]) + 1] = f
      /\ \A i \in 1..Len(q[l]) : p[l][i] = q[l][i]
  <2>1. q[l] \in Seq(Functors) /\ p[l] = Append(q[l], f)
    BY <1>3
  <2>2. /\ Len(Append(q[l], f)) = Len(q[l]) + 1 /\ Append(q[l], f)[Len(q[l]) + 1] = f
        /\ \A i \in 1..Len(q[l]) : Append(q[l], f)[i] = q[l][i]
    BY <1>1, <2>1, AppendProperties
  <2> QED
    BY <2>1, <2>2
<1>5. ASSUME NEW m \in Loops, NEW v, NEW d
      PROVE  Ticket(p, m, v, d) <=> Ticket(q, m, v, d) \/ (m = l /\ v = what /\ d = c)
  <2>1. CASE m # l
    BY <1>3, <2>1 DEF Ticket
  <2>2. CASE m = l
    <3> DEFINE g == <<v, d>>
    <3>1. g = f <=> v = what /\ d = c
      BY <1>1
    <3> HIDE DEF g
    <3>2. (\E i \in 1..Len(p[l]) : p[l][i] = g) <=> (\E i \in 1..Len(q[l]) : q[l][i] = g) \/ g = f
      <4>1. \A i : i \in 1..Len(p[l]) <=> i \in 1..Len(q[l]) \/ i = Len(q[l]) + 1
        BY <1>4
      <4> QED
        BY <1>4, <4>1
    <3> QED
      BY <2>2, <3>1, <3>2 DEF Ticket, g
  <2> QED
    BY <2>1, <2>2
<1> QED
  BY <1>2, <1>3, <1>4, <1>5

\* It is put in order if it is new, and nothing to be established was there.
LEMMA PutOrdered ==
    ASSUME NEW q \in [Loops -> Seq(Functors)], NEW l \in Loops,
           NEW what \in {"establish", "destroy", "remove"}, NEW c \in Nat,
           NEW p, p = Put(q, l, what, c), NEW f, f = <<what, c>>,
           WellOrdered(q), ~Ticket(q, l, what, c),
           what # "establish" \/ \A v : ~Ticket(q, l, v, c)
    PROVE  WellOrdered(p)
<1>1. f \in Functors /\ f[1] = what /\ f[2] = c
  BY DEF Functors
<1>2. /\ \A m \in Loops : m # l => p[m] = q[m]
      /\ p[l][Len(q[l]) + 1] = f
  BY PutTicket
<1>3. /\ q[l] \in Seq(Functors) /\ Len(q[l]) \in Nat /\ Len(p[l]) = Len(q[l]) + 1
      /\ \A i \in 1..Len(q[l]) : p[l][i] = q[l][i]
  BY PutTicket
<1> SUFFICES ASSUME NEW m \in Loops, NEW i \in 1..Len(p[m]), NEW j \in 1..Len(p[m]),
                    i < j, p[m][i][2] = p[m][j][2]
             PROVE  /\ p[m][i][1] # p[m][j][1]
                    /\ ~(p[m][i][1] = "destroy" /\ p[m][j][1] = "establish")
  BY DEF WellOrdered
<1>4. CASE m # l
  <2>1. p[m] = q[m]
    BY <1>2, <1>4
  <2> QED
    BY <2>1 DEF WellOrdered
<1>5. CASE m = l /\ j \in 1..Len(q[l])
  <2>1. i \in 1..Len(q[l])
    BY <1>3, <1>5
  <2>2. p[l][i] = q[l][i] /\ p[l][j] = q[l][j]
    BY <1>3, <1>5, <2>1
  <2> QED
    BY <1>5, <2>1, <2>2 DEF WellOrdered
<1>6. CASE m = l /\ j \notin 1..Len(q[l])
  <2>1. j = Len(q[l]) + 1 /\ i \in 1..Len(q[l])
    BY <1>3, <1>6
  <2>2. p[l][j] = f /\ p[l][i] = q[l][i]
    BY <1>2, <1>3, <2>1
  <2>3. q[l][i] = <<q[l][i][1], q[l][i][2]>> /\ q[l][i][2] = c
    <3>1. q[l][i] \in Functors
      BY <1>3, <2>1, ElementOfSeq
    <3> QED
      BY <1>1, <1>6, <2>2, <3>1 DEF Functors
  <2>4. Ticket(q, l, q[l][i][1], c)
    BY <2>1, <2>3 DEF Ticket
  <2>5. q[l][i][1] # what /\ what # "establish"
    BY <2>4
  <2> QED
    BY <1>1, <1>6, <2>2, <2>5
<1> QED
  BY <1>4, <1>5, <1>6

Taken(q, l) == [q EXCEPT ![l] = Tail(@)]

\* A functor that is called takes its ticket with it; there is no second one.
LEMMA TakeTicket ==
    ASSUME NEW q \in [Loops -> Seq(Functors)], NEW l \in Loops, q[l] # <<>>, WellOrdered(q),
           NEW p, p = Taken(q, l),
           NEW w, w = Head(q[l])[1], NEW c, c = Head(q[l])[2]
    PROVE  /\ p \in [Loops -> Seq(Functors)] /\ WellOrdered(p)
           /\ w = "establish" \/ w = "destroy" \/ w = "remove"
           /\ Ticket(q, l, w, c)
           /\ \A m \in Loops : m # l => p[m] = q[m]
           /\ Len(q[l]) \in Nat /\ Len(p[l]) = Len(q[l]) - 1
           /\ \A i \in 1..Len(p[l]) : i + 1 \in 1..Len(q[l]) /\ p[l][i] = q[l][i + 1]
           /\ \A m \in Loops : \A v, d :
                 Ticket(p, m, v, d) <=> Ticket(q, m, v, d) /\ ~(m = l /\ v = w /\ d = c)
           /\ w = "destroy" => ~Ticket(q, l, "establish", c)
<1> DEFINE s == q[l]
           f == Head(s)
<1>1. /\ s \in Seq(Functors) /\ s # <<>>
      /\ Len(s) \in Nat /\ Len(s) > 0 /\ f = s[1] /\ f \in Functors
      /\ Tail(s) \in Seq(Functors) /\ Len(Tail(s)) = Len(s) - 1
      /\ \A i \in 1..Len(Tail(s)) : Tail(s)[i] = s[i + 1]
  BY HeadTailProperties, ElementOfSeq
<1>2. f = <<w, c>> /\ f[1] = w /\ f[2] = c /\ w \in {"establish", "destroy", "remove"}
  <2>1. f[1] = w /\ f[2] = c
    OBVIOUS
  <2> HIDE DEF f
  <2> QED
    BY <1>1, <2>1 DEF Functors
<1>3. p \in [Loops -> Seq(Functors)] /\ p[l] = Tail(s) /\ \A m \in Loops : m # l => p[m] = q[m]
  BY <1>1 DEF Taken
<1>4. \A i \in 1..Len(p[l]) : i + 1 \in 1..Len(s) /\ p[l][i] = s[i + 1]
  BY <1>1, <1>3
<1>5. \A i, j \in 1..Len(s) : i < j /\ s[i][2] = s[j][2] =>
          s[i][1] # s[j][1] /\ ~(s[i][1] = "destroy" /\ s[j][1] = "establish")
  BY DEF WellOrdered
<1> HIDE DEF f, s
<1>6. WellOrdered(p)
  <2> SUFFICES ASSUME NEW m \in Loops
               PROVE  \A i, j \in 1..Len(p[m]) :
                          i < j /\ p[m][i][2] = p[m][j][2] =>
                              /\ p[m][i][1] # p[m][j][1]
                              /\ ~(p[m][i][1] = "destroy" /\ p[m][j][1] = "establish")
    BY DEF WellOrdered
  <2> SUFFICES ASSUME NEW i \in 1..Len(p[m]), NEW j \in 1..Len(p[m]),
                      i < j, p[m][i][2] = p[m][j][2]
               PROVE  /\ p[m][i][1] # p[m][j][1]
                      /\ ~(p[m][i][1] = "destroy" /\ p[m][j][1] = "establish")
    OBVIOUS
  <2>1. CASE m # l
    <3>1. p[m] = q[m]
      BY <1>3, <2>1
    <3> QED
      BY <3>1 DEF WellOrdered
  <2>2. CASE m = l
    <3>1. i + 1 \in 1..Len(s) /\ j + 1 \in 1..Len(s) /\ p[m][i] = s[i + 1] /\ p[m][j] = s[j + 1]
      BY <1>4, <2>2
    <3>2. i + 1 < j + 1
      BY <1>1, <1>3, <2>2
    <3> QED
      BY <1>5, <3>1, <3>2
  <2> QED
    BY <2>1, <2>2
<1>7. ASSUME NEW v, NEW d
      PROVE  Ticket(p, l, v, d) <=> Ticket(q, l, v, d) /\ ~(v = w /\ d = c)
  <2> DEFINE g == <<v, d>>
  <2>1. g[1] = v /\ g[2] = d /\ (g = f <=> v = w /\ d = c)
    BY <1>2
  <2> HIDE DEF g
  <2>2. ASSUME NEW i \in 1..Len(p[l]), p[l][i] = g
        PROVE  (\E k \in 1..Len(s) : s[k] = g) /\ g # f
    <3>1. i + 1 \in 1..Len(s) /\ s[i + 1] = g /\ 1 \in 1..Len(s) /\ 1 < i + 1
      BY <1>1, <1>3, <1>4, <2>2
    <3>2. s[1][2] = s[i + 1][2] => s[1][1] # s[i + 1][1]
      BY <1>5, <3>1
    <3> QED
      BY <1>1, <3>1, <3>2
  <2>3. ASSUME NEW k \in 1..Len(s), s[k] = g, g # f
        PROVE  \E i \in 1..Len(p[l]) : p[l][i] = g
    <3>1. k # 1
      BY <1>1, <2>3
    <3>2. k - 1 \in 1..Len(p[l]) /\ (k - 1) + 1 = k
      BY <1>1, <1>3, <3>1
    <3> QED
      BY <1>4, <2>3, <3>2
  <2> QED
    BY <2>1, <2>2, <2>3 DEF Ticket, g, s
<1>8. \A m \in Loops : \A v, d : m # l => (Ticket(p, m, v, d) <=> Ticket(q, m, v, d))
  BY <1>3 DEF Ticket
<1>9. 1 \in 1..Len(s)
  BY <1>1
<1>10. Ticket(q, l, w, c)
  BY <1>1, <1>2, <1>9 DEF Ticket, s
<1>11. ASSUME w = "destroy", Ticket(q, l, "establish", c) PROVE FALSE
  <2>1. PICK j \in 1..Len(s) : s[j] = <<"establish", c>>
    BY <1>11 DEF Ticket, s
  <2>2. s[j][1] = "establish" /\ s[j][2] = c /\ s[1][1] = w /\ s[1][2] = c
    BY <1>1, <1>2, <2>1
  <2>3. j # 1 /\ 1 < j
    BY <1>1, <1>11, <2>2
  <2> QED
    BY <1>1, <1>5, <1>9, <1>11, <2>2, <2>3
<1>12. \A m \in Loops : \A v, d :
           Ticket(p, m, v, d) <=> Ticket(q, m, v, d) /\ ~(m = l /\ v = w /\ d = c)
  BY <1>7, <1>8
<1>13. Len(s) \in Nat /\ Len(p[l]) = Len(s) - 1
  BY <1>1, <1>3
<1>14. w = "establish" \/ w = "destroy" \/ w = "remove"
  BY <1>2
<1>15. p \in [Loops -> Seq(Functors)] /\ \A m \in Loops : m # l => p[m] = q[m]
  BY <1>3
<1> QED
  BY <1>2, <1>4, <1>6, <1>10, <1>11, <1>12, <1>13, <1>14, <1>15 DEF s

\* The tickets left, alone: what most steps that call a functor need.
LEMMA TakenTickets ==
    ASSUME NEW q \in [Loops -> Seq(Functors)], NEW l \in Loops, q[l] # <<>>, WellOrdered(q),
           NEW p, p = Taken(q, l),
           NEW w, w = Head(q[l])[1], NEW c, c = Head(q[l])[2]
    PROVE  \A m \in Loops : \A v, d :
              Ticket(p, m, v, d) <=> Ticket(q, m, v, d) /\ ~(m = l /\ v = w /\ d = c)
BY TakeTicket, SMTT(20)

-----------------------------------------------------------------------------
(* The steps, one by one.                                                  *)

\* The types of what is counted and of what has a place.
LEMMA Numbers ==
    ASSUME ServerIInv
    PROVE  /\ MaxThreads \in Nat /\ MaxClients \in Nat
           /\ 0 \in Loops /\ IoLoops \subseteq Loops /\ 0 \notin IoLoops
           /\ server.next_connid \in Nat /\ server.thread_num \in 0..MaxThreads
           /\ server.next \in Nat /\ server.started \in Nat
           /\ server.state \in {"alive", "dying", "dead"}
           /\ acceptor.backlog \in Int /\ acceptor.arrived \in Nat
           /\ Conns \subseteq Nat
           /\ \A c \in Conns : conn[c] \in Connections
           /\ \A c \in Conns : conn[c].ups \in Nat /\ conn[c].downs \in Nat /\ conn[c].loop \in Nat
                               /\ conn[c].out \in BOOLEAN /\ conn[c].registered \in BOOLEAN
<1>1. MaxThreads \in Nat /\ MaxClients \in Nat
  BY TcpServerAssumption
<1>2. /\ server.next_connid \in Nat /\ server.thread_num \in 0..MaxThreads
      /\ server.next \in Nat /\ server.started \in Nat
      /\ server.state \in {"alive", "dying", "dead"}
  BY DEF ServerIInv, RecordsOK, Servers
<1>3. acceptor.backlog \in Int /\ acceptor.arrived \in Nat
  BY DEF ServerIInv, RecordsOK, Acceptors
<1>4. \A c \in Conns : conn[c] \in Connections
  BY DEF ServerIInv, RecordsOK
<1>5. \A r \in Connections : /\ r.ups \in Nat /\ r.downs \in Nat /\ r.loop \in Nat
                             /\ r.out \in BOOLEAN /\ r.registered \in BOOLEAN
  BY DEF Connections
<1> QED
  BY <1>1, <1>2, <1>3, <1>4, <1>5 DEF Loops, IoLoops, Conns

\* Who has not seen the end yet is listed while the server lives.
LEMMA OpenIsListed ==
    ASSUME ServerIInv, RouteInv, NEW c \in Conns, Told(c), ~Finished(c), server.state = "alive"
    PROVE  c \in server.connections
<1>1. StageOK(c) /\ CaughtOK(c) /\ IoLoops \subseteq Loops
  BY Numbers DEF RouteInv
<1>2. c \notin caught
  BY <1>1 DEF CaughtOK, RouteInv, PhaseInv
<1> QED
  BY <1>1, <1>2 DEF StageOK

\* A handler or a timer that closes a connection finds the server there: what the
\* server's own loop has left when it is gone is finished, and the pool's loops
\* have ended.
LEMMA CloseFindsServer ==
    ASSUME ServerIInv, RouteInv, NEW c \in Conns, Handling(conn[c].loop),
           conn[c].state = "kConnected" \/ (conn[c].registered /\ conn[c].out)
    PROVE  server.state # "dead" /\ Told(c) /\ ~Finished(c)
<1>1. StageOK(c) /\ CaughtOK(c) /\ 0 \notin IoLoops /\ c \in Nat /\ server.next_connid \in Nat
  BY Numbers DEF RouteInv
<1>2. Told(c) /\ ~Finished(c)
  BY <1>1 DEF StageOK, Finished
<1>3. ASSUME server.state = "dead" PROVE FALSE
  <2>1. server.connections = {} /\ \A l \in IoLoops : loop[l].phase = "exited"
    BY <1>3 DEF RouteInv, PhaseInv
  <2>2. conn[c].loop \notin IoLoops
    BY <1>1, <2>1 DEF Handling
  <2>3. conn[c].loop = 0
    BY <1>1, <2>2 DEF StageOK
  <2>4. Ending(c)
    BY <1>1, <1>2, <2>1, <2>2 DEF StageOK, CaughtOK
  <2> QED
    BY <1>1, <1>2, <2>3, <2>4 DEF StageOK
<1> QED
  BY <1>2, <1>3

\* What a close does to the tickets and the list.
LEMMA CloseTickets ==
    ASSUME ServerIInv, RouteInv, NEW c \in Conns, ~Finished(c), server.state # "dead",
           CloseCallBack(c)
    PROVE  /\ queue' \in [Loops -> Seq(Functors)] /\ WellOrdered(queue')
           /\ \A l \in IoLoops : queue'[l] = queue[l]
           /\ server'.next_connid = server.next_connid /\ server'.state = server.state
           /\ server'.started = server.started /\ server'.thread_num = server.thread_num
           /\ server'.next = server.next
           /\ conn[c].loop = 0 =>
                 /\ server'.connections = server.connections \ {c}
                 /\ \A l \in Loops : \A v, d : Ticket(queue', l, v, d) <=>
                       Ticket(queue, l, v, d) \/ (l = 0 /\ v = "destroy" /\ d = c)
           /\ conn[c].loop # 0 =>
                 /\ server'.connections = server.connections
                 /\ \A l \in Loops : \A v, d : Ticket(queue', l, v, d) <=>
                       Ticket(queue, l, v, d) \/ (l = 0 /\ v = "remove" /\ d = c)
<1>1. StageOK(c) /\ WellOrdered(queue) /\ queue \in [Loops -> Seq(Functors)] /\ c \in Nat
      /\ 0 \in Loops /\ IoLoops \subseteq Loops /\ 0 \notin IoLoops
  BY Numbers DEF RouteInv, TicketInv, RouteTypes
<1>2. CASE conn[c].loop = 0
  <2>1. server' = [server EXCEPT !.connections = @ \ {c}] /\ queue' = Put(queue, 0, "destroy", c)
    BY <1>2 DEF CloseCallBack
  <2>2. ~Ticket(queue, 0, "destroy", c)
    BY <1>1, <1>2 DEF StageOK, Ending
  <2>3. /\ queue' \in [Loops -> Seq(Functors)] /\ WellOrdered(queue')
        /\ \A l \in IoLoops : queue'[l] = queue[l]
        /\ \A l \in Loops : \A v, d :
              Ticket(queue', l, v, d) <=> Ticket(queue, l, v, d) \/ (l = 0 /\ v = "destroy" /\ d = c)
    <3> DEFINE p == queue'
               f == <<"destroy", c>>
    <3>1. /\ p = Put(queue, 0, "destroy", c) /\ f = <<"destroy", c>>
          /\ queue \in [Loops -> Seq(Functors)] /\ WellOrdered(queue)
          /\ c \in Nat /\ 0 \in Loops /\ ~Ticket(queue, 0, "destroy", c)
      BY <1>1, <2>1, <2>2
    <3> HIDE DEF p, f
    <3>2. /\ p \in [Loops -> Seq(Functors)]
          /\ \A m \in Loops : m # 0 => p[m] = queue[m]
          /\ \A l \in Loops : \A v, d :
                Ticket(p, l, v, d) <=> Ticket(queue, l, v, d) \/ (l = 0 /\ v = "destroy" /\ d = c)
      BY <3>1, PutTicket
    <3>3. WellOrdered(p)
      BY <3>1, PutOrdered
    <3> QED
      BY <1>1, <3>2, <3>3 DEF p
  <2>4. /\ server'.next_connid = server.next_connid /\ server'.state = server.state
        /\ server'.started = server.started /\ server'.thread_num = server.thread_num
        /\ server'.next = server.next /\ server'.connections = server.connections \ {c}
    BY <2>1 DEF ServerIInv, RecordsOK, Servers
  <2> QED
    BY <1>2, <2>3, <2>4
<1>3. CASE conn[c].loop # 0
  <2>1. server' = server /\ queue' = Put(queue, 0, "remove", c)
    BY <1>3 DEF CloseCallBack
  <2>2. ~Ticket(queue, 0, "remove", c)
    BY <1>1 DEF StageOK, Closing
  <2>3. /\ queue' \in [Loops -> Seq(Functors)] /\ WellOrdered(queue')
        /\ \A l \in IoLoops : queue'[l] = queue[l]
        /\ \A l \in Loops : \A v, d :
              Ticket(queue', l, v, d) <=> Ticket(queue, l, v, d) \/ (l = 0 /\ v = "remove" /\ d = c)
    <3> DEFINE p == queue'
               f == <<"remove", c>>
    <3>1. /\ p = Put(queue, 0, "remove", c) /\ f = <<"remove", c>>
          /\ queue \in [Loops -> Seq(Functors)] /\ WellOrdered(queue)
          /\ c \in Nat /\ 0 \in Loops /\ ~Ticket(queue, 0, "remove", c)
      BY <1>1, <2>1, <2>2
    <3> HIDE DEF p, f
    <3>2. /\ p \in [Loops -> Seq(Functors)]
          /\ \A m \in Loops : m # 0 => p[m] = queue[m]
          /\ \A l \in Loops : \A v, d :
                Ticket(p, l, v, d) <=> Ticket(queue, l, v, d) \/ (l = 0 /\ v = "remove" /\ d = c)
      BY <3>1, PutTicket
    <3>3. WellOrdered(p)
      BY <3>1, PutOrdered
    <3> QED
      BY <1>1, <3>2, <3>3 DEF p
  <2> QED
    BY <1>3, <2>1, <2>3
<1> QED
  BY <1>2, <1>3

\* HandleRead(), HandleWrite() and the timer of a connection, and what its peer does.
LEMMA ConnectionRoutes ==
    ASSUME ServerIInv, RouteInv, NEW c \in Conns, ConnectionStep(c)
    PROVE  RouteInv'
<1>1. UNCHANGED <<acceptor, base_pc, loop, caught>>
  BY ConnectionStepIs
<1>2. \A d \in Conns :
         /\ conn'[d].loop = conn[d].loop /\ conn'[d].registered = conn[d].registered
         /\ conn'[d].ups = conn[d].ups /\ conn'[d].downs = conn[d].downs
         /\ d # c => conn'[d] = conn[d]
         /\ conn[d].state = "kConnecting" => conn'[d].state = "kConnecting"
         /\ conn'[d].state = "kConnected" => conn[d].state = "kConnected"
         /\ Finished(d) => Finished(d)'
  BY ConnectionStepIs DEF Finished
<1>3. \/ UNCHANGED <<server, queue>>
      \/ /\ CloseCallBack(c) /\ server.state # "dead"
         /\ Told(c) /\ ~Finished(c) /\ Finished(c)'
  BY ConnectionStepIs, CloseFindsServer DEF Finished
<1>4. CASE UNCHANGED <<server, queue>>
  <2>1. RouteTypes' /\ CountInv' /\ PhaseInv' /\ IoLoops' = IoLoops
    BY <1>1, <1>4 DEF RouteInv, RouteTypes, CountInv, PhaseInv, CaughtBehind, IoLoops
  <2>2. TicketInv'
    BY <1>2, <1>4 DEF RouteInv, TicketInv, TicketOK
  <2>3. ASSUME NEW d \in Conns PROVE StageOK(d)'
    <3>1. (New(d)' <=> New(d)) /\ (Ending(d)' <=> Ending(d)) /\ (Closing(d)' <=> Closing(d))
      BY <1>2, <1>4 DEF New, Ending, Closing
    <3>2. StageOK(d)
      BY DEF RouteInv
    <3> QED
      BY <1>1, <1>2, <1>4, <2>1, <3>1, <3>2 DEF StageOK, Told
  <2>4. ASSUME NEW d \in Conns PROVE CaughtOK(d)'
    BY <1>1, <1>2, <2>1 DEF RouteInv, CaughtOK
  <2> QED
    BY <2>1, <2>2, <2>3, <2>4 DEF RouteInv
<1>5. CASE /\ CloseCallBack(c) /\ server.state # "dead"
           /\ Told(c) /\ ~Finished(c) /\ Finished(c)'
  <2>1. /\ queue' \in [Loops -> Seq(Functors)] /\ WellOrdered(queue')
        /\ \A l \in IoLoops : queue'[l] = queue[l]
        /\ server'.next_connid = server.next_connid /\ server'.state = server.state
        /\ server'.started = server.started /\ server'.thread_num = server.thread_num
        /\ server'.next = server.next
        /\ conn[c].loop = 0 =>
              /\ server'.connections = server.connections \ {c}
              /\ \A l \in Loops : \A v, d : Ticket(queue', l, v, d) <=>
                    Ticket(queue, l, v, d) \/ (l = 0 /\ v = "destroy" /\ d = c)
        /\ conn[c].loop # 0 =>
              /\ server'.connections = server.connections
              /\ \A l \in Loops : \A v, d : Ticket(queue', l, v, d) <=>
                    Ticket(queue, l, v, d) \/ (l = 0 /\ v = "remove" /\ d = c)
    BY <1>5, CloseTickets
  <2>2. /\ StageOK(c) /\ conn[c].ups = 1 /\ conn[c].downs = 0 /\ c < server.next_connid
        /\ server.state = "alive" => c \in server.connections
    <3>1. StageOK(c) /\ server.next_connid \in Nat /\ c \in Nat
      BY Numbers DEF RouteInv
    <3> QED
      BY <1>5, <3>1, OpenIsListed DEF StageOK, Told
  <2>3. IoLoops' = IoLoops /\ 0 \in Loops /\ IoLoops \subseteq Loops /\ 0 \notin IoLoops
    BY <2>1, Numbers DEF IoLoops
  <2>4. RouteTypes' /\ CountInv'
    BY <1>1, <2>1, <2>3 DEF RouteInv, RouteTypes, CountInv
  <2>5. PhaseInv'
    <3>1. server'.connections \subseteq server.connections
      BY <2>1
    <3>2. (server'.connections = {}) \/ (server.connections # {})
      BY <3>1
    <3>3. \A l \in Loops : loop[l].quit => server'.state # "alive" /\ server'.connections = {}
      BY <2>1, <3>2 DEF RouteInv, PhaseInv
    <3> QED
      BY <1>1, <1>5, <2>1, <2>3, <3>3 DEF RouteInv, PhaseInv, CaughtBehind
  <2>6. TicketInv'
    <3> SUFFICES ASSUME NEW l \in Loops, NEW v, NEW d, Ticket(queue', l, v, d)
                 PROVE  TicketOK(l, v, d)'
      BY <2>1 DEF TicketInv
    <3>1. CASE Ticket(queue, l, v, d)
      <4>1. TicketOK(l, v, d)
        BY <3>1 DEF RouteInv, TicketInv
      <4> QED
        BY <1>2, <2>1, <4>1 DEF TicketOK
    <3>2. CASE ~Ticket(queue, l, v, d)
      <4>1. l = 0 /\ d = c /\ ((conn[c].loop = 0 /\ v = "destroy") \/ (conn[c].loop # 0 /\ v = "remove"))
        BY <2>1, <3>2
      <4> QED
        BY <1>2, <2>1, <2>2, <4>1 DEF TicketOK
    <3> QED
      BY <3>1, <3>2
  <2>7. ASSUME NEW d \in Conns PROVE StageOK(d)'
    <3>1. StageOK(d) /\ 0 \in Loops /\ conn[d].loop \in Loops
      <4>1. StageOK(d)
        BY DEF RouteInv
      <4>2. d >= server.next_connid => conn[d].loop = 0
        BY DEF RouteInv, StageOK
      <4> QED
        BY <2>3, <4>1, <4>2, Numbers DEF StageOK
    <3>2. /\ New(d)' <=> New(d)
          /\ Ending(d)' <=> Ending(d) \/ (d = c /\ conn[c].loop = 0)
          /\ Closing(d)' <=> Closing(d) \/ (d = c /\ conn[c].loop # 0)
      BY <1>2, <2>1, <3>1 DEF New, Ending, Closing
    <3>3. CASE d # c
      <4>1. (New(d)' <=> New(d)) /\ (Ending(d)' <=> Ending(d)) /\ (Closing(d)' <=> Closing(d))
        BY <3>2, <3>3
      <4>2. d \in server'.connections <=> d \in server.connections
        BY <2>1, <3>3
      <4> QED
        BY <1>1, <1>2, <2>1, <2>3, <3>1, <4>1, <4>2 DEF StageOK, Told
    <3>4. CASE d = c /\ conn[c].loop = 0
      <4>1. (New(c)' <=> New(c)) /\ Ending(c)' /\ (Closing(c)' <=> Closing(c))
        BY <3>2, <3>4
      <4>2. c \notin server'.connections
        BY <2>1, <3>4
      <4> QED
        BY <1>1, <1>2, <1>5, <2>1, <2>2, <2>3, <3>4, <4>1, <4>2 DEF StageOK, Told
    <3>5. CASE d = c /\ conn[c].loop # 0
      <4>1. (New(c)' <=> New(c)) /\ (Ending(c)' <=> Ending(c)) /\ Closing(c)'
        BY <3>2, <3>5
      <4>2. server'.connections = server.connections
        BY <2>1, <3>5
      <4> QED
        BY <1>1, <1>2, <1>5, <2>1, <2>2, <2>3, <3>5, <4>1, <4>2 DEF StageOK, Told
    <3> QED
      BY <3>3, <3>4, <3>5
  <2>8. ASSUME NEW d \in Conns PROVE CaughtOK(d)'
    BY <1>1, <1>2, <2>3 DEF RouteInv, CaughtOK
  <2> QED
    BY <2>4, <2>5, <2>6, <2>7, <2>8 DEF RouteInv
<1> QED
  BY <1>3, <1>4, <1>5

\* DestroyConnection() and EstablishConnection() of one connection.
LEMMA DestroyIs ==
    ASSUME conn \in [Conns -> Connections], NEW c \in Conns, conn' = DestroyConnection(conn, c)
    PROVE  /\ \A d \in Conns : d # c => conn'[d] = conn[d]
           /\ conn'[c].state = "kDisconnected" /\ conn'[c].registered = FALSE
           /\ conn'[c].downs = conn[c].downs + 1 /\ conn'[c].ups = conn[c].ups
           /\ conn'[c].loop = conn[c].loop /\ conn'[c].out = conn[c].out
<1> DEFINE r == conn[c]
           n == r.downs + 1
<1>1. r \in Connections
  OBVIOUS
<1>2. conn' = [conn EXCEPT ![c] = [r EXCEPT !.state = "kDisconnected", !.registered = FALSE, !.downs = n]]
  BY DEF DestroyConnection
<1> HIDE DEF n
<1>3. conn'[c] = [r EXCEPT !.state = "kDisconnected", !.registered = FALSE, !.downs = n]
      /\ \A d \in Conns : d # c => conn'[d] = conn[d]
  BY <1>2
<1> HIDE DEF r
<1>4. /\ conn'[c].state = "kDisconnected" /\ conn'[c].registered = FALSE /\ conn'[c].downs = n
      /\ conn'[c].ups = r.ups /\ conn'[c].loop = r.loop /\ conn'[c].out = r.out
  BY <1>1, <1>3 DEF Connections
<1> QED
  BY <1>3, <1>4 DEF n, r

\* Established: one more of its ups, and nothing of another connection.
LEMMA EstablishIs ==
    ASSUME NEW cs \in [Conns -> Connections], NEW c \in Conns, conn' = EstablishConnection(cs, c)
    PROVE  /\ \A d \in Conns : d # c => conn'[d] = cs[d]
           /\ conn'[c].state = "kConnected" /\ conn'[c].registered = TRUE
           /\ conn'[c].ups = cs[c].ups + 1 /\ conn'[c].downs = cs[c].downs
           /\ conn'[c].loop = cs[c].loop /\ conn'[c].out = cs[c].out
<1> DEFINE r == cs[c]
           n == r.ups + 1
<1>1. r \in Connections
  OBVIOUS
<1>2. conn' = [cs EXCEPT ![c] = [r EXCEPT !.state = "kConnected", !.registered = TRUE, !.ups = n]]
  BY DEF EstablishConnection
<1> HIDE DEF n
<1>3. conn'[c] = [r EXCEPT !.state = "kConnected", !.registered = TRUE, !.ups = n]
      /\ \A d \in Conns : d # c => conn'[d] = cs[d]
  BY <1>2
<1> HIDE DEF r
<1>4. /\ conn'[c].state = "kConnected" /\ conn'[c].registered = TRUE /\ conn'[c].ups = n
      /\ conn'[c].downs = r.downs /\ conn'[c].loop = r.loop /\ conn'[c].out = r.out
  BY <1>1, <1>3 DEF Connections
<1> QED
  BY <1>3, <1>4 DEF n, r

\* A connection's loop is one there is.
LEMMA LoopExists ==
    ASSUME ServerIInv, RouteInv, NEW c \in Conns
    PROVE  StageOK(c) /\ conn[c].loop \in Loops /\ c \in Nat
<1>1. StageOK(c)
  BY DEF RouteInv
<1> QED
  BY <1>1, Numbers DEF StageOK

\* RemoveTcpConnection's closure, and DestroyConnection in the server's loop.
LEMMA BaseFunctorRoutes ==
    ASSUME ServerIInv, RouteInv, BaseFunctor
    PROVE  RouteInv'
<1>0. PICK w, c : w = Head(queue[0])[1] /\ c = Head(queue[0])[2]
  OBVIOUS
<1> DEFINE rest == Taken(queue, 0)
<1>1. /\ UNCHANGED <<acceptor, base_pc, loop, caught>> /\ queue[0] # <<>> /\ base_pc = "loop"
      /\ \/ w = "remove" /\ RemoveClosure(c) /\ UNCHANGED conn
         \/ w = "destroy" /\ conn' = DestroyConnection(conn, c) /\ queue' = rest /\ UNCHANGED server
  BY <1>0 DEF BaseFunctor, Taken
<1>2. /\ queue \in [Loops -> Seq(Functors)] /\ WellOrdered(queue)
      /\ 0 \in Loops /\ IoLoops \subseteq Loops /\ 0 \notin IoLoops
  BY Numbers DEF RouteInv, RouteTypes, TicketInv
<1>3. /\ rest \in [Loops -> Seq(Functors)] /\ WellOrdered(rest)
      /\ Ticket(queue, 0, w, c)
      /\ \A l \in Loops : l # 0 => rest[l] = queue[l]
      /\ \A l \in Loops : \A v, d :
            Ticket(rest, l, v, d) <=> Ticket(queue, l, v, d) /\ ~(l = 0 /\ v = w /\ d = c)
  <2> DEFINE p == rest
  <2>1. p = Taken(queue, 0)
    OBVIOUS
  <2> HIDE DEF p
  <2>2. /\ p \in [Loops -> Seq(Functors)] /\ WellOrdered(p)
        /\ Ticket(queue, 0, w, c)
        /\ \A l \in Loops : l # 0 => p[l] = queue[l]
        /\ \A l \in Loops : \A v, d :
              Ticket(p, l, v, d) <=> Ticket(queue, l, v, d) /\ ~(l = 0 /\ v = w /\ d = c)
    BY <1>0, <1>1, <1>2, <2>1, TakeTicket
  <2> QED
    BY <2>2 DEF p
<1> HIDE DEF rest
<1>4. TicketOK(0, w, c)
  BY <1>2, <1>3 DEF RouteInv, TicketInv
<1>5. c \in Conns /\ StageOK(c) /\ conn[c].loop \in Loops /\ c < server.next_connid /\ c \in Nat
  BY <1>4, LoopExists DEF TicketOK
<1>6. \A d \in Conns : StageOK(d) /\ conn[d].loop \in Loops /\ CaughtOK(d)
  BY LoopExists DEF RouteInv
<1>7. CASE w = "remove" /\ RemoveClosure(c) /\ UNCHANGED conn /\ server.state = "alive"
  <2>1. /\ server' = [server EXCEPT !.connections = @ \ {c}]
        /\ queue' = Put(rest, conn[c].loop, "destroy", c)
    BY <1>7 DEF RemoveClosure, rest, Taken
  <2>2. /\ server'.state = "alive" /\ server'.next_connid = server.next_connid
        /\ server'.started = server.started /\ server'.thread_num = server.thread_num
        /\ server'.next = server.next /\ server'.connections = server.connections \ {c}
    BY <1>7, <2>1 DEF ServerIInv, RecordsOK, Servers
  <2>3. /\ Closing(c) /\ Finished(c) /\ c \in server.connections /\ conn[c].loop # 0
        /\ conn[c].downs = 0 /\ ~Ending(c)
    <3>1. Closing(c)
      BY <1>3, <1>7 DEF Closing
    <3> QED
      BY <1>5, <1>7, <3>1 DEF StageOK
  <2>4. /\ queue' \in [Loops -> Seq(Functors)] /\ WellOrdered(queue')
        /\ \A l \in Loops : l # conn[c].loop => queue'[l] = rest[l]
        /\ Len(queue'[conn[c].loop]) = Len(queue[conn[c].loop]) + 1
        /\ Len(queue[conn[c].loop]) \in Nat
        /\ \A l \in Loops : \A v, d :
              Ticket(queue', l, v, d) <=>
                 \/ Ticket(queue, l, v, d) /\ ~(l = 0 /\ v = "remove" /\ d = c)
                 \/ l = conn[c].loop /\ v = "destroy" /\ d = c
    <3> DEFINE p == queue'
               m == conn[c].loop
               g == <<"destroy", c>>
    <3>1. p = Put(rest, m, "destroy", c) /\ m \in Loops /\ g = <<"destroy", c>>
          /\ m # 0 /\ ~Ticket(queue, m, "destroy", c) /\ rest[m] = queue[m]
      BY <1>3, <1>5, <2>1, <2>3 DEF Ending
    <3> HIDE DEF p, m, g
    <3>2. /\ p \in [Loops -> Seq(Functors)]
          /\ \A l \in Loops : l # m => p[l] = rest[l]
          /\ Len(rest[m]) \in Nat /\ Len(p[m]) = Len(rest[m]) + 1
          /\ \A l \in Loops : \A v, d :
                Ticket(p, l, v, d) <=> Ticket(rest, l, v, d) \/ (l = m /\ v = "destroy" /\ d = c)
      BY <1>3, <1>5, <3>1, PutTicket
    <3>3. ~Ticket(rest, m, "destroy", c)
      BY <1>3, <3>1
    <3>4. WellOrdered(p)
      BY <1>3, <1>5, <3>1, <3>3, PutOrdered
    <3>5. \A l \in Loops : \A v, d :
              Ticket(rest, l, v, d) <=> Ticket(queue, l, v, d) /\ ~(l = 0 /\ v = "remove" /\ d = c)
      BY <1>3, <1>7
    <3> QED
      BY <3>1, <3>2, <3>4, <3>5 DEF p, m
  <2>5. IoLoops' = IoLoops
    BY <2>2 DEF IoLoops
  <2>6. RouteTypes' /\ CountInv'
    BY <1>1, <2>2, <2>4, <2>5 DEF RouteInv, RouteTypes, CountInv
  <2>7. PhaseInv'
    <3>1. \A l \in Loops : ~loop[l].quit
      BY <1>7 DEF RouteInv, PhaseInv
    <3>2. ASSUME NEW l \in IoLoops
          PROVE  loop[l].phase \in {"events", "functors"} /\ ~loop[l].quit
      <4>1. l \in Loops
        BY <1>2
      <4> QED
        BY <3>1, <4>1 DEF RouteInv, PhaseInv
    <3> QED
      BY <1>1, <1>7, <2>2, <2>5, <3>1, <3>2 DEF RouteInv, PhaseInv, CaughtBehind
  <2>8. TicketInv'
    <3> SUFFICES ASSUME NEW l \in Loops, NEW v, NEW d, Ticket(queue', l, v, d)
                 PROVE  TicketOK(l, v, d)'
      BY <2>4 DEF TicketInv
    <3>1. CASE Ticket(queue, l, v, d)
      <4>1. TicketOK(l, v, d)
        BY <3>1 DEF RouteInv, TicketInv
      <4> QED
        BY <1>7, <2>2, <4>1 DEF TicketOK
    <3>2. CASE ~Ticket(queue, l, v, d)
      <4>1. l = conn[c].loop /\ v = "destroy" /\ d = c
        BY <2>4, <3>2
      <4> QED
        BY <1>5, <1>7, <2>2, <4>1 DEF TicketOK
    <3> QED
      BY <3>1, <3>2
  <2>9. ASSUME NEW d \in Conns PROVE StageOK(d)'
    <3>1. /\ New(d)' <=> New(d)
          /\ Ending(d)' <=> Ending(d) \/ d = c
          /\ Closing(d)' <=> Closing(d) /\ d # c
      BY <1>2, <1>6, <1>7, <2>3, <2>4 DEF New, Ending, Closing
    <3>2. CASE d # c
      <4>1. (New(d)' <=> New(d)) /\ (Ending(d)' <=> Ending(d)) /\ (Closing(d)' <=> Closing(d))
            /\ (d \in server'.connections <=> d \in server.connections)
        BY <2>2, <3>1, <3>2
      <4> QED
        BY <1>1, <1>6, <1>7, <2>2, <2>5, <4>1 DEF StageOK, Finished, Told
    <3>3. CASE d = c
      <4>1. (New(c)' <=> New(c)) /\ Ending(c)' /\ ~Closing(c)' /\ c \notin server'.connections
        BY <2>2, <3>1, <3>3
      <4> QED
        BY <1>1, <1>5, <1>7, <2>2, <2>3, <2>5, <3>3, <4>1 DEF StageOK, Finished, Told
    <3> QED
      BY <3>2, <3>3
  <2>10. ASSUME NEW d \in Conns PROVE CaughtOK(d)'
    BY <1>1, <1>6, <1>7, <2>5 DEF CaughtOK
  <2> QED
    BY <2>6, <2>7, <2>8, <2>9, <2>10 DEF RouteInv
\* Otherwise a ticket goes, and nothing else moves.
<1>8. ASSUME queue' = rest, w = "remove" \/ w = "destroy",
             server'.next_connid = server.next_connid, server'.state = server.state,
             server'.started = server.started, server'.thread_num = server.thread_num,
             server'.next = server.next, server'.connections = server.connections,
             \A d \in Conns : conn'[d].loop = conn[d].loop
      PROVE  /\ RouteTypes' /\ CountInv' /\ PhaseInv' /\ TicketInv' /\ IoLoops' = IoLoops
             /\ \A d \in Conns :
                   /\ New(d)' <=> New(d)
                   /\ Ending(d)' <=> Ending(d) /\ ~(w = "destroy" /\ d = c)
                   /\ Closing(d)' <=> Closing(d) /\ ~(w = "remove" /\ d = c)
  <2>1. IoLoops' = IoLoops
    BY <1>8 DEF IoLoops
  <2>2. RouteTypes' /\ CountInv'
    BY <1>1, <1>3, <1>8, <2>1 DEF RouteInv, RouteTypes, CountInv
  <2>3. PhaseInv'
    <3>1. \A l \in IoLoops : queue'[l] = queue[l]
      BY <1>2, <1>3, <1>8
    <3> QED
      BY <1>1, <1>8, <2>1, <3>1 DEF RouteInv, PhaseInv, CaughtBehind
  <2>4. TicketInv'
    <3> SUFFICES ASSUME NEW l \in Loops, NEW v, NEW d, Ticket(queue', l, v, d)
                 PROVE  TicketOK(l, v, d)'
      BY <1>3, <1>8 DEF TicketInv
    <3>1. TicketOK(l, v, d)
      BY <1>3, <1>8 DEF RouteInv, TicketInv
    <3> QED
      BY <1>8, <3>1 DEF TicketOK
  <2>5. ASSUME NEW d \in Conns
        PROVE  /\ New(d)' <=> New(d)
               /\ Ending(d)' <=> Ending(d) /\ ~(w = "destroy" /\ d = c)
               /\ Closing(d)' <=> Closing(d) /\ ~(w = "remove" /\ d = c)
    <3>1. w = "destroy" => conn[c].loop = 0
      BY <1>4 DEF TicketOK
    <3>2. /\ New(d)' <=> Ticket(rest, conn[d].loop, "establish", d)
          /\ Ending(d)' <=> Ticket(rest, conn[d].loop, "destroy", d)
          /\ Closing(d)' <=> Ticket(rest, 0, "remove", d)
      BY <1>8 DEF New, Ending, Closing
    <3> QED
      BY <1>2, <1>3, <1>6, <1>8, <3>1, <3>2 DEF New, Ending, Closing
  <2> QED
    BY <2>1, <2>2, <2>3, <2>4, <2>5
<1>9. CASE w = "remove" /\ RemoveClosure(c) /\ UNCHANGED conn /\ server.state # "alive"
  <2>1. UNCHANGED server /\ queue' = rest
    BY <1>9 DEF RemoveClosure, rest, Taken
  <2>2. /\ RouteTypes' /\ CountInv' /\ PhaseInv' /\ TicketInv' /\ IoLoops' = IoLoops
        /\ \A d \in Conns :
              /\ New(d)' <=> New(d)
              /\ Ending(d)' <=> Ending(d)
              /\ Closing(d)' <=> Closing(d) /\ d # c
    BY <1>8, <1>9, <2>1
  <2>3. ASSUME NEW d \in Conns PROVE StageOK(d)'
    <3>1. (New(d)' <=> New(d)) /\ (Ending(d)' <=> Ending(d)) /\ (Closing(d)' => Closing(d))
      BY <2>2
    <3> QED
      BY <1>1, <1>6, <1>9, <2>1, <2>2, <3>1 DEF StageOK, Finished, Told
  <2>4. ASSUME NEW d \in Conns PROVE CaughtOK(d)'
    BY <1>1, <1>6, <1>9, <2>2 DEF CaughtOK
  <2> QED
    BY <2>2, <2>3, <2>4 DEF RouteInv
<1>10. CASE w = "destroy" /\ conn' = DestroyConnection(conn, c) /\ queue' = rest /\ UNCHANGED server
  <2>1. /\ \A d \in Conns : d # c => conn'[d] = conn[d]
        /\ conn'[c].state = "kDisconnected" /\ conn'[c].registered = FALSE
        /\ conn'[c].downs = conn[c].downs + 1 /\ conn'[c].ups = conn[c].ups
        /\ conn'[c].loop = conn[c].loop /\ conn'[c].out = conn[c].out
    BY <1>5, <1>10, DestroyIs DEF ServerIInv, RecordsOK
  <2>2. /\ RouteTypes' /\ CountInv' /\ PhaseInv' /\ TicketInv' /\ IoLoops' = IoLoops
        /\ \A d \in Conns :
              /\ New(d)' <=> New(d)
              /\ Ending(d)' <=> Ending(d) /\ d # c
              /\ Closing(d)' <=> Closing(d)
    <3>1. \A d \in Conns : conn'[d].loop = conn[d].loop
      BY <2>1
    <3> QED
      BY <1>8, <1>10, <3>1
  <2>3. /\ conn[c].loop = 0 /\ Ending(c) /\ ~New(c) /\ ~Closing(c)
    <3>1. conn[c].loop = 0 /\ Ending(c)
      BY <1>3, <1>4, <1>10 DEF TicketOK, Ending
    <3>2. ~Ticket(queue, 0, "establish", c)
      BY <1>2 DEF RouteInv, TicketInv, TicketOK
    <3> QED
      BY <1>5, <3>1, <3>2 DEF StageOK, New
  <2>4. conn[c].downs = 0 /\ conn[c].ups = 1 /\ c \notin server.connections
    BY <1>5, <2>3 DEF StageOK
  <2>5. ASSUME NEW d \in Conns PROVE StageOK(d)'
    <3>1. CASE d # c
      <4>1. (New(d)' <=> New(d)) /\ (Ending(d)' <=> Ending(d)) /\ (Closing(d)' <=> Closing(d))
        BY <2>2, <3>1
      <4> QED
        BY <1>1, <1>6, <1>10, <2>1, <2>2, <3>1, <4>1 DEF StageOK, Finished, Told
    <3>2. CASE d = c
      <4>1. ~New(c)' /\ ~Ending(c)' /\ ~Closing(c)'
        BY <1>5, <2>2, <2>3
      <4>2. conn'[c].downs = 1
        BY <2>1, <2>4
      <4> QED
        BY <1>1, <1>5, <1>10, <2>1, <2>2, <2>3, <2>4, <3>2, <4>1, <4>2, Numbers DEF StageOK, Told
    <3> QED
      BY <3>1, <3>2
  <2>6. ASSUME NEW d \in Conns PROVE CaughtOK(d)'
    <3>1. c \notin caught
      BY <1>2, <1>5, <1>6, <2>3 DEF CaughtOK
    <3> QED
      BY <1>1, <1>5, <1>6, <2>1, <2>2, <3>1 DEF CaughtOK
  <2> QED
    BY <2>2, <2>5, <2>6 DEF RouteInv
<1> QED
  BY <1>1, <1>7, <1>9, <1>10

\* A loop calls one functor of its batch.
LEMMA RunRoutes ==
    ASSUME ServerIInv, RouteInv, NEW l \in IoLoops, RunFunctor(l)
    PROVE  RouteInv'
<1>1. PICK w, c : w = Head(queue[l])[1] /\ c = Head(queue[l])[2]
  OBVIOUS
<1> DEFINE rest == Taken(queue, l)
           n == loop[l].batch - 1
<1>2. /\ UNCHANGED <<server, acceptor, base_pc, caught>> /\ queue' = rest
      /\ loop' = [loop EXCEPT ![l] = [@ EXCEPT !.batch = n]]
      /\ loop[l].phase = "functors" /\ loop[l].batch > 0
      /\ conn' = IF w = "establish" THEN EstablishConnection(conn, c) ELSE DestroyConnection(conn, c)
  BY <1>1 DEF RunFunctor, Taken
<1>3. /\ queue \in [Loops -> Seq(Functors)] /\ loop \in [Loops -> LoopStates] /\ WellOrdered(queue)
      /\ l \in Loops /\ l # 0 /\ 0 \in Loops
      /\ conn \in [Conns -> Connections]
  BY Numbers DEF RouteInv, RouteTypes, TicketInv, ServerIInv, RecordsOK
<1>4. /\ loop[l] \in LoopStates /\ loop[l].batch \in Nat /\ loop[l].batch <= Len(queue[l])
      /\ Len(queue[l]) \in Nat /\ queue[l] # <<>>
  <2>1. loop[l] \in LoopStates /\ queue[l] \in Seq(Functors)
    BY <1>3
  <2>2. loop[l].batch \in Nat /\ loop[l].batch <= Len(queue[l])
    BY <1>2, <1>3, <2>1 DEF LoopStates, ServerIInv, BatchInv
  <2> QED
    BY <1>2, <2>1, <2>2
<1>5. /\ n \in Nat
      /\ loop' \in [Loops -> LoopStates] /\ loop'[l].batch = n
      /\ \A m \in Loops : /\ loop'[m].phase = loop[m].phase /\ loop'[m].quit = loop[m].quit
                          /\ m # l => loop'[m] = loop[m]
  <2>1. n \in Nat
    BY <1>2, <1>4
  <2> HIDE DEF n
  <2>2. \A m \in Loops : loop'[m] = IF m = l THEN [loop[l] EXCEPT !.batch = n] ELSE loop[m]
    BY <1>2, <1>3
  <2>3. /\ [loop[l] EXCEPT !.batch = n] \in LoopStates
        /\ [loop[l] EXCEPT !.batch = n].batch = n
        /\ [loop[l] EXCEPT !.batch = n].phase = loop[l].phase
        /\ [loop[l] EXCEPT !.batch = n].quit = loop[l].quit
    BY <1>4, <2>1 DEF LoopStates
  <2>4. loop' = [m \in Loops |-> loop'[m]]
    BY <1>2, <1>3
  <2> QED
    BY <1>3, <2>1, <2>2, <2>3, <2>4
<1>6. /\ rest \in [Loops -> Seq(Functors)] /\ WellOrdered(rest)
      /\ w = "establish" \/ w = "destroy" \/ w = "remove"
      /\ Ticket(queue, l, w, c)
      /\ \A m \in Loops : m # l => rest[m] = queue[m]
      /\ Len(rest[l]) = Len(queue[l]) - 1
      /\ \A i \in 1..Len(rest[l]) : i + 1 \in 1..Len(queue[l]) /\ rest[l][i] = queue[l][i + 1]
      /\ \A m \in Loops : \A v, d :
            Ticket(rest, m, v, d) <=> Ticket(queue, m, v, d) /\ ~(m = l /\ v = w /\ d = c)
      /\ w = "destroy" => ~Ticket(queue, l, "establish", c)
  <2> DEFINE p == rest
  <2>1. p = Taken(queue, l) /\ queue \in [Loops -> Seq(Functors)] /\ l \in Loops
        /\ queue[l] # <<>> /\ WellOrdered(queue)
    BY <1>3, <1>4
  <2> HIDE DEF p
  <2>2. p \in [Loops -> Seq(Functors)] /\ WellOrdered(p)
    BY <1>1, <2>1, TakeTicket, SMTT(20)
  <2>7. \A m \in Loops : m # l => p[m] = queue[m]
    BY <1>1, <2>1, TakeTicket, SMTT(20)
  <2>5. (w = "establish" \/ w = "destroy" \/ w = "remove") /\ Ticket(queue, l, w, c)
    BY <1>1, <2>1, TakeTicket
  <2>6. w = "destroy" => ~Ticket(queue, l, "establish", c)
    BY <1>1, <2>1, TakeTicket
  <2>3. /\ Len(p[l]) = Len(queue[l]) - 1
        /\ \A i \in 1..Len(p[l]) : i + 1 \in 1..Len(queue[l]) /\ p[l][i] = queue[l][i + 1]
    BY <1>1, <2>1, TakeTicket
  <2>4. \A m \in Loops : \A v, d :
           Ticket(p, m, v, d) <=> Ticket(queue, m, v, d) /\ ~(m = l /\ v = w /\ d = c)
    BY <1>1, <2>1, TakenTickets
  <2> QED
    BY <2>2, <2>3, <2>4, <2>5, <2>6, <2>7 DEF p
<1> HIDE DEF rest
<1>7. TicketOK(l, w, c)
  BY <1>3, <1>6 DEF RouteInv, TicketInv
<1>8. c \in Conns /\ c < server.next_connid /\ c \in Nat /\ conn[c].loop = l
      /\ w \in {"establish", "destroy"}
  BY <1>3, <1>6, <1>7, Numbers DEF TicketOK
<1>9. \A d \in Conns : StageOK(d) /\ conn[d].loop \in Loops /\ CaughtOK(d)
  BY LoopExists DEF RouteInv
<1>10. /\ \A d \in Conns : d # c => conn'[d] = conn[d]
       /\ conn'[c].loop = conn[c].loop /\ conn'[c].out = conn[c].out
       /\ w = "establish" => /\ conn'[c].state = "kConnected" /\ conn'[c].registered = TRUE
                             /\ conn'[c].ups = conn[c].ups + 1 /\ conn'[c].downs = conn[c].downs
       /\ w = "destroy" => /\ conn'[c].state = "kDisconnected" /\ conn'[c].registered = FALSE
                           /\ conn'[c].downs = conn[c].downs + 1 /\ conn'[c].ups = conn[c].ups
  <2>1. CASE w = "establish"
    <3>1. conn' = EstablishConnection(conn, c)
      BY <1>2, <2>1
    <3> QED
      BY <1>3, <1>8, <2>1, <3>1, EstablishIs
  <2>2. CASE w = "destroy"
    <3>1. conn' = DestroyConnection(conn, c)
      BY <1>2, <2>2
    <3> QED
      BY <1>3, <1>8, <2>2, <3>1, DestroyIs
  <2> QED
    BY <1>8, <2>1, <2>2
<1>11. IoLoops' = IoLoops
  BY <1>2 DEF IoLoops
<1>12. RouteTypes' /\ CountInv'
  BY <1>2, <1>5, <1>6, <1>11 DEF RouteInv, RouteTypes, CountInv
<1>13. PhaseInv'
  <2>1. loop[l].phase # "exited" /\ (server.state = "dead" => loop[l].phase = "exited")
    BY <1>2 DEF RouteInv, PhaseInv
  <2>2. ASSUME loop[l].quit, NEW i \in 1..Len(rest[l]), rest[l][i][1] = "destroy"
        PROVE  rest[l][i][2] \in caught <=> i > n
    <3>1. i + 1 \in 1..Len(queue[l]) /\ rest[l][i] = queue[l][i + 1]
      BY <1>6
    <3>2. rest[l][i][2] \in caught <=> i + 1 > loop[l].batch
      BY <1>2, <2>2, <3>1 DEF RouteInv, PhaseInv, CaughtBehind
    <3> QED
      BY <1>4, <3>2
  <2> HIDE DEF n
  <2>3. IoLoops \subseteq Loops
    BY Numbers
  <2>4. ASSUME NEW m \in IoLoops
        PROVE  /\ loop'[m].phase \in {"events", "functors", "exited"}
               /\ loop'[m].phase = "exited" => queue'[m] = <<>> /\ loop'[m].quit
               /\ server.state = "dead" => loop'[m].phase = "exited"
               /\ CaughtBehind(m)'
    <3>1. CASE m = l
      BY <1>2, <1>3, <1>5, <2>1, <2>2, <3>1 DEF CaughtBehind
    <3>2. CASE m # l
      <4>1. m \in Loops /\ loop'[m] = loop[m] /\ queue'[m] = queue[m]
        BY <1>2, <1>5, <1>6, <2>3, <3>2
      <4> QED
        BY <1>2, <4>1 DEF RouteInv, PhaseInv, CaughtBehind
    <3> QED
      BY <3>1, <3>2
  <2>5. \A m \in Loops : loop'[m].quit => server.state # "alive" /\ server.connections = {}
    BY <1>5 DEF RouteInv, PhaseInv
  <2> QED
    BY <1>2, <1>11, <2>4, <2>5 DEF RouteInv, PhaseInv
<1>14. TicketInv'
  <2> SUFFICES ASSUME NEW m \in Loops, NEW v, NEW d, Ticket(queue', m, v, d)
               PROVE  TicketOK(m, v, d)'
    BY <1>2, <1>6 DEF TicketInv
  <2>1. TicketOK(m, v, d)
    BY <1>2, <1>6 DEF RouteInv, TicketInv
  <2>2. conn'[d].loop = conn[d].loop
    BY <1>10, <2>1 DEF TicketOK
  <2> QED
    BY <1>2, <2>1, <2>2 DEF TicketOK
<1>15. ASSUME NEW d \in Conns
       PROVE  /\ New(d)' <=> New(d) /\ ~(w = "establish" /\ d = c)
              /\ Ending(d)' <=> Ending(d) /\ ~(w = "destroy" /\ d = c)
              /\ Closing(d)' <=> Closing(d)
  <2>1. conn'[d].loop = conn[d].loop
    BY <1>10
  <2>2. /\ New(d)' <=> Ticket(rest, conn[d].loop, "establish", d)
        /\ Ending(d)' <=> Ticket(rest, conn[d].loop, "destroy", d)
        /\ Closing(d)' <=> Ticket(rest, 0, "remove", d)
    BY <1>2, <2>1 DEF New, Ending, Closing
  <2> QED
    BY <1>3, <1>6, <1>8, <1>9, <2>2 DEF New, Ending, Closing
<1>16. ASSUME NEW d \in Conns PROVE StageOK(d)'
  <2>1. CASE d # c
    <3>1. (New(d)' <=> New(d)) /\ (Ending(d)' <=> Ending(d)) /\ (Closing(d)' <=> Closing(d))
      BY <1>15, <2>1
    <3> QED
      BY <1>2, <1>9, <1>10, <1>11, <2>1, <3>1 DEF StageOK, Finished, Told
  <2>2. CASE d = c /\ w = "establish"
    <3>1. New(c) /\ StageOK(c)
      BY <1>6, <1>8, <1>9, <2>2 DEF New
    <3>2. ~New(c)' /\ (Ending(c)' <=> Ending(c)) /\ (Closing(c)' <=> Closing(c))
      BY <1>8, <1>15, <2>2
    <3>3. /\ conn[c].ups = 0 /\ conn[c].state = "kConnecting" /\ conn[c].downs = 0
          /\ c \in server.connections \/ Ending(c)
          /\ ~Closing(c) /\ (Ending(c) => ~(server.state = "alive" \/ conn[c].loop = 0))
      BY <1>8, <3>1, Numbers DEF StageOK, Finished, Told
    <3>4. conn'[c].ups = 1 /\ conn'[c].downs = 0
      BY <1>10, <2>2, <3>3
    <3> QED
      BY <1>2, <1>8, <1>10, <1>11, <2>2, <3>1, <3>2, <3>3, <3>4, Numbers DEF StageOK, Told
  <2>3. CASE d = c /\ w = "destroy"
    <3>1. Ending(c) /\ ~New(c) /\ StageOK(c)
      BY <1>6, <1>8, <1>9, <2>3 DEF New, Ending
    <3>2. ~New(c)' /\ ~Ending(c)' /\ (Closing(c)' <=> Closing(c))
      BY <1>8, <1>15, <2>3, <3>1
    <3>3. /\ conn[c].ups = 1 /\ conn[c].downs = 0 /\ c \notin server.connections
          /\ Closing(c) => Finished(c) /\ conn[c].loop # 0 /\ server.state # "alive"
      BY <3>1 DEF StageOK
    <3>4. conn'[c].ups = 1 /\ conn'[c].downs = 1 /\ (Closing(c) => Finished(c)')
      BY <1>10, <2>3, <3>3 DEF Finished
    <3> QED
      BY <1>2, <1>8, <1>10, <1>11, <2>3, <3>1, <3>2, <3>3, <3>4, Numbers DEF StageOK, Told
  <2> QED
    BY <1>8, <2>1, <2>2, <2>3
<1>17. ASSUME NEW d \in Conns PROVE CaughtOK(d)'
  <2>1. ASSUME w = "destroy" PROVE c \notin caught
    <3>1. CASE loop[l].quit
      <4>1. queue[l][1] = <<w, c>> /\ 1 \in 1..Len(queue[l])
        <5>1. queue[l][1] = Head(queue[l]) /\ Head(queue[l]) \in Functors
          BY <1>3, <1>4, QueueTaken
        <5> QED
          BY <1>1, <1>4, <5>1 DEF Functors
      <4>2. queue[l][1][1] = "destroy" /\ queue[l][1][2] = c
        BY <2>1, <4>1
      <4>3. c \in caught <=> 1 > loop[l].batch
        BY <1>2, <3>1, <4>1, <4>2 DEF RouteInv, PhaseInv, CaughtBehind
      <4> QED
        BY <1>2, <1>4, <4>3
    <3>2. CASE ~loop[l].quit
      BY <1>8, <1>9, <3>2 DEF CaughtOK
    <3> QED
      BY <3>1, <3>2
  <2>2. conn'[d].loop = conn[d].loop /\ (conn'[d].downs = conn[d].downs \/ (d = c /\ w = "destroy"))
    BY <1>8, <1>10
  <2> QED
    BY <1>2, <1>5, <1>9, <1>11, <2>1, <2>2 DEF CaughtOK
<1> QED
  BY <1>12, <1>13, <1>14, <1>16, <1>17 DEF RouteInv

\* A functor in a queue is of the connection it names, and there is no other like it.
LEMMA TicketAt ==
    ASSUME RouteInv, NEW l \in Loops, NEW i \in 1..Len(queue[l]), queue[l][i][1] = "destroy"
    PROVE  /\ queue[l][i][2] \in Conns /\ conn[queue[l][i][2]].loop = l
           /\ queue[l][i] = <<"destroy", queue[l][i][2]>>
           /\ \A j \in 1..Len(queue[l]) : queue[l][j] = queue[l][i] => j = i
<1>1. PICK d : d = queue[l][i][2]
  OBVIOUS
<1>2. queue[l] \in Seq(Functors) /\ WellOrdered(queue)
  BY DEF RouteInv, RouteTypes, TicketInv
<1>3. queue[l][i] = <<"destroy", d>>
  <2>1. queue[l][i] \in Functors
    BY <1>2, ElementOfSeq
  <2> QED
    BY <1>1, <2>1 DEF Functors
<1>4. TicketOK(l, "destroy", d)
  BY <1>3 DEF Ticket, RouteInv, TicketInv
<1>5. ASSUME NEW j \in 1..Len(queue[l]), queue[l][j] = queue[l][i], j # i PROVE FALSE
  <2>1. i < j \/ j < i
    BY <1>2, <1>5
  <2> QED
    BY <1>2, <1>5, <2>1 DEF WellOrdered
<1> QED
  BY <1>1, <1>3, <1>4, <1>5 DEF TicketOK

\* A loop takes its batch, and ends it: there the tickets left are lost if it
\* has been told to quit.
LEMMA LoopRoutes ==
    ASSUME ServerIInv, RouteInv, NEW l \in IoLoops, BeginFunctors(l) \/ EndFunctors(l)
    PROVE  RouteInv'
<1>1. /\ queue \in [Loops -> Seq(Functors)] /\ loop \in [Loops -> LoopStates] /\ WellOrdered(queue)
      /\ l \in Loops /\ l # 0 /\ 0 \in Loops /\ IoLoops \subseteq Loops
      /\ conn \in [Conns -> Connections]
  BY Numbers DEF RouteInv, RouteTypes, TicketInv, ServerIInv, RecordsOK
<1>2. loop[l] \in LoopStates /\ loop[l].batch \in Nat /\ queue[l] \in Seq(Functors)
      /\ Len(queue[l]) \in Nat
  BY <1>1 DEF LoopStates
<1>3. UNCHANGED <<server, acceptor, base_pc, caught>> /\ IoLoops' = IoLoops
  BY DEF BeginFunctors, EndFunctors, IoLoops
<1>4. \A d \in Conns : StageOK(d) /\ conn[d].loop \in Loops /\ CaughtOK(d)
  BY LoopExists DEF RouteInv
\* Its destroy tickets are those of its own connections.
<1>5. ASSUME NEW i \in 1..Len(queue[l]), queue[l][i][1] = "destroy"
      PROVE  queue[l][i][2] \in Conns /\ conn[queue[l][i][2]].loop = l
  BY <1>1, <1>5, TicketAt
\* Only the loop's own state has to be looked at.
<1>6. ASSUME UNCHANGED <<queue, conn>>, loop' \in [Loops -> LoopStates],
             \A m \in Loops : m # l => loop'[m] = loop[m],
             loop'[l].quit = loop[l].quit,
             \/ loop'[l].phase = "events" /\ ~loop[l].quit
             \/ /\ loop'[l].phase = "functors" /\ loop'[l].batch = Len(queue[l])
                /\ loop[l].phase = "events",
             loop[l].phase # "exited"
      PROVE  RouteInv'
  <2>1. RouteTypes' /\ CountInv' /\ TicketInv'
    BY <1>3, <1>6 DEF RouteInv, RouteTypes, CountInv, TicketInv, TicketOK
  <2>2. ASSUME NEW d \in Conns PROVE StageOK(d)'
    <3>1. (New(d)' <=> New(d)) /\ (Ending(d)' <=> Ending(d)) /\ (Closing(d)' <=> Closing(d))
      BY <1>6 DEF New, Ending, Closing
    <3> QED
      BY <1>3, <1>4, <1>6, <3>1 DEF StageOK, Finished, Told
  <2>3. ASSUME NEW d \in Conns PROVE CaughtOK(d)'
    <3>1. CASE conn[d].loop = l
      BY <1>3, <1>4, <1>6, <3>1 DEF CaughtOK
    <3>2. CASE conn[d].loop # l
      BY <1>3, <1>4, <1>6, <3>2 DEF CaughtOK
    <3> QED
      BY <3>1, <3>2
  <2>4. CaughtBehind(l)'
    <3>1. ASSUME loop[l].phase = "events", NEW i \in 1..Len(queue[l]), queue[l][i][1] = "destroy"
          PROVE  queue[l][i][2] \notin caught /\ ~(i > Len(queue[l]))
      BY <1>2, <1>4, <1>5, <3>1 DEF CaughtOK
    <3> QED
      BY <1>3, <1>6, <3>1 DEF CaughtBehind
  <2>5. PhaseInv'
    <3>1. ASSUME NEW m \in IoLoops
          PROVE  /\ loop'[m].phase \in {"events", "functors", "exited"}
                 /\ loop'[m].phase = "exited" => queue'[m] = <<>> /\ loop'[m].quit
                 /\ server.state = "dead" => loop'[m].phase = "exited"
                 /\ CaughtBehind(m)'
      <4>1. CASE m = l
        <5>1. server.state # "dead"
          BY <1>6 DEF RouteInv, PhaseInv
        <5> QED
          BY <1>6, <2>4, <4>1, <5>1
      <4>2. CASE m # l
        <5>1. loop'[m] = loop[m] /\ queue'[m] = queue[m]
          BY <1>1, <1>6, <4>2
        <5> QED
          BY <1>3, <5>1 DEF RouteInv, PhaseInv, CaughtBehind
      <4> QED
        BY <4>1, <4>2
    <3>2. \A m \in Loops : loop'[m].quit => server.state # "alive" /\ server.connections = {}
      BY <1>1, <1>6 DEF RouteInv, PhaseInv
    <3> QED
      BY <1>3, <3>1, <3>2 DEF RouteInv, PhaseInv
  <2> QED
    BY <2>1, <2>2, <2>3, <2>5 DEF RouteInv
<1>7. CASE BeginFunctors(l)
  <2> DEFINE n == Len(queue[l])
  <2>1. UNCHANGED <<queue, conn>> /\ loop[l].phase = "events"
        /\ loop' = [loop EXCEPT ![l] = [@ EXCEPT !.phase = "functors", !.batch = n]]
    BY <1>7 DEF BeginFunctors
  <2>2. n \in Nat
    BY <1>2
  <2> HIDE DEF n
  <2>3. /\ loop' \in [Loops -> LoopStates] /\ loop'[l].phase = "functors" /\ loop'[l].batch = n
        /\ loop'[l].quit = loop[l].quit
        /\ \A m \in Loops : m # l => loop'[m] = loop[m]
    BY <1>1, <1>2, <2>1, <2>2 DEF LoopStates
  <2> QED
    BY <1>6, <2>1, <2>3 DEF n
<1>8. CASE EndFunctors(l) /\ ~loop[l].quit
  <2>1. UNCHANGED <<queue, conn>> /\ loop[l].phase = "functors"
        /\ loop' = [loop EXCEPT ![l] = [@ EXCEPT !.phase = "events"]]
    BY <1>8 DEF EndFunctors
  <2>2. /\ loop' \in [Loops -> LoopStates] /\ loop'[l].phase = "events"
        /\ loop'[l].quit = loop[l].quit
        /\ \A m \in Loops : m # l => loop'[m] = loop[m]
    BY <1>1, <1>2, <2>1 DEF LoopStates
  <2> QED
    BY <1>6, <1>8, <2>1, <2>2
<1>9. CASE EndFunctors(l) /\ loop[l].quit
  <2>1. /\ queue' = [queue EXCEPT ![l] = <<>>] /\ loop[l].phase = "functors" /\ loop[l].batch = 0
        /\ loop' = [loop EXCEPT ![l] = [@ EXCEPT !.phase = "exited"]]
        /\ conn' = [c \in Conns |-> IF conn[c].loop = l
                       THEN [conn[c] EXCEPT !.registered = FALSE, !.timer = FALSE] ELSE conn[c]]
    BY <1>9 DEF EndFunctors
  <2>2. server.state # "alive" /\ server.connections = {}
    BY <1>1, <1>9 DEF RouteInv, PhaseInv
  <2>3. /\ loop' \in [Loops -> LoopStates] /\ loop'[l].phase = "exited" /\ loop'[l].quit
        /\ \A m \in Loops : m # l => loop'[m] = loop[m]
    BY <1>1, <1>2, <1>9, <2>1 DEF LoopStates
  <2>4. /\ queue' \in [Loops -> Seq(Functors)] /\ queue'[l] = <<>> /\ Len(queue'[l]) = 0
        /\ \A m \in Loops : m # l => queue'[m] = queue[m]
    <3>1. queue' = [queue EXCEPT ![l] = <<>>] /\ queue \in [Loops -> Seq(Functors)] /\ l \in Loops
      BY <1>1, <2>1
    <3>2. <<>> \in Seq(Functors) /\ Len(<<>>) = 0
      OBVIOUS
    <3> QED
      BY <3>1, <3>2
  <2>5. ASSUME NEW m \in Loops, NEW v, NEW d
        PROVE  Ticket(queue', m, v, d) <=> Ticket(queue, m, v, d) /\ m # l
    <3>1. CASE m = l
      <4>1. \A i : i \notin 1..Len(queue'[l])
        BY <2>4
      <4> QED
        BY <3>1, <4>1 DEF Ticket
    <3>2. CASE m # l
      <4>1. queue'[m] = queue[m]
        BY <2>4, <3>2
      <4> QED
        BY <3>2, <4>1 DEF Ticket
    <3> QED
      BY <3>1, <3>2
  <2>6. \A d \in Conns :
           /\ conn'[d].loop = conn[d].loop /\ conn'[d].ups = conn[d].ups
           /\ conn'[d].downs = conn[d].downs /\ conn'[d].state = conn[d].state
           /\ conn'[d].out = conn[d].out
           /\ conn'[d].registered => conn[d].registered
    BY <1>1, <2>1 DEF Connections
  <2>7. RouteTypes' /\ CountInv'
    BY <1>3, <2>3, <2>4 DEF RouteInv, RouteTypes, CountInv
  <2>8. PhaseInv'
    <3>1. ASSUME NEW m \in IoLoops
          PROVE  /\ loop'[m].phase \in {"events", "functors", "exited"}
                 /\ loop'[m].phase = "exited" => queue'[m] = <<>> /\ loop'[m].quit
                 /\ server.state = "dead" => loop'[m].phase = "exited"
                 /\ CaughtBehind(m)'
      <4>1. CASE m = l
        BY <2>3, <2>4, <4>1 DEF CaughtBehind
      <4>2. CASE m # l
        <5>1. loop'[m] = loop[m] /\ queue'[m] = queue[m]
          BY <1>1, <2>3, <2>4, <4>2
        <5> QED
          BY <1>3, <5>1 DEF RouteInv, PhaseInv, CaughtBehind
      <4> QED
        BY <4>1, <4>2
    <3> QED
      BY <1>3, <2>2, <3>1 DEF RouteInv, PhaseInv
  <2>9. TicketInv'
    <3>1. WellOrdered(queue')
      <4> SUFFICES ASSUME NEW m \in Loops
                   PROVE  \A i, j \in 1..Len(queue'[m]) :
                              i < j /\ queue'[m][i][2] = queue'[m][j][2] =>
                                  /\ queue'[m][i][1] # queue'[m][j][1]
                                  /\ ~(queue'[m][i][1] = "destroy" /\ queue'[m][j][1] = "establish")
        BY DEF WellOrdered
      <4>1. CASE m = l
        <5>1. \A i : i \notin 1..Len(queue'[m])
          BY <2>4, <4>1
        <5> QED
          BY <5>1
      <4>2. CASE m # l
        <5>1. queue'[m] = queue[m]
          BY <2>4, <4>2
        <5> QED
          BY <1>1, <5>1 DEF WellOrdered
      <4> QED
        BY <4>1, <4>2
    <3> SUFFICES ASSUME NEW m \in Loops, NEW v, NEW d, Ticket(queue', m, v, d)
                 PROVE  TicketOK(m, v, d)'
      BY <3>1 DEF TicketInv
    <3>2. TicketOK(m, v, d)
      BY <2>5 DEF RouteInv, TicketInv
    <3> QED
      BY <1>3, <2>6, <3>2 DEF TicketOK
  <2>10. ASSUME NEW d \in Conns PROVE StageOK(d)'
    <3>1. /\ New(d)' <=> New(d) /\ conn[d].loop # l
          /\ Ending(d)' <=> Ending(d) /\ conn[d].loop # l
          /\ Closing(d)' <=> Closing(d)
      BY <1>1, <1>4, <2>5, <2>6 DEF New, Ending, Closing
    <3>2. conn[d].loop = l /\ Ending(d) => d \in caught
      <4> SUFFICES ASSUME conn[d].loop = l, Ending(d) PROVE d \in caught
        OBVIOUS
      <4>1. PICK i \in 1..Len(queue[l]) : queue[l][i] = <<"destroy", d>>
        BY DEF Ending, Ticket
      <4>2. queue[l][i][1] = "destroy" /\ queue[l][i][2] = d /\ i > 0
        BY <1>2, <4>1
      <4> QED
        BY <1>9, <2>1, <4>2 DEF RouteInv, PhaseInv, CaughtBehind
    <3>3. ~(d \in server.connections) /\ server'.connections = {}
      BY <1>3, <2>2
    <3> QED
      BY <1>3, <1>4, <2>2, <2>6, <3>1, <3>2, <3>3 DEF StageOK, Finished, Told
  <2>11. ASSUME NEW d \in Conns PROVE CaughtOK(d)'
    <3>1. CASE conn[d].loop = l
      BY <1>3, <1>4, <2>3, <2>6, <3>1 DEF CaughtOK
    <3>2. CASE conn[d].loop # l
      BY <1>3, <1>4, <2>3, <2>6, <3>2 DEF CaughtOK
    <3> QED
      BY <3>1, <3>2
  <2> QED
    BY <2>7, <2>8, <2>9, <2>10, <2>11 DEF RouteInv
<1> QED
  BY <1>7, <1>8, <1>9

\* The destructor begins.
LEMMA DestructorRoutes ==
    ASSUME ServerIInv, RouteInv, Destructor
    PROVE  RouteInv'
<1>1. /\ UNCHANGED <<acceptor, conn, queue, loop, caught>> /\ base_pc' = "destructor"
      /\ server.state = "alive" /\ server' = [server EXCEPT !.state = "dying"]
      /\ base_pc = "loop"
  BY DEF Destructor
<1>2. /\ server'.state = "dying" /\ server'.connections = server.connections
      /\ server'.next_connid = server.next_connid /\ server'.started = server.started
      /\ server'.thread_num = server.thread_num /\ server'.next = server.next
  BY <1>1 DEF ServerIInv, RecordsOK, Servers
<1>3. IoLoops' = IoLoops
  BY <1>2 DEF IoLoops
<1>4. RouteTypes' /\ CountInv' /\ TicketInv'
  BY <1>1, <1>2, <1>3 DEF RouteInv, RouteTypes, CountInv, TicketInv, TicketOK
<1>5. PhaseInv'
  BY <1>1, <1>2, <1>3 DEF RouteInv, PhaseInv, CaughtBehind
<1>6. ASSUME NEW d \in Conns PROVE StageOK(d)' /\ CaughtOK(d)'
  <2>1. StageOK(d) /\ CaughtOK(d)
    BY DEF RouteInv
  <2>2. (New(d)' <=> New(d)) /\ (Ending(d)' <=> Ending(d)) /\ (Closing(d)' <=> Closing(d))
    BY <1>1 DEF New, Ending, Closing
  <2>3. StageOK(d)'
    BY <1>1, <1>2, <1>3, <2>1, <2>2 DEF StageOK, Finished, Told
  <2> QED
    BY <1>1, <1>3, <2>1, <2>3 DEF CaughtOK
<1> QED
  BY <1>4, <1>5, <1>6 DEF RouteInv

\* Its next connection: at once in the server's own loop, with a ticket in another,
\* none of which has been told to quit yet.
LEMMA DestroyNextRoutes ==
    ASSUME ServerIInv, RouteInv, DestroyNext
    PROVE  RouteInv'
<1>1. UNCHANGED <<acceptor, base_pc, loop, caught>> /\ server.state = "dying"
  BY DEF DestroyNext, RouteInv, PhaseInv
<1>2. PICK c \in server.connections :
         /\ server' = [server EXCEPT !.connections = @ \ {c}]
         /\ \/ conn[c].loop = 0 /\ conn' = DestroyConnection(conn, c) /\ UNCHANGED queue
            \/ /\ conn[c].loop # 0 /\ UNCHANGED conn
               /\ queue' = Put(queue, conn[c].loop, "destroy", c)
  BY DEF DestroyNext
<1>3. /\ server'.state = server.state /\ server'.connections = server.connections \ {c}
      /\ server'.next_connid = server.next_connid /\ server'.started = server.started
      /\ server'.thread_num = server.thread_num /\ server'.next = server.next
  BY <1>2 DEF ServerIInv, RecordsOK, Servers
<1>4. IoLoops' = IoLoops /\ IoLoops \subseteq Loops /\ 0 \notin IoLoops /\ 0 \in Loops
  BY <1>3, Numbers DEF IoLoops
<1>5. /\ c \in Conns /\ StageOK(c) /\ conn[c].loop \in Loops /\ c \in Nat
      /\ c < server.next_connid
      /\ conn[c].loop = 0 \/ conn[c].loop \in IoLoops
  <2>1. c \in Conns /\ StageOK(c) /\ conn[c].loop \in Loops /\ c \in Nat
    BY <1>2, LoopExists DEF RouteInv, RouteTypes
  <2>2. c < server.next_connid
    BY <1>2, <2>1, Numbers DEF StageOK
  <2> QED
    BY <2>1, <2>2 DEF StageOK
<1>6. \A d \in Conns : StageOK(d) /\ conn[d].loop \in Loops /\ CaughtOK(d)
  BY LoopExists DEF RouteInv
<1>7. /\ \A l \in Loops : ~loop[l].quit
      /\ \A d \in Conns : d \notin caught
  BY <1>2, <1>4, <1>6 DEF RouteInv, PhaseInv, CaughtOK
<1>8. conn[c].downs = 0 /\ (conn[c].ups = 1 \/ New(c)) /\ ~Ending(c)
  BY <1>2, <1>5 DEF StageOK
<1>9. /\ queue \in [Loops -> Seq(Functors)] /\ WellOrdered(queue)
      /\ loop \in [Loops -> LoopStates] /\ server.connections \subseteq Conns
      /\ conn \in [Conns -> Connections]
  BY DEF RouteInv, RouteTypes, TicketInv, ServerIInv, RecordsOK
<1>10. CountInv' /\ PhaseInv'
  <2>1. CountInv'
    BY <1>1, <1>3, <1>4 DEF RouteInv, CountInv
  <2>2. ASSUME NEW l \in IoLoops
        PROVE  /\ loop[l].phase \in {"events", "functors", "exited"}
               /\ ~loop[l].quit /\ loop[l].phase # "exited"
    BY <1>4, <1>7 DEF RouteInv, PhaseInv
  <2> QED
    BY <1>1, <1>3, <1>4, <1>7, <2>1, <2>2 DEF RouteInv, PhaseInv, CaughtBehind
<1>11. ASSUME \A d \in Conns : conn'[d].loop = conn[d].loop
       PROVE  \A d \in Conns : CaughtOK(d)'
  BY <1>1, <1>7 DEF CaughtOK
<1>12. CASE conn[c].loop = 0 /\ conn' = DestroyConnection(conn, c) /\ UNCHANGED queue
  <2>1. /\ \A d \in Conns : d # c => conn'[d] = conn[d]
        /\ conn'[c].state = "kDisconnected" /\ conn'[c].registered = FALSE
        /\ conn'[c].downs = conn[c].downs + 1 /\ conn'[c].ups = conn[c].ups
        /\ conn'[c].loop = conn[c].loop /\ conn'[c].out = conn[c].out
    BY <1>5, <1>9, <1>12, DestroyIs
  <2>2. \A d \in Conns : conn'[d].loop = conn[d].loop
    BY <2>1
  <2>3. RouteTypes' /\ TicketInv'
    BY <1>1, <1>3, <1>9, <1>12, <2>2 DEF RouteInv, RouteTypes, TicketInv, TicketOK
  <2>4. ASSUME NEW d \in Conns
        PROVE  (New(d)' <=> New(d)) /\ (Ending(d)' <=> Ending(d)) /\ (Closing(d)' <=> Closing(d))
    BY <1>12, <2>2 DEF New, Ending, Closing
  <2>5. ~New(c) /\ ~Closing(c) /\ conn[c].ups = 1
    <3>1. ~Ticket(queue, 0, "establish", c)
      BY <1>4 DEF RouteInv, TicketInv, TicketOK
    <3> QED
      BY <1>5, <1>8, <1>12, <3>1 DEF StageOK, New
  <2>6. ASSUME NEW d \in Conns PROVE StageOK(d)'
    <3>1. CASE d # c
      <4>1. d \in server'.connections <=> d \in server.connections
        BY <1>3, <3>1
      <4> QED
        BY <1>1, <1>3, <1>4, <1>6, <2>1, <2>4, <3>1, <4>1 DEF StageOK, Finished, Told
    <3>2. CASE d = c
      <4>1. conn'[c].downs = 1 /\ conn'[c].ups = 1
        BY <1>8, <2>1, <2>5
      <4>2. ~New(c)' /\ ~Ending(c)' /\ ~Closing(c)' /\ c \notin server'.connections
        BY <1>3, <1>5, <1>8, <2>4, <2>5
      <4> QED
        BY <1>3, <1>4, <1>5, <1>12, <2>1, <3>2, <4>1, <4>2, Numbers DEF StageOK, Told
    <3> QED
      BY <3>1, <3>2
  <2> QED
    BY <1>10, <1>11, <2>2, <2>3, <2>6 DEF RouteInv
<1>13. CASE /\ conn[c].loop # 0 /\ UNCHANGED conn
            /\ queue' = Put(queue, conn[c].loop, "destroy", c)
  <2>1. /\ queue' \in [Loops -> Seq(Functors)] /\ WellOrdered(queue')
        /\ \A l \in Loops : \A v, d :
              Ticket(queue', l, v, d) <=>
                 Ticket(queue, l, v, d) \/ (l = conn[c].loop /\ v = "destroy" /\ d = c)
    <3> DEFINE p == queue'
               m == conn[c].loop
               g == <<"destroy", c>>
    <3>1. p = Put(queue, m, "destroy", c) /\ m \in Loops /\ g = <<"destroy", c>>
          /\ ~Ticket(queue, m, "destroy", c) /\ c \in Nat
          /\ queue \in [Loops -> Seq(Functors)] /\ WellOrdered(queue)
      BY <1>5, <1>8, <1>9, <1>13 DEF Ending
    <3> HIDE DEF p, m, g
    <3>2. /\ p \in [Loops -> Seq(Functors)]
          /\ \A l \in Loops : \A v, d :
                Ticket(p, l, v, d) <=> Ticket(queue, l, v, d) \/ (l = m /\ v = "destroy" /\ d = c)
      BY <3>1, PutTicket
    <3>3. WellOrdered(p)
      BY <3>1, PutOrdered
    <3> QED
      BY <3>2, <3>3 DEF p, m
  <2>2. RouteTypes'
    BY <1>1, <1>3, <1>9, <2>1 DEF RouteTypes
  <2>3. TicketInv'
    <3> SUFFICES ASSUME NEW l \in Loops, NEW v, NEW d, Ticket(queue', l, v, d)
                 PROVE  TicketOK(l, v, d)'
      BY <2>1 DEF TicketInv
    <3>1. CASE Ticket(queue, l, v, d)
      <4>1. TicketOK(l, v, d)
        BY <3>1 DEF RouteInv, TicketInv
      <4> QED
        BY <1>3, <1>13, <4>1 DEF TicketOK
    <3>2. CASE ~Ticket(queue, l, v, d)
      <4>1. l = conn[c].loop /\ v = "destroy" /\ d = c
        BY <2>1, <3>2
      <4> QED
        BY <1>3, <1>5, <1>13, <4>1 DEF TicketOK
    <3> QED
      BY <3>1, <3>2
  <2>4. ASSUME NEW d \in Conns
        PROVE  /\ New(d)' <=> New(d)
               /\ Ending(d)' <=> Ending(d) \/ d = c
               /\ Closing(d)' <=> Closing(d)
    BY <1>4, <1>6, <1>13, <2>1 DEF New, Ending, Closing
  <2>5. ASSUME NEW d \in Conns PROVE StageOK(d)'
    <3>1. CASE d # c
      <4>1. d \in server'.connections <=> d \in server.connections
        BY <1>3, <3>1
      <4>2. (New(d)' <=> New(d)) /\ (Ending(d)' <=> Ending(d)) /\ (Closing(d)' <=> Closing(d))
        BY <2>4, <3>1
      <4> QED
        BY <1>1, <1>3, <1>4, <1>6, <1>13, <4>1, <4>2 DEF StageOK, Finished, Told
    <3>2. CASE d = c
      <4>1. (New(c)' <=> New(c)) /\ Ending(c)' /\ (Closing(c)' <=> Closing(c))
            /\ c \notin server'.connections
        BY <1>3, <1>5, <2>4
      <4> QED
        BY <1>1, <1>3, <1>4, <1>5, <1>8, <1>13, <3>2, <4>1 DEF StageOK, Finished, Told
    <3> QED
      BY <3>1, <3>2
  <2> QED
    BY <1>10, <1>11, <1>13, <2>2, <2>3, <2>5 DEF RouteInv
<1> QED
  BY <1>2, <1>12, <1>13

\* The joins, and the end of the server.
LEMMA EndRoutes ==
    ASSUME ServerIInv, RouteInv, JoinNext \/ DestructorEnds
    PROVE  RouteInv'
<1>1. UNCHANGED <<conn, queue>> /\ base_pc = "destructor" /\ server.connections = {}
  BY DEF JoinNext, DestructorEnds
<1>2. server.state = "dying"
  BY <1>1 DEF RouteInv, PhaseInv
<1>3. \A d \in Conns : StageOK(d) /\ CaughtOK(d)
  BY DEF RouteInv
<1>4. IoLoops \subseteq Loops
  BY Numbers
<1>5. ASSUME NEW d \in Conns
      PROVE  (New(d)' <=> New(d)) /\ (Ending(d)' <=> Ending(d)) /\ (Closing(d)' <=> Closing(d))
  BY <1>1 DEF New, Ending, Closing
<1>6. CASE JoinNext
  <2>1. UNCHANGED <<server, acceptor, base_pc>> /\ IoLoops' = IoLoops
    BY <1>6 DEF JoinNext, IoLoops
  <2>2. PICK l \in IoLoops : /\ ~loop[l].quit /\ loop' = [loop EXCEPT ![l].quit = TRUE]
                             /\ caught' = caught \cup {c \in Conns : Late(l, c)}
    BY <1>6 DEF JoinNext
  <2>3. /\ loop' \in [Loops -> LoopStates]
        /\ \A m \in Loops : loop'[m].phase = loop[m].phase /\ loop'[m].batch = loop[m].batch
        /\ \A m \in Loops : m # l => loop'[m].quit = loop[m].quit
        /\ loop'[l].quit
    <3>1. loop \in [Loops -> LoopStates] /\ l \in Loops
      BY <1>4, <2>2 DEF RouteInv, RouteTypes
    <3>2. loop' = [loop EXCEPT ![l] = [loop[l] EXCEPT !.quit = TRUE]]
      BY <2>2
    <3> QED
      BY <3>1, <3>2 DEF LoopStates
  <2>4. RouteTypes' /\ CountInv' /\ TicketInv'
    BY <1>1, <2>1, <2>3 DEF RouteInv, RouteTypes, CountInv, TicketInv, TicketOK
  <2>5. ASSUME NEW d \in Conns, Late(l, d)
        PROVE  conn[d].loop = l /\ conn[d].downs = 0 /\ loop[l].phase = "functors"
    <3>1. Ticket(queue, l, "destroy", d) /\ loop[l].phase = "functors"
      BY <2>5 DEF Late, Ticket
    <3>2. TicketOK(l, "destroy", d)
      BY <1>4, <3>1 DEF RouteInv, TicketInv
    <3>3. conn[d].loop = l /\ Ending(d)
      BY <3>1, <3>2 DEF TicketOK, Ending
    <3> QED
      BY <1>3, <3>1, <3>3 DEF StageOK
  <2>6. ASSUME NEW d \in Conns PROVE StageOK(d)' /\ CaughtOK(d)'
    <3>1. StageOK(d)'
      BY <1>1, <1>3, <1>5, <2>1, <2>2 DEF StageOK, Finished, Told
    <3>2. CaughtOK(d)'
      BY <1>1, <1>3, <1>4, <2>1, <2>2, <2>3, <2>5 DEF CaughtOK
    <3> QED
      BY <3>1, <3>2
  <2>7. ASSUME NEW m \in IoLoops PROVE CaughtBehind(m)'
    <3>1. SUFFICES ASSUME loop'[m].quit, loop[m].phase = "functors",
                          NEW i \in 1..Len(queue[m]), queue[m][i][1] = "destroy"
                   PROVE  queue[m][i][2] \in caught' <=> i > loop[m].batch
      BY <1>1, <1>4, <2>3 DEF CaughtBehind
    <3>2. PICK d : d = queue[m][i][2]
      OBVIOUS
    <3>3. /\ d \in Conns /\ conn[d].loop = m /\ queue[m][i] = <<"destroy", d>>
          /\ \A j \in 1..Len(queue[m]) : queue[m][j] = <<"destroy", d>> => j = i
      BY <1>4, <3>1, <3>2, TicketAt
    <3>4. CASE m # l
      <4>1. ~Late(l, d) /\ loop[m].quit
        BY <1>4, <2>3, <2>5, <3>1, <3>3, <3>4
      <4> QED
        BY <2>2, <3>1, <3>2, <4>1 DEF RouteInv, PhaseInv, CaughtBehind
    <3>5. CASE m = l
      <4>1. d \notin caught
        BY <1>3, <2>2, <3>3, <3>5 DEF CaughtOK
      <4>2. Late(l, d) <=> i > loop[l].batch
        BY <3>1, <3>3, <3>5 DEF Late
      <4> QED
        BY <2>2, <3>2, <3>3, <3>5, <4>1, <4>2
    <3> QED
      BY <3>4, <3>5
  <2>8. PhaseInv'
    <3>1. ASSUME NEW m \in Loops, loop'[m].quit
          PROVE  server.state # "alive" /\ server.connections = {}
      BY <1>1, <1>2
    <3>2. ASSUME NEW m \in IoLoops
          PROVE  /\ loop'[m].phase \in {"events", "functors", "exited"}
                 /\ loop'[m].phase = "exited" => queue[m] = <<>> /\ loop'[m].quit
                 /\ server.state = "dead" => loop'[m].phase = "exited"
      BY <1>4, <2>3 DEF RouteInv, PhaseInv
    <3> QED
      BY <1>1, <2>1, <2>7, <3>1, <3>2 DEF RouteInv, PhaseInv
  <2> QED
    BY <2>4, <2>6, <2>8 DEF RouteInv
<1>7. CASE DestructorEnds
  <2>1. /\ UNCHANGED <<loop, caught>> /\ base_pc' = "loop"
        /\ \A l \in IoLoops : loop[l].phase = "exited"
        /\ server' = [server EXCEPT !.state = "dead"]
        /\ acceptor' = [acceptor EXCEPT !.listening = FALSE, !.idle = FALSE]
    BY <1>7 DEF DestructorEnds
  <2>2. /\ server'.state = "dead" /\ server'.connections = server.connections
        /\ server'.next_connid = server.next_connid /\ server'.started = server.started
        /\ server'.thread_num = server.thread_num /\ server'.next = server.next
    BY <2>1 DEF ServerIInv, RecordsOK, Servers
  <2>3. /\ acceptor'.listening = FALSE /\ acceptor'.backlog = acceptor.backlog
        /\ acceptor'.arrived = acceptor.arrived
    BY <2>1 DEF ServerIInv, RecordsOK, Acceptors
  <2>4. IoLoops' = IoLoops
    BY <2>2 DEF IoLoops
  <2>5. RouteTypes' /\ CountInv' /\ TicketInv'
    BY <1>1, <2>1, <2>2, <2>3, <2>4 DEF RouteInv, RouteTypes, CountInv, TicketInv, TicketOK
  <2>6. PhaseInv'
    BY <1>1, <1>2, <2>1, <2>2, <2>4 DEF RouteInv, PhaseInv, CaughtBehind
  <2>7. ASSUME NEW d \in Conns PROVE StageOK(d)' /\ CaughtOK(d)'
    <3>1. StageOK(d)'
      BY <1>1, <1>2, <1>3, <1>5, <2>1, <2>2, <2>4 DEF StageOK, Finished, Told
    <3> QED
      BY <1>1, <1>3, <2>1, <2>4, <3>1 DEF CaughtOK
  <2> QED
    BY <2>5, <2>6, <2>7 DEF RouteInv
<1> QED
  BY <1>6, <1>7

\* Before the first Start() nobody has come; then the loops are in their events.
LEMMA StartRoutes ==
    ASSUME ServerIInv, RouteInv, NEW n \in 0..MaxThreads, Start(n)
    PROVE  RouteInv'
<1>1. UNCHANGED <<base_pc, conn, queue, caught>> /\ server.state = "alive"
  BY DEF Start
<1>2. \A d \in Conns : StageOK(d) /\ d \in Nat /\ d >= 1
  BY LoopExists DEF Conns
<1>3. ASSUME NEW d \in Conns
      PROVE  (New(d)' <=> New(d)) /\ (Ending(d)' <=> Ending(d)) /\ (Closing(d)' <=> Closing(d))
  BY <1>1 DEF New, Ending, Closing
<1>4. CASE server.started > 0
  <2> DEFINE k == server.started + 1
  <2>1. UNCHANGED <<acceptor, loop>> /\ server' = [server EXCEPT !.started = k]
        /\ k \in Nat /\ k # 0
    BY <1>4, Numbers DEF Start
  <2> HIDE DEF k
  <2>2. /\ server'.state = server.state /\ server'.connections = server.connections
        /\ server'.next_connid = server.next_connid /\ server'.started = k
        /\ server'.thread_num = server.thread_num /\ server'.next = server.next
    BY <2>1 DEF ServerIInv, RecordsOK, Servers
  <2>3. IoLoops' = IoLoops
    BY <2>2 DEF IoLoops
  <2>4. RouteTypes' /\ CountInv' /\ TicketInv' /\ PhaseInv'
    BY <1>1, <2>1, <2>2, <2>3 DEF RouteInv, RouteTypes, CountInv, TicketInv, TicketOK, PhaseInv, CaughtBehind
  <2>5. ASSUME NEW d \in Conns PROVE StageOK(d)' /\ CaughtOK(d)'
    <3>1. StageOK(d)'
      BY <1>1, <1>2, <1>3, <2>2, <2>3 DEF StageOK, Finished, Told
    <3> QED
      BY <1>1, <2>1, <2>3, <3>1 DEF RouteInv, CaughtOK
  <2> QED
    BY <2>4, <2>5 DEF RouteInv
<1>5. CASE ~(server.started > 0)
  <2>1. /\ server' = [server EXCEPT !.started = 1, !.thread_num = n]
        /\ acceptor' = [acceptor EXCEPT !.listening = TRUE]
        /\ loop' = [l \in Loops |-> IF l \in 1..n
                        THEN [loop[l] EXCEPT !.phase = "events"] ELSE loop[l]]
    BY <1>5 DEF Start
  <2>2. /\ server'.state = server.state /\ server'.connections = server.connections
        /\ server'.next_connid = server.next_connid /\ server'.started = 1
        /\ server'.thread_num = n
    BY <2>1 DEF ServerIInv, RecordsOK, Servers
  <2>3. server'.next = server.next
    BY <2>1 DEF ServerIInv, RecordsOK, Servers
  <2>4. acceptor'.backlog = acceptor.backlog /\ acceptor'.arrived = acceptor.arrived
    BY <2>1 DEF ServerIInv, RecordsOK, Acceptors
  <2>5. /\ server.next_connid = 1 /\ acceptor.arrived = 0 /\ server.thread_num = 0
        /\ server.next = 1
    BY <1>5, Numbers DEF RouteInv, CountInv
  <2>6. /\ loop' \in [Loops -> LoopStates]
        /\ \A l \in Loops : loop'[l].quit = loop[l].quit
        /\ \A l \in 1..n : loop'[l].phase = "events"
    <3>1. \A l \in Loops : loop[l] \in LoopStates
      BY DEF RouteInv, RouteTypes
    <3>2. 1..n \subseteq Loops
      BY Numbers DEF Loops
    <3> QED
      BY <2>1, <3>1, <3>2 DEF LoopStates
  <2>7. IoLoops' = 1..n /\ IoLoops = {}
    BY <2>2, <2>5 DEF IoLoops
  <2>8. RouteTypes' /\ TicketInv'
    BY <1>1, <2>2, <2>6 DEF RouteInv, RouteTypes, TicketInv, TicketOK
  <2>9. CountInv'
    BY <1>1, <2>2, <2>3, <2>4, <2>5, <2>7, Numbers DEF RouteInv, CountInv
  <2>10. PhaseInv'
    <3>1. 1..n \subseteq Loops
      BY Numbers DEF Loops
    <3> QED
      BY <1>1, <2>2, <2>6, <2>7, <3>1 DEF RouteInv, PhaseInv, CaughtBehind
  <2>11. ASSUME NEW d \in Conns PROVE StageOK(d)' /\ CaughtOK(d)'
    <3>1. d >= server.next_connid /\ ~(d < server.next_connid) /\ StageOK(d)
      BY <1>2, <2>5
    <3>2. d \notin caught
      BY <2>7 DEF RouteInv, CaughtOK
    <3>3. StageOK(d)'
      BY <1>1, <1>3, <2>2, <3>1 DEF StageOK, Finished, Told
    <3> QED
      BY <1>1, <3>2, <3>3 DEF CaughtOK
  <2> QED
    BY <2>8, <2>9, <2>10, <2>11 DEF RouteInv
<1> QED
  BY <1>4, <1>5

\* Steps of the acceptor, of clients and of other threads open or end nothing.
LEMMA AcceptorRoutes ==
    ASSUME ServerIInv, RouteInv,
           AcceptFails \/ TurnAway \/ Reopen \/ ClientConnects \/ OtherOpens \/ OtherCloses
    PROVE  RouteInv'
<1>1. UNCHANGED <<server, conn, queue, loop, caught>> /\ IoLoops' = IoLoops
  BY DEF AcceptFails, TurnAway, Reopen, ClientConnects, OtherOpens, OtherCloses, IoLoops
<1>2. base_pc' = base_pc \/ (base_pc # "destructor" /\ base_pc' # "destructor")
  BY DEF AcceptFails, TurnAway, Reopen, ClientConnects, OtherOpens, OtherCloses
<1>3. RouteTypes' /\ PhaseInv' /\ TicketInv'
  BY <1>1, <1>2 DEF RouteInv, RouteTypes, PhaseInv, CaughtBehind, TicketInv, TicketOK
<1>4. ASSUME NEW d \in Conns PROVE StageOK(d)' /\ CaughtOK(d)'
  <2>1. (New(d)' <=> New(d)) /\ (Ending(d)' <=> Ending(d)) /\ (Closing(d)' <=> Closing(d))
    BY <1>1 DEF New, Ending, Closing
  <2>2. StageOK(d) /\ CaughtOK(d)
    BY DEF RouteInv
  <2> QED
    BY <1>1, <2>1, <2>2 DEF StageOK, CaughtOK, Finished, Told
<1>5. CountInv'
  <2> DEFINE a == acceptor
  <2>0. a \in Acceptors
    BY DEF ServerIInv, RecordsOK
  <2>1. CASE AcceptFails
    <3>1. acceptor' = [acceptor EXCEPT !.idle = FALSE] /\ acceptor.backlog > 0
      BY <2>1 DEF AcceptFails, Readable
    <3>2. /\ acceptor'.backlog = acceptor.backlog /\ acceptor'.arrived = acceptor.arrived
          /\ acceptor'.listening = acceptor.listening
      BY <2>0, <3>1 DEF Acceptors
    <3> QED
      BY <1>1, <3>1, <3>2 DEF RouteInv, CountInv
  <2>2. CASE TurnAway
    <3> DEFINE k == acceptor.backlog - (IF Free > 0 THEN 1 ELSE 0)
    <3>1. acceptor' = [acceptor EXCEPT !.backlog = k]
          /\ base_pc' = "reopen" /\ acceptor.backlog > 0
      BY <2>2 DEF TurnAway, RouteInv, CountInv
    <3>2. k \in Int /\ k >= 0 /\ k <= acceptor.backlog
      BY <3>1, Numbers
    <3> HIDE DEF k
    <3>3. /\ acceptor'.backlog = k /\ acceptor'.arrived = acceptor.arrived
      BY <2>0, <3>1 DEF Acceptors
    <3>5. acceptor'.listening = acceptor.listening
      BY <2>0, <3>1 DEF Acceptors
    <3>4. k + server.next_connid <= acceptor.arrived + 1
      BY <3>2, Numbers DEF RouteInv, CountInv
    <3> QED
      BY <1>1, <3>1, <3>2, <3>3, <3>4, <3>5 DEF RouteInv, CountInv
  <2>5. CASE Reopen
    <3> DEFINE b == Free > 0
    <3>1. acceptor' = [acceptor EXCEPT !.idle = b] /\ base_pc' = "loop"
      BY <2>5 DEF Reopen
    <3> HIDE DEF b
    <3>2. /\ acceptor'.backlog = acceptor.backlog /\ acceptor'.arrived = acceptor.arrived
          /\ acceptor'.listening = acceptor.listening
      BY <2>0, <3>1 DEF Acceptors
    <3> QED
      BY <1>1, <3>1, <3>2 DEF RouteInv, CountInv
  <2>3. CASE ClientConnects
    <3> DEFINE k == acceptor.backlog + 1
               m == acceptor.arrived + 1
    <3>1. acceptor' = [acceptor EXCEPT !.backlog = k, !.arrived = m] /\ base_pc' = base_pc
          /\ acceptor.listening /\ acceptor.arrived < MaxClients
      BY <2>3 DEF ClientConnects
    <3>2. /\ k \in Int /\ m \in Nat /\ k >= 0 /\ m <= MaxClients
          /\ k + server.next_connid <= m + 1
          /\ base_pc = "spare" => k > 0
      BY <3>1, Numbers DEF RouteInv, CountInv
    <3> HIDE DEF k, m
    <3>3. /\ acceptor'.backlog = k /\ acceptor'.arrived = m
      BY <2>0, <3>1 DEF Acceptors
    <3>5. acceptor'.listening = acceptor.listening
      BY <2>0, <3>1 DEF Acceptors
    <3>4. server.started # 0
      BY <3>1 DEF RouteInv, CountInv
    <3> QED
      BY <1>1, <3>1, <3>2, <3>3, <3>4 DEF RouteInv, CountInv
  <2>4. CASE OtherOpens \/ OtherCloses
    <3>1. /\ acceptor'.backlog = acceptor.backlog /\ acceptor'.arrived = acceptor.arrived
          /\ acceptor'.listening = acceptor.listening /\ base_pc' = base_pc
      <4>1. CASE OtherOpens
        <5> DEFINE k == acceptor.others + 1
                   b == acceptor.stolen \/ base_pc \in {"spare", "reopen"}
        <5>1. acceptor' = [acceptor EXCEPT !.others = k, !.stolen = b] /\ base_pc' = base_pc
          BY <4>1 DEF OtherOpens
        <5> HIDE DEF k, b
        <5> QED
          BY <2>0, <5>1 DEF Acceptors
      <4>2. CASE OtherCloses
        <5> DEFINE k == acceptor.others - 1
        <5>1. acceptor' = [acceptor EXCEPT !.others = k] /\ base_pc' = base_pc
          BY <4>2 DEF OtherCloses
        <5> HIDE DEF k
        <5> QED
          BY <2>0, <5>1 DEF Acceptors
      <4> QED
        BY <2>4, <4>1, <4>2
    <3> QED
      BY <1>1, <3>1 DEF RouteInv, CountInv
  <2> QED
    BY <2>1, <2>2, <2>3, <2>4, <2>5
<1> QED
  BY <1>3, <1>4, <1>5 DEF RouteInv


\* A connection is numbered, listed and given a loop: its first ticket.
LEMMA NewConnectionRoutes ==
    ASSUME ServerIInv, RouteInv, NewTcpConnection
    PROVE  RouteInv'
<1>0. PICK c, l, cs : /\ c = server.next_connid /\ l = NextLoop
                      /\ cs = [conn EXCEPT ![c].state = "kConnecting", ![c].loop = l]
  OBVIOUS
<1>1. /\ UNCHANGED <<base_pc, loop, caught>> /\ base_pc = "loop"
      /\ acceptor.listening /\ acceptor.backlog > 0 /\ server.state = "alive"
      /\ acceptor' = [acceptor EXCEPT !.backlog = @ - 1]
      /\ server' = [server EXCEPT !.next_connid = @ + 1, !.next = AfterNext,
                                  !.connections = @ \cup {c}]
      /\ \/ l = 0 /\ conn' = EstablishConnection(cs, c) /\ UNCHANGED queue
         \/ l # 0 /\ conn' = cs /\ queue' = Put(queue, l, "establish", c)
  BY <1>0 DEF NewTcpConnection, Readable
<1>2. /\ server.started # 0 /\ \A m \in Loops : ~loop[m].quit
      /\ acceptor.backlog + c <= acceptor.arrived + 1 /\ acceptor.arrived <= MaxClients
      /\ c >= 1 /\ (server.thread_num = 0 \/ server.next \in IoLoops)
  BY <1>0, <1>1 DEF RouteInv, CountInv, PhaseInv
<1>3. c \in Conns /\ c \in Nat
  BY <1>0, <1>1, <1>2, Numbers DEF Conns
<1>4. /\ l \in Loops /\ (l \in IoLoops \/ (l = 0 /\ server.thread_num = 0))
      /\ l # 0 => l \in IoLoops
  <2>1. 0 \in Loops /\ IoLoops \subseteq Loops /\ 0 \notin IoLoops
    BY Numbers
  <2>2. l = IF server.thread_num = 0 THEN 0 ELSE server.next
    BY <1>0 DEF NextLoop
  <2> QED
    BY <1>2, <2>1, <2>2
<1>5. PICK n : n = AfterNext /\ n \in Nat /\ (server.thread_num = 0 \/ n \in IoLoops)
  <2>1. AfterNext \in Nat /\ (server.thread_num = 0 \/ AfterNext \in IoLoops)
    BY <1>2, Numbers DEF AfterNext, IoLoops
  <2> QED
    BY <2>1
<1>6. /\ server'.state = "alive" /\ server'.next_connid = c + 1
      /\ server'.connections = server.connections \cup {c}
      /\ server'.started = server.started /\ server'.thread_num = server.thread_num
      /\ server'.next = n
  <2> DEFINE k == c + 1
  <2>1. server' = [server EXCEPT !.next_connid = k, !.next = n, !.connections = @ \cup {c}]
    BY <1>0, <1>1, <1>5
  <2> HIDE DEF k
  <2>2. server \in Servers
    BY DEF ServerIInv, RecordsOK
  <2>3. /\ server'.state = "alive" /\ server'.next_connid = k
        /\ server'.connections = server.connections \cup {c}
        /\ server'.started = server.started /\ server'.thread_num = server.thread_num
        /\ server'.next = n
    BY <1>1, <2>1, <2>2 DEF Servers
  <2> QED
    BY <2>3 DEF k
<1>7. /\ acceptor'.backlog = acceptor.backlog - 1 /\ acceptor'.arrived = acceptor.arrived
      /\ acceptor'.listening = acceptor.listening
  <2> DEFINE k == acceptor.backlog - 1
  <2>1. acceptor' = [acceptor EXCEPT !.backlog = k] /\ acceptor \in Acceptors
    BY <1>1 DEF ServerIInv, RecordsOK
  <2> HIDE DEF k
  <2>2. acceptor'.backlog = k /\ acceptor'.arrived = acceptor.arrived
        /\ acceptor'.listening = acceptor.listening
    BY <2>1 DEF Acceptors
  <2> QED
    BY <2>2 DEF k
<1>8. IoLoops' = IoLoops /\ IoLoops \subseteq Loops /\ 0 \notin IoLoops /\ 0 \in Loops
  BY <1>6, Numbers DEF IoLoops
<1>9. /\ queue \in [Loops -> Seq(Functors)] /\ WellOrdered(queue)
      /\ \A m \in Loops : \A v : ~Ticket(queue, m, v, c)
  BY <1>0, <1>3 DEF RouteInv, RouteTypes, TicketInv, TicketOK
<1>10. /\ \A d \in Conns : d # c => cs[d] = conn[d]
       /\ cs \in [Conns -> Connections]
       /\ cs[c].state = "kConnecting" /\ cs[c].loop = l
       /\ cs[c].ups = conn[c].ups /\ cs[c].downs = conn[c].downs /\ cs[c].out = conn[c].out
       /\ cs[c].registered = conn[c].registered
  <2> DEFINE r == conn[c]
             s == cs[c]
  <2>1. conn \in [Conns -> Connections] /\ r \in Connections
    BY <1>3, Numbers DEF ServerIInv, RecordsOK
  <2>2. l \in Nat
    BY <1>4, Numbers DEF Loops
  <2>3. cs = [conn EXCEPT ![c] = [r EXCEPT !.state = "kConnecting", !.loop = l]]
    BY <1>0
  <2>4. s = [r EXCEPT !.state = "kConnecting", !.loop = l]
        /\ \A d \in Conns : d # c => cs[d] = conn[d]
    BY <1>3, <2>1, <2>3
  <2> HIDE DEF r, s
  <2>5. s \in Connections
    BY <2>1, <2>2, <2>4 DEF Connections
  <2>6. /\ s.state = "kConnecting" /\ s.loop = l /\ s.ups = r.ups /\ s.downs = r.downs
        /\ s.out = r.out /\ s.registered = r.registered
    BY <2>1, <2>4 DEF Connections
  <2>7. cs = [d \in Conns |-> cs[d]]
    BY <2>1, <2>3
  <2>8. \A d \in Conns : cs[d] \in Connections
    BY <2>1, <2>4, <2>5 DEF s
  <2>9. cs \in [Conns -> Connections]
    BY <2>7, <2>8
  <2> QED
    BY <2>4, <2>6, <2>9 DEF r, s
<1>11. /\ StageOK(c) /\ conn[c].ups = 0 /\ conn[c].downs = 0 /\ c \notin server.connections
       /\ conn[c].registered = FALSE
  <2>1. StageOK(c) /\ c >= server.next_connid /\ conn[c].registered \in BOOLEAN
    BY <1>0, <1>3, Numbers, LoopExists
  <2> QED
    BY <2>1 DEF StageOK, Told
<1>12. /\ \A d \in Conns : d # c => conn'[d] = conn[d]
       /\ conn'[c].loop = l /\ conn'[c].downs = 0
       /\ l = 0 => conn'[c].ups = 1
       /\ l # 0 => conn'[c].ups = 0 /\ conn'[c].state = "kConnecting" /\ conn'[c].registered = FALSE
  <2>1. CASE l = 0
    <3>1. conn' = EstablishConnection(cs, c)
      BY <1>1, <2>1
    <3>2. /\ \A d \in Conns : d # c => conn'[d] = cs[d]
          /\ conn'[c].ups = cs[c].ups + 1 /\ conn'[c].downs = cs[c].downs
          /\ conn'[c].loop = cs[c].loop
      BY <1>3, <1>10, <3>1, EstablishIs
    <3> QED
      BY <1>10, <1>11, <2>1, <3>2
  <2>2. CASE l # 0
    BY <1>1, <1>10, <1>11, <2>2
  <2> QED
    BY <2>1, <2>2
<1>13. /\ queue' \in [Loops -> Seq(Functors)] /\ WellOrdered(queue')
       /\ \A m \in Loops : m # l => queue'[m] = queue[m]
       /\ \A m \in Loops : Len(queue'[m]) >= Len(queue[m]) /\ Len(queue[m]) \in Nat /\ Len(queue'[m]) \in Nat
       /\ \A m \in Loops : \A v, d :
             Ticket(queue', m, v, d) <=>
                Ticket(queue, m, v, d) \/ (l # 0 /\ m = l /\ v = "establish" /\ d = c)
  <2>1. CASE l = 0
    <3>1. queue' = queue /\ \A m \in Loops : Len(queue[m]) \in Nat
      BY <1>1, <1>9, <2>1
    <3> QED
      BY <1>9, <2>1, <3>1
  <2>2. CASE l # 0
    <3>1. PICK p, f : p = queue' /\ p = Put(queue, l, "establish", c) /\ f = <<"establish", c>>
      BY <1>1, <2>2
    <3>2. /\ p \in [Loops -> Seq(Functors)]
          /\ \A m \in Loops : m # l => p[m] = queue[m]
          /\ Len(queue[l]) \in Nat /\ Len(p[l]) = Len(queue[l]) + 1
          /\ \A m \in Loops : \A v, d :
                Ticket(p, m, v, d) <=> Ticket(queue, m, v, d) \/ (m = l /\ v = "establish" /\ d = c)
      BY <1>3, <1>4, <1>9, <3>1, PutTicket
    <3>3. WellOrdered(p)
      BY <1>3, <1>4, <1>9, <3>1, PutOrdered
    <3>4. ASSUME NEW m \in Loops
          PROVE  Len(p[m]) >= Len(queue[m]) /\ Len(queue[m]) \in Nat /\ Len(p[m]) \in Nat
      <4>1. Len(queue[m]) \in Nat
        BY <1>9
      <4>2. p[m] = queue[m] \/ Len(p[m]) = Len(queue[m]) + 1
        BY <3>2
      <4> QED
        BY <4>1, <4>2
    <3> QED
      BY <2>2, <3>1, <3>2, <3>3, <3>4
  <2> QED
    BY <2>1, <2>2
<1>14. RouteTypes'
  <2>1. loop' \in [Loops -> LoopStates] /\ server.connections \subseteq Conns
    BY <1>1 DEF RouteInv, RouteTypes
  <2> QED
    BY <1>3, <1>6, <1>13, <2>1 DEF RouteTypes
<1>15. CountInv'
  BY <1>1, <1>2, <1>3, <1>5, <1>6, <1>7, <1>8, Numbers DEF CountInv
<1>16. PhaseInv'
  <2>1. ASSUME NEW m \in IoLoops
        PROVE  loop[m].phase \in {"events", "functors"} /\ ~loop[m].quit
    BY <1>2, <1>8 DEF RouteInv, PhaseInv
  <2> QED
    BY <1>1, <1>2, <1>6, <1>8, <2>1 DEF RouteInv, PhaseInv, CaughtBehind
<1>17. TicketInv'
  <2> SUFFICES ASSUME NEW m \in Loops, NEW v, NEW d, Ticket(queue', m, v, d)
               PROVE  TicketOK(m, v, d)'
    BY <1>13 DEF TicketInv
  <2>1. CASE Ticket(queue, m, v, d)
    <3>1. TicketOK(m, v, d) /\ d # c
      BY <1>9, <2>1 DEF RouteInv, TicketInv
    <3>2. conn'[d] = conn[d] /\ d < c + 1
      BY <1>0, <1>3, <1>12, <3>1, Numbers DEF TicketOK
    <3> QED
      BY <1>6, <3>1, <3>2 DEF TicketOK
  <2>2. CASE ~Ticket(queue, m, v, d)
    <3>1. l # 0 /\ m = l /\ v = "establish" /\ d = c
      BY <1>13, <2>2
    <3>2. c < c + 1
      BY <1>3
    <3> QED
      BY <1>3, <1>6, <1>12, <3>1, <3>2 DEF TicketOK
  <2> QED
    BY <2>1, <2>2
<1>18. ASSUME NEW d \in Conns, d # c PROVE StageOK(d)'
  <2>1. StageOK(d) /\ conn[d].loop \in Loops /\ d \in Nat /\ conn'[d] = conn[d]
    BY <1>12, <1>18, LoopExists
  <2>2. (New(d)' <=> New(d)) /\ (Ending(d)' <=> Ending(d)) /\ (Closing(d)' <=> Closing(d))
    BY <1>8, <1>13, <1>18, <2>1 DEF New, Ending, Closing
  <2>3. /\ d >= c + 1 => d >= server.next_connid
        /\ d < c + 1 => d < server.next_connid
        /\ d \in server'.connections <=> d \in server.connections
    BY <1>0, <1>3, <1>6, <1>18, <2>1
  <2> QED
    BY <1>1, <1>6, <1>8, <2>1, <2>2, <2>3 DEF StageOK, Finished, Told
<1>19. StageOK(c)'
  <2>1. ~Ending(c)' /\ ~Closing(c)'
    BY <1>4, <1>8, <1>9, <1>12, <1>13 DEF Ending, Closing
  <2>2. New(c)' <=> l # 0
    BY <1>4, <1>9, <1>12, <1>13 DEF New
  <2>3. ~(c >= c + 1) /\ c < c + 1
    BY <1>3
  <2>4. c \in server'.connections
    BY <1>6
  <2>5. CASE l = 0
    <3>1. ~New(c)' /\ conn'[c].ups = 1 /\ conn'[c].downs = 0
      BY <1>12, <2>2, <2>5
    <3> QED
      BY <1>4, <1>6, <1>8, <1>12, <2>1, <2>3, <2>4, <2>5, <3>1 DEF StageOK, Told
  <2>6. CASE l # 0
    BY <1>4, <1>6, <1>8, <1>12, <2>1, <2>2, <2>3, <2>4, <2>6 DEF StageOK, Told
  <2> QED
    BY <2>5, <2>6
<1>20. ASSUME NEW d \in Conns PROVE CaughtOK(d)'
  BY <1>1, <1>2, <1>8 DEF RouteInv, CaughtOK
<1> QED
  BY <1>14, <1>15, <1>16, <1>17, <1>18, <1>19, <1>20 DEF RouteInv

\* The constructors: no connection, no functor.
LEMMA RouteInit == Init => RouteInv
<1> SUFFICES ASSUME Init PROVE RouteInv
  OBVIOUS
<1>1. MaxThreads \in Nat /\ MaxClients \in Nat
  BY TcpServerAssumption
<1>2. /\ queue \in [Loops -> Seq(Functors)] /\ loop \in [Loops -> LoopStates]
      /\ \A l \in Loops : queue[l] = <<>> /\ ~loop[l].quit
      /\ server.connections = {} /\ server.thread_num = 0 /\ server.next_connid = 1
      /\ server.state = "alive" /\ server.started = 0 /\ server.next = 1
      /\ acceptor.backlog = 0 /\ acceptor.arrived = 0 /\ ~acceptor.listening
      /\ base_pc = "loop" /\ caught = {}
  BY DEF Init, LoopStates
<1>3. IoLoops = {} /\ 0 \in Loops
  BY <1>1, <1>2 DEF IoLoops, Loops
<1>4. \A l \in Loops : \A i : i \notin 1..Len(queue[l])
  BY <1>2
<1>5. \A l \in Loops : \A v, c : ~Ticket(queue, l, v, c)
  BY <1>4 DEF Ticket
<1>6. RouteTypes /\ CountInv
  BY <1>1, <1>2 DEF RouteTypes, CountInv
<1>7. PhaseInv
  BY <1>2, <1>3 DEF PhaseInv, CaughtBehind
<1>8. TicketInv
  BY <1>4, <1>5 DEF TicketInv, WellOrdered
<1>9. ASSUME NEW c \in Conns PROVE StageOK(c) /\ CaughtOK(c)
  <2>1. /\ conn[c].ups = 0 /\ conn[c].downs = 0 /\ conn[c].loop = 0 /\ ~conn[c].registered
        /\ conn[c].state = "none"
    BY DEF Init
  <2>2. ~New(c) /\ ~Ending(c) /\ ~Closing(c)
    BY <1>3, <1>5, <2>1 DEF New, Ending, Closing
  <2> QED
    BY <1>2, <2>1, <2>2 DEF StageOK, CaughtOK, Told
<1> QED
  BY <1>6, <1>7, <1>8, <1>9 DEF RouteInv

\* Every step keeps it.
LEMMA RouteNext == ServerIInv /\ RouteInv /\ [Next]_vars => RouteInv'
<1> SUFFICES ASSUME ServerIInv, RouteInv, [Next]_vars PROVE RouteInv'
  OBVIOUS
<1>1. ASSUME NEW n \in 0..MaxThreads, Start(n) PROVE RouteInv'
  BY <1>1, StartRoutes
<1>2. ASSUME NewTcpConnection PROVE RouteInv'
  BY <1>2, NewConnectionRoutes
<1>3. ASSUME AcceptFails \/ TurnAway \/ Reopen \/ ClientConnects \/ OtherOpens \/ OtherCloses
      PROVE  RouteInv'
  BY <1>3, AcceptorRoutes
<1>4. ASSUME NEW c \in Conns, ConnectionStep(c) PROVE RouteInv'
  BY <1>4, ConnectionRoutes
<1>5. ASSUME BaseFunctor PROVE RouteInv'
  BY <1>5, BaseFunctorRoutes
<1>6. ASSUME NEW l \in IoLoops, LoopStep(l) PROVE RouteInv'
  <2>1. RunFunctor(l) \/ BeginFunctors(l) \/ EndFunctors(l)
    BY <1>6 DEF LoopStep
  <2> QED
    BY <2>1, RunRoutes, LoopRoutes
<1>7. ASSUME Destructor \/ DestroyNext PROVE RouteInv'
  BY <1>7, DestructorRoutes, DestroyNextRoutes
<1>8. ASSUME JoinNext \/ DestructorEnds PROVE RouteInv'
  BY <1>8, EndRoutes
<1>9. ASSUME UNCHANGED vars PROVE RouteInv'
  <2>1. UNCHANGED <<server, acceptor, base_pc, conn, queue, loop, caught>>
    BY <1>9 DEF vars
  <2>2. ASSUME NEW c \in Conns PROVE StageOK(c)' /\ CaughtOK(c)'
    <3>1. StageOK(c) /\ CaughtOK(c)
      BY DEF RouteInv
    <3> QED
      BY <2>1, <3>1 DEF StageOK, CaughtOK, New, Ending, Closing, Ticket,
                           Finished, Told, IoLoops
  <2>3. RouteTypes' /\ CountInv'
    BY <2>1 DEF RouteInv, RouteTypes, CountInv, IoLoops
  <2>4. PhaseInv'
    BY <2>1 DEF RouteInv, PhaseInv, CaughtBehind, IoLoops
  <2>5. TicketInv'
    BY <2>1 DEF RouteInv, TicketInv, TicketOK
  <2> QED
    BY <2>2, <2>3, <2>4, <2>5 DEF RouteInv
<1> QED
  BY <1>1, <1>2, <1>3, <1>4, <1>5, <1>6, <1>7, <1>8, <1>9 DEF Next, HandleRead, ConnectionStep

\* What is left to do for a connection is always in the queue of the right loop,
\* once, and in an order that can be carried out (TcpServer.cpp:25-73,
\* EventLoop.cpp:57-66, 91-108).
THEOREM RouteInvariant == Spec => []RouteInv
<1>1. Init => RouteInv
  BY RouteInit
<1>2. ServerIInv /\ RouteInv /\ [Next]_vars => RouteInv'
  BY RouteNext
<1> QED
  BY <1>1, <1>2, ServerInvariant, PTL DEF Spec

\* However closes, the server's destructor and the ends of the loops meet, the
\* user is told once of a connection's end, and when the server is gone has been
\* told of every one, but for just those caught behind CallPendingFunctors
\* (TcpServer.cpp:25-33, 62-73, EventLoop.cpp:57-66, 153-163).
THEOREM ToldOfEndOnce == Spec => []DownOnce
<1>1. ASSUME ServerIInv, RouteInv PROVE DownOnce
  <2> SUFFICES ASSUME NEW c \in Conns
               PROVE  /\ conn[c].downs <= conn[c].ups
                      /\ conn[c].ups <= 1
                      /\ server.state = "dead" /\ conn[c].ups = 1
                            => (conn[c].downs = 1 \/ Pending(c) <=> c \notin caught)
    BY DEF DownOnce
  <2>1. /\ StageOK(c) /\ CaughtOK(c) /\ conn[c].ups \in Nat /\ conn[c].downs \in Nat
        /\ 0 \in Loops /\ 0 \notin IoLoops /\ c \in Nat /\ server.next_connid \in Nat
    BY <1>1, Numbers DEF RouteInv
  <2>2. conn[c].downs <= conn[c].ups /\ conn[c].ups <= 1
    BY <2>1 DEF StageOK
  <2>3. ASSUME server.state = "dead", conn[c].ups = 1, conn[c].downs # 1, c \notin caught
        PROVE  Pending(c)
    <3>1. Told(c)
      BY <2>1, <2>2, <2>3 DEF Told
    <3>2. server.connections = {}
      BY <1>1, <2>3 DEF RouteInv, PhaseInv
    <3>3. Ending(c)
      BY <2>1, <2>3, <3>1, <3>2 DEF StageOK
    <3>4. conn[c].loop \notin IoLoops
      <4>1. SUFFICES ASSUME conn[c].loop \in IoLoops PROVE FALSE
        OBVIOUS
      <4>2. queue[conn[c].loop] = <<>>
        BY <1>1, <2>3, <4>1 DEF RouteInv, PhaseInv
      <4>3. \A i : i \notin 1..Len(queue[conn[c].loop])
        BY <4>2
      <4> QED
        BY <3>3, <4>3 DEF Ending, Ticket
    <3>5. conn[c].loop = 0
      <4>1. c < server.next_connid \/ c >= server.next_connid
        BY <2>1
      <4> QED
        BY <2>1, <3>4, <4>1 DEF StageOK
    <3> QED
      BY <3>3, <3>5 DEF Ending, Ticket, Pending
  <2>4. ASSUME c \in caught PROVE conn[c].downs # 1 /\ ~Pending(c)
    <3>1. conn[c].loop # 0 /\ conn[c].downs = 0
      BY <2>1, <2>4 DEF CaughtOK
    <3>2. ~Ticket(queue, 0, "destroy", c)
      BY <1>1, <2>1, <3>1 DEF RouteInv, TicketInv, TicketOK
    <3> QED
      BY <3>1, <3>2 DEF Pending, Ticket
  <2> QED
    BY <2>2, <2>3, <2>4
<1> QED
  BY <1>1, ServerInvariant, RouteInvariant, PTL

\* No handler, and no timer that kept its connection alive, calls back a server that
\* is gone: what is left of a connection then is disconnected with no output, or
\* belongs to a loop that has ended
\* (TcpServer.cpp:25-33, 62, TcpConnection.cpp:47-55, 146-156, 188-208).
THEOREM DeadServerNotCalled == Spec => []DeadServerUntouched
<1>1. Init => DeadServerUntouched
  BY DEF Init, DeadServerUntouched
<1>2. ASSUME ServerIInv, RouteInv, DeadServerUntouched, [Next]_vars
      PROVE  DeadServerUntouched'
  <2>1. server \in Servers /\ ~server.touched
    BY <1>2 DEF ServerIInv, RecordsOK, DeadServerUntouched
  <2>2. ASSUME NEW c \in Conns, ConnectionStep(c) PROVE ~server'.touched
    <3>1. CASE UNCHANGED server
      BY <2>1, <3>1
    <3>2. CASE CloseCallBack(c) /\ server.state # "dead"
      BY <2>1, <3>2 DEF CloseCallBack, Servers
    <3> QED
      BY <1>2, <2>2, <3>1, <3>2, ConnectionStepIs, CloseFindsServer
  <2>3. ASSUME NEW n \in 0..MaxThreads, Start(n) PROVE ~server'.touched
    BY <2>1, <2>3 DEF Start, Servers
  <2>4. ASSUME NewTcpConnection PROVE ~server'.touched
    <3>1. PICK k, n, s : server' = [server EXCEPT !.next_connid = k, !.next = n, !.connections = s]
      BY <2>4 DEF NewTcpConnection
    <3> QED
      BY <2>1, <3>1 DEF Servers
  <2>5. ASSUME BaseFunctor PROVE ~server'.touched
    BY <2>1, <2>5 DEF BaseFunctor, RemoveClosure, Servers
  <2>6. ASSUME Destructor \/ DestroyNext \/ DestructorEnds PROVE ~server'.touched
    BY <2>1, <2>6 DEF Destructor, DestroyNext, DestructorEnds, Servers
  <2>7. ASSUME \/ AcceptFails \/ TurnAway \/ Reopen \/ ClientConnects \/ OtherOpens \/ OtherCloses
               \/ JoinNext \/ UNCHANGED vars
               \/ \E l \in IoLoops : LoopStep(l)
        PROVE  ~server'.touched
    <3>1. UNCHANGED server
      BY <2>7 DEF AcceptFails, TurnAway, Reopen, ClientConnects, OtherOpens, OtherCloses,
                  JoinNext, vars, LoopStep, BeginFunctors, RunFunctor, EndFunctors
    <3> QED
      BY <2>1, <3>1
  <2> QED
    BY <1>2, <2>2, <2>3, <2>4, <2>5, <2>6, <2>7
    DEF Next, HandleRead, ConnectionStep, DeadServerUntouched
<1> QED
  BY <1>1, <1>2, ServerInvariant, RouteInvariant, PTL DEF Spec

=============================================================================
