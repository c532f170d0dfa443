---------------------------- MODULE DaemonProofs ----------------------------
(***************************************************************************)
(* Theorems about Daemon, for any set of invocations and any number of     *)
(* signals: while no two invocations overlap in the wrong way, the pid     *)
(* file names the daemon that runs.                                        *)
(***************************************************************************)
EXTENDS Daemon, TLAPS

\* Nothing has gone wrong yet that the code does not guard against.
Orderly == ~raced /\ ~misread

\* A daemon that has written its pid.
Written == {"close", "dup", "running", "exiting"}

\* While one invocation is inside Start() no other one is in Start() or Stop().
StartAlone ==
    \A p, q \in Procs :
        p # q /\ pc[p] \in StartLocations => pc[q] \notin StartLocations \cup StopLocations

\* The pid file names the daemon from the write to the unlink.
FileNames == \A p \in Procs : pc[p] \in Written => path # None /\ content[path] = p

\* The file a new daemon has open is the one the name leads to.
OpenFile == \A p \in Procs : pc[p] \in {"lock", "write"} => path = fd[p] /\ path # None

\* What a Start() or Stop() has read still tells which daemon runs, if one does:
\* behind its check a Start() is the only daemon, and so is nobody behind the
\* end that Stop() waits for.
SeenIsCurrent ==
    \A p, q \in Procs : p # q /\ pc[q] \in {"running", "exiting"} =>
        /\ pc[p] \in {"alive?", "kill", "wait"} => seen[p] = q
        /\ pc[p] \notin (StartLocations \ {"alive?"}) \cup {"unlink"}

\* The inductive invariant.
IInv ==
    /\ TypeOK
    /\ ~misread => \A p \in Procs : seen[p] # Stranger
    /\ Orderly => StartAlone /\ FileNames /\ OpenFile /\ SeenIsCurrent

-----------------------------------------------------------------------------
(* Type correctness.                                                       *)

\* Before the first invocation the variables are well typed.
LEMMA TypeInit == Init => TypeOK
<1> SUFFICES ASSUME Init PROVE TypeOK
  OBVIOUS
<1>1. "none" \in Locations
  BY DEF Locations
<1>2. pc \in [Procs -> Locations] /\ tries \in [Procs -> Nat]
  BY <1>1 DEF Init
<1>3. raced \in BOOLEAN /\ misread \in BOOLEAN
  BY DEF Init
<1> QED
  BY <1>2, <1>3 DEF Init, TypeOK

\* Every system call of Daemon.cpp keeps the types.
LEMMA TypeStep == TypeOK /\ [Next]_vars => TypeOK'
<1> SUFFICES ASSUME TypeOK, [Next]_vars PROVE TypeOK'
  OBVIOUS
<1> USE DaemonAssumption DEF TypeOK, Locations, DaemonLocations, StartLocations,
        StopLocations, Commands, Go, Read, Pid
<1>1. ASSUME NEW p \in Procs, NEW c \in Commands, Process(p, c) PROVE TypeOK'
  BY <1>1 DEF Process
<1>2. ASSUME NEW p \in Procs, Start(p) PROVE TypeOK'
  <2>1. CASE StartReads(p)
    BY <2>1 DEF StartReads
  <2>2. CASE StartChecks(p)
    BY <2>2 DEF StartChecks
  <2>3. CASE OpenPidFile(p)
    BY <2>3 DEF OpenPidFile
  <2>4. CASE LockPidFile(p)
    BY <2>4 DEF LockPidFile
  <2>5. CASE WritePid(p)
    BY <2>5 DEF WritePid
  <2>6. CASE ClosePidFile(p)
    BY <2>6 DEF ClosePidFile
  <2>7. CASE StartReturns(p)
    BY <2>7 DEF StartReturns
  <2> QED
    BY <1>2, <2>1, <2>2, <2>3, <2>4, <2>5, <2>6, <2>7 DEF Start
<1>3. ASSUME NEW p \in Procs, Stop(p) PROVE TypeOK'
  <2>1. CASE StopReads(p)
    <3>1. raced' \in BOOLEAN
      BY <2>1 DEF StopReads
    <3> QED
      BY <2>1, <3>1 DEF StopReads
  <2>2. CASE StopKills(p)
    BY <2>2 DEF StopKills
  <2>3. CASE StopWaits(p)
    BY <2>3 DEF StopWaits
  <2>4. CASE StopUnlinks(p)
    BY <2>4 DEF StopUnlinks
  <2> QED
    BY <1>3, <2>1, <2>2, <2>3, <2>4 DEF Stop
<1>4. ASSUME NEW p \in Procs, RestartReads(p) PROVE TypeOK'
  BY <1>4 DEF RestartReads
<1>5. ASSUME NEW p \in Procs, RestartChecks(p) PROVE TypeOK'
  BY <1>5 DEF RestartChecks
<1>6. ASSUME NEW p \in Procs, Exit(p) \/ ExitUnlinks(p) \/ Dies(p) PROVE TypeOK'
  BY <1>6 DEF Exit, ExitUnlinks, Dies
<1>7. CASE UNCHANGED vars
  BY <1>7 DEF vars
<1> QED
  BY <1>1, <1>2, <1>3, <1>4, <1>5, <1>6, <1>7 DEF Next
-----------------------------------------------------------------------------
(* The pid file names the daemon.                                          *)

\* What IInv says beyond the types.
SeenInv == ~misread => \A p \in Procs : seen[p] # Stranger
OrderInv == Orderly => StartAlone /\ FileNames /\ OpenFile /\ SeenIsCurrent

\* Nothing has started yet.
LEMMA OrderInit == Init => SeenInv /\ OrderInv
BY DaemonAssumption DEF Init, SeenInv, OrderInv, StartAlone, FileNames, OpenFile,
   SeenIsCurrent, StartLocations, Written

\* A pid that was always read right is nobody else's (Daemon.cpp:36-48).
LEMMA SeenStep == TypeOK /\ SeenInv /\ [Next]_vars => SeenInv'
<1> SUFFICES ASSUME TypeOK, SeenInv, [Next]_vars PROVE SeenInv'
  OBVIOUS
<1> USE DaemonAssumption DEF TypeOK, SeenInv
<1>1. ASSUME NEW p \in Procs, Read(p) PROVE SeenInv'
  <2>1. Pid \in Procs \cup {None}
    BY DEF Pid
  <2>2. PICK n \in {None, Pid, Stranger} :
          seen' = [seen EXCEPT ![p] = n] /\ misread' = (misread \/ n # Pid)
    BY <1>1 DEF Read
  <2> QED
    BY <2>1, <2>2
<1>2. ASSUME UNCHANGED <<seen, misread>> PROVE SeenInv'
  BY <1>2
<1> QED
  BY <1>1, <1>2 DEF Next, vars, Process, Start, Stop, StartReads, StartChecks,
     OpenPidFile, LockPidFile, WritePid, ClosePidFile, StartReturns, StopReads,
     StopKills, StopWaits, StopUnlinks, RestartReads, RestartChecks, Exit,
     ExitUnlinks, Dies

\* The histories do not forget.
LEMMA Monotone == [Next]_vars => (raced => raced') /\ (misread => misread')
<1> SUFFICES ASSUME [Next]_vars PROVE (raced => raced') /\ (misread => misread')
  OBVIOUS
<1>1. ASSUME NEW p \in Procs, StartReads(p) PROVE (raced => raced') /\ (misread => misread')
  BY <1>1, Zenon DEF StartReads, Read
<1>2. ASSUME NEW p \in Procs, StopReads(p) PROVE (raced => raced') /\ (misread => misread')
  BY <1>2, Zenon DEF StopReads, Read
<1>3. ASSUME NEW p \in Procs, RestartReads(p) PROVE (raced => raced') /\ (misread => misread')
  BY <1>3, Zenon DEF RestartReads, Read
<1>4. ASSUME UNCHANGED <<raced, misread>> PROVE (raced => raced') /\ (misread => misread')
  BY <1>4
<1> QED
  BY <1>1, <1>2, <1>3, <1>4 DEF Next, vars, Process, Start, Stop, StartChecks,
     OpenPidFile, LockPidFile, WritePid, ClosePidFile, StartReturns, StopKills,
     StopWaits, StopUnlinks, RestartChecks, Exit, ExitUnlinks, Dies

\* A read that was in order returns what the file holds.
LEMMA ReadPid ==
    ASSUME TypeOK, NEW p \in Procs, Read(p), ~misread'
    PROVE  seen' = [seen EXCEPT ![p] = Pid]
BY Zenon DEF Read

\* Every system call of Daemon.cpp keeps the rest, one action after the other.
LEMMA OrderStep == TypeOK /\ SeenInv /\ OrderInv /\ [Next]_vars => OrderInv'
<1> SUFFICES ASSUME TypeOK, SeenInv, OrderInv, [Next]_vars, Orderly'
             PROVE  StartAlone' /\ FileNames' /\ OpenFile' /\ SeenIsCurrent'
  BY DEF OrderInv
<1> DEFINE Goal == StartAlone' /\ FileNames' /\ OpenFile' /\ SeenIsCurrent'
<1>0. Orderly
  BY Monotone DEF Orderly
<1> USE <1>0, DaemonAssumption DEF TypeOK, SeenInv, OrderInv, Orderly, StartAlone,
        FileNames, OpenFile, SeenIsCurrent, Go, StartLocations, StopLocations, Written
<1>1. ASSUME NEW p \in Procs, NEW c \in Commands, Process(p, c) PROVE Goal
  BY <1>1 DEF Process, Commands
<1>2. ASSUME NEW p \in Procs, Start(p) PROVE Goal
  <2>1. CASE StartReads(p)
    <3>1. ~Another(p, StartLocations \cup StopLocations) /\ Read(p)
      BY <2>1, Zenon DEF StartReads
    <3>2. seen' = [seen EXCEPT ![p] = Pid]
      BY <3>1, ReadPid
    <3>3. \A q \in Procs \ {p} : pc[q] \notin StartLocations \cup StopLocations
      BY <3>1 DEF Another
    <3> QED
      BY <2>1, <3>2, <3>3 DEF StartReads, Pid
  <2>2. CASE StartChecks(p)
    <3>1. CASE pc' = [pc EXCEPT ![p] = "dead"]
      BY <2>2, <3>1 DEF StartChecks
    <3>2. CASE FALSE \in Killed(seen[p]) /\ pc' = [pc EXCEPT ![p] = "open"]
      <4>1. ~Alive(seen[p])
        BY <3>2, Zenon DEF Killed
      <4>2. \A q \in Procs \ {p} : pc[q] \notin {"running", "exiting"}
        BY <2>2, <4>1 DEF StartChecks, Alive, DaemonLocations
      <4> QED
        BY <2>2, <3>2, <4>2 DEF StartChecks
    <3> QED
      BY <2>2, <3>1, <3>2 DEF StartChecks
  <2>3. CASE OpenPidFile(p)
    BY <2>3 DEF OpenPidFile
  <2>4. CASE LockPidFile(p)
    BY <2>4 DEF LockPidFile
  <2>5. CASE WritePid(p)
    BY <2>5 DEF WritePid
  <2>6. CASE ClosePidFile(p)
    BY <2>6 DEF ClosePidFile
  <2>7. CASE StartReturns(p)
    BY <2>7 DEF StartReturns
  <2> QED
    BY <1>2, <2>1, <2>2, <2>3, <2>4, <2>5, <2>6, <2>7 DEF Start
<1>3. ASSUME NEW p \in Procs, Stop(p) PROVE Goal
  <2>1. CASE StopReads(p)
    <3>1. ~Another(p, StartLocations) /\ Read(p)
      BY <2>1, Zenon DEF StopReads
    <3>2. seen' = [seen EXCEPT ![p] = Pid]
      BY <3>1, ReadPid
    <3>3. \A q \in Procs \ {p} : pc[q] \notin StartLocations
      BY <3>1 DEF Another
    <3> QED
      BY <2>1, <3>2, <3>3 DEF StopReads, Pid
  <2>2. CASE StopKills(p)
    BY <2>2 DEF StopKills
  <2>3. CASE StopWaits(p)
    <3>1. CASE pc' = [pc EXCEPT ![p] = "dead"] \/ UNCHANGED pc
      BY <2>3, <3>1 DEF StopWaits
    <3>2. CASE FALSE \in Killed(seen[p]) /\ pc' = [pc EXCEPT ![p] = "unlink"]
      <4>1. ~Alive(seen[p])
        BY <3>2, Zenon DEF Killed
      <4>2. \A q \in Procs \ {p} : pc[q] \notin {"running", "exiting"}
        BY <2>3, <4>1 DEF StopWaits, Alive, DaemonLocations
      <4> QED
        BY <2>3, <3>2, <4>2 DEF StopWaits
    <3>3. PICK alive \in Killed(seen[p]) :
              \/ ~alive /\ Go(p, "unlink")
              \/ alive /\ (Go(p, "dead") \/ UNCHANGED pc)
      BY <2>3, Zenon DEF StopWaits
    <3>4. ASSUME ~alive PROVE FALSE \in Killed(seen[p])
      <4>1. alive \in BOOLEAN
        BY <3>3, Zenon DEF Killed, Alive
      <4> QED
        BY <3>4, <4>1, Zenon
    <3> QED
      BY <3>1, <3>2, <3>3, <3>4, Zenon
  <2>4. CASE StopUnlinks(p)
    BY <2>4 DEF StopUnlinks
  <2> QED
    BY <1>3, <2>1, <2>2, <2>3, <2>4 DEF Stop
<1>4. ASSUME NEW p \in Procs, RestartReads(p) PROVE Goal
  BY <1>4 DEF RestartReads, Read, Pid
<1>5. ASSUME NEW p \in Procs, RestartChecks(p) PROVE Goal
  BY <1>5 DEF RestartChecks
<1>6. ASSUME NEW p \in Procs, Exit(p) PROVE Goal
  BY <1>6 DEF Exit
<1>7. ASSUME NEW p \in Procs, ExitUnlinks(p) PROVE Goal
  BY <1>7 DEF ExitUnlinks
<1>8. ASSUME NEW p \in Procs, Dies(p) PROVE Goal
  BY <1>8 DEF Dies
<1>9. CASE UNCHANGED vars
  BY <1>9 DEF vars
<1> QED
  BY <1>1, <1>2, <1>3, <1>4, <1>5, <1>6, <1>7, <1>8, <1>9 DEF Next

\* The inductive invariant holds throughout.
LEMMA Invariance == Spec => []IInv
<1>1. Init => IInv
  BY TypeInit, OrderInit DEF IInv, SeenInv, OrderInv
<1>2. IInv /\ [Next]_vars => IInv'
  BY TypeStep, SeenStep, OrderStep DEF IInv, SeenInv, OrderInv
<1> QED
  BY <1>1, <1>2, PTL DEF Spec

\* Whatever dies, is refused or fails, a daemon that runs is the one the pid file
\* names, so there is one at most (Daemon.cpp:19-142).
THEOREM PidFileNames == Spec => []PidFileNamesDaemon
<1>1. IInv => PidFileNamesDaemon
  BY DEF IInv, PidFileNamesDaemon, Orderly, FileNames, Written, Pid
<1> QED
  BY <1>1, Invariance, PTL

\* Stop() succeeds only when no daemon runs (Daemon.cpp:100-123).
THEOREM StopIsComplete == Spec => StopLeavesNone
<1> DEFINE Stopped ==
        \A p \in Procs : StopUnlinks(p) /\ ~raced /\ ~misread =>
            \A q \in Procs : pc'[q] # "running"
<1>1. IInv /\ [Next]_vars => [Stopped]_vars
  BY DEF IInv, TypeOK, Orderly, SeenIsCurrent, StopUnlinks, Go
<1> QED
  BY <1>1, Invariance, PTL DEF Spec, StopLeavesNone
=============================================================================
