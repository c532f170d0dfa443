------------------------------- MODULE Daemon -------------------------------
(***************************************************************************)
(* windz::daemon: invocations of one program with "start", "stop" or       *)
(* "restart", the daemons they leave behind, and the pid file they have in *)
(* common.                                                                 *)
(*                                                                         *)
(* A process is one invocation; after its two fork()s it is the daemon,    *)
(* whose pid nobody else gets.  A system call is a step (open() and read() *)
(* of GetPidFromFile are one).  A daemon may die at any step, of a signal  *)
(* or of a fault.  File contents belong to inodes: an unlinked file lives  *)
(* on for those who have it open.                                          *)
(***************************************************************************)
EXTENDS Naturals, FiniteSets

CONSTANTS
    Procs,      \* the invocations
    None,       \* no process, no file
    Stranger,   \* a pid that is not in the pid file
    MaxTries    \* SIGQUITs Stop() sends before it gives up

ASSUME DaemonAssumption ==
    /\ {None, Stranger} \cap Procs = {} /\ None # Stranger
    /\ MaxTries \in Nat \ {0}

VARIABLES
    pc,         \* where each process is; its commands below
    cmd,        \* "start", "stop" or "restart"
    seen,       \* the pid it read, None if there was none
    fd,         \* the inode it opened to write its pid
    tries,
    path,       \* the inode the pid file's name leads to; an inode is named
                \* after the process that created it
    content,    \* of each inode: a pid, or None if empty
    raced,      \* history: a Start() overlapped with a Start() or Stop() of
                \* another invocation
    misread     \* history: GetPidFromFile() returned another pid than the file's

vars == <<pc, cmd, seen, fd, tries, path, content, raced, misread>>

Commands == {"start", "stop", "restart"}

\* Locations of a process that is a daemon, or is about to be one.
DaemonLocations == {"open", "lock", "write", "close", "dup", "running", "exiting"}
\* Locations inside Start() and Stop() once they have read the pid file.
StartLocations == {"alive?", "open", "lock", "write", "close", "dup"}
StopLocations == {"kill", "wait", "unlink"}
Locations == {"none", "check", "stop", "restart", "restart?", "dead"}
                 \cup DaemonLocations \cup StartLocations \cup StopLocations

Init ==
    /\ pc = [p \in Procs |-> "none"]
    /\ cmd = [p \in Procs |-> None]
    /\ seen = [p \in Procs |-> None]
    /\ fd = [p \in Procs |-> None]
    /\ tries = [p \in Procs |-> 0]
    /\ path = None
    /\ content = [i \in Procs |-> None]
    /\ raced = FALSE
    /\ misread = FALSE

Alive(p) == p \in Procs /\ pc[p] \in DaemonLocations

\* Whether kill() may find a process x: a stranger is another program's or nobody.
Killed(x) == IF x = Stranger THEN BOOLEAN ELSE {Alive(x)}
Locked(i) == \E q \in Procs : pc[q] \in {"write", "close"} /\ fd[q] = i
Pid == IF path = None THEN None ELSE content[path]

Go(p, to) == pc' = [pc EXCEPT ![p] = to]

\* GetPidFromFile(): buf is not initialised, and what lies behind the pid's
\* digits may be more digits.
Read(p) ==
    \E x \in IF Pid = None THEN {None} ELSE {Pid, Stranger} :
        /\ seen' = [seen EXCEPT ![p] = x]
        /\ misread' = (misread \/ x # Pid)

Another(p, locations) == \E q \in Procs \ {p} : pc[q] \in locations

\* Process(cmd)
Process(p, c) ==
    /\ pc[p] = "none"
    /\ cmd' = [cmd EXCEPT ![p] = c]
    /\ Go(p, IF c = "start" THEN "check" ELSE c)
    /\ UNCHANGED <<seen, fd, tries, path, content, raced, misread>>

-----------------------------------------------------------------------------
(* Start(), in which Restart() ends.                                       *)

StartReads(p) ==
    /\ pc[p] = "check"
    /\ Read(p)
    /\ Go(p, "alive?")
    /\ raced' = (raced \/ Another(p, StartLocations \cup StopLocations))
    /\ UNCHANGED <<cmd, fd, tries, path, content>>

\* A slip: a refused start, too, removes the pid file when it exits.
StartChecksUnlinks(p) ==
    /\ pc[p] = "alive?"
    /\ \/ TRUE \in Killed(seen[p]) /\ Go(p, "dead") /\ path' = None
       \/ FALSE \in Killed(seen[p]) /\ Go(p, "open") /\ UNCHANGED path
    /\ UNCHANGED <<cmd, seen, fd, tries, content, raced, misread>>

\* A daemon runs: refused.  Otherwise fork() twice, which may fail.
StartChecks(p) ==
    /\ pc[p] = "alive?"
    /\ \/ Go(p, "dead")
       \/ FALSE \in Killed(seen[p]) /\ Go(p, "open")
    /\ UNCHANGED <<cmd, seen, fd, tries, path, content, raced, misread>>

\* WritePidFile: open(O_CREAT | O_TRUNC) ...
OpenPidFile(p) ==
    /\ pc[p] = "open"
    /\ LET i == IF path = None THEN p ELSE path
       IN  /\ path' = i
           /\ fd' = [fd EXCEPT ![p] = i]
           /\ content' = [content EXCEPT ![i] = None]
    /\ Go(p, "lock")
    /\ UNCHANGED <<cmd, seen, tries, raced, misread>>

\* ... lockf(F_TLOCK), or give up ...
LockPidFile(p) ==
    /\ pc[p] = "lock"
    /\ Go(p, IF Locked(fd[p]) THEN "dead" ELSE "write")
    /\ UNCHANGED <<cmd, seen, fd, tries, path, content, raced, misread>>

\* ... write(), which may fail ...
WritePid(p) ==
    /\ pc[p] = "write"
    /\ \/ Go(p, "close") /\ content' = [content EXCEPT ![fd[p]] = p]
       \/ Go(p, "dead") /\ UNCHANGED content
    /\ UNCHANGED <<cmd, seen, fd, tries, path, raced, misread>>

\* ... and close(), which drops the lock.
ClosePidFile(p) ==
    /\ pc[p] = "close"
    /\ Go(p, "dup")
    /\ UNCHANGED <<cmd, seen, fd, tries, path, content, raced, misread>>

\* /dev/null opens: unlink_file is registered and the daemon runs.
StartReturns(p) ==
    /\ pc[p] = "dup"
    /\ Go(p, "running") \/ Go(p, "dead")
    /\ UNCHANGED <<cmd, seen, fd, tries, path, content, raced, misread>>

\* exit(): the static object's destructor unlinks whatever has the name now.
Exit(p) ==
    /\ pc[p] = "running"
    /\ Go(p, "exiting")
    /\ UNCHANGED <<cmd, seen, fd, tries, path, content, raced, misread>>

ExitUnlinks(p) ==
    /\ pc[p] = "exiting"
    /\ path' = None
    /\ Go(p, "dead")
    /\ UNCHANGED <<cmd, seen, fd, tries, content, raced, misread>>

\* A SIGQUIT nobody handles, a fault, kill -9.
Dies(p) ==
    /\ Alive(p)
    /\ Go(p, "dead")
    /\ UNCHANGED <<cmd, seen, fd, tries, path, content, raced, misread>>

-----------------------------------------------------------------------------
(* Stop() and Restart().                                                   *)

StopReads(p) ==
    /\ pc[p] = "stop"
    /\ Read(p)
    /\ Go(p, IF Pid = None THEN "dead" ELSE "kill")
    /\ raced' = (raced \/ Another(p, StartLocations))
    /\ UNCHANGED <<cmd, fd, tries, path, content>>

StopKills(p) ==
    /\ pc[p] = "kill"
    /\ \E alive \in Killed(seen[p]) : Go(p, IF alive THEN "wait" ELSE "dead")
    /\ UNCHANGED <<cmd, seen, fd, tries, path, content, raced, misread>>

\* A slip: having sent all its signals, Stop() takes the daemon for dead.
StopWaitsAndHopes(p) ==
    /\ pc[p] = "wait"
    /\ tries' = [tries EXCEPT ![p] = @ + 1]
    /\ \E alive \in Killed(seen[p]) :
          \/ (tries'[p] = MaxTries \/ ~alive) /\ Go(p, "unlink")
          \/ alive /\ tries'[p] < MaxTries /\ UNCHANGED pc
    /\ UNCHANGED <<cmd, seen, fd, path, content, raced, misread>>

\* One turn of the loop that waits for the daemon's end.
StopWaits(p) ==
    /\ pc[p] = "wait"
    /\ tries' = [tries EXCEPT ![p] = @ + 1]
    /\ \E alive \in Killed(seen[p]) :
          \/ ~alive /\ Go(p, "unlink")
          \/ alive /\ tries'[p] = MaxTries /\ Go(p, "dead")
          \/ alive /\ tries'[p] < MaxTries /\ UNCHANGED pc
    /\ UNCHANGED <<cmd, seen, fd, path, content, raced, misread>>

\* The file may be another's by now.  Stop() has succeeded.
StopUnlinks(p) ==
    /\ pc[p] = "unlink"
    /\ path' = None
    /\ Go(p, IF cmd[p] = "restart" THEN "check" ELSE "dead")
    /\ UNCHANGED <<cmd, seen, fd, tries, content, raced, misread>>

RestartReads(p) ==
    /\ pc[p] = "restart"
    /\ Read(p)
    /\ Go(p, IF Pid = None THEN "check" ELSE "restart?")
    /\ UNCHANGED <<cmd, fd, tries, path, content, raced>>

RestartChecks(p) ==
    /\ pc[p] = "restart?"
    /\ \E alive \in Killed(seen[p]) : Go(p, IF alive THEN "stop" ELSE "check")
    /\ UNCHANGED <<cmd, seen, fd, tries, path, content, raced, misread>>

-----------------------------------------------------------------------------

Start(p) ==
    \/ StartReads(p) \/ StartChecks(p) \/ OpenPidFile(p) \/ LockPidFile(p)
    \/ WritePid(p) \/ ClosePidFile(p) \/ StartReturns(p)

Stop(p) == StopReads(p) \/ StopKills(p) \/ StopWaits(p) \/ StopUnlinks(p)

Next ==
    \E p \in Procs :
        \/ \E c \in Commands : Process(p, c)
        \/ Start(p)
        \/ Stop(p)
        \/ RestartReads(p) \/ RestartChecks(p)
        \/ Exit(p) \/ ExitUnlinks(p) \/ Dies(p)

Spec == Init /\ [][Next]_vars

-----------------------------------------------------------------------------
(* Properties.                                                             *)

\* One type per variable.
TypeOK ==
    /\ pc \in [Procs -> Locations]
    /\ cmd \in [Procs -> Commands \cup {None}]
    /\ seen \in [Procs -> Procs \cup {None, Stranger}]
    /\ fd \in [Procs -> Procs \cup {None}]
    /\ content \in [Procs -> Procs \cup {None}]
    /\ tries \in [Procs -> Nat]
    /\ path \in Procs \cup {None}
    /\ raced \in BOOLEAN /\ misread \in BOOLEAN

\* A daemon that runs is the one the pid file names - hence there is one at
\* most - through any deaths, refused and failed starts, stops and restarts
\* (Daemon.cpp:19-142), as long as no Start() overlaps with another Start() or
\* Stop() - the lock is taken after the look at the file and dropped once the pid
\* is written, so it protects neither what was looked up nor the unlink() - and
\* the pid was always read right.
PidFileNamesDaemon ==
    ~raced /\ ~misread => \A p \in Procs : pc[p] = "running" => Pid = p

\* When Stop() succeeds no daemon runs (Daemon.cpp:100-123), under the same
\* conditions.
StopLeavesNone ==
    [][\A p \in Procs : StopUnlinks(p) /\ ~raced /\ ~misread =>
            \A q \in Procs : pc'[q] # "running"]_vars
=============================================================================
