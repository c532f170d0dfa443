---------------------------- MODULE AsyncLogging ----------------------------
(***************************************************************************)
(* windz::AsyncLogging: threads append log lines to a buffer under mutex_, *)
(* and a background thread swaps the filled buffers out and writes them.   *)
(*                                                                         *)
(* A line is a number, the lines being numbered as they are appended, and  *)
(* takes one unit of a buffer (the lines LogStream makes always fit: 4000  *)
(* bytes against 4000 * 1000).  A buffer is the sequence of its lines; of  *)
(* the spare buffers only whether they are there is kept.                  *)
(***************************************************************************)
EXTENDS Naturals, Sequences, SequencesExt

CONSTANTS
    BufferLines,  \* lines that fit in a buffer
    MaxBuffers,   \* 25 in the code: more buffers than that are dropped
    MaxLines      \* lines appended (a bound)

ASSUME AsyncLoggingAssumption ==
    /\ BufferLines \in Nat \ {0}
    /\ MaxBuffers \in Nat /\ MaxBuffers >= 2
    /\ MaxLines \in Nat

VARIABLES
    current_buffer_,   \* its lines
    next_buffer_,      \* there is a spare buffer
    buffers_,          \* filled buffers
    running_,
    pc,                \* where ThreadFunc() is
    new_buffer1,       \* the thread's own spares
    new_buffer2,
    buffers_to_write,
    file,              \* lines written to the LogFile
    owner_pc,          \* where the owner is
    lines,             \* history: lines appended so far
    dropped,           \* history: lines dropped by overload
    before_stop        \* history: lines appended when Stop() found ThreadFunc()
                       \* in its wait, else 0

frontVars == <<current_buffer_, next_buffer_, buffers_, lines>>
backVars == <<pc, new_buffer1, new_buffer2, buffers_to_write, file, dropped>>
ownerVars == <<running_, owner_pc, before_stop>>
vars == <<frontVars, backVars, ownerVars>>

Init ==
    /\ current_buffer_ = <<>>
    /\ next_buffer_ = TRUE
    /\ buffers_ = <<>>
    /\ running_ = FALSE
    /\ pc = "none"
    /\ new_buffer1 = TRUE
    /\ new_buffer2 = TRUE
    /\ buffers_to_write = <<>>
    /\ file = <<>>
    /\ owner_pc = "new"
    /\ lines = 0
    /\ dropped = {}
    /\ before_stop = 0

-----------------------------------------------------------------------------
(* Any thread.                                                             *)

\* cond_.Notify(): the background thread, if it waits, may go on.
Notify == pc' = IF pc = "wait" THEN "swap" ELSE pc

\* A slip: a full buffer is replaced without being kept.
AppendLosesFull ==
    /\ lines < MaxLines
    /\ lines' = lines + 1
    /\ IF Len(current_buffer_) < BufferLines
       THEN /\ current_buffer_' = Append(current_buffer_, lines')
            /\ UNCHANGED <<next_buffer_, buffers_, pc>>
       ELSE /\ current_buffer_' = <<lines'>>
            /\ next_buffer_' = FALSE
            /\ Notify
            /\ UNCHANGED buffers_
    /\ UNCHANGED <<ownerVars, new_buffer1, new_buffer2, buffers_to_write, file, dropped>>

AppendLine ==
    /\ lines < MaxLines
    /\ lines' = lines + 1
    /\ IF Len(current_buffer_) < BufferLines
       THEN /\ current_buffer_' = Append(current_buffer_, lines')
            /\ UNCHANGED <<next_buffer_, buffers_, pc>>
       ELSE /\ buffers_' = Append(buffers_, current_buffer_)
            /\ current_buffer_' = <<lines'>>
            /\ next_buffer_' = FALSE     \* used if there, else a new one is made
            /\ Notify
    /\ UNCHANGED <<ownerVars, new_buffer1, new_buffer2, buffers_to_write, file, dropped>>

-----------------------------------------------------------------------------
(* The owner.                                                              *)

Start ==
    /\ owner_pc = "new"
    /\ running_' = TRUE
    /\ owner_pc' = "running"
    /\ pc' = "while"
    /\ UNCHANGED <<frontVars, new_buffer1, new_buffer2, buffers_to_write, file,
                   dropped, before_stop>>

\* Stop(): running_.SetFalse() ...
StopClearsRunning ==
    /\ owner_pc = "running"
    /\ running_' = FALSE
    /\ owner_pc' = "notify"
    /\ before_stop' = IF pc = "wait" THEN lines ELSE 0
    /\ UNCHANGED <<frontVars, backVars>>

\* ... cond_.Notify(), without mutex_ ...
StopNotifies ==
    /\ owner_pc = "notify"
    /\ owner_pc' = "join"
    /\ Notify
    /\ UNCHANGED <<frontVars, running_, before_stop, new_buffer1, new_buffer2,
                   buffers_to_write, file, dropped>>

\* ... thread_.Join().
StopJoins ==
    /\ owner_pc = "join"
    /\ pc = "exited"
    /\ owner_pc' = "stopped"
    /\ UNCHANGED <<frontVars, backVars, running_, before_stop>>

-----------------------------------------------------------------------------
(* The background thread.                                                  *)

\* A slip: while (true).
CheckNothing ==
    /\ pc = "while"
    /\ pc' = "lock"
    /\ UNCHANGED <<frontVars, ownerVars, new_buffer1, new_buffer2,
                   buffers_to_write, file, dropped>>

\* while (running_)
CheckRunning ==
    /\ pc = "while"
    /\ pc' = IF running_ THEN "lock" ELSE "exited"
    /\ UNCHANGED <<frontVars, ownerVars, new_buffer1, new_buffer2,
                   buffers_to_write, file, dropped>>

\* Lock mutex_; wait at most flush_interval_ if nothing is filled.
LockAndWait ==
    /\ pc = "lock"
    /\ pc' = IF buffers_ = <<>> THEN "wait" ELSE "swap"
    /\ UNCHANGED <<frontVars, ownerVars, new_buffer1, new_buffer2,
                   buffers_to_write, file, dropped>>

\* A slip: nothing is swapped when the wait ends and no buffer is full.
WaitTimesOutContinues ==
    /\ pc = "wait"
    /\ pc' = IF buffers_ = <<>> THEN "while" ELSE "swap"
    /\ UNCHANGED <<frontVars, ownerVars, new_buffer1, new_buffer2,
                   buffers_to_write, file, dropped>>

\* TimedWait ends without a signal: time is up, or spuriously.
WaitTimesOut ==
    /\ pc = "wait"
    /\ pc' = "swap"
    /\ UNCHANGED <<frontVars, ownerVars, new_buffer1, new_buffer2,
                   buffers_to_write, file, dropped>>

\* A slip: the buffer being filled is left in place.
SwapOnlyFilled ==
    /\ pc = "swap"
    /\ pc' = "write"
    /\ buffers_to_write' = buffers_
    /\ buffers_' = <<>>
    /\ new_buffer2' = (new_buffer2 /\ next_buffer_)
    /\ next_buffer_' = TRUE
    /\ UNCHANGED <<current_buffer_, lines, ownerVars, new_buffer1, file, dropped>>

\* The rest of the critical section.
SwapBuffers ==
    /\ pc = "swap"
    /\ pc' = "write"
    /\ buffers_to_write' = Append(buffers_, current_buffer_)
    /\ buffers_' = <<>>
    /\ current_buffer_' = <<>>
    /\ new_buffer1' = FALSE
    /\ new_buffer2' = (new_buffer2 /\ next_buffer_)
    /\ next_buffer_' = TRUE
    /\ UNCHANGED <<lines, ownerVars, file, dropped>>

\* A slip: one buffer survives an overload.
KeptIfOverloadedOne(b) == IF Len(b) > MaxBuffers THEN SubSeq(b, 1, 1) ELSE b

\* buffers_to_write.erase(begin() + 2, end()) if there are too many.
KeptIfOverloaded(b) == IF Len(b) > MaxBuffers THEN SubSeq(b, 1, 2) ELSE b

\* output.Append for each buffer kept.
WriteBuffers ==
    /\ pc = "write"
    /\ pc' = "refill"
    /\ LET kept == KeptIfOverloaded(buffers_to_write)
       IN  /\ file' = file \o FlattenSeq(kept)
           /\ dropped' = dropped \cup (ToSet(FlattenSeq(buffers_to_write)) \ ToSet(FlattenSeq(kept)))
           /\ buffers_to_write' = kept
    /\ UNCHANGED <<frontVars, ownerVars, new_buffer1, new_buffer2>>

\* Buffers the refill takes back as new_buffer1 and new_buffer2.
Missing == (IF new_buffer1 THEN 0 ELSE 1) + (IF new_buffer2 THEN 0 ELSE 1)

\* resize(2), refill the spares, clear(), Flush().
Refill ==
    /\ pc = "refill"
    /\ pc' = "while"
    /\ new_buffer1' = TRUE
    /\ new_buffer2' = TRUE
    /\ buffers_to_write' = <<>>
    /\ UNCHANGED <<frontVars, ownerVars, file, dropped>>

-----------------------------------------------------------------------------

BackThread ==
    CheckRunning \/ LockAndWait \/ WaitTimesOut \/ SwapBuffers \/ WriteBuffers \/ Refill

Next ==
    \/ AppendLine
    \/ Start
    \/ StopClearsRunning
    \/ StopNotifies
    \/ StopJoins
    \/ BackThread

\* The background thread keeps running and its TimedWait ends; Stop() goes on.
Fairness == WF_vars(BackThread) /\ WF_vars(StopNotifies) /\ WF_vars(StopJoins)

Spec == Init /\ [][Next]_vars /\ Fairness

-----------------------------------------------------------------------------
(* Properties.                                                             *)

\* One type per variable; a buffer never holds more lines than fit
\* (AsyncLogging.cpp:34).
TypeOK ==
    /\ current_buffer_ \in Seq(1..MaxLines) /\ Len(current_buffer_) <= BufferLines
    /\ buffers_ \in Seq(Seq(1..MaxLines))
    /\ buffers_to_write \in Seq(Seq(1..MaxLines))
    /\ {next_buffer_, running_, new_buffer1, new_buffer2} \subseteq BOOLEAN
    /\ pc \in {"none", "while", "lock", "wait", "swap", "write", "refill", "exited"}
    /\ owner_pc \in {"new", "running", "notify", "join", "stopped"}
    /\ file \in Seq(1..MaxLines)
    /\ dropped \subseteq 1..MaxLines

\* The asserts of the refill (AsyncLogging.cpp:71-72, 102, 108): there are
\* always enough written buffers to take the missing spares from, also after
\* an overload has dropped all buffers but two.
RefillFindsBuffers ==
    pc = "refill" => Len(buffers_to_write) >= Missing

\* The lines that were not dropped, from the file's first to the one appended
\* last.
AllLines ==
    file \o FlattenSeq(IF pc = "refill" THEN <<>> ELSE buffers_to_write)
         \o FlattenSeq(buffers_) \o current_buffer_

\* Every line is in the file, in a buffer or dropped by overload, once, and in
\* the order of the appends (AsyncLogging.cpp:32-46, 74-97).
LinesInOrder ==
    LET all == AllLines
    IN  /\ \A i, j \in 1..Len(all) : i < j => all[i] < all[j]
        /\ ToSet(all) = (1..lines) \ dropped

\* A line appended while the logger runs gets written without further appends,
\* unless it is dropped by overload or Stop() comes (AsyncLogging.cpp:70-97).
LinesGetWritten ==
    \A l \in 1..MaxLines :
        (running_ /\ lines >= l) ~> (l \in ToSet(file) \cup dropped \/ ~running_)

\* Stop() returns (AsyncLogging.cpp:54-58): its Notify() may be lost, the wait
\* ends by itself.
StopReturns == owner_pc = "notify" ~> owner_pc = "stopped"

\* A Stop() that finds the background thread in its wait, as in
\* asynclogging_test.cpp:29-30, loses nothing: what was appended before is in
\* the file when it returns, whether the wait ends by Stop()'s Notify(), by an
\* Append() or by its timeout (AsyncLogging.cpp:54-58, 75-97).
StopInWaitWritesEverything ==
    owner_pc = "stopped" => \A l \in 1..before_stop : l \in ToSet(file) \cup dropped
=============================================================================
