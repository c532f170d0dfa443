------------------------------ MODULE LogFile ------------------------------
(***************************************************************************)
(* windz::LogFile and AppendFile: a log written to a series of files, a    *)
(* new one when the present one is too large or the day is over, flushed   *)
(* now and then.                                                           *)
(*                                                                         *)
(* A line is the second it was appended in, and counts one byte.  A file's *)
(* name is the second it was opened in.  written_bytes_ of a new           *)
(* AppendFile is never initialised: any value of Garbage.  The calls are   *)
(* made by one thread, or under mutex_.                                    *)
(***************************************************************************)
EXTENDS Integers, Sequences, FiniteSets

CONSTANTS
    roll_size_,
    flush_interval_,
    check_every_n_,
    kRollPerSeconds,
    Garbage,        \* values an uninitialised off_t may have
    MaxTime,        \* the clock stops here (a bound)
    MaxAppends      \* lines appended (a bound)

ASSUME LogFileAssumption ==
    /\ {flush_interval_, check_every_n_, kRollPerSeconds} \subseteq Nat \ {0}
    /\ roll_size_ \in Nat /\ Garbage \subseteq Int /\ Garbage # {}

VARIABLES
    now,             \* time(nullptr)
    files,           \* all files: when each was opened, and its lines
    written_bytes_,  \* of the present file
    buffered,        \* lines of the present file still in stdio's buffer
    count_,
    start_of_day_,
    last_roll_,
    last_flush_,
    appended         \* history: the lines

fileVars == <<now, files, written_bytes_, buffered, count_, start_of_day_,
              last_roll_, last_flush_, appended>>

Day(t) == (t \div kRollPerSeconds) * kRollPerSeconds

\* The constructor, at some second of its first day; its RollFile() succeeds.
FileInit ==
    /\ now \in 1..kRollPerSeconds
    /\ files = <<[opened |-> now, lines |-> <<>>]>>
    /\ written_bytes_ \in Garbage
    /\ buffered = <<>>
    /\ count_ = 0
    /\ start_of_day_ = Day(now)
    /\ last_roll_ = now
    /\ last_flush_ = now
    /\ appended = <<>>

\* The present file with a line more.
WithLine ==
    [files EXCEPT ![Len(files)] = [opened |-> @.opened, lines |-> Append(@.lines, now)]]

\* A slip: a roll in the same second is not refused.
RollFileSameSecond ==
    /\ last_roll_' = now
    /\ last_flush_' = now
    /\ start_of_day_' = Day(now)
    /\ files' = Append(WithLine, [opened |-> now, lines |-> <<>>])
    /\ written_bytes_' \in Garbage
    /\ buffered' = <<>>

\* RollFile(), after the line went to the present file: a new file, whose name
\* is the second; fclose() flushes the old one.  Nothing in the second of the
\* last roll.
RollFile ==
    IF now > last_roll_
    THEN /\ last_roll_' = now
         /\ last_flush_' = now
         /\ start_of_day_' = Day(now)
         /\ files' = Append(WithLine, [opened |-> now, lines |-> <<>>])
         /\ written_bytes_' \in Garbage
         /\ buffered' = <<>>
    ELSE /\ files' = WithLine
         /\ written_bytes_' = written_bytes_ + 1
         /\ buffered' = Append(buffered, now)
         /\ UNCHANGED <<last_roll_, last_flush_, start_of_day_>>

\* The line goes to the present file, and nothing else happens.
KeepFile ==
    /\ files' = WithLine
    /\ written_bytes_' = written_bytes_ + 1
    /\ UNCHANGED <<last_roll_, start_of_day_>>

TooLarge == written_bytes_ + 1 > roll_size_

\* A slip: count_ > check_every_n_.
CheckDueLate == count_ + 1 > check_every_n_

CheckDue == count_ + 1 >= check_every_n_

\* AppendUnlocked
AppendToFile ==
    /\ Len(appended) < MaxAppends
    /\ appended' = Append(appended, now)
    /\ \/ TooLarge /\ RollFile /\ UNCHANGED count_
       \/ /\ ~TooLarge /\ ~CheckDue
          /\ count_' = count_ + 1
          /\ KeepFile
          /\ buffered' = Append(buffered, now)
          /\ UNCHANGED last_flush_
       \/ /\ ~TooLarge /\ CheckDue
          /\ count_' = 0
          /\ \/ Day(now) # start_of_day_ /\ RollFile
             \/ /\ Day(now) = start_of_day_
                /\ now - last_flush_ >= flush_interval_
                /\ KeepFile
                /\ last_flush_' = now
                /\ buffered' = <<>>
             \/ /\ Day(now) = start_of_day_
                /\ now - last_flush_ < flush_interval_
                /\ KeepFile
                /\ buffered' = Append(buffered, now)
                /\ UNCHANGED last_flush_
    /\ UNCHANGED now

Flush ==
    /\ buffered' = <<>>
    /\ UNCHANGED <<now, files, written_bytes_, count_, start_of_day_, last_roll_,
                   last_flush_, appended>>

Tick ==
    /\ now < MaxTime
    /\ now' = now + 1
    /\ UNCHANGED <<files, written_bytes_, buffered, count_, start_of_day_,
                   last_roll_, last_flush_, appended>>

FileNext == AppendToFile \/ Flush \/ Tick

FileSpec == FileInit /\ [][FileNext]_fileVars

-----------------------------------------------------------------------------
(* Properties.                                                             *)

\* File names have a resolution of one second (LogFile.cpp:17-36): no two files
\* get the same one, or the second fopen("ae") would go on with the first file
\* (LogFile.cpp:95-107).
FileNamesUnique ==
    \A i, j \in 1..Len(files) : files[i].opened = files[j].opened => i = j

\* The day and the flush are looked at every check_every_n_ lines, and the
\* rolls the size asks for cannot put that off (LogFile.cpp:65-84): a file takes
\* fewer than check_every_n_ lines, and the one that makes it roll, after the day
\* it was opened in; and of the lines still in stdio's buffer, fewer were
\* appended when the last flush was flush_interval_ ago or more.
CheckNotPutOff ==
    /\ \A i \in 1..Len(files) :
          Cardinality({k \in 1..Len(files[i].lines) :
                          Day(files[i].lines[k]) # Day(files[i].opened)})
              <= check_every_n_ - (IF i = Len(files) THEN 1 ELSE 0)
    /\ Cardinality({k \in 1..Len(buffered) :
                        buffered[k] >= last_flush_ + flush_interval_}) < check_every_n_
=============================================================================
