----------------------------- MODULE MCLogFile -----------------------------
(* LogFile for TLC: a day of four seconds, a check every two lines.         *)
EXTENDS LogFile

\* A new AppendFile's written_bytes_: below, at and above roll_size_ at once.
GarbageValues == {-3, 0, 3}
=============================================================================
