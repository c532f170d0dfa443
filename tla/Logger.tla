-------------------------------- MODULE Logger --------------------------------
(***************************************************************************)
(* windz::Logger and LogStream: one log line, put together in a buffer of  *)
(* fixed size on the stack of the statement that logs it.  Nothing here is *)
(* shared; the operators are functions of what is logged.                  *)
(*                                                                         *)
(* What operator<< is given is a record: a number (kind "int", val) or a   *)
(* pointer (kind "pointer", val) is converted; of any other piece of text  *)
(* (kind "text") only its length counts.  A stream is what the buffer      *)
(* holds, piece by piece, and how far into data_ has been written.         *)
(***************************************************************************)
EXTENDS Integers, Sequences, SequencesExt

CONSTANTS
    kSmallBuffer,     \* SIZE of LogStream's FixBuffer
    kMaxNumericSize

ASSUME LoggerAssumption ==
    /\ kSmallBuffer \in Nat
    /\ kMaxNumericSize \in Nat \ {0}

-----------------------------------------------------------------------------
(* Conversions of numbers.                                                 *)

Abs(n) == IF n < 0 THEN -n ELSE n

\* C's division and remainder: both truncate towards zero.
CDiv(n, d) == IF n < 0 THEN -((-n) \div d) ELSE n \div d
CMod(n, d) == n - d * CDiv(n, d)

\* The digits of n, the last one first; zero[lsd] is the digit of -lsd, too.
Digits(n, base) ==
    LET digits[i \in Int] ==
            LET rest == CDiv(i, base)
            IN  <<Abs(CMod(i, base))>> \o (IF rest = 0 THEN <<>> ELSE digits[rest])
    IN  digits[n]

\* Convert(): for a negative value, too, without ever negating it.
Convert(n) ==
    Reverse(Digits(n, 10) \o (IF n < 0 THEN <<"-">> ELSE <<>>))

\* ConvertHex() after the "0x" that operator<<(const void *) puts first.
ConvertPointer(n) == <<"0", "x">> \o Reverse(Digits(n, 16))

-----------------------------------------------------------------------------
(* FixBuffer and LogStream.                                                *)

EmptyStream == [pieces |-> <<>>, used |-> 0, top |-> 0]

Avail(s) == kSmallBuffer - s.used

\* len bytes are added, written bytes are written.
Add(s, piece, len, written) ==
    [pieces |-> Append(s.pieces, piece), used |-> s.used + len,
     top |-> IF s.used + written > s.top THEN s.used + written ELSE s.top]

\* FixBuffer::Append: the whole piece, or nothing.
AppendText(s, piece) ==
    IF Avail(s) > piece.len THEN Add(s, piece, piece.len, piece.len) ELSE s

NumberLength(piece) ==
    IF piece.kind = "int" THEN Len(Convert(piece.val)) ELSE Len(ConvertPointer(piece.val))

\* FormatInteger() and operator<<(const void *), which end with a '\0'.
AppendNumber(s, piece) ==
    IF Avail(s) >= kMaxNumericSize
    THEN Add(s, piece, NumberLength(piece), NumberLength(piece) + 1)
    ELSE s

\* snprintf() never writes more than kMaxNumericSize bytes; "%.12g" needs less.
AppendDouble(s, piece) ==
    IF Avail(s) >= kMaxNumericSize THEN Add(s, piece, piece.len, piece.len + 1) ELSE s

Output(s, piece) ==
    CASE piece.kind \in {"int", "pointer"} -> AppendNumber(s, piece)
      [] piece.kind = "double" -> AppendDouble(s, piece)
      [] piece.kind = "text" -> AppendText(s, piece)

Text(len) == [kind |-> "text", len |-> len]
Number(n) == [kind |-> "int", val |-> n]
NewLine == [kind |-> "text", len |-> 1, newline |-> TRUE]

\* operator<<(const char *) of a null pointer: "(null)".
NullText == Text(6)

-----------------------------------------------------------------------------
(* Logger.                                                                 *)

Levels == <<"TRACE", "DEBUG", "INFO", "WARN", "ERROR", "FATAL">>
Rank(level) == CHOOSE i \in 1..6 : Levels[i] = level

\* LOG_TRACE, LOG_DEBUG and LOG_INFO look at the level, the others do not.
Logged(level, g_loglevel) ==
    Rank(level) <= Rank("INFO") => Rank(g_loglevel) <= Rank(level)

\* The constructor: time, thread, level, errno and function; r describes the
\* statement and its site.
Header(r) ==
    <<Text(25), Text(r.tid), Text(6)>>
    \o (IF r.errno = 0 THEN <<>>
        ELSE <<Text(r.strerror), Text(8), Number(r.errno), Text(2)>>)
    \o (IF r.func = 0 THEN <<>> ELSE <<Text(r.func), Text(1)>>)

\* The destructor: " - ", the file's last component, ':', the line and '\n'.
Trailer(r) == <<Text(3), Text(r.filename), Text(1), Number(r.line), NewLine>>

\* What g_output() is given; after that, a line of level FATAL flushes and aborts.
Line(r) == FoldLeft(Output, EmptyStream, Header(r) \o r.pieces \o Trailer(r))
Aborts(r) == r.level = "FATAL"
=============================================================================
