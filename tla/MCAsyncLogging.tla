--------------------------- MODULE MCAsyncLogging ---------------------------
(***************************************************************************)
(* AsyncLogging for TLC, and the Logger that makes its lines: that one is  *)
(* a function of the statement, checked here for every statement of a      *)
(* small set against a buffer they do not all fit in.                      *)
(***************************************************************************)
EXTENDS AsyncLogging, Logger

Samples == (-120)..120 \cup {-2147483647, 2147483647, -1000000000, 65536}

\* Reading digits back, the first one first.
ReadBack(digits, base) == FoldLeft(LAMBDA v, d : v * base + d, 0, digits)

\* The conversions write the number they are given, without leading zeros, and
\* with its '\0' within kMaxNumericSize bytes (LogStream.cpp:22-56).
ASSUME NumbersReadBack ==
    \A n \in Samples :
        LET text == Convert(n)
            digits == IF n < 0 THEN Tail(text) ELSE text
            hex == SubSeq(ConvertPointer(n), 3, Len(ConvertPointer(n)))
        IN  /\ n < 0 => Head(text) = "-"
            /\ ReadBack(digits, 10) = Abs(n) /\ (Head(digits) = 0 => n = 0)
            /\ n >= 0 => ReadBack(hex, 16) = n /\ (Head(hex) = 0 => n = 0)
            /\ NumberLength(Number(n)) < kMaxNumericSize

Pieces ==
    {Text(0), Text(1), Text(9), Text(24), NullText, Number(0), Number(-2147483647),
     [kind |-> "pointer", val |-> 2147483647], [kind |-> "double", len |-> 11]}

Statements ==
    [level : {"INFO", "FATAL"}, tid : {6, 8}, errno : {0, 104}, strerror : {5, 24},
     func : {0, 4}, pieces : SeqOf(Pieces, 2), filename : {5}, line : {7, 12345}]

Length(piece) == IF "len" \in DOMAIN piece THEN piece.len ELSE NumberLength(piece)
TotalLength(pieces) == FoldLeft(LAMBDA n, p : n + Length(p), 0, pieces)

\* A piece of `all' that is the next one of those found.
MatchOne(found, piece) ==
    IF found # <<>> /\ Head(found) = piece THEN Tail(found) ELSE found

\* Whatever a statement logs, no byte is written behind the buffer; what does
\* not fit is left out piece by piece, the rest in order; and a line that leaves
\* kMaxNumericSize bytes free is complete, up to its '\n' (LogStream.h:21-26,
\* LogStream.cpp:60-168, Logger.cpp:48-65, 79-87).
ASSUME LinesAreWhole ==
    \A r \in Statements :
        LET all == Header(r) \o r.pieces \o Trailer(r)
            s == Line(r)
        IN  /\ s.top <= kSmallBuffer
            /\ s.used = TotalLength(s.pieces)
            /\ IsPrefix(Header(r), s.pieces)
            /\ FoldLeft(MatchOne, s.pieces, all) = <<>>
            /\ TotalLength(all) + kMaxNumericSize <= kSmallBuffer => s.pieces = all

\* A longer line may lose its '\n', and the next one goes on where it ends.
ASSUME LongLinesMayNotEnd ==
    \E r \in Statements : NewLine \notin ToSet(Line(r).pieces)

\* Warnings and worse are logged at every level, the others from theirs on
\* (Logger.h:66-77).
ASSUME LevelsFilter ==
    /\ \A l \in ToSet(Levels) : Logged("WARN", l) /\ Logged("FATAL", l)
    /\ {l \in ToSet(Levels) : Logged(l, "INFO")} = {"INFO", "WARN", "ERROR", "FATAL"}
    /\ \A l \in {"TRACE", "DEBUG", "INFO"} : Logged(l, l) /\ ~Logged(l, "FATAL")
=============================================================================
