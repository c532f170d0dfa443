-------------------------------- MODULE Config --------------------------------
(***************************************************************************)
(* windz::Config: Parse() fills a map from the lines of a file, the Get    *)
(* functions look a value up.  A file is a sequence of lines, a line the   *)
(* sequence of its characters, '\n' (here "n/l") included.  A LineParser   *)
(* is what is left of its line; its functions that move it return the rest *)
(* along with the word.                                                    *)
(***************************************************************************)
EXTENDS Integers, Sequences, SequencesExt

CONSTANTS
    MAXLINE,      \* size of the array fgets() fills
    Lower         \* tolower() of each character

ASSUME ConfigAssumption == MAXLINE \in Nat /\ MAXLINE >= 2

Space == {" ", "tab", "n/l"}
Drop(s, n) == SubSeq(s, n + 1, Len(s))
ToLower(s) == [i \in 1..Len(s) |-> Lower[s[i]]]
MakeKey(section, name) == ToLower(section \o <<".">> \o name)

-----------------------------------------------------------------------------
(* LineParser.                                                             *)

\* How many characters come before the first one of S.
Before(s, S) ==
    LET i == SelectInSeq(s, LAMBDA c : c \in S)
    IN  IF i = 0 THEN Len(s) ELSE i - 1

SkipSpace(s) ==
    LET i == SelectInSeq(s, LAMBDA c : c \notin Space)
    IN  IF i = 0 THEN <<>> ELSE Drop(s, i - 1)

Strip(s) == Reverse(SkipSpace(Reverse(SkipSpace(s))))

Match(s, c) ==
    LET t == SkipSpace(s) IN t # <<>> /\ Head(t) = c

\* Till(c): without a c in the line the word is empty and nothing is skipped.
Till(s, c) ==
    LET t == SkipSpace(s)
        n == Before(t, {c})
    IN  IF n = Len(t) THEN [word |-> <<>>, rest |-> t]
        ELSE [word |-> Strip(SubSeq(t, 1, n)), rest |-> Drop(t, n)]

TillEnd(s) == LET t == SkipSpace(s) IN SubSeq(t, 1, Before(t, Space \cup {"#"}))
TillSpace(s) == LET t == SkipSpace(s) IN SubSeq(t, 1, Before(t, Space))

-----------------------------------------------------------------------------
(* Parse().                                                                *)

\* config_[MakeKey(section, name)].push_back(value)
PushBack(config, key, value) ==
    [k \in DOMAIN config \cup {key} |->
        IF k # key THEN config[k]
        ELSE IF k \in DOMAIN config THEN Append(config[k], value) ELSE <<value>>]

Section(p, t) ==
    LET till == Till(Drop(t, 1), "]")
    IN  [p EXCEPT !.section = till.word, !.name = <<>>, !.error = ~Match(till.rest, "]")]

Continuation(p, t) ==
    IF p.name = <<>> THEN [p EXCEPT !.error = TRUE]
    ELSE [p EXCEPT !.config = PushBack(@, MakeKey(p.section, p.name), TillEnd(t))]

\* "name = value", or else "name : value".
NameAndValue(p, t) ==
    LET c == IF Match(Till(t, "=").rest, "=") THEN "=" ELSE ":"
        till == Till(t, c)
    IN  IF ~Match(till.rest, c) THEN [p EXCEPT !.name = till.word, !.error = TRUE]
        ELSE [p EXCEPT !.name = till.word,
                       !.config = PushBack(@, MakeKey(p.section, till.word),
                                           TillSpace(Drop(till.rest, 1)))]

\* One turn of the loop; an error ends it.
ParseLine(p, line) ==
    LET t == SkipSpace(line)
        q == [p EXCEPT !.line_num = @ + 1]
    IN  IF p.error THEN p
        ELSE IF t = <<>> \/ Head(t) = "#" THEN q
        ELSE IF Head(t) = "[" THEN Section(q, t)
        ELSE IF Head(line) \in Space THEN Continuation(q, t)
        ELSE NameAndValue(q, t)

\* fgets() gives a line longer than MAXLINE - 1 in several pieces.
Pieces(line) ==
    LET n == MAXLINE - 1
    IN  [i \in 1..((Len(line) + n - 1) \div n) |->
            SubSeq(line, (i - 1) * n + 1, IF i * n < Len(line) THEN i * n ELSE Len(line))]

NothingParsed ==
    [config |-> <<>>, section |-> <<>>, name |-> <<>>, error |-> FALSE, line_num |-> 0]

Parsed(lines) ==
    FoldLeft(ParseLine, NothingParsed, FlattenSeq([i \in 1..Len(lines) |-> Pieces(lines[i])]))

\* The config_ and the return value of Parse() of a file that can be opened.
Parse(lines) ==
    LET p == Parsed(lines)
    IN  [config |-> p.config, result |-> IF p.error THEN p.line_num ELSE 0]

-----------------------------------------------------------------------------
(* The Get functions.                                                      *)

GetList(config, section, name) ==
    LET key == MakeKey(section, name)
    IN  IF key \in DOMAIN config THEN config[key] ELSE <<>>

GetString(config, section, name, default) ==
    LET list == GetList(config, section, name)
    IN  IF list = <<>> THEN default ELSE Head(list)

True == {<<"t", "r", "u", "e">>, <<"y", "e", "s">>, <<"o", "n">>, <<"1">>}
False == {<<"f", "a", "l", "s", "e">>, <<"n", "o">>, <<"o", "f", "f">>, <<"0">>}

GetBool(config, section, name, default) ==
    LET s == ToLower(GetString(config, section, name, <<>>))
    IN  IF s \in True THEN TRUE ELSE IF s \in False THEN FALSE ELSE default

\* strtol(s, &end, 0): an optional sign and the longest run of digits of the base
\* that a leading "0x" or "0" tells; `read' is end > begin.
Digit == <<"1", "2", "3", "4", "5", "6", "7", "8", "9",
           "a", "b", "c", "d", "e", "f">>
DigitValue(c) ==
    IF c = "0" THEN 0 ELSE LET i == SelectInSeq(Digit, LAMBDA d : d = c)
                           IN  IF i = 0 THEN 99 ELSE i
Strtol(s) ==
    LET sign == IF s # <<>> /\ Head(s) = "-" THEN -1 ELSE 1
        t == ToLower(IF s # <<>> /\ Head(s) \in {"-", "+"} THEN Tail(s) ELSE s)
        hex == Len(t) > 2 /\ SubSeq(t, 1, 2) = <<"0", "x">> /\ DigitValue(t[3]) < 16
        base == IF hex THEN 16 ELSE IF t # <<>> /\ Head(t) = "0" THEN 8 ELSE 10
        u == IF hex THEN Drop(t, 2) ELSE t
        n == LET i == SelectInSeq(u, LAMBDA c : DigitValue(c) >= base)
             IN  IF i = 0 THEN Len(u) ELSE i - 1
    IN  [read |-> n > 0,
         val |-> sign * FoldLeft(LAMBDA v, c : v * base + DigitValue(c), 0, SubSeq(u, 1, n))]

GetInt(config, section, name, default) ==
    LET n == Strtol(GetString(config, section, name, <<>>))
    IN  IF n.read THEN n.val ELSE default
=============================================================================
