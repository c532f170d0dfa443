------------------------------ MODULE MCDaemon ------------------------------
(***************************************************************************)
(* Daemon for TLC: three invocations, Stop() gives up after two signals;   *)
(* and the Config a daemon reads when it has started, a function of the    *)
(* file, checked here against what small files say.                        *)
(***************************************************************************)
EXTENDS Daemon, TLC, Config

\* Invocations differ in their names only.
Symmetry == Permutations(Procs)

Characters ==
    Space \cup ToSet(Digit)
        \cup {"0", "#", "[", "]", "=", ":", ".", ";", "-", "x", "y", "s", "A", "B"}
LowerOf == [c \in Characters |-> CASE c = "A" -> "a" [] c = "B" -> "b" [] OTHER -> c]

\* What somebody who writes a file means by a line, and how he writes it down.
\* (A comment behind an empty value would be taken for the value, and an '='
\* behind "name :" for the one that ends the name.)
Items ==
    [kind : {"section"}, word : {<<"a">>, <<"A", " ", "b">>}]
        \cup [kind : {"value"}, name : {<<"b">>, <<"B">>, <<"a", "#">>},
              word : {<<>>, <<"x">>, <<"A", ":">>}]
        \cup [kind : {"more"}, word : {<<"y">>}]
        \cup [kind : {"comment", "blank"}]

Styles ==
    {[before |-> <<>>, sep |-> <<"=">>, after |-> <<>>],
     [before |-> <<"tab">>, sep |-> <<" ", "=", " ">>, after |-> <<" ", "#", "x">>],
     [before |-> <<" ">>, sep |-> <<":", "tab">>, after |-> <<" ">>]}

Write(item, style) ==
    CASE item.kind = "section" ->
            style.before \o <<"[">> \o style.before \o item.word \o <<"]">> \o style.after
      [] item.kind = "value" ->
            item.name \o style.sep \o item.word
                \o (IF item.word = <<>> THEN <<>> ELSE style.after)
      [] item.kind = "more" -> <<" ">> \o style.before \o item.word \o style.after
      [] item.kind = "comment" -> style.before \o <<"#", "=", "[">>
      [] item.kind = "blank" -> style.before

Lines(items, style) == [i \in 1..Len(items) |-> Write(items[i], style) \o <<"n/l">>]

\* The last item up to i of one of the kinds; 0 if there is none.
LastOf(items, i, kinds) ==
    LET S == {j \in 1..i : items[j].kind \in kinds}
    IN  IF S = {} THEN 0 ELSE CHOOSE j \in S : \A k \in S : k <= j

\* The key that line i gives a value for.
KeyOf(items, i) ==
    LET s == LastOf(items, i, {"section"})
        n == LastOf(items, i, {"value"})
    IN  MakeKey(IF s = 0 THEN <<>> ELSE items[s].word, items[n].name)

\* A continuation needs a name since the last section.
Valid(items) ==
    \A i \in 1..Len(items) :
        items[i].kind = "more" =>
            LET j == LastOf(items, i, {"section", "value"})
            IN  j # 0 /\ items[j].kind = "value"

Values(items, key) ==
    LET Wanted(i) == items[i].kind \in {"value", "more"} /\ KeyOf(items, i) = key
    IN  FoldLeft(LAMBDA s, i : IF Wanted(i) THEN Append(s, items[i].word) ELSE s,
                 <<>>, [i \in 1..Len(items) |-> i])

\* Parse() finds in a file what its lines mean, in each of the styles: the
\* values of each key in their order, keys of one spelling but for the case
\* together, comments and blank lines skipped (Config.cpp:16-20, 96-146).
ASSUME ParsesWhatIsMeant ==
    \A items \in SeqOf(Items, 3) : \A style \in Styles :
        Valid(items) =>
            LET p == Parse(Lines(items, style))
                Given == {i \in 1..Len(items) : items[i].kind \in {"value", "more"}}
            IN  /\ p.result = 0
                /\ DOMAIN p.config = {KeyOf(items, i) : i \in Given}
                /\ \A k \in DOMAIN p.config : p.config[k] = Values(items, k)

Bad == {<<"x">>, <<"[", "x">>, <<"[", "x", "#">>, <<"x", " ", "y">>}

\* The number of the first bad line is returned, a continuation of nothing being
\* one, and nothing behind it is read (Config.cpp:111-145).
ASSUME FirstErrorReported ==
    \A items \in SeqOf(Items, 2) : \A style \in Styles : \A b \in Bad :
        LET lines == Lines(items, style)
            p == Parse(lines \o <<b, <<"a", "=", "x">>>>)
        IN  IF Valid(items)
            THEN p = [config |-> Parse(lines).config, result |-> Len(items) + 1]
            ELSE p.result \in 1..Len(items) /\ items[p.result].kind = "more"

\* A line of MAXLINE characters or more is taken for two: the end of a long
\* comment may be read as a value (Config.cpp:104-111).
ASSUME LongLinesSplit ==
    Parse(<<[i \in 1..MAXLINE |-> IF i < MAXLINE THEN "#" ELSE "a"] \o <<"=", "x">>>>)
        = [config |-> (<<".", "a">> :> <<<<"x">>>>), result |-> 0]

IntOf(word) == GetInt(<<".", "a">> :> <<word>>, <<>>, <<"A">>, 99)
BoolOf(word, default) == GetBool(<<".", "a">> :> <<word>>, <<>>, <<"A">>, default)

\* Numbers in three bases, what follows them ignored; what is no value, or is
\* missing, gives the default (Config.cpp:148-194).
ASSUME Lookups ==
    /\ IntOf(<<"1", "4", "3">>) = 143 /\ IntOf(<<"-", "0", "x", "1", "A">>) = -26
    /\ IntOf(<<"0", "1", "3">>) = 11 /\ IntOf(<<"0", "9">>) = 0 /\ IntOf(<<"7", ";">>) = 7
    /\ IntOf(<<"x">>) = 99 /\ IntOf(<<>>) = 99 /\ IntOf(<<"-">>) = 99 /\ IntOf(<<"0", "x">>) = 0
    /\ GetInt(<<>>, <<"a">>, <<"b">>, 5) = 5
    /\ \A d \in BOOLEAN :
          /\ BoolOf(<<"y", "e", "s">>, d) /\ ~BoolOf(<<"0">>, d)
          /\ BoolOf(<<"y">>, d) = d /\ BoolOf(<<>>, d) = d
    /\ GetList(<<>>, <<"a">>, <<"b">>) = <<>>
=============================================================================
