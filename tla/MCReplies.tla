---- MODULE MCReplies ----
(* A word broken between two lines; two pages of two files, which share a line   *)
(* id and its text; a page answered as a list of lines, one of its lines shown   *)
(* for context.                                                                  *)
EXTENDS Replies

Page(lines, text, role, targets) == [lines |-> lines, text |-> text, role |-> role, targets |-> targets]

Broken == <<"a", "b", "-">>
Alone  == Page(<<"x">>, [l \in {"x"} |-> Broken], [l \in {"x"} |-> "none"], {"x"})

Pair   == <<Page(<<"x", "y">>, [x |-> Broken, y |-> <<"b", " ", "a">>],
                 [x |-> "part1", y |-> "part2"], {"x", "y"})>>
Shared == <<Alone, Alone>>
Poem   == <<Page(<<"x", "y", "z">>, [x |-> <<"a", " ", "b">>, y |-> <<"c">>, z |-> <<"d">>],
                 [x |-> "none", y |-> "none", z |-> "none"], {"x", "y"})>>

MCDocuments == {Pair, Shared, Poem}

Spot(from, to)  == [at |-> "range", from |-> from, to |-> to]
Find(text, nth) == [at |-> "match", match |-> text, nth |-> nth]
Span(l, a, t)   == [op |-> "span", line |-> l, page |-> 0, anchor |-> a, text |-> t]
Line(l, t)      == [op |-> "line", line |-> l, page |-> 0, text |-> t]

Anchors == {Spot(f, t) : f \in 0 .. 3, t \in {1, 2, 3}} \cup {Spot(0, 0), Spot(3, 4)}
             \cup {Find(<<"b">>, <<>>), Find(<<"a">>, <<0>>), Find(<<"a">>, <<1>>)}

MCEdits(p) ==
  IF p = Pair[1]
  THEN {Span(l, a, t) : l \in {"x", "y"}, a \in Anchors, t \in {<<>>, <<"b">>, <<"=">>, <<"b", " ">>}}
         \cup {Line(l, t) : l \in {"x", "y"}, t \in {<<"b", "=">>, <<" ">>}}
  ELSE {Span(l, Spot(0, 1), t) : l \in Range(p.lines), t \in {<<"b">>, <<"a", Break>>}}
         \cup {Line(l, t) : l \in Range(p.lines) \cup {"u"}, t \in {<<"b", "-">>, <<"a", Break>>}}

Returned == {<<"a", " ", "b">>, <<"a">>, <<"c", " ", "a">>, <<"c">>, <<"d">>, <<"e">>}
MCAnswers(p) == IF p = Poem[1] THEN UNION {[1 .. n -> Returned] : n \in 0 .. 3}
                ELSE {<<<<"a", "b">>>>, <<<<"a">>, <<"b", "-">>>>}
MCLookalikes == {<<"b", "b", "-">>}
====
