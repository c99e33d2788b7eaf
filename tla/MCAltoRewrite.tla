---- MODULE MCAltoRewrite ----
(* A line of one or two Strings in every shape the markup of a break takes: in the *)
(* String, in a HYP of the same or another mark, in SUBS, after a space.           *)
EXTENDS AltoRewrite

Subs(type, word) == [type |-> type, word |-> word]
First(content, subs) ==
  [tag |-> "String", content |-> content, subs |-> subs, id |-> <<"s">>,
   style |-> TRUE, extra |-> TRUE, conf |-> TRUE]
Second(content, subs) ==
  [tag |-> "String", content |-> content, subs |-> subs, id |-> <<"new", 1, 1>>,
   style |-> TRUE, extra |-> FALSE, conf |-> TRUE]

ab == <<"a", "b">>
Abbreviated == Subs("Abbreviation", "X")
Begun == {NoSubs, Subs("HypPart2", "V"), Abbreviated}
Ahead  == {NoSubs, Subs("HypPart1", "W"), Abbreviated}
Tails == {<<>>, <<Hyphen("-")>>, <<Hyphen("=")>>, <<Hyphen(Soft)>>, <<Space, Hyphen("-")>>}

MCLines ==
  {<<First(c, s)>> \o t : c \in {ab, ab \o <<"-">>, ab \o <<"=">>}, s \in Begun \cup Ahead, t \in Tails}
  \cup {<<First(ab, s), Space, Second(c, r)>> \o t :
          s \in Begun, r \in Ahead, c \in {<<"c">>, <<"c", "-">>, <<"-">>}, t \in Tails}
  \cup {<<First(ab, NoSubs), Space>>, <<Hyphen("-")>>, <<>>}

MCAbove == {[explicit |-> TRUE,  both |-> FALSE, word |-> "U"],
            [explicit |-> TRUE,  both |-> FALSE, word |-> ""],
            [explicit |-> FALSE, both |-> FALSE, word |-> ""],
            [explicit |-> FALSE, both |-> TRUE,  word |-> ""]}
MCBelow == {"", "Y"}

MCProposals(line) ==
  {<<"b">>, <<"b", "-">>, <<"b", " ", "-">>, <<"b", "-", " ">>, <<"-">>, <<"a", "b", " ", "d">>,
   <<"a", "b", " ", "d", "-">>, <<"a", "b", " ", "d", " ", "-">>, <<"d", " ", "c", "-">>,
   <<"b", " ", "a", "b", " ", "c", "-">>, <<"d", " ", " ", "a", "b", "=">>}

\* A break the markup states, right after its word, answered with a space before it.
MCStated       == {<<First(ab, NoSubs), Hyphen("-")>>}
MCSpaced(line) == {<<"a", "c", " ", "-">>}

\* A line that ends a word by its markup and opens one by its last character only,
\* answered with one word more.
MCGuessed       == {<<First(ab, Subs("HypPart2", "V")), Space, Second(<<"c", "-">>, NoSubs)>>}
MCLonger(line)  == {<<"a", "b", " ", "d", " ", "c", "-">>}
====
