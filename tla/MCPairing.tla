---- MODULE MCPairing ----
(* Six lines: three on a page of the first file, then a page of one line and a *)
(* page of two in the second, whose last page has the name of the first one.   *)
EXTENDS Pairing

MCLines    == 1 .. 6
MCPageOf   == <<1, 1, 1, 2, 3, 3>>
MCFileOf   == <<"a.xml", "b.xml", "b.xml">>
MCDeclared == <<"P1", "P0", "P1">>

Text(marks, part2) == [blank : {FALSE}, mark : marks, part2 : part2]
Blank == [blank |-> TRUE, mark |-> "no", part2 |-> FALSE]

\* Every kind of line comes first, in the middle and last on some page.
MCDocuments ==
  {<<a, b, c, d, e, f>> :
     a \in Text(Marks, {FALSE}),
     b \in Text(Marks, {FALSE}) \cup {Blank},
     c \in Text(Marks, BOOLEAN),
     d \in Text(Marks, {TRUE}) \cup Text({"heuristic"}, {FALSE}) \cup {Blank},
     e \in Text({"heuristic", "explicit"}, BOOLEAN) \cup Text({"no"}, {FALSE}) \cup {Blank},
     f \in Text({"no", "heuristic"}, {FALSE}) \cup Text({"no"}, {TRUE})}
====
