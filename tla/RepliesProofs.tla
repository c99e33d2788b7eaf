---- MODULE RepliesProofs ----
(***************************************************************************)
(* Theorems about what becomes of a producer's reply.                      *)
(*                                                                         *)
(* The first part is about the edits of one line: the ranges they name are *)
(* in the text and in order, and the text the accepted ones give depends   *)
(* on nothing but their anchors and texts.  The second follows the edits   *)
(* of a line from the reply to the published script and through a replay.  *)
(* The third gives the same edits in another order, and the last one walks *)
(* the table of edit distances: what the guard adds up edit by edit bounds *)
(* how far the line ends from its source.                                  *)
(***************************************************************************)
EXTENDS Replies, BasicFacts

\* The ranges of a text.
Ranges(text) == {p \in [from : Nat, to : Nat] : p.from <= p.to /\ p.to <= Len(text)}

IsText(t) == t \in TextType

LEMMA EditFacts ==
  ASSUME NEW o \in EditType
  PROVE  /\ o.op \in {"line", "span"} /\ o.line \in STRING /\ o.page \in Nat /\ o.text \in TextType
         /\ o.op = "span" => o.anchor \in AnchorType
         /\ \A p \in Nat : /\ [o EXCEPT !.page = p] \in EditType
                           /\ [o EXCEPT !.page = p].op = o.op
                           /\ [o EXCEPT !.page = p].line = o.line
                           /\ [o EXCEPT !.page = p].page = p
                           /\ [o EXCEPT !.page = p].text = o.text
                           /\ o.op = "span" => [o EXCEPT !.page = p].anchor = o.anchor
<1>1. CASE o \in [op : {"line"}, line : STRING, page : Nat, text : TextType]
  BY <1>1 DEF EditType
<1>2. CASE o \in [op : {"span"}, line : STRING, page : Nat, anchor : AnchorType, text : TextType]
  BY <1>2 DEF EditType
<1> QED BY <1>1, <1>2 DEF EditType

\* An anchor names ranges of the text.
LEMMA WhereInText ==
  ASSUME NEW a \in AnchorType, NEW text \in TextType
  PROVE  Where(a, text) \subseteq Ranges(text)
<1>1. Len(text) \in Nat
  BY TextLen
<1>2. CASE a \in [at : {"range"}, from : Int, to : Int]
  <2>1. a.at = "range" /\ a.from \in Int /\ a.to \in Int
    BY <1>2
  <2> QED BY <1>1, <2>1 DEF Where, Between, Ranges
<1>3. CASE a \in [at : {"match"}, match : TextType, nth : Seq(Int)]
  <2>1. a.at = "match" /\ a.match \in TextType /\ Len(a.match) \in Nat
    BY <1>3, TextLen
  <2>2. ASSUME NEW r \in Where(a, text) PROVE r \in Ranges(text)
    <3>1. PICK i \in 0 .. Len(text) - Len(a.match) : r = Between(i, i + Len(a.match))
      BY <2>1 DEF Where, Found
    <3> QED BY <1>1, <2>1, <3>1 DEF Between, Ranges
  <2> QED BY <2>2
<1> QED BY <1>2, <1>3 DEF AnchorType

\* The edits of a line that may be used, and the range of each.
Usable(ops, source) == {i \in DOMAIN ops : SpanRefusal(ops[i], source, guard) = {}}
Place(ops, source)  == [i \in Usable(ops, source) |-> CHOOSE r \in Where(ops[i].anchor, source) : TRUE]
Before(ops, source) ==
  [i \in Usable(ops, source) |->
     {k \in Usable(ops, source) :
        \/ Precedes(Place(ops, source)[k], Place(ops, source)[i])
        \/ Place(ops, source)[k] = Place(ops, source)[i] /\ k <= i}]
Order(ops, source) == Ranked(Usable(ops, source), Before(ops, source))

LEMMA PlacedIs ==
  ASSUME NEW ops, NEW source
  PROVE  Placed(ops, source, guard) =
           [n \in DOMAIN Order(ops, source) |->
              [from |-> Place(ops, source)[Order(ops, source)[n]].from,
               to   |-> Place(ops, source)[Order(ops, source)[n]].to,
               text |-> ops[Order(ops, source)[n]].text]]
BY DEF Placed, Order, Before, Place, Usable

\* Span edits of one line.
IsSpans(ops) == ops \in Seq(EditType) /\ \A i \in DOMAIN ops : ops[i].op = "span"

LEMMA PlaceFacts ==
  ASSUME NEW ops, IsSpans(ops), NEW source \in TextType, NEW i \in Usable(ops, source)
  PROVE  /\ i \in DOMAIN ops /\ i \in Nat
         /\ Place(ops, source)[i] \in Where(ops[i].anchor, source)
         /\ Place(ops, source)[i] \in Ranges(source)
<1>1. i \in DOMAIN ops /\ SpanRefusal(ops[i], source, guard) = {}
  BY DEF Usable
<1>2. ops[i] \in EditType /\ ops[i].op = "span" /\ i \in Nat
  BY <1>1, ElementOfSeq, LenProperties DEF IsSpans
<1>3. ops[i].anchor \in AnchorType
  BY <1>2, EditFacts
<1>4. Where(ops[i].anchor, source) # {}
  BY <1>1 DEF SpanRefusal
<1>5. Place(ops, source)[i] \in Where(ops[i].anchor, source)
  BY <1>4 DEF Place
<1> QED BY <1>1, <1>2, <1>3, <1>5, WhereInText

\* The usable edits are in order: by their ranges, then as they came.
LEMMA SpansInOrder ==
  ASSUME NEW ops, IsSpans(ops), NEW source \in TextType
  PROVE  IsFiniteSet(Usable(ops, source)) /\ InOrder(Usable(ops, source), Before(ops, source))
<1> DEFINE U == Usable(ops, source)
           B == Before(ops, source)
           P == Place(ops, source)
<1>1. IsFiniteSet(U)
  <2>1. U \in SUBSET DOMAIN ops
    BY DEF Usable
  <2> QED BY <2>1, PositionsFinite DEF IsSpans
<1>2. ASSUME NEW i \in U
      PROVE  i \in Nat /\ P[i] \in [from : Nat, to : Nat] /\ P[i].from \in Nat /\ P[i].to \in Nat
  BY PlaceFacts DEF Ranges
<1>3. \A i, k \in U : k \in B[i] <=> Precedes(P[k], P[i]) \/ (P[k] = P[i] /\ k <= i)
  BY DEF Before
<1>4. B \in [U -> SUBSET U]
  BY DEF Before
<1> HIDE DEF U, B, P
<1>5. \A i, k \in U : P[i] = P[k] <=> P[i].from = P[k].from /\ P[i].to = P[k].to
  BY <1>2
<1>6. \A i \in U : i \in B[i]
  BY <1>2, <1>3
<1>7. ASSUME NEW i \in U, NEW k \in U, i \in B[k], NEW h \in B[i] PROVE h \in B[k]
  <2>1. h \in U
    BY <1>4
  <2>2. Precedes(P[h], P[i]) \/ (P[h] = P[i] /\ h <= i)
    BY <1>3, <2>1
  <2>3. Precedes(P[i], P[k]) \/ (P[i] = P[k] /\ i <= k)
    BY <1>3, <1>7
  <2>4. /\ h \in Nat /\ i \in Nat /\ k \in Nat /\ P[h].from \in Nat /\ P[i].from \in Nat /\ P[k].from \in Nat
        /\ P[h].to \in Nat /\ P[i].to \in Nat /\ P[k].to \in Nat
    BY <1>2, <2>1
  <2>5. Precedes(P[h], P[k]) \/ (P[h] = P[k] /\ h <= k)
    BY <2>2, <2>3, <2>4 DEF Precedes
  <2> QED BY <1>3, <2>1, <2>5
<1>8. ASSUME NEW i \in U, NEW k \in U
      PROVE  /\ i \in B[k] \/ k \in B[i]
             /\ i \in B[k] /\ k \in B[i] => i = k
  <2>1. /\ i \in Nat /\ k \in Nat /\ P[i].from \in Nat /\ P[k].from \in Nat
        /\ P[i].to \in Nat /\ P[k].to \in Nat
    BY <1>2
  <2>2. P[i] = P[k] <=> P[i].from = P[k].from /\ P[i].to = P[k].to
    BY <1>5
  <2> QED BY <1>3, <2>1, <2>2 DEF Precedes
<1>9. InOrder(U, B)
  BY <1>4, <1>6, <1>7, <1>8 DEF InOrder
<1> QED BY <1>1, <1>9 DEF U, B

\* The placed edits: as many as are usable, in the text and in order.
LEMMA PlacedFacts ==
  ASSUME NEW ops, IsSpans(ops), NEW source \in TextType
  PROVE  LET placed == Placed(ops, source, guard)
             n      == Cardinality(Usable(ops, source))
         IN  /\ n \in Nat /\ Len(placed) = n /\ DOMAIN placed = 1 .. n
             /\ placed \in Seq([from : Nat, to : Nat, text : TextType])
             /\ Order(ops, source) \in [1 .. n -> Usable(ops, source)]
             /\ \A i \in 1 .. n : placed[i].from <= placed[i].to /\ placed[i].to <= Len(source)
             /\ \A i, k \in 1 .. n : i < k => placed[i].from <= placed[k].from
<1> DEFINE placed == Placed(ops, source, guard)
           U      == Usable(ops, source)
           n      == Cardinality(U)
           order  == Order(ops, source)
           P      == Place(ops, source)
<1>1. /\ n \in Nat /\ order \in [1 .. n -> U] /\ Len(order) = n
      /\ \A i, j \in 1 .. n : i < j => order[i] \in Before(ops, source)[order[j]]
  BY SpansInOrder, RankedSorts DEF Order
<1>2. placed = [i \in DOMAIN order |-> [from |-> P[order[i]].from, to |-> P[order[i]].to, text |-> ops[order[i]].text]]
  BY PlacedIs
<1>3. ASSUME NEW i \in U
      PROVE  P[i].from \in Nat /\ P[i].to \in Nat /\ P[i].from <= P[i].to /\ P[i].to <= Len(source)
             /\ ops[i].text \in TextType
  <2>1. P[i] \in Ranges(source) /\ i \in DOMAIN ops
    BY PlaceFacts
  <2>2. ops[i] \in EditType
    BY <2>1, ElementOfSeq, LenProperties DEF IsSpans
  <2> QED BY <2>1, <2>2, EditFacts DEF Ranges
<1>4. \A i, k \in U : i \in Before(ops, source)[k] => Precedes(P[i], P[k]) \/ P[i] = P[k]
  BY DEF Before
<1> HIDE DEF placed, U, n, order, P
<1>5. placed \in [1 .. n -> [from : Nat, to : Nat, text : TextType]]
  BY <1>1, <1>2, <1>3
<1>6. /\ placed \in Seq([from : Nat, to : Nat, text : TextType])
      /\ Len(placed) = n /\ DOMAIN placed = 1 .. n
  BY <1>1, <1>5, FunIsSeq
<1>7. \A i \in 1 .. n : placed[i].from = P[order[i]].from /\ placed[i].to = P[order[i]].to
  BY <1>1, <1>2
<1>8. \A i \in 1 .. n : placed[i].from <= placed[i].to /\ placed[i].to <= Len(source)
  BY <1>1, <1>3, <1>7
<1>9. ASSUME NEW i \in 1 .. n, NEW k \in 1 .. n, i < k PROVE placed[i].from <= placed[k].from
  <2>1. order[i] \in U /\ order[k] \in U /\ order[i] \in Before(ops, source)[order[k]]
    BY <1>1, <1>9
  <2>2. P[order[i]].from <= P[order[k]].from
    BY <1>3, <1>4, <2>1 DEF Precedes
  <2> QED BY <1>7, <2>2
<1> QED BY <1>1, <1>6, <1>8, <1>9 DEF placed, U, n, order

\* What the span path comes to.
Accepted(ops, source) == Compatible(Placed(ops, source, guard))

LEMMA SpansAre ==
  ASSUME NEW ops, NEW source, NEW role
  PROVE  LET accepted == Accepted(ops, source)
             result   == Spliced(source, accepted)
             whole    == LineRefusal(accepted, result, source, role, guard)
             spans    == Spans(ops, source, role, guard)
         IN  /\ spans.text = IF accepted = <<>> \/ whole # {} THEN {} ELSE {result}
             /\ whole \subseteq spans.refused
             /\ \A i \in DOMAIN ops : SpanRefusal(ops[i], source, guard) \subseteq spans.refused
BY DEF Spans, OfPlaced, Settled, Verdict, Accepted

\* Without the roles of the lines fewer guards speak.
LEMMA RolelessSame ==
  ASSUME NEW ops, NEW source, NEW role, NEW t, Spans(ops, source, role, guard).text = {t}
  PROVE  Spans(ops, source, "none", guard).text = {t}
<1> DEFINE accepted == Accepted(ops, source)
           result   == Spliced(source, accepted)
<1>1. /\ accepted # <<>> /\ LineRefusal(accepted, result, source, role, guard) = {}
      /\ {result} = {t}
  BY SpansAre
<1>2. LineRefusal(accepted, result, source, "none", guard) = {}
  <2> HIDE DEF accepted, result
  <2>1. MarkKept("none", result, source) /\ WordKept("none", source, accepted)
    BY DEF MarkKept, WordKept
  <2>2. ~ (AllChanged(source, accepted) > guard.budget) /\ ~ IsBlank(result)
    BY <1>1 DEF LineRefusal
  <2> QED BY <2>1, <2>2 DEF LineRefusal
<1>3. Spans(ops, source, "none", guard).text =
        IF accepted = <<>> \/ LineRefusal(accepted, result, source, "none", guard) # {} THEN {} ELSE {result}
  BY SpansAre
<1> QED BY <1>1, <1>2, <1>3

\* An edit script that says the same of anchors and texts is applied alike.
LEMMA SpansAlike ==
  ASSUME NEW ops, IsSpans(ops), NEW copy, DOMAIN copy = DOMAIN ops, NEW source \in TextType,
         \A i \in DOMAIN ops : copy[i].anchor = ops[i].anchor /\ copy[i].text = ops[i].text
  PROVE  /\ Placed(copy, source, guard) = Placed(ops, source, guard)
         /\ \A role : Spans(copy, source, role, guard).text = Spans(ops, source, role, guard).text
<1>1. \A i \in DOMAIN ops : SpanRefusal(copy[i], source, guard) = SpanRefusal(ops[i], source, guard)
  BY DEF SpanRefusal
<1>2. Usable(copy, source) = Usable(ops, source)
  BY <1>1 DEF Usable
<1>3. \A i \in Usable(ops, source) : i \in DOMAIN ops
  BY DEF Usable
<1>4. Place(copy, source) = Place(ops, source)
  BY <1>2, <1>3 DEF Place
<1>5. Before(copy, source) = Before(ops, source)
  BY <1>2, <1>4 DEF Before
<1>6. Order(copy, source) = Order(ops, source)
  BY <1>2, <1>5 DEF Order
<1> DEFINE U     == Usable(ops, source)
           order == Order(ops, source)
           P     == Place(ops, source)
<1>8. Placed(ops, source, guard) =
        [n \in DOMAIN order |-> [from |-> P[order[n]].from, to |-> P[order[n]].to, text |-> ops[order[n]].text]]
  BY PlacedIs
<1>9. Placed(copy, source, guard) =
        [n \in DOMAIN order |-> [from |-> P[order[n]].from, to |-> P[order[n]].to, text |-> copy[order[n]].text]]
  BY <1>4, <1>6, PlacedIs
<1>7. \A n \in DOMAIN order : order[n] \in DOMAIN ops
  <2>1. order \in [1 .. Cardinality(U) -> U]
    BY PlacedFacts
  <2> HIDE DEF order, U
  <2>2. \A n \in DOMAIN order : order[n] \in U
    BY <2>1
  <2> QED BY <1>3, <2>2 DEF U
<1>10. \A n \in DOMAIN order : copy[order[n]].text = ops[order[n]].text
  BY <1>7
<1> HIDE DEF order, U, P
<1>11. Placed(copy, source, guard) = Placed(ops, source, guard)
  BY <1>8, <1>9, <1>10
<1>12. Accepted(copy, source) = Accepted(ops, source)
  BY <1>11 DEF Accepted
<1>13. ASSUME NEW role
       PROVE  Spans(copy, source, role, guard).text = Spans(ops, source, role, guard).text
  <2> DEFINE Text(a) == LET result == Spliced(source, a)
                        IN  IF a = <<>> \/ LineRefusal(a, result, source, role, guard) # {}
                            THEN {} ELSE {result}
  <2>1. Spans(copy, source, role, guard).text = Text(Accepted(copy, source))
    BY SpansAre
  <2>2. Spans(ops, source, role, guard).text = Text(Accepted(ops, source))
    BY SpansAre
  <2> HIDE DEF Text
  <2> QED BY <1>12, <2>1, <2>2
<1> QED BY <1>11, <1>13

\* The first of the placed edits is accepted.
LEMMA AcceptedFacts ==
  ASSUME NEW ops, IsSpans(ops), NEW source \in TextType
  PROVE  LET placed   == Placed(ops, source, guard)
             accepted == Accepted(ops, source)
         IN  /\ accepted \in Seq([from : Nat, to : Nat, text : TextType]) /\ Len(accepted) \in Nat
             /\ accepted = <<>> <=> Usable(ops, source) = {}
             /\ \A i \in 1 .. Len(accepted) : accepted[i].from <= accepted[i].to /\ accepted[i].to <= Len(source)
             /\ \A i, k \in 1 .. Len(accepted) : i < k => accepted[i].to <= accepted[k].from
<1> DEFINE placed   == Placed(ops, source, guard)
           accepted == Accepted(ops, source)
           n        == Len(placed)
           next     == NextClear(placed)
           stops    == Stops(1, n, next)
           R        == [from : Nat, to : Nat, text : TextType]
<1>1. /\ n \in Nat /\ DOMAIN placed = 1 .. n /\ placed \in Seq(R)
      /\ n = Cardinality(Usable(ops, source))
      /\ \A i \in 1 .. n : placed[i].from <= placed[i].to /\ placed[i].to <= Len(source)
      /\ \A i, k \in 1 .. n : i < k => placed[i].from <= placed[k].from
  BY PlacedFacts
<1>2. accepted = Chosen(placed, stops)
  BY DEF Accepted, Compatible
<1> HIDE DEF placed, accepted
<1>3. ASSUME NEW i \in 1 .. n
      PROVE  /\ next[i] \in Nat /\ i < next[i]
             /\ next[i] <= n => placed[next[i]].from >= placed[i].to
  <2> DEFINE clear == {j \in i + 1 .. n : placed[j].from >= placed[i].to /\ placed[j].from # placed[i].from}
                        \cup {n + 1}
  <2>1. next[i] = Min(clear)
    BY <1>1 DEF NextClear
  <2>2. clear \in SUBSET Nat /\ clear # {}
    BY <1>1
  <2>3. Min(clear) \in clear
    <3> HIDE DEF clear
    <3> QED BY <2>2, MinOf
  <2>4. \A x \in clear : x \in Nat /\ i < x /\ (x <= n => placed[x].from >= placed[i].to)
    BY <1>1
  <2> HIDE DEF clear
  <2> QED BY <2>1, <2>3, <2>4
<1> HIDE DEF n, next
<1>4. /\ stops \subseteq 1 .. n
      /\ 1 <= n => 1 \in stops
      /\ \A s \in stops : next[s] <= n => next[s] \in stops
      /\ \A s, t \in stops : s < t => next[s] <= t
  BY <1>1, <1>3, StopsCut
<1> HIDE DEF stops
<1> DEFINE m  == Cardinality(stops)
           at == Ordered(stops)
<1>5. stops \in SUBSET DOMAIN placed
  BY <1>1, <1>4
<1>6. /\ m \in Nat /\ at \in [1 .. m -> stops]
      /\ \A i, j \in 1 .. m : i < j => at[i] < at[j]
      /\ \A x \in stops : \E i \in 1 .. m : at[i] = x
      /\ accepted = [k \in 1 .. m |-> placed[at[k]]]
      /\ accepted \in Seq(R) /\ Len(accepted) = m
  BY <1>1, <1>2, <1>5, ChosenFacts
<1> HIDE DEF m, at
<1>7. \A i \in 1 .. m : at[i] \in 1 .. n /\ at[i] \in stops /\ accepted[i] = placed[at[i]]
  BY <1>4, <1>6
<1>8. \A i \in 1 .. m : accepted[i].from <= accepted[i].to /\ accepted[i].to <= Len(source)
  BY <1>1, <1>7
<1>9. \A i \in 1 .. n : placed[i] \in R
  <2> HIDE DEF R
  <2>1. n = Len(placed)
    BY DEF n
  <2> QED BY <1>1, <2>1, ElementOfSeq
<1>10. ASSUME NEW i \in 1 .. m, NEW k \in 1 .. m, i < k PROVE accepted[i].to <= accepted[k].from
  <2> DEFINE a == at[i]
             b == at[k]
             c == next[a]
  <2>1. /\ a \in 1 .. n /\ b \in 1 .. n /\ a \in stops /\ b \in stops /\ a < b
        /\ accepted[i] = placed[a] /\ accepted[k] = placed[b]
    BY <1>6, <1>7, <1>10
  <2> HIDE DEF a, b
  <2>2. c \in Nat /\ a < c /\ c <= b
    BY <1>3, <1>4, <2>1
  <2>3. c \in 1 .. n /\ placed[c].from >= placed[a].to
    BY SMTT(30), <1>1, <1>3, <2>1, <2>2
  <2> HIDE DEF c
  <2>4. c = b \/ placed[c].from <= placed[b].from
    BY <1>1, <2>1, <2>2, <2>3
  <2>5. placed[a] \in R /\ placed[b] \in R /\ placed[c] \in R
    BY <1>9, <2>1, <2>3
  <2> QED BY <2>1, <2>3, <2>4, <2>5
<1>11. accepted = <<>> <=> Usable(ops, source) = {}
  <2>1. IsFiniteSet(Usable(ops, source))
    BY SpansInOrder
  <2>2. Usable(ops, source) = {} <=> n = 0
    BY <1>1, <2>1, FS_EmptySet
  <2>3. accepted = <<>> <=> m = 0
    BY <1>6, EmptySeq
  <2>4. n = 0 => m = 0
    <3>1. m = 0 \/ 1 \in 1 .. m
      BY <1>6
    <3>2. 1 \in 1 .. m => n # 0
      BY <1>7
    <3> QED BY <3>1, <3>2
  <2>5. n # 0 => m # 0
    BY <1>1, <1>4, <1>6
  <2> QED BY <2>2, <2>3, <2>4, <2>5
<1> QED BY <1>6, <1>8, <1>10, <1>11 DEF accepted, placed

\* Span edits of which none is refused give a text.
LEMMA UnrefusedGives ==
  ASSUME NEW ops, IsSpans(ops), ops # <<>>, NEW source \in TextType, NEW role,
         Spans(ops, source, role, guard).refused = {}
  PROVE  \E t : Spans(ops, source, role, guard).text = {t}
<1> DEFINE accepted == Accepted(ops, source)
           result   == Spliced(source, accepted)
<1>1. /\ LineRefusal(accepted, result, source, role, guard) = {}
      /\ \A i \in DOMAIN ops : SpanRefusal(ops[i], source, guard) = {}
      /\ Spans(ops, source, role, guard).text =
           IF accepted = <<>> \/ LineRefusal(accepted, result, source, role, guard) # {} THEN {} ELSE {result}
  BY SpansAre
<1>2. 1 \in DOMAIN ops
  BY LenProperties, EmptySeq DEF IsSpans
<1>3. 1 \in Usable(ops, source)
  BY <1>1, <1>2 DEF Usable
<1>4. accepted # <<>>
  BY <1>3, AcceptedFacts
<1> QED BY <1>1, <1>4

----
\* The pages of a document, their lines and texts.
LEMMA PageFacts ==
  ASSUME doc \in Documents, NEW p \in DOMAIN doc
  PROVE  /\ p \in Nat /\ p # 0 /\ p \in Pages
         /\ doc[p].lines \in Seq(STRING)
         /\ LinesOf(p) \subseteq STRING /\ IsFiniteSet(LinesOf(p)) /\ LinesOf(p) = DOMAIN doc[p].text
         /\ doc[p].targets \subseteq LinesOf(p) /\ IsFiniteSet(doc[p].targets)
         /\ \A l \in LinesOf(p) : doc[p].text[l] \in TextType
         /\ Edits(doc[p]) \subseteq EditType /\ Answers(doc[p]) \subseteq Seq(TextType)
         /\ \A l \in LinesOf(p) : <<p, l>> \in Refs
<1>1. /\ DOMAIN doc \subseteq Nat \ {0} /\ IsPage(doc[p])
      /\ Edits(doc[p]) \subseteq EditType /\ Answers(doc[p]) \subseteq Seq(TextType)
  BY RepliesAssumption
<1> DEFINE lines == doc[p].lines
           n     == Len(lines)
<1>2. /\ lines \in Seq(STRING) /\ doc[p].targets \subseteq Range(lines)
      /\ doc[p].text \in [Range(lines) -> TextType]
  BY <1>1 DEF IsPage
<1> HIDE DEF lines
<1>3. n \in Nat /\ DOMAIN lines = 1 .. n /\ \A i \in 1 .. n : lines[i] \in STRING
  BY <1>2, LenProperties, ElementOfSeq
<1>4. Range(lines) = {lines[i] : i \in 1 .. n}
  BY <1>3 DEF Range
<1>5. lines \in Surjection(1 .. n, Range(lines))
  BY <1>2, <1>3, <1>4, LenProperties DEF Surjection
<1>6. IsFiniteSet(Range(lines))
  BY <1>3, <1>5, FS_Interval, FS_Surjection
<1>7. Range(lines) \subseteq STRING
  BY <1>3, <1>4
<1>8. LinesOf(p) = Range(lines)
  BY DEF LinesOf, lines
<1>9. IsFiniteSet(doc[p].targets)
  BY <1>2, <1>6, FS_Subset
<1>10. \A l \in LinesOf(p) : <<p, l>> \in Refs
  BY DEF Refs, Pages
<1> QED BY <1>1, <1>2, <1>6, <1>7, <1>8, <1>9, <1>10 DEF lines, Pages

\* The edits on a line, and those of one kind on it.
LEMMA OpsOnFacts ==
  ASSUME NEW ops \in Seq(EditType), NEW l
  PROVE  /\ OpsOn(ops, l) \in Seq(EditType)
         /\ \A i \in DOMAIN OpsOn(ops, l) : OpsOn(ops, l)[i].line = l
         /\ OpsOn(ops, l) = <<>> <=> \A i \in DOMAIN ops : ops[i].line # l
<1> DEFINE T == {o \in Range(ops) : o.line = l}
<1>1. OpsOn(ops, l) = Sifted(ops, T)
  BY DEF OpsOn
<1>2. \A i \in DOMAIN ops : ops[i] \in T <=> ops[i].line = l
  BY DEF Range
<1>3. \A o \in T : o.line = l
  OBVIOUS
<1> HIDE DEF T
<1>4. Sifted(ops, T) \in Seq(EditType) /\ \A k \in DOMAIN Sifted(ops, T) : Sifted(ops, T)[k] \in T
  BY SiftedHolds
<1>5. Sifted(ops, T) = <<>> <=> \A i \in DOMAIN ops : ops[i] \notin T
  BY SiftedNone
<1> QED BY <1>1, <1>2, <1>3, <1>4, <1>5

LEMMA KindFacts ==
  ASSUME NEW ops \in Seq(EditType)
  PROVE  /\ WholeEdits(ops) \in Seq(EditType) /\ SpanEdits(ops) \in Seq(EditType)
         /\ \A i \in DOMAIN WholeEdits(ops) : WholeEdits(ops)[i].op = "line"
         /\ IsSpans(SpanEdits(ops))
         /\ (\A i \in DOMAIN ops : ops[i].op = "line") => WholeEdits(ops) = ops /\ SpanEdits(ops) = <<>>
         /\ (\A i \in DOMAIN ops : ops[i].op = "span") => SpanEdits(ops) = ops /\ WholeEdits(ops) = <<>>
         /\ WholeEdits(ops) = <<>> => \A i \in DOMAIN ops : ops[i].op = "span"
<1> DEFINE T == {o \in Range(ops) : o.op = "line"}
           U == {o \in Range(ops) : o.op = "span"}
<1>1. WholeEdits(ops) = Sifted(ops, T) /\ SpanEdits(ops) = Sifted(ops, U)
  BY DEF WholeEdits, SpanEdits
<1>2. \A i \in DOMAIN ops : (ops[i] \in T <=> ops[i].op = "line") /\ (ops[i] \in U <=> ops[i].op = "span")
  BY DEF Range
<1>3. (\A o \in T : o.op = "line") /\ (\A o \in U : o.op = "span")
  OBVIOUS
<1>4. \A i \in DOMAIN ops : ops[i].op \in {"line", "span"}
  BY EditFacts, LenProperties, ElementOfSeq
<1> HIDE DEF T, U
<1>5. Sifted(ops, T) \in Seq(EditType) /\ \A k \in DOMAIN Sifted(ops, T) : Sifted(ops, T)[k] \in T
  BY SiftedHolds
<1>6. Sifted(ops, U) \in Seq(EditType) /\ \A k \in DOMAIN Sifted(ops, U) : Sifted(ops, U)[k] \in U
  BY SiftedHolds
<1>7. /\ Sifted(ops, T) = <<>> <=> \A i \in DOMAIN ops : ops[i] \notin T
      /\ Sifted(ops, U) = <<>> <=> \A i \in DOMAIN ops : ops[i] \notin U
  BY SiftedNone
<1>8. /\ (\A i \in DOMAIN ops : ops[i] \in T) => Sifted(ops, T) = ops
      /\ (\A i \in DOMAIN ops : ops[i] \in U) => Sifted(ops, U) = ops
  BY SiftedAll
<1>9. (\A i \in DOMAIN ops : ops[i].op = "line") => WholeEdits(ops) = ops /\ SpanEdits(ops) = <<>>
  BY <1>1, <1>2, <1>7, <1>8
<1>10. (\A i \in DOMAIN ops : ops[i].op = "span") => SpanEdits(ops) = ops /\ WholeEdits(ops) = <<>>
  BY <1>1, <1>2, <1>7, <1>8
<1>11. WholeEdits(ops) = <<>> => \A i \in DOMAIN ops : ops[i].op = "span"
  BY <1>1, <1>2, <1>4, <1>7
<1>12. IsSpans(SpanEdits(ops)) /\ \A i \in DOMAIN WholeEdits(ops) : WholeEdits(ops)[i].op = "line"
  BY <1>1, <1>3, <1>5, <1>6 DEF IsSpans
<1> QED BY <1>1, <1>5, <1>6, <1>9, <1>10, <1>11, <1>12

\* Sorting the edits by kind and by line commute.
LEMMA KindOnLine ==
  ASSUME NEW ops \in Seq(EditType), NEW l
  PROVE  /\ OpsOn(SpanEdits(ops), l) = <<>> => OpsOn(WholeEdits(ops), l) = OpsOn(ops, l)
         /\ OpsOn(WholeEdits(ops), l) = <<>> => OpsOn(SpanEdits(ops), l) = OpsOn(ops, l)
         /\ IsSpans(OpsOn(SpanEdits(ops), l))
<1> DEFINE L == {o \in EditType : o.line = l}
           W == {o \in EditType : o.op = "line"}
           S == {o \in EditType : o.op = "span"}
<1>1. \A i \in DOMAIN ops : ops[i] \in EditType /\ ops[i].op \in {"line", "span"}
  BY EditFacts, LenProperties, ElementOfSeq
<1>2. ASSUME NEW s \in Seq(EditType) PROVE OpsOn(s, l) = Sifted(s, L)
  <2>1. \A i \in DOMAIN s : s[i] \in EditType
    BY LenProperties, ElementOfSeq
  <2>2. \A i \in DOMAIN s : s[i] \in {o \in Range(s) : o.line = l} <=> s[i] \in L
    BY <2>1 DEF Range
  <2> HIDE DEF L
  <2> QED BY <2>2, SiftedSame DEF OpsOn
<1>3. WholeEdits(ops) = Sifted(ops, W)
  <2>1. \A i \in DOMAIN ops : ops[i] \in {o \in Range(ops) : o.op = "line"} <=> ops[i] \in W
    BY <1>1 DEF Range
  <2> HIDE DEF W
  <2> QED BY <2>1, SiftedSame DEF WholeEdits
<1>4. SpanEdits(ops) = Sifted(ops, S)
  <2>1. \A i \in DOMAIN ops : ops[i] \in {o \in Range(ops) : o.op = "span"} <=> ops[i] \in S
    BY <1>1 DEF Range
  <2> HIDE DEF S
  <2> QED BY <2>1, SiftedSame DEF SpanEdits
<1>5. /\ OpsOn(WholeEdits(ops), l) = Sifted(ops, W \cap L)
      /\ OpsOn(SpanEdits(ops), l) = Sifted(ops, S \cap L)
      /\ OpsOn(ops, l) = Sifted(ops, L)
  <2>1. WholeEdits(ops) \in Seq(EditType) /\ SpanEdits(ops) \in Seq(EditType)
    BY KindFacts
  <2> HIDE DEF L, W, S
  <2> QED BY <1>2, <1>3, <1>4, <2>1, SiftedTwice
<1>6. ASSUME OpsOn(SpanEdits(ops), l) = <<>> PROVE Sifted(ops, W \cap L) = Sifted(ops, L)
  <2>1. \A i \in DOMAIN ops : ops[i] \notin S \cap L
    <3> DEFINE C == S \cap L
    <3> HIDE DEF C
    <3>1. Sifted(ops, C) = <<>>
      BY <1>5, <1>6 DEF C
    <3>2. \A i \in DOMAIN ops : ops[i] \notin C
      BY <3>1, SiftedNone
    <3> QED BY <3>2 DEF C
  <2>2. \A i \in DOMAIN ops : ops[i] \in W \cap L <=> ops[i] \in L
    BY <1>1, <2>1
  <2> HIDE DEF L, W
  <2> QED BY <2>2, SiftedSame
<1>7. ASSUME OpsOn(WholeEdits(ops), l) = <<>> PROVE Sifted(ops, S \cap L) = Sifted(ops, L)
  <2>1. \A i \in DOMAIN ops : ops[i] \notin W \cap L
    <3> DEFINE C == W \cap L
    <3> HIDE DEF C
    <3>1. Sifted(ops, C) = <<>>
      BY <1>5, <1>7 DEF C
    <3>2. \A i \in DOMAIN ops : ops[i] \notin C
      BY <3>1, SiftedNone
    <3> QED BY <3>2 DEF C
  <2>2. \A i \in DOMAIN ops : ops[i] \in S \cap L <=> ops[i] \in L
    BY <1>1, <2>1
  <2> HIDE DEF L, S
  <2> QED BY <2>2, SiftedSame
<1>8. IsSpans(OpsOn(SpanEdits(ops), l))
  <2> DEFINE C == S \cap L
  <2>1. \A o \in C : o.op = "span"
    OBVIOUS
  <2> HIDE DEF C
  <2>2. Sifted(ops, C) \in Seq(EditType) /\ \A k \in DOMAIN Sifted(ops, C) : Sifted(ops, C)[k] \in C
    BY SiftedHolds
  <2> QED BY <1>5, <2>1, <2>2 DEF IsSpans, C
<1> QED BY <1>5, <1>6, <1>7, <1>8

----
\* What a script comes to on the lines it may edit.
LEMMA AppliedScriptIs ==
  ASSUME NEW sc, NEW canonical, NEW allowed, NEW roles
  PROVE  LET applied   == AppliedScript(sc, canonical, allowed, roles, guard)
             Judged(l) == LineVerdict(OpsOn(sc.ops, l), canonical[l], roles[l], guard)
             open      == Open(sc, canonical, allowed)
         IN  /\ DOMAIN applied.text = {l \in open : Judged(l).text # {}}
             /\ \A l \in DOMAIN applied.text : applied.text[l] \in Judged(l).text
             /\ \A l \in open : l \notin applied.refused => Judged(l).refused = {}
<1> DEFINE verdict == [l \in Open(sc, canonical, allowed) |->
                         LineVerdict(OpsOn(sc.ops, l), canonical[l], roles[l], guard)]
<1>1. AppliedScript(sc, canonical, allowed, roles, guard) = Outcome(sc, verdict)
  BY DEF AppliedScript
<1>2. \A l \in Open(sc, canonical, allowed) : l \in {sc.ops[i].line : i \in DOMAIN sc.ops}
  BY DEF Open
<1> DEFINE texts == [l \in {l \in DOMAIN verdict : verdict[l].text # {}} |-> CHOOSE t \in verdict[l].text : TRUE]
<1>3. Outcome(sc, verdict).text = texts
  BY DEF Outcome
<1>4. \A l \in DOMAIN texts : texts[l] \in verdict[l].text
  OBVIOUS
<1>5. Outcome(sc, verdict).refused = {sc.ops[i].line : i \in DOMAIN sc.ops}
                                       \ {l \in DOMAIN verdict : verdict[l].refused = {}}
  BY DEF Outcome
<1>6. DOMAIN verdict = Open(sc, canonical, allowed)
  OBVIOUS
<1>7. \A l \in Open(sc, canonical, allowed) :
        verdict[l] = LineVerdict(OpsOn(sc.ops, l), canonical[l], roles[l], guard)
  OBVIOUS
<1>8. DOMAIN texts = {l \in DOMAIN verdict : verdict[l].text # {}}
  OBVIOUS
<1> HIDE DEF verdict, texts
<1> QED BY <1>1, <1>2, <1>3, <1>4, <1>5, <1>6, <1>7, <1>8

\* Span edits alone go the way of spans.
LEMMA SpansVerdict ==
  ASSUME NEW ops, IsSpans(ops), NEW source, NEW role
  PROVE  LineVerdict(ops, source, role, guard) = Spans(ops, source, role, guard)
<1>1. ops \in Seq(EditType) /\ \A i \in DOMAIN ops : ops[i].op = "span"
  BY DEF IsSpans
<1>2. WholeEdits(ops) = <<>>
  BY <1>1, KindFacts
<1> QED BY <1>2 DEF LineVerdict

\* The normalised reply has a text for the lines of its span edits whose edits give one.
LEMMA ProposedSpans ==
  ASSUME doc \in Documents, page \in DOMAIN doc, script \in Seq(EditType)
  PROVE  LET raw     == ScriptToRaw(script)
             on(l)   == OpsOn(SpanEdits(script), l)
             gives(l) == Spans(on(l), Source(<<page, l>>), doc[page].role[l], guard)
         IN  /\ DOMAIN raw.spans = {l \in doc[page].targets : on(l) # <<>> /\ gives(l).text # {}}
             /\ \A l \in DOMAIN raw.spans : raw.spans[l] \in gives(l).text
             /\ \A l \in doc[page].targets :
                  on(l) # <<>> /\ l \notin raw.refused => gives(l).refused = {}
<1> DEFINE spans == SpanEdits(script)
           sc    == [ops |-> spans, expected |-> {}]
           on(l) == OpsOn(spans, l)
           gives(l) == Spans(on(l), Source(<<page, l>>), doc[page].role[l], guard)
           text  == doc[page].text
           targets == doc[page].targets
           applied == AppliedScript(sc, text, targets, doc[page].role, guard)
<1>1. spans \in Seq(EditType)
  BY KindFacts
<1>2. InScope(sc, 0) = sc
  <2> HIDE DEF spans
  <2>1. \A i \in DOMAIN spans : spans[i] \in Range(spans)
    BY DEF Range
  <2>2. Sifted(spans, Range(spans)) = spans
    BY <1>1, <2>1, SiftedAll
  <2>3. {o \in Range(spans) : 0 = 0 \/ o.page \in {0, 0}} = Range(spans)
    OBVIOUS
  <2> QED BY <2>2, <2>3 DEF InScope
<1>3. ScriptToRaw(script).spans = applied.text /\ ScriptToRaw(script).refused = applied.refused
  <2> HIDE DEF spans, applied
  <2>1. Applied(sc, text, targets, doc[page].role, guard, 0) = applied
    BY <1>2 DEF Applied, applied
  <2> QED BY <2>1 DEF ScriptToRaw, Proposal, spans
<1>4. targets \subseteq DOMAIN text
  BY PageFacts
<1>5. \A l : on(l) # <<>> <=> l \in {spans[i].line : i \in DOMAIN spans}
  <2> HIDE DEF spans
  <2> QED BY <1>1, OpsOnFacts
<1>6. Open(sc, text, targets) = {l \in targets : on(l) # <<>>}
  <2> HIDE DEF spans
  <2> QED BY <1>4, <1>5 DEF Open
<1>7. \A l : LineVerdict(on(l), text[l], doc[page].role[l], guard) = gives(l)
  <2>1. \A l : IsSpans(on(l))
    BY KindOnLine
  <2>2. \A l : text[l] = Source(<<page, l>>)
    BY DEF Source
  <2> HIDE DEF spans
  <2> QED BY <2>1, <2>2, SpansVerdict
<1>8. /\ DOMAIN applied.text = {l \in Open(sc, text, targets) : gives(l).text # {}}
      /\ \A l \in DOMAIN applied.text : applied.text[l] \in gives(l).text
      /\ \A l \in Open(sc, text, targets) : l \notin applied.refused => gives(l).refused = {}
  <2>1. sc.ops = spans
    OBVIOUS
  <2> DEFINE J(l) == LineVerdict(OpsOn(sc.ops, l), text[l], doc[page].role[l], guard)
  <2>2. \A l : J(l) = gives(l)
    BY <1>7, <2>1
  <2>3. /\ DOMAIN applied.text = {l \in Open(sc, text, targets) : J(l).text # {}}
        /\ \A l \in DOMAIN applied.text : applied.text[l] \in J(l).text
        /\ \A l \in Open(sc, text, targets) : l \notin applied.refused => J(l).refused = {}
    <3> HIDE DEF sc
    <3> QED BY AppliedScriptIs
  <2> HIDE DEF sc, gives, spans, J, applied
  <2> QED BY <2>2, <2>3
<1> HIDE DEF applied, gives, on
<1>9. DOMAIN applied.text = {l \in targets : on(l) # <<>> /\ gives(l).text # {}}
  BY <1>6, <1>8
<1>10. \A l \in targets : on(l) # <<>> /\ l \notin applied.refused => gives(l).refused = {}
  BY <1>6, <1>8
<1> QED BY <1>3, <1>8, <1>9, <1>10 DEF gives, on

\* What is captured on a line gives the text it was captured with.
Faithful(r, c) ==
  /\ c.ops \in Seq(EditType) /\ c.ops # <<>>
  /\ \A i \in DOMAIN c.ops : c.ops[i].line = r[2]
  /\ \/ Len(c.ops) = 1 /\ c.ops[1].op = "line" /\ c.text = Checked(c.ops[1].text)
     \/ IsSpans(c.ops) /\ Spans(c.ops, Source(r), doc[r[1]].role[r[2]], guard).text = {c.text}

\* As many lines as edits.
OneEach(whole) == Cardinality({whole[i].line : i \in DOMAIN whole}) = Len(whole)

\* A reply that passes names no line twice as a whole.
LEMMA OneWhole ==
  ASSUME NEW whole \in Seq(EditType), OneEach(whole),
         NEW l, OpsOn(whole, l) # <<>>
  PROVE  Len(OpsOn(whole, l)) = 1
<1> DEFINE named == {whole[i].line : i \in DOMAIN whole}
           n     == Len(whole)
           f     == [i \in 1 .. n |-> whole[i].line]
           T     == {o \in Range(whole) : o.line = l}
           P     == {i \in DOMAIN whole : whole[i] \in T}
<1>1. n \in Nat /\ DOMAIN whole = 1 .. n
  BY LenProperties
<1>2. f \in Surjection(1 .. n, named)
  BY <1>1 DEF Surjection
<1>3. IsFiniteSet(1 .. n) /\ Cardinality(1 .. n) = n
  <2> HIDE DEF n
  <2>1. /\ IsFiniteSet(1 .. n)
        /\ Cardinality(1 .. n) = IF 1 > n THEN 0 ELSE n - 1 + 1
    BY <1>1, FS_Interval
  <2> QED BY <1>1, <2>1
<1>4. \A i, k \in 1 .. n : whole[i].line = whole[k].line => i = k
  <2> HIDE DEF named
  <2>0. Cardinality(named) = n
    BY DEF named, n, OneEach
  <2>1. f \in Injection(1 .. n, named)
    <3> HIDE DEF f, n
    <3> QED BY <1>2, <1>3, <2>0, FS_SurjSameCardinalityImpliesInj
  <2> QED BY <2>1 DEF Injection, IsInjective
<1>5. \A i, k \in P : i = k
  <2>1. \A i \in P : whole[i].line = l /\ i \in 1 .. n
    BY <1>1
  <2> QED BY <1>4, <2>1
<1>6. P \in SUBSET DOMAIN whole
  OBVIOUS
<1>7. OpsOn(whole, l) = Chosen(whole, P)
  BY DEF OpsOn, Sifted
<1> HIDE DEF P, T
<1> DEFINE m  == Cardinality(P)
           at == Ordered(P)
<1>8. /\ m \in Nat /\ at \in [1 .. m -> P] /\ Len(OpsOn(whole, l)) = m
      /\ \A i, j \in 1 .. m : i < j => at[i] < at[j]
      /\ OpsOn(whole, l) \in Seq(EditType)
  BY <1>6, <1>7, ChosenFacts
<1> HIDE DEF m, at
<1>9. m # 0
  BY <1>8, EmptySeq
<1>10. ~ (m > 1)
  <2>1. SUFFICES ASSUME m > 1 PROVE FALSE
    OBVIOUS
  <2>2. 1 \in 1 .. m /\ 2 \in 1 .. m /\ at[1] < at[2]
    BY <1>8, <2>1
  <2>3. at[1] \in P /\ at[2] \in P /\ at[1] = at[2]
    BY <1>5, <1>8, <2>2
  <2>4. at[1] \in Nat
    <3> HIDE DEF n
    <3>1. at[1] \in DOMAIN whole
      BY <1>6, <2>3
    <3> QED BY <1>1, <3>1
  <2> QED BY <2>2, <2>3, <2>4
<1> QED BY <1>8, <1>9, <1>10

\* What _capture_producer_ops records of a reply that passes.
LEMMA CapturedFaithful ==
  ASSUME doc \in Documents, page \in DOMAIN doc, script \in Seq(EditType),
         proposed = ScriptToRaw(script), Valid,
         NEW l \in doc[page].targets, OpsOn(script, l) # <<>>, l \notin proposed.refused
  PROVE  Faithful(<<page, l>>, [ops |-> OpsOn(script, l), text |-> Produced(l)])
<1> DEFINE ops   == OpsOn(script, l)
           on    == OpsOn(SpanEdits(script), l)
           whole == WholeEdits(script)
           mine  == OpsOn(whole, l)
           gives == Spans(on, Source(<<page, l>>), doc[page].role[l], guard)
<1>1. ops \in Seq(EditType) /\ ops # <<>> /\ \A i \in DOMAIN ops : ops[i].line = l
  BY OpsOnFacts
<1>2. proposed.whole = whole
  BY DEF ScriptToRaw, Proposal
<1>3. whole \in Seq(EditType) /\ \A i \in DOMAIN whole : whole[i].op = "line"
  BY KindFacts
<1>4. /\ l \in DOMAIN proposed.spans <=> on # <<>> /\ gives.text # {}
      /\ l \in DOMAIN proposed.spans => proposed.spans[l] \in gives.text
      /\ on # <<>> => gives.refused = {}
  BY ProposedSpans
<1>5. /\ OneEach(whole)
      /\ \A i \in DOMAIN whole : whole[i].line \notin DOMAIN proposed.spans
  BY <1>2 DEF Valid, OneEach
<1>6. mine \in Seq(EditType) /\ (mine = <<>> <=> \A i \in DOMAIN whole : whole[i].line # l)
  BY <1>3, OpsOnFacts
<1>7. IsSpans(on) /\ (on = <<>> => mine = ops) /\ (mine = <<>> => on = ops)
  BY KindOnLine
<1>8. Source(<<page, l>>) = doc[page].text[l] /\ Source(<<page, l>>) \in TextType
  BY PageFacts DEF Source
<1>9. Produced(l) = IF l \in DOMAIN proposed.spans THEN proposed.spans[l]
                    ELSE IF mine = <<>> THEN doc[page].text[l] ELSE Checked(Last(mine).text)
  BY <1>2 DEF Produced
<1>10. \A i \in DOMAIN mine : mine[i].op = "line"
  <2> DEFINE T == {o \in Range(whole) : o.line = l}
  <2>1. \A k \in DOMAIN Sifted(whole, T) : \E i \in DOMAIN whole : Sifted(whole, T)[k] = whole[i]
    <3> HIDE DEF T, whole
    <3> QED BY <1>3, SiftedHolds
  <2>2. mine = Sifted(whole, T)
    BY DEF OpsOn
  <2> HIDE DEF T, mine, whole
  <2> QED BY <1>3, <2>1, <2>2
<1> HIDE DEF ops, on, whole, mine, gives
<1>11. CASE on = <<>>
  <2>1. mine = ops /\ mine # <<>> /\ l \notin DOMAIN proposed.spans
    BY <1>1, <1>4, <1>7, <1>11
  <2>2. Len(mine) = 1
    BY <1>3, <1>5, <2>1, OneWhole DEF mine
  <2>3. 1 \in DOMAIN mine /\ Last(mine) = mine[1]
    BY <1>6, <2>2, LenProperties DEF Last
  <2>4. Produced(l) = Checked(ops[1].text) /\ ops[1].op = "line" /\ Len(ops) = 1
    BY <1>9, <1>10, <2>1, <2>2, <2>3
  <2> QED BY <1>1, <2>4 DEF Faithful, ops
<1>12. CASE on # <<>>
  <2>1. PICK t : gives.text = {t}
    BY <1>4, <1>7, <1>8, <1>12, UnrefusedGives DEF gives
  <2>2. l \in DOMAIN proposed.spans /\ Produced(l) = t
    BY <1>4, <1>9, <1>12, <2>1
  <2>3. mine = <<>>
    BY <1>5, <1>6, <2>2
  <2>4. IsSpans(ops) /\ Spans(ops, Source(<<page, l>>), doc[page].role[l], guard).text = {Produced(l)}
    BY <1>7, <2>1, <2>2, <2>3 DEF gives
  <2> QED BY <1>1, <2>4 DEF Faithful, ops
<1> QED BY <1>11, <1>12

\* A published line carries its own edits or its text, and gives nothing but that text.
LEMMA PublishedGives ==
  ASSUME doc \in Documents, NEW p \in DOMAIN doc, NEW l \in LinesOf(p),
         <<p, l>> \in DOMAIN captured, Faithful(<<p, l>>, captured[<<p, l>>]),
         decided[<<p, l>>].text \in TextType, NEW role \in {doc[p].role[l], "none"}
  PROVE  LET r    == <<p, l>>
             pub  == Published(r)
             text == LineVerdict(pub, Source(r), role, guard).text
         IN  /\ pub \in Seq(EditType) /\ pub # <<>>
             /\ \A i \in DOMAIN pub : pub[i].line = l /\ pub[i].page = p
             /\ text \subseteq {decided[r].text}
             /\ (\E i \in DOMAIN pub : pub[i].op = "span") => text = {decided[r].text}
<1> DEFINE r    == <<p, l>>
           c    == captured[r]
           pub  == Published(r)
           n    == Len(c.ops)
           copy == [i \in DOMAIN c.ops |-> [c.ops[i] EXCEPT !.page = p]]
           text == LineVerdict(pub, Source(r), role, guard).text
<1>1. r[1] = p /\ r[2] = l /\ p \in Nat /\ l \in STRING /\ Source(r) \in TextType
  BY PageFacts DEF Source
<1>2. ASSUME NEW o, o \in EditType, o.op = "line", o.line = l, o.page = p, pub = <<o>>
      PROVE  /\ pub \in Seq(EditType) /\ pub # <<>>
             /\ \A i \in DOMAIN pub : pub[i].line = l /\ pub[i].page = p /\ pub[i].op = "line"
             /\ text \subseteq {o.text} /\ (text # {} => ~ IsBlank(o.text))
  <2> HIDE DEF pub
  <2>1. pub \in Seq(EditType) /\ pub # <<>> /\ DOMAIN pub = {1} /\ pub[1] = o /\ Len(pub) = 1
    BY <1>2
  <2>2. WholeEdits(pub) = pub /\ SpanEdits(pub) = <<>>
    <3>1. \A i \in DOMAIN pub : pub[i].op = "line"
      BY <1>2, <2>1
    <3> QED BY <2>1, <3>1, KindFacts
  <2>3. LineVerdict(pub, Source(r), role, guard) = WholeLine(pub \o <<>>, Source(r), role, guard)
    BY <2>1, <2>2 DEF LineVerdict
  <2>4. pub \o <<>> = pub
    BY <2>1, ConcatEmptySeq
  <2>5. WholeLine(pub, Source(r), role, guard).text \subseteq {o.text}
    BY <2>1 DEF WholeLine
  <2>6. WholeLine(pub, Source(r), role, guard).text # {} => ~ IsBlank(o.text)
    BY <2>1 DEF WholeLine
  <2> QED BY <1>2, <2>1, <2>3, <2>4, <2>5, <2>6
<1>3. CASE c.text # decided[r].text
  <2> DEFINE o == [op |-> "line", line |-> l, page |-> p, text |-> decided[r].text]
  <2>1. pub = <<o>>
    BY <1>1, <1>3 DEF Published
  <2>2. o \in EditType
    BY <1>1 DEF EditType
  <2>3. o.op = "line" /\ o.line = l /\ o.page = p /\ o.text = decided[r].text
    OBVIOUS
  <2> HIDE DEF o, pub, text, r
  <2> QED BY <1>2, <2>1, <2>2, <2>3 DEF r, pub, text
<1>4. CASE c.text = decided[r].text
  <2>1. pub = copy
    BY <1>1, <1>4 DEF Published
  <2>2. /\ c.ops \in Seq(EditType) /\ c.ops # <<>> /\ n \in Nat /\ DOMAIN c.ops = 1 .. n
        /\ \A i \in 1 .. n : c.ops[i] \in EditType /\ c.ops[i].line = l
    <3>1. c.ops \in Seq(EditType) /\ c.ops # <<>> /\ \A i \in DOMAIN c.ops : c.ops[i].line = l
      BY <1>1 DEF Faithful
    <3> HIDE DEF c
    <3> QED BY <3>1, LenProperties, ElementOfSeq
  <2>3. \A i \in 1 .. n : /\ copy[i] \in EditType /\ copy[i].op = c.ops[i].op /\ copy[i].line = l
                          /\ copy[i].page = p /\ copy[i].text = c.ops[i].text
                          /\ c.ops[i].op = "span" => copy[i].anchor = c.ops[i].anchor
    <3> HIDE DEF c
    <3> QED BY <1>1, <2>2, EditFacts
  <2>4. copy \in Seq(EditType) /\ copy # <<>> /\ DOMAIN copy = 1 .. n
    <3> HIDE DEF c
    <3>1. copy = [i \in 1 .. n |-> copy[i]] /\ DOMAIN copy = 1 .. n
      BY <2>2
    <3>2. copy \in [1 .. n -> EditType]
      <4> HIDE DEF copy
      <4> QED BY <2>3, <3>1
    <3>3. n # 0
      BY <2>2, EmptySeq
    <3> HIDE DEF copy, n
    <3>4. copy \in Seq(EditType) /\ Len(copy) = n
      BY <2>2, <3>2, FunIsSeq
    <3> QED BY <3>1, <3>3, <3>4, EmptySeq
  <2>5. CASE n = 1 /\ c.ops[1].op = "line" /\ c.text = Checked(c.ops[1].text)
    <3>1. copy = <<copy[1]>>
      <4> HIDE DEF copy
      <4>1. Len(copy) = 1
        BY <2>4, <2>5, LenProperties
      <4>2. copy[1] \in EditType
        BY <2>3, <2>5
      <4> DEFINE one == <<copy[1]>>
      <4>3. one \in Seq(EditType) /\ Len(one) = 1 /\ one[1] = copy[1]
        BY <4>2
      <4> HIDE DEF one
      <4>4. copy = one
        BY <2>4, <4>1, <4>3, SeqEqual
      <4> QED BY <4>4 DEF one
    <3>2. /\ copy[1] \in EditType /\ copy[1].op = "line" /\ copy[1].line = l /\ copy[1].page = p
          /\ copy[1].text = c.ops[1].text
      <4> HIDE DEF c, copy
      <4> QED BY <2>3, <2>5
    <3> DEFINE o == copy[1]
    <3>3. pub = <<o>>
      BY <2>1, <3>1
    <3>4. o \in EditType /\ o.op = "line" /\ o.line = l /\ o.page = p /\ o.text = c.ops[1].text
      BY <3>2
    <3> HIDE DEF o, pub, text, c, copy, r
    <3>5. /\ pub \in Seq(EditType) /\ pub # <<>>
          /\ \A i \in DOMAIN pub : pub[i].line = l /\ pub[i].page = p /\ pub[i].op = "line"
          /\ text \subseteq {o.text} /\ (text # {} => ~ IsBlank(o.text))
      BY <1>2, <3>3, <3>4
    <3>6. text # {} => o.text = decided[r].text
      BY <1>4, <2>5, <3>4, <3>5 DEF Checked
    <3> QED BY <3>5, <3>6 DEF pub, text, r
  <2>6. CASE IsSpans(c.ops) /\ Spans(c.ops, Source(r), doc[p].role[l], guard).text = {c.text}
    <3>1. \A i \in DOMAIN c.ops : c.ops[i].op = "span"
      BY <2>6 DEF IsSpans
    <3> HIDE DEF c, r
    <3>2. IsSpans(copy)
      <4> HIDE DEF copy
      <4> QED BY <2>2, <2>3, <2>4, <3>1 DEF IsSpans
    <3>3. Spans(copy, Source(r), role, guard).text = Spans(c.ops, Source(r), role, guard).text
      <4>1. DOMAIN copy = DOMAIN c.ops
        BY <2>2
      <4>2. \A i \in DOMAIN c.ops : copy[i].anchor = c.ops[i].anchor /\ copy[i].text = c.ops[i].text
        <5> HIDE DEF copy
        <5> QED BY <2>2, <2>3, <3>1
      <4> HIDE DEF copy
      <4> QED BY <1>1, <2>6, <4>1, <4>2, SpansAlike
    <3>4. Spans(c.ops, Source(r), role, guard).text = {c.text}
      <4>1. CASE role = doc[p].role[l]
        BY <2>6, <4>1
      <4>2. CASE role = "none"
        <5> DEFINE own == doc[p].role[l]
                   t   == c.text
        <5>1. Spans(c.ops, Source(r), own, guard).text = {t}
          BY <2>6
        <5> HIDE DEF own, t
        <5>2. Spans(c.ops, Source(r), "none", guard).text = {t}
          BY <5>1, RolelessSame
        <5> QED BY <4>2, <5>2 DEF t
      <4> QED BY <4>1, <4>2
    <3>5. LineVerdict(copy, Source(r), role, guard) = Spans(copy, Source(r), role, guard)
      BY <3>2, SpansVerdict
    <3> HIDE DEF copy
    <3>6. pub \in Seq(EditType) /\ pub # <<>> /\ \A i \in DOMAIN pub : pub[i].line = l /\ pub[i].page = p
      BY <2>1, <2>3, <2>4
    <3>7. text = {decided[r].text}
      BY <1>4, <2>1, <3>3, <3>4, <3>5
    <3> HIDE DEF text, pub
    <3> QED BY <3>6, <3>7 DEF text, pub, r
  <2>7. \/ n = 1 /\ c.ops[1].op = "line" /\ c.text = Checked(c.ops[1].text)
        \/ IsSpans(c.ops) /\ Spans(c.ops, Source(r), doc[p].role[l], guard).text = {c.text}
    BY <1>1 DEF Faithful
  <2> QED BY <2>5, <2>6, <2>7
<1> QED BY <1>3, <1>4

----
\* Adjacent stretches.
LEMMA CutJoin ==
  ASSUME NEW t \in TextType, NEW a \in Nat, NEW b \in Nat, NEW c \in Nat,
         a <= b, b <= c, c <= Len(t)
  PROVE  Cut(t, a, b) \o Cut(t, b, c) = Cut(t, a, c)
<1> DEFINE x == Cut(t, a, b)
           y == Cut(t, b, c)
           z == Cut(t, a, c)
<1>1. Len(t) \in Nat
  BY TextLen
<1>2. /\ x \in Seq(Char) /\ Len(x) = b - a /\ \A i \in 1 .. b - a : x[i] = t[a + i]
      /\ y \in Seq(Char) /\ Len(y) = c - b /\ \A i \in 1 .. c - b : y[i] = t[b + i]
      /\ z \in Seq(Char) /\ Len(z) = c - a /\ \A i \in 1 .. c - a : z[i] = t[a + i]
  <2>1. a <= c /\ b <= Len(t) /\ TextType = Seq(Char)
    BY <1>1 DEF TextType
  <2>2. x \in TextType /\ Len(x) = b - a /\ \A i \in 1 .. b - a : x[i] = t[a + i]
    BY <2>1, CutFacts
  <2>3. y \in TextType /\ Len(y) = c - b /\ \A i \in 1 .. c - b : y[i] = t[b + i]
    BY CutFacts
  <2>4. z \in TextType /\ Len(z) = c - a /\ \A i \in 1 .. c - a : z[i] = t[a + i]
    BY <2>1, CutFacts
  <2> HIDE DEF x, y, z
  <2> QED BY <2>1, <2>2, <2>3, <2>4
<1> HIDE DEF x, y, z
<1>3. /\ x \o y \in Seq(Char) /\ Len(x \o y) = Len(x) + Len(y)
      /\ \A i \in 1 .. Len(x) + Len(y) : (x \o y)[i] = IF i <= Len(x) THEN x[i] ELSE y[i - Len(x)]
  BY <1>2, ConcatProperties
<1>4. Len(x \o y) = Len(z)
  BY <1>2, <1>3
<1>5. ASSUME NEW i \in 1 .. Len(x \o y) PROVE (x \o y)[i] = z[i]
  <2>1. CASE i <= b - a
    BY <1>2, <1>3, <2>1
  <2>2. CASE ~ (i <= b - a)
    <3>1. i - (b - a) \in 1 .. c - b /\ b + (i - (b - a)) = a + i
      BY <1>2, <1>3, <2>2
    <3> QED BY <1>2, <1>3, <2>2, <3>1
  <2> QED BY <2>1, <2>2
<1> QED BY <1>2, <1>3, <1>4, <1>5, SeqEqual DEF x, y, z

LEMMA CutFull ==
  ASSUME NEW t \in TextType
  PROVE  Cut(t, 0, Len(t)) = t /\ Cut(t, 0, 0) = <<>>
<1>1. Len(t) \in Nat /\ t \in Seq(Char)
  BY TextLen
<1>2. SubSeq(t, 1, Len(t)) = t
  BY <1>1, SubSeqFull
<1>3. SubSeq(t, 1, 0) = <<>>
  BY SubSeqEmpty
<1> QED BY <1>2, <1>3 DEF Cut

\* Stretches of one text and another.
LEMMA CutOfConcat ==
  ASSUME NEW s \in TextType, NEW t \in TextType, NEW a \in Nat, a <= Len(s)
  PROVE  /\ s \o t \in TextType /\ Len(s \o t) = Len(s) + Len(t)
         /\ Cut(s \o t, 0, a) = Cut(s, 0, a)
         /\ Cut(s \o t, a, Len(s \o t)) = Cut(s, a, Len(s)) \o t
<1> DEFINE u == s \o t
           n == Len(s)
           m == Len(t)
<1>1. n \in Nat /\ m \in Nat /\ s \in Seq(Char) /\ t \in Seq(Char)
  BY TextLen
<1>2. /\ u \in Seq(Char) /\ Len(u) = n + m
      /\ \A i \in 1 .. n + m : u[i] = IF i <= n THEN s[i] ELSE t[i - n]
  BY <1>1, ConcatProperties
<1>3. u \in TextType
  BY <1>2 DEF TextType
<1> HIDE DEF u
<1> DEFINE x == Cut(u, 0, a)
           y == Cut(s, 0, a)
           z == Cut(u, a, Len(u))
           w == Cut(s, a, n)
<1>4. /\ x \in Seq(Char) /\ Len(x) = a - 0 /\ \A i \in 1 .. a - 0 : x[i] = u[0 + i]
      /\ y \in Seq(Char) /\ Len(y) = a - 0 /\ \A i \in 1 .. a - 0 : y[i] = s[0 + i]
      /\ z \in Seq(Char) /\ Len(z) = (n + m) - a /\ \A i \in 1 .. (n + m) - a : z[i] = u[a + i]
      /\ w \in Seq(Char) /\ Len(w) = n - a /\ \A i \in 1 .. n - a : w[i] = s[a + i]
  <2>1. TextType = Seq(Char) /\ Len(u) = n + m /\ a <= n + m /\ n <= n /\ 0 <= a
    BY <1>1, <1>2 DEF TextType
  <2>2. 0 \in Nat /\ n + m \in Nat
    BY <1>1
  <2>3. x \in TextType /\ Len(x) = a - 0 /\ \A i \in 1 .. a - 0 : x[i] = u[0 + i]
    BY <1>3, <2>1, <2>2, CutFacts
  <2>4. y \in TextType /\ Len(y) = a - 0 /\ \A i \in 1 .. a - 0 : y[i] = s[0 + i]
    BY <2>1, <2>2, CutFacts
  <2>5. z \in TextType /\ Len(z) = (n + m) - a /\ \A i \in 1 .. (n + m) - a : z[i] = u[a + i]
    <3> DEFINE b == Len(u)
    <3>1. b \in Nat /\ a <= b /\ b <= Len(u) /\ b = n + m
      BY <2>1, <2>2
    <3> HIDE DEF b
    <3>2. Cut(u, a, b) \in TextType /\ Len(Cut(u, a, b)) = b - a /\ \A i \in 1 .. b - a : Cut(u, a, b)[i] = u[a + i]
      BY <1>3, <3>1, CutFacts
    <3> HIDE DEF n, m
    <3> QED BY <3>1, <3>2 DEF b
  <2>6. w \in TextType /\ Len(w) = n - a /\ \A i \in 1 .. n - a : w[i] = s[a + i]
    BY <1>1, <2>1, CutFacts
  <2> HIDE DEF x, y, z, w
  <2> QED BY <2>1, <2>3, <2>4, <2>5, <2>6
<1> HIDE DEF x, y, z, w, n, m
<1>5. x = y
  <2>1. \A i \in 1 .. Len(x) : x[i] = y[i]
    BY <1>1, <1>2, <1>4 DEF n
  <2> QED BY <1>4, <2>1, SeqEqual
<1>6. /\ w \o t \in Seq(Char) /\ Len(w \o t) = Len(w) + m
      /\ \A i \in 1 .. Len(w) + m : (w \o t)[i] = IF i <= Len(w) THEN w[i] ELSE t[i - Len(w)]
  <2>1. w \in Seq(Char) /\ t \in Seq(Char) /\ m = Len(t)
    BY <1>1, <1>4 DEF m
  <2> QED BY <2>1, ConcatProperties
<1>7. Len(z) = Len(w \o t)
  BY <1>1, <1>4, <1>6
<1>8. ASSUME NEW i \in 1 .. Len(z) PROVE z[i] = (w \o t)[i]
  <2>1. a <= n /\ i \in 1 .. (n + m) - a
    BY <1>4 DEF n
  <2>2. CASE i <= n - a
    <3>1. i \in 1 .. n - a /\ a + i <= n /\ a + i \in 1 .. n + m /\ i \in 1 .. Len(w) + m
      BY <1>1, <1>4, <2>1, <2>2
    <3> QED BY <1>2, <1>4, <1>6, <2>1, <2>2, <3>1
  <2>3. CASE ~ (i <= n - a)
    <3>1. i - (n - a) = (a + i) - n /\ ~ (a + i <= n) /\ a + i \in 1 .. n + m /\ i \in 1 .. Len(w) + m
      BY <1>1, <1>4, <2>1, <2>3
    <3> QED BY <1>2, <1>4, <1>6, <2>1, <2>3, <3>1
  <2> QED BY <2>2, <2>3
<1>9. z = w \o t
  BY <1>4, <1>6, <1>7, <1>8, SeqEqual
<1> QED BY <1>2, <1>3, <1>5, <1>9 DEF u, n, m, x, y, z, w

LEMMA CutOfCut ==
  ASSUME NEW t \in TextType, NEW a \in Nat, NEW b \in Nat, NEW c \in Nat, a <= b, b <= c, c <= Len(t)
  PROVE  Cut(Cut(t, 0, c), a, b) = Cut(t, a, b)
<1> DEFINE u == Cut(t, 0, c)
           x == Cut(u, a, b)
           y == Cut(t, a, b)
<1>1. Len(t) \in Nat /\ TextType = Seq(Char) /\ 0 <= c /\ 0 \in Nat /\ b <= Len(t)
  BY TextLen DEF TextType
<1>2. u \in TextType /\ Len(u) = c - 0 /\ \A i \in 1 .. c - 0 : u[i] = t[0 + i]
  BY <1>1, CutFacts
<1>3. y \in TextType /\ Len(y) = b - a /\ \A i \in 1 .. b - a : y[i] = t[a + i]
  BY <1>1, CutFacts
<1> HIDE DEF u
<1>4. x \in TextType /\ Len(x) = b - a /\ \A i \in 1 .. b - a : x[i] = u[a + i]
  <2>1. b <= Len(u)
    BY <1>2
  <2> QED BY <1>2, <2>1, CutFacts
<1> HIDE DEF x, y
<1>5. ASSUME NEW i \in 1 .. Len(x) PROVE x[i] = y[i]
  <2>1. i \in 1 .. b - a /\ a + i \in 1 .. c - 0 /\ 0 + (a + i) = a + i
    BY <1>4
  <2> QED BY <1>2, <1>3, <1>4, <2>1
<1>6. x = y
  BY <1>1, <1>3, <1>4, <1>5, SeqEqual
<1> QED BY <1>6 DEF x, y, u

\* Edits that can be applied together: in the text, in order, and clear of each other.
Clear(accepted, source) ==
  /\ accepted \in Seq([from : Nat, to : Nat, text : TextType]) /\ Len(accepted) \in Nat
  /\ \A i \in 1 .. Len(accepted) : accepted[i].from <= accepted[i].to /\ accepted[i].to <= Len(source)
  /\ \A i, k \in 1 .. Len(accepted) : i < k => accepted[i].to <= accepted[k].from

\* Applying them from the right.
Pasted(f, source, accepted, m) ==
  f = [k \in m .. Len(accepted) + 1 |->
         IF k > Len(accepted) THEN source ELSE Replaced(f[k + 1], accepted[k])]

LEMMA PastedDefined ==
  ASSUME NEW source, NEW accepted, Len(accepted) \in Nat
  PROVE  \E f : Pasted(f, source, accepted, 1)
<1> DEFINE n       == Len(accepted)
           Missing == {j \in 0 .. n : ~ \E f : Pasted(f, source, accepted, n + 1 - j)}
<1> HIDE DEF n
<1>0. n \in Nat
  BY DEF n
<1>1. SUFFICES ASSUME Missing # {} PROVE FALSE
  <2>1. n \notin Missing => \E f : Pasted(f, source, accepted, n + 1 - n)
    BY <1>0
  <2>2. n + 1 - n = 1
    BY <1>0
  <2> HIDE DEF Missing
  <2> QED BY <2>1, <2>2
<1>2. PICK j \in Missing : \A k \in Missing : j <= k
  <2>1. Missing \in SUBSET Nat
    BY <1>0
  <2> HIDE DEF Missing
  <2> QED BY <1>1, <2>1, FirstExists
<1>3. j \in 0 .. n /\ ~ \E f : Pasted(f, source, accepted, n + 1 - j)
  BY <1>2
<1> DEFINE m == n + 1 - j
<1>4. CASE j = 0
  <2> DEFINE f == [k \in m .. n + 1 |-> source]
  <2>1. \A k \in m .. n + 1 : k > n
    BY <1>0, <1>4
  <2>2. f = [k \in m .. n + 1 |-> IF k > n THEN source ELSE Replaced(f[k + 1], accepted[k])]
    BY <2>1
  <2>3. Pasted(f, source, accepted, m)
    BY <2>2 DEF Pasted, n
  <2> QED BY <1>3, <2>3
<1>5. CASE j # 0
  <2>1. j - 1 \in 0 .. n /\ j - 1 < j /\ n + 1 - (j - 1) = m + 1
    BY <1>0, <1>3, <1>5
  <2>2. j - 1 \notin Missing
    <3> HIDE DEF Missing
    <3>1. j \in Nat
      BY <1>0, <1>3
    <3> QED BY <1>2, <2>1, <3>1
  <2>3. PICK g : Pasted(g, source, accepted, m + 1)
    BY <2>1, <2>2
  <2>4. m \in Nat /\ m <= n
    BY <1>0, <1>3, <1>5
  <2> HIDE DEF m
  <2> DEFINE f == [k \in m .. n + 1 |-> IF k = m THEN Replaced(g[m + 1], accepted[m]) ELSE g[k]]
  <2>5. ASSUME NEW k \in m .. n + 1
        PROVE  f[k] = IF k > n THEN source ELSE Replaced(f[k + 1], accepted[k])
    <3>1. k <= n => k + 1 \in m .. n + 1 /\ f[k + 1] = g[k + 1]
      <4>1. k <= n => k + 1 \in m .. n + 1 /\ k + 1 # m
        BY <1>0, <2>4
      <4> QED BY <4>1
    <3>2. CASE k = m
      <4>1. k <= n /\ ~ (k > n)
        BY <1>0, <2>4, <3>2
      <4>2. f[k] = Replaced(g[m + 1], accepted[m])
        BY <3>2
      <4> HIDE DEF f
      <4> QED BY <3>1, <3>2, <4>1, <4>2
    <3>3. CASE k # m
      <4>1. k \in m + 1 .. n + 1 /\ f[k] = g[k]
        BY <1>0, <2>4, <3>3
      <4>2. g[k] = IF k > n THEN source ELSE Replaced(g[k + 1], accepted[k])
        BY <2>3, <4>1 DEF Pasted, n
      <4>3. k <= n \/ k > n
        BY <1>0, <2>4
      <4> HIDE DEF f
      <4> QED BY <3>1, <4>1, <4>2, <4>3
    <3> QED BY <3>2, <3>3
  <2>6. Pasted(f, source, accepted, m)
    <3>1. f = [k \in m .. n + 1 |-> f[k]]
      OBVIOUS
    <3> HIDE DEF f
    <3> QED BY <2>5, <3>1 DEF Pasted, n
  <2> QED BY <1>3, <2>6 DEF m
<1> QED BY <1>4, <1>5

LEMMA SplicedIs ==
  ASSUME NEW source, NEW accepted, Len(accepted) \in Nat
  PROVE  \E f : Pasted(f, source, accepted, 1) /\ Spliced(source, accepted) = f[1]
<1> DEFINE f == CHOOSE f : Pasted(f, source, accepted, 1)
<1>1. Spliced(source, accepted) = f[1]
  BY DEF Spliced, Pasted
<1>2. \E g : Pasted(g, source, accepted, 1)
  BY PastedDefined
<1>3. Pasted(f, source, accepted, 1)
  BY <1>2
<1> QED BY <1>1, <1>3

\* Each accepted edit lands on the characters it names: the text is the source with every
\* edit in its place.
LEMMA SplicedInPlace ==
  ASSUME NEW source \in TextType, NEW accepted, Clear(accepted, source)
  PROVE  Spliced(source, accepted) \in TextType /\ Spliced(source, accepted) = InPlace(source, accepted)
<1> DEFINE n == Len(accepted)
           L == Len(source)
           After(k) == IF k = 0 THEN 0 ELSE accepted[k].to
           p == [k \in 1 .. n + 1 |->
                   IF k <= n THEN Cut(source, After(k - 1), accepted[k].from) \o accepted[k].text
                             ELSE Cut(source, After(n), L)]
<1>1. n \in Nat /\ L \in Nat /\ TextType = Seq(Char) /\ source \in Seq(Char)
  BY TextLen DEF Clear, TextType
<1>2. InPlace(source, accepted) = FlattenSeq(p)
  BY DEF InPlace
<1> DEFINE From(k) == accepted[k].from
           To(k)   == accepted[k].to
           Text(k) == accepted[k].text
<1>3. ASSUME NEW k \in 1 .. n
      PROVE  /\ From(k) \in Nat /\ To(k) \in Nat /\ From(k) <= To(k) /\ To(k) <= L /\ From(k) <= L
             /\ Text(k) \in TextType
             /\ After(k - 1) \in Nat /\ After(k - 1) <= From(k) /\ After(k) = To(k)
  <2>1. accepted[k] \in [from : Nat, to : Nat, text : TextType]
    BY ElementOfSeq DEF Clear
  <2>2. From(k) \in Nat /\ To(k) \in Nat /\ From(k) <= To(k) /\ To(k) <= L /\ Text(k) \in TextType
    BY <2>1 DEF Clear
  <2>3. CASE k = 1
    BY <1>1, <2>2, <2>3
  <2>4. CASE k # 1
    <3>1. k - 1 \in 1 .. n /\ k - 1 < k /\ k - 1 # 0
      BY <1>1, <2>4
    <3>2. accepted[k - 1] \in [from : Nat, to : Nat, text : TextType]
      BY <3>1, ElementOfSeq DEF Clear
    <3>3. To(k - 1) \in Nat /\ To(k - 1) <= From(k)
      BY <3>1, <3>2 DEF Clear
    <3> QED BY <1>1, <2>2, <3>1, <3>3
  <2> QED BY <2>3, <2>4
<1>4. After(0) = 0 /\ After(n) \in Nat /\ After(n) <= L
  BY <1>1, <1>3
<1> HIDE DEF From, To, Text, After
<1>5. p = [k \in 1 .. n + 1 |->
                   IF k <= n THEN Cut(source, After(k - 1), From(k)) \o Text(k)
                             ELSE Cut(source, After(n), L)]
  BY DEF From, Text, After
<1>6. Len(p) = n + 1 /\ DOMAIN p = 1 .. n + 1
  BY <1>1
<1> HIDE DEF p
<1>7. ASSUME NEW k \in 1 .. n + 1 PROVE p[k] \in Seq(Char)
  <2>1. CASE k <= n
    <3>1. k \in 1 .. n
      BY <1>1, <2>1
    <3>2. Cut(source, After(k - 1), From(k)) \in Seq(Char) /\ Text(k) \in Seq(Char)
      BY <1>1, <1>3, <3>1, CutFacts
    <3>3. Cut(source, After(k - 1), From(k)) \o Text(k) \in Seq(Char)
      BY <3>2, ConcatProperties
    <3> QED BY <1>5, <2>1, <3>3
  <2>2. CASE ~ (k <= n)
    <3>1. Cut(source, After(n), L) \in Seq(Char)
      BY <1>1, <1>4, CutFacts
    <3> QED BY <1>5, <2>2, <3>1
  <2> QED BY <2>1, <2>2
<1>8. PICK g : Flow(g, p, n + 1) /\ FlattenSeq(p) = g[n + 1]
  BY <1>1, <1>6, FlattenIs
<1>9. \A k \in 1 .. n + 1 : g[k] = IF k = 1 THEN p[k] ELSE g[k - 1] \o p[k]
  BY <1>1, <1>8, FlowSteps
<1>10. PICK f : Pasted(f, source, accepted, 1) /\ Spliced(source, accepted) = f[1]
  BY <1>1, SplicedIs
<1>11. \A k \in 1 .. n + 1 : f[k] = IF k > n THEN source ELSE Replaced(f[k + 1], accepted[k])
  BY <1>10 DEF Pasted
<1> HIDE DEF n, L
<1> DEFINE Head0(k) == IF k = 1 THEN <<>> ELSE g[k - 1]
<1>12. \A k \in 1 .. n + 1 : Head0(k) \in Seq(Char)
  <2> DEFINE Bad == {k \in 1 .. n + 1 : Head0(k) \notin Seq(Char)}
  <2>1. SUFFICES ASSUME Bad # {} PROVE FALSE
    OBVIOUS
  <2>2. PICK k \in Bad : \A j \in Bad : k <= j
    <3>1. Bad \in SUBSET Nat
      BY <1>1
    <3> HIDE DEF Bad
    <3> QED BY <2>1, <3>1, FirstExists
  <2>3. k \in 1 .. n + 1 /\ Head0(k) \notin Seq(Char)
    OBVIOUS
  <2>4. k # 1
    BY <2>3, EmptySeq
  <2>5. k - 1 \in 1 .. n + 1 /\ k - 1 < k
    BY <1>1, <2>3, <2>4
  <2>6. k - 1 \notin Bad
    <3> HIDE DEF Bad
    <3> QED BY <1>1, <2>2, <2>3, <2>5
  <2>7. Head0(k - 1) \in Seq(Char) /\ p[k - 1] \in Seq(Char)
    BY <1>7, <2>5, <2>6
  <2>8. g[k - 1] = IF k - 1 = 1 THEN p[k - 1] ELSE g[(k - 1) - 1] \o p[k - 1]
    BY <1>9, <2>5
  <2>9. g[k - 1] \in Seq(Char)
    <3>1. CASE k - 1 = 1
      BY <2>7, <2>8, <3>1
    <3>2. CASE k - 1 # 1
      <4>1. Head0(k - 1) = g[(k - 1) - 1]
        BY <3>2
      <4> QED BY <2>7, <2>8, <3>2, <4>1, ConcatProperties
    <3> QED BY <3>1, <3>2
  <2> QED BY <2>3, <2>4, <2>9
<1>13. \A k \in 1 .. n + 1 : g[k] = Head0(k) \o p[k]
  <2>1. p[1] = <<>> \o p[1]
    BY <1>1, <1>7, ConcatEmptySeq
  <2> QED BY <1>9, <2>1
<1> HIDE DEF Head0
<1> DEFINE total   == g[n + 1]
           Good(k) == /\ f[k] \in TextType /\ After(k - 1) <= Len(f[k])
                      /\ Cut(f[k], 0, After(k - 1)) = Cut(source, 0, After(k - 1))
                      /\ Head0(k) \o Cut(f[k], After(k - 1), Len(f[k])) = total
<1>14. Good(n + 1)
  <2>1. f[n + 1] = source /\ (n + 1) - 1 = n /\ n + 1 \in 1 .. n + 1
    BY <1>1, <1>11
  <2>2. p[n + 1] = Cut(source, After(n), L)
    BY <1>1, <1>5, <2>1
  <2>3. total = Head0(n + 1) \o Cut(source, After(n), L)
    BY <1>13, <2>1, <2>2
  <2> QED BY <1>4, <2>1, <2>3 DEF L
<1>15. ASSUME NEW k \in 1 .. n, Good(k + 1) PROVE Good(k)
  <2> DEFINE x == f[k + 1]
             a == After(k - 1)
             b == From(k)
             c == To(k)
             t == Text(k)
             A == Cut(source, 0, b)
             C == Cut(x, c, Len(x))
             D == Cut(source, a, b)
  <2>1. /\ a \in Nat /\ b \in Nat /\ c \in Nat /\ a <= b /\ b <= c /\ c <= L /\ b <= L /\ a <= L
        /\ t \in TextType /\ After(k) = c
    BY <1>1, <1>3
  <2>2. k \in 1 .. n + 1 /\ k + 1 \in 1 .. n + 1 /\ (k + 1) - 1 = k /\ k <= n /\ ~ (k > n) /\ k + 1 # 1
    BY <1>1
  <2>3. /\ x \in TextType /\ c <= Len(x) /\ Cut(x, 0, c) = Cut(source, 0, c)
        /\ Head0(k + 1) \o C = total
    BY <1>15, <2>1, <2>2
  <2>4. f[k] = Cut(x, 0, b) \o t \o C
    BY <1>11, <2>2 DEF Replaced, From, To, Text
  <2>5. p[k] = D \o t /\ Head0(k + 1) = g[k] /\ g[k] = Head0(k) \o p[k]
    BY <1>5, <1>13, <2>2 DEF Head0
  <2>6. Head0(k) \in Seq(Char)
    BY <1>12, <2>2
  <2> HIDE DEF x, a, b, c, t
  <2>7. Cut(x, 0, b) = A
    <3>1. Cut(Cut(x, 0, c), 0, b) = Cut(x, 0, b)
      BY <2>1, <2>3, CutOfCut
    <3>2. Cut(Cut(source, 0, c), 0, b) = Cut(source, 0, b)
      BY <2>1, CutOfCut DEF L
    <3> QED BY <2>3, <3>1, <3>2
  <2>8. A \in TextType /\ Len(A) = b /\ C \in TextType /\ D \in TextType
    <3>1. A \in TextType /\ Len(A) = b - 0
      <4>1. 0 \in Nat /\ 0 <= b /\ b <= Len(source)
        BY <2>1 DEF L
      <4> QED BY <2>1, <4>1, CutFacts
    <3>2. D \in TextType
      BY <2>1, CutFacts DEF L
    <3>3. Len(x) \in Nat
      BY <2>3, TextLen
    <3>4. C \in TextType
      BY <2>1, <2>3, <3>3, CutFacts
    <3> QED BY <2>1, <3>1, <3>2, <3>4
  <2>9. Cut(A, 0, a) = Cut(source, 0, a) /\ Cut(A, a, b) = D
    BY <2>1, CutOfCut DEF L
  <2> HIDE DEF A, C, D
  <2> DEFINE R == t \o C
  <2>10. R \in TextType /\ f[k] = A \o R
    <3>1. t \in Seq(Char) /\ C \in Seq(Char) /\ A \in Seq(Char)
      BY <1>1, <2>1, <2>8
    <3>2. R \in Seq(Char)
      BY <3>1, ConcatProperties
    <3>3. (A \o t) \o C = A \o (t \o C)
      BY <3>1, ConcatAssociative
    <3> QED BY <1>1, <2>4, <2>7, <3>2, <3>3
  <2>11. /\ f[k] \in TextType /\ Len(f[k]) = b + Len(R)
         /\ Cut(f[k], 0, a) = Cut(source, 0, a)
         /\ Cut(f[k], a, Len(f[k])) = D \o R
    <3> HIDE DEF R
    <3>1. a <= Len(A)
      BY <2>1, <2>8
    <3>2. /\ A \o R \in TextType /\ Len(A \o R) = Len(A) + Len(R)
          /\ Cut(A \o R, 0, a) = Cut(A, 0, a)
          /\ Cut(A \o R, a, Len(A \o R)) = Cut(A, a, Len(A)) \o R
      BY <2>1, <2>8, <2>10, <3>1, CutOfConcat
    <3> QED BY <2>8, <2>9, <2>10, <3>2
  <2>12. a <= Len(f[k])
    <3>1. Len(R) \in Nat
      BY <2>10, TextLen
    <3> QED BY <2>1, <2>11, <3>1
  <2>13. Head0(k) \o (D \o R) = total
    <3>1. D \in Seq(Char) /\ t \in Seq(Char) /\ C \in Seq(Char) /\ D \o t \in Seq(Char)
      BY <1>1, <2>1, <2>8, ConcatProperties
    <3>2. D \o (t \o C) = (D \o t) \o C
      BY <3>1, ConcatAssociative
    <3> DEFINE P == D \o t
               h == Head0(k)
    <3>3. P \in Seq(Char) /\ h \in Seq(Char)
      BY <2>6, <3>1
    <3> HIDE DEF P, h
    <3>4. h \o (P \o C) = (h \o P) \o C
      BY SMTT(30), <3>1, <3>3, ConcatAssociative
    <3> QED BY <2>3, <2>5, <3>2, <3>4 DEF P, h
  <2> QED BY <2>11, <2>12, <2>13 DEF a
<1> HIDE DEF Good
<1>16. Good(1)
  <2> DEFINE Bad == {k \in 1 .. n + 1 : ~ Good(k)}
  <2>1. SUFFICES ASSUME Bad # {} PROVE FALSE
    BY <1>1
  <2>2. PICK k \in Bad : \A j \in Bad : j <= k
    <3>1. Bad \in SUBSET Nat /\ n + 1 \in Nat /\ \A j \in Bad : j <= n + 1
      BY <1>1
    <3> HIDE DEF Bad
    <3> QED BY <2>1, <3>1, MaxOf
  <2>3. k \in 1 .. n + 1 /\ ~ Good(k)
    OBVIOUS
  <2>4. k # n + 1
    BY <1>14, <2>3
  <2>5. k \in 1 .. n /\ k + 1 \in 1 .. n + 1 /\ k + 1 > k /\ ~ (k + 1 <= k)
    BY <1>1, <2>3, <2>4
  <2>6. k + 1 \notin Bad
    <3> HIDE DEF Bad
    <3> QED BY <2>2, <2>5
  <2> QED BY <1>15, <2>3, <2>5, <2>6
<1>17. f[1] \in TextType /\ Head0(1) \o Cut(f[1], 0, Len(f[1])) = total
  BY <1>4, <1>16 DEF Good
<1>18. f[1] = total
  <2>1. Cut(f[1], 0, Len(f[1])) = f[1]
    BY <1>17, CutFull
  <2>2. <<>> \o f[1] = f[1]
    BY <1>1, <1>17, ConcatEmptySeq
  <2> QED BY <1>17, <2>1, <2>2 DEF Head0
<1> QED BY <1>2, <1>8, <1>10, <1>17, <1>18

----
\* The text span edits give a line is the source with each accepted edit in its place.
LEMMA SpansGive ==
  ASSUME NEW ops, IsSpans(ops), NEW source \in TextType, NEW role, NEW t \in Spans(ops, source, role, guard).text
  PROVE  /\ Clear(Accepted(ops, source), source)
         /\ t = Spliced(source, Accepted(ops, source)) /\ t \in TextType
         /\ t = InPlace(source, Accepted(ops, source))
         /\ LineRefusal(Accepted(ops, source), t, source, role, guard) = {}
         /\ Accepted(ops, source) # <<>>
<1> DEFINE accepted == Accepted(ops, source)
           result   == Spliced(source, accepted)
<1>1. Clear(accepted, source)
  BY AcceptedFacts DEF Clear
<1>2. result \in TextType /\ result = InPlace(source, accepted)
  <2> HIDE DEF accepted
  <2> QED BY <1>1, SplicedInPlace
<1>3. t \in IF accepted = <<>> \/ LineRefusal(accepted, result, source, role, guard) # {} THEN {} ELSE {result}
  BY SpansAre
<1> HIDE DEF accepted, result
<1>4. t = result /\ accepted # <<>> /\ LineRefusal(accepted, result, source, role, guard) = {}
  BY <1>3
<1> QED BY <1>1, <1>2, <1>4 DEF accepted, result

LEMMA ProducedTyped ==
  ASSUME doc \in Documents, page \in DOMAIN doc, script \in Seq(EditType), proposed = ScriptToRaw(script),
         NEW l \in doc[page].targets
  PROVE  Produced(l) \in TextType
<1> DEFINE on    == OpsOn(SpanEdits(script), l)
           whole == WholeEdits(script)
           mine  == OpsOn(whole, l)
<1>1. Source(<<page, l>>) = doc[page].text[l] /\ Source(<<page, l>>) \in TextType
  BY PageFacts DEF Source
<1>2. ASSUME l \in DOMAIN proposed.spans PROVE proposed.spans[l] \in TextType
  <2>1. proposed.spans[l] \in Spans(on, Source(<<page, l>>), doc[page].role[l], guard).text
    BY <1>2, ProposedSpans
  <2>2. IsSpans(on)
    BY KindOnLine
  <2> HIDE DEF on
  <2> QED BY <1>1, <2>1, <2>2, SpansGive
<1>3. proposed.whole = whole
  BY DEF ScriptToRaw, Proposal
<1>4. whole \in Seq(EditType)
  BY KindFacts
<1> HIDE DEF whole
<1>5. mine \in Seq(EditType)
  BY <1>4, OpsOnFacts
<1>6. ASSUME mine # <<>> PROVE Checked(Last(mine).text) \in TextType
  <2> HIDE DEF mine
  <2>1. Len(mine) \in 1 .. Len(mine)
    BY <1>5, <1>6, EmptySeq
  <2>2. Last(mine) \in EditType
    BY <1>5, <2>1, ElementOfSeq DEF Last
  <2>3. Last(mine).text \in TextType
    BY <2>2, EditFacts
  <2>4. <<>> \in TextType
    BY DEF TextType
  <2> QED BY <2>3, <2>4 DEF Checked
<1> QED BY <1>1, <1>2, <1>3, <1>6 DEF Produced

Gives(r, text) ==
  /\ Published(r) # <<>> /\ text \subseteq {decided[r].text}
  /\ (\E i \in DOMAIN Published(r) : Published(r)[i].op = "span") => text = {decided[r].text}

LEMMA PublishedOnly ==
  ASSUME doc \in Documents, NEW p \in DOMAIN doc, NEW l \in LinesOf(p),
         <<p, l>> \in DOMAIN captured, Faithful(<<p, l>>, captured[<<p, l>>]),
         decided[<<p, l>>].text \in TextType, NEW role \in {doc[p].role[l], "none"}
  PROVE  Gives(<<p, l>>, LineVerdict(Published(<<p, l>>), Source(<<p, l>>), role, guard).text)
BY ZenonT(30), PublishedGives DEF Gives

----
\* What Publish makes of the record.
Carried0 == {r \in DOMAIN captured : decided[r].corrected}
Lines0   == SetToSeq(Carried0)
PublishedScript ==
  [ops      |-> FlattenSeq([i \in DOMAIN Lines0 |-> Published(Lines0[i])]),
   expected |-> {[line |-> r[2], page |-> r[1], text |-> Source(r)] : r \in Carried0}]

\* The record of the run.
Recorded ==
  /\ doc \in Documents
  /\ DOMAIN captured \subseteq DOMAIN decided /\ DOMAIN decided \subseteq Refs
  /\ IsFiniteSet(DOMAIN captured)
  /\ \A r \in DOMAIN decided : decided[r].text \in TextType
  /\ \A r \in DOMAIN captured : Faithful(r, captured[r])

LEMMA RefIs ==
  ASSUME NEW r \in Refs
  PROVE  r[1] \in DOMAIN doc /\ r[2] \in LinesOf(r[1]) /\ r = <<r[1], r[2]>>
BY DEF Refs, Pages

\* The edits the script has for a line: what was published on it.
LEMMA ScriptOnLine ==
  ASSUME Recorded, NEW p \in DOMAIN doc, NEW l \in LinesOf(p)
  PROVE  LET sc == InScope(PublishedScript, p)
             r  == <<p, l>>
         IN  /\ sc.ops \in Seq(EditType)
             /\ OpsOn(sc.ops, l) = IF r \in Carried0 THEN Published(r) ELSE <<>>
             /\ \A i \in DOMAIN PublishedScript.ops :
                  LET o == PublishedScript.ops[i]
                  IN  o.line = l /\ o.page = p => \E k \in DOMAIN OpsOn(sc.ops, l) : OpsOn(sc.ops, l)[k] = o
<1> DEFINE sc   == InScope(PublishedScript, p)
           r    == <<p, l>>
           seqs == [i \in DOMAIN Lines0 |-> Published(Lines0[i])]
           n    == Len(Lines0)
           ops  == FlattenSeq(seqs)
           T    == {o \in EditType : o.page \in {0, p}}
           E    == {o \in EditType : o.page \in {0, p} /\ o.line = l}
<1>1. /\ n \in Nat /\ DOMAIN Lines0 = 1 .. n
      /\ \A k \in 1 .. n : Lines0[k] \in Carried0
      /\ \A j, k \in 1 .. n : Lines0[j] = Lines0[k] => j = k
      /\ \A x \in Carried0 : \E k \in 1 .. n : Lines0[k] = x
  <2>1. IsFiniteSet(Carried0)
    <3>1. Carried0 \in SUBSET DOMAIN captured
      BY DEF Carried0
    <3> QED BY <3>1, FS_Subset DEF Recorded
  <2> QED BY <2>1, SetToSeqIs DEF Lines0
<1>2. ASSUME NEW x \in Carried0
      PROVE  /\ x[1] \in DOMAIN doc /\ x[1] # 0 /\ x[2] \in LinesOf(x[1]) /\ x = <<x[1], x[2]>>
             /\ Published(x) \in Seq(EditType) /\ Published(x) # <<>>
             /\ \A i \in DOMAIN Published(x) : Published(x)[i].line = x[2] /\ Published(x)[i].page = x[1]
  <2>1. x \in DOMAIN captured /\ x \in DOMAIN decided /\ x \in Refs /\ doc \in Documents
    BY DEF Carried0, Recorded
  <2>2. x[1] \in DOMAIN doc /\ x[2] \in LinesOf(x[1]) /\ x = <<x[1], x[2]>>
    BY <2>1, RefIs
  <2>3. x[1] # 0
    BY <2>1, <2>2, PageFacts
  <2> DEFINE q == x[1]
             m == x[2]
             role == doc[q].role[m]
  <2>4. <<q, m>> \in DOMAIN captured /\ Faithful(<<q, m>>, captured[<<q, m>>]) /\ decided[<<q, m>>].text \in TextType
    BY <2>1, <2>2 DEF Recorded
  <2>5. q \in DOMAIN doc /\ m \in LinesOf(q) /\ role \in {doc[q].role[m], "none"}
    BY <2>2
  <2>6. <<q, m>> = x
    BY <2>2
  <2> HIDE DEF q, m, role
  <2>7. /\ Published(<<q, m>>) \in Seq(EditType) /\ Published(<<q, m>>) # <<>>
        /\ \A i \in DOMAIN Published(<<q, m>>) :
             Published(<<q, m>>)[i].line = m /\ Published(<<q, m>>)[i].page = q
    BY <2>1, <2>4, <2>5, PublishedGives
  <2> QED BY <2>2, <2>3, <2>6, <2>7 DEF q, m
<1>3. /\ Len(seqs) = n /\ DOMAIN seqs = 1 .. n
      /\ \A k \in 1 .. n : seqs[k] = Published(Lines0[k]) /\ seqs[k] \in Seq(EditType)
      /\ seqs = <<>> \/ n # 0
  <2>1. \A k \in 1 .. n : seqs[k] = Published(Lines0[k]) /\ seqs[k] \in Seq(EditType)
    BY <1>1, <1>2
  <2>2. DOMAIN seqs = 1 .. n
    BY <1>1
  <2>3. seqs = [k \in 1 .. n |-> seqs[k]]
    BY <2>2
  <2> HIDE DEF seqs, n
  <2>4. seqs \in [1 .. n -> Seq(EditType)]
    BY <2>1, <2>3
  <2>5. seqs \in Seq(Seq(EditType)) /\ Len(seqs) = n
    BY <1>1, <2>4, FunIsSeq
  <2> QED BY <2>1, <2>2, <2>5, EmptySeq
<1>4. \A k \in 1 .. n : \A i \in DOMAIN seqs[k] :
        /\ seqs[k][i].line = Lines0[k][2] /\ seqs[k][i].page = Lines0[k][1] /\ seqs[k][i] \in EditType
        /\ seqs[k][i] \in E <=> Lines0[k] = r
  <2> SUFFICES ASSUME NEW k \in 1 .. n, NEW i \in DOMAIN seqs[k]
               PROVE  /\ seqs[k][i].line = Lines0[k][2] /\ seqs[k][i].page = Lines0[k][1] /\ seqs[k][i] \in EditType
                      /\ seqs[k][i] \in E <=> Lines0[k] = r
    OBVIOUS
  <2> DEFINE x == Lines0[k]
             o == seqs[k][i]
  <2>1. x \in Carried0 /\ seqs[k] = Published(x)
    BY <1>1, <1>3
  <2>2. x[1] # 0 /\ x = <<x[1], x[2]>>
    BY <1>2, <2>1
  <2>3. o.line = x[2] /\ o.page = x[1]
    BY <1>2, <2>1
  <2>4. o \in EditType
    <3> HIDE DEF seqs
    <3> QED BY <1>3, LenProperties, ElementOfSeq
  <2> HIDE DEF x, o, seqs
  <2>5. o \in E <=> x = r
    BY <2>2, <2>3, <2>4
  <2> QED BY <2>3, <2>4, <2>5 DEF x, o
<1> HIDE DEF seqs, n
<1>5. /\ ops \in Seq(EditType)
      /\ Sifted(ops, E) = IF r \in Carried0 THEN Published(r) ELSE <<>>
  <2>1. CASE r \in Carried0
    <3>1. PICK q \in 1 .. n : Lines0[q] = r
      BY <1>1, <2>1
    <3>2. q \in 0 .. n /\ q # 0
      BY <1>1, <3>1
    <3>3. \A i \in DOMAIN seqs[q] : seqs[q][i] \in E
      BY <1>4, <3>1
    <3>4. \A k \in 1 .. n : k # q => \A i \in DOMAIN seqs[k] : seqs[k][i] \notin E
      BY <1>1, <1>4, <3>1
    <3> HIDE DEF E, ops, r
    <3>5. FlattenSeq(seqs) \in Seq(EditType) /\ Sifted(FlattenSeq(seqs), E) = seqs[q]
      <4>1. /\ Len(seqs) \in Nat /\ DOMAIN seqs = 1 .. Len(seqs) /\ q \in 0 .. Len(seqs)
            /\ \A k \in 1 .. Len(seqs) : seqs[k] \in Seq(EditType)
            /\ seqs = <<>> \/ Len(seqs) # 0
        BY <1>1, <1>3, <3>2
      <4>2. \A k \in 1 .. Len(seqs) : k # q => \A i \in DOMAIN seqs[k] : seqs[k][i] \notin E
        BY <1>3, <3>4
      <4> HIDE DEF seqs
      <4> QED BY <3>2, <3>3, <4>1, <4>2, FlattenSifts
    <3> QED BY <1>3, <2>1, <3>1, <3>5 DEF ops
  <2>2. CASE r \notin Carried0
    <3>1. \A k \in 1 .. n : \A i \in DOMAIN seqs[k] : seqs[k][i] \notin E
      BY <1>1, <1>4, <2>2
    <3> DEFINE q == 0
    <3>2. q \in 0 .. n /\ q = 0
      BY <1>1
    <3> HIDE DEF E, ops, r, q
    <3>3. FlattenSeq(seqs) \in Seq(EditType) /\ Sifted(FlattenSeq(seqs), E) = <<>>
      <4>1. /\ Len(seqs) \in Nat /\ DOMAIN seqs = 1 .. Len(seqs) /\ q \in 0 .. Len(seqs)
            /\ \A k \in 1 .. Len(seqs) : seqs[k] \in Seq(EditType)
            /\ seqs = <<>> \/ Len(seqs) # 0
        BY <1>1, <1>3, <3>2
      <4>2. \A k \in 1 .. Len(seqs) : k # q => \A i \in DOMAIN seqs[k] : seqs[k][i] \notin E
        BY <1>3, <3>1
      <4> HIDE DEF seqs
      <4> QED BY <3>2, <4>1, <4>2, FlattenSifts
    <3> QED BY <2>2, <3>3 DEF ops
  <2> QED BY <2>1, <2>2
<1>6. PublishedScript.ops = ops
  BY DEF PublishedScript, ops, seqs
<1> HIDE DEF ops
<1>7. \A i \in DOMAIN ops : ops[i] \in EditType
  BY <1>5, LenProperties, ElementOfSeq
<1>8. sc.ops = Sifted(ops, T) /\ sc.ops \in Seq(EditType)
  <2>1. p # 0
    BY PageFacts DEF Recorded
  <2> DEFINE V == {o \in Range(ops) : p = 0 \/ o.page \in {0, p}}
  <2>2. \A i \in DOMAIN ops : ops[i] \in V <=> ops[i] \in T
    BY <1>7, <2>1 DEF Range
  <2>3. sc.ops = Sifted(ops, V)
    BY <1>6 DEF InScope
  <2> HIDE DEF V, T, sc
  <2> QED BY <1>5, <2>2, <2>3, SiftedSame, SiftedFacts
<1>9. OpsOn(sc.ops, l) = Sifted(ops, E)
  <2> DEFINE s == sc.ops
             L == {o \in EditType : o.line = l}
             V == {o \in Range(s) : o.line = l}
  <2>1. s \in Seq(EditType) /\ s = Sifted(ops, T)
    BY <1>8
  <2> HIDE DEF s
  <2>2. \A i \in DOMAIN s : s[i] \in EditType
    BY <2>1, LenProperties, ElementOfSeq
  <2>3. \A i \in DOMAIN s : s[i] \in V <=> s[i] \in L
    BY <2>2 DEF Range
  <2>4. OpsOn(s, l) = Sifted(s, V)
    BY DEF OpsOn
  <2>5. T \cap L = E
    OBVIOUS
  <2> HIDE DEF T, L, E, V
  <2>6. Sifted(s, V) = Sifted(s, L)
    BY <2>3, SiftedSame
  <2>7. Sifted(Sifted(ops, T), L) = Sifted(ops, T \cap L)
    BY <1>5, SiftedTwice
  <2> QED BY <2>1, <2>4, <2>5, <2>6, <2>7 DEF s
<1>10. ASSUME NEW i \in DOMAIN ops, ops[i].line = l, ops[i].page = p
       PROVE  \E k \in DOMAIN OpsOn(sc.ops, l) : OpsOn(sc.ops, l)[k] = ops[i]
  <2>1. ops[i] \in E
    BY <1>7, <1>10
  <2> HIDE DEF E, sc
  <2>2. \E k \in DOMAIN Sifted(ops, E) : Sifted(ops, E)[k] = ops[i]
    BY <1>5, <2>1, SiftedHolds
  <2> QED BY <1>9, <2>2
<1> HIDE DEF sc, r
<1> QED BY <1>5, <1>6, <1>8, <1>9, <1>10 DEF sc, r

\* What a replay makes of a line.
LEMMA ReplayGives ==
  ASSUME Recorded, NEW p \in DOMAIN doc, NEW l \in LinesOf(p),
         NEW canonical, DOMAIN canonical = LinesOf(p),
         NEW roles, roles[l] \in {doc[p].role[l], "none"}
  PROVE  LET r      == <<p, l>>
             result == Applied(PublishedScript, canonical, LinesOf(p), roles, guard, p).text
         IN  /\ l \in DOMAIN result => /\ r \in Carried0 /\ canonical[l] = Source(r)
                                       /\ result[l] = decided[r].text
             /\ canonical[l] = Source(r)
                  /\ (\E i \in DOMAIN PublishedScript.ops :
                         LET o == PublishedScript.ops[i] IN o.line = l /\ o.page = p /\ o.op = "span")
                => l \in DOMAIN result
<1> DEFINE r      == <<p, l>>
           sc     == InScope(PublishedScript, p)
           result == Applied(PublishedScript, canonical, LinesOf(p), roles, guard, p).text
           on     == OpsOn(sc.ops, l)
           judged == LineVerdict(on, canonical[l], roles[l], guard)
           open   == Open(sc, canonical, LinesOf(p))
<1>1. /\ sc.ops \in Seq(EditType)
      /\ on = IF r \in Carried0 THEN Published(r) ELSE <<>>
      /\ \A i \in DOMAIN PublishedScript.ops :
           LET o == PublishedScript.ops[i]
           IN  o.line = l /\ o.page = p => \E k \in DOMAIN on : on[k] = o
  BY ScriptOnLine
<1>2. l \in {sc.ops[i].line : i \in DOMAIN sc.ops} <=> on # <<>>
  <2> HIDE DEF sc
  <2> QED BY <1>1, OpsOnFacts
<1>3. sc.expected = {pc \in {[line |-> x[2], page |-> x[1], text |-> Source(x)] : x \in Carried0} :
                       p = 0 \/ pc.page \in {0, p}}
  BY DEF InScope, PublishedScript
<1>4. \A x \in Carried0 : x[1] # 0 /\ x = <<x[1], x[2]>>
  <2>1. \A x \in Carried0 : x \in Refs
    BY DEF Carried0, Recorded
  <2> QED BY <2>1, RefIs, PageFacts DEF Recorded
<1>5. p # 0 /\ Source(r) = doc[p].text[l]
  BY PageFacts DEF Recorded, Source
<1>6. r \in Carried0 => ((\A pc \in sc.expected : pc.line = l => pc.text = canonical[l]) <=> canonical[l] = Source(r))
  <2> HIDE DEF sc
  <2>1. ASSUME r \in Carried0, \A pc \in sc.expected : pc.line = l => pc.text = canonical[l]
        PROVE  canonical[l] = Source(r)
    <3> DEFINE pc == [line |-> r[2], page |-> r[1], text |-> Source(r)]
    <3>1. pc \in sc.expected
      BY <1>3, <2>1
    <3>2. pc.line = l /\ pc.text = Source(r)
      OBVIOUS
    <3> HIDE DEF pc
    <3> QED BY <2>1, <3>1, <3>2
  <2>2. ASSUME NEW pc \in sc.expected, pc.line = l PROVE pc.text = Source(r)
    <3>1. PICK x \in Carried0 : pc = [line |-> x[2], page |-> x[1], text |-> Source(x)]
      BY <1>3
    <3>2. x[2] = l /\ x[1] = p
      BY <1>3, <1>4, <1>5, <2>2, <3>1
    <3>3. x = r
      BY <1>4, <3>2
    <3> QED BY <3>1, <3>3
  <2> QED BY <2>1, <2>2
<1>7. l \in open <=> on # <<>> /\ (\A pc \in sc.expected : pc.line = l => pc.text = canonical[l])
  <2> HIDE DEF sc, on
  <2> QED BY <1>2 DEF Open
<1>8. /\ l \in DOMAIN result <=> l \in open /\ judged.text # {}
      /\ l \in DOMAIN result => result[l] \in judged.text
  <2> DEFINE J(k) == LineVerdict(OpsOn(sc.ops, k), canonical[k], roles[k], guard)
  <2>1. result = AppliedScript(sc, canonical, LinesOf(p), roles, guard).text
    BY DEF Applied
  <2>2. judged = J(l)
    OBVIOUS
  <2>3. /\ DOMAIN result = {k \in open : J(k).text # {}}
        /\ \A k \in DOMAIN result : result[k] \in J(k).text
    <3> HIDE DEF sc, result
    <3> QED BY <2>1, AppliedScriptIs
  <2> HIDE DEF J, judged, open, result
  <2> QED BY <2>2, <2>3
<1>9. ASSUME r \in Carried0, canonical[l] = Source(r)
      PROVE  /\ judged.text \subseteq {decided[r].text} /\ on # <<>>
             /\ (\E i \in DOMAIN on : on[i].op = "span") => judged.text = {decided[r].text}
  <2>1. r \in DOMAIN captured /\ Faithful(r, captured[r]) /\ decided[r].text \in TextType /\ doc \in Documents
    BY <1>9 DEF Carried0, Recorded
  <2>2. on = Published(r)
    BY <1>1, <1>9
  <2> DEFINE role == roles[l]
             text == LineVerdict(Published(r), Source(r), role, guard).text
  <2>3. judged.text = text
    BY <1>9, <2>2
  <2> HIDE DEF role
  <2>4. role \in {doc[p].role[l], "none"}
    BY DEF role
  <2>5. /\ Published(r) # <<>> /\ text \subseteq {decided[r].text}
        /\ (\E i \in DOMAIN Published(r) : Published(r)[i].op = "span") => text = {decided[r].text}
    <3>1. /\ <<p, l>> \in DOMAIN captured /\ Faithful(<<p, l>>, captured[<<p, l>>])
          /\ decided[<<p, l>>].text \in TextType /\ doc \in Documents
      BY <2>1
    <3>2. Gives(r, text)
      BY <2>4, <3>1, PublishedOnly
    <3> HIDE DEF text
    <3> QED BY <3>2 DEF Gives
  <2> HIDE DEF judged, on, text
  <2> QED BY <2>2, <2>3, <2>5
<1> HIDE DEF r, sc, result, on, judged, open
<1>10. ASSUME l \in DOMAIN result
       PROVE  r \in Carried0 /\ canonical[l] = Source(r) /\ result[l] = decided[r].text
  BY <1>1, <1>6, <1>7, <1>8, <1>9, <1>10
<1>11. ASSUME canonical[l] = Source(r), NEW i \in DOMAIN PublishedScript.ops,
              PublishedScript.ops[i].line = l, PublishedScript.ops[i].page = p, PublishedScript.ops[i].op = "span"
       PROVE  l \in DOMAIN result
  <2>1. PICK k \in DOMAIN on : on[k] = PublishedScript.ops[i]
    BY <1>1, <1>11
  <2>2. r \in Carried0
    <3>1. DOMAIN <<>> = {}
      OBVIOUS
    <3> QED BY <1>1, <2>1, <3>1
  <2>3. judged.text = {decided[r].text} /\ on # <<>>
    BY <1>9, <1>11, <2>1, <2>2
  <2> QED BY <1>6, <1>7, <1>8, <1>11, <2>2, <2>3
<1> QED BY <1>10, <1>11 DEF r, result

----
\* The matching blocks of two texts, as Blocks finds them.
Range4(a, b) == (0 .. Len(a)) \X (0 .. Len(a)) \X (0 .. Len(b)) \X (0 .. Len(b))
Shared(a, b, q) ==
  {x \in (1 .. q[2] - q[1]) \X (q[1] .. q[2]) \X (q[3] .. q[4]) :
     /\ x[2] + x[1] <= q[2] /\ x[3] + x[1] <= q[4]
     /\ Cut(a, x[2], x[2] + x[1]) = Cut(b, x[3], x[3] + x[1])}
Better(x, y) == \/ x[1] > y[1]
                \/ x[1] = y[1] /\ x[2] < y[2]
                \/ x[1] = y[1] /\ x[2] = y[2] /\ x[3] <= y[3]
Best(c) == CHOOSE x \in c : \A y \in c : Better(x, y)
FoundIn(f, a, b, q) ==
  LET x == Best(Shared(a, b, q))
  IN  IF Shared(a, b, q) = {} THEN <<>>
      ELSE f[<<q[1], x[2], q[3], x[3]>>] \o <<x>> \o f[<<x[2] + x[1], q[2], x[3] + x[1], q[4]>>]
Blocked(f, a, b, D) == f = [q \in D |-> FoundIn(f, a, b, q)]

LEMMA BestExists ==
  ASSUME NEW top \in Nat, NEW c \in SUBSET ((1 .. top) \X Nat \X Nat), c # {}
  PROVE  Best(c) \in c
<1> DEFINE S1 == {x[1] : x \in c}
<1>1. PICK m \in S1 : \A k \in S1 : k <= m
  <2>1. S1 \in SUBSET Nat /\ S1 # {} /\ \A k \in S1 : k <= top
    OBVIOUS
  <2> HIDE DEF S1
  <2> QED BY <2>1, MaxOf
<1> DEFINE S2 == {x[2] : x \in {y \in c : y[1] = m}}
<1>2. PICK i \in S2 : \A k \in S2 : i <= k
  <2>1. S2 \in SUBSET Nat /\ S2 # {}
    OBVIOUS
  <2> HIDE DEF S2
  <2> QED BY <2>1, FirstExists
<1> DEFINE S3 == {x[3] : x \in {y \in c : y[1] = m /\ y[2] = i}}
<1>3. PICK j \in S3 : \A k \in S3 : j <= k
  <2>1. S3 \in SUBSET Nat /\ S3 # {}
    OBVIOUS
  <2> HIDE DEF S3
  <2> QED BY <2>1, FirstExists
<1>4. PICK x \in c : x[1] = m /\ x[2] = i /\ x[3] = j
  OBVIOUS
<1>5. ASSUME NEW y \in c PROVE Better(x, y)
  <2>1. y[1] \in Nat /\ y[2] \in Nat /\ y[3] \in Nat /\ x[1] \in Nat /\ x[2] \in Nat /\ x[3] \in Nat
    OBVIOUS
  <2>2. y[1] <= m
    BY <1>1
  <2>3. y[1] = m => i <= y[2]
    BY <1>2
  <2>4. y[1] = m /\ y[2] = i => j <= y[3]
    BY <1>3
  <2> QED BY <1>4, <2>1, <2>2, <2>3, <2>4 DEF Better
<1> QED BY <1>4, <1>5 DEF Best

\* The best block lies in its range, and what is before and after it is shorter.
LEMMA BestInside ==
  ASSUME NEW a, NEW b, Len(a) \in Nat, Len(b) \in Nat, NEW q \in Range4(a, b), Shared(a, b, q) # {}
  PROVE  LET x == Best(Shared(a, b, q))
             l == <<q[1], x[2], q[3], x[3]>>
             r == <<x[2] + x[1], q[2], x[3] + x[1], q[4]>>
         IN  /\ x \in Nat \X Nat \X Nat
             /\ l \in Range4(a, b) /\ l[2] - l[1] < q[2] - q[1]
             /\ r \in Range4(a, b) /\ r[2] - r[1] < q[2] - q[1]
<1> DEFINE c   == Shared(a, b, q)
           x   == Best(c)
           top == q[2] - q[1]
<1>1. q[1] \in 0 .. Len(a) /\ q[2] \in 0 .. Len(a) /\ q[3] \in 0 .. Len(b) /\ q[4] \in 0 .. Len(b)
  BY DEF Range4
<1>2. ASSUME NEW y \in c
      PROVE  /\ y \in (1 .. top) \X Nat \X Nat /\ y[1] \in Nat /\ y[1] > 0
             /\ y[2] \in q[1] .. q[2] /\ y[3] \in q[3] .. q[4]
             /\ y[2] + y[1] <= q[2] /\ y[3] + y[1] <= q[4]
  <2>1. /\ y \in (1 .. top) \X (q[1] .. q[2]) \X (q[3] .. q[4])
        /\ y[2] + y[1] <= q[2] /\ y[3] + y[1] <= q[4]
    BY DEF Shared
  <2>2. /\ y = <<y[1], y[2], y[3]>> /\ y[1] \in 1 .. top
        /\ y[2] \in q[1] .. q[2] /\ y[3] \in q[3] .. q[4]
    BY <2>1
  <2>3. y[1] \in Nat /\ y[1] > 0 /\ y[2] \in Nat /\ y[3] \in Nat
    BY <1>1, <2>2
  <2> HIDE DEF c, top
  <2> QED BY <2>1, <2>2, <2>3
<1>3. top \in Nat
  <2>1. PICK y \in c : TRUE
    OBVIOUS
  <2>2. y \in (1 .. top) \X Nat \X Nat
    BY <1>2, <2>1
  <2>3. y[1] \in 1 .. top /\ top \in Int
    BY <1>1, <2>2
  <2> HIDE DEF top
  <2> QED BY <2>3
<1>4. x \in c
  <2>1. c \in SUBSET ((1 .. top) \X Nat \X Nat)
    BY <1>2
  <2> HIDE DEF c, top
  <2> QED BY <1>3, <2>1, BestExists DEF c
<1> HIDE DEF x, c
<1>5. /\ x \in Nat \X Nat \X Nat /\ x[1] \in Nat /\ x[1] > 0
      /\ x[2] \in q[1] .. q[2] /\ x[3] \in q[3] .. q[4]
      /\ x[2] + x[1] <= q[2] /\ x[3] + x[1] <= q[4]
  BY <1>2, <1>4
<1> DEFINE l == <<q[1], x[2], q[3], x[3]>>
           r == <<x[2] + x[1], q[2], x[3] + x[1], q[4]>>
<1>6. l \in Range4(a, b) /\ l[2] - l[1] < q[2] - q[1]
  BY <1>1, <1>5 DEF Range4
<1>7. r \in Range4(a, b) /\ r[2] - r[1] < q[2] - q[1]
  BY <1>1, <1>5 DEF Range4
<1> QED BY <1>5, <1>6, <1>7 DEF x, c

\* The recursion of Blocks is defined: on longer and longer ranges.
LEMMA BlockedDefined ==
  ASSUME NEW a, NEW b, Len(a) \in Nat, Len(b) \in Nat
  PROVE  \E f : Blocked(f, a, b, Range4(a, b))
<1> DEFINE A       == Len(a)
           D(k)    == {q \in Range4(a, b) : q[2] - q[1] <= k}
           Missing == {k \in Nat : ~ \E f : Blocked(f, a, b, D(k))}
<1>1. \A q \in Range4(a, b) : q[1] \in 0 .. A /\ q[2] \in 0 .. A /\ q[2] - q[1] \in Int /\ q[2] - q[1] <= A
  BY DEF Range4
<1>2. D(A) = Range4(a, b)
  BY <1>1
<1>3. SUFFICES ASSUME Missing # {} PROVE FALSE
  <2>1. A \notin Missing => \E f : Blocked(f, a, b, D(A))
    OBVIOUS
  <2> HIDE DEF Missing, D
  <2> QED BY <1>2, <2>1
<1>4. PICK k \in Missing : \A j \in Missing : k <= j
  <2>1. Missing \in SUBSET Nat
    OBVIOUS
  <2> HIDE DEF Missing
  <2> QED BY <1>3, <2>1, FirstExists
<1>5. k \in Nat /\ ~ \E f : Blocked(f, a, b, D(k))
  BY <1>4
<1>6. PICK g : \A q \in D(k) : q[2] - q[1] <= k - 1 => g[q] = FoundIn(g, a, b, q)
  <2>1. CASE k = 0
    <3> DEFINE g == [q \in Range4(a, b) |-> <<>>]
    <3>1. \A q \in D(k) : q[2] - q[1] <= k - 1 => Shared(a, b, q) = {}
      <4>1. ASSUME NEW q \in D(k), q[2] - q[1] <= k - 1 PROVE Shared(a, b, q) = {}
        <5>1. 1 .. q[2] - q[1] = {}
          BY <1>1, <2>1, <4>1
        <5> QED BY <5>1 DEF Shared
      <4> QED BY <4>1
    <3>2. \A q \in D(k) : g[q] = <<>>
      OBVIOUS
    <3> HIDE DEF g, D
    <3> QED BY <3>1, <3>2 DEF FoundIn
  <2>2. CASE k # 0
    <3>1. k - 1 \in Nat /\ ~ (k <= k - 1)
      BY <1>5, <2>2
    <3>2. k - 1 \notin Missing
      <4> HIDE DEF Missing
      <4> QED BY <1>4, <3>1
    <3>3. PICK g : Blocked(g, a, b, D(k - 1))
      BY <3>1, <3>2
    <3>4. \A q \in D(k - 1) : g[q] = FoundIn(g, a, b, q)
      <4> HIDE DEF D
      <4> QED BY <3>3 DEF Blocked
    <3>5. \A q \in D(k) : q[2] - q[1] <= k - 1 => q \in D(k - 1)
      OBVIOUS
    <3> HIDE DEF D
    <3> QED BY <3>4, <3>5
  <2> QED BY <2>1, <2>2
<1> DEFINE f == [q \in D(k) |-> IF q[2] - q[1] <= k - 1 THEN g[q] ELSE FoundIn(g, a, b, q)]
<1>7. ASSUME NEW q \in D(k) PROVE f[q] = FoundIn(f, a, b, q)
  <2> DEFINE x == Best(Shared(a, b, q))
             l == <<q[1], x[2], q[3], x[3]>>
             r == <<x[2] + x[1], q[2], x[3] + x[1], q[4]>>
  <2>1. q \in Range4(a, b) /\ q[2] - q[1] <= k
    OBVIOUS
  <2>2. f[q] = FoundIn(g, a, b, q)
    <3> HIDE DEF D
    <3> QED BY <1>6
  <2>3. CASE Shared(a, b, q) = {}
    <3> HIDE DEF f
    <3> QED BY <2>2, <2>3 DEF FoundIn
  <2>4. CASE Shared(a, b, q) # {}
    <3>1. /\ l \in Range4(a, b) /\ l[2] - l[1] < q[2] - q[1]
          /\ r \in Range4(a, b) /\ r[2] - r[1] < q[2] - q[1]
      BY <2>1, <2>4, BestInside
    <3> HIDE DEF x, l, r
    <3>2. l[2] - l[1] <= k - 1 /\ r[2] - r[1] <= k - 1 /\ l \in D(k) /\ r \in D(k)
      BY <1>1, <1>5, <2>1, <3>1
    <3>3. f[l] = g[l] /\ f[r] = g[r]
      <4> HIDE DEF D
      <4> QED BY <3>2
    <3> HIDE DEF f
    <3>4. FoundIn(g, a, b, q) = g[l] \o <<x>> \o g[r]
      BY <2>4 DEF FoundIn, x, l, r
    <3>5. FoundIn(f, a, b, q) = f[l] \o <<x>> \o f[r]
      BY <2>4 DEF FoundIn, x, l, r
    <3> QED BY <2>2, <3>3, <3>4, <3>5
  <2> QED BY <2>3, <2>4
<1>8. Blocked(f, a, b, D(k))
  <2>1. f = [q \in D(k) |-> f[q]]
    OBVIOUS
  <2> HIDE DEF f, D
  <2> QED BY <1>7, <2>1 DEF Blocked
<1> QED BY <1>5, <1>8

LEMMA BlocksAre ==
  ASSUME NEW a, NEW b, Len(a) \in Nat, Len(b) \in Nat
  PROVE  \E f : Blocked(f, a, b, Range4(a, b)) /\ Blocks(a, b) = f[<<0, Len(a), 0, Len(b)>>]
<1> DEFINE f == CHOOSE f : Blocked(f, a, b, Range4(a, b))
<1>1. Blocks(a, b) = f[<<0, Len(a), 0, Len(b)>>]
  BY DEF Blocks, Blocked, FoundIn, Shared, Best, Better, Range4
<1>2. \E g : Blocked(g, a, b, Range4(a, b))
  BY BlockedDefined
<1>3. Blocked(f, a, b, Range4(a, b))
  BY <1>2
<1> QED BY <1>1, <1>3

LEMMA BlocksTyped ==
  ASSUME NEW a, NEW b, Len(a) \in Nat, Len(b) \in Nat
  PROVE  Blocks(a, b) \in Seq(Nat \X Nat \X Nat)
<1> DEFINE X   == Nat \X Nat \X Nat
           R   == Range4(a, b)
<1>1. PICK f : Blocked(f, a, b, R) /\ Blocks(a, b) = f[<<0, Len(a), 0, Len(b)>>]
  BY BlocksAre
<1>2. \A q \in R : f[q] = FoundIn(f, a, b, q)
  <2> HIDE DEF R
  <2> QED BY <1>1 DEF Blocked
<1> DEFINE Bad == {q \in R : f[q] \notin Seq(X)}
<1>3. SUFFICES ASSUME Bad # {} PROVE FALSE
  <2>1. <<0, Len(a), 0, Len(b)>> \in R
    BY DEF Range4
  <2> HIDE DEF R
  <2> QED BY <1>1, <2>1
<1> DEFINE Sizes == {k \in Nat : \E q \in Bad : q[2] - q[1] <= k}
<1>4. \A q \in R : q[2] - q[1] \in Int
  BY DEF Range4
<1>5. PICK k \in Sizes : \A j \in Sizes : k <= j
  <2>1. PICK q \in Bad : TRUE
    BY <1>3
  <2>2. q[2] - q[1] \in Int
    BY <1>4
  <2>3. \E j \in Nat : q[2] - q[1] <= j
    <3> DEFINE d == q[2] - q[1]
    <3>1. d <= 0 \/ (d \in Nat /\ d <= d)
      BY <2>2
    <3> HIDE DEF d
    <3> QED BY <3>1 DEF d
  <2>4. Sizes \in SUBSET Nat /\ Sizes # {}
    BY <2>3
  <2> HIDE DEF Sizes
  <2> QED BY <2>4, FirstExists
<1>6. PICK q \in Bad : q[2] - q[1] <= k
  OBVIOUS
<1>7. q \in R /\ f[q] \notin Seq(X) /\ k \in Nat
  OBVIOUS
<1>8. Shared(a, b, q) # {}
  <2>1. Shared(a, b, q) = {} => f[q] = <<>>
    BY <1>2, <1>7 DEF FoundIn
  <2> QED BY <1>7, <2>1, EmptySeq
<1> DEFINE x == Best(Shared(a, b, q))
           l == <<q[1], x[2], q[3], x[3]>>
           r == <<x[2] + x[1], q[2], x[3] + x[1], q[4]>>
<1>9. /\ x \in X
      /\ l \in R /\ l[2] - l[1] < q[2] - q[1]
      /\ r \in R /\ r[2] - r[1] < q[2] - q[1]
  BY <1>7, <1>8, BestInside
<1>10. f[q] = f[l] \o <<x>> \o f[r]
  BY <1>2, <1>7, <1>8 DEF FoundIn
<1> HIDE DEF x, l, r
<1>11. ASSUME NEW p \in R, p[2] - p[1] < q[2] - q[1] PROVE f[p] \in Seq(X)
  <2>1. SUFFICES ASSUME p \in Bad PROVE FALSE
    OBVIOUS
  <2> DEFINE d == p[2] - p[1]
             e == q[2] - q[1]
  <2>2. d \in Int /\ e \in Int /\ d < e /\ e <= k
    BY <1>4, <1>6, <1>7, <1>11
  <2> HIDE DEF d, e
  <2>3. k # 0
    <3>1. CASE k = 0
      <4>1. d <= 0 /\ e <= 0
        BY <2>2, <3>1
      <4>2. 1 .. e = {}
        BY <2>2, <4>1
      <4>3. Shared(a, b, q) = {}
        BY <4>2 DEF Shared, e
      <4> QED BY <1>8, <4>3
    <3> QED BY <3>1
  <2>4. k - 1 \in Nat /\ d <= k - 1 /\ ~ (k <= k - 1)
    BY <1>7, <2>2, <2>3
  <2>5. k - 1 \in Sizes
    BY <2>1, <2>4 DEF d
  <2> HIDE DEF Sizes
  <2> QED BY <1>5, <2>4, <2>5
<1>12. f[l] \in Seq(X) /\ f[r] \in Seq(X) /\ <<x>> \in Seq(X)
  BY <1>9, <1>11
<1>13. f[l] \o <<x>> \o f[r] \in Seq(X)
  <2> DEFINE one == <<x>>
  <2> HIDE DEF one, X
  <2>1. one \in Seq(X)
    BY <1>12 DEF one
  <2>2. f[l] \o one \in Seq(X)
    BY <1>12, <2>1, ConcatProperties
  <2>3. f[l] \o one \o f[r] \in Seq(X)
    BY <1>12, <2>2, ConcatProperties
  <2> QED BY <2>3 DEF one
<1> QED BY <1>7, <1>10, <1>13

\* The steps between two texts.
LEMMA FlattenTyped ==
  ASSUME NEW X, NEW seqs, NEW n \in Nat, seqs \in [1 .. n -> Seq(X)]
  PROVE  FlattenSeq(seqs) \in Seq(X)
<1>1. seqs \in Seq(Seq(X)) /\ Len(seqs) = n /\ DOMAIN seqs = 1 .. n
  BY FunIsSeq
<1>2. seqs = <<>> \/ n # 0
  BY <1>1, EmptySeq
<1> DEFINE p == 0
           T == {}
<1>3. p \in 0 .. n /\ p = 0
  OBVIOUS
<1>4. \A k \in 1 .. n : seqs[k] \in Seq(X) /\ \A i \in DOMAIN seqs[k] : seqs[k][i] \notin T
  OBVIOUS
<1> HIDE DEF p, T
<1>5. /\ Len(seqs) \in Nat /\ DOMAIN seqs = 1 .. Len(seqs) /\ p \in 0 .. Len(seqs)
      /\ \A k \in 1 .. Len(seqs) : seqs[k] \in Seq(X) /\ \A i \in DOMAIN seqs[k] : seqs[k][i] \notin T
      /\ seqs = <<>> \/ Len(seqs) # 0
  BY <1>1, <1>2, <1>3, <1>4
<1> QED BY <1>3, <1>5, FlattenSifts

LEMMA OpcodesTyped ==
  ASSUME NEW a, NEW b, Len(a) \in Nat, Len(b) \in Nat
  PROVE  Opcodes(a, b) \in Seq(Nat \X Nat \X Nat \X Nat)
<1> DEFINE X      == Nat \X Nat \X Nat
           Y      == Nat \X Nat \X Nat \X Nat
           blocks == Append(Blocks(a, b), <<0, Len(a), Len(b)>>)
           n      == Len(blocks)
           End(k) == IF k = 0 THEN <<0, 0>>
                     ELSE <<blocks[k][2] + blocks[k][1], blocks[k][3] + blocks[k][1]>>
           Step(k) == <<<<End(k - 1)[1], blocks[k][2], End(k - 1)[2], blocks[k][3]>>,
                        <<blocks[k][2], End(k)[1], blocks[k][3], End(k)[2]>>>>
           seqs   == [k \in DOMAIN blocks |-> Step(k)]
           steps  == FlattenSeq(seqs)
<1>1. blocks \in Seq(X)
  <2>1. <<0, Len(a), Len(b)>> \in X /\ Blocks(a, b) \in Seq(X)
    BY BlocksTyped
  <2> HIDE DEF X
  <2> QED BY <2>1, AppendProperties
<1> HIDE DEF blocks
<1>2. n \in Nat /\ DOMAIN blocks = 1 .. n /\ \A k \in 1 .. n : blocks[k] \in X
  <2> HIDE DEF X
  <2> QED BY <1>1, LenProperties, ElementOfSeq
<1> HIDE DEF n
<1>3. \A k \in 1 .. n : blocks[k][1] \in Nat /\ blocks[k][2] \in Nat /\ blocks[k][3] \in Nat
  BY <1>2
<1>4. ASSUME NEW k \in 0 .. n PROVE End(k)[1] \in Nat /\ End(k)[2] \in Nat
  <2>1. CASE k = 0
    BY <2>1
  <2>2. CASE k # 0
    <3>1. k \in 1 .. n
      BY <1>2, <2>2
    <3> DEFINE u == blocks[k][2] + blocks[k][1]
               v == blocks[k][3] + blocks[k][1]
    <3>2. End(k) = <<u, v>>
      BY <2>2
    <3>3. u \in Nat /\ v \in Nat
      BY SMTT(30), <1>3, <3>1
    <3> HIDE DEF End, u, v
    <3> QED BY <3>2, <3>3
  <2> QED BY <2>1, <2>2
<1> HIDE DEF End
<1>5. ASSUME NEW k \in 1 .. n PROVE Step(k) \in Seq(Y)
  <2>1. k \in 0 .. n /\ k - 1 \in 0 .. n
    BY <1>2
  <2> DEFINE u == <<End(k - 1)[1], blocks[k][2], End(k - 1)[2], blocks[k][3]>>
             v == <<blocks[k][2], End(k)[1], blocks[k][3], End(k)[2]>>
  <2>2. u \in Y /\ v \in Y
    BY <1>3, <1>4, <2>1
  <2> HIDE DEF u, v, Y
  <2>3. <<u, v>> \in Seq(Y)
    BY <2>2
  <2> QED BY <2>3 DEF u, v
<1> HIDE DEF Step, Y
<1>6. seqs \in [1 .. n -> Seq(Y)]
  BY <1>2, <1>5
<1> HIDE DEF seqs
<1>7. steps \in Seq(Y)
  BY <1>2, <1>6, FlattenTyped
<1>8. Steps(blocks) = steps
  BY DEF Steps, seqs, Step, End
<1> HIDE DEF steps
<1> DEFINE P == {i \in DOMAIN steps : steps[i][1] < steps[i][2] \/ steps[i][3] < steps[i][4]}
<1>9. Opcodes(a, b) = Chosen(steps, P)
  BY <1>8 DEF Opcodes, blocks
<1>10. P \in SUBSET DOMAIN steps
  OBVIOUS
<1> HIDE DEF P
<1> QED BY <1>7, <1>9, <1>10, ChosenFacts DEF Y

LEMMA JoinedTyped ==
  ASSUME NEW lines \in Seq(TextType)
  PROVE  Joined(lines) \in TextType
<1> DEFINE n == Len(lines)
           parts == [k \in DOMAIN lines |-> IF k = 1 THEN lines[1] ELSE <<Break>> \o lines[k]]
<1>1. n \in Nat /\ DOMAIN lines = 1 .. n /\ \A k \in 1 .. n : lines[k] \in TextType
  BY LenProperties, ElementOfSeq
<1>2. TextType = Seq(Char)
  BY DEF TextType
<1>3. <<Break>> \in Seq(Char)
  <2>1. Break \in Char
    BY DEF Char
  <2> QED BY <2>1
<1> HIDE DEF n
<1>4. \A k \in 1 .. n : (IF k = 1 THEN lines[1] ELSE <<Break>> \o lines[k]) \in Seq(Char)
  <2> DEFINE one == <<Break>>
  <2>1. one \in Seq(Char)
    BY <1>3
  <2> HIDE DEF one
  <2>2. \A k \in 1 .. n : one \o lines[k] \in Seq(Char)
    BY <1>1, <1>2, <2>1, ConcatProperties
  <2> QED BY <1>1, <1>2, <2>2 DEF one
<1>5. parts \in [1 .. n -> Seq(Char)]
  BY <1>1, <1>4
<1>6. Joined(lines) = FlattenSeq(parts)
  BY DEF Joined
<1> HIDE DEF parts
<1> QED BY <1>1, <1>2, <1>5, <1>6, FlattenTyped

LEMMA ThroughNat ==
  ASSUME NEW mark \in Nat, NEW i \in Nat, NEW j \in Nat, NEW k \in Nat, i <= mark
  PROVE  j + Min({mark - i, k - j}) \in Nat
<1> DEFINE d == mark - i
           e == k - j
<1>1. d \in Int /\ e \in Int /\ j + d \in Nat /\ j + e \in Nat
  OBVIOUS
<1> HIDE DEF d, e
<1>2. Min({d, e}) = d \/ Min({d, e}) = e
  BY <1>1, MinOfTwo
<1>3. j + Min({d, e}) \in Nat
  BY <1>1, <1>2
<1> QED BY <1>3 DEF d, e

\* Where a mark of the source falls in the reply.
LEMMA CarriedTyped ==
  ASSUME NEW mark \in Nat, NEW opcodes \in Seq(Nat \X Nat \X Nat \X Nat)
  PROVE  Carried(mark, opcodes) \in Nat
<1> DEFINE Y  == Nat \X Nat \X Nat \X Nat
           at == {k \in DOMAIN opcodes : opcodes[k][1] <= mark /\ mark <= opcodes[k][2]}
           m  == Max(at)
           o  == opcodes[m]
           Through0(u) == u[3] + Min({mark - u[1], u[4] - u[3]})
<1>1. Carried(mark, opcodes) = IF at = {} THEN mark ELSE Through0(o)
  BY DEF Carried
<1>2. ASSUME at # {} PROVE Through0(o) \in Nat
  <2>1. Len(opcodes) \in Nat /\ DOMAIN opcodes = 1 .. Len(opcodes)
    <3> HIDE DEF Y
    <3> QED BY LenProperties
  <2>2. at \in SUBSET Nat /\ at # {} /\ \A k \in at : k <= Len(opcodes)
    BY SMTT(30), <1>2, <2>1
  <2>3. m \in at
    <3> HIDE DEF at
    <3> QED BY <2>1, <2>2, MaxOf
  <2>4. m \in 1 .. Len(opcodes) /\ o[1] <= mark
    BY <2>1, <2>3
  <2> HIDE DEF m
  <2>5. o \in Y
    <3> HIDE DEF Y
    <3>1. opcodes \in Seq(Y)
      BY DEF Y
    <3> QED BY <2>4, <3>1, ElementOfSeq
  <2>6. o[1] \in Nat /\ o[3] \in Nat /\ o[4] \in Nat
    BY <2>5
  <2> HIDE DEF o
  <2> QED BY <2>4, <2>6, ThroughNat
<1> QED BY <1>1, <1>2

\* The pieces a reply is cut into, when its cuts are offsets.
LEMMA PiecesTyped ==
  ASSUME NEW reply \in TextType, NEW n \in Nat, NEW cuts, cuts \in [1 .. n + 1 -> Nat]
  PROVE  /\ DOMAIN Pieces(reply, cuts) = 1 .. n
         /\ \A i \in 1 .. n : Pieces(reply, cuts)[i] \in TextType
<1> DEFINE L == Len(reply)
           Bare(text) == Reverse(Trimmed(Reverse(Trimmed(text, {Break})), {Break}))
           Piece(i) == Cut(reply, cuts[i], Min({L, cuts[i + 1]}))
<1>1. cuts \in Seq(Nat) /\ Len(cuts) = n + 1
  <2> DEFINE m == n + 1
  <2>1. m \in Nat
    OBVIOUS
  <2> HIDE DEF m
  <2>2. cuts \in [1 .. m -> Nat]
    BY DEF m
  <2> QED BY <2>1, <2>2, FunIsSeq DEF m
<1>2. L \in Nat /\ reply \in Seq(Char) /\ TextType = Seq(Char)
  BY TextLen DEF TextType
<1>3. ASSUME NEW t \in TextType PROVE Bare(t) \in TextType
  BY <1>3, ReverseTyped, TrimmedFacts
<1>4. ASSUME NEW i \in 1 .. n PROVE Piece(i) \in TextType
  <2> DEFINE from == cuts[i]
             next == cuts[i + 1]
             to   == Min({L, next})
             m    == from + 1
  <2>1. from \in Nat /\ next \in Nat
    <3>1. i \in 1 .. n + 1 /\ i + 1 \in 1 .. n + 1
      OBVIOUS
    <3> QED BY <3>1
  <2> HIDE DEF from, next, L
  <2>2. to \in Int /\ to <= L
    <3>1. L \in Int /\ next \in Int
      BY <1>2, <2>1
    <3> QED BY <3>1, MinOfTwo
  <2> HIDE DEF to
  <2>3. m \in Int /\ \A k \in m .. to : k \in 1 .. L
    BY <1>2, <2>1, <2>2
  <2> HIDE DEF m
  <2>4. \A k \in m .. to : reply[k] \in Char
    BY <1>2, <2>3, ElementOfSeq DEF L
  <2>5. SubSeq(reply, m, to) \in Seq(Char)
    BY <2>2, <2>3, <2>4, SubSeqProperties
  <2> QED BY <1>2, <2>5 DEF Cut, m, from, to, next
<1>5. Pieces(reply, cuts) = [i \in 1 .. Len(cuts) - 1 |-> Bare(Piece(i))]
  BY DEF Pieces
<1>6. Len(cuts) - 1 = n
  BY <1>1
<1> HIDE DEF Piece, Bare
<1> QED BY <1>3, <1>4, <1>5, <1>6

LEMMA CutsTyped ==
  ASSUME NEW sources \in Seq(TextType), NEW opcodes \in Seq(Nat \X Nat \X Nat \X Nat), NEW end \in Nat
  PROVE  Cuts(sources, opcodes, end) \in [1 .. Len(sources) + 1 -> Nat]
<1> DEFINE n == Len(sources)
           At(i) == IF i = 0 THEN 0
                    ELSE IF i < Len(sources) THEN Carried(Len(Joined(SubSeq(sources, 1, i))) + 1, opcodes)
                    ELSE end
           Y == Nat \X Nat \X Nat \X Nat
<1>1. n \in Nat
  BY LenProperties
<1>2. ASSUME NEW i \in 0 .. n PROVE At(i) \in Nat
  <2>1. CASE i = 0
    BY <2>1
  <2>2. CASE i # 0 /\ i < n
    <3> DEFINE part == SubSeq(sources, 1, i)
    <3>1. i \in Int /\ 1 \in Int /\ \A k \in 1 .. i : k \in 1 .. Len(sources)
      BY <1>1, <2>2
    <3>2. \A k \in 1 .. i : sources[k] \in TextType
      BY <3>1, ElementOfSeq
    <3>3. part \in Seq(TextType)
      <4> DEFINE one == 1
      <4> HIDE DEF one
      <4>1. one \in Int /\ \A k \in one .. i : sources[k] \in TextType
        BY <3>2 DEF one
      <4>2. SubSeq(sources, one, i) \in Seq(TextType)
        BY <3>1, <4>1, SubSeqProperties
      <4> QED BY <4>2 DEF one
    <3> HIDE DEF part
    <3>4. Len(Joined(part)) \in Nat
      BY <3>3, JoinedTyped, TextLen
    <3> DEFINE mark == Len(Joined(part)) + 1
    <3>5. mark \in Nat
      BY <3>4
    <3> HIDE DEF mark
    <3>6. Carried(mark, opcodes) \in Nat
      BY <3>5, CarriedTyped
    <3> QED BY <2>2, <3>6 DEF mark, part
  <2>3. CASE i # 0 /\ ~ (i < n)
    BY <2>3
  <2> QED BY <2>1, <2>2, <2>3
<1>3. Cuts(sources, opcodes, end) = [k \in 1 .. n + 1 |-> Max({At(i) : i \in 0 .. k - 1})]
  BY DEF Cuts
<1> HIDE DEF At, n
<1>4. ASSUME NEW k \in 1 .. n + 1 PROVE Max({At(i) : i \in 0 .. k - 1}) \in Nat
  <2> DEFINE m == k - 1
             I == 0 .. m
             S == {At(i) : i \in I}
             g == [i \in I |-> At(i)]
  <2>1. m \in Nat /\ \A i \in I : i \in 0 .. n
    BY <1>1
  <2>2. S \in SUBSET Nat /\ S # {}
    <3>1. 0 \in I
      BY <2>1
    <3> HIDE DEF I
    <3> QED BY <1>2, <2>1, <3>1
  <2>3. IsFiniteSet(I)
    <3> HIDE DEF m
    <3> QED BY <2>1, FS_Interval
  <2>4. g \in Surjection(I, S)
    <3> HIDE DEF I
    <3> QED BY DEF Surjection
  <2>5. IsFiniteSet(S)
    <3> HIDE DEF I, S, g
    <3> QED BY <2>3, <2>4, FS_Surjection
  <2>6. Max(S) \in S
    <3> HIDE DEF S
    <3> QED BY <2>2, <2>5, FiniteMax
  <2>7. Max(S) \in Nat
    <3> HIDE DEF S
    <3> QED BY <2>2, <2>6
  <2> QED BY <2>7
<1>5. Cuts(sources, opcodes, end) \in [1 .. n + 1 -> Nat]
  BY <1>3, <1>4
<1> QED BY <1>5 DEF n

\* Only lines of the page are offered a text, and it is one.
LEMMA OfferedTyped ==
  ASSUME NEW sources \in Seq(TextType), NEW returned \in Seq(TextType), NEW matching, NEW band
  PROVE  LET text == Offered(sources, returned, matching, band).text
         IN  /\ DOMAIN text \subseteq DOMAIN sources
             /\ \A i \in DOMAIN text : text[i] \in TextType
<1> DEFINE n == Len(sources)
           m == Len(returned)
<1>1. n \in Nat /\ DOMAIN sources = 1 .. n /\ m \in Nat /\ DOMAIN returned = 1 .. m
  BY LenProperties
<1>2. \A j \in 1 .. m : returned[j] \in TextType
  BY ElementOfSeq
<1>3. CASE matching = "characters"
  <2> DEFINE source == Joined(sources)
             reply  == Joined(returned)
             ops    == Opcodes(source, reply)
             cuts   == Cuts(sources, ops, StreamEnd(source, reply))
             pieces == Recut(sources, returned)
  <2>1. source \in TextType /\ reply \in TextType /\ Len(source) \in Nat /\ Len(reply) \in Nat
    BY JoinedTyped, TextLen
  <2>2. pieces = Pieces(reply, cuts)
    BY DEF Recut, RecutText
  <2> HIDE DEF source, reply
  <2>3. ops \in Seq(Nat \X Nat \X Nat \X Nat)
    BY <2>1, OpcodesTyped
  <2>4. StreamEnd(source, reply) \in Nat
    BY <2>1 DEF StreamEnd
  <2> HIDE DEF ops
  <2>5. cuts \in [1 .. n + 1 -> Nat]
    BY <2>3, <2>4, CutsTyped
  <2> HIDE DEF cuts, n, pieces
  <2>6. DOMAIN pieces = 1 .. n /\ \A i \in 1 .. n : pieces[i] \in TextType
    BY <1>1, <2>1, <2>2, <2>5, PiecesTyped
  <2> DEFINE text == [i \in {i \in DOMAIN pieces : pieces[i] # <<>>} |-> pieces[i]]
  <2>7. Offered(sources, returned, matching, band).text = text
    BY <1>3 DEF Offered, OfPieces, pieces
  <2>8. DOMAIN text \subseteq 1 .. n /\ \A i \in DOMAIN text : text[i] \in TextType
    BY <2>6
  <2> HIDE DEF text
  <2> QED BY <1>1, <2>7, <2>8
<1>4. CASE matching # "characters"
  <2> DEFINE pairs == Alignment(sources, returned, band).pairs
             text  == [i \in {p[1] : p \in pairs} |-> returned[CHOOSE j \in DOMAIN returned : <<i, j>> \in pairs]]
  <2>1. pairs \subseteq (1 .. n) \X (1 .. m)
    BY DEF Alignment, AlignTokens
  <2>2. Offered(sources, returned, matching, band).text = text
    BY <1>4 DEF Offered, OfPairs
  <2> HIDE DEF pairs, n, m
  <2>3. ASSUME NEW i \in {p[1] : p \in pairs} PROVE i \in 1 .. n /\ text[i] \in TextType
    <3>1. PICK p \in pairs : p[1] = i
      OBVIOUS
    <3>2. p = <<p[1], p[2]>> /\ p[1] \in 1 .. n /\ p[2] \in 1 .. m
      BY <2>1
    <3>3. \E j \in DOMAIN returned : <<i, j>> \in pairs
      BY <1>1, <3>1, <3>2
    <3> DEFINE j == CHOOSE j \in DOMAIN returned : <<i, j>> \in pairs
    <3>4. j \in DOMAIN returned
      BY <3>3
    <3>5. text[i] = returned[j]
      OBVIOUS
    <3> HIDE DEF j
    <3> QED BY <1>1, <1>2, <3>1, <3>2, <3>4, <3>5
  <2>4. DOMAIN text = {p[1] : p \in pairs}
    OBVIOUS
  <2> HIDE DEF text
  <2> QED BY <1>1, <2>2, <2>3, <2>4
<1> QED BY <1>3, <1>4

LEMMA PageOpsTyped ==
  ASSUME NEW lines \in Seq(STRING), NEW sources, NEW text, DOMAIN text \subseteq DOMAIN lines,
         \A i \in DOMAIN text : text[i] \in TextType
  PROVE  PageOps(lines, sources, text) \in Seq(EditType)
<1> DEFINE P       == {i \in DOMAIN text : text[i] # sources[i]}
           changed == Ordered(P)
           m       == Cardinality(P)
           op(k)   == [op |-> "line", line |-> lines[changed[k]], page |-> 0, text |-> text[changed[k]]]
           ops     == [k \in DOMAIN changed |-> op(k)]
<1>1. P \in SUBSET DOMAIN lines
  OBVIOUS
<1>2. \A i \in P : text[i] \in TextType
  OBVIOUS
<1> HIDE DEF P
<1>3. P \in SUBSET Nat /\ IsFiniteSet(P)
  BY <1>1, PositionsFinite
<1>4. m \in Nat /\ changed \in [1 .. m -> P]
  BY <1>3, OrderedSorts
<1> HIDE DEF changed, m
<1>5. \A i \in P : lines[i] \in STRING
  <2>1. \A i \in DOMAIN lines : lines[i] \in STRING
    BY LenProperties, ElementOfSeq
  <2> QED BY <1>1, <2>1
<1>6. ASSUME NEW k \in 1 .. m PROVE op(k) \in EditType
  <2> DEFINE i == changed[k]
  <2>1. i \in P
    BY <1>4
  <2> HIDE DEF i
  <2>2. lines[i] \in STRING /\ text[i] \in TextType
    BY <1>2, <1>5, <2>1
  <2>3. [op |-> "line", line |-> lines[i], page |-> 0, text |-> text[i]] \in EditType
    BY <2>2 DEF EditType
  <2> QED BY <2>3 DEF i
<1>7. ops \in [1 .. m -> EditType]
  <2> HIDE DEF op
  <2> QED BY <1>4, <1>6
<1>8. PageOps(lines, sources, text) = ops
  BY DEF PageOps, changed, P
<1> HIDE DEF ops
<1> QED BY <1>4, <1>7, <1>8, FunIsSeq

----
(***************************************************************************)
(* The run.  What is captured on a line stays what the recorded edits give *)
(* on its source, whatever the validation puts back and the acceptance     *)
(* drops later: from there NeverInvents follows at the replay.             *)
(***************************************************************************)
Judged == phase = "judge" => proposed = ScriptToRaw(script)
Stamped == phase \in {"replay", "done"} => final = PublishedScript

ReplyInv ==
  /\ Recorded /\ page \in DOMAIN doc /\ script \in Seq(EditType)
  /\ phase \in {"reply", "judge", "publish", "replay", "done"}
  /\ Judged /\ Stamped /\ NeverInvents

\* A step that keeps the record keeps what follows from it alone.
LEMMA RecordKept ==
  ASSUME Recorded, UNCHANGED <<doc, record>>
  PROVE  Recorded' /\ PublishedScript' = PublishedScript
<1> USE DEF record
<1>1. ASSUME NEW r PROVE Source(r)' = Source(r) /\ Published(r)' = Published(r)
  BY DEF Source, Published
<1>2. ASSUME NEW r, NEW c PROVE Faithful(r, c)' = Faithful(r, c)
  BY <1>1 DEF Faithful, IsSpans
<1>3. Carried0' = Carried0 /\ Lines0' = Lines0
  BY DEF Carried0, Lines0
<1>4. Refs' = Refs
  BY DEF Refs, Pages, LinesOf
<1>5. Recorded'
  BY <1>2, <1>4 DEF Recorded
<1>6. PublishedScript' = PublishedScript
  <2> DEFINE seqs == [i \in DOMAIN Lines0 |-> Published(Lines0[i])]
  <2>1. seqs' = [i \in DOMAIN Lines0 |-> Published(Lines0[i])']
    BY <1>3
  <2>2. \A i : Published(Lines0[i])' = Published(Lines0[i])
    BY <1>3 DEF Published, Source
  <2>3. seqs' = seqs
    BY <2>1, <2>2
  <2> HIDE DEF seqs
  <2>4. {[line |-> r[2], page |-> r[1], text |-> Source(r)] : r \in Carried0}'
          = {[line |-> r[2], page |-> r[1], text |-> Source(r)] : r \in Carried0}
    BY <1>1, <1>3
  <2>5. PublishedScript = [ops |-> FlattenSeq(seqs),
          expected |-> {[line |-> r[2], page |-> r[1], text |-> Source(r)] : r \in Carried0}]
    BY DEF PublishedScript, seqs
  <2>6. PublishedScript' = [ops |-> FlattenSeq(seqs'),
          expected |-> {[line |-> r[2], page |-> r[1], text |-> Source(r)] : r \in Carried0}']
    BY DEF PublishedScript, seqs
  <2> QED BY <2>3, <2>4, <2>5, <2>6
<1> QED BY <1>5, <1>6

\* A step of the reply that only adds to the script.
LEMMA ScriptStep ==
  ASSUME ReplyInv, UNCHANGED <<doc, page, record>>, script' \in Seq(EditType),
         phase' = "reply"
  PROVE  ReplyInv'
BY RecordKept DEF ReplyInv, Judged, Stamped, NeverInvents

LEMMA EditKeeps ==
  ASSUME ReplyInv, Edit
  PROVE  ReplyInv'
<1>1. PICK op \in Edits(doc[page]) : script' = Append(script, op)
  BY DEF Edit
<1>2. op \in EditType /\ script \in Seq(EditType)
  BY <1>1, PageFacts DEF ReplyInv, Recorded
<1>3. script' \in Seq(EditType)
  BY <1>1, <1>2, AppendProperties
<1> QED BY <1>3, ScriptStep DEF Edit

LEMMA AnswerPageKeeps ==
  ASSUME ReplyInv, AnswerPage
  PROVE  ReplyInv'
<1>1. PICK lines \in Answers(doc[page]), matching \in {"jaccard", "characters"}, band \in Bands :
        script' = PageOps(doc[page].lines, SourceLines(page),
                          Offered(SourceLines(page), lines, matching, band).text)
  BY DEF AnswerPage
<1> DEFINE sources == SourceLines(page)
           text    == Offered(sources, lines, matching, band).text
           names   == doc[page].lines
<1>2. names \in Seq(STRING) /\ lines \in Seq(TextType)
  BY <1>1, PageFacts DEF ReplyInv, Recorded
<1>3. sources \in Seq(TextType) /\ DOMAIN sources = DOMAIN names
  <2>1. sources = [i \in DOMAIN names |-> doc[page].text[names[i]]]
    BY DEF SourceLines
  <2>2. ASSUME NEW i \in DOMAIN names PROVE doc[page].text[names[i]] \in TextType
    <3>1. names[i] \in LinesOf(page)
      BY DEF LinesOf, Range
    <3> QED BY <3>1, PageFacts DEF ReplyInv, Recorded
  <2>3. Len(names) \in Nat /\ DOMAIN names = 1 .. Len(names)
    BY <1>2, LenProperties
  <2>4. sources \in [1 .. Len(names) -> TextType]
    BY <2>1, <2>2, <2>3
  <2> HIDE DEF sources
  <2> QED BY <2>1, <2>3, <2>4, FunIsSeq
<1> HIDE DEF sources, names
<1>4. DOMAIN text \subseteq DOMAIN names /\ \A i \in DOMAIN text : text[i] \in TextType
  BY <1>2, <1>3, OfferedTyped
<1> HIDE DEF text
<1>5. PageOps(names, sources, text) \in Seq(EditType)
  BY <1>2, <1>4, PageOpsTyped
<1>6. script' \in Seq(EditType)
  BY <1>1, <1>5 DEF names, sources, text
<1> QED BY <1>6, ScriptStep DEF AnswerPage

LEMMA PutBackKeeps ==
  ASSUME ReplyInv, PutBackPairs
  PROVE  ReplyInv'
<1> DEFINE T     == {o \in Range(script) : o.line \notin Word}
           lines == SetToSeq(Word)
           n     == Cardinality(Word)
           put   == [i \in DOMAIN lines |-> [op |-> "line", line |-> lines[i], page |-> 0,
                                             text |-> doc[page].text[lines[i]]]]
<1>1. script' = Sifted(script, T) \o put
  BY DEF PutBackPairs
<1>2. Sifted(script, T) \in Seq(EditType)
  <2> HIDE DEF T
  <2> QED BY SiftedFacts DEF ReplyInv
<1>3. Word \subseteq LinesOf(page) /\ IsFiniteSet(Word)
  <2>1. doc[page].targets \subseteq LinesOf(page) /\ IsFiniteSet(doc[page].targets)
    BY PageFacts DEF ReplyInv, Recorded
  <2>2. Word \subseteq doc[page].targets
    BY DEF Word
  <2> QED BY <2>1, <2>2, FS_Subset
<1>4. n \in Nat /\ DOMAIN lines = 1 .. n /\ \A k \in 1 .. n : lines[k] \in Word
  BY <1>3, SetToSeqIs
<1> HIDE DEF lines, n, T
<1>5. ASSUME NEW k \in 1 .. n
      PROVE  [op |-> "line", line |-> lines[k], page |-> 0, text |-> doc[page].text[lines[k]]] \in EditType
  <2>1. lines[k] \in LinesOf(page)
    BY <1>3, <1>4
  <2>2. lines[k] \in STRING /\ doc[page].text[lines[k]] \in TextType
    BY <2>1, PageFacts DEF ReplyInv, Recorded
  <2> QED BY <2>2 DEF EditType
<1>6. put \in [1 .. n -> EditType]
  BY <1>4, <1>5
<1> HIDE DEF put
<1>7. put \in Seq(EditType)
  BY <1>4, <1>6, FunIsSeq
<1>8. script' \in Seq(EditType)
  BY <1>1, <1>2, <1>7, ConcatProperties
<1> QED BY <1>8, ScriptStep DEF PutBackPairs

\* The judgement of a reply moves on to a page of the document.
LEMMA NextPageFacts ==
  ASSUME ReplyInv, NextPage
  PROVE  /\ page' \in DOMAIN doc /\ script' \in Seq(EditType) /\ phase' \in {"reply", "publish"}
         /\ doc' = doc
BY DEF ReplyInv, NextPage, Pages

LEMMA RecordStep ==
  ASSUME ReplyInv, NextPage, Recorded'
  PROVE  ReplyInv'
BY NextPageFacts DEF ReplyInv, Judged, Stamped, NeverInvents

\* The lines the chunk of a page asks for.
Asked(p) == {p} \X doc[p].targets

LEMMA AskedFacts ==
  ASSUME doc \in Documents, NEW p \in DOMAIN doc
  PROVE  /\ IsFiniteSet(Asked(p)) /\ Asked(p) \subseteq Refs
         /\ \A r \in Asked(p) : /\ r[1] = p /\ r[2] \in doc[p].targets /\ r = <<p, r[2]>>
                                /\ Source(r) \in TextType
<1>1. doc[p].targets \subseteq LinesOf(p) /\ IsFiniteSet(doc[p].targets)
      /\ \A l \in LinesOf(p) : doc[p].text[l] \in TextType /\ <<p, l>> \in Refs
  BY PageFacts
<1>2. IsFiniteSet(Asked(p))
  BY <1>1, FS_Singleton, FS_Product DEF Asked
<1>3. ASSUME NEW r \in Asked(p)
      PROVE  r[1] = p /\ r[2] \in doc[p].targets /\ r = <<p, r[2]>>
  BY DEF Asked
<1>4. ASSUME NEW r \in Asked(p) PROVE Source(r) \in TextType /\ r \in Refs
  <2>1. r[1] = p /\ r[2] \in LinesOf(p) /\ r = <<p, r[2]>>
    BY <1>1, <1>3
  <2> QED BY <1>1, <2>1 DEF Source
<1> QED BY <1>2, <1>3, <1>4

\* The record after a page: what is new in it, and the rest as it was.
JoinsTo(after, old, new) ==
  /\ DOMAIN after = DOMAIN old \cup DOMAIN new
  /\ \A r \in DOMAIN after : after[r] = IF r \in DOMAIN new THEN new[r] ELSE old[r]

\* Judging a page records texts, and captures edits that give them on the source.
LEMMA RecordsMore ==
  ASSUME Recorded, doc' = doc, page \in DOMAIN doc,
         NEW new, DOMAIN new \subseteq Asked(page), \A r \in DOMAIN new : Faithful(r, new[r]),
         NEW texts, DOMAIN texts = Asked(page), \A r \in DOMAIN texts : texts[r].text \in TextType,
         JoinsTo(captured', captured, new), decided' = Joining(decided, texts)
  PROVE  Recorded'
<1>1. IsFiniteSet(Asked(page)) /\ Asked(page) \subseteq Refs
  BY AskedFacts DEF Recorded
<1>2. Refs' = Refs
  BY DEF Refs, Pages, LinesOf
<1>3. \A r : Source(r)' = Source(r)
  BY DEF Source
<1>4. ASSUME NEW r, NEW c PROVE Faithful(r, c)' = Faithful(r, c)
  BY <1>3 DEF Faithful, IsSpans
<1>5. DOMAIN captured' = DOMAIN captured \cup DOMAIN new
      /\ \A r \in DOMAIN captured' : captured'[r] = IF r \in DOMAIN new THEN new[r] ELSE captured[r]
  BY DEF JoinsTo
<1>6. DOMAIN decided' = DOMAIN decided \cup DOMAIN texts
      /\ \A r \in DOMAIN decided' : decided'[r] = IF r \in DOMAIN texts THEN texts[r] ELSE decided[r]
  BY DEF Joining
<1>7. IsFiniteSet(DOMAIN captured')
  <2>1. IsFiniteSet(DOMAIN new)
    BY <1>1, FS_Subset
  <2> QED BY <1>5, <2>1, FS_Union DEF Recorded
<1>8. DOMAIN captured' \subseteq DOMAIN decided' /\ DOMAIN decided' \subseteq Refs
  BY <1>1, <1>5, <1>6 DEF Recorded
<1>9. \A r \in DOMAIN decided' : decided'[r].text \in TextType
  BY <1>6 DEF Recorded
<1>10. \A r \in DOMAIN captured' : Faithful(r, captured'[r])
  BY <1>5 DEF Recorded
<1>11. (\A r \in DOMAIN captured : Faithful(r, captured[r]))'
  <2>1. ASSUME NEW r \in DOMAIN captured' PROVE Faithful(r, captured[r])'
    <3>1. Faithful(r, captured'[r])
      BY <1>10, <2>1
    <3> QED BY <1>3, <3>1 DEF Faithful, IsSpans
  <2> QED BY <2>1
<1>12. IsFiniteSet(DOMAIN captured')
       /\ DOMAIN captured' \subseteq DOMAIN decided' /\ DOMAIN decided' \subseteq Refs'
       /\ doc' \in Documents
  BY <1>2, <1>7, <1>8 DEF Recorded
<1> QED BY <1>9, <1>11, <1>12 DEF Recorded

LEMMA DecideKeeps ==
  ASSUME ReplyInv, Decide
  PROVE  ReplyInv'
<1>1. /\ phase = "judge" /\ Valid /\ proposed = ScriptToRaw(script) /\ NextPage
      /\ Recorded /\ doc \in Documents /\ page \in DOMAIN doc /\ script \in Seq(EditType)
  BY DEF Decide, ReplyInv, Judged, Recorded
<1>2. PICK fallen : decided' = Joining(decided, [r \in Asked(page) |->
            IF r[2] \in fallen THEN Kept(r)
            ELSE [text |-> PreserveBreak(Source(r), Produced(r[2])), corrected |-> TRUE]])
  BY DEF Decide, Asked
<1> DEFINE new   == Captured
           texts == [r \in Asked(page) |->
                      IF r[2] \in fallen THEN Kept(r)
                      ELSE [text |-> PreserveBreak(Source(r), Produced(r[2])), corrected |-> TRUE]]
<1>3. DOMAIN new = {r \in Edited : r[2] \notin proposed.refused}
      /\ \A r \in DOMAIN new : new[r] = [ops |-> OpsOn(script, r[2]), text |-> Produced(r[2])]
  BY DEF Captured, Capture
<1>4. \A r \in Edited : r \in Asked(page) /\ OpsOn(script, r[2]) # <<>>
  BY DEF Edited, Asked
<1>5. ASSUME NEW r \in DOMAIN new PROVE Faithful(r, new[r])
  <2>1. r \in Asked(page) /\ OpsOn(script, r[2]) # <<>> /\ r[2] \notin proposed.refused
    BY <1>3, <1>4
  <2>2. r = <<page, r[2]>> /\ r[2] \in doc[page].targets
    BY <1>1, <2>1, AskedFacts
  <2>3. Faithful(<<page, r[2]>>, [ops |-> OpsOn(script, r[2]), text |-> Produced(r[2])])
    BY <1>1, <2>1, <2>2, CapturedFaithful
  <2> QED BY <1>3, <2>2, <2>3
<1>6. ASSUME NEW r \in Asked(page) PROVE texts[r].text \in TextType
  <2>1. r[2] \in doc[page].targets /\ Source(r) \in TextType
    BY <1>1, AskedFacts
  <2>2. Produced(r[2]) \in TextType
    BY <1>1, <2>1, ProducedTyped
  <2>3. PreserveBreak(Source(r), Produced(r[2])) \in TextType
    BY <2>1, <2>2, PreserveTyped
  <2> QED BY <2>1, <2>3 DEF Kept
<1>7. DOMAIN new \subseteq Asked(page) /\ DOMAIN texts = Asked(page)
  BY <1>3, <1>4
<1>8. JoinsTo(captured', captured, new) /\ decided' = Joining(decided, texts)
  BY <1>2 DEF Decide, JoinsTo, Joining
<1>9. doc' = doc
  BY <1>1 DEF NextPage
<1> HIDE DEF new, texts
<1>10. Recorded'
  BY <1>1, <1>5, <1>6, <1>7, <1>8, <1>9, RecordsMore
<1> QED BY <1>1, <1>10, RecordStep

LEMMA RefuseKeeps ==
  ASSUME ReplyInv, Refuse
  PROVE  ReplyInv'
<1>1. Recorded /\ doc \in Documents /\ page \in DOMAIN doc /\ NextPage /\ doc' = doc
  BY DEF ReplyInv, Recorded, Refuse, NextPage
<1> DEFINE new   == Nothing
           texts == [r \in Asked(page) |-> Kept(r)]
<1>2. DOMAIN new = {}
  BY DEF Nothing
<1>3. JoinsTo(captured', captured, new)
  BY <1>2 DEF Refuse, JoinsTo
<1>4. decided' = Joining(decided, texts)
  BY DEF Refuse, Asked
<1>5. DOMAIN texts = Asked(page) /\ \A r \in DOMAIN texts : texts[r].text \in TextType
  BY <1>1, AskedFacts DEF Kept
<1> HIDE DEF new, texts
<1>6. Recorded'
  BY <1>1, <1>2, <1>3, <1>4, <1>5, RecordsMore
<1> QED BY <1>1, <1>6, RecordStep

LEMMA PublishKeeps ==
  ASSUME ReplyInv, Publish
  PROVE  ReplyInv'
<1>1. Recorded' /\ PublishedScript' = PublishedScript
  BY RecordKept DEF ReplyInv, Publish
<1>2. final' = PublishedScript
  BY DEF Publish, PublishedScript, Carried0, Lines0
<1>3. /\ phase' = "replay" /\ page' = page /\ doc' = doc /\ script' = script
  BY DEF Publish, chunk
<1>4. (page \in DOMAIN doc)' /\ (script \in Seq(EditType))'
  BY <1>3 DEF ReplyInv
<1> QED BY <1>1, <1>2, <1>3, <1>4 DEF ReplyInv, Judged, Stamped, NeverInvents

LEMMA ReplayKeeps ==
  ASSUME ReplyInv, Replay
  PROVE  ReplyInv'
<1>1. Recorded /\ doc \in Documents /\ final = PublishedScript
  BY DEF ReplyInv, Recorded, Replay, Stamped
<1>2. UNCHANGED <<doc, page, script, record, final>> /\ phase' = "done"
  BY DEF Replay, chunk
<1>3. Recorded' /\ PublishedScript' = PublishedScript
  BY <1>1, <1>2, RecordKept
<1>4. DOMAIN hand' = Refs
  BY DEF Replay
<1>5. PICK roles, given :
        /\ roles \in BOOLEAN
        /\ replayed' = [r \in Refs |-> IF r[2] \in DOMAIN given[r[1]] THEN given[r[1]][r[2]] ELSE hand'[r]]
        /\ given = Given(hand', roles)
  BY DEF Replay
<1>6. \A p \in Pages : given[p] =
        Applied(final, [l \in LinesOf(p) |-> hand'[<<p, l>>]], LinesOf(p),
                IF roles THEN doc[p].role ELSE NoRoles(p), guard, p).text
  BY <1>5 DEF Given
<1>7. ASSUME NEW r \in Refs
      PROVE  /\ replayed'[r] \in {hand'[r]} \cup IF hand'[r] = Source(r) THEN {Delivered(r)} ELSE {}
             /\ hand'[r] = Source(r) /\ AsSpans(r) => replayed'[r] = Delivered(r)
  <2> DEFINE p         == r[1]
             l         == r[2]
             canonical == [k \in LinesOf(p) |-> hand'[<<p, k>>]]
             role      == IF roles THEN doc[p].role ELSE NoRoles(p)
             result    == Applied(final, canonical, LinesOf(p), role, guard, p).text
  <2>1. p \in DOMAIN doc /\ p \in Pages /\ l \in LinesOf(p) /\ r = <<p, l>>
    BY RefIs DEF Refs, Pages
  <2>2. replayed'[r] = IF l \in DOMAIN result THEN result[l] ELSE hand'[r]
    <3>1. given[p] = result
      BY <1>6, <2>1
    <3> HIDE DEF result
    <3> QED BY <1>5, <2>1, <3>1
  <2>3. DOMAIN canonical = LinesOf(p) /\ canonical[l] = hand'[r]
    BY <2>1
  <2>4. role[l] \in {doc[p].role[l], "none"}
    BY <2>1 DEF NoRoles
  <2>5. AsSpans(r) <=> \E i \in DOMAIN PublishedScript.ops :
                         LET o == PublishedScript.ops[i] IN o.line = l /\ o.page = p /\ o.op = "span"
    BY <1>1, <2>1 DEF AsSpans
  <2> HIDE DEF canonical, role, p, l
  <2>6. /\ l \in DOMAIN result => <<p, l>> \in Carried0 /\ canonical[l] = Source(<<p, l>>)
                                  /\ result[l] = decided[<<p, l>>].text
        /\ canonical[l] = Source(<<p, l>>)
             /\ (\E i \in DOMAIN PublishedScript.ops :
                   LET o == PublishedScript.ops[i] IN o.line = l /\ o.page = p /\ o.op = "span")
           => l \in DOMAIN result
    BY <1>1, <2>1, <2>3, <2>4, ReplayGives
  <2>7. r \in Carried0 => Delivered(r) = decided[r].text
    BY <1>1 DEF Carried0, Delivered, Recorded
  <2> HIDE DEF result
  <2> QED BY <2>1, <2>2, <2>3, <2>5, <2>6, <2>7
<1>8. NeverInvents'
  <2>1. Refs' = Refs
    BY <1>2 DEF Refs, Pages, LinesOf
  <2>2. \A r : Source(r)' = Source(r) /\ Delivered(r)' = Delivered(r) /\ AsSpans(r)' = AsSpans(r)
    BY <1>2 DEF Source, Delivered, AsSpans, record
  <2> QED BY <1>7, <2>1, <2>2 DEF NeverInvents
<1>9. (page \in DOMAIN doc)' /\ (script \in Seq(EditType))' /\ Judged' /\ Stamped'
      /\ (phase \in {"reply", "judge", "publish", "replay", "done"})'
  BY <1>1, <1>2, <1>3 DEF ReplyInv, Judged, Stamped
<1> QED BY <1>3, <1>8, <1>9 DEF ReplyInv

LEMMA ProposeKeeps ==
  ASSUME ReplyInv, Propose
  PROVE  ReplyInv'
<1>1. UNCHANGED <<doc, page, script, record>> /\ phase' = "judge" /\ proposed' = ScriptToRaw(script)
  BY DEF Propose
<1>2. Recorded'
  BY <1>1, RecordKept DEF ReplyInv
<1>3. ScriptToRaw(script)' = ScriptToRaw(script)
  BY <1>1 DEF ScriptToRaw
<1>4. (page \in DOMAIN doc)' /\ (script \in Seq(EditType))'
  BY <1>1 DEF ReplyInv
<1> QED BY <1>1, <1>2, <1>3, <1>4 DEF ReplyInv, Judged, Stamped, NeverInvents

\* A step that changes no variable changes nothing that is said of them.
LEMMA ReplyStutters ==
  ASSUME ReplyInv, UNCHANGED vars
  PROVE  ReplyInv'
<1>1. UNCHANGED <<doc, page, phase, script, proposed, captured, decided, final, hand, replayed>>
  BY DEF vars, chunk, record, replay
<1>2. Recorded' /\ PublishedScript' = PublishedScript
  BY <1>1, RecordKept DEF ReplyInv, record
<1>3. ScriptToRaw(script)' = ScriptToRaw(script)
  BY <1>1 DEF ScriptToRaw
<1>4. Judged' /\ Stamped'
  BY <1>1, <1>2, <1>3 DEF ReplyInv, Judged, Stamped
<1>5. NeverInvents'
  <2>1. Refs' = Refs
    BY <1>1 DEF Refs, Pages, LinesOf
  <2>2. \A r : Source(r)' = Source(r) /\ Delivered(r)' = Delivered(r) /\ AsSpans(r)' = AsSpans(r)
    BY <1>1 DEF Source, Delivered, AsSpans
  <2> QED BY <1>1, <2>1, <2>2 DEF NeverInvents, ReplyInv
<1>6. (page \in DOMAIN doc)' /\ (script \in Seq(EditType))'
      /\ (phase \in {"reply", "judge", "publish", "replay", "done"})'
  BY <1>1 DEF ReplyInv
<1> QED BY <1>2, <1>4, <1>5, <1>6 DEF ReplyInv

LEMMA ReplyStarts ==
  ASSUME Init
  PROVE  ReplyInv
<1>1. doc \in Documents /\ page = 1 /\ phase = "reply" /\ script = <<>>
      /\ captured = Nothing /\ decided = Nothing
  BY DEF Init
<1>2. page \in DOMAIN doc
  BY <1>1, RepliesAssumption
<1>3. DOMAIN captured = {} /\ DOMAIN decided = {}
  BY <1>1 DEF Nothing
<1>4. Recorded
  BY <1>1, <1>3, FS_EmptySet DEF Recorded
<1>5. script \in Seq(EditType)
  BY <1>1, EmptySeq
<1> QED BY <1>1, <1>2, <1>4, <1>5 DEF ReplyInv, Judged, Stamped, NeverInvents

LEMMA ReplySteps ==
  ASSUME ReplyInv, [Next]_vars
  PROVE  ReplyInv'
BY EditKeeps, AnswerPageKeeps, ProposeKeeps, PutBackKeeps, DecideKeeps, RefuseKeeps, PublishKeeps,
   ReplayKeeps, ReplyStutters DEF Next

LEMMA ReplyAlways == Spec => []ReplyInv
<1>1. Init => ReplyInv
  BY ReplyStarts
<1>2. ReplyInv /\ [Next]_vars => ReplyInv'
  BY ReplySteps
<1> QED BY <1>1, <1>2, PTL DEF Spec

\* Through refusals, put-back pairs, falls, respellings of a mark, ids that two pages
\* share and a document that is not the one the script was made for, a replay of the
\* published edits gives a line the text the run delivered or leaves it alone, and a
\* line published as span edits is corrected as it was.
THEOREM ReplayNeverInvents == Spec => []NeverInvents
<1>1. ReplyInv => NeverInvents
  BY DEF ReplyInv
<1> QED BY <1>1, ReplyAlways, PTL

----
(***************************************************************************)
(* The order of the edits.  The ranges that edits name on a line put them  *)
(* in order whatever the order they come in, unless two name the same one. *)
(***************************************************************************)
\* An anchor names one range at most.
LEMMA WhereOne ==
  ASSUME NEW a \in AnchorType, NEW text \in TextType,
         NEW r \in Where(a, text), NEW s \in Where(a, text)
  PROVE  r = s
<1>1. Len(text) \in Nat
  BY TextLen
<1>2. CASE a \in [at : {"range"}, from : Int, to : Int]
  <2>1. a.at = "range"
    BY <1>2
  <2> QED BY <2>1 DEF Where
<1>3. CASE a \in [at : {"match"}, match : TextType, nth : Seq(Int)]
  <2>1. a.at = "match" /\ Len(a.match) \in Nat
    BY <1>3, TextLen
  <2> DEFINE found    == Found(text, a.match)
             below(i) == {k \in found : k < i}
  <2>2. found \subseteq Int /\ IsFiniteSet(found)
    <3>1. IsFiniteSet(0 .. Len(text) - Len(a.match))
      BY <1>1, <2>1, FS_Interval
    <3>2. found \in SUBSET (0 .. Len(text) - Len(a.match))
      BY DEF Found
    <3> QED BY <1>1, <2>1, <3>1, <3>2, FS_Subset
  <2>3. PICK i \in found : r = Between(i, i + Len(a.match))
          /\ IF a.nth = <<>> THEN Cardinality(found) = 1 ELSE Cardinality(below(i)) = a.nth[1]
    BY <2>1 DEF Where
  <2>4. PICK j \in found : s = Between(j, j + Len(a.match))
          /\ IF a.nth = <<>> THEN Cardinality(found) = 1 ELSE Cardinality(below(j)) = a.nth[1]
    BY <2>1 DEF Where
  <2> HIDE DEF found
  <2>5. CASE a.nth = <<>>
    <3>1. \E x : found = {x}
      BY <2>2, <2>3, <2>5, FS_Singleton
    <3> QED BY <2>3, <2>4, <3>1
  <2>6. ASSUME NEW x \in found, NEW y \in found, x < y PROVE Cardinality(below(x)) # Cardinality(below(y))
    <3>0. \A k \in found : k < x => k < y
      BY <2>2, <2>6
    <3>1. below(y) \in SUBSET found /\ below(x) \in SUBSET below(y)
      BY <3>0
    <3>2. x \in below(y) /\ x \notin below(x)
      BY <2>2, <2>6
    <3> HIDE DEF below
    <3>3. IsFiniteSet(below(y))
      BY <2>2, <3>1, FS_Subset
    <3>4. below(x) # below(y)
      BY <3>2
    <3> QED BY <3>1, <3>3, <3>4, FS_Subset
  <2>7. CASE a.nth # <<>>
    <3>1. Cardinality(below(i)) = Cardinality(below(j))
      BY <2>3, <2>4, <2>7
    <3>2. i \in Int /\ j \in Int
      BY <2>2
    <3> HIDE DEF below
    <3>3. i = j
      BY <2>6, <3>1, <3>2
    <3> QED BY <2>3, <2>4, <3>3
  <2> QED BY <2>5, <2>7
<1> QED BY <1>2, <1>3 DEF AnchorType

\* Sets that a one-to-one function takes to each other have the same size.
LEMMA SameSize ==
  ASSUME NEW S, NEW T, IsFiniteSet(S), NEW f, \A x \in S : f[x] \in T,
         \A x, y \in S : f[x] = f[y] => x = y, \A t \in T : \E x \in S : f[x] = t
  PROVE  Cardinality(T) = Cardinality(S)
<1> DEFINE g == [x \in S |-> f[x]]
<1>1. g \in Bijection(S, T)
  BY DEF Bijection, Injection, Surjection, IsInjective
<1> HIDE DEF g
<1> QED BY <1>1, FS_Bijection DEF ExistsBijection

\* No two of the edits name the same range.
Apart(ops, source) ==
  \A i, k \in DOMAIN ops :
    Where(ops[i].anchor, source) = Where(ops[k].anchor, source) /\ Where(ops[i].anchor, source) # {} => i = k

LEMMA PlacesApart ==
  ASSUME NEW ops, IsSpans(ops), NEW source \in TextType, Apart(ops, source),
         NEW i \in Usable(ops, source), NEW k \in Usable(ops, source),
         Place(ops, source)[i] = Place(ops, source)[k]
  PROVE  i = k
<1> DEFINE A == Where(ops[i].anchor, source)
           B == Where(ops[k].anchor, source)
           p == Place(ops, source)[i]
<1>1. i \in DOMAIN ops /\ k \in DOMAIN ops /\ p \in A /\ p \in B
  BY PlaceFacts
<1>2. ops[i].anchor \in AnchorType /\ ops[k].anchor \in AnchorType
  BY <1>1, EditFacts, ElementOfSeq, LenProperties DEF IsSpans
<1>3. \A x \in A : x = p
  BY <1>1, <1>2, WhereOne
<1>4. \A x \in B : x = p
  BY <1>1, <1>2, WhereOne
<1> HIDE DEF p
<1>5. A = B /\ A # {}
  BY <1>1, <1>3, <1>4
<1> QED BY <1>1, <1>5 DEF Apart

\* The edits in another order.
LEMMA RearrangedPlaced ==
  ASSUME NEW ops, IsSpans(ops), NEW source \in TextType, Apart(ops, source),
         NEW f \in Bijection(DOMAIN ops, DOMAIN ops)
  PROVE  LET other == [i \in DOMAIN ops |-> ops[f[i]]]
         IN  IsSpans(other) /\ Placed(other, source, guard) = Placed(ops, source, guard)
<1> DEFINE D     == DOMAIN ops
           other == [i \in D |-> ops[f[i]]]
           U     == Usable(ops, source)
           V     == Usable(other, source)
           P     == Place(ops, source)
           Q     == Place(other, source)
           B     == Before(ops, source)
           C     == Before(other, source)
           n     == Cardinality(U)
<1>1. /\ f \in [D -> D]
      /\ \A i, k \in D : f[i] = f[k] => i = k
      /\ \A d \in D : \E i \in D : f[i] = d
  BY DEF Bijection, Injection, Surjection, IsInjective
<1>2. DOMAIN other = D /\ \A i \in D : other[i] = ops[f[i]]
  OBVIOUS
<1>3. IsSpans(other)
  <2>1. ops \in Seq(EditType) /\ Len(ops) \in Nat /\ D = 1 .. Len(ops) /\ \A i \in D : ops[i] \in EditType
    BY LenProperties, ElementOfSeq DEF IsSpans
  <2>2. other \in [1 .. Len(ops) -> EditType]
    BY <1>1, <2>1
  <2>3. \A i \in D : other[i].op = "span"
    BY <1>1 DEF IsSpans
  <2> HIDE DEF other
  <2>4. other \in Seq(EditType)
    BY <2>1, <2>2, FunIsSeq
  <2> QED BY <1>2, <2>3, <2>4 DEF IsSpans
<1>4. \A i \in D : i \in V <=> f[i] \in U
  BY <1>1 DEF Usable
<1>5. V \subseteq D /\ U \subseteq D
  BY DEF Usable
<1>6. \A i \in V : Q[i] = P[f[i]]
  BY <1>4, <1>5 DEF Place
<1>7. InOrder(U, B) /\ IsFiniteSet(U) /\ InOrder(V, C) /\ IsFiniteSet(V)
  BY <1>3, SpansInOrder
<1>8. \A i, k \in U : P[i] = P[k] => i = k
  BY PlacesApart
<1>9. \A i, k \in U : k \in B[i] <=> Precedes(P[k], P[i]) \/ (P[k] = P[i] /\ k <= i)
  BY DEF Before
<1>10. \A i, k \in V : k \in C[i] <=> Precedes(Q[k], Q[i]) \/ (Q[k] = Q[i] /\ k <= i)
  BY DEF Before
<1>11. U \subseteq Nat /\ V \subseteq Nat
  BY <1>3, PlaceFacts
<1>12. B \in [U -> SUBSET U] /\ C \in [V -> SUBSET V]
  BY <1>7 DEF InOrder
<1>13. Placed(ops, source, guard) =
         [m \in DOMAIN Ranked(U, B) |->
            [from |-> P[Ranked(U, B)[m]].from, to |-> P[Ranked(U, B)[m]].to,
             text |-> ops[Ranked(U, B)[m]].text]]
  BY PlacedIs DEF Order
<1>14. Placed(other, source, guard) =
         [m \in DOMAIN Ranked(V, C) |->
            [from |-> Q[Ranked(V, C)[m]].from, to |-> Q[Ranked(V, C)[m]].to,
             text |-> other[Ranked(V, C)[m]].text]]
  BY SMTT(30), PlacedIs DEF Order
<1> HIDE DEF D, other, U, V, P, Q, B, C
<1>15. \A i, k \in V : k \in C[i] <=> f[k] \in B[f[i]]
  <2> SUFFICES ASSUME NEW i \in V, NEW k \in V PROVE k \in C[i] <=> f[k] \in B[f[i]]
    OBVIOUS
  <2>1. f[i] \in U /\ f[k] \in U /\ i \in Nat /\ k \in Nat /\ f[i] \in Nat /\ f[k] \in Nat
    BY <1>4, <1>5, <1>11
  <2>2. Q[i] = P[f[i]] /\ Q[k] = P[f[k]]
    BY <1>6
  <2>3. P[f[i]] = P[f[k]] => i = k
    BY <1>1, <1>5, <1>8, <2>1
  <2>4. (P[f[k]] = P[f[i]] /\ f[k] <= f[i]) <=> i = k
    BY <2>1, <2>3
  <2>5. (Q[k] = Q[i] /\ k <= i) <=> i = k
    BY <2>1, <2>2, <2>3
  <2>6. f[k] \in B[f[i]] <=> Precedes(P[f[k]], P[f[i]]) \/ (P[f[k]] = P[f[i]] /\ f[k] <= f[i])
    BY <1>9, <2>1
  <2>7. k \in C[i] <=> Precedes(Q[k], Q[i]) \/ (Q[k] = Q[i] /\ k <= i)
    BY <1>10
  <2> QED BY <2>2, <2>4, <2>5, <2>6, <2>7
<1>16. ASSUME NEW i \in V PROVE Cardinality(C[i]) = Cardinality(B[f[i]])
  <2> DEFINE S == C[i]
             T == B[f[i]]
  <2>1. S \subseteq V /\ f[i] \in U /\ T \subseteq U
    BY <1>4, <1>5, <1>12
  <2>2. IsFiniteSet(S)
    BY <1>7, <2>1, FS_Subset
  <2>3. \A x \in S : f[x] \in T
    BY <1>15, <2>1
  <2>4. \A x, y \in S : f[x] = f[y] => x = y
    BY <1>1, <1>5, <2>1
  <2>5. ASSUME NEW t \in T PROVE \E x \in S : f[x] = t
    <3>1. t \in U /\ t \in D
      BY <1>5, <2>1
    <3>2. PICK x \in D : f[x] = t
      BY <1>1, <3>1
    <3>3. x \in V
      BY <1>4, <3>1, <3>2
    <3> QED BY <1>15, <3>2, <3>3
  <2> HIDE DEF S, T
  <2>6. Cardinality(T) = Cardinality(S)
    BY <2>2, <2>3, <2>4, <2>5, SameSize
  <2> QED BY <2>6 DEF S, T
<1>17. Cardinality(V) = n
  <2>1. \A x \in V : f[x] \in U
    BY <1>4, <1>5
  <2>2. \A x, y \in V : f[x] = f[y] => x = y
    BY <1>1, <1>5
  <2>3. \A t \in U : \E x \in V : f[x] = t
    BY <1>1, <1>4, <1>5
  <2> QED BY <1>7, <2>1, <2>2, <2>3, SameSize
<1> HIDE DEF n
<1>18. /\ n \in Nat /\ Ranked(U, B) \in [1 .. n -> U] /\ Ranked(V, C) \in [1 .. n -> V]
       /\ \A m \in 1 .. n : Cardinality(B[Ranked(U, B)[m]]) = m
       /\ \A m \in 1 .. n : Cardinality(C[Ranked(V, C)[m]]) = m
       /\ \A x \in U : \E m \in 1 .. n : Ranked(U, B)[m] = x
  BY <1>7, <1>17, RankedSorts DEF n
<1>19. ASSUME NEW m \in 1 .. n PROVE f[Ranked(V, C)[m]] = Ranked(U, B)[m]
  <2>1. Ranked(V, C)[m] \in V /\ f[Ranked(V, C)[m]] \in U
    BY <1>4, <1>5, <1>18
  <2>2. Cardinality(B[f[Ranked(V, C)[m]]]) = m
    BY <1>16, <1>18, <2>1
  <2>3. PICK q \in 1 .. n : Ranked(U, B)[q] = f[Ranked(V, C)[m]]
    BY <1>18, <2>1
  <2>4. Cardinality(B[Ranked(U, B)[q]]) = q
    BY <1>18
  <2>5. q = m
    BY <2>2, <2>3, <2>4
  <2> QED BY <2>3, <2>5
<1>20. ASSUME NEW m \in 1 .. n
       PROVE  /\ Q[Ranked(V, C)[m]] = P[Ranked(U, B)[m]]
              /\ other[Ranked(V, C)[m]] = ops[Ranked(U, B)[m]]
  <2>1. Ranked(V, C)[m] \in V
    BY <1>18
  <2> QED BY <1>2, <1>5, <1>6, <1>19, <2>1
<1>21. DOMAIN Ranked(U, B) = 1 .. n /\ DOMAIN Ranked(V, C) = 1 .. n
  BY <1>18
<1>22. Placed(other, source, guard) = Placed(ops, source, guard)
  BY <1>13, <1>14, <1>20, <1>21
<1> QED BY <1>3, <1>22 DEF other, D

LEMMA PlacedGivesText ==
  ASSUME NEW a, NEW b, NEW source, NEW role, Placed(a, source, guard) = Placed(b, source, guard)
  PROVE  Spans(a, source, role, guard).text = Spans(b, source, role, guard).text
<1> DEFINE Text(x) == LET result == Spliced(source, x)
                      IN  IF x = <<>> \/ LineRefusal(x, result, source, role, guard) # {}
                          THEN {} ELSE {result}
<1>1. Spans(a, source, role, guard).text = Text(Accepted(a, source))
  BY SpansAre
<1>2. Spans(b, source, role, guard).text = Text(Accepted(b, source))
  BY SpansAre
<1>3. Accepted(a, source) = Accepted(b, source)
  BY DEF Accepted
<1> HIDE DEF Text
<1> QED BY <1>1, <1>2, <1>3

\* The edits of a line may overlap, touch or move each other's characters and come in
\* any order: the accepted ones land on the characters they name, and edits that name
\* different ranges give the same text in every order.
THEOREM EditsLandInPlace == Spec => []EditsLand
<1>1. ASSUME ReplyInv PROVE EditsLand
  <2>1. doc \in Documents /\ page \in DOMAIN doc /\ script \in Seq(EditType)
    BY <1>1 DEF ReplyInv, Recorded
  <2> SUFFICES ASSUME NEW l \in doc[page].targets
               PROVE  LET ops     == OpsOn(SpanEdits(script), l)
                          source  == doc[page].text[l]
                          Text(o) == Spans(o, source, doc[page].role[l], guard).text
                          Named(i) == Where(ops[i].anchor, source)
                      IN  /\ Text(ops) \subseteq {InPlace(source, Compatible(Placed(ops, source, guard)))}
                          /\ (\A i, k \in DOMAIN ops : Named(i) = Named(k) /\ Named(i) # {} => i = k) =>
                               \A other \in Orders(ops) : Text(other) = Text(ops)
    BY DEF EditsLand
  <2> DEFINE ops     == OpsOn(SpanEdits(script), l)
             source  == doc[page].text[l]
             role    == doc[page].role[l]
             Text(o) == Spans(o, source, role, guard).text
  <2>2. source \in TextType /\ IsSpans(ops)
    BY <2>1, PageFacts, KindOnLine
  <2> HIDE DEF ops, source, role
  <2>3. Text(ops) \subseteq {InPlace(source, Compatible(Placed(ops, source, guard)))}
    BY <2>2, SpansGive DEF Accepted
  <2>4. ASSUME Apart(ops, source), NEW other \in Orders(ops) PROVE Text(other) = Text(ops)
    <3>1. PICK f \in Bijection(DOMAIN ops, DOMAIN ops) : other = [i \in DOMAIN ops |-> ops[f[i]]]
      BY <2>4 DEF Orders
    <3>2. Placed(other, source, guard) = Placed(ops, source, guard)
      BY <2>2, <2>4, <3>1, RearrangedPlaced
    <3> QED BY <3>2, PlacedGivesText
  <2> HIDE DEF Text
  <2>5. /\ Text(ops) \subseteq {InPlace(source, Compatible(Placed(ops, source, guard)))}
        /\ Apart(ops, source) => \A other \in Orders(ops) : Text(other) = Text(ops)
    BY <2>3, <2>4
  <2> QED BY <2>5 DEF Text, ops, source, role, Apart
<1> QED BY <1>1, ReplyAlways, PTL

----
(***************************************************************************)
(* The budget.  A line given with edits is no further from its source than *)
(* the edits together cost: in the table of distances there is a way from  *)
(* one corner to the other that walks along what no edit replaces for      *)
(* nothing, and along each edit for what it changes.                       *)
(***************************************************************************)
Cells(a, b)   == (0 .. Len(a)) \X (0 .. Len(b))
Near(a, b, s) == {p \in Cells(a, b) : p[1] + p[2] <= s}
Body(f, a, b, p) ==
  LET i == p[1]
      k == p[2]
  IN  IF i = 0 THEN k ELSE IF k = 0 THEN i
      ELSE Min({f[<<i - 1, k>>] + 1, f[<<i, k - 1>>] + 1,
                f[<<i - 1, k - 1>>] + IF a[i] = b[k] THEN 0 ELSE 1})
Table(f, a, b, S) == f = [p \in S |-> Body(f, a, b, p)]

LEMMA TableDefined ==
  ASSUME NEW a, NEW b, Len(a) \in Nat, Len(b) \in Nat
  PROVE  \E f : Table(f, a, b, Cells(a, b))
<1> DEFINE Missing == {s \in Nat : ~ \E f : Table(f, a, b, Near(a, b, s))}
<1>1. SUFFICES ASSUME Missing # {} PROVE FALSE
  <2>1. Len(a) + Len(b) \in Nat
    OBVIOUS
  <2>2. Near(a, b, Len(a) + Len(b)) = Cells(a, b)
    BY DEF Near, Cells
  <2>3. Len(a) + Len(b) \notin Missing => \E f : Table(f, a, b, Near(a, b, Len(a) + Len(b)))
    BY <2>1
  <2> HIDE DEF Missing
  <2> QED BY <2>2, <2>3
<1>2. PICK s \in Missing : \A k \in Missing : s <= k
  <2>1. Missing \in SUBSET Nat
    OBVIOUS
  <2> HIDE DEF Missing
  <2> QED BY <1>1, <2>1, FirstExists
<1>3. s \in Nat /\ ~ \E f : Table(f, a, b, Near(a, b, s))
  BY <1>2
<1>4. ASSUME NEW p \in Near(a, b, s)
      PROVE  p \in Cells(a, b) /\ p[1] \in Nat /\ p[2] \in Nat /\ p[1] + p[2] <= s
  BY DEF Near, Cells
<1>5. CASE s = 0
  <2> DEFINE f == [p \in Near(a, b, s) |-> p[2]]
  <2>1. \A p \in Near(a, b, s) : p[1] = 0
    BY <1>4, <1>5
  <2>2. \A p \in Near(a, b, s) : Body(f, a, b, p) = p[2]
    BY <2>1 DEF Body
  <2>3. Table(f, a, b, Near(a, b, s))
    <3>1. f = [p \in Near(a, b, s) |-> p[2]]
      OBVIOUS
    <3> HIDE DEF f
    <3> QED BY <2>2, <3>1 DEF Table
  <2> QED BY <1>3, <2>3
<1>6. CASE s # 0
  <2>1. s - 1 \in Nat /\ s - 1 < s
    BY <1>3, <1>6
  <2>2. s - 1 \notin Missing
    <3> HIDE DEF Missing
    <3> QED BY <1>2, <1>3, <2>1
  <2>3. PICK g : Table(g, a, b, Near(a, b, s - 1))
    BY <2>1, <2>2
  <2> DEFINE f == [p \in Near(a, b, s) |-> Body(g, a, b, p)]
  <2>4. ASSUME NEW q \in Near(a, b, s - 1) PROVE f[q] = g[q]
    <3>1. q \in Near(a, b, s)
      BY <1>3, <2>1 DEF Near, Cells
    <3>2. g[q] = Body(g, a, b, q)
      BY <2>3 DEF Table
    <3>3. f[q] = Body(g, a, b, q)
      BY <3>1
    <3> QED BY <3>2, <3>3
  <2>5. ASSUME NEW p \in Near(a, b, s) PROVE Body(f, a, b, p) = Body(g, a, b, p)
    <3> DEFINE i == p[1]
               k == p[2]
    <3>1. i \in 0 .. Len(a) /\ k \in 0 .. Len(b) /\ i + k <= s
      BY DEF Near, Cells
    <3> HIDE DEF i, k, f
    <3>2. CASE i = 0 \/ k = 0
      BY <3>2 DEF Body, i, k
    <3>3. CASE i # 0 /\ k # 0
      <4>1. /\ i - 1 \in 0 .. Len(a) /\ k - 1 \in 0 .. Len(b)
            /\ (i - 1) + k <= s - 1 /\ i + (k - 1) <= s - 1 /\ (i - 1) + (k - 1) <= s - 1
        BY <1>3, <3>1, <3>3
      <4>2. /\ <<i - 1, k>> \in Near(a, b, s - 1) /\ <<i, k - 1>> \in Near(a, b, s - 1)
            /\ <<i - 1, k - 1>> \in Near(a, b, s - 1)
        BY <3>1, <4>1 DEF Near, Cells
      <4>3. /\ f[<<i - 1, k>>] = g[<<i - 1, k>>] /\ f[<<i, k - 1>>] = g[<<i, k - 1>>]
            /\ f[<<i - 1, k - 1>>] = g[<<i - 1, k - 1>>]
        BY <2>4, <4>2
      <4> QED BY <4>3 DEF Body, i, k
    <3> QED BY <3>2, <3>3
  <2>6. Table(f, a, b, Near(a, b, s))
    <3>1. f = [p \in Near(a, b, s) |-> Body(g, a, b, p)]
      OBVIOUS
    <3> HIDE DEF f
    <3> QED BY <2>5, <3>1 DEF Table
  <2> QED BY <1>3, <2>6
<1> QED BY <1>5, <1>6

\* The distance is the last entry of the table.
LEMMA DistanceIs ==
  ASSUME NEW a, NEW b, Len(a) \in Nat, Len(b) \in Nat
  PROVE  \E d : Table(d, a, b, Cells(a, b)) /\ Distance(a, b) = d[<<Len(a), Len(b)>>]
<1> DEFINE d == CHOOSE d : Table(d, a, b, Cells(a, b))
<1>1. Distance(a, b) = d[<<Len(a), Len(b)>>]
  BY DEF Distance, Table, Body, Cells
<1>2. \E f : Table(f, a, b, Cells(a, b))
  BY TableDefined
<1>3. Table(d, a, b, Cells(a, b))
  BY <1>2
<1> QED BY <1>1, <1>3

\* Its entries are numbers.
LEMMA TableTyped ==
  ASSUME NEW a, NEW b, Len(a) \in Nat, Len(b) \in Nat, NEW d, Table(d, a, b, Cells(a, b))
  PROVE  \A p \in Cells(a, b) : d[p] \in Nat
<1> DEFINE Bad == {s \in Nat : \E p \in Cells(a, b) : p[1] + p[2] = s /\ d[p] \notin Nat}
<1>0. \A p \in Cells(a, b) : p[1] \in 0 .. Len(a) /\ p[2] \in 0 .. Len(b) /\ p[1] + p[2] \in Nat
                             /\ p = <<p[1], p[2]>>
  BY DEF Cells
<1>1. SUFFICES ASSUME Bad # {} PROVE FALSE
  BY <1>0
<1>2. PICK s \in Bad : \A k \in Bad : s <= k
  <2>1. Bad \in SUBSET Nat
    OBVIOUS
  <2> HIDE DEF Bad
  <2> QED BY <1>1, <2>1, FirstExists
<1>3. PICK p \in Cells(a, b) : p[1] + p[2] = s /\ d[p] \notin Nat
  BY <1>2
<1>4. \A q \in Cells(a, b) : q[1] + q[2] < s => d[q] \in Nat
  <2> SUFFICES ASSUME NEW q \in Cells(a, b), q[1] + q[2] < s, d[q] \notin Nat PROVE FALSE
    OBVIOUS
  <2>1. q[1] + q[2] \in Bad
    BY <1>0
  <2>2. s \in Nat
    BY <1>0, <1>3
  <2> HIDE DEF Bad
  <2> QED BY <1>0, <1>2, <2>1, <2>2
<1> DEFINE i == p[1]
           k == p[2]
<1>5. i \in 0 .. Len(a) /\ k \in 0 .. Len(b) /\ p = <<i, k>> /\ s = i + k
  BY <1>0, <1>3
<1>6. d[p] = Body(d, a, b, p)
  BY DEF Table
<1> HIDE DEF i, k
<1>7. i # 0 /\ k # 0
  BY <1>3, <1>5, <1>6 DEF Body, i, k
<1>8. /\ <<i - 1, k>> \in Cells(a, b) /\ <<i, k - 1>> \in Cells(a, b) /\ <<i - 1, k - 1>> \in Cells(a, b)
      /\ (i - 1) + k < s /\ i + (k - 1) < s /\ (i - 1) + (k - 1) < s
  BY <1>5, <1>7 DEF Cells
<1>9. d[<<i - 1, k>>] \in Nat /\ d[<<i, k - 1>>] \in Nat /\ d[<<i - 1, k - 1>>] \in Nat
  BY <1>4, <1>8
<1> DEFINE S == {d[<<i - 1, k>>] + 1, d[<<i, k - 1>>] + 1,
                 d[<<i - 1, k - 1>>] + IF a[i] = b[k] THEN 0 ELSE 1}
<1>10. S \in SUBSET Nat /\ S # {}
  BY <1>9
<1>11. d[p] = Min(S)
  BY <1>6, <1>7 DEF Body, i, k
<1> HIDE DEF S
<1>12. d[p] \in S
  BY <1>10, <1>11, MinOf
<1> QED BY <1>3, <1>10, <1>12

\* One step: a character taken or added costs one, one that stays nothing.
LEMMA TableSteps ==
  ASSUME NEW a, NEW b, Len(a) \in Nat, Len(b) \in Nat, NEW d, Table(d, a, b, Cells(a, b)),
         NEW i \in 0 .. Len(a), NEW k \in 0 .. Len(b)
  PROVE  /\ d[<<i, k>>] \in Nat
         /\ i + 1 <= Len(a) => d[<<i + 1, k>>] <= d[<<i, k>>] + 1
         /\ k + 1 <= Len(b) => d[<<i, k + 1>>] <= d[<<i, k>>] + 1
         /\ i + 1 <= Len(a) /\ k + 1 <= Len(b) =>
              d[<<i + 1, k + 1>>] <= d[<<i, k>>] + IF a[i + 1] = b[k + 1] THEN 0 ELSE 1
<1>1. \A p \in Cells(a, b) : d[p] \in Nat
  BY TableTyped
<1>2. \A x \in 0 .. Len(a), y \in 0 .. Len(b) :
        <<x, y>> \in Cells(a, b) /\ d[<<x, y>>] \in Nat /\ d[<<x, y>>] = Body(d, a, b, <<x, y>>)
  BY <1>1 DEF Cells, Table
<1>3. \A x \in 0 .. Len(a), y \in 0 .. Len(b) : x = 0 => d[<<x, y>>] = y
  BY <1>2 DEF Body
<1>4. \A x \in 0 .. Len(a), y \in 0 .. Len(b) : y = 0 => d[<<x, y>>] = x
  <2> SUFFICES ASSUME NEW x \in 0 .. Len(a), NEW y \in 0 .. Len(b), y = 0 PROVE d[<<x, y>>] = x
    OBVIOUS
  <2>1. CASE x = 0
    BY <1>3, <2>1
  <2>2. CASE x # 0
    <3>1. Body(d, a, b, <<x, y>>) = x
      BY <2>2 DEF Body
    <3> QED BY <1>2, <3>1
  <2> QED BY <2>1, <2>2
<1>5. ASSUME NEW x \in 1 .. Len(a), NEW y \in 1 .. Len(b)
      PROVE  /\ d[<<x, y>>] <= d[<<x - 1, y>>] + 1
             /\ d[<<x, y>>] <= d[<<x, y - 1>>] + 1
             /\ d[<<x, y>>] <= d[<<x - 1, y - 1>>] + IF a[x] = b[y] THEN 0 ELSE 1
  <2> DEFINE S == {d[<<x - 1, y>>] + 1, d[<<x, y - 1>>] + 1,
                   d[<<x - 1, y - 1>>] + IF a[x] = b[y] THEN 0 ELSE 1}
  <2>1. x \in 0 .. Len(a) /\ y \in 0 .. Len(b) /\ x - 1 \in 0 .. Len(a) /\ y - 1 \in 0 .. Len(b) /\ x # 0 /\ y # 0
    OBVIOUS
  <2>2. d[<<x - 1, y>>] \in Nat /\ d[<<x, y - 1>>] \in Nat /\ d[<<x - 1, y - 1>>] \in Nat
    BY <1>2, <2>1
  <2>3. S \in SUBSET Nat /\ S # {}
    <3> DEFINE e == d[<<x - 1, y - 1>>]
    <3>1. e + (IF a[x] = b[y] THEN 0 ELSE 1) \in Nat
      <4>1. CASE a[x] = b[y]
        BY <2>2, <4>1
      <4>2. CASE a[x] # b[y]
        BY <2>2, <4>2
      <4> QED BY <4>1, <4>2
    <3> QED BY SMTT(30), <2>2, <3>1
  <2>4. d[<<x, y>>] = Min(S)
    <3>1. Body(d, a, b, <<x, y>>) = Min(S)
      BY <2>1 DEF Body
    <3> HIDE DEF S
    <3> QED BY <1>2, <2>1, <3>1
  <2>5. \A z \in S : Min(S) <= z
    <3> HIDE DEF S
    <3> QED BY <2>3, MinOf
  <2> QED BY <2>4, <2>5
<1>6. ASSUME i + 1 <= Len(a) PROVE d[<<i + 1, k>>] <= d[<<i, k>>] + 1
  <2>1. i + 1 \in 1 .. Len(a) /\ i + 1 \in 0 .. Len(a) /\ (i + 1) - 1 = i
    BY <1>6
  <2>2. CASE k = 0
    BY <1>4, <2>1, <2>2
  <2>3. CASE k # 0
    <3>1. k \in 1 .. Len(b)
      BY <2>3
    <3> QED BY <1>5, <2>1, <3>1
  <2> QED BY <2>2, <2>3
<1>7. ASSUME k + 1 <= Len(b) PROVE d[<<i, k + 1>>] <= d[<<i, k>>] + 1
  <2>1. k + 1 \in 1 .. Len(b) /\ k + 1 \in 0 .. Len(b) /\ (k + 1) - 1 = k
    BY <1>7
  <2>2. CASE i = 0
    BY <1>3, <2>1, <2>2
  <2>3. CASE i # 0
    <3>1. i \in 1 .. Len(a)
      BY <2>3
    <3> QED BY <1>5, <2>1, <3>1
  <2> QED BY <2>2, <2>3
<1>8. ASSUME i + 1 <= Len(a), k + 1 <= Len(b)
      PROVE  d[<<i + 1, k + 1>>] <= d[<<i, k>>] + IF a[i + 1] = b[k + 1] THEN 0 ELSE 1
  <2>1. i + 1 \in 1 .. Len(a) /\ k + 1 \in 1 .. Len(b) /\ (i + 1) - 1 = i /\ (k + 1) - 1 = k
    BY <1>8
  <2> QED BY <1>5, <2>1
<1> QED BY <1>2, <1>6, <1>7, <1>8

\* Nothing is between an offset and itself.
LEMMA EmptyCut ==
  ASSUME NEW t \in TextType, NEW n, n = Len(t)
  PROVE  Cut(t, n - 0, n) = <<>>
<1>1. n \in Nat
  BY TextLen
<1>2. Cut(t, n, n) \in Seq(Char) /\ Len(Cut(t, n, n)) = 0
  <2>0. n <= n /\ n <= Len(t)
    BY <1>1
  <2>1. Cut(t, n, n) \in TextType /\ Len(Cut(t, n, n)) = n - n
    BY <1>1, <2>0, CutFacts
  <2> QED BY <1>1, <2>1 DEF TextType
<1>3. Cut(t, n, n) = <<>>
  BY <1>2, EmptySeq
<1>4. n - 0 = n
  BY <1>1
<1> QED BY <1>3, <1>4

\* Along characters that are the same the table costs nothing.
LEMMA CopyMove ==
  ASSUME NEW a, NEW b, Len(a) \in Nat, Len(b) \in Nat, NEW d, Table(d, a, b, Cells(a, b)),
         NEW i \in Nat, NEW k \in Nat, NEW n \in Nat, i + n <= Len(a), k + n <= Len(b),
         \A t \in 1 .. n : a[i + t] = b[k + t]
  PROVE  d[<<i + n, k + n>>] <= d[<<i, k>>] /\ d[<<i + n, k + n>>] \in Nat /\ d[<<i, k>>] \in Nat
<1>1. \A t \in 0 .. n : d[<<i + t, k + t>>] \in Nat
  <2> SUFFICES ASSUME NEW t \in 0 .. n PROVE d[<<i + t, k + t>>] \in Nat
    OBVIOUS
  <2>1. i + t \in 0 .. Len(a) /\ k + t \in 0 .. Len(b)
    OBVIOUS
  <2> QED BY <2>1, TableSteps
<1> DEFINE Bad == {t \in 0 .. n : ~ (d[<<i + t, k + t>>] <= d[<<i, k>>])}
<1>2. Bad = {}
  <2>1. SUFFICES ASSUME Bad # {} PROVE FALSE
    OBVIOUS
  <2>2. PICK t \in Bad : \A u \in Bad : t <= u
    <3>1. Bad \in SUBSET Nat
      OBVIOUS
    <3> HIDE DEF Bad
    <3> QED BY <2>1, <3>1, FirstExists
  <2>3. t \in 0 .. n /\ ~ (d[<<i + t, k + t>>] <= d[<<i, k>>])
    OBVIOUS
  <2>4. i + 0 = i /\ k + 0 = k /\ 0 \in 0 .. n
    OBVIOUS
  <2>5. t # 0
    <3>1. d[<<i, k>>] \in Nat
      <4>1. i \in 0 .. Len(a) /\ k \in 0 .. Len(b)
        OBVIOUS
      <4> QED BY <4>1, TableSteps
    <3>2. d[<<i, k>>] <= d[<<i, k>>]
      BY <3>1
    <3>3. t = 0 => <<i + t, k + t>> = <<i, k>>
      BY <2>4
    <3> QED BY <2>3, <3>2, <3>3, Zenon
  <2>6. t - 1 \in 0 .. n /\ t - 1 < t /\ t \in 1 .. n
    BY <2>3, <2>5
  <2>7. t - 1 \notin Bad
    <3> HIDE DEF Bad
    <3> QED BY <2>2, <2>3, <2>6
  <2> DEFINE x == i + (t - 1)
             y == k + (t - 1)
  <2>8. /\ x \in 0 .. Len(a) /\ y \in 0 .. Len(b) /\ x + 1 = i + t /\ y + 1 = k + t
        /\ x + 1 <= Len(a) /\ y + 1 <= Len(b)
    BY <2>6
  <2>9. d[<<x, y>>] <= d[<<i, k>>]
    BY <2>6, <2>7
  <2> HIDE DEF x, y
  <2>10. a[x + 1] = b[y + 1]
    BY <2>6, <2>8
  <2>11. d[<<x + 1, y + 1>>] <= d[<<x, y>>] + IF a[x + 1] = b[y + 1] THEN 0 ELSE 1
    BY <2>8, TableSteps
  <2>12. d[<<x + 1, y + 1>>] <= d[<<x, y>>] + 0
    BY <2>10, <2>11
  <2>13. d[<<x, y>>] \in Nat /\ d[<<x + 1, y + 1>>] \in Nat /\ d[<<i, k>>] \in Nat
    <3>1. d[<<x, y>>] \in Nat /\ d[<<i, k>>] \in Nat
      <4>1. i \in 0 .. Len(a) /\ k \in 0 .. Len(b)
        OBVIOUS
      <4> QED BY <2>8, <4>1, TableSteps
    <3>2. x + 1 \in 0 .. Len(a) /\ y + 1 \in 0 .. Len(b)
      BY <2>8
    <3> DEFINE x1 == x + 1
               y1 == y + 1
    <3> HIDE DEF x1, y1
    <3>3. d[<<x1, y1>>] \in Nat
      BY <3>2, TableSteps DEF x1, y1
    <3> QED BY <3>1, <3>3 DEF x1, y1
  <2>14. d[<<x + 1, y + 1>>] <= d[<<i, k>>]
    BY <2>9, <2>12, <2>13
  <2>15. <<i + t, k + t>> = <<x + 1, y + 1>>
    BY <2>8
  <2> QED BY <2>3, <2>14, <2>15, Zenon
<1>3. n \in 0 .. n /\ 0 \in 0 .. n /\ i + 0 = i /\ k + 0 = k
  OBVIOUS
<1>4. d[<<i + n, k + n>>] <= d[<<i, k>>]
  BY <1>2, <1>3
<1> QED BY <1>1, <1>3, <1>4

\* Across a part of each text it costs at most the longer of the two.
LEMMA BlockMove ==
  ASSUME NEW a, NEW b, Len(a) \in Nat, Len(b) \in Nat, NEW d, Table(d, a, b, Cells(a, b)),
         NEW i \in Nat, NEW k \in Nat, NEW c \in Nat, NEW p \in 0 .. c, NEW q \in 0 .. c,
         i + p <= Len(a), k + q <= Len(b)
  PROVE  d[<<i + p, k + q>>] <= d[<<i, k>>] + c /\ d[<<i + p, k + q>>] \in Nat /\ d[<<i, k>>] \in Nat
<1>0. \A x \in 0 .. p, y \in 0 .. q : /\ i + x \in 0 .. Len(a) /\ k + y \in 0 .. Len(b)
                                      /\ d[<<i + x, k + y>>] \in Nat
  <2> SUFFICES ASSUME NEW x \in 0 .. p, NEW y \in 0 .. q
               PROVE  /\ i + x \in 0 .. Len(a) /\ k + y \in 0 .. Len(b)
                      /\ d[<<i + x, k + y>>] \in Nat
    OBVIOUS
  <2>1. i + x \in 0 .. Len(a) /\ k + y \in 0 .. Len(b)
    OBVIOUS
  <2> QED BY <2>1, TableSteps
<1> DEFINE Up(x, y, e) == x <= e /\ y <= e /\ ~ (d[<<i + x, k + y>>] <= d[<<i, k>>] + e)
           Bad == {e \in Nat : \E x \in 0 .. p, y \in 0 .. q : Up(x, y, e)}
<1>1. i + 0 = i /\ k + 0 = k /\ d[<<i, k>>] \in Nat
  <2>1. i + 0 = i /\ k + 0 = k /\ 0 \in 0 .. p /\ 0 \in 0 .. q
    OBVIOUS
  <2> QED BY <1>0, <2>1
<1>2. Bad = {}
  <2>1. SUFFICES ASSUME Bad # {} PROVE FALSE
    OBVIOUS
  <2>2. PICK e \in Bad : \A u \in Bad : e <= u
    <3>1. Bad \in SUBSET Nat
      OBVIOUS
    <3> HIDE DEF Bad
    <3> QED BY <2>1, <3>1, FirstExists
  <2>3. PICK x \in 0 .. p, y \in 0 .. q : Up(x, y, e)
    BY <2>2
  <2>4. e \in Nat /\ x <= e /\ y <= e /\ ~ (d[<<i + x, k + y>>] <= d[<<i, k>>] + e)
    BY <2>3
  <2>5. e # 0
    <3>1. e = 0 => x = 0 /\ y = 0
      BY <2>4
    <3> QED BY <1>1, <2>4, <3>1
  <2> DEFINE v == IF x = 0 THEN 0 ELSE x - 1
             w == IF y = 0 THEN 0 ELSE y - 1
  <2>6. v \in 0 .. p /\ w \in 0 .. q /\ v <= e - 1 /\ w <= e - 1 /\ e - 1 \in Nat
    BY <2>4, <2>5
  <2>7. v = x \/ v + 1 = x
    OBVIOUS
  <2>8. w = y \/ w + 1 = y
    OBVIOUS
  <2> HIDE DEF v, w
  <2>9. e - 1 \notin Bad
    <3>1. ~ (e <= e - 1)
      BY <2>4
    <3> HIDE DEF Bad
    <3> QED BY <2>2, <3>1
  <2>10. d[<<i + v, k + w>>] <= d[<<i, k>>] + (e - 1)
    BY <2>6, <2>9
  <2> DEFINE f == i + v
             g == k + w
             X == i + x
             Y == k + y
             here  == d[<<f, g>>]
             there == d[<<X, Y>>]
  <2>11. f \in 0 .. Len(a) /\ g \in 0 .. Len(b) /\ here \in Nat
    BY <1>0, <2>6
  <2>12. X \in 0 .. Len(a) /\ Y \in 0 .. Len(b) /\ there \in Nat
    BY <1>0
  <2>13. X = f \/ X = f + 1
    BY <2>6, <2>7
  <2>14. Y = g \/ Y = g + 1
    BY <2>6, <2>8
  <2>15. here <= d[<<i, k>>] + (e - 1) /\ ~ (there <= d[<<i, k>>] + e)
    BY <2>4, <2>10
  <2> HIDE DEF f, g, X, Y, Up
  <2>16. there <= here + 1
    <3>1. CASE X = f /\ Y = g
      <4>1. there = here
        BY <3>1
      <4> HIDE DEF there, here
      <4> QED BY <2>11, <4>1
    <3>2. CASE X = f + 1 /\ Y = g
      <4>0. f \in 0 .. Len(a) /\ g \in 0 .. Len(b) /\ f + 1 <= Len(a)
        BY <2>11, <2>12, <3>2
      <4>1. d[<<f + 1, g>>] <= d[<<f, g>>] + 1
        BY <4>0, TableSteps
      <4>2. <<X, Y>> = <<f + 1, g>>
        BY <3>2
      <4> QED BY <4>1, <4>2, Zenon
    <3>3. CASE X = f /\ Y = g + 1
      <4>0. f \in 0 .. Len(a) /\ g \in 0 .. Len(b) /\ g + 1 <= Len(b)
        BY <2>11, <2>12, <3>3
      <4>1. d[<<f, g + 1>>] <= d[<<f, g>>] + 1
        BY <4>0, TableSteps
      <4>2. <<X, Y>> = <<f, g + 1>>
        BY <3>3
      <4> QED BY <4>1, <4>2, Zenon
    <3>4. CASE X = f + 1 /\ Y = g + 1
      <4>0. f \in 0 .. Len(a) /\ g \in 0 .. Len(b) /\ f + 1 <= Len(a) /\ g + 1 <= Len(b)
        BY <2>11, <2>12, <3>4
      <4>1. d[<<f + 1, g + 1>>] <= d[<<f, g>>] + IF a[f + 1] = b[g + 1] THEN 0 ELSE 1
        BY <4>0, TableSteps
      <4>2. <<X, Y>> = <<f + 1, g + 1>>
        BY <3>4
      <4>3. there <= here + IF a[f + 1] = b[g + 1] THEN 0 ELSE 1
        BY <4>1, <4>2, Zenon
      <4> HIDE DEF there, here
      <4>4. CASE a[f + 1] = b[g + 1]
        <5>1. there <= here + 0
          BY <4>3, <4>4
        <5> QED BY <2>11, <2>12, <5>1
      <4>5. CASE a[f + 1] # b[g + 1]
        BY <4>3, <4>5
      <4> QED BY <4>4, <4>5
    <3> QED BY <2>13, <2>14, <3>1, <3>2, <3>3, <3>4
  <2> HIDE DEF there, here
  <2> DEFINE from == d[<<i, k>>]
  <2>17. from \in Nat /\ here <= from + (e - 1) /\ ~ (there <= from + e)
    BY <1>1, <2>15
  <2> HIDE DEF from
  <2> QED BY <2>4, <2>11, <2>12, <2>16, <2>17
<1>3. p \in 0 .. p /\ q \in 0 .. q /\ p <= c /\ q <= c
  OBVIOUS
<1>4. d[<<i + p, k + q>>] <= d[<<i, k>>] + c
  BY <1>2, <1>3
<1> QED BY <1>0, <1>1, <1>3, <1>4

\* Two texts begin with the same x characters and end with the same y.
CommonEnds(old, new, x, y) ==
  /\ x \in Nat /\ y \in Nat /\ x + y <= Len(old) /\ x + y <= Len(new)
  /\ Cut(old, 0, x) = Cut(new, 0, x)
  /\ Cut(old, Len(old) - y, Len(old)) = Cut(new, Len(new) - y, Len(new))

Costs(old, new, x, y) == Changed(old, new) = Max({Len(old), Len(new)}) - x - y

LEMMA ChangedFacts ==
  ASSUME NEW old \in TextType, NEW new \in TextType
  PROVE  \E x, y : CommonEnds(old, new, x, y) /\ Costs(old, new, x, y)
<1> DEFINE least == Min({Len(old), Len(new)})
           P     == {k \in 0 .. least : Cut(old, 0, k) = Cut(new, 0, k)}
           x     == Max(P)
           S     == {k \in 0 .. least - x :
                       Cut(old, Len(old) - k, Len(old)) = Cut(new, Len(new) - k, Len(new))}
           y     == Max(S)
<1>1. Len(old) \in Nat /\ Len(new) \in Nat
  BY TextLen
<1>2. least \in Nat /\ least <= Len(old) /\ least <= Len(new)
  <2>1. Len(old) \in Int /\ Len(new) \in Int
    BY <1>1
  <2>2. /\ least \in Int /\ least <= Len(old) /\ least <= Len(new)
        /\ least = Len(old) \/ least = Len(new)
    BY <2>1, MinOfTwo
  <2> HIDE DEF least
  <2> QED BY <1>1, <2>2
<1> HIDE DEF least
<1>3. x \in P
  <2>1. Cut(old, 0, 0) = <<>> /\ Cut(new, 0, 0) = <<>>
    BY CutFull
  <2>2. 0 \in P /\ P \in SUBSET Nat /\ \A k \in P : k <= least
    BY <1>2, <2>1
  <2> HIDE DEF P
  <2> QED BY <1>2, <2>2, MaxOf
<1>4. x \in Nat /\ x <= least /\ Cut(old, 0, x) = Cut(new, 0, x)
  BY <1>2, <1>3
<1> HIDE DEF x, P
<1>5. y \in S
  <2>1. 0 \in S
    <3>1. Cut(old, Len(old) - 0, Len(old)) = <<>> /\ Cut(new, Len(new) - 0, Len(new)) = <<>>
      BY EmptyCut
    <3> QED BY <1>2, <1>4, <3>1
  <2>2. S \in SUBSET Nat /\ least - x \in Nat /\ \A k \in S : k <= least - x
    BY <1>2, <1>4
  <2> HIDE DEF S
  <2> QED BY <2>1, <2>2, MaxOf
<1>6. y \in Nat /\ x + y <= least
      /\ Cut(old, Len(old) - y, Len(old)) = Cut(new, Len(new) - y, Len(new))
  BY <1>2, <1>4, <1>5
<1>7. Changed(old, new) = Max({Len(old), Len(new)}) - x - y
  BY DEF Changed, x, P, y, S, least
<1> HIDE DEF y, S
<1>8. CommonEnds(old, new, x, y)
  BY <1>1, <1>2, <1>4, <1>6 DEF CommonEnds
<1> QED BY <1>7, <1>8 DEF Costs

\* Across a part that one text has and the other replaces it costs what is changed.
LEMMA ReplaceMove ==
  ASSUME NEW a, NEW b, Len(a) \in Nat, Len(b) \in Nat, NEW d, Table(d, a, b, Cells(a, b)),
         NEW i \in Nat, NEW k \in Nat, NEW old \in TextType, NEW new \in TextType,
         i + Len(old) <= Len(a), k + Len(new) <= Len(b),
         \A t \in 1 .. Len(old) : a[i + t] = old[t],
         \A t \in 1 .. Len(new) : b[k + t] = new[t]
  PROVE  /\ d[<<i + Len(old), k + Len(new)>>] <= d[<<i, k>>] + Changed(old, new)
         /\ Changed(old, new) \in Nat /\ d[<<i, k>>] \in Nat
         /\ d[<<i + Len(old), k + Len(new)>>] \in Nat
<1> DEFINE n   == Len(old)
           m   == Len(new)
           big == Max({n, m})
<1>1. n \in Nat /\ m \in Nat
  BY TextLen
<1>2. PICK x, y : CommonEnds(old, new, x, y) /\ Costs(old, new, x, y)
  BY ChangedFacts
<1>3. big \in Nat /\ n <= big /\ m <= big
  <2>1. n \in Int /\ m \in Int
    BY <1>1
  <2> HIDE DEF n, m
  <2>2. big \in Int /\ n <= big /\ m <= big /\ (big = n \/ big = m)
    BY <2>1, MaxOfTwo
  <2> HIDE DEF big
  <2> QED BY <1>1, <2>2
<1>4. /\ x \in Nat /\ y \in Nat /\ x + y <= n /\ x + y <= m
      /\ Cut(old, 0, x) = Cut(new, 0, x) /\ Cut(old, n - y, n) = Cut(new, m - y, m)
  BY <1>2 DEF CommonEnds
<1> DEFINE c == big - x - y
           p == n - x - y
           q == m - x - y
<1>5. Changed(old, new) = c
  BY <1>2 DEF Costs
<1> HIDE DEF n, m, big
<1>6. c \in Nat /\ p \in 0 .. c /\ q \in 0 .. c
  BY <1>1, <1>3, <1>4
<1>7. i + n <= Len(a) /\ k + m <= Len(b)
      /\ (\A t \in 1 .. n : a[i + t] = old[t]) /\ \A t \in 1 .. m : b[k + t] = new[t]
  BY DEF n, m
<1>8. ASSUME NEW t \in 1 .. x PROVE a[i + t] = b[k + t]
  <2>1. /\ Cut(old, 0, x)[t] = old[0 + t] /\ Cut(new, 0, x)[t] = new[0 + t]
    <3>1. t \in 1 .. x - 0 /\ 0 \in Nat /\ 0 <= x /\ x <= Len(old) /\ x <= Len(new)
      BY <1>1, <1>4 DEF n, m
    <3> QED BY <1>4, <3>1, CutFacts
  <2>2. old[0 + t] = new[0 + t] /\ 0 + t = t /\ t \in 1 .. n /\ t \in 1 .. m
    BY <1>1, <1>4, <2>1
  <2> QED BY <1>7, <2>2
<1> DEFINE i1 == i + x
           k1 == k + x
           i2 == i1 + p
           k2 == k1 + q
<1>9. d[<<i1, k1>>] <= d[<<i, k>>] /\ d[<<i1, k1>>] \in Nat /\ d[<<i, k>>] \in Nat
  <2>1. i + x <= Len(a) /\ k + x <= Len(b)
    BY <1>1, <1>4, <1>7
  <2> QED BY <1>4, <1>8, <2>1, CopyMove
<1>10. /\ i1 \in Nat /\ k1 \in Nat /\ i2 \in Nat /\ k2 \in Nat
       /\ i1 + p <= Len(a) /\ k1 + q <= Len(b) /\ i2 + y <= Len(a) /\ k2 + y <= Len(b)
       /\ i2 + y = i + n /\ k2 + y = k + m
  BY <1>1, <1>4, <1>6, <1>7
<1>11. /\ n - y \in Nat /\ m - y \in Nat /\ n - y <= n /\ m - y <= m
       /\ i2 = i + (n - y) /\ k2 = k + (m - y)
       /\ \A t \in 1 .. y : /\ i2 + t = i + ((n - y) + t) /\ k2 + t = k + ((m - y) + t)
                            /\ (n - y) + t \in 1 .. n /\ (m - y) + t \in 1 .. m
                            /\ t \in 1 .. n - (n - y) /\ t \in 1 .. m - (m - y)
  <2>1. /\ n - y \in Nat /\ m - y \in Nat /\ n - y <= n /\ m - y <= m
        /\ i2 = i + (n - y) /\ k2 = k + (m - y)
    <3>1. n - y \in Nat /\ m - y \in Nat /\ n - y <= n /\ m - y <= m
      BY <1>1, <1>4
    <3>2. i2 = (i + x) + (n - x - y) /\ k2 = (k + x) + (m - x - y)
      OBVIOUS
    <3>3. x \in Nat /\ y \in Nat
      BY <1>4
    <3> HIDE DEF i2, k2
    <3>4. i2 = i + (n - y)
      BY <1>1, <3>2, <3>3
    <3>5. k2 = k + (m - y)
      BY <1>1, <3>2, <3>3
    <3> QED BY <3>1, <3>4, <3>5
  <2> DEFINE u == n - y
             v == m - y
  <2>2. n = u + y /\ m = v + y /\ n - u = y /\ m - v = y
    BY <1>1, <1>4
  <2>3. u \in Nat /\ v \in Nat /\ i2 = i + u /\ k2 = k + v
    BY <2>1
  <2> HIDE DEF u, v, i2, k2
  <2>4. ASSUME NEW t \in 1 .. y
        PROVE  /\ i2 + t = i + (u + t) /\ k2 + t = k + (v + t)
               /\ u + t \in 1 .. n /\ v + t \in 1 .. m
               /\ t \in 1 .. n - u /\ t \in 1 .. m - v
    <3>1. y \in Nat
      BY <1>4
    <3>2. t \in Nat /\ 1 <= t /\ t <= y
      BY <3>1
    <3>3. i2 + t = i + (u + t) /\ k2 + t = k + (v + t)
      BY <2>3, <3>2
    <3>4. u + t \in 1 .. n /\ v + t \in 1 .. m
      BY <2>2, <2>3, <3>1, <3>2
    <3>5. t \in 1 .. n - u /\ t \in 1 .. m - v
      BY <2>2
    <3> QED BY <3>3, <3>4, <3>5
  <2> QED BY <2>1, <2>4 DEF u, v
<1> HIDE DEF i1, k1
<1>12. d[<<i2, k2>>] <= d[<<i1, k1>>] + c /\ d[<<i2, k2>>] \in Nat
  <2> HIDE DEF c, p, q
  <2> QED BY <1>6, <1>10, BlockMove
<1> HIDE DEF i2, k2
<1>13. ASSUME NEW t \in 1 .. y PROVE a[i2 + t] = b[k2 + t]
  <2>1. /\ Cut(old, n - y, n)[t] = old[(n - y) + t] /\ Cut(new, m - y, m)[t] = new[(m - y) + t]
    <3>1. n <= Len(old) /\ m <= Len(new)
      BY <1>1 DEF n, m
    <3>2. Cut(old, n - y, n)[t] = old[(n - y) + t]
      BY ZenonT(30), <1>1, <1>11, <3>1, CutFacts
    <3>3. Cut(new, m - y, m)[t] = new[(m - y) + t]
      BY ZenonT(30), <1>1, <1>11, <3>1, CutFacts
    <3> QED BY <3>2, <3>3
  <2>2. old[(n - y) + t] = new[(m - y) + t]
    BY <1>4, <2>1
  <2>3. a[i2 + t] = old[(n - y) + t]
    BY <1>7, <1>11
  <2>4. b[k2 + t] = new[(m - y) + t]
    BY <1>7, <1>11
  <2> QED BY <2>2, <2>3, <2>4
<1>14. d[<<i2 + y, k2 + y>>] <= d[<<i2, k2>>] /\ d[<<i2 + y, k2 + y>>] \in Nat
  BY <1>4, <1>10, <1>13, CopyMove
<1> DEFINE v0 == d[<<i, k>>]
           v1 == d[<<i1, k1>>]
           v2 == d[<<i2, k2>>]
           v3 == d[<<i2 + y, k2 + y>>]
<1>15. /\ v0 \in Nat /\ v1 \in Nat /\ v2 \in Nat /\ v3 \in Nat
       /\ v1 <= v0 /\ v2 <= v1 + c /\ v3 <= v2
  BY <1>9, <1>12, <1>14
<1>16. v3 = d[<<i + n, k + m>>]
  BY <1>10
<1> HIDE DEF v0, v1, v2, v3, c
<1>17. v3 <= v0 + c
  BY <1>6, <1>15
<1> QED BY <1>5, <1>6, <1>15, <1>16, <1>17 DEF n, m, v0

\* The corner where the table starts.
LEMMA TableStart ==
  ASSUME NEW a, NEW b, Len(a) \in Nat, Len(b) \in Nat, NEW d, Table(d, a, b, Cells(a, b))
  PROVE  d[<<0, 0>>] = 0
<1>1. <<0, 0>> \in Cells(a, b)
  BY DEF Cells
<1>2. d[<<0, 0>>] = Body(d, a, b, <<0, 0>>)
  BY <1>1 DEF Table
<1> QED BY <1>2 DEF Body

\* Two texts are no further apart than what is changed between them.
LEMMA DistanceChanged ==
  ASSUME NEW old \in TextType, NEW new \in TextType
  PROVE  Distance(old, new) <= Changed(old, new) /\ Distance(old, new) \in Nat /\ Changed(old, new) \in Nat
<1>1. Len(old) \in Nat /\ Len(new) \in Nat
  BY TextLen
<1>2. PICK d : Table(d, old, new, Cells(old, new)) /\ Distance(old, new) = d[<<Len(old), Len(new)>>]
  BY <1>1, DistanceIs
<1>3. /\ 0 \in Nat /\ 0 + Len(old) = Len(old) /\ 0 + Len(new) = Len(new)
      /\ 0 + Len(old) <= Len(old) /\ 0 + Len(new) <= Len(new)
      /\ (\A t \in 1 .. Len(old) : old[0 + t] = old[t]) /\ \A t \in 1 .. Len(new) : new[0 + t] = new[t]
  BY <1>1
<1>4. /\ d[<<0 + Len(old), 0 + Len(new)>>] <= d[<<0, 0>>] + Changed(old, new)
      /\ Changed(old, new) \in Nat /\ d[<<0 + Len(old), 0 + Len(new)>>] \in Nat
  BY <1>1, <1>2, <1>3, ReplaceMove
<1>5. d[<<0, 0>>] = 0
  BY <1>1, <1>2, TableStart
<1>6. <<0 + Len(old), 0 + Len(new)>> = <<Len(old), Len(new)>>
  BY <1>3
<1> DEFINE v == d[<<0 + Len(old), 0 + Len(new)>>]
<1>7. v = Distance(old, new)
  BY <1>2, <1>6
<1>8. v <= 0 + Changed(old, new)
  BY <1>4, <1>5
<1> HIDE DEF v
<1>9. Distance(old, new) \in Nat
  BY <1>4, <1>7 DEF v
<1> QED BY <1>4, <1>7, <1>8, <1>9

\* A text is at no distance from itself.
LEMMA DistanceSelf ==
  ASSUME NEW t \in TextType
  PROVE  Distance(t, t) = 0
<1>1. Len(t) \in Nat
  BY TextLen
<1>2. PICK d : Table(d, t, t, Cells(t, t)) /\ Distance(t, t) = d[<<Len(t), Len(t)>>]
  BY <1>1, DistanceIs
<1>3. 0 \in Nat /\ 0 + Len(t) <= Len(t) /\ 0 + Len(t) = Len(t)
  BY <1>1
<1>4. d[<<0 + Len(t), 0 + Len(t)>>] <= d[<<0, 0>>] /\ d[<<0 + Len(t), 0 + Len(t)>>] \in Nat
  BY <1>1, <1>2, <1>3, CopyMove
<1>5. d[<<0, 0>>] = 0
  BY <1>1, <1>2, TableStart
<1>6. <<0 + Len(t), 0 + Len(t)>> = <<Len(t), Len(t)>>
  BY <1>3
<1> DEFINE v == d[<<0 + Len(t), 0 + Len(t)>>]
<1>7. v = Distance(t, t) /\ v <= 0 /\ v \in Nat
  BY <1>2, <1>4, <1>5, <1>6
<1> HIDE DEF v
<1> QED BY <1>7

\* The accepted edits one after the other: where the source goes on after each, and
\* the text as far as each.
Reached(accepted, k) == IF k = 0 THEN 0 ELSE accepted[k].to

Built(H, source, accepted) ==
  LET n == Len(accepted)
  IN  /\ H \in [0 .. n + 1 -> TextType] /\ H[0] = <<>>
      /\ \A k \in 1 .. n :
           H[k] = H[k - 1] \o (Cut(source, Reached(accepted, k - 1), accepted[k].from) \o accepted[k].text)
      /\ H[n + 1] = H[n] \o Cut(source, Reached(accepted, n), Len(source))
      /\ H[n + 1] = InPlace(source, accepted)

\* The ranges of the accepted edits.
LEMMA ClearFacts ==
  ASSUME NEW source \in TextType, NEW accepted, Clear(accepted, source)
  PROVE  /\ Len(accepted) \in Nat /\ Reached(accepted, 0) = 0
         /\ \A k \in 1 .. Len(accepted) :
              /\ accepted[k].from \in Nat /\ accepted[k].to \in Nat /\ accepted[k].text \in TextType
              /\ accepted[k].from <= accepted[k].to /\ accepted[k].to <= Len(source)
              /\ accepted[k].from <= Len(source)
              /\ Reached(accepted, k - 1) \in Nat /\ Reached(accepted, k - 1) <= accepted[k].from
              /\ Reached(accepted, k) = accepted[k].to
         /\ Reached(accepted, Len(accepted)) \in Nat /\ Reached(accepted, Len(accepted)) <= Len(source)
<1> DEFINE n == Len(accepted)
           L == Len(source)
           From(k) == accepted[k].from
           To(k)   == accepted[k].to
           Text(k) == accepted[k].text
<1>1. n \in Nat /\ L \in Nat
  BY TextLen DEF Clear
<1>2. ASSUME NEW k \in 1 .. n
      PROVE  /\ From(k) \in Nat /\ To(k) \in Nat /\ From(k) <= To(k) /\ To(k) <= L /\ From(k) <= L
             /\ Text(k) \in TextType
             /\ Reached(accepted, k - 1) \in Nat /\ Reached(accepted, k - 1) <= From(k)
             /\ Reached(accepted, k) = To(k)
  <2>1. accepted[k] \in [from : Nat, to : Nat, text : TextType]
    BY ElementOfSeq DEF Clear
  <2>2. From(k) \in Nat /\ To(k) \in Nat /\ From(k) <= To(k) /\ To(k) <= L /\ Text(k) \in TextType
    BY <2>1 DEF Clear
  <2>3. From(k) <= L
    BY <1>1, <2>2
  <2>4. k # 0 /\ Reached(accepted, k) = To(k)
    BY <1>1 DEF Reached
  <2>5. CASE k = 1
    <3>1. Reached(accepted, k - 1) = 0
      BY <2>5 DEF Reached
    <3> QED BY <2>2, <2>3, <2>4, <3>1
  <2>6. CASE k # 1
    <3>1. k - 1 \in 1 .. n /\ k - 1 < k /\ k - 1 # 0
      BY <1>1, <2>6
    <3>2. accepted[k - 1] \in [from : Nat, to : Nat, text : TextType]
      BY <3>1, ElementOfSeq DEF Clear
    <3>3. To(k - 1) \in Nat /\ To(k - 1) <= From(k)
      BY <3>1, <3>2 DEF Clear
    <3>4. Reached(accepted, k - 1) = To(k - 1)
      BY <3>1 DEF Reached
    <3> QED BY <2>2, <2>3, <2>4, <3>3, <3>4
  <2> QED BY <2>5, <2>6
<1>3. Reached(accepted, 0) = 0
  BY DEF Reached
<1>4. Reached(accepted, n) \in Nat /\ Reached(accepted, n) <= L
  <2>1. CASE n = 0
    BY <1>1, <1>3, <2>1
  <2>2. CASE n # 0
    <3>1. n \in 1 .. n
      BY <1>1, <2>2
    <3> QED BY <1>2, <3>1
  <2> QED BY <2>1, <2>2
<1> QED BY <1>1, <1>2, <1>3, <1>4

LEMMA InPlaceBuilt ==
  ASSUME NEW source \in TextType, NEW accepted, Clear(accepted, source)
  PROVE  \E H : Built(H, source, accepted)
<1> DEFINE n == Len(accepted)
           L == Len(source)
           After(k) == Reached(accepted, k)
           From(k)  == accepted[k].from
           Text(k)  == accepted[k].text
           p == [k \in 1 .. n + 1 |-> IF k <= n THEN Cut(source, After(k - 1), From(k)) \o Text(k)
                                                ELSE Cut(source, After(n), L)]
<1>1. n \in Nat /\ L \in Nat /\ TextType = Seq(Char) /\ source \in Seq(Char)
  BY TextLen DEF Clear, TextType
<1>2. InPlace(source, accepted) = FlattenSeq(p)
  BY DEF InPlace, Reached
<1>3. ASSUME NEW k \in 1 .. n
      PROVE  From(k) \in Nat /\ From(k) <= L /\ Text(k) \in TextType
             /\ After(k - 1) \in Nat /\ After(k - 1) <= From(k)
  BY ClearFacts
<1>4. After(n) \in Nat /\ After(n) <= L
  BY ClearFacts
<1> HIDE DEF After, From, Text
<1>5. Len(p) = n + 1 /\ DOMAIN p = 1 .. n + 1
  BY <1>1
<1>6. \A k \in 1 .. n : p[k] = Cut(source, After(k - 1), From(k)) \o Text(k)
  <2> SUFFICES ASSUME NEW k \in 1 .. n PROVE p[k] = Cut(source, After(k - 1), From(k)) \o Text(k)
    OBVIOUS
  <2>1. k \in 1 .. n + 1 /\ k <= n
    BY <1>1
  <2> QED BY <2>1
<1>7. p[n + 1] = Cut(source, After(n), L)
  <2>1. n + 1 \in 1 .. n + 1 /\ ~ (n + 1 <= n)
    BY <1>1
  <2> QED BY <2>1
<1> HIDE DEF p
<1>8. ASSUME NEW k \in 1 .. n + 1 PROVE p[k] \in Seq(Char)
  <2>1. CASE k \in 1 .. n
    <3>1. Cut(source, After(k - 1), From(k)) \in Seq(Char) /\ Text(k) \in Seq(Char)
      BY <1>1, <1>3, <2>1, CutFacts
    <3>2. Cut(source, After(k - 1), From(k)) \o Text(k) \in Seq(Char)
      BY <3>1, ConcatProperties
    <3> QED BY <1>6, <2>1, <3>2
  <2>2. CASE k = n + 1
    <3>1. L <= L
      BY <1>1
    <3>2. Cut(source, After(n), L) \in Seq(Char)
      BY <1>1, <1>4, <3>1, CutFacts
    <3> QED BY <1>7, <2>2, <3>2
  <2> QED BY <1>1, <2>1, <2>2
<1>9. PICK g : Flow(g, p, n + 1) /\ FlattenSeq(p) = g[n + 1]
  BY <1>1, <1>5, FlattenIs
<1>10. \A k \in 1 .. n + 1 : g[k] = IF k = 1 THEN p[k] ELSE g[k - 1] \o p[k]
  BY <1>1, <1>9, FlowSteps
<1> DEFINE H == [k \in 0 .. n + 1 |-> IF k = 0 THEN <<>> ELSE g[k]]
<1>11. H[0] = <<>> /\ \A k \in 1 .. n + 1 : H[k] = g[k]
  BY <1>1
<1>12. \A k \in 1 .. n + 1 : H[k] = H[k - 1] \o p[k]
  <2> SUFFICES ASSUME NEW k \in 1 .. n + 1 PROVE H[k] = H[k - 1] \o p[k]
    OBVIOUS
  <2>1. H[k] = g[k]
    BY <1>11
  <2> HIDE DEF H
  <2>2. CASE k = 1
    <3>1. p[k] = <<>> \o p[k]
      BY <1>8, ConcatEmptySeq
    <3>2. H[k - 1] = <<>>
      BY <1>11, <2>2
    <3>3. g[k] = p[k]
      BY <1>10, <2>2
    <3> QED BY <2>1, <3>1, <3>2, <3>3
  <2>3. CASE k # 1
    <3>1. k - 1 \in 1 .. n + 1
      BY <1>1, <2>3
    <3>2. g[k] = g[k - 1] \o p[k]
      BY <1>10, <2>3
    <3> QED BY <1>11, <2>1, <3>1, <3>2
  <2> QED BY <2>2, <2>3
<1>13. DOMAIN H = 0 .. n + 1 /\ H = [k \in 0 .. n + 1 |-> H[k]]
  OBVIOUS
<1> HIDE DEF H
<1>14. \A k \in 0 .. n + 1 : H[k] \in Seq(Char)
  <2> DEFINE Bad == {k \in 0 .. n + 1 : H[k] \notin Seq(Char)}
  <2>1. SUFFICES ASSUME Bad # {} PROVE FALSE
    OBVIOUS
  <2>2. PICK k \in Bad : \A j \in Bad : k <= j
    <3>1. Bad \in SUBSET Nat
      BY <1>1
    <3> HIDE DEF Bad
    <3> QED BY <2>1, <3>1, FirstExists
  <2>3. k \in 0 .. n + 1 /\ H[k] \notin Seq(Char)
    OBVIOUS
  <2>4. k # 0
    BY <1>11, <2>3, EmptySeq
  <2>5. k \in 1 .. n + 1 /\ k - 1 \in 0 .. n + 1 /\ ~ (k <= k - 1)
    BY <1>1, <2>3, <2>4
  <2>6. k - 1 \notin Bad
    <3> HIDE DEF Bad
    <3> QED BY <2>2, <2>5
  <2>7. H[k - 1] \in Seq(Char) /\ p[k] \in Seq(Char)
    BY <1>8, <2>5, <2>6
  <2>8. H[k - 1] \o p[k] \in Seq(Char)
    BY <2>7, ConcatProperties
  <2> QED BY <1>12, <2>3, <2>5, <2>8
<1>15. H \in [0 .. n + 1 -> TextType]
  BY <1>1, <1>13, <1>14
<1>16. \A k \in 1 .. n : H[k] = H[k - 1] \o (Cut(source, After(k - 1), From(k)) \o Text(k))
  <2>1. \A k \in 1 .. n : k \in 1 .. n + 1
    BY <1>1
  <2> QED BY <1>6, <1>12, <2>1
<1>17. H[n + 1] = H[n] \o Cut(source, After(n), L) /\ H[n + 1] = InPlace(source, accepted)
  <2>1. n + 1 \in 1 .. n + 1 /\ (n + 1) - 1 = n
    BY <1>1
  <2> QED BY <1>2, <1>7, <1>9, <1>11, <1>12, <2>1
<1>18. Built(H, source, accepted)
  BY <1>11, <1>15, <1>16, <1>17 DEF Built, After, From, Text, n, L
<1> QED BY <1>18

\* Texts of which each goes on from the one before.
Grows(H, n) ==
  H \in [0 .. n -> TextType] /\ \A k \in 1 .. n : \E s \in TextType : H[k] = H[k - 1] \o s
Begins(H, n) ==
  \A k \in 0 .. n : /\ Len(H[k]) \in Nat /\ Len(H[k]) <= Len(H[n])
                    /\ \A x \in 1 .. Len(H[k]) : H[n][x] = H[k][x]

\* Each of them is where the last begins.
LEMMA BuiltBegins ==
  ASSUME NEW n \in Nat, NEW H, Grows(H, n)
  PROVE  Begins(H, n)
<1> DEFINE Good(k) == Len(H[k]) <= Len(H[n]) /\ \A x \in 1 .. Len(H[k]) : H[n][x] = H[k][x]
           Bad     == {k \in 0 .. n : ~ Good(k)}
<1>1. \A k \in 0 .. n : H[k] \in Seq(Char) /\ Len(H[k]) \in Nat
  BY TextLen DEF Grows
<1>2. n \in Nat
  OBVIOUS
<1>3. SUFFICES ASSUME Bad # {} PROVE FALSE
  BY <1>1 DEF Begins
<1>4. PICK k \in Bad : \A j \in Bad : j <= k
  <2>1. Bad \in SUBSET Nat /\ \A j \in Bad : j <= n
    BY <1>2
  <2> HIDE DEF Bad
  <2> QED BY <1>2, <1>3, <2>1, MaxOf
<1>5. k \in 0 .. n /\ ~ Good(k)
  OBVIOUS
<1>6. k # n
  BY <1>1, <1>2, <1>5
<1>7. k + 1 \in 0 .. n /\ k + 1 \in 1 .. n /\ ~ (k + 1 <= k) /\ (k + 1) - 1 = k
  BY <1>2, <1>5, <1>6
<1>8. Good(k + 1)
  <2>1. k + 1 \notin Bad
    <3> HIDE DEF Bad
    <3> QED BY <1>4, <1>7
  <2> QED BY <1>7, <2>1
<1>9. PICK s \in TextType : H[k + 1] = H[k] \o s
  BY <1>7 DEF Grows
<1>10. /\ Len(H[k + 1]) = Len(H[k]) + Len(s) /\ Len(s) \in Nat
       /\ \A x \in 1 .. Len(H[k]) : H[k + 1][x] = H[k][x]
  <2>1. s \in Seq(Char) /\ H[k] \in Seq(Char) /\ Len(s) \in Nat /\ Len(H[k]) \in Nat
    BY <1>1, <1>5, TextLen
  <2>2. /\ Len(H[k] \o s) = Len(H[k]) + Len(s)
        /\ \A x \in 1 .. Len(H[k]) + Len(s) :
             (H[k] \o s)[x] = IF x <= Len(H[k]) THEN H[k][x] ELSE s[x - Len(H[k])]
    BY <2>1, ConcatProperties
  <2>3. \A x \in 1 .. Len(H[k]) : x \in 1 .. Len(H[k]) + Len(s) /\ x <= Len(H[k])
    BY <2>1
  <2> QED BY <1>9, <2>1, <2>2, <2>3
<1>11. \A x \in 1 .. Len(H[k]) : x \in 1 .. Len(H[k + 1])
  BY <1>1, <1>5, <1>10
<1>12. Len(H[k]) <= Len(H[n])
  BY <1>1, <1>5, <1>7, <1>8, <1>10
<1>13. Good(k)
  BY <1>8, <1>10, <1>11, <1>12
<1> QED BY <1>5, <1>13

\* The characters of three texts put together.
LEMMA ConcatChars ==
  ASSUME NEW h \in TextType, NEW u \in TextType, NEW v \in TextType
  PROVE  LET x == h \o (u \o v)
         IN  /\ Len(x) = Len(h) + Len(u) + Len(v)
             /\ \A i \in 1 .. Len(u) : x[Len(h) + i] = u[i]
             /\ \A i \in 1 .. Len(v) : x[(Len(h) + Len(u)) + i] = v[i]
<1> DEFINE y == u \o v
           x == h \o y
           n == Len(h)
           m == Len(u)
           q == Len(v)
<1>1. n \in Nat /\ m \in Nat /\ q \in Nat /\ h \in Seq(Char) /\ u \in Seq(Char) /\ v \in Seq(Char)
  BY TextLen
<1>2. /\ y \in Seq(Char) /\ Len(y) = m + q
      /\ \A i \in 1 .. m + q : y[i] = IF i <= m THEN u[i] ELSE v[i - m]
  BY <1>1, ConcatProperties
<1> HIDE DEF y
<1> HIDE DEF n, m, q
<1>3. /\ Len(x) = n + (m + q)
      /\ \A i \in 1 .. n + (m + q) : x[i] = IF i <= n THEN h[i] ELSE y[i - n]
  <2>1. /\ Len(h \o y) = Len(h) + Len(y)
        /\ \A i \in 1 .. Len(h) + Len(y) : (h \o y)[i] = IF i <= Len(h) THEN h[i] ELSE y[i - Len(h)]
    BY <1>1, <1>2, ConcatProperties
  <2> QED BY <1>2, <2>1 DEF n
<1> HIDE DEF x
<1>4. ASSUME NEW i \in 1 .. m PROVE x[n + i] = u[i]
  <2>1. n + i \in 1 .. n + (m + q) /\ ~ (n + i <= n) /\ (n + i) - n = i /\ i \in 1 .. m + q /\ i <= m
    BY <1>1
  <2> QED BY <1>2, <1>3, <2>1
<1>5. ASSUME NEW i \in 1 .. q PROVE x[(n + m) + i] = v[i]
  <2>1. /\ (n + m) + i \in 1 .. n + (m + q) /\ ~ ((n + m) + i <= n) /\ ((n + m) + i) - n = m + i
        /\ m + i \in 1 .. m + q /\ ~ (m + i <= m) /\ (m + i) - m = i
    BY <1>1
  <2> QED BY <1>2, <1>3, <2>1
<1>6. Len(x) = n + m + q
  BY <1>1, <1>3
<1> QED BY <1>4, <1>5, <1>6 DEF x, y, n, m, q

\* Over one accepted edit and what goes before it the way costs what the edit changes.
LEMMA WalkOn ==
  ASSUME NEW source \in TextType, NEW t \in TextType, NEW d, Table(d, source, t, Cells(source, t)),
         NEW i \in Nat, NEW b \in Nat, NEW c \in Nat, i <= b, b <= c, c <= Len(source),
         NEW h \in TextType, NEW text \in TextType, NEW next,
         next = h \o (Cut(source, i, b) \o text), Len(next) <= Len(t),
         \A x \in 1 .. Len(next) : t[x] = next[x]
  PROVE  /\ d[<<c, Len(next)>>] <= d[<<i, Len(h)>>] + Changed(Cut(source, b, c), text)
         /\ d[<<i, Len(h)>>] \in Nat /\ d[<<c, Len(next)>>] \in Nat
         /\ Changed(Cut(source, b, c), text) \in Nat
<1> DEFINE u   == Cut(source, i, b)
           old == Cut(source, b, c)
           n   == Len(h)
           e   == b - i
           q   == Len(text)
           w   == n + e
<1>1. n \in Nat /\ q \in Nat /\ Len(source) \in Nat /\ Len(t) \in Nat /\ e \in Nat
  BY TextLen
<1>2. /\ u \in TextType /\ Len(u) = e /\ (\A x \in 1 .. e : u[x] = source[i + x])
      /\ old \in TextType /\ Len(old) = c - b /\ \A x \in 1 .. c - b : old[x] = source[b + x]
  <2>1. b <= Len(source) /\ i <= b
    BY <1>1
  <2> QED BY <2>1, CutFacts
<1> HIDE DEF u, old
<1>3. /\ Len(next) = n + Len(u) + q
      /\ \A x \in 1 .. Len(u) : next[n + x] = u[x]
      /\ \A x \in 1 .. q : next[(n + Len(u)) + x] = text[x]
  <2> DEFINE z == h \o (u \o text)
  <2>1. /\ Len(z) = Len(h) + Len(u) + Len(text)
        /\ \A x \in 1 .. Len(u) : z[Len(h) + x] = u[x]
        /\ \A x \in 1 .. Len(text) : z[(Len(h) + Len(u)) + x] = text[x]
    BY <1>2, ConcatChars
  <2>2. next = z
    BY DEF u
  <2> HIDE DEF z
  <2> QED BY <2>1, <2>2
<1>4. Len(next) = w + q
  BY <1>1, <1>2, <1>3
<1> HIDE DEF n, e, q
<1>5. /\ w \in Nat /\ i + e = b /\ b + (c - b) = c /\ i + e <= Len(source)
      /\ w <= Len(t) /\ w + q <= Len(t) /\ n + e <= Len(t) /\ b + Len(old) <= Len(source)
  <2>1. i + e = b
    BY DEF e
  <2> QED BY <1>1, <1>2, <1>4, <2>1
<1>6. ASSUME NEW x \in 1 .. e PROVE source[i + x] = t[n + x]
  <2>1. n + x \in 1 .. Len(next)
    BY <1>1, <1>4
  <2> QED BY <1>2, <1>3, <2>1
<1>7. ASSUME NEW x \in 1 .. q PROVE t[w + x] = text[x]
  <2>1. w + x \in 1 .. Len(next)
    BY <1>1, <1>4
  <2>2. next[w + x] = text[x]
    BY <1>2, <1>3
  <2> QED BY <2>1, <2>2
<1>8. /\ d[<<i + e, n + e>>] <= d[<<i, n>>] /\ d[<<i, n>>] \in Nat /\ d[<<i + e, n + e>>] \in Nat
  BY <1>1, <1>5, <1>6, CopyMove
<1> HIDE DEF w
<1>9. \A x \in 1 .. Len(old) : source[b + x] = old[x]
  BY <1>2
<1>10. /\ d[<<b + Len(old), w + Len(text)>>] <= d[<<b, w>>] + Changed(old, text)
       /\ Changed(old, text) \in Nat /\ d[<<b + Len(old), w + Len(text)>>] \in Nat
  <2>1. w + Len(text) <= Len(t) /\ \A x \in 1 .. Len(text) : t[w + x] = text[x]
    BY <1>5, <1>7 DEF q
  <2>2. b + Len(old) <= Len(source) /\ Len(source) \in Nat /\ Len(t) \in Nat /\ w \in Nat /\ old \in TextType
    BY <1>1, <1>2, <1>5
  <2> QED BY <1>9, <2>1, <2>2, ReplaceMove
<1>11. <<i + e, n + e>> = <<b, w>>
  BY <1>5 DEF w
<1>12. <<b + Len(old), w + Len(text)>> = <<c, Len(next)>>
  BY <1>2, <1>4, <1>5 DEF q
<1> DEFINE v0 == d[<<i, n>>]
           v1 == d[<<b, w>>]
           v2 == d[<<c, Len(next)>>]
           k  == Changed(old, text)
<1>13. v0 \in Nat /\ v1 \in Nat /\ v2 \in Nat /\ k \in Nat /\ v1 <= v0 /\ v2 <= v1 + k
  BY <1>8, <1>10, <1>11, <1>12
<1> HIDE DEF v0, v1, v2, k
<1>14. v2 <= v0 + k
  BY <1>13
<1> QED BY <1>13, <1>14 DEF v0, v2, k, n, old

\* Along the rest of the source it costs nothing.
LEMMA WalkEnd ==
  ASSUME NEW source \in TextType, NEW t \in TextType, NEW d, Table(d, source, t, Cells(source, t)),
         NEW i \in Nat, i <= Len(source), NEW h \in TextType, t = h \o Cut(source, i, Len(source))
  PROVE  d[<<Len(source), Len(t)>>] <= d[<<i, Len(h)>>] /\ d[<<i, Len(h)>>] \in Nat
         /\ d[<<Len(source), Len(t)>>] \in Nat
<1> DEFINE L == Len(source)
           u == Cut(source, i, L)
           n == Len(h)
           e == L - i
<1>1. n \in Nat /\ L \in Nat /\ Len(t) \in Nat /\ h \in Seq(Char)
  BY TextLen
<1>2. u \in TextType /\ u \in Seq(Char) /\ Len(u) = e /\ \A x \in 1 .. e : u[x] = source[i + x]
  <2>1. L <= L /\ L <= Len(source)
    BY <1>1
  <2> QED BY <1>1, <2>1, CutFacts, TextLen
<1>3. e \in Nat
  BY <1>1
<1> HIDE DEF u, n
<1>4. /\ Len(t) = n + e /\ \A x \in 1 .. n + e : t[x] = IF x <= n THEN h[x] ELSE u[x - n]
  <2> DEFINE z == h \o u
  <2>1. /\ Len(z) = Len(h) + Len(u)
        /\ \A x \in 1 .. Len(h) + Len(u) : z[x] = IF x <= Len(h) THEN h[x] ELSE u[x - Len(h)]
    BY <1>1, <1>2, ConcatProperties
  <2>2. t = z
    BY DEF u
  <2> HIDE DEF z
  <2> QED BY <1>2, <2>1, <2>2 DEF n
<1> HIDE DEF e, L
<1>5. ASSUME NEW x \in 1 .. e PROVE source[i + x] = t[n + x]
  <2>1. n + x \in 1 .. n + e /\ ~ (n + x <= n) /\ (n + x) - n = x
    BY <1>1, <1>3
  <2> QED BY <1>2, <1>4, <2>1
<1>6. i + e = L /\ i + e <= Len(source) /\ n + e <= Len(t) /\ Len(source) \in Nat
  <2>1. i + e = L
    BY <1>1 DEF e
  <2> QED BY <1>1, <1>3, <1>4, <2>1 DEF L
<1>7. /\ d[<<i + e, n + e>>] <= d[<<i, n>>] /\ d[<<i, n>>] \in Nat /\ d[<<i + e, n + e>>] \in Nat
  BY <1>1, <1>3, <1>5, <1>6, CopyMove
<1>8. <<i + e, n + e>> = <<Len(source), Len(t)>>
  BY <1>4, <1>6 DEF L
<1> QED BY <1>7, <1>8 DEF n

\* What the accepted edits change, one after the other.
Cost(source, accepted, k) == Changed(Cut(source, accepted[k].from, accepted[k].to), accepted[k].text)
Tally(f, source, accepted, m) ==
  f = [k \in 0 .. m |-> IF k = 0 THEN 0 ELSE f[k - 1] + Cost(source, accepted, k)]

LEMMA TallyDefined ==
  ASSUME NEW source, NEW accepted, NEW n \in Nat
  PROVE  \E f : Tally(f, source, accepted, n)
<1> DEFINE Missing == {m \in Nat : ~ \E f : Tally(f, source, accepted, m)}
<1>1. SUFFICES ASSUME Missing # {} PROVE FALSE
  OBVIOUS
<1>2. PICK m \in Missing : \A k \in Missing : m <= k
  <2>1. Missing \in SUBSET Nat
    OBVIOUS
  <2> HIDE DEF Missing
  <2> QED BY <1>1, <2>1, FirstExists
<1>3. m \in Nat /\ ~ \E f : Tally(f, source, accepted, m)
  BY <1>2
<1>4. CASE m = 0
  <2> DEFINE f == [i \in 0 .. m |-> 0]
  <2>1. \A i \in 0 .. m : i = 0
    BY <1>4
  <2>2. f = [k \in 0 .. m |-> IF k = 0 THEN 0 ELSE f[k - 1] + Cost(source, accepted, k)]
    BY <2>1
  <2> HIDE DEF f
  <2>3. Tally(f, source, accepted, m)
    BY <2>2 DEF Tally
  <2> QED BY <1>3, <2>3
<1>5. CASE m # 0
  <2>1. m - 1 \in Nat /\ m - 1 < m
    BY <1>3, <1>5
  <2>2. m - 1 \notin Missing
    <3> HIDE DEF Missing
    <3> QED BY <1>2, <1>3, <2>1
  <2>3. PICK g : Tally(g, source, accepted, m - 1)
    BY <2>1, <2>2
  <2> DEFINE new == g[m - 1] + Cost(source, accepted, m)
             f   == [i \in 0 .. m |-> IF i = m THEN new ELSE g[i]]
  <2>4. ASSUME NEW i \in 0 .. m
        PROVE  f[i] = IF i = 0 THEN 0 ELSE f[i - 1] + Cost(source, accepted, i)
    <3>1. i # 0 => f[i - 1] = g[i - 1]
      <4>1. i # 0 => i - 1 \in 0 .. m /\ i - 1 # m
        BY <1>3
      <4> QED BY <4>1
    <3>2. CASE i = m
      <4>1. f[i] = g[i - 1] + Cost(source, accepted, i)
        BY <3>2
      <4> HIDE DEF f
      <4> QED BY <1>5, <3>1, <3>2, <4>1
    <3>3. CASE i # m
      <4>1. i \in 0 .. m - 1 /\ f[i] = g[i]
        BY <1>3, <3>3
      <4>2. g[i] = IF i = 0 THEN 0 ELSE g[i - 1] + Cost(source, accepted, i)
        BY <2>3, <4>1 DEF Tally
      <4> HIDE DEF f
      <4> QED BY <3>1, <4>1, <4>2
    <3> QED BY <3>2, <3>3
  <2>5. Tally(f, source, accepted, m)
    <3>1. f = [i \in 0 .. m |-> f[i]]
      OBVIOUS
    <3> HIDE DEF f
    <3> QED BY <2>4, <3>1 DEF Tally
  <2> QED BY <1>3, <2>5
<1> QED BY <1>4, <1>5

LEMMA AllChangedIs ==
  ASSUME NEW source, NEW accepted, Len(accepted) \in Nat
  PROVE  \E f : Tally(f, source, accepted, Len(accepted)) /\ AllChanged(source, accepted) = f[Len(accepted)]
<1> DEFINE f == CHOOSE f : Tally(f, source, accepted, Len(accepted))
<1>1. AllChanged(source, accepted) = f[Len(accepted)]
  BY DEF AllChanged, Tally, Cost
<1>2. \E g : Tally(g, source, accepted, Len(accepted))
  BY TallyDefined
<1>3. Tally(f, source, accepted, Len(accepted))
  BY <1>2
<1> QED BY <1>1, <1>3

\* The text that the accepted edits make is no further from the source than what they
\* change, all together.
LEMMA InPlaceNear ==
  ASSUME NEW source \in TextType, NEW accepted, Clear(accepted, source)
  PROVE  /\ Distance(source, InPlace(source, accepted)) <= AllChanged(source, accepted)
         /\ Distance(source, InPlace(source, accepted)) \in Nat /\ AllChanged(source, accepted) \in Nat
<1> DEFINE n == Len(accepted)
           t == InPlace(source, accepted)
           After(k) == Reached(accepted, k)
           From(k)  == accepted[k].from
           Text(k)  == accepted[k].text
<1>1. PICK H : Built(H, source, accepted)
  BY InPlaceBuilt
<1>2. /\ n \in Nat /\ After(0) = 0 /\ After(n) \in Nat /\ After(n) <= Len(source)
      /\ \A k \in 1 .. n : /\ From(k) \in Nat /\ Text(k) \in TextType
                           /\ After(k - 1) \in Nat /\ After(k - 1) <= From(k)
                           /\ After(k) \in Nat /\ From(k) <= After(k) /\ After(k) <= Len(source)
                           /\ accepted[k].to = After(k)
  BY ClearFacts
<1>3. /\ H \in [0 .. n + 1 -> TextType] /\ H[0] = <<>>
      /\ \A k \in 1 .. n : H[k] = H[k - 1] \o (Cut(source, After(k - 1), From(k)) \o Text(k))
      /\ H[n + 1] = H[n] \o Cut(source, After(n), Len(source)) /\ H[n + 1] = t
  BY <1>1 DEF Built
<1>4. PICK f : Tally(f, source, accepted, n) /\ AllChanged(source, accepted) = f[n]
  BY <1>2, AllChangedIs
<1>5. \A k \in 1 .. n : Cost(source, accepted, k) = Changed(Cut(source, From(k), After(k)), Text(k))
  BY <1>2 DEF Cost
<1> HIDE DEF n, t, After, From, Text
<1>6. f[0] = 0 /\ \A k \in 1 .. n : f[k] = f[k - 1] + Changed(Cut(source, From(k), After(k)), Text(k))
  <2>1. 0 \in 0 .. n /\ \A k \in 1 .. n : k \in 0 .. n /\ k # 0
    BY <1>2
  <2>2. \A k \in 0 .. n : f[k] = IF k = 0 THEN 0 ELSE f[k - 1] + Cost(source, accepted, k)
    BY <1>4 DEF Tally
  <2> QED BY <1>5, <2>1, <2>2
<1>7. n + 1 \in 0 .. n + 1 /\ n \in 0 .. n + 1 /\ \A k \in 0 .. n : k \in 0 .. n + 1
  BY <1>2
<1>8. t \in TextType /\ Len(source) \in Nat /\ Len(t) \in Nat
  BY <1>3, <1>7, TextLen
<1>9. \A k \in 0 .. n + 1 : /\ Len(H[k]) \in Nat /\ Len(H[k]) <= Len(t)
                            /\ \A x \in 1 .. Len(H[k]) : t[x] = H[k][x]
  <2>1. ASSUME NEW k \in 1 .. n + 1 PROVE \E s \in TextType : H[k] = H[k - 1] \o s
    <3>1. CASE k \in 1 .. n
      <4> DEFINE s == Cut(source, After(k - 1), From(k)) \o Text(k)
      <4>1. Cut(source, After(k - 1), From(k)) \in TextType
        <5>1. From(k) <= Len(source)
          BY <1>2, <1>8, <3>1
        <5> QED BY <1>2, <3>1, <5>1, CutFacts
      <4>2. s \in TextType
        BY <1>2, <3>1, <4>1, ConcatProperties DEF TextType
      <4>3. H[k] = H[k - 1] \o s
        BY <1>3, <3>1
      <4> HIDE DEF s
      <4> QED BY <4>2, <4>3
    <3>2. CASE k = n + 1
      <4>1. Cut(source, After(n), Len(source)) \in TextType
        <5>1. Len(source) <= Len(source)
          BY <1>8
        <5> QED BY <1>2, <1>8, <5>1, CutFacts
      <4>2. k - 1 = n
        BY <1>2, <3>2
      <4> QED BY <1>3, <3>2, <4>1, <4>2
    <3>3. k \in 1 .. n \/ k = n + 1
      BY <1>2
    <3> QED BY <3>1, <3>2, <3>3
  <2> DEFINE top == n + 1
  <2>2. top \in Nat
    BY <1>2
  <2>3. Grows(H, top)
    BY <1>3, <2>1 DEF Grows
  <2> HIDE DEF top
  <2>4. \A k \in 0 .. top : /\ Len(H[k]) \in Nat /\ Len(H[k]) <= Len(H[top])
                            /\ \A x \in 1 .. Len(H[k]) : H[top][x] = H[k][x]
    BY <2>2, <2>3, BuiltBegins DEF Begins
  <2> QED BY <1>3, <2>4 DEF top
<1>10. PICK d : Table(d, source, t, Cells(source, t)) /\ Distance(source, t) = d[<<Len(source), Len(t)>>]
  BY <1>8, DistanceIs
<1> DEFINE At(k)   == d[<<After(k), Len(H[k])>>]
           Good(k) == At(k) \in Nat /\ f[k] \in Nat /\ At(k) <= f[k]
           Bad     == {k \in 0 .. n : ~ Good(k)}
<1>11. Good(0)
  <2>1. Len(H[0]) = 0
    BY <1>3, EmptySeq
  <2>2. <<After(0), Len(H[0])>> = <<0, 0>>
    BY <1>2, <2>1
  <2>3. At(0) = 0
    BY <1>8, <1>10, <2>2, TableStart
  <2> HIDE DEF At
  <2> QED BY <1>6, <2>3
<1>12. ASSUME NEW k \in 1 .. n, Good(k - 1) PROVE Good(k)
  <2> DEFINE i    == After(k - 1)
             b    == From(k)
             c    == After(k)
             h    == H[k - 1]
             text == Text(k)
             next == H[k]
             cost == Changed(Cut(source, b, c), text)
  <2>1. k - 1 \in 0 .. n + 1 /\ k \in 0 .. n + 1
    BY <1>2
  <2>2. /\ i \in Nat /\ b \in Nat /\ c \in Nat /\ i <= b /\ b <= c /\ c <= Len(source)
        /\ h \in TextType /\ text \in TextType
        /\ next = h \o (Cut(source, i, b) \o text) /\ Len(next) <= Len(t)
        /\ \A x \in 1 .. Len(next) : t[x] = next[x]
    BY <1>2, <1>3, <1>9, <2>1
  <2>3. At(k) = d[<<c, Len(next)>>] /\ At(k - 1) = d[<<i, Len(h)>>] /\ f[k] = f[k - 1] + cost
    BY <1>6
  <2> HIDE DEF i, b, c, h, text, next, At
  <2>4. /\ d[<<c, Len(next)>>] <= d[<<i, Len(h)>>] + Changed(Cut(source, b, c), text)
        /\ d[<<i, Len(h)>>] \in Nat /\ d[<<c, Len(next)>>] \in Nat
        /\ Changed(Cut(source, b, c), text) \in Nat
    BY <1>8, <1>10, <2>2, WalkOn
  <2>5. At(k) <= At(k - 1) + cost /\ At(k) \in Nat /\ cost \in Nat
    BY <2>3, <2>4
  <2> HIDE DEF cost
  <2>6. At(k - 1) \in Nat /\ f[k - 1] \in Nat /\ At(k - 1) <= f[k - 1]
    BY <1>12
  <2> QED BY <2>3, <2>5, <2>6
<1>13. Good(n)
  <2> HIDE DEF Good
  <2>0. n \in 0 .. n
    BY <1>2
  <2>1. SUFFICES ASSUME Bad # {} PROVE FALSE
    <3>1. n \in Bad \/ Good(n)
      BY <2>0
    <3> HIDE DEF Bad
    <3> QED BY <3>1
  <2>2. PICK k \in Bad : \A j \in Bad : k <= j
    <3>1. Bad \in SUBSET Nat
      BY <1>2
    <3> HIDE DEF Bad
    <3> QED BY <2>1, <3>1, FirstExists
  <2>3. k \in 0 .. n /\ ~ Good(k)
    OBVIOUS
  <2>4. k # 0
    BY <1>11, <2>3
  <2>5. k \in 1 .. n /\ k - 1 \in 0 .. n /\ ~ (k <= k - 1)
    BY <1>2, <2>3, <2>4
  <2>6. k - 1 \notin Bad
    <3> HIDE DEF Bad
    <3> QED BY <2>2, <2>5
  <2> QED BY <1>12, <2>3, <2>5, <2>6
<1>14. d[<<Len(source), Len(t)>>] <= At(n) /\ d[<<Len(source), Len(t)>>] \in Nat
  <2> DEFINE i == After(n)
             h == H[n]
  <2>1. i \in Nat /\ i <= Len(source) /\ h \in TextType /\ t = h \o Cut(source, i, Len(source))
    BY <1>2, <1>3, <1>7
  <2> HIDE DEF i, h
  <2>2. d[<<Len(source), Len(t)>>] <= d[<<i, Len(h)>>] /\ d[<<Len(source), Len(t)>>] \in Nat
    BY <1>8, <1>10, <2>1, WalkEnd
  <2> QED BY <2>2 DEF i, h
<1> DEFINE v == d[<<Len(source), Len(t)>>]
<1>15. v = Distance(source, t) /\ v <= At(n) /\ v \in Nat
  BY <1>10, <1>14
<1> HIDE DEF v, At
<1>16. v <= f[n] /\ f[n] \in Nat
  BY <1>13, <1>15
<1> QED BY <1>4, <1>15, <1>16 DEF t

\* The text a line is given with edits is within the budget.
LEMMA VerdictWithin ==
  ASSUME NEW ops \in Seq(EditType), NEW source \in TextType, NEW role,
         NEW t \in LineVerdict(ops, source, role, guard).text
  PROVE  Distance(source, t) <= LineBudget /\ t \in TextType
<1>1. guard.budget = LineBudget /\ LineBudget \in Nat
  BY RepliesAssumption DEF guard
<1>2. CASE WholeEdits(ops) = <<>>
  <2>1. IsSpans(ops) /\ LineVerdict(ops, source, role, guard) = Spans(ops, source, role, guard)
    BY <1>2, KindFacts DEF LineVerdict, IsSpans
  <2> DEFINE a == Accepted(ops, source)
  <2>2. /\ Clear(a, source) /\ t = InPlace(source, a) /\ t \in TextType /\ a # <<>>
        /\ LineRefusal(a, t, source, role, guard) = {}
    BY <2>1, SpansGive
  <2> HIDE DEF a
  <2>3. ~ (AllChanged(source, a) > LineBudget)
    BY <1>1, <2>2 DEF LineRefusal
  <2>4. /\ Distance(source, t) <= AllChanged(source, a)
        /\ Distance(source, t) \in Nat /\ AllChanged(source, a) \in Nat
    BY <2>2, InPlaceNear
  <2> QED BY <1>1, <2>2, <2>3, <2>4
<1>3. CASE WholeEdits(ops) # <<>>
  <2> DEFINE all == WholeEdits(ops) \o SpanEdits(ops)
  <2>1. t \in WholeLine(all, source, role, guard).text
    BY <1>3 DEF LineVerdict
  <2>2. all \in Seq(EditType) /\ all # <<>>
    <3>1. WholeEdits(ops) \in Seq(EditType) /\ SpanEdits(ops) \in Seq(EditType)
      BY KindFacts
    <3> HIDE DEF all
    <3>2. all \in Seq(EditType) /\ Len(all) = Len(WholeEdits(ops)) + Len(SpanEdits(ops))
      BY <3>1, ConcatProperties DEF all
    <3>3. Len(WholeEdits(ops)) \in Nat /\ Len(SpanEdits(ops)) \in Nat /\ Len(WholeEdits(ops)) # 0
      BY <1>3, <3>1, LenProperties, EmptySeq
    <3>4. Len(all) # 0
      BY <3>2, <3>3
    <3> QED BY <3>2, <3>4, EmptySeq
  <2> HIDE DEF all
  <2>3. all[1] \in EditType
    <3>1. 1 \in 1 .. Len(all)
      BY <2>2, LenProperties, EmptySeq
    <3> QED BY <2>2, <3>1, ElementOfSeq
  <2>4. all[1].text \in TextType
    BY <2>3, EditFacts
  <2>5. t = all[1].text /\ ~ (Changed(source, all[1].text) > LineBudget)
    BY <1>1, <2>1 DEF WholeLine
  <2> QED BY <1>1, <2>4, <2>5, DistanceChanged
<1> QED BY <1>2, <1>3

\* What a script gives a line with a text at hand is within the budget of that text.
LEMMA AppliedWithin ==
  ASSUME NEW sc, sc.ops \in Seq(EditType), NEW canonical, NEW allowed, NEW roles,
         \A l \in DOMAIN canonical : canonical[l] \in TextType,
         NEW l \in DOMAIN AppliedScript(sc, canonical, allowed, roles, guard).text
  PROVE  Distance(canonical[l], AppliedScript(sc, canonical, allowed, roles, guard).text[l]) <= LineBudget
<1> DEFINE text == AppliedScript(sc, canonical, allowed, roles, guard).text
           on   == OpsOn(sc.ops, l)
           role == roles[l]
           J(k) == LineVerdict(OpsOn(sc.ops, k), canonical[k], roles[k], guard)
<1>1. /\ DOMAIN text = {k \in Open(sc, canonical, allowed) : J(k).text # {}}
      /\ \A k \in DOMAIN text : text[k] \in J(k).text
  BY AppliedScriptIs
<1>2. J(l) = LineVerdict(on, canonical[l], role, guard)
  OBVIOUS
<1> HIDE DEF J, role, on, text
<1>3. l \in DOMAIN canonical
  BY <1>1 DEF Open, text
<1>4. on \in Seq(EditType)
  BY OpsOnFacts DEF on
<1>5. text[l] \in LineVerdict(on, canonical[l], role, guard).text
  BY <1>1, <1>2 DEF text
<1> QED BY <1>3, <1>4, <1>5, VerdictWithin DEF text

\* While a reply is judged, the lines its span edits are applied to.
LEMMA RunWithin ==
  ASSUME ReplyInv, phase = "judge", NEW l \in DOMAIN proposed.spans
  PROVE  Distance(doc[page].text[l], proposed.spans[l]) <= LineBudget
<1> DEFINE on     == OpsOn(SpanEdits(script), l)
           source == Source(<<page, l>>)
           role   == doc[page].role[l]
<1>1. doc \in Documents /\ page \in DOMAIN doc /\ script \in Seq(EditType) /\ proposed = ScriptToRaw(script)
  BY DEF ReplyInv, Recorded, Judged
<1>2. proposed.spans[l] \in Spans(on, source, role, guard).text /\ l \in doc[page].targets
  BY <1>1, ProposedSpans
<1>3. IsSpans(on)
  BY <1>1, KindOnLine
<1>4. source = doc[page].text[l] /\ source \in TextType
  BY <1>1, <1>2, PageFacts DEF Source
<1> HIDE DEF on, source, role
<1>5. on \in Seq(EditType) /\ LineVerdict(on, source, role, guard) = Spans(on, source, role, guard)
  BY <1>3, SpansVerdict DEF IsSpans
<1>6. Distance(source, proposed.spans[l]) <= LineBudget
  BY <1>2, <1>4, <1>5, VerdictWithin
<1> QED BY <1>4, <1>6

\* After a replay, every line of the document it was made on.
ReplayWithin == phase = "done" => \A r \in Refs : Distance(hand[r], replayed[r]) <= LineBudget

LEMMA ReplayIsWithin ==
  ASSUME ReplyInv, Replay
  PROVE  ReplayWithin'
<1>1. Recorded /\ doc \in Documents /\ final = PublishedScript /\ doc' = doc
  BY DEF ReplyInv, Recorded, Replay, Stamped
<1>2. DOMAIN hand' = Refs /\ \A r \in Refs : hand'[r] \in TextType
  <2>1. \A r \in Refs : Source(r) \in TextType
    BY <1>1, RefIs, PageFacts DEF Source
  <2>2. Lookalikes \subseteq TextType
    BY RepliesAssumption
  <2> QED BY <2>1, <2>2 DEF Replay
<1>3. PICK roles, given :
        /\ roles \in BOOLEAN
        /\ replayed' = [r \in Refs |-> IF r[2] \in DOMAIN given[r[1]] THEN given[r[1]][r[2]] ELSE hand'[r]]
        /\ given = Given(hand', roles)
  BY DEF Replay
<1>4. \A p \in Pages : given[p] =
        Applied(final, [l \in LinesOf(p) |-> hand'[<<p, l>>]], LinesOf(p),
                IF roles THEN doc[p].role ELSE NoRoles(p), guard, p).text
  BY <1>3 DEF Given
<1>5. ASSUME NEW r \in Refs
      PROVE  Distance(hand'[r], replayed'[r]) <= LineBudget
  <2> DEFINE p         == r[1]
             l         == r[2]
             canonical == [k \in LinesOf(p) |-> hand'[<<p, k>>]]
             role      == IF roles THEN doc[p].role ELSE NoRoles(p)
             sc        == InScope(PublishedScript, p)
             result    == AppliedScript(sc, canonical, LinesOf(p), role, guard).text
  <2>1. p \in DOMAIN doc /\ p \in Pages /\ l \in LinesOf(p) /\ r = <<p, l>>
    BY RefIs DEF Refs, Pages
  <2>2. replayed'[r] = IF l \in DOMAIN result THEN result[l] ELSE hand'[r]
    <3>1. given[p] = result
      BY <1>1, <1>4, <2>1 DEF Applied
    <3> HIDE DEF result
    <3> QED BY <1>3, <2>1, <3>1
  <2>3. sc.ops \in Seq(EditType)
    BY <1>1, <2>1, ScriptOnLine
  <2>4. /\ DOMAIN canonical = LinesOf(p) /\ canonical[l] = hand'[r]
        /\ \A k \in LinesOf(p) : canonical[k] \in TextType
    <3>1. \A k \in LinesOf(p) : <<p, k>> \in Refs
      BY <1>1, <2>1, PageFacts
    <3> QED BY <1>2, <2>1, <3>1
  <2> HIDE DEF canonical, role, sc, p, l
  <2>5. CASE l \in DOMAIN result
    <3>1. Distance(canonical[l], result[l]) <= LineBudget
      BY <2>3, <2>4, <2>5, AppliedWithin
    <3> HIDE DEF result
    <3> QED BY <2>2, <2>4, <2>5, <3>1
  <2>6. CASE l \notin DOMAIN result
    <3> HIDE DEF result
    <3>1. replayed'[r] = hand'[r]
      BY <2>2, <2>6
    <3>2. Distance(hand'[r], hand'[r]) = 0
      BY <1>2, DistanceSelf
    <3> QED BY <3>1, <3>2, RepliesAssumption
  <2> QED BY <2>5, <2>6
<1>6. Refs' = Refs
  BY <1>1 DEF Refs, Pages, LinesOf
<1> QED BY <1>5, <1>6 DEF ReplayWithin

LEMMA ReplayWithinStays ==
  ASSUME ReplyInv, ReplayWithin, [Next]_vars
  PROVE  ReplayWithin'
<1>1. CASE Replay
  BY <1>1, ReplayIsWithin
<1>2. ASSUME phase' # "done" PROVE ReplayWithin'
  BY <1>2 DEF ReplayWithin
<1>3. CASE UNCHANGED vars
  <2>1. doc' = doc /\ phase' = phase /\ hand' = hand /\ replayed' = replayed
    BY <1>3 DEF vars, replay
  <2>2. Refs' = Refs
    BY <2>1 DEF Refs, Pages, LinesOf
  <2> QED BY <2>1, <2>2 DEF ReplayWithin
<1>4. CASE Next /\ ~ Replay
  <2>1. phase' \in {"reply", "judge", "publish", "replay"}
    BY <1>4 DEF Next, Edit, AnswerPage, Propose, PutBackPairs, Decide, Refuse, NextPage, Publish
  <2> QED BY <1>2, <2>1
<1> QED BY <1>1, <1>3, <1>4

\* No line that edits are applied to, in a run or in a replay of what it published,
\* ends further from its text than the budget of a line allows, although the guard
\* counts each edit by itself: the edits together change no more than they cost.
THEOREM LinesWithinBudget == Spec => []WithinBudget
<1>1. Init => ReplayWithin
  BY DEF Init, ReplayWithin
<1>2. ReplyInv /\ ReplayWithin /\ [Next]_vars => ReplayWithin'
  BY ReplayWithinStays
<1>3. ReplyInv /\ ReplayWithin => WithinBudget
  BY RunWithin DEF WithinBudget, ReplayWithin
<1> QED BY <1>1, <1>2, <1>3, ReplyAlways, PTL DEF Spec

====
