---- MODULE AltoLine ----
(***************************************************************************)
(* One TextLine of an ALTO file: the text its children spell (_text.py),   *)
(* the hyphen fields the parser reads off them, and the four ways          *)
(* formats/alto/rewriter.py has to write a text back into them.            *)
(*                                                                         *)
(* The children are a sequence of Strings, SPs and HYPs.  A String keeps   *)
(* its content, the SUBS attributes, whether it has a style, a reference   *)
(* nothing can re-attach (TAGREFS) and a confidence, and its ID, a tuple   *)
(* (empty: none).  Where things stand on the page is left out.             *)
(***************************************************************************)
EXTENDS PageAlignment

Soft   == "shy"   \* U+00AD; only a HYP carries it here
Space  == [tag |-> "SP"]
Hyphen(mark) == [tag |-> "HYP", mark |-> mark]
NoSubs == [type |-> "", word |-> ""]

Tagged(el, tag) == Chosen(el, {i \in DOMAIN el : el[i].tag = tag})
Strings(el)     == Tagged(el, "String")
Hyps(el)        == Tagged(el, "HYP")
Contents(el)    == [k \in DOMAIN Strings(el) |-> Strings(el)[k].content]
Places(el)      == {i \in DOMAIN el : el[i].tag = "String"}
\* The String at place `i` is the `Nth` one.
Nth(el, i)      == Cardinality({j \in Places(el) : j <= i})

Stripped(text) == Reverse(Trimmed(Reverse(Trimmed(text, {Blank})), {Blank}))
\* _tokenize, the words only: once stripped, one SP stands between two of them.
Tokens(text)   == [k \in 1 .. Cardinality(Starts(text)) |->
                     WordFrom(text, Ordered(Starts(text))[k])]

----
\* _DEDUP_MARKS: the text already shows the mark the HYP would.
Renders(text) == text # <<>> /\ Last(text) \in Marks

\* reconstruct_textline; the soft hyphen of a HYP reads as a dash unless verbatim.
After(text, c, verbatim) ==
  IF c.tag = "String" THEN text \o c.content
  ELSE IF c.tag = "SP" THEN Append(text, Blank)
  ELSE IF Renders(text) THEN text
  ELSE Append(text, IF c.mark = Soft /\ ~verbatim THEN "-" ELSE c.mark)
Spelled(el, verbatim) ==
  LET text[k \in 0 .. Len(el)] == IF k = 0 THEN <<>> ELSE After(text[k - 1], el[k], verbatim)
  IN  text[Len(el)]
Text(el)      == Spelled(el, FALSE)
Canonical(el) == Stripped(Text(el))   \* _build_ocr_text

\* _parse_textline_hyphen_info: the role and the fields of a line nothing links yet.
Parsed(el) ==
  LET s        == Strings(el)
      part2    == s # <<>> /\ s[1].subs.type = "HypPart2"
      hyp      == el # <<>> /\ Last(el).tag = "HYP"
      explicit == hyp \/ (s # <<>> /\ Last(s).subs.type = "HypPart1")
      part1    == explicit \/ BreaksWord(Canonical(el))
      ahead    == IF explicit /\ s # <<>> THEN Last(s).subs.word ELSE ""
  IN  [role   |-> IF part1 THEN IF part2 THEN "BOTH" ELSE "PART1"
                  ELSE IF part2 THEN "PART2" ELSE "NONE",
       srcExp |-> part2 \/ explicit,
       fwdExp |-> part2 /\ explicit,
       subs   |-> IF part2 THEN s[1].subs.word ELSE ahead,
       fsubs  |-> IF part2 THEN ahead ELSE ""]

Opens(m)           == m.role \in {"PART1", "BOTH"}
ForwardExplicit(m) == IF m.role = "BOTH" THEN m.fwdExp ELSE m.srcExp

----
\* SUBS.  _desired_subs, _desired_forward_subs: what the edge Strings are to carry.
Wanted(m) ==
  IF m.role = "NONE" \/ ~m.srcExp \/ m.subs = "" THEN NoSubs
  ELSE [type |-> IF m.role = "PART1" THEN "HypPart1" ELSE "HypPart2", word |-> m.subs]
WantedAhead(m) ==
  IF m.role = "BOTH" /\ m.fwdExp /\ m.fsubs # "" THEN [type |-> "HypPart1", word |-> m.fsubs] ELSE NoSubs

\* _subs_target; _forward_subs_target is another String or none.
Target(el, m)      == IF m.role = "NONE" THEN {}
                      ELSE {i \in Places(el) : Nth(el, i) = IF m.role = "PART1" THEN Len(Strings(el)) ELSE 1}
TargetAhead(el, m) == IF m.role # "BOTH" THEN {}
                      ELSE {i \in Places(el) : Nth(el, i) = Len(Strings(el))} \ Target(el, m)

\* _subs_need_update.
SubsStale(el, m) ==
  \/ m.role # "NONE" /\ Target(el, m) = {} /\ Wanted(m) # NoSubs
  \/ \E i \in Target(el, m) : el[i].subs # Wanted(m)
  \/ \E i \in TargetAhead(el, m) : el[i].subs # WantedAhead(m)

\* _apply_subs.
ApplySubs(el, m) ==
  [i \in DOMAIN el |-> IF i \in TargetAhead(el, m) THEN [el[i] EXCEPT !.subs = WantedAhead(m)]
                       ELSE IF i \in Target(el, m) THEN [el[i] EXCEPT !.subs = Wanted(m)]
                       ELSE el[i]]

----
\* Mutated form: the last character is dropped, whether it is the mark or not.
WithoutLast(text) == IF IsBlank(text) THEN text ELSE Front(Trimmed(text, {Blank}))

\* _write_text_for: a break the markup states is not written in a String too, and
\* whether a space stood before it.
WithoutMark(text) ==
  IF EndsMarked(text) THEN Front(Trimmed(text, {Blank})) ELSE text
WriteText(m, text)   == IF Opens(m) /\ ForwardExplicit(m) THEN WithoutMark(text) ELSE text
SpaceBefore(m, text) ==
  /\ Opens(m) /\ ForwardExplicit(m)
  /\ WithoutMark(text) # Trimmed(WithoutMark(text), {Blank})

Distance(a, b) ==   \* _edit_distance
  LET d[p \in (0 .. Len(a)) \X (0 .. Len(b))] ==
        LET i == p[1]
            j == p[2]
        IN  IF i = 0 THEN j ELSE IF j = 0 THEN i
            ELSE Min({d[<<i - 1, j>>] + 1, d[<<i, j - 1>>] + 1,
                      d[<<i - 1, j - 1>>] + IF a[i] = b[j] THEN 0 ELSE 1})
  IN  d[<<Len(a), Len(b)>>]

\* char_similarity, as a fraction of Scale.
CharSimilarity(a, b) ==
  IF a = b THEN Scale
  ELSE IF a = <<>> \/ b = <<>> THEN 0
  ELSE Scale - (Scale * Distance(a, b)) \div Max({Len(a), Len(b)})

\* Words that answer each other, one for one, and yet were cut elsewhere.
RecutWords(old, new) ==
  \/ FlattenSeq(old) = FlattenSeq(new)
  \/ \E i \in DOMAIN new :
       Max({Len(new[i]) - Len(old[i]), Len(old[i]) - Len(new[i])}) > Max({1, Len(old[i]) \div 2})
  \/ \E i \in 1 .. Len(new) - 1 :
       /\ old[i] # new[i] /\ old[i + 1] # new[i + 1]
       /\ Distance(old[i] \o old[i + 1], new[i] \o new[i + 1])
            < Distance(old[i], new[i]) + Distance(old[i + 1], new[i + 1])

\* word_boundary_moved, of as many words as before.
BoundaryMoved(old, new) == old # new /\ RecutWords(old, new)

WordForWord(el, words) == Len(words) = Len(Strings(el)) /\ ~BoundaryMoved(Contents(el), words)

\* _update_content_in_place: a String whose content changes loses its confidence.
InPlace(el, words) ==
  [i \in DOMAIN el |->
     IF i \notin Places(el) THEN el[i]
     ELSE [el[i] EXCEPT !.content = words[Nth(el, i)],
                        !.conf = @ /\ el[i].content = words[Nth(el, i)]]]

----
\* Only such a line is rebuilt with a HYP of its own.
BreakLike(m) == Opens(m) /\ m.srcExp

\* A new ID for the `n`-th word: its number, then numbered variants of it.
NewId(n, used) ==
  LET free == {k \in 1 .. Cardinality(used) + 1 : <<"new", n, k>> \notin used}
  IN  <<"new", n, Min(free)>>

\* Mutated form: only the IDs already written count.
SeenIds(el, matched) == {}

\* The IDs that will be recycled are taken before the first word is written.
Reserved(el, matched) == {Strings(el)[k].id : k \in matched} \ {<<>>}

\* _emit_string: a word matched to a String (0: none) takes its ID and style, no more.
Emitted(el, words, from) ==
  LET s == Strings(el)
      IdOf(n, used) == IF from[n] # 0 /\ s[from[n]].id # <<>> THEN s[from[n]].id ELSE NewId(n, used)
      used[n \in 0 .. Len(words)] ==
        IF n = 0 THEN Reserved(el, Range(from) \ {0})
        ELSE LET before == used[n - 1] IN before \cup {IdOf(n, before)}
  IN  [n \in DOMAIN words |->
         [tag |-> "String", content |-> words[n], id |-> IdOf(n, used[n - 1]), subs |-> NoSubs,
          style |-> from[n] # 0 /\ s[from[n]].style, extra |-> FALSE, conf |-> FALSE]]

\* Which String each word comes from.
Origins(el, words) ==
  LET old   == Contents(el)
      alike == [p \in (DOMAIN old) \X (DOMAIN words) |-> CharSimilarity(old[p[1]], words[p[2]])]
      pairs == AlignTokens(Len(old), Len(words), Max({Len(words), Len(old)}), alike).pairs
  IN  [n \in DOMAIN words |-> Max({0} \cup {p[1] : p \in {p \in pairs : p[2] = n}})]

Spaced(strings) ==
  [i \in 1 .. 2 * Len(strings) - 1 |-> IF i % 2 = 1 THEN strings[(i + 1) \div 2] ELSE Space]

\* Mutated form: a line that makes no HYP of its own keeps none.
BreakDropped(el, m, space, words) ==
  IF BreakLike(m)
  THEN (IF space /\ words # <<>> THEN <<Space>> ELSE <<>>) \o <<Head(Append(Hyps(el), Hyphen("-")))>>
  ELSE <<>>

\* What follows the words: the line's HYP or one made for it, with the space before
\* it (_reserve_break_space); stray HYPs come back, except after a word's second part.
BreakAfter(el, m, space, words) ==
  IF BreakLike(m)
  THEN (IF space /\ words # <<>> THEN <<Space>> ELSE <<>>) \o <<Head(Append(Hyps(el), Hyphen("-")))>>
  ELSE IF m.role = "PART2" THEN <<>> ELSE Hyps(el)

\* _rebuild_line.
Rebuilt(el, m, space, words, from) ==
  Spaced(Emitted(el, words, from)) \o BreakAfter(el, m, space, words)

----
\* rewrite_alto_file on one line: which way it is written, and what comes of it.
PathOf(el, m, text) ==
  IF Canonical(el) = Stripped(text)
  THEN IF SubsStale(el, m) THEN "subs_only" ELSE "untouched"
  ELSE IF WordForWord(el, Tokens(WriteText(m, text))) THEN "fast_path" ELSE "slow_path"

Rewritten(el, m, text, path, from) ==
  CASE path = "untouched" -> el
    [] path = "subs_only" -> ApplySubs(el, m)
    [] path = "fast_path" -> ApplySubs(InPlace(el, Tokens(WriteText(m, text))), m)
    [] path = "slow_path" ->
         ApplySubs(Rebuilt(el, m, SpaceBefore(m, text), Tokens(WriteText(m, text)), from), m)

\* The counters.  A rebuild counts what its words cannot carry (_semantic_attr_losses,
\* _add_alignment_scoped_losses, the HYPs of a second part), every way that writes
\* whether a confidence went (_annotation_losses).
HasConf(el) == Cardinality({i \in Places(el) : el[i].conf})
Lost(el, m, path, from, out) ==
  LET rebuilt == path = "slow_path"
      Count(P(_)) == IF rebuilt THEN Cardinality({k \in DOMAIN Strings(el) : P(k)}) ELSE 0
      s == Strings(el)
  IN  [extra |-> Count(LAMBDA k : s[k].extra),
       style |-> Count(LAMBDA k : s[k].style /\ k \notin Range(from)),
       subs  |-> Count(LAMBDA k : s[k].subs.type \notin {"", Wanted(m).type, WantedAhead(m).type}),
       hyps  |-> IF rebuilt /\ m.role = "PART2" THEN Len(Hyps(el)) ELSE 0,
       conf  |-> IF HasConf(out) < HasConf(el) THEN 1 ELSE 0]

====
