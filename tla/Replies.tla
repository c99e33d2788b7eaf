---- MODULE Replies ----
(***************************************************************************)
(* What a producer's reply becomes: the normalisation, validation and      *)
(* capture of core/attempt.py and core/validator.py, the edit script a run *)
(* publishes (core/report.py) and its replay.                              *)
(*                                                                         *)
(* Each page is one chunk, of lines whose ids another page may share.  A   *)
(* producer sends edits, or the lines of the page for PageAlignment to     *)
(* place.  The guards that let a text stand and the pairs that are refused *)
(* are a choice.                                                           *)
(***************************************************************************)
EXTENDS PageAlignment

CONSTANTS
  Documents,     \* [lines, text, role, targets] of each page
  Edits(_),      \* the edits a producer may send on a page of a document
  Answers(_),    \* the lists of lines a reply to a page may hold, separators flattened
  Bands,         \* line_band
  SpanRatio,     \* edit_span_max_growth_ratio
  LineBudget,    \* edit_line_max_changed_chars
  Lookalikes,    \* the texts another document may have on a line
  MaxEdits       \* bound: the edits of one reply

\* A page has its lines and, of each, the text and the role; the chunk asks for some.
IsPage(p) ==
  /\ p.lines \in Seq(STRING) /\ p.targets \subseteq Range(p.lines)
  /\ p.text \in [Range(p.lines) -> TextType]
  /\ p.role \in [Range(p.lines) -> {"none", "part1", "part2", "both"}]

ASSUME RepliesAssumption ==
  /\ \A d \in Documents :
       /\ DOMAIN d \subseteq Nat \ {0} /\ 1 \in DOMAIN d
       /\ \A p \in DOMAIN d :
            IsPage(d[p]) /\ Edits(d[p]) \subseteq EditType /\ Answers(d[p]) \subseteq Seq(TextType)
  /\ Bands \subseteq Nat /\ Lookalikes \subseteq TextType /\ LineBudget \in Nat

VARIABLES
  doc,        \* the document
  page,       \* the page of the present chunk
  phase,      \* "reply", "judge", "publish", "replay", "done"
  full,       \* requires_full_coverage
  script,     \* the edits of the reply, in the order sent
  answer,     \* the page reply: its lines and how they are placed
  proposed,   \* what the reply comes to: [whole, spans, refused]
  putBack,    \* the lines of refused pairs, put back to their source
  captured,   \* producer_ops: by page and line, the edits and the text they gave
  decided,    \* by page and line, the text delivered and whether it is a correction
  final,      \* the published edit script
  hand,       \* by page and line, the texts of the document it is replayed on
  replayed    \* by page and line, the texts after the replay

chunk  == <<script, answer, proposed, putBack>>
record == <<captured, decided>>
replay == <<final, hand, replayed>>
vars   == <<doc, page, phase, full, chunk, record, replay>>

guard    == [ratio |-> SpanRatio, budget |-> LineBudget]
NoAnswer == [lines |-> <<>>, matching |-> "none", band |-> 0]
NoReply  == [whole |-> <<>>, spans |-> [x \in {} |-> x], refused |-> {}]
NoScript == [ops |-> <<>>, expected |-> {}]
Nothing  == [x \in {} |-> x]

Pages     == DOMAIN doc
LinesOf(p) == Range(doc[p].lines)
Refs      == UNION {{p} \X LinesOf(p) : p \in Pages}
Source(r) == doc[r[1]].text[r[2]]
SourceLines(p) == [i \in DOMAIN doc[p].lines |-> doc[p].text[doc[p].lines[i]]]
NoRoles(p) == [l \in LinesOf(p) |-> "none"]

Init ==
  /\ doc \in Documents /\ full \in BOOLEAN
  /\ page = 1 /\ phase = "reply"
  /\ script = <<>> /\ answer = NoAnswer /\ proposed = NoReply /\ putBack = {}
  /\ captured = Nothing /\ decided = Nothing
  /\ final = NoScript /\ hand = Nothing /\ replayed = Nothing

----
\* _script_to_raw: the whole-line edits as they come, the span edits applied.
Proposal(whole, applied) == [whole |-> whole, spans |-> applied.text, refused |-> applied.refused]
ScriptToRaw(ops) ==
  Proposal(WholeEdits(ops),
           Applied([ops |-> SpanEdits(ops), expected |-> {}],
                   doc[page].text, doc[page].targets, doc[page].role, guard, 0))

\* _checked_text: a blank text only answers a blank line.
Acceptable(text, source) == ~HasBreak(text) /\ (IsBlank(text) => IsBlank(source))
Checked(text) == IF IsBlank(text) THEN <<>> ELSE text

\* validate_llm_response, but for the pairs: known lines, once each, of a text that
\* may stand; every target among them, or the uncovered lines filled in.
Valid ==
  LET named == {proposed.whole[i].line : i \in DOMAIN proposed.whole}
  IN  /\ Cardinality(named) = Len(proposed.whole)
      /\ named \subseteq LinesOf(page) \ DOMAIN proposed.spans
      /\ \A i \in DOMAIN proposed.whole :
           Acceptable(proposed.whole[i].text, doc[page].text[proposed.whole[i].line])
      /\ full => doc[page].targets \subseteq named \cup DOMAIN proposed.spans

\* The batch: the text every target of the chunk is given.
Produced(l) ==
  IF l \in DOMAIN proposed.spans THEN proposed.spans[l]
  ELSE LET whole == OpsOn(proposed.whole, l)
       IN  IF whole = <<>> THEN doc[page].text[l] ELSE Checked(Last(whole).text)

Edited == {r \in {page} \X doc[page].targets : OpsOn(script, r[2]) # <<>>}
Capture(refs) == [r \in refs |-> [ops |-> OpsOn(script, r[2]), text |-> Produced(r[2])]]

\* Mutated form: what the guards refused is captured too.
CapturedAll == Capture(Edited)

\* _capture_producer_ops: the edits of each target line on which none was refused.
Captured == Capture({r \in Edited : r[2] \notin proposed.refused})

----
\* A producer of edits adds one to its reply.
Edit ==
  /\ phase = "reply" /\ answer = NoAnswer /\ putBack = {} /\ Len(script) < MaxEdits
  /\ \E op \in Edits(doc[page]) : script' = Append(script, op)
  /\ UNCHANGED <<doc, page, phase, full, answer, proposed, putBack, record, replay>>

\* PageLLMEditProducer.produce: the lines of the reply placed on the lines of the page.
AnswerPage ==
  /\ phase = "reply" /\ script = <<>> /\ answer = NoAnswer /\ putBack = {} /\ ~full
  /\ \E lines \in Answers(doc[page]), matching \in {"jaccard", "characters"}, band \in Bands :
       \E offered \in {Offered(SourceLines(page), lines, matching, band)} :
         /\ ~offered.refused
         /\ answer' = [lines |-> lines, matching |-> matching, band |-> band]
         /\ script' = PageOps(doc[page].lines, SourceLines(page), offered.text)
  /\ UNCHANGED <<doc, page, phase, full, proposed, putBack, record, replay>>

\* _propose: the reply is normalised, then judged.
Propose ==
  /\ phase = "reply" /\ phase' = "judge"
  /\ proposed' = ScriptToRaw(script)
  /\ UNCHANGED <<doc, page, full, script, answer, putBack, record, replay>>

\* The lines of the page's broken word: the model puts one at most on a page.
Word == {l \in doc[page].targets : doc[page].role[l] # "none"}

\* _without_pairs, on the last attempt: the lines of a refused pair answer with their
\* source, the others as they did.
PutBackPairs ==
  /\ phase = "judge" /\ Valid /\ putBack = {}
  /\ Word # {} /\ putBack' = Word
  /\ script' = Sifted(script, {o \in Range(script) : o.line \notin Word})
                 \o LET lines == SetToSeq(Word)
                    IN  [i \in DOMAIN lines |-> [op |-> "line", line |-> lines[i], page |-> 0,
                                                 text |-> doc[page].text[lines[i]]]]
  /\ phase' = "reply" /\ proposed' = NoReply
  /\ UNCHANGED <<doc, page, full, answer, record, replay>>

NextPage ==
  /\ IF page + 1 \in Pages THEN page' = page + 1 /\ phase' = "reply"
                           ELSE page' = page /\ phase' = "publish"
  /\ script' = <<>> /\ answer' = NoAnswer /\ proposed' = NoReply /\ putBack' = {}
  /\ UNCHANGED <<doc, full, replay>>

Kept(r)     == [text |-> Source(r), corrected |-> FALSE]
Joining(old, new) == [r \in DOMAIN old \cup DOMAIN new |-> IF r \in DOMAIN new THEN new[r] ELSE old[r]]

\* A valid batch: a target falls, or stands as produced but for the break mark at its
\* end, which _preserve_break_chars puts back.  The lines of a word fall together, and
\* reconcile_hyphen_pair lets no line stand that has lost its mark.
Decide ==
  /\ phase = "judge" /\ Valid
  /\ captured' = Joining(captured, Captured)
  /\ \E fallen \in SUBSET doc[page].targets :
       /\ putBack \subseteq fallen
       /\ Word \subseteq fallen \/ Word \cap fallen = {}
       /\ \A l \in Word \ fallen :
            doc[page].role[l] \in {"part1", "both"} => EndsMarked(Produced(l))
       /\ decided' = Joining(decided, [r \in {page} \X doc[page].targets |->
            IF r[2] \in fallen THEN Kept(r)
            ELSE [text |-> PreserveBreak(Source(r), Produced(r[2])), corrected |-> TRUE]])
  /\ NextPage

\* Every attempt refused, or none answered: the targets fall back.
Refuse ==
  /\ phase = "judge"
  /\ decided' = Joining(decided, [r \in {page} \X doc[page].targets |-> Kept(r)])
  /\ NextPage
  /\ UNCHANGED captured

----
\* _build_final_edit_script: on each line that carries a correction the edits captured
\* for it, when they still give its text, or its text; and the source they apply to.
Published(r) ==
  IF captured[r].text = decided[r].text
  THEN [i \in DOMAIN captured[r].ops |-> [captured[r].ops[i] EXCEPT !.page = r[1]]]
  ELSE <<[op |-> "line", line |-> r[2], page |-> r[1], text |-> decided[r].text]>>

Publish ==
  /\ phase = "publish" /\ phase' = "replay"
  /\ LET carried == {r \in DOMAIN captured : decided[r].corrected}
         order   == SetToSeq(carried)
     IN  final' = [ops      |-> FlattenSeq([i \in DOMAIN order |-> Published(order[i])]),
                   expected |-> {[line |-> r[2], page |-> r[1], text |-> Source(r)] : r \in carried}]
  /\ UNCHANGED <<doc, page, full, chunk, record, hand, replayed>>

\* apply_edit_script on each page: the texts the script gives its lines.
Given(texts, roles) ==
  [p \in Pages |->
     Applied(final, [l \in LinesOf(p) |-> texts[<<p, l>>]], LinesOf(p),
             IF roles THEN doc[p].role ELSE NoRoles(p), guard, p).text]

\* A reader replays the script page by page, on the document or on one that differs by
\* a line, with or without the roles of the lines.
Replay ==
  /\ phase = "replay" /\ phase' = "done"
  /\ hand' \in {[r \in Refs |-> Source(r)]}
                 \cup {[r \in Refs |-> IF r = x THEN t ELSE Source(r)] : x \in Refs, t \in Lookalikes}
  /\ \E roles \in BOOLEAN : \E given \in {Given(hand', roles)} :
       replayed' = [r \in Refs |-> IF r[2] \in DOMAIN given[r[1]] THEN given[r[1]][r[2]]
                                   ELSE hand'[r]]
  /\ UNCHANGED <<doc, page, full, chunk, record, final>>

Next == \/ Edit \/ AnswerPage \/ Propose \/ PutBackPairs \/ Decide \/ Refuse
        \/ Publish \/ Replay

Spec == Init /\ [][Next]_vars

----
Delivered(r) == IF r \in DOMAIN decided THEN decided[r].text ELSE Source(r)

\* The distance between two texts: characters added, taken or changed.
Distance(a, b) ==
  LET d[p \in (0 .. Len(a)) \X (0 .. Len(b))] ==
        LET i == p[1]
            k == p[2]
        IN  IF i = 0 THEN k ELSE IF k = 0 THEN i
            ELSE Min({d[<<i - 1, k>>] + 1, d[<<i, k - 1>>] + 1,
                      d[<<i - 1, k - 1>>] + IF a[i] = b[k] THEN 0 ELSE 1})
  IN  d[<<Len(a), Len(b)>>]

\* The source with every accepted edit in the place it names: before each, what no edit
\* replaces, then its text; and the rest of the source.
InPlace(source, accepted) ==
  LET n     == Len(accepted)
      After(k) == IF k = 0 THEN 0 ELSE accepted[k].to
  IN  FlattenSeq([k \in 1 .. n + 1 |->
        IF k <= n THEN Cut(source, After(k - 1), accepted[k].from) \o accepted[k].text
                  ELSE Cut(source, After(n), Len(source))])

Orders(ops) == {[i \in DOMAIN ops |-> ops[f[i]]] : f \in Bijection(DOMAIN ops, DOMAIN ops)}

\* Edits of one line may overlap, touch or move each other's characters, and come in any
\* order: two that name different ranges give the same text in every order, and each
\* accepted one lands on the characters it names.
EditsLand ==
  phase = "judge" =>
    \A l \in doc[page].targets :
      \E ops \in {OpsOn(SpanEdits(script), l)} :
        LET source  == doc[page].text[l]
            Text(o) == Spans(o, source, doc[page].role[l], guard).text
            Named(i) == Where(ops[i].anchor, source)
        IN  /\ Text(ops) \subseteq {InPlace(source, Compatible(Placed(ops, source, guard)))}
            /\ (\A i, k \in DOMAIN ops : Named(i) = Named(k) /\ Named(i) # {} => i = k) =>
                 \A other \in Orders(ops) : Text(other) = Text(ops)

\* The budget counts each edit by itself: no line that edits are applied to, in a run
\* or in a replay, ends further from its source than the budget allows.
WithinBudget ==
  /\ phase = "judge" => \A l \in DOMAIN proposed.spans :
       Distance(doc[page].text[l], proposed.spans[l]) <= LineBudget
  /\ phase = "done" => \A r \in Refs : Distance(hand[r], replayed[r]) <= LineBudget

AsSpans(r) == \E i \in DOMAIN final.ops :
                final.ops[i].op = "span" /\ final.ops[i].line = r[2] /\ final.ops[i].page = r[1]

\* Through refusals, put-back pairs, falls, respellings, shared ids and a document that
\* is not the one, a replay gives a line the text the run delivered or leaves it alone;
\* on its source, a line published as span edits is corrected as it was.
NeverInvents ==
  phase = "done" => \A r \in Refs :
    /\ replayed[r] \in {hand[r]} \cup IF hand[r] = Source(r) THEN {Delivered(r)} ELSE {}
    /\ hand[r] = Source(r) /\ AsSpans(r) => replayed[r] = Delivered(r)

\* A page reply names no lines.  Where words say which returned line can answer which
\* source line, and in order, those are the pairs and a line without one is offered
\* nothing; cut by characters, the reply is given out whole, in order and once.
OnOwnLine ==
  phase = "judge" /\ answer # NoAnswer =>
    LET sources  == SourceLines(page)
        Texts(lines) == SelectSeq(FlattenSeq(lines), LAMBDA c : c # Break)
        evidence == {p \in (DOMAIN sources) \X (DOMAIN answer.lines) :
                       Similarity(sources[p[1]], answer.lines[p[2]]) > 0}
        Clear    == \A e, f \in evidence : (e[1] < f[1] <=> e[2] < f[2]) /\ (e[1] = f[1] <=> e[2] = f[2])
    IN  IF answer.matching = "characters"
        THEN Texts(Recut(sources, answer.lines)) = Texts(answer.lines)
        ELSE Clear => Alignment(sources, answer.lines, answer.band).pairs = evidence

====
