---- MODULE Editing ----
(***************************************************************************)
(* core/editing.py: the edits a producer proposes on a line, their anchors *)
(* and what apply_edit_script makes of them.  A text is a sequence of      *)
(* characters; an offset counts the characters before it, as in the code.  *)
(*                                                                         *)
(* An edit is [op, line, page, text], op "line" or "span", a span with an  *)
(* anchor: a range of offsets, or a text to find and the one-element       *)
(* sequence of its occurrence (empty: it must be unique).                  *)
(***************************************************************************)
EXTENDS SequencesExt, Positions

Blank == " "    \* white space
Break == "\n"   \* a line separator
Marks == {"-", "="}   \* HYPHEN_CHARS, two of them

Char     == STRING \cup {Blank, Break} \cup Marks
TextType == Seq(Char)
AnchorType ==   \* RangeAnchor, MatchAnchor
  [at : {"range"}, from : Int, to : Int] \cup [at : {"match"}, match : TextType, nth : Seq(Int)]
EditType ==     \* ReplaceLine, ReplaceSpan; page 0: none
  [op : {"line"}, line : STRING, page : Nat, text : TextType]
    \cup [op : {"span"}, line : STRING, page : Nat, anchor : AnchorType, text : TextType]

Trimmed(text, chars) ==   \* rstrip
  SubSeq(text, 1, Max({0} \cup {i \in DOMAIN text : text[i] \notin chars}))
IsBlank(text)   == Trimmed(text, {Blank, Break}) = <<>>
HasBreak(text)  == Contains(text, Break)
EndsMarked(text) == \E t \in {Trimmed(text, {Blank, Break})} : t # <<>> /\ Last(t) \in Marks
Cut(text, from, to) == SubSeq(text, from + 1, to)

Between(from, to)     == [from |-> from, to |-> to]
Found(text, pattern) == {i \in 0 .. Len(text) - Len(pattern) : Cut(text, i, i + Len(pattern)) = pattern}

\* normalize_anchor: the range an anchor names in a text, if it names one.
Where(anchor, text) ==
  IF anchor.at = "range"
  THEN IF 0 <= anchor.from /\ anchor.from <= anchor.to /\ anchor.to <= Len(text)
       THEN {Between(anchor.from, anchor.to)} ELSE {}
  ELSE LET found == Found(text, anchor.match)
           here  == {i \in found : IF anchor.nth = <<>> THEN Cardinality(found) = 1
                                   ELSE Cardinality({k \in found : k < i}) = anchor.nth[1]}
       IN  {Between(i, i + Len(anchor.match)) : i \in IF anchor.match = <<>> THEN {} ELSE here}

\* Mutated form: an edit costs the length it adds or takes.
ChangedLength(old, new) == Max({Len(new) - Len(old), Len(old) - Len(new)})

\* _changed_chars: what is left of the longer text without the common ends.
Changed(old, new) ==
  LET least  == Min({Len(old), Len(new)})
      prefix == Max({k \in 0 .. least : Cut(old, 0, k) = Cut(new, 0, k)})
      suffix == Max({k \in 0 .. least - prefix :
                       Cut(old, Len(old) - k, Len(old)) = Cut(new, Len(new) - k, Len(new))})
  IN  Max({Len(old), Len(new)}) - prefix - suffix

----
\* trailing_hyphen_char: the text ends in a mark, and a letter before it.
BreaksWord(text) ==
  \E t \in {Trimmed(text, {Blank, Break})} :
    Len(t) > 1 /\ Last(t) \in Marks /\ t[Len(t) - 1] \notin Marks \cup {Blank}

\* preserve_break_char: a text that ends in another break mark than its source takes
\* the source's.
PreserveBreak(source, text) ==
  LET s == Trimmed(source, {Blank, Break})
      t == Trimmed(text, {Blank, Break})
  IN  IF BreaksWord(source) /\ t # <<>> /\ Last(t) \in Marks
      THEN [text EXCEPT ![Len(t)] = Last(s)] ELSE text

\* _e5_hyphen_ok: a line that opens a broken word keeps its mark, and the word before it.
MarkKept(role, result, source) ==
  LET Unmarked(text) == Trimmed(Trimmed(text, {Blank, Break}), Marks)
      EndsBlank(text) == text # <<>> /\ Last(text) = Blank
  IN  role \in {"part1", "both"} =>
        /\ Unmarked(result) # Trimmed(result, {Blank, Break})
        /\ Unmarked(result) # <<>>
        /\ EndsBlank(Unmarked(result)) => EndsBlank(Unmarked(source))

\* _e5b_boundary_word_kept: no one edit erases the first word of a line that ends one.
WordKept(role, source, accepted) ==
  LET inked == {i \in DOMAIN source : source[i] # Blank}
      first == Min(inked) - 1
      end   == Max({k \in first + 1 .. Len(source) : \A i \in first + 1 .. k : i \in inked})
  IN  role \in {"part2", "both"} /\ inked # {} =>
        ~\E i \in DOMAIN accepted :
            accepted[i].from <= first /\ accepted[i].to >= end /\ IsBlank(accepted[i].text)

\* _whole_line_verdict: the text of a whole-line edit, or why it may not stand.
WholeLine(ops, source, role, guard) ==
  LET text == ops[1].text
      why  == IF Len(ops) > 1 THEN {"conflict"}
              ELSE IF HasBreak(text) THEN {"newline"}
              ELSE IF IsBlank(text) THEN {"empty"}
              ELSE IF Changed(source, text) > guard.budget THEN {"budget"}
              ELSE IF ~MarkKept(role, text, source) THEN {"hyphen"}
              ELSE {}
  IN  [text |-> IF why = {} THEN {text} ELSE {}, refused |-> why]

SpanRefusal(op, source, guard) ==
  LET where == Where(op.anchor, source)
  IN  IF HasBreak(op.text) THEN {"newline"}
      ELSE IF where = {} THEN {"anchor"}
      ELSE {"growth" : r \in {r \in where :
              Len(op.text) > guard.ratio * Max({1, r.to - r.from})}}

\* The range p comes before q: by start, then end.
Precedes(p, q) == p.from < q.from \/ (p.from = q.from /\ p.to < q.to)

\* The usable edits of a line as replaced ranges, by start, then end, then as they came.
Placed(ops, source, guard) ==
  LET usable == {i \in DOMAIN ops : SpanRefusal(ops[i], source, guard) = {}}
      place  == [i \in usable |-> CHOOSE r \in Where(ops[i].anchor, source) : TRUE]
      order  == Ranked(usable, [i \in usable |->
                  {k \in usable : Precedes(place[k], place[i]) \/ (place[k] = place[i] /\ k <= i)}])
  IN  [n \in DOMAIN order |->
         [from |-> place[order[n]].from, to |-> place[order[n]].to, text |-> ops[order[n]].text]]

\* For every edit the next one that neither overlaps it nor starts where it does.
NextClear(placed) ==
  [i \in DOMAIN placed |->
     Min({j \in i + 1 .. Len(placed) :
            placed[j].from >= placed[i].to /\ placed[j].from # placed[i].from}
         \cup {Len(placed) + 1})]

\* The edits that clear the one accepted before them.
Compatible(placed) == Chosen(placed, Stops(1, Len(placed), NextClear(placed)))

\* The text with the range of the edit p replaced.
Replaced(text, p) == Cut(text, 0, p.from) \o p.text \o Cut(text, p.to, Len(text))

\* Mutated form: applied from the left, the offsets of the source kept.
SplicedFromLeft(source, accepted) ==
  LET text[k \in 0 .. Len(accepted)] ==
        IF k = 0 THEN source ELSE Replaced(text[k - 1], accepted[k])
  IN  text[Len(accepted)]

\* _apply_spans: from the right, so that no offset moves before it is used.
Spliced(source, accepted) ==
  LET text[k \in 1 .. Len(accepted) + 1] ==
        IF k > Len(accepted) THEN source ELSE Replaced(text[k + 1], accepted[k])
  IN  text[1]

\* changed_chars, over all edits accepted.
AllChanged(source, accepted) ==
  LET changed[k \in 0 .. Len(accepted)] ==
        IF k = 0 THEN 0
        ELSE changed[k - 1] + Changed(Cut(source, accepted[k].from, accepted[k].to), accepted[k].text)
  IN  changed[Len(accepted)]

\* E4, E3 and E5 on the line the accepted edits make.
LineRefusal(accepted, result, source, role, guard) ==
  IF accepted = <<>> THEN {}
  ELSE IF AllChanged(source, accepted) > guard.budget THEN {"budget"}
  ELSE IF IsBlank(result) THEN {"empty"}
  ELSE IF ~MarkKept(role, result, source) THEN {"hyphen"}
  ELSE IF ~WordKept(role, source, accepted) THEN {"boundary"}
  ELSE {}

Verdict(accepted, result, single, whole) ==
  [text    |-> IF accepted = <<>> \/ whole # {} THEN {} ELSE {result},
   refused |-> single \cup whole]

Settled(accepted, result, single, source, role, guard) ==
  Verdict(accepted, result, single, LineRefusal(accepted, result, source, role, guard))

OfPlaced(placed, accepted, refused, source, role, guard) ==
  Settled(accepted, Spliced(source, accepted),
          refused \cup IF Len(accepted) < Len(placed) THEN {"overlap"} ELSE {},
          source, role, guard)

\* The span path of _apply_line_ops.
Spans(ops, source, role, guard) ==
  LET placed == Placed(ops, source, guard)
  IN  OfPlaced(placed, Compatible(placed),
               UNION {SpanRefusal(ops[i], source, guard) : i \in DOMAIN ops}, source, role, guard)

\* The edits of each kind, and those on a line.
WholeEdits(ops)   == Sifted(ops, {o \in Range(ops) : o.op = "line"})
SpanEdits(ops)    == Sifted(ops, {o \in Range(ops) : o.op = "span"})
OpsOn(ops, line)  == Sifted(ops, {o \in Range(ops) : o.line = line})

\* _apply_line_ops: the text a line gets, if it gets one, and the refusals on it.
LineVerdict(ops, source, role, guard) ==
  IF WholeEdits(ops) = <<>> THEN Spans(ops, source, role, guard)
  ELSE WholeLine(WholeEdits(ops) \o SpanEdits(ops), source, role, guard)

----
\* apply_edit_script, for a script of the version this library speaks.  `canonical`
\* holds the texts at hand, `allowed` the lines that may be edited, script.expected the
\* recorded source texts.  An edit stamped with another page is out of scope.
InScope(script, page) ==
  LET Scoped(o) == page = 0 \/ o.page \in {0, page}
  IN  [ops      |-> Sifted(script.ops, {o \in Range(script.ops) : Scoped(o)}),
       expected |-> {pc \in script.expected : Scoped(pc)}]

Open(script, canonical, allowed) ==
  {l \in {script.ops[i].line : i \in DOMAIN script.ops} \cap DOMAIN canonical \cap allowed :
     \A pc \in script.expected : pc.line = l => pc.text = canonical[l]}

Outcome(script, verdict) ==
  [text    |-> [l \in {l \in DOMAIN verdict : verdict[l].text # {}} |->
                  CHOOSE t \in verdict[l].text : TRUE],
   refused |-> {script.ops[i].line : i \in DOMAIN script.ops}
                 \ {l \in DOMAIN verdict : verdict[l].refused = {}}]

AppliedScript(script, canonical, allowed, roles, guard) ==
  Outcome(script, [l \in Open(script, canonical, allowed) |->
                     LineVerdict(OpsOn(script.ops, l), canonical[l], roles[l], guard)])

Applied(script, canonical, allowed, roles, guard, page) ==
  AppliedScript(InScope(script, page), canonical, allowed, roles, guard)

====
