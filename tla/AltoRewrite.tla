---- MODULE AltoRewrite ----
(***************************************************************************)
(* The life of one TextLine of an ALTO file over two runs: parsed, linked  *)
(* with the lines around it, decided, rewritten (rewrite_alto_file), then  *)
(* the output taken for a source and given the same correction again.      *)
(*                                                                         *)
(* The lines around it are free: what the line above says of the break it  *)
(* ends with, the word the line below carries, which links the policy      *)
(* accepts and the planner cuts, what reconciliation makes of each pair.   *)
(***************************************************************************)
EXTENDS AltoLine

CONSTANTS
  Lines,      \* the children a line may come with
  Above,      \* what the line above may be: [explicit, both, word]
  Below,      \* the SUBS_CONTENT the line below may open with ("": none)
  Proposals(_)   \* the texts offered for a line

\* A child is a String, a space or a HYP; a line has one HYP at most (ALTO defines the
\* one that ends it).
IsString(c) ==
  /\ c = [tag |-> "String", content |-> c.content, id |-> c.id, subs |-> c.subs,
           style |-> c.style, extra |-> c.extra, conf |-> c.conf]
  /\ c.content \in TextType /\ c.style \in BOOLEAN /\ c.extra \in BOOLEAN /\ c.conf \in BOOLEAN
IsHyphen(c) == c = Hyphen(c.mark) /\ c.mark \in Char
IsChild(c) ==
  \/ c.tag = "String" /\ IsString(c)
  \/ c.tag = "HYP" /\ IsHyphen(c)
  \/ c = Space
IsLine(line) ==
  /\ line \in Seq(Range(line)) /\ Len(Hyps(line)) <= 1
  /\ \A i \in DOMAIN line : IsChild(line[i])

ASSUME RewriteAssumption ==
  \A line \in Lines : IsLine(line) /\ Proposals(line) \subseteq TextType

VARIABLES
  run,       \* 1, then 2 on the output of the first
  pc,        \* "parsed", "linked", "decided", "written"
  source,    \* the children as this run parsed them
  el,        \* the children of the tree being rewritten
  lm,        \* the hyphen fields of the manifest
  around,    \* [above, below]: sequences of one element, or none
  cut,       \* the links the planner cut: subset of {"above", "below"}
  decided,   \* the text of the decision
  settled,   \* "fell" with no pair settled, or "refused", or "accepted"
  path,      \* the way the line was written
  lost       \* the counters

vars == <<run, pc, source, el, lm, around, cut, decided, settled, path, lost>>

Nothing == [extra |-> 0, style |-> 0, subs |-> 0, hyps |-> 0, conf |-> 0]

Init ==
  /\ run = 1 /\ pc = "parsed"
  /\ source \in Lines /\ el = source
  /\ lm = Parsed(source)
  /\ around = [above |-> <<>>, below |-> <<>>]
  /\ cut = {} /\ decided = <<>> /\ settled = "fell"
  /\ path = "untouched" /\ lost = Nothing

----
\* The line above links onto this one (link_hyphen_pairs): a line that opens a word
\* moves its own break to the forward fields.
Continued(m, above) ==
  LET head == CASE m.role = "PART1" -> [m EXCEPT !.role = "BOTH", !.srcExp = above.explicit, !.subs = "",
                                                 !.fwdExp = m.srcExp, !.fsubs = m.subs]
                [] m.role = "NONE"  -> [m EXCEPT !.role = "PART2", !.srcExp = above.explicit]
                [] OTHER -> m
  IN  IF above.word = "" THEN head ELSE [head EXCEPT !.subs = above.word]

\* It links onto the line below: the word is its own, else the one below.
Continues(m, word) ==
  IF m.role = "BOTH" THEN [m EXCEPT !.fsubs = IF @ = "" THEN word ELSE @]
  ELSE [m EXCEPT !.subs = IF @ = "" THEN word ELSE @]

\* split_forward_link, this line the head, or the tail.
CutAbove(m) == IF m.role = "BOTH" THEN [m EXCEPT !.role = "PART1", !.srcExp = m.fwdExp, !.subs = m.fsubs, !.fsubs = ""]
               ELSE [m EXCEPT !.role = "NONE", !.subs = ""]
CutBelow(m) == IF m.role = "BOTH" THEN [m EXCEPT !.role = "PART2", !.fsubs = ""]
               ELSE [m EXCEPT !.role = "NONE", !.subs = ""]

Linked(m, above, below) ==
  LET head == IF above = <<>> THEN m ELSE Continued(m, above[1])
  IN  IF below = <<>> THEN head ELSE Continues(head, below[1])
Severed(m, cuts) ==
  LET head == IF "above" \in cuts THEN CutAbove(m) ELSE m
  IN  IF "below" \in cuts THEN CutBelow(head) ELSE head

Link ==
  /\ pc = "parsed" /\ run = 1
  /\ \E above \in {<<>>} \cup {<<a>> : a \in Above}, below \in {<<>>} \cup {<<w>> : w \in Below} :
       /\ Canonical(el) = <<>> => above = <<>> /\ below = <<>>
       /\ below # <<>> => Opens(lm)
       /\ around' = [above |-> above, below |-> below]
       /\ \E cuts \in SUBSET ((IF above = <<>> THEN {} ELSE {"above"}) \cup (IF below = <<>> THEN {} ELSE {"below"})) :
            cut' = cuts /\ lm' = Severed(Linked(lm, above, below), cuts)
  /\ pc' = "linked"
  /\ UNCHANGED <<run, source, el, decided, settled, path, lost>>

----
PairAbove == around.above # <<>> /\ "above" \notin cut
PairBelow == around.below # <<>> /\ "below" \notin cut

\* What the guards ask of a correction: a line that opens a word keeps its mark
\* (reconcile_hyphen_pair, orphan_hyphen_completed), one that ends a word gains no
\* other.
Acceptable(text) ==
  /\ ~IsBlank(text) /\ ~HasBreak(text)
  /\ Opens(lm) /\ (PairBelow \/ EndsMarked(Canonical(source))) => EndsMarked(text)
  /\ PairAbove => Len(Tokens(text)) <= Len(Tokens(Canonical(source)))

\* The word a settled pair resolves to.
Resolved(explicit, both, word, accepted) == IF accepted /\ (explicit \/ both) THEN word ELSE ""

\* _reconcile_one_pair writes it back on the lines of the pair.
Reconciled(m, accepted) ==
  LET a    == around.above[1]
      head == IF PairAbove THEN [m EXCEPT !.subs = Resolved(a.explicit, a.both, @, accepted)] ELSE m
  IN  IF ~PairBelow THEN head
      ELSE IF m.role = "BOTH" THEN [head EXCEPT !.fsubs = Resolved(m.fwdExp, TRUE, @, accepted)]
      ELSE [head EXCEPT !.subs = Resolved(m.srcExp, FALSE, @, accepted)]

Fall ==
  /\ pc = "linked" /\ run = 1
  /\ decided' = Canonical(source) /\ settled' = "fell"
  /\ pc' = "decided"
  /\ UNCHANGED <<run, source, el, lm, around, cut, path, lost>>

\* A pair whose texts do not join falls back together, its word forgotten.
Refuse ==
  /\ pc = "linked" /\ run = 1 /\ (PairAbove \/ PairBelow)
  /\ decided' = Canonical(source) /\ settled' = "refused"
  /\ lm' = Reconciled(lm, FALSE)
  /\ pc' = "decided"
  /\ UNCHANGED <<run, source, el, around, cut, path, lost>>

Accept ==
  /\ pc = "linked" /\ run = 1
  /\ \E text \in Proposals(source) :
       /\ Acceptable(text)
       /\ decided' = PreserveBreak(Canonical(source), text)
  /\ settled' = "accepted"
  /\ lm' = Reconciled(lm, TRUE)
  /\ pc' = "decided"
  /\ UNCHANGED <<run, source, el, around, cut, path, lost>>

----
Rewrite ==
  /\ pc = "decided"
  /\ \E way \in {PathOf(el, lm, decided)} :
     \E from \in {IF way = "slow_path" THEN Origins(el, Tokens(WriteText(lm, decided))) ELSE <<>>} :
     \E out \in {Rewritten(el, lm, decided, way, from)} :
       el' = out /\ path' = way /\ lost' = Lost(el, lm, way, from, out)
  /\ pc' = "written"
  /\ UNCHANGED <<run, source, lm, around, cut, decided, settled>>

\* classify_projection_fidelity: how well the artefact says what was decided.
Fidelity(text, out) ==
  IF text = Text(out) THEN IF Spelled(out, TRUE) = Text(out) THEN "exact" ELSE "source_spelling"
  ELSE IF Tokens(text) = Tokens(Text(out)) THEN "token_equivalent" ELSE "diverges"

\* The output is a source.  The lines around it carry the word of their pair where
\* their own markup has room for it, and what they had where the link was cut.
AroundAgain ==
  LET ahead == IF lm.role = "BOTH" THEN lm.fsubs ELSE lm.subs
  IN  [above |-> [k \in DOMAIN around.above |->
                    IF ~PairAbove THEN around.above[k]
                    ELSE [around.above[k] EXCEPT !.word = IF around.above[k].explicit THEN lm.subs ELSE ""]],
       below |-> [k \in DOMAIN around.below |->
                    IF ~PairBelow THEN around.below[k]
                    ELSE IF around.below[k] # "" \/ ForwardExplicit(lm) THEN ahead ELSE ""]]

\* The second run links, cuts and settles as the first one did, and decides the text
\* the first one decided.
Again ==
  /\ pc = "written" /\ run = 1 /\ Fidelity(decided, el) # "diverges"
  /\ run' = 2 /\ source' = el
  /\ around' = AroundAgain
  /\ lm' = Severed(Linked(Parsed(el), AroundAgain.above, AroundAgain.below), cut)
  /\ pc' = "linked"
  /\ UNCHANGED <<el, cut, decided, settled, path, lost>>

DecideAgain ==
  /\ pc = "linked" /\ run = 2
  /\ decided' = PreserveBreak(Canonical(source), decided)
  /\ lm' = IF settled = "fell" THEN lm ELSE Reconciled(lm, TRUE)
  /\ pc' = "decided"
  /\ UNCHANGED <<run, source, el, around, cut, settled, path, lost>>

Next == Link \/ Fall \/ Refuse \/ Accept \/ Rewrite \/ Again \/ DecideAgain

Spec == Init /\ [][Next]_vars

----
\* The artefact says what was decided: _verify_projection never stops the run.
DecisionSurvives == pc = "written" => Fidelity(decided, el) # "diverges"

\* A break the source does not mark up is not marked up: the dash of the text stays in
\* its String.
NoInventedBreak == pc = "written" /\ Hyps(source) = <<>> /\ ~ForwardExplicit(lm) => Hyps(el) = <<>>

\* Words without the break the line ends with.
Bare(text) == Tokens(Trimmed(Trimmed(text, {Blank}), Marks \cup {Blank}))

\* Whatever path: only the break mark at the end of the line may come out otherwise
\* than decided.
WordsSurvive == pc = "written" => Bare(decided) = Bare(Text(el))

\* The output takes the same correction again: nothing of it is rebuilt and nothing it
\* has is lost.
SecondPassQuiet == run = 2 /\ pc = "written" => path # "slow_path" /\ lost = Nothing

\* An ID the source gives to one String only is on one String only.
Ids(c) == {Strings(c)[k].id : k \in DOMAIN Strings(c)}
Identified(c) == Cardinality(Ids(c)) = Len(Strings(c))
IdsDistinct == Identified(source) => Identified(el)

\* What a line had and has no more, the report counts: references, styles and HYPs on
\* whatever path, the SUBS of an abbreviation when the line is rebuilt.
Gone(P(_)) ==
  Cardinality({i \in DOMAIN source : P(source[i])}) - Cardinality({i \in DOMAIN el : P(el[i])})
LossesCounted ==
  pc = "written" =>
    /\ lost.extra = Gone(LAMBDA c : c.tag = "String" /\ c.extra)
    /\ lost.style = Gone(LAMBDA c : c.tag = "String" /\ c.style)
    /\ lost.hyps = Max({0, Gone(LAMBDA c : c.tag = "HYP")})
    /\ path = "slow_path" => lost.subs >= Gone(LAMBDA c : c.tag = "String" /\ c.subs.type = "Abbreviation")

====
