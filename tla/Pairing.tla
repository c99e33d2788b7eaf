---- MODULE Pairing ----
(***************************************************************************)
(* The linker: core/pairing.py, the hyphen roles the two parsers read off  *)
(* a line, and the cut of core/units.py.                                   *)
(*                                                                         *)
(* A line is read with a role (does its word go on below, was it begun     *)
(* above), then each page is walked once to link the lines that open a     *)
(* word with the next line that carries text; page ids two files share are *)
(* made distinct; at last the seams between pages are walked.  The planner *)
(* may later cut links.  What the pairing policy thinks of a candidate is  *)
(* a free choice: it is the host's to replace.                             *)
(***************************************************************************)
EXTENDS HyphenUnits, Sequences

CONSTANTS
  Lines,        \* the document's lines, numbered in reading order
  NPages,       \* pages are 1 .. NPages, in manifest order
  PageOf,       \* PageOf[l]: the page of line l
  FileOf,       \* FileOf[p]: the source file of page p
  Declared,     \* Declared[p]: the page id its file gives page p
  Documents     \* what the files may say of the lines, see `source`

Roles == {"NONE", "PART1", "PART2", "BOTH"}
Marks == {"no", "heuristic", "explicit"}
LineSources == [blank : BOOLEAN, mark : Marks, part2 : BOOLEAN]

ASSUME LinesAssumption ==
  /\ Lines \subseteq Nat \ {0} /\ IsFiniteSet(Lines)
  /\ NPages \in Nat
  /\ PageOf \in [Lines -> 1 .. NPages]
  /\ \A l, m \in Lines : l < m => PageOf[l] <= PageOf[m]
ASSUME NamesAssumption ==
  \A p, q \in 1 .. NPages : FileOf[p] = FileOf[q] /\ Declared[p] = Declared[q] => p = q
ASSUME DocumentsAssumption == \A d \in Documents : d \in [Lines -> LineSources]

VARIABLES
  format,   \* "alto" or "page"
  source,   \* source[l]: blank, the mark it ends with, SUBS_TYPE="HypPart2" at its head
  phase,    \* "link", "rename", "seams", "linked"
  at,       \* the line or the page the walk has come to
  lm,       \* the hyphen fields of each line's manifest
  name,     \* name[p]: the page id of page p
  splits    \* the links cut since, as recorded

vars == <<format, source, phase, at, lm, name, splits>>

LinesOn(p)  == {l \in Lines : PageOf[l] = p}
Opens(r)    == r.role \in {"PART1", "BOTH"}
Largest(S)  == CHOOSE x \in S : \A y \in S : y <= x

----
\* Reading.  The pair slot (with the id of its page) and the forward slot hold a
\* line or 0; `subs` and `fsubs` hold the word SUBS_CONTENT spells: l for the word
\* that leaves line l, -l for the word that comes into line l.
\* `source` says explicit only where the format can (PAGE marks up nothing).

\* _assign_hyphen_roles: in PAGE, the raw line above decides.
PageRole(l, src) ==
  LET above == {m \in LinesOn(PageOf[l]) : m < l}
  IN  IF src[l].mark = "no" THEN "NONE"
      ELSE IF above # {} /\ src[Largest(above)].mark # "no" THEN "BOTH" ELSE "PART1"

\* _parse_textline_hyphen_info: in ALTO, the markup and the trailing mark decide.
AltoRole(s) ==
  CASE s.part2 /\ s.mark # "no" -> "BOTH"
    [] s.part2 /\ s.mark = "no" -> "PART2"
    [] ~s.part2 /\ s.mark # "no" -> "PART1"
    [] OTHER -> "NONE"

Read(l, fmt, src) ==
  LET s    == src[l]
      role == IF fmt = "page" THEN PageRole(l, src) ELSE AltoRole(s)
      out  == s.mark = "explicit"
  IN  [role |-> role, pair |-> 0, pairPage |-> <<>>, fwd |-> 0, fwdPage |-> <<>>,
       srcExp |-> s.part2 \/ out,
       fwdExp |-> s.part2 /\ out,
       subs   |-> IF s.part2 THEN -l ELSE IF out THEN l ELSE 0,
       fsubs  |-> IF s.part2 /\ out THEN l ELSE 0]

Init ==
  /\ format \in {"alto", "page"}
  /\ source \in Documents
  /\ format = "page" => \A l \in Lines : source[l].mark # "explicit" /\ ~source[l].part2
  /\ phase = "link" /\ at = 0
  /\ lm = [l \in Lines |-> Read(l, format, source)]
  /\ name = [p \in 1 .. NPages |-> <<Declared[p]>>]
  /\ splits = {}

----
\* The slots, read through the role.
Forward(l)  == CASE lm[l].role = "PART1" -> lm[l].pair
                 [] lm[l].role = "BOTH"  -> lm[l].fwd
                 [] OTHER -> 0
Backward(l) == IF lm[l].role \in {"PART2", "BOTH"} THEN lm[l].pair ELSE 0

\* forward_break_is_explicit.
ForwardExplicit(r) == IF r.role = "BOTH" THEN r.fwdExp ELSE r.srcExp

Substantive(l) == ~source[l].blank

\* Mutated form: a line that opens a word itself is only continued into.
WelcomedAsHead(t, h) ==
  IF h.role \in {"NONE", "PART1"}
  THEN [h EXCEPT !.role = "PART2", !.srcExp = ForwardExplicit(t)] ELSE h
\* Mutated form: its own break is not moved to the forward fields.
WelcomedInPlace(t, h) ==
  IF h.role \in {"NONE", "PART1"}
  THEN [h EXCEPT !.role = IF @ = "PART1" THEN "BOTH" ELSE "PART2",
                 !.srcExp = ForwardExplicit(t)]
  ELSE h

\* The head `h` as it takes the word of the tail `t`: a line that opens a word is
\* promoted to BOTH and its own break moves to the forward fields.
Welcomed(t, h) ==
  CASE h.role = "PART1" -> [h EXCEPT !.role = "BOTH", !.srcExp = ForwardExplicit(t),
                                     !.fwdExp = h.srcExp, !.fsubs = h.subs, !.subs = 0]
    [] h.role = "NONE"  -> [h EXCEPT !.role = "PART2", !.srcExp = ForwardExplicit(t)]
    [] OTHER -> h

\* link_hyphen_pairs for one tail and the candidate the policy accepts.
Link(t, h) ==
  LET head == Welcomed(lm[t], lm[h])
      subs == IF lm[t].role = "BOTH"
              THEN IF lm[t].fsubs # 0 THEN lm[t].fsubs ELSE head.subs
              ELSE IF lm[t].subs # 0 THEN lm[t].subs ELSE head.subs
  IN  lm' = [lm EXCEPT
        ![t] = IF @.role = "BOTH"
               THEN [@ EXCEPT !.fwd = h, !.fwdPage = name[PageOf[h]], !.fsubs = subs]
               ELSE [@ EXCEPT !.pair = h, !.pairPage = name[PageOf[h]], !.subs = subs],
        ![h] = [head EXCEPT !.pair = t, !.pairPage = name[PageOf[t]], !.subs = subs]]

\* The lines of its page below `l` that carry text.
Candidates(l) == {m \in LinesOn(PageOf[l]) : m > l /\ Substantive(m)}

\* One turn of the walk down a page.
LinkLine ==
  /\ phase = "link"
  /\ \E l \in Lines :
       /\ l > at /\ \A m \in Lines : m > at => l <= m
       /\ at' = l
       /\ \/ /\ Substantive(l) /\ Opens(lm[l])
             /\ \E h \in Candidates(l) : /\ \A m \in Candidates(l) : h <= m
                                         /\ Link(l, h)
          \/ UNCHANGED lm       \* nothing to link, or the policy says no
  /\ UNCHANGED <<format, source, phase, name, splits>>

PagesLinked ==
  /\ phase = "link" /\ \A l \in Lines : l <= at
  /\ phase' = "rename"
  /\ UNCHANGED <<format, source, at, lm, name, splits>>

\* Mutated form: the forward slots keep the old id.
RenamedPairOnly(r, old, new) == [r EXCEPT !.pairPage = IF @ = old THEN new ELSE @]

\* A line's references to its own page, under the new id.
Renamed(r, old, new) == [r EXCEPT !.pairPage = IF @ = old THEN new ELSE @,
                                  !.fwdPage  = IF @ = old THEN new ELSE @]

\* disambiguate_page_ids: the ids two pages share are prefixed with the file.
Rename ==
  LET colliding == {p \in 1 .. NPages : \E q \in 1 .. NPages : q # p /\ name[q] = name[p]}
      new(p)    == IF p \in colliding THEN <<FileOf[p]>> \o name[p] ELSE name[p]
  IN  /\ phase = "rename"
      /\ name' = [p \in 1 .. NPages |-> new(p)]
      /\ lm' = [l \in Lines |-> IF PageOf[l] \in colliding
                                THEN Renamed(lm[l], name[PageOf[l]], new(PageOf[l]))
                                ELSE lm[l]]
      /\ phase' = "seams" /\ at' = 0
      /\ UNCHANGED <<format, source, splits>>

TextOn(p) == {l \in LinesOn(p) : Substantive(l)}

\* link_cross_page_hyphens: an opening line without a link onward.
NeedsLink(l) == Opens(lm[l]) /\ Forward(l) = 0

\* One seam: a page with text and the next one that has some.
LinkSeam ==
  /\ phase = "seams"
  /\ \E p, q \in 1 .. NPages :
       /\ p > at /\ p < q /\ TextOn(p) # {} /\ TextOn(q) # {}
       /\ \A r \in 1 .. NPages : TextOn(r) # {} /\ r > at => r = p \/ r >= q
       /\ at' = p
       /\ \/ \E t \in TextOn(p), h \in TextOn(q) :
               /\ \A m \in TextOn(p) : m <= t
               /\ \A m \in TextOn(q) : h <= m
               /\ NeedsLink(t) /\ Link(t, h)
          \/ UNCHANGED lm
  /\ UNCHANGED <<format, source, phase, name, splits>>

SeamsLinked ==
  /\ phase = "seams"
  /\ Cardinality({p \in 1 .. NPages : p > at /\ TextOn(p) # {}}) <= 1
  /\ phase' = "linked"
  /\ UNCHANGED <<format, source, at, lm, name, splits>>

\* split_forward_link: the tail without its word's end, the head without its start.
CutTail(r) == IF r.role = "BOTH"
              THEN [r EXCEPT !.role = "PART2", !.fwd = 0, !.fwdPage = <<>>, !.fsubs = 0]
              ELSE [r EXCEPT !.role = "NONE", !.pair = 0, !.pairPage = <<>>, !.subs = 0]
\* Mutated form: what the head opens itself is forgotten.
CutHeadClosed(r) == [r EXCEPT !.role = "NONE", !.pair = 0, !.pairPage = <<>>, !.subs = 0]

\* The head: what it opens itself moves back to the pair fields.
CutHead(r) == IF r.role = "BOTH"
              THEN [r EXCEPT !.role = "PART1", !.pair = r.fwd, !.pairPage = r.fwdPage,
                             !.subs = r.fsubs, !.srcExp = r.fwdExp,
                             !.fwd = 0, !.fwdPage = <<>>, !.fsubs = 0]
              ELSE [r EXCEPT !.role = "NONE", !.pair = 0, !.pairPage = <<>>, !.subs = 0]

\* The LINE planner cuts a link between two lines of a page.
Split ==
  /\ phase = "linked"
  /\ \E t \in Lines :
       /\ Forward(t) # 0 /\ PageOf[Forward(t)] = PageOf[t]
       /\ lm' = [lm EXCEPT ![t] = CutTail(@), ![Forward(t)] = CutHead(@)]
       /\ splits' = splits \cup {<<t, Forward(t)>>}
  /\ UNCHANGED <<format, source, phase, at, name>>

Next == LinkLine \/ PagesLinked \/ Rename \/ LinkSeam \/ SeamsLinked \/ Split

Spec == Init /\ [][Next]_vars

----
\* unpaired_break_refs: the lines whose role asks for a partner they do not have.
Unpaired == {l \in Lines : \/ Opens(lm[l]) /\ Forward(l) = 0
                           \/ lm[l].role \in {"PART2", "BOTH"} /\ Backward(l) = 0}

LinksOf == {<<l, Forward(l)>> : l \in {k \in Lines : Forward(k) # 0}}

\* The line was begun on another page: the head of a seam.
SeamHead(l) == Backward(l) # 0 /\ PageOf[Backward(l)] # PageOf[l]

\* What every other module assumes of the links: a line's word goes on onto one
\* later line that carries text, with only lines without text between; no two words
\* go on onto the same line; and the two ends agree, through every promotion and
\* cut, but for the head of a seam, which may forget its own link onward.
LinkedOnce ==
  /\ WellLinked(LinksOf)
  /\ \A k \in LinksOf : Backward(k[2]) = k[1] /\ Substantive(k[2])
  /\ \A l \in Lines : Backward(l) # 0 =>
       Forward(Backward(l)) = l \/ SeamHead(Backward(l))

\* No break is lost in silence: a line the file ends in the middle of a word is
\* linked onward, or reported unpaired, or recorded as cut.
BreaksAccounted ==
  \A l \in Lines :
    source[l].mark # "no" =>
      Forward(l) # 0 \/ l \in Unpaired \/ \E k \in splits : k[1] = l

\* Markup stays with the word it was written on, through promotions and cuts: the
\* break a line opens is explicit when the file said so, and the SUBS_CONTENT on
\* either side of a line is the one of the word on that side.
OwnMarkup ==
  \A l \in Lines :
    /\ Opens(lm[l]) => (ForwardExplicit(lm[l]) <=> source[l].mark = "explicit")
    /\ LET coming == {0, -l} \cup {t \in Lines : Backward(l) = t}
           going  == {0, l} \cup {-h : h \in {m \in Lines : Backward(m) = l}}
       IN  /\ lm[l].subs \in (IF lm[l].role = "PART1" THEN going ELSE coming)
           /\ lm[l].fsubs \in going

\* Every reference names the page its line is on, and no other page has that name:
\* looked up in the document it finds that line.
Resolves ==
  /\ \A l \in Lines :
       /\ lm[l].pair # 0 => lm[l].pairPage = name[PageOf[lm[l].pair]]
       /\ lm[l].fwd # 0  => lm[l].fwdPage = name[PageOf[lm[l].fwd]]
  /\ phase \in {"seams", "linked"} =>
       \A p, q \in 1 .. NPages : name[p] = name[q] => p = q

\* tests/hyphenation/test_link_symmetry.py: if A says its word continues onto B, B
\* must say its word is continued from A, and vice versa.
Symmetric ==
  phase = "linked" =>
    \A l, m \in Lines : Forward(l) = m <=> Backward(m) = l

====
