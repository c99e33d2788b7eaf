---- MODULE PageAlignment ----
(***************************************************************************)
(* Which line of a page reply answers which source line: align_tokens of   *)
(* core/alignment.py, core/page_alignment.py and the two ways              *)
(* producers/page_llm.py has to turn a reply into edits.  A page is a      *)
(* sequence of texts, a text a sequence of characters.                     *)
(***************************************************************************)
EXTENDS Editing

CONSTANTS
  MergeSlack,   \* MERGE_SLACK_TOKENS
  Scale         \* bound: similarities are fractions of it; every union of words divides it

ASSUME AlignmentAssumption == MergeSlack \in Nat /\ Scale \in Nat \ {0}

\* str.split: where the words of a text start, and the set of its words.
Starts(text)  == {i \in DOMAIN text : text[i] # Blank /\ (i = 1 \/ text[i - 1] = Blank)}
WordFrom(text, i) == SubSeq(text, i, Max({k \in i .. Len(text) : \A n \in i .. k : text[n] # Blank}))
Words(text)   == {WordFrom(text, i) : i \in Starts(text)}

\* line_similarity: Jaccard over words, nothing when the counts are too far apart.
Similarity(left, right) ==
  LET l == Words(left)
      r == Words(right)
      apart == Cardinality(Starts(left)) - Cardinality(Starts(right))
  IN  IF apart > MergeSlack \/ -apart > MergeSlack THEN 0
      ELSE IF l \cup r = {} THEN Scale
      ELSE (Scale * Cardinality(l \cap r)) \div Cardinality(l \cup r)

----
Gap  == Scale      \* the cost of a line left out, on either side
Far  == 1000000    \* infinity
Substitution(s) == 2 * (Scale - s)

Effective(n, m, band) == Max({band, n - m, m - n})

\* _banded_range around the interpolated diagonal (round halves to even), and the row
\* of the table, wider by one on each side.
Centre(i, n, m) ==
  LET q == (i * m) \div n
      r == 2 * ((i * m) % n)
  IN  IF n = m THEN i ELSE IF n = 0 THEN 0
      ELSE IF r < n \/ (r = n /\ q % 2 = 0) THEN q ELSE q + 1
RowLow(i, n, m, width)  == Max({0, Max({0, Centre(i, n, m) - width}) - 1})
RowHigh(i, n, m, width) == Min({m + 1, Min({m, Centre(i, n, m) + width + 1}) + 1}) - 1

\* _fill_cost_band, over n and m tokens whose similarities are alike[<<i, j>>].
CostOf(n, m, width, alike) ==
  LET In(i, j) == RowLow(i, n, m, width) <= j /\ j <= RowHigh(i, n, m, width)
      cost[p \in (0 .. n) \X (0 .. m)] ==
        LET i == p[1]
            j == p[2]
        IN  IF ~In(i, j) THEN Far
            ELSE IF i = 0 THEN j * Gap
            ELSE IF j = 0 THEN i * Gap
            ELSE Min({Far, cost[<<i - 1, j>>] + Gap, cost[<<i, j - 1>>] + Gap,
                      cost[<<i - 1, j - 1>>] + Substitution(alike[p])})
  IN  cost

\* Mutated form: a pair that costs no more than its two gaps is a match.
Settles(here, diagonal, similarity) == here = diagonal + Substitution(similarity)

\* The backtrack of align_tokens takes a match when it costs least, and has evidence.
Matches(here, diagonal, similarity) ==
  here = diagonal + Substitution(similarity) /\ similarity > 0

\* align_tokens: the walk back from the corner, the pairs of matched tokens on it, and
\* whether the path touched the edge of the corridor.
AlignTokens(n, m, band, alike) ==
  LET width == Effective(n, m, band)
      cost  == CostOf(n, m, width, alike)
      At(i, j) == IF RowLow(i, n, m, width) <= j /\ j <= RowHigh(i, n, m, width)
                  THEN cost[<<i, j>>] ELSE Far
      Edge(i, j) == 0 < j /\ j < m /\ (j <= RowLow(i, n, m, width) \/ j >= RowHigh(i, n, m, width))
      Match(i, j) == i > 0 /\ j > 0 /\ Matches(At(i, j), At(i - 1, j - 1), alike[<<i, j>>])
      Back(i, j) == IF i = 0 /\ j = 0 THEN <<0, 0>>
                    ELSE IF Match(i, j) THEN <<i - 1, j - 1>>
                    ELSE IF i > 0 /\ At(i, j) = At(i - 1, j) + Gap THEN <<i - 1, j>>
                    ELSE <<i, j - 1>>
      walk[k \in 0 .. n + m] ==
        IF k = 0 THEN <<n, m>> ELSE LET here == walk[k - 1] IN Back(here[1], here[2])
      visited == {walk[k] : k \in 0 .. n + m}
  IN  [pairs     |-> {p \in (1 .. n) \X (1 .. m) : p \in visited /\ Match(p[1], p[2])},
       exhausted |-> \E p \in visited : Edge(p[1], p[2])]

\* align_page_lines: lines for tokens.
Alignment(source, target, band) ==
  AlignTokens(Len(source), Len(target), band,
              [p \in (DOMAIN source) \X (DOMAIN target) |-> Similarity(source[p[1]], target[p[2]])])

----
\* "\n".join
Joined(lines) ==
  FlattenSeq([n \in DOMAIN lines |-> IF n = 1 THEN lines[1] ELSE <<Break>> \o lines[n]])

\* difflib's matching blocks: the longest common block, the first one of its length,
\* then the ones before and after it.
Blocks(a, b) ==
  LET Common(q) ==
        {x \in (1 .. q[2] - q[1]) \X (q[1] .. q[2]) \X (q[3] .. q[4]) :
           /\ x[2] + x[1] <= q[2] /\ x[3] + x[1] <= q[4]
           /\ Cut(a, x[2], x[2] + x[1]) = Cut(b, x[3], x[3] + x[1])}
      Best(c) == CHOOSE x \in c : \A y \in c :
                   \/ x[1] > y[1]
                   \/ x[1] = y[1] /\ x[2] < y[2]
                   \/ x[1] = y[1] /\ x[2] = y[2] /\ x[3] <= y[3]
      blocks[q \in (0 .. Len(a)) \X (0 .. Len(a)) \X (0 .. Len(b)) \X (0 .. Len(b))] ==
        LET x == Best(Common(q))
        IN  IF Common(q) = {} THEN <<>>
            ELSE blocks[<<q[1], x[2], q[3], x[3]>>] \o <<x>>
                   \o blocks[<<x[2] + x[1], q[2], x[3] + x[1], q[4]>>]
  IN  blocks[<<0, Len(a), 0, Len(b)>>]

\* get_opcodes: the blocks and what lies between them, as <<i1, i2, j1, j2>>.
Steps(blocks) ==
  LET End(k) == IF k = 0 THEN <<0, 0>>
                ELSE <<blocks[k][2] + blocks[k][1], blocks[k][3] + blocks[k][1]>>
  IN  FlattenSeq([k \in DOMAIN blocks |->
        <<<<End(k - 1)[1], blocks[k][2], End(k - 1)[2], blocks[k][3]>>,
          <<blocks[k][2], End(k)[1], blocks[k][3], End(k)[2]>>>>])

Opcodes(a, b) ==
  LET steps == Steps(Append(Blocks(a, b), <<0, Len(a), Len(b)>>))
  IN  Chosen(steps, {i \in DOMAIN steps : steps[i][1] < steps[i][2] \/ steps[i][3] < steps[i][4]})

\* Mutated form: the last line ends where the source does.
EndOfReply(source, reply) == Len(source)

StreamEnd(source, reply) == Len(reply)

\* Where a mark of the source falls in the reply: the last step that reaches it says.
Carried(mark, opcodes) ==
  LET at == {k \in DOMAIN opcodes : opcodes[k][1] <= mark /\ mark <= opcodes[k][2]}
      Through(o) == o[3] + Min({mark - o[1], o[4] - o[3]})
  IN  IF at = {} THEN mark ELSE Through(opcodes[Max(at)])

\* The cuts never walk back: each is as far as any before it.
Cuts(sources, opcodes, end) ==
  LET At(i) == IF i = 0 THEN 0
               ELSE IF i < Len(sources) THEN Carried(Len(Joined(SubSeq(sources, 1, i))) + 1, opcodes)
               ELSE end
  IN  [n \in 1 .. Len(sources) + 1 |-> Max({At(i) : i \in 0 .. n - 1})]

Pieces(reply, cuts) ==
  LET Bare(text) == Reverse(Trimmed(Reverse(Trimmed(text, {Break})), {Break}))
  IN  [i \in 1 .. Len(cuts) - 1 |-> Bare(Cut(reply, cuts[i], Min({Len(reply), cuts[i + 1]})))]

\* reproject_page_lines: the reply as one text, cut again where the source's lines end.
RecutText(sources, source, reply) ==
  Pieces(reply, Cuts(sources, Opcodes(source, reply), StreamEnd(source, reply)))
Recut(sources, returned) == RecutText(sources, Joined(sources), Joined(returned))

\* PageLLMEditProducer.produce: the text each line is offered (none: it stays as it is),
\* or a refusal of the page.
OfPieces(pieces) ==
  [refused |-> FALSE, text |-> [i \in {i \in DOMAIN pieces : pieces[i] # <<>>} |-> pieces[i]]]
OfPairs(alignment, returned) ==
  [refused |-> alignment.exhausted,
   text |-> [i \in {p[1] : p \in alignment.pairs} |->
               returned[CHOOSE j \in DOMAIN returned : <<i, j>> \in alignment.pairs]]]

Offered(sources, returned, matching, band) ==
  IF matching = "characters" THEN OfPieces(Recut(sources, returned))
  ELSE OfPairs(Alignment(sources, returned, band), returned)

\* The edits of a page reply: a whole-line edit where the text differs.
PageOps(lines, sources, text) ==
  LET changed == Ordered({i \in DOMAIN text : text[i] # sources[i]})
  IN  [n \in DOMAIN changed |->
         [op |-> "line", line |-> lines[changed[n]], page |-> 0, text |-> text[changed[n]]]]

====
