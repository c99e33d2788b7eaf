---- MODULE Planner ----
(***************************************************************************)
(* The chunk planner: core/planner.py.  A page, or the targets of a chunk  *)
(* that failed, becomes a sequence of chunks at one granularity.           *)
(*                                                                         *)
(* A page is the set `S` of its lines and the links among them; `c` is the *)
(* ChunkPlannerConfig.  A chunk is [grain, lines, targets]: the lines sent *)
(* to the producer and the ones it may decide; `line_ids` is in reading    *)
(* order, so the set says it.  A plan is [chunks, splits].                 *)
(***************************************************************************)
EXTENDS HyphenUnits, Positions, FiniteSetsExt

CONSTANTS BlockOf,      \* BlockOf[l]: the block of a line, blocks in page order
          Chars,        \* Chars[l]: the length of its source text
          WindowSlack   \* lines a window may grow by to hold a chain (10 in the code)

\* downgrade_granularity: the next level of the chain, "none" below LINE.
Finer(grain) ==
  CASE grain = "PAGE"   -> "BLOCK"
    [] grain = "BLOCK"  -> "WINDOW"
    [] grain = "WINDOW" -> "LINE"
    [] grain = "LINE"   -> "none"

\* _make_chunk.
Chunk(grain, lines, targets) == [grain |-> grain, lines |-> lines, targets |-> targets]
NoPlan == [chunks |-> <<>>, splits |-> {}]

\* The characters of the lines S, and how many they are (_total_chars).
Characters(S) == UNION {{l} \X (1 .. Chars[l]) : l \in S}
TotalChars(S) == Cardinality(Characters(S))
Fits(S, c)    == TotalChars(S) <= c.maxChars /\ Cardinality(S) <= c.maxLines

\* _try_page: the whole page in one chunk, if it fits.
TryPage(S, c) ==
  IF Fits(S, c) THEN [chunks |-> <<Chunk("PAGE", S, S)>>, splits |-> {}] ELSE NoPlan

\* For every line, the first of the blocks that hyphen units tie to its own.
HeadBlocks(S, links) ==
  LET blocks == {BlockOf[l] : l \in S}
      spans  == {<<BlockOf[l], BlockOf[m]>> : l \in S, m \in S} \cap
                UNION {{<<BlockOf[l], BlockOf[m]>> : m \in UnitOf(l, S, links)} : l \in S}
  IN  [l \in S |-> Min(UnitOf(BlockOf[l], blocks, spans))]

\* The blocks of the page, merged where a hyphen unit spans several, as sets of
\* lines in page order of their first block.
BlockGroups(S, links) ==
  LET head  == HeadBlocks(S, links)
      heads == Ordered({head[l] : l \in S})
  IN  [i \in DOMAIN heads |-> {l \in S : head[l] = heads[i]}]

\* _coalesce: a group joins the chunk being built while both budgets hold; it
\* closes before the first group that does not.
Closes(groups, c) ==
  [i \in DOMAIN groups |->
     Min({j \in i + 1 .. Len(groups) : ~Fits(UNION {groups[h] : h \in i .. j}, c)}
         \cup {Len(groups) + 1})]

\* _try_block: one chunk per group of blocks; no plan when a group does not fit
\* or the page has no block.
TryBlock(S, links, c) ==
  LET groups == BlockGroups(S, links)
      kept   == IF c.coalesce THEN Gathered(groups, Closes(groups, c)) ELSE groups
  IN  IF \E i \in DOMAIN groups : ~Fits(groups[i], c) THEN NoPlan
      ELSE [chunks |-> [i \in DOMAIN kept |-> Chunk("BLOCK", kept[i], kept[i])],
            splits |-> {}]

----
\* Windows.  `ls` is the page in reading order; a window is ls[start .. end - 1].

LinesIn(ls, start, end) == {ls[i] : i \in start .. end - 1}
PositionOf(ls, l)       == CHOOSE i \in DOMAIN ls : ls[i] = l

\* Mutated form: the window is bounded by its size only.
CoreEndBySize(ls, start, c) == Min({start + c.window, Len(ls) + 1})

\* Where the size and the character budget end the window; one line always enters.
CoreEnd(ls, start, c) ==
  LET most == Min({start + c.window, Len(ls) + 1})
  IN  Max({start + 1} \cup
          {e \in start + 1 .. most : TotalChars(LinesIn(ls, start, e)) <= c.maxChars})

\* _unit_reach: the end that holds every forward link leaving the window.
UnitReach(ls, links, start, end) ==
  Max({end} \cup {PositionOf(ls, k[2]) + 1 :
         k \in {j \in links : /\ j[1] \in LinesIn(ls, start, end)
                              /\ j[2] \in LinesIn(ls, end, Len(ls) + 1)}})

\* The end after the extension loop, which grows the window to its reach, up to the
\* line cap: the first end that no link leaves, or the cap.
WindowEnd(ls, links, start, c) ==
  LET core == CoreEnd(ls, start, c)
      most == Min({Len(ls) + 1, start + Max({c.maxLines, core - start + WindowSlack})})
  IN  Min({e \in core .. Len(ls) + 1 : e >= most \/ UnitReach(ls, links, start, e) <= e})

\* The start of the next window, clamped so that it always advances.
NextStart(ls, start, c) ==
  LET core  == CoreEnd(ls, start, c)
      bound == core < Min({start + c.window, Len(ls) + 1})
  IN  Max({start + 1, IF bound THEN core - c.overlap ELSE start + c.window - c.overlap})

\* The windows of the page as sets of lines.
Windows(ls, links, c) ==
  LET starts == Ordered(Stops(1, Len(ls), [i \in DOMAIN ls |-> NextStart(ls, i, c)]))
  IN  [w \in DOMAIN starts |-> LinesIn(ls, starts[w], WindowEnd(ls, links, starts[w], c))]

\* Mutated form: the window is chosen for the line alone.
WindowOfLineAlone(l, windows, S, links) == Max({i \in DOMAIN windows : l \in windows[i]})
\* Mutated form: the first window that holds the unit.
WindowOfLineFirst(l, windows, S, links) ==
  LET unit   == UnitOf(l, S, links)
      common == {i \in DOMAIN windows : unit \subseteq windows[i]}
      own    == {i \in DOMAIN windows : l \in windows[i]}
  IN  IF common # {} THEN Min(common) ELSE Min(own)

\* _assign_window_targets: a line belongs to the last window that holds its
\* whole unit, or, when no window does, to the last one that holds the line.
WindowOfLine(l, windows, S, links) ==
  LET unit   == UnitOf(l, S, links)
      common == {i \in DOMAIN windows : unit \subseteq windows[i]}
      own    == {i \in DOMAIN windows : l \in windows[i]}
  IN  IF common # {} THEN Max(common) ELSE Max(own)

\* Mutated form: a window targets every line it holds.
TryWindowAllTargets(S, links, c) ==
  LET windows == Windows(Ordered(S), links, c)
  IN  [chunks |-> [i \in DOMAIN windows |-> Chunk("WINDOW", windows[i], windows[i])],
       splits |-> {}]

\* _try_window.
TryWindow(S, links, c) ==
  LET windows == Windows(Ordered(S), links, c)
  IN  [chunks |-> [i \in DOMAIN windows |->
                     Chunk("WINDOW", windows[i],
                           {l \in windows[i] : WindowOfLine(l, windows, S, links) = i})],
       splits |-> {}]

----
\* LINE granularity.

\* The position after `i` in the chain that starts at `first`: the forward partner,
\* while it is on the page and the chunk stays in the cap.
NextInChain(ls, links, first, i, c) ==
  LET onward == {p \in i + 1 .. Len(ls) : <<ls[i], ls[p]>> \in links /\
                                          p - first + 1 <= c.maxLines}
  IN  IF onward = {} THEN Len(ls) + 1 ELSE Max(onward)

\* The position at which the chain that starts at `first` ends.
ChainEnd(ls, links, first, c) ==
  Max(Stops(first, Len(ls), [i \in first .. Len(ls) |-> NextInChain(ls, links, first, i, c)]))

\* Mutated form: the link to a line of another page severed too.
SeveredOffPage(tail, chain, S, links) == {k \in links : k[1] = tail /\ k[2] \notin chain}

\* The link that leaves a chain for another line of the page.
Severed(tail, chain, S, links) == {k \in links : k[1] = tail /\ k[2] \in S \ chain}

\* _plan_line: one chunk per chain, what lies between the members included; a
\* severed link is recorded.
PlanLine(S, links, c) ==
  LET ls       == Ordered(S)
      ends     == [i \in DOMAIN ls |-> ChainEnd(ls, links, i, c)]
      firsts   == Ordered(Stops(1, Len(ls), [i \in DOMAIN ls |-> ends[i] + 1]))
      chain(k) == LinesIn(ls, firsts[k], ends[firsts[k]] + 1)
  IN  [chunks |-> [k \in DOMAIN firsts |-> Chunk("LINE", chain(k), chain(k))],
       splits |-> UNION {Severed(ls[ends[firsts[k]]], chain(k), S, links) : k \in DOMAIN firsts}]

----
\* plan_page: "AUTO" tries PAGE, BLOCK, WINDOW; a forced granularity starts there.
PlanPage(force, S, links, c) ==
  LET page   == TryPage(S, c)
      block  == TryBlock(S, links, c)
      window == TryWindow(S, links, c)
  IN  CASE force = "LINE"   -> PlanLine(S, links, c)
        [] force = "WINDOW" -> window
        [] force = "BLOCK"  -> IF block # NoPlan THEN block ELSE window
        [] OTHER            -> IF page # NoPlan THEN page
                               ELSE IF block # NoPlan THEN block ELSE window

====
