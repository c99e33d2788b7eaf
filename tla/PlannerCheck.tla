---- MODULE PlannerCheck ----
(***************************************************************************)
(* Plans of every page of a small universe: a behaviour picks a page (a    *)
(* set of lines and the links among them) and a configuration, plans it at *)
(* each granularity, splits the chunks for the producer's image cap, and   *)
(* re-plans the targets of one of the chunks one level finer, as the       *)
(* driver does with a chunk that failed.                                   *)
(***************************************************************************)
EXTENDS Batching, Plans

CONSTANTS Configs,      \* the planner configurations tried, with the producer's image cap
          LinkSets      \* the link sets tried

ASSUME PageAssumption ==
  /\ Lines \subseteq Nat /\ IsFiniteSet(Lines)
  /\ Chars \in [Lines -> Nat] /\ BlockOf \in [Lines -> Nat]
ASSUME LinkAssumption ==
  \A K \in LinkSets : K \subseteq Lines \X Lines /\ WellLinked(K)
\* ChunkPlannerConfig: the bounds of its fields, and _overlap_smaller_than_window.
ASSUME ConfigAssumption ==
  /\ WindowSlack \in Nat
  /\ Configs \subseteq [maxLines : Nat \ {0}, maxChars : Nat \ {0}, window : Nat \ {0},
                        overlap : Nat, coalesce : BOOLEAN, cap : Nat]
  /\ \A c \in Configs : c.overlap < c.window

Forces == {"AUTO", "PAGE", "BLOCK", "WINDOW", "LINE"}

VARIABLES page,         \* the set of lines being planned
          links,        \* their live links
          config,
          grain,        \* the granularity asked for, "none" before planning
          plan,
          stage         \* "start", "planned", "routed" or "refused"

vars == <<page, links, config, grain, plan, stage>>

Init == /\ config \in Configs
        /\ links \in LinkSets
        /\ page = Lines
        /\ grain = "none"
        /\ plan = NoPlan
        /\ stage = "start"

\* plan_page on the page, at any forced granularity.
PlanIt == /\ stage = "start"
          /\ grain' \in Forces
          /\ plan' = PlanPage(grain', page, links, config)
          /\ stage' = "planned"
          /\ UNCHANGED <<page, links, config>>

Oversized == /\ config.cap # 0
             /\ \E i \in DOMAIN plan.chunks :
                  Unsendable(plan.chunks[i], page, links \ plan.splits, config.cap)

\* ChunkRouter.route, past the routing: only the page's plan is capped, and on the
\* units the plan left.
Cap == /\ stage = "planned" /\ ~Oversized
       /\ plan' = Capped(plan, page, links \ plan.splits, config.cap)
       /\ stage' = "routed"
       /\ UNCHANGED <<page, links, config, grain>>

\* A unit cannot be split across calls: ConfigurationError.
RefuseCap == /\ stage = "planned" /\ Oversized
             /\ stage' = "refused"
             /\ UNCHANGED <<page, links, config, grain, plan>>

\* The descent: a sub-page of one chunk's targets, the severed links gone.
Descend == /\ stage = "routed"
           /\ \E i \in DOMAIN plan.chunks :
                LET chunk == plan.chunks[i]
                IN  /\ Finer(chunk.grain) # "none"
                    /\ grain' = Finer(chunk.grain)
                    /\ page' = chunk.targets
                    /\ links' = links \ plan.splits
                    /\ plan' = PlanPage(Finer(chunk.grain), chunk.targets,
                                        links \ plan.splits, config)
           /\ UNCHANGED <<config, stage>>

Next == PlanIt \/ Cap \/ RefuseCap \/ Descend

Spec == Init /\ [][Next]_vars

----
Planned    == grain # "none"
ChunksPlanned     == {plan.chunks[i] : i \in DOMAIN plan.chunks}
WithinPage == {k \in links : k[1] \in page /\ k[2] \in page}
SameTargets(k) == \E c \in ChunksPlanned : {k[1], k[2]} \subseteq c.targets
SpanOf(l)  == LET unit == UnitOf(l, page, links)
              IN  Cardinality({m \in page : Min(unit) <= m /\ m <= Max(unit)})

\* Every line of the page is a target of exactly one chunk, and a chunk targets
\* and sends only lines of the page: a line in no target set would stay undecided
\* for ever, one in two would be decided twice.
OneOwner ==
  Planned =>
    /\ \A c \in ChunksPlanned : c.targets \subseteq c.lines /\ c.lines \subseteq page
    /\ \A l \in page :
         Cardinality({i \in DOMAIN plan.chunks : l \in plan.chunks[i].targets}) = 1

\* A unit short enough for the planner's caps is planned into one target set at
\* every granularity: _assign_window_targets pins it to a window that holds all of
\* it, _try_block merges the blocks it spans, _plan_line follows its chain.
FittingUnitsStayWhole ==
  Planned =>
    \A k \in WithinPage :
      SpanOf(k[1]) <= Min({config.maxLines, WindowSlack + 1}) => SameTargets(k)

\* At LINE granularity a link between two lines of the page either lies within
\* one chunk or is severed and recorded, and nothing else is severed: no needless
\* cut, no silent one.
CutExactly ==
  Planned =>
    /\ plan.splits \subseteq WithinPage
    /\ \A k \in WithinPage :
         (\E c \in ChunksPlanned : c.grain = "LINE") => (SameTargets(k) <=> k \notin plan.splits)

\* A word goes on over line m: a link of the page leads from before it to it, or past it.
Reached(m, S, K) == \E k \in K : {k[1], k[2]} \subseteq S /\ k[1] < m /\ m <= k[2]

\* What a request may have been grown from: its first lines, the others being there
\* for the words that go on over them.
Cores(lines, S, K) ==
  {core \in SUBSET lines :
     \A m \in lines \ core : Reached(m, S, K) /\ \A l \in core : l < m}

\* A window holds its size and the character budget up to its core, or its core is a
\* single line, and it grows past the core to the planner's limit at most.
WindowSized(lines, S, K, c) ==
  \E core \in Cores(lines, S, K) :
    /\ Cardinality(core) <= c.window
    /\ TotalChars(core) <= c.maxChars \/ Cardinality(core) = 1
    /\ Cardinality(lines) <= Max({c.maxLines, Cardinality(core) + WindowSlack})

\* A LINE chunk holds the line cap, and one line that no word asks for.
LineSized(lines, S, K, c) ==
  /\ Cardinality(lines) <= c.maxLines
  /\ \E core \in Cores(lines, S, K) : Cardinality(core) <= 1

\* A chunk within the bounds of its granularity.
Bounded(chunk, S, K, c) ==
  CASE chunk.grain \in {"PAGE", "BLOCK"} -> Fits(chunk.lines, c)
    [] chunk.grain = "WINDOW"            -> WindowSized(chunk.lines, S, K, c)
    [] chunk.grain = "LINE"              -> LineSized(chunk.lines, S, K, c)

\* A request goes past its budgets for the sake of a word only.  PAGE and BLOCK chunks
\* hold both.  A window holds its size and the character budget, unless it is a single
\* line, up to its core; every line past the core is there because a word goes on over
\* it, and the growth stops at `extension_limit`, which is the planner's own limit and may
\* be more than max_lines_per_request.  In a LINE chunk that is so of every line but the
\* first, up to max_lines_per_request.
RequestsBounded == \A chunk \in ChunksPlanned : Bounded(chunk, page, links, config)

\* A line of no unit sees the line that follows it in the request that decides it,
\* whenever the two fit the window together: the overlap and the choice of the last
\* window are there for that, through the clamp of the next start, the character
\* budget's early end and the extension for another line's chain.
FollowingContext ==
  Planned /\ config.cap = 0 /\ config.overlap >= 1 /\ config.window >= 2 =>
    \A c \in ChunksPlanned : \A l \in c.targets :
      LET after == {m \in page : m > l}
      IN  /\ c.grain = "WINDOW"
          /\ UnitOf(l, page, links) = {l}
          /\ after # {}
          /\ Chars[l] + Chars[Min(after)] <= config.maxChars
          => Min(after) \in c.lines

\* A producer with an image cap is sent no more lines than it takes, through the
\* split of the page's chunks and every descent below them, which caps nothing more.
CallsWithinCap ==
  stage = "routed" /\ config.cap # 0 =>
    \A c \in ChunksPlanned : Cardinality(c.lines) <= config.cap

====
