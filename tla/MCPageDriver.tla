---- MODULE MCPageDriver ----
(* A document of six lines: a page of four, a page without text and a page of *)
(* two.  One broken word lies inside page 1 and one runs from page 1 to page  *)
(* 3; the last line opens a word nothing continues.  The planner is the one   *)
(* of module Planner, with caps that bind at this size.                       *)
EXTENDS PageDriver

MCLines     == 1 .. 6
MCPageOf    == <<1, 1, 1, 1, 3, 3>>
MCPairs     == {<<1, 2>>, <<4, 5>>}
MCDangling  == {6}

\* A word over three lines of page 1.
MCChain     == {<<1, 2>>, <<2, 3>>}

P(blockOf) == INSTANCE Planner WITH BlockOf <- blockOf, Chars <- <<1, 1, 1, 1, 1, 1>>,
                                    WindowSlack <- 2

Config(maxLines, window, overlap) ==
  [maxLines |-> maxLines, maxChars |-> 10, window |-> window, overlap |-> overlap,
   coalesce |-> FALSE]

\* Pages that fit one request, of two blocks each; the broken word lies in one.
PlanByPage(grain, S, K) ==
  P(<<1, 1, 2, 2, 3, 4>>)!PlanPage(grain, S, K, Config(4, 3, 1))

\* Page 1 is one block too large for a request: overlapping windows.
PlanByWindow(grain, S, K) ==
  P(<<1, 1, 1, 1, 2, 2>>)!PlanPage(grain, S, K, Config(3, 2, 1))

\* No word here is longer than a window may grow, so the planner keeps them whole.
ASSUME WholeUnitPlans

====
