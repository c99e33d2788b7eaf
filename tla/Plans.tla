---- MODULE Plans ----
(***************************************************************************)
(* The plan of a page as it passes from the planner (core/planner.py) to   *)
(* the driver (core/driver.py): the chunks, and the links that it cuts.    *)
(***************************************************************************)
EXTENDS Naturals, Sequences

CONSTANT Lines    \* the lines, numbered in reading order

Grains == {"PAGE", "BLOCK", "WINDOW", "LINE"}
Chunks == [grain : Grains, lines : SUBSET Lines, targets : SUBSET Lines]

\* What the driver may count on in a plan of the lines S: chunks of lines of S,
\* targets among the chunk's lines, every line of S a target, only live links
\* between lines of S cut.
PlanContract(S, links, plan) ==
  /\ plan.chunks \in Seq(Chunks)
  /\ plan.splits \subseteq links \cap (S \X S)
  /\ \A i \in DOMAIN plan.chunks :
       /\ plan.chunks[i].targets \subseteq plan.chunks[i].lines
       /\ plan.chunks[i].lines \subseteq S
  /\ \A l \in S : \E i \in DOMAIN plan.chunks : l \in plan.chunks[i].targets

\* A plan in which every line has one owner and a word whose link it keeps is a
\* target of one chunk: what the planner's plans are as long as no word is longer
\* than a window may grow.  PlanContract does not ask for it.
WholeUnits(S, links, plan) ==
  /\ \A i, j \in DOMAIN plan.chunks :
       i # j => plan.chunks[i].targets \cap plan.chunks[j].targets = {}
  /\ \A i \in DOMAIN plan.chunks : \A k \in (links \cap (S \X S)) \ plan.splits :
       k[1] \in plan.chunks[i].targets <=> k[2] \in plan.chunks[i].targets

====
