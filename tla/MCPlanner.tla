---- MODULE MCPlanner ----
(* Six lines in three blocks, every set of links the linker can leave on them, *)
(* and configurations small enough for every cap to bind.                      *)
EXTENDS PlannerCheck

MCLines   == 1 .. 6
MCBlockOf == <<1, 1, 2, 2, 3, 3>>
MCChars   == <<1, 2, 1, 3, 1, 1>>

MCLinkSets == {K \in SUBSET {<<a, b>> \in MCLines \X MCLines : a < b /\ b <= a + 2} :
                 WellLinked(K)}

MCConfigs ==
  {[maxLines |-> m, maxChars |-> ch, window |-> w[1], overlap |-> w[2], coalesce |-> co,
    cap |-> cap] :
     cap \in {0, 3}, m \in {2, 3, 6}, ch \in {3, 20}, w \in {<<2, 1>>, <<3, 1>>, <<3, 0>>},
     co \in BOOLEAN}

\* The lines of a page in reading order, as the community modules sort them.
ASSUME \A S \in SUBSET MCLines : Ordered(S) = SetToSortSeq(S, <)

====
