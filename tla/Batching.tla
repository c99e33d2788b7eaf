---- MODULE Batching ----
(***************************************************************************)
(* core/batching.py: a producer that crops an image of every line it is    *)
(* sent takes a bounded number of them per call.  The chunks of a page     *)
(* that hold more lines are split, along the units of the page.            *)
(***************************************************************************)
EXTENDS Planner, SequencesExt

\* _split_for_image_cap: the lines of the chunk that travel with its target `l`.
\* _units_visible_on_page: the unit as far as this page shows it, complete or not.
Riders(l, chunk, page, links) == UnitOf(l, page, links) \cap chunk.lines

\* What travels together, in reading order of the first target of each; a target
\* that rides with an earlier one is passed over.
Parties(chunk, page, links) ==
  LET leaders == Ordered({l \in chunk.targets :
                            \A m \in chunk.targets \cap Riders(l, chunk, page, links) : l <= m})
  IN  [i \in DOMAIN leaders |-> Riders(leaders[i], chunk, page, links)]

\* Mutated form: room is made for the target alone.
FullBeforeAlone(parties, cap) ==
  [i \in DOMAIN parties |->
     Min({j \in i + 1 .. Len(parties) :
            Cardinality(UNION {parties[h] : h \in i .. j - 1}) + 1 > cap}
         \cup {Len(parties) + 1})]

\* A party joins the batch being filled, or starts the next one.
FullBefore(parties, cap) ==
  [i \in DOMAIN parties |->
     Min({j \in i + 1 .. Len(parties) :
            Cardinality(UNION {parties[h] : h \in i .. j}) > cap}
         \cup {Len(parties) + 1})]

\* A unit needs more images than one call may carry.
Unsendable(chunk, page, links, cap) ==
  /\ Cardinality(chunk.lines) > cap
  /\ \E l \in chunk.targets : Cardinality(Riders(l, chunk, page, links)) > cap

\* The chunk, or its siblings: each carries the lines of a batch and decides the
\* targets among them.
Siblings(chunk, page, links, cap) ==
  IF Cardinality(chunk.lines) <= cap THEN <<chunk>>
  ELSE LET parties == Parties(chunk, page, links)
           batches == Gathered(parties, FullBefore(parties, cap))
       IN  [i \in DOMAIN batches |->
              Chunk(chunk.grain, batches[i], batches[i] \cap chunk.targets)]

\* ChunkRouter.route, the cap: _image_cap is 0 for a producer without one.
Capped(plan, page, links, cap) ==
  IF cap = 0 THEN plan
  ELSE [plan EXCEPT !.chunks = FlattenSeq([i \in DOMAIN @ |-> Siblings(@[i], page, links, cap)])]

====
