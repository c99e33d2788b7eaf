---- MODULE HyphenUnits ----
(***************************************************************************)
(* Hyphen units: the lines a word broken at a line end ties together       *)
(* (core/units.py, core/pairing.py).                                       *)
(*                                                                         *)
(* The pointer fields of the manifest (a PAIR slot and a FORWARD slot per  *)
(* line, read through the role) are one set of directed links              *)
(* <<tail, head>>: the word of `tail` continues onto `head`.  A line has   *)
(* at most one link out and one link in.  Severing a link                  *)
(* (split_forward_link) clears the slots of both its ends, which here is   *)
(* the removal of the pair from the set.                                   *)
(*                                                                         *)
(* Lines are numbers in document reading order, so that `line_order_global`*)
(* is the order of the numbers.                                            *)
(***************************************************************************)
EXTENDS Integers, FiniteSets

\* The lines `l` points at through either slot (pair_ref, forward_ref).
Partners(l, links) == {m \in {k[1] : k \in links} \cup {k[2] : k \in links} :
                         <<l, m>> \in links \/ <<m, l>> \in links}

\* No link leads out of `S` to another line of `pool`.
Closed(S, pool, links) ==
  \A k \in links : k[1] \in pool /\ k[2] \in pool => (k[1] \in S <=> k[2] \in S)

\* The maximal hyphen component of `l` over the lines of `pool`: a link that
\* leaves the pool does not resolve (derive_hyphen_groups).
UnitOf(l, pool, links) ==
  {m \in pool : \A S \in SUBSET pool : l \in S /\ Closed(S, pool, links) => m \in S}

\* `seeds` and every line of `pool` that shares a unit with one of them; a seed
\* is always there (units_containing).
UnitsContaining(seeds, pool, links) ==
  seeds \cup UNION {UnitOf(l, pool, links) : l \in seeds \cap pool}

\* Every pointer of every member of the unit of `l` over `pool` resolves inside
\* `pool` (HyphenGroup.complete).
Complete(l, pool, links) ==
  \A m \in UnitOf(l, pool, links) : Partners(m, links) \subseteq pool

\* The links the linker can leave: one link out and one in per line at most,
\* each onto a later line, and only blank lines, which are linked to nothing,
\* between the two (link_hyphen_pairs, link_cross_page_hyphens).
WellLinked(links) ==
  /\ \A k \in links : k[1] < k[2]
  /\ \A j, k \in links : j[1] = k[1] \/ j[2] = k[2] => j = k
  /\ \A j, k \in links : ~ (j[1] < k[1] /\ k[1] < j[2])
  /\ \A j, k \in links : ~ (j[1] < k[2] /\ k[2] < j[2])

====
