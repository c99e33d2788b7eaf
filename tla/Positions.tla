---- MODULE Positions ----
(***************************************************************************)
(* Sets in order and loops over sequences: what the components' sorting,   *)
(* filtering and grouping comes to, without recursion.                     *)
(***************************************************************************)
EXTENDS Integers, Sequences, FiniteSets

\* S by rank: below[x] is the set of what stands at x or before it, so the n-th
\* has n of them.
Ranked(S, below) ==
  [n \in 1 .. Cardinality(S) |-> CHOOSE x \in S : Cardinality(below[x]) = n]

\* The numbers of S in increasing order.
Ordered(S) == Ranked(S, [l \in S |-> {m \in S : m <= l}])

\* The elements of s at the positions P, in the order they have there.
Chosen(s, P) == LET at == Ordered(P) IN [k \in DOMAIN at |-> s[at[k]]]

\* The elements of s that are in T.
Sifted(s, T) == Chosen(s, {i \in DOMAIN s : s[i] \in T})

\* The positions a loop over first .. n stops at: the first, and next[i] after i
\* as long as it is not past the end.
Stops(first, n, next) ==
  LET stop[i \in first .. n] == i = first \/ \E j \in first .. i - 1 : next[j] = i /\ stop[j]
  IN  {i \in first .. n : stop[i]}

\* The groups that a loop puts together: those from one stop up to the next.
Gathered(groups, next) ==
  LET firsts == Ordered(Stops(1, Len(groups), next))
  IN  [k \in DOMAIN firsts |->
         UNION {groups[h] : h \in firsts[k] .. next[firsts[k]] - 1}]

====
