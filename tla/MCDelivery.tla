---- MODULE MCDelivery ----
(* Two files of two contents each, two runs.  Neither the names nor the contents *)
(* are ordered, so both may be permuted.                                         *)
EXTENDS Delivery, TLC

Alike == Permutations(Files) \cup Permutations(Versions)
====
