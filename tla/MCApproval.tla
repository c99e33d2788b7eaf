---- MODULE MCApproval ----
(* Three lines in two files, in one word: any of its links may have been cut   *)
(* by a plan of the run.                                                       *)
EXTENDS Approval

MCLines     == 1 .. 3
MCFileOf    == <<1, 1, 2>>
MCChain     == {<<1, 2>>, <<2, 3>>}

====
