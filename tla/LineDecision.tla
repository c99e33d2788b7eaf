---- MODULE LineDecision ----
(***************************************************************************)
(* The decision of every line: core/decide.py, the only writer of a line's *)
(* corrected_text and status and of its trace's fallback_reason.           *)
(*                                                                         *)
(* This is what the engine promises of a decision, whatever page, chunk or *)
(* pass writes it: the abstract specification PageDriver implements.       *)
(* A text is "none" (no decision yet), "ocr" (the line's source text) or   *)
(* "cor" (any other text).                                                 *)
(***************************************************************************)
CONSTANTS Lines,        \* the lines of the document
          Reasons       \* the closed vocabulary of fallback reasons

VARIABLE line           \* line[l]: the decision fields of the manifest and the
                        \* trace of line l

Statuses == {"pending", "corrected", "fallback", "review"}
Texts    == {"ocr", "cor"}
Decision == [status : Statuses, text : Texts \cup {"none"}, reason : Reasons \cup {"none"}]

Undecided == [status |-> "pending", text |-> "none", reason |-> "none"]

\* decide.accept: this text is the line's decision, and it stands.
Accepted(d, text) == [d EXCEPT !.status = "corrected", !.text = text]

\* Mutated form: the last pass names the reason.
FallenLast(d, why) == [status |-> "fallback", text |-> "ocr", reason |-> why]

\* decide.fall_back: text and status go back to the source unconditionally, the
\* reason is written only on a trace that carries none.
Fallen(d, why) ==
  [status |-> "fallback", text |-> "ocr",
   reason |-> IF d.reason = "none" THEN why ELSE d.reason]

\* decide.refer_for_review: status only, and only on a correction.
Referred(d) == [d EXCEPT !.status = "review"]

\* decide.renormalise: text only, on a decision that stands.
Renormalised(d, text) == [d EXCEPT !.text = text]

\* Mutated form: a line that fell counts as decided.
StandingOrFallen(d) == d.status # "pending"

Standing(d) == d.status \in {"corrected", "review"}

\* What one line's decision may become: the verbs of decide.py, each where the
\* engine may use it.
Becomes(d, e) ==
  \/ e = d
  \/ \E t \in Texts : d.status \in {"pending", "corrected"} /\ e = Accepted(d, t)
  \/ \E why \in Reasons : e = Fallen(d, why)
  \/ Standing(d) /\ e = Referred(d)
  \/ \E t \in Texts : Standing(d) /\ e = Renormalised(d, t)

Init == line = [l \in Lines |-> Undecided]

Next == /\ line' \in [Lines -> Decision]
        /\ \A l \in Lines : Becomes(line[l], line'[l])

Spec == Init /\ [][Next]_line

----
\* Every line has a decision record of the right shape.
TypeOK == line \in [Lines -> Decision]

\* I-1 of decide.py: a line carries a fallback reason exactly when it fell back,
\* and then its text is its source text; a line without a text is undecided.
FallenIsSource ==
  \A l \in Lines :
    /\ line[l].reason # "none" <=> line[l].status = "fallback"
    /\ line[l].status = "fallback" => line[l].text = "ocr"
    /\ line[l].text = "none" <=> line[l].status = "pending"

\* A line that fell back keeps its source text and the reason of the pass that
\* first took its correction away, whatever later passes do.
FallenStays ==
  [][\A l \in Lines : line[l].status = "fallback" => line'[l] = line[l]]_line

====
