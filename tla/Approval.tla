---- MODULE Approval ----
(***************************************************************************)
(* From a reader's judgements to an approved artefact: approval.py.        *)
(*                                                                         *)
(* approve() starts from the decisions of a run (Finalize) and from the    *)
(* document the caller loaded, whose hyphen links are the ones before any  *)
(* plan cut them: the run worked on a copy.                                *)
(***************************************************************************)
EXTENDS Finalize

VARIABLES
  verdict,      \* verdict[l]: the reader's judgement on l, "none" without one
  unreviewed,   \* what happens to a referral nobody judged: "revert" or "deliver"
  approved      \* the approved decisions, a function once approve() returned

approvalVars == <<verdict, unreviewed, approved>>

Verdicts == {"none", "accepted", "refused", "transcribed"}

ApprovalInit == Init /\ verdict = [l \in Lines |-> "none"]
                     /\ unreviewed = "revert" /\ approved = {}

\* The run of the engine: its passes, no judgement yet.
RunStep == FinalNext /\ UNCHANGED approvalVars

\* A reader's verdicts on some of the lines, and the host's policy.
Judge ==
  /\ Decided
  /\ verdict' \in [Lines -> Verdicts] /\ unreviewed' \in {"revert", "deliver"}
  /\ phase' = "judged"
  /\ UNCHANGED <<settings, line, drifted, reviewNotes, sidecar, decisions, approved>>

UnitMates(l) == UnitOf(l, Lines, InitLinks)

\* Mutated form: silence is consent.
IntentOfSilence(l) ==
  CASE verdict[l] = "refused"     -> LD!Fallen(LD!Undecided, "human: refused")
    [] verdict[l] = "transcribed" -> LD!Accepted(LD!Undecided, "reading")
    [] OTHER -> [decisions[l] EXCEPT !.status = IF @ = "review" THEN "corrected" ELSE @]

\* _intent_of: what one line will carry, before the unit rule.
Intent(l) ==
  LET d == decisions[l]
  IN  CASE verdict[l] = "refused"     -> LD!Fallen(LD!Undecided, "human: refused")
        [] verdict[l] = "transcribed" -> LD!Accepted(LD!Undecided, "reading")
        [] verdict[l] = "accepted"    ->
             [d EXCEPT !.status = IF @ = "review" THEN "corrected" ELSE @]
        [] OTHER -> IF d.status = "review" /\ unreviewed = "revert"
                    THEN LD!Fallen(LD!Undecided, "human: unreviewed") ELSE d

\* Mutated form: what the reader accepted is not pulled.
PulledUnlessAccepted ==
  {l \in Lines : /\ Intent(l).status # "fallback" /\ verdict[l] # "accepted"
                 /\ \E m \in UnitMates(l) : Intent(m).status = "fallback"}

\* _plan: a fallen member pulls the rest of its unit, as the caller's document
\* links it.
Pulled ==
  {l \in Lines : /\ Intent(l).status # "fallback"
                 /\ \E m \in UnitMates(l) : Intent(m).status = "fallback"}

\* A reading of one half of a broken word cannot be reconciled with the other.
Untenable == \E l \in Lines : verdict[l] = "transcribed" /\ UnitMates(l) # {l}

Approve ==
  /\ phase = "judged" /\ ~Untenable
  /\ approved' = [l \in Lines |-> IF l \in Pulled
                                  THEN LD!Fallen(LD!Undecided, "human: unit atomicity")
                                  ELSE Intent(l)]
  /\ phase' = "approved"
  /\ UNCHANGED <<settings, line, drifted, reviewNotes, sidecar, decisions,
                 verdict, unreviewed>>

\* approve() raises; the caller may ask again with other verdicts.
RefuseApproval ==
  /\ phase = "judged" /\ Untenable
  /\ phase' = "decided"
  /\ UNCHANGED <<settings, line, drifted, reviewNotes, sidecar, decisions, approvalVars>>

ApprovalNext == RunStep \/ Judge \/ Approve \/ RefuseApproval

ApprovalSpec == ApprovalInit /\ [][ApprovalNext]_<<finalVars, approvalVars>>

----
IsApproved == phase = "approved"

\* A reviewer's verdict does not get to create a word half corrected, half at its
\* OCR text: in the approved artefact the lines of a unit fell together or not at
\* all, whatever the run had cut or left mixed.
ApprovedWhole ==
  IsApproved => \A k \in InitLinks :
    approved[k[1]].status = "fallback" <=> approved[k[2]].status = "fallback"

\* No correction the run could not establish is delivered as approved on silence:
\* unless somebody accepted it or replaced it, it falls or stays under review.
SilenceIsNotConsent ==
  IsApproved => \A l \in Lines :
    decisions[l].status = "review" /\ verdict[l] = "none" =>
      \/ approved[l].status = "fallback"
      \/ unreviewed = "deliver" /\ approved[l] = decisions[l]

====
