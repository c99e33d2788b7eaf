---- MODULE Finalize ----
(***************************************************************************)
(* From the corrected document to the run's terminal decisions:            *)
(* core/finalize.py, the document-wide passes of core/acceptance.py and    *)
(* core/decisions.py.                                                      *)
(*                                                                         *)
(* Four passes run in a fixed order over the whole document: adjacent      *)
(* duplicates, break characters, loss policy, review.  Then the decisions  *)
(* are materialised.  What a guard finds in the texts is a choice among    *)
(* the lines it may find it on.  The document to start from is any the     *)
(* page loop may leave; `links` are the ones its plans did not cut.        *)
(***************************************************************************)
EXTENDS HyphenUnits

CONSTANTS
  Lines,        \* the document's lines, numbered in reading order
  FileOf,       \* FileOf[l]: the source file of line l
  InitLinks     \* the hyphen links of the document as it was loaded

ASSUME DocumentAssumption ==
  /\ Lines \subseteq Nat /\ IsFiniteSet(Lines)
  /\ InitLinks \subseteq Lines \X Lines /\ WellLinked(InitLinks)

LossPolicies == {"report", "strict", "realign"}

\* "page_loop" stands for every reason the page loop writes, "duplicate" for the
\* two adjacency guards, "format_loss" and "token_realign" for the two loss gates.
Reasons == {"page_loop", "duplicate", "adjacent_duplicate_pair_atomicity",
            "format_loss", "format_loss_pair_atomicity",
            "token_realign", "token_realign_pair_atomicity"}

VARIABLES
  phase,        \* the pass about to run
  lossPolicy,   \* LossPolicy, one of LossPolicies
  reviewing,    \* ReviewPolicy.enabled
  line,         \* every line's decision (LineDecision)
  drifted,      \* corrections that end in another break mark than their source
  reviewNotes,  \* lines whose trace carries review reasons
  sidecar,      \* lines whose correction the sidecar preserves
  links,        \* the live hyphen links
  decisions     \* the DecisionSet, a function once it is materialised

settings == <<lossPolicy, reviewing, links>>
finalVars == <<phase, settings, line, drifted, reviewNotes, sidecar, decisions>>

LD == INSTANCE LineDecision

Corrected(l) == line[l].text = "cor"
IsFallen(l)  == line[l].status = "fallback"

FromPageLoop ==
  {[status |-> "corrected", text |-> "ocr", reason |-> "none"],
   [status |-> "corrected", text |-> "cor", reason |-> "none"],
   [status |-> "fallback",  text |-> "ocr", reason |-> "page_loop"]}

Init ==
  /\ phase = "adjacency"
  /\ lossPolicy \in LossPolicies /\ reviewing \in BOOLEAN
  /\ links \in SUBSET InitLinks
  /\ line \in [Lines -> FromPageLoop]
  /\ drifted \in SUBSET {l \in Lines : line[l].text = "cor"}
  /\ reviewNotes = {} /\ sidecar = {} /\ decisions = {}

\* Mutated form: the review before the loss gates.
ReviewFirst(p) == CASE p = "adjacency" -> "breaks" [] p = "breaks" -> "review"
                    [] p = "review" -> "loss" [] p = "loss" -> "decide"
\* Mutated form: the break characters left to the rewriter.
BreaksLast(p)  == CASE p = "adjacency" -> "loss" [] p = "loss" -> "review"
                    [] p = "review" -> "decide" [] p = "breaks" -> "decide"

\* The order of the passes in _finalize_document.
NextPass(p) == CASE p = "adjacency" -> "breaks" [] p = "breaks" -> "loss"
                 [] p = "loss" -> "review" [] p = "review" -> "decide"

\* Mutated form: the flagged lines only.
RevertedAlone(flagged) == flagged

\* _apply_unit_reverts: the flagged lines and the rest of their units, over the
\* whole document.
Reverted(flagged) == UnitsContaining(flagged, Lines, links)

RevertUnits(flagged, own, pulled) ==
  line' = [l \in Lines |->
             IF l \in Reverted(flagged)
             THEN LD!Fallen(line[l], IF l \in flagged THEN own ELSE pulled)
             ELSE line[l]]

\* Two lines adjacent in one file, one of them at least rewritten.
Seams == {{l, m} : l \in Lines, m \in Lines} \cap
         {{l, l + 1} : l \in {k \in Lines : k + 1 \in Lines /\ FileOf[k] = FileOf[k + 1]}}

\* _global_adjacency_pass: both lines of each seam that duplicates a text or moves a
\* word, with their units.
Adjacency ==
  /\ phase = "adjacency"
  /\ \E bad \in SUBSET {s \in Seams : \E l \in s : Corrected(l)} :
       /\ RevertUnits(UNION bad, "duplicate", "adjacent_duplicate_pair_atomicity")
       /\ drifted' = drifted \ Reverted(UNION bad)
  /\ phase' = NextPass(phase)
  /\ UNCHANGED <<settings, reviewNotes, sidecar, decisions>>

\* _preserve_break_chars: the source's break character on every correction; one
\* that changed nothing else is the source text again.
BreakChars ==
  /\ phase = "breaks"
  /\ \E same \in SUBSET drifted :
       line' = [l \in Lines |-> IF l \in drifted
                                THEN LD!Renormalised(line[l], IF l \in same THEN "ocr" ELSE "cor")
                                ELSE line[l]]
  /\ drifted' = {}
  /\ phase' = NextPass(phase)
  /\ UNCHANGED <<settings, reviewNotes, sidecar, decisions>>

\* Mutated form: an entry for the flagged lines only.
SidecarOfFlagged(flagged) == flagged

\* _sidecar_entries: one for each reverted line that held a correction.
SidecarOf(flagged) == {l \in Reverted(flagged) : Corrected(l)}

\* _loss_policy_pass: corrections the format cannot carry fall with their units;
\* token_realign keeps them aside.
LossPolicy ==
  /\ phase = "loss"
  /\ \E flagged \in SUBSET {l \in Lines : Corrected(l)} :
       \/ /\ lossPolicy = "report" /\ flagged = {}
          /\ UNCHANGED <<line, sidecar, drifted>>
       \/ /\ lossPolicy = "strict"
          /\ RevertUnits(flagged, "format_loss", "format_loss_pair_atomicity")
          /\ drifted' = drifted \ Reverted(flagged)
          /\ UNCHANGED sidecar
       \/ /\ lossPolicy = "realign"
          /\ RevertUnits(flagged, "token_realign", "token_realign_pair_atomicity")
          /\ drifted' = drifted \ Reverted(flagged)
          /\ sidecar' = SidecarOf(flagged)
  /\ phase' = NextPass(phase)
  /\ UNCHANGED <<settings, reviewNotes, decisions>>

\* Mutated form: the whole unit, whatever became of its members.
ReferredWithFallen(referrals) == UnitsContaining(referrals, Lines, links)

\* The referred lines and the members of their units still corrected.
ReferredLines(referrals) ==
  {l \in UnitsContaining(referrals, Lines, links) : line[l].status = "corrected"}

\* _review_pass: some standing corrections cannot be established.
Review ==
  /\ phase = "review"
  /\ \E referrals \in SUBSET {l \in Lines : Corrected(l) /\ line[l].status = "corrected"} :
       /\ reviewing \/ referrals = {}
       /\ line' = [l \in Lines |-> IF l \in ReferredLines(referrals) THEN LD!Referred(line[l])
                                   ELSE line[l]]
       /\ reviewNotes' = reviewNotes \cup ReferredLines(referrals)
  /\ phase' = NextPass(phase)
  /\ UNCHANGED <<settings, drifted, sidecar, decisions>>

\* derive_decision_set.
Materialise ==
  /\ phase = "decide" /\ \A l \in Lines : line[l].status # "pending"
  /\ decisions' = line
  /\ phase' = "decided"
  /\ UNCHANGED <<settings, line, drifted, reviewNotes, sidecar>>

FinalNext == Adjacency \/ BreakChars \/ LossPolicy \/ Review \/ Materialise

Spec == Init /\ [][FinalNext]_finalVars

----
Decided == phase = "decided"

\* ADR-010 through the document-wide passes: no pass leaves a word rewritten on one
\* line and fallen back on the next that was not so before.
Mixed(k) == \/ IsFallen(k[1]) /\ Corrected(k[2])
            \/ IsFallen(k[2]) /\ Corrected(k[1])
NoNewMix == [][\A k \in links : Mixed(k)' => Mixed(k)]_line

\* The passes write decisions only through the verbs of decide.py: no fallen line
\* is renormalised or referred, and the pass that first took a correction away
\* keeps the attribution.
PassesDecide == [][LD!Next]_line

\* A referral describes a correction somebody receives: at the end the lines whose
\* trace carries review reasons are exactly the ones under review, and words are
\* referred whole but for the halves that fell.
ReferralsHold ==
  Decided =>
    /\ \A l \in Lines : l \in reviewNotes <=> line[l].status = "review"
    /\ \A k \in links : line[k[1]].status = "review" => line[k[2]].status # "corrected"
    /\ \A k \in links : line[k[2]].status = "review" => line[k[1]].status # "corrected"

\* Under token_realign no correction the loss gate takes away is lost: it is kept in
\* the sidecar, and nothing that stands is.
SidecarKeeps ==
  [][lossPolicy = "realign" /\ phase = "loss" =>
       sidecar' = {l \in Lines : Corrected(l) /\ ~Corrected(l)'}]_phase

\* The decisions are spelled the way the rewriter will write them: with the source's
\* break character.
BreaksSettled == Decided => drifted = {}

====
