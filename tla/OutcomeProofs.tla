---- MODULE OutcomeProofs ----
(***************************************************************************)
(* What the verbs of core/decide.py guarantee of a line in any order of    *)
(* use; the document-wide passes and the approval keep broken words whole, *)
(* and the passes write decisions only as those verbs do.                  *)
(***************************************************************************)
EXTENDS Approval, BasicFacts

\* The decisions of the lines All by the verbs of decide.py, for a vocabulary of
\* reasons.
Verbs(All, Why) == INSTANCE LineDecision WITH Lines <- All, Reasons <- Why

\* The relation one line's decision obeys keeps I-1 and never moves a fallen line.
LEMMA BecomesKeeps ==
  ASSUME NEW CONSTANT All, NEW CONSTANT Why, "none" \notin Why,
         NEW d \in Verbs(All, Why)!Decision, NEW e \in Verbs(All, Why)!Decision, Verbs(All, Why)!Becomes(d, e),
         d.reason # "none" <=> d.status = "fallback",
         d.status = "fallback" => d.text = "ocr",
         d.text = "none" <=> d.status = "pending"
  PROVE  /\ e.reason # "none" <=> e.status = "fallback"
         /\ e.status = "fallback" => e.text = "ocr"
         /\ e.text = "none" <=> e.status = "pending"
         /\ d.status = "fallback" => e = d
<1> USE DEF Verbs!Decision, Verbs!Statuses, Verbs!Texts
<1>1. CASE e = d
  BY <1>1
<1>2. CASE \E t \in Verbs(All, Why)!Texts : d.status \in {"pending", "corrected"} /\ e = Verbs(All, Why)!Accepted(d, t)
  BY <1>2 DEF Verbs!Accepted
<1>3. CASE \E why \in Why : e = Verbs(All, Why)!Fallen(d, why)
  BY <1>3 DEF Verbs!Fallen
<1>4. CASE Verbs(All, Why)!Standing(d) /\ e = Verbs(All, Why)!Referred(d)
  BY <1>4 DEF Verbs!Standing, Verbs!Referred
<1>5. CASE \E t \in Verbs(All, Why)!Texts : Verbs(All, Why)!Standing(d) /\ e = Verbs(All, Why)!Renormalised(d, t)
  BY <1>5 DEF Verbs!Standing, Verbs!Renormalised
<1> QED BY <1>1, <1>2, <1>3, <1>4, <1>5 DEF Verbs!Becomes

DecisionInv(All, Why) == Verbs(All, Why)!TypeOK /\ Verbs(All, Why)!FallenIsSource

LEMMA DecisionInvInductive ==
  ASSUME NEW CONSTANT All, NEW CONSTANT Why, "none" \notin Why
  PROVE  Verbs(All, Why)!Spec => []DecisionInv(All, Why)
<1>1. Verbs(All, Why)!Init => DecisionInv(All, Why)
  BY DEF Verbs!Init, DecisionInv, Verbs!TypeOK, Verbs!FallenIsSource, Verbs!Undecided, Verbs!Decision, Verbs!Statuses, Verbs!Texts
<1>2. DecisionInv(All, Why) /\ [Verbs(All, Why)!Next]_line => DecisionInv(All, Why)'
  <2> SUFFICES ASSUME DecisionInv(All, Why), Verbs(All, Why)!Next PROVE DecisionInv(All, Why)'
    BY DEF DecisionInv, Verbs!TypeOK, Verbs!FallenIsSource
  <2>1. Verbs(All, Why)!TypeOK' BY DEF Verbs!Next, Verbs!TypeOK
  <2>2. Verbs(All, Why)!FallenIsSource'
    <3> SUFFICES ASSUME NEW l \in All
                 PROVE  /\ line'[l].reason # "none" <=> line'[l].status = "fallback"
                        /\ line'[l].status = "fallback" => line'[l].text = "ocr"
                        /\ line'[l].text = "none" <=> line'[l].status = "pending"
      BY DEF Verbs!FallenIsSource
    <3>1. line[l] \in Verbs(All, Why)!Decision /\ line'[l] \in Verbs(All, Why)!Decision /\ Verbs(All, Why)!Becomes(line[l], line'[l])
      BY <2>1 DEF DecisionInv, Verbs!TypeOK, Verbs!Next
    <3> QED BY <3>1, BecomesKeeps DEF DecisionInv, Verbs!FallenIsSource
  <2> QED BY <2>1, <2>2 DEF DecisionInv
<1> QED BY <1>1, <1>2, PTL DEF Verbs!Spec

\* I-1 of core/decide.py, for any number of lines and any vocabulary of reasons: a
\* reason is written exactly on a line that fell back, and such a line holds its
\* source text.
THEOREM DecisionSourced ==
  ASSUME NEW CONSTANT All, NEW CONSTANT Why, "none" \notin Why
  PROVE  Verbs(All, Why)!Spec => []Verbs(All, Why)!FallenIsSource
BY DecisionInvInductive, PTL DEF DecisionInv

\* A line that fell back never moves again: neither its text nor the first reason.
THEOREM DecisionFinal ==
  ASSUME NEW CONSTANT All, NEW CONSTANT Why, "none" \notin Why
  PROVE  Verbs(All, Why)!Spec => Verbs(All, Why)!FallenStays
<1>1. DecisionInv(All, Why) /\ [Verbs(All, Why)!Next]_line =>
        [\A l \in All : line[l].status = "fallback" => line'[l] = line[l]]_line
  <2> SUFFICES ASSUME DecisionInv(All, Why), Verbs(All, Why)!Next, NEW l \in All, line[l].status = "fallback"
               PROVE  line'[l] = line[l]
    BY DEF DecisionInv
  <2>1. line[l] \in Verbs(All, Why)!Decision /\ line'[l] \in Verbs(All, Why)!Decision /\ Verbs(All, Why)!Becomes(line[l], line'[l])
    BY DEF DecisionInv, Verbs!TypeOK, Verbs!Next
  <2> QED BY <2>1, BecomesKeeps DEF DecisionInv, Verbs!FallenIsSource
<1> QED BY <1>1, DecisionInvInductive, PTL DEF Verbs!Spec, Verbs!FallenStays

----
\* What the passes rely on: only corrections drift from their source's break mark,
\* and a line's text says whether its correction stands.
FinalInv ==
  /\ links \subseteq InitLinks
  /\ line \in [Lines -> LD!Decision]
  /\ drifted \subseteq {l \in Lines : Corrected(l)}
  /\ LD!FallenIsSource

LEMMA LinkEnds ==
  ASSUME FinalInv, NEW k \in links
  PROVE  k[1] \in Lines /\ k[2] \in Lines
BY DocumentAssumption DEF FinalInv

LEMMA RevertedWhole ==
  ASSUME FinalInv, NEW flagged \in SUBSET Lines, NEW k \in links
  PROVE  k[1] \in Reverted(flagged) <=> k[2] \in Reverted(flagged)
BY LinkEnds, UnitsContainingClosed DEF Reverted

\* What a pass does to one line.
Pass(d, e) ==
  \/ e = d
  \/ \E why \in Reasons : e = LD!Fallen(d, why)
  \/ \E t \in LD!Texts : d.text = "cor" /\ e = LD!Renormalised(d, t)
  \/ d.status = "corrected" /\ e = LD!Referred(d)

LEMMA PassKeeps ==
  ASSUME NEW d \in LD!Decision, NEW e, Pass(d, e),
         d.reason # "none" <=> d.status = "fallback",
         d.status = "fallback" => d.text = "ocr",
         d.text = "none" <=> d.status = "pending"
  PROVE  /\ e \in LD!Decision
         /\ LD!Becomes(d, e)
         /\ e.reason # "none" <=> e.status = "fallback"
         /\ e.status = "fallback" => e.text = "ocr"
         /\ e.text = "none" <=> e.status = "pending"
<1> USE DEF LD!Decision, LD!Statuses, LD!Texts, LD!Becomes, LD!Standing
<1>1. CASE e = d
  BY <1>1
<1>2. CASE \E why \in Reasons : e = LD!Fallen(d, why)
  <2>1. "none" \notin Reasons
    BY DEF Reasons
  <2> QED BY <1>2, <2>1 DEF LD!Fallen
<1>3. CASE \E t \in LD!Texts : d.text = "cor" /\ e = LD!Renormalised(d, t)
  BY <1>3 DEF LD!Renormalised
<1>4. CASE d.status = "corrected" /\ e = LD!Referred(d)
  BY <1>4 DEF LD!Referred
<1> QED BY <1>1, <1>2, <1>3, <1>4 DEF Pass

LEMMA RevertPasses ==
  ASSUME FinalInv, NEW flagged \in SUBSET Lines, NEW own \in Reasons, NEW pulled \in Reasons,
         RevertUnits(flagged, own, pulled)
  PROVE  /\ line' = [l \in Lines |-> line'[l]]
         /\ \A l \in Lines : Pass(line[l], line'[l])
         /\ \A l \in Lines : IF l \in Reverted(flagged) THEN line'[l].text = "ocr"
                                                        ELSE line'[l] = line[l]
BY DEF RevertUnits, Pass, LD!Fallen

\* The shape of every pass: a function of the same lines, each moved by a Pass; a
\* line newly fallen takes its whole word with it; no correction appears.
LEMMA StepPasses ==
  ASSUME FinalInv, [FinalNext]_finalVars
  PROVE  /\ line' = [l \in Lines |-> line'[l]]
         /\ \A l \in Lines : Pass(line[l], line'[l])
         /\ \A k \in links : Mixed(k)' => Mixed(k)
         /\ drifted' \subseteq {l \in Lines : line'[l].text = "cor"}
         /\ links' = links
<1> USE DEF settings
<1>0. /\ links \subseteq InitLinks /\ line \in [Lines -> LD!Decision]
      /\ drifted \subseteq {l \in Lines : Corrected(l)}
      /\ \A l \in Lines : IsFallen(l) => line[l].text = "ocr"
  BY DEF FinalInv, LD!FallenIsSource, IsFallen
<1>1. ASSUME NEW flagged \in SUBSET Lines, NEW own \in Reasons, NEW pulled \in Reasons,
             RevertUnits(flagged, own, pulled), drifted' = drifted \ Reverted(flagged)
      PROVE  /\ \A k \in links : Mixed(k)' => Mixed(k)
             /\ drifted' \subseteq {l \in Lines : line'[l].text = "cor"}
  <2>1. \A l \in Lines : IF l \in Reverted(flagged) THEN line'[l].text = "ocr"
                                                    ELSE line'[l] = line[l]
    BY <1>1, RevertPasses
  <2>2. ASSUME NEW k \in links, Mixed(k)' PROVE Mixed(k)
    <3>1. k[1] \in Lines /\ k[2] \in Lines
      BY LinkEnds
    <3>2. k[1] \in Reverted(flagged) <=> k[2] \in Reverted(flagged)
      BY RevertedWhole
    <3>3. line'[k[1]].text = "cor" \/ line'[k[2]].text = "cor"
      BY <2>2 DEF Mixed, Corrected
    <3>4. line'[k[1]] = line[k[1]] /\ line'[k[2]] = line[k[2]]
      BY <2>1, <3>1, <3>2, <3>3
    <3> QED BY <2>2, <3>4 DEF Mixed, IsFallen, Corrected
  <2>3. drifted' \subseteq {l \in Lines : line'[l].text = "cor"}
    BY <1>0, <1>1, <2>1 DEF Corrected
  <2> QED BY <2>2, <2>3
<1>2. CASE Adjacency
  <2>1. PICK bad \in SUBSET {s \in Seams : \E l \in s : Corrected(l)} :
          /\ RevertUnits(UNION bad, "duplicate", "adjacent_duplicate_pair_atomicity")
          /\ drifted' = drifted \ Reverted(UNION bad)
    BY <1>2 DEF Adjacency
  <2>2. UNION bad \in SUBSET Lines
    BY DEF Seams
  <2>3. links' = links
    BY <1>2 DEF Adjacency
  <2> QED BY <1>1, <2>1, <2>2, <2>3, RevertPasses DEF Reasons
<1>3. CASE LossPolicy
  <2>1. links' = links
    BY <1>3 DEF LossPolicy
  <2>2. CASE UNCHANGED <<line, drifted>>
    BY <1>0, <2>1, <2>2 DEF Pass, Mixed, IsFallen, Corrected
  <2>3. CASE \E flagged \in SUBSET Lines : \E own, pulled \in Reasons :
               /\ RevertUnits(flagged, own, pulled)
               /\ drifted' = drifted \ Reverted(flagged)
    BY <1>1, <2>1, <2>3, RevertPasses
  <2> QED BY <1>3, <2>2, <2>3 DEF LossPolicy, Reasons
<1>4. CASE BreakChars
  <2>1. PICK same \in SUBSET drifted :
          line' = [l \in Lines |-> IF l \in drifted
                                   THEN LD!Renormalised(line[l], IF l \in same THEN "ocr" ELSE "cor")
                                   ELSE line[l]]
    BY <1>4 DEF BreakChars
  <2>2. \A l \in Lines : Pass(line[l], line'[l])
    BY <1>0, <2>1 DEF Pass, LD!Texts, Corrected
  <2>3. \A l \in Lines : /\ line'[l].status = line[l].status
                         /\ line'[l].text = "cor" => line[l].text = "cor"
    BY <1>0, <2>1 DEF LD!Renormalised, LD!Decision, Corrected
  <2>4. \A k \in links : Mixed(k)' => Mixed(k)
    BY <2>3, LinkEnds DEF Mixed, IsFallen, Corrected
  <2> QED BY <1>4, <2>1, <2>2, <2>4 DEF BreakChars
<1>5. CASE Review
  <2>1. PICK S : line' = [l \in Lines |-> IF l \in ReferredLines(S) THEN LD!Referred(line[l])
                                         ELSE line[l]]
    BY <1>5 DEF Review
  <2>2. \A l \in Lines : Pass(line[l], line'[l])
    BY <2>1 DEF Pass, ReferredLines
  <2>3. \A l \in Lines : /\ line'[l].status = "fallback" => line[l].status = "fallback"
                         /\ line'[l].text = line[l].text
    BY <1>0, <2>1 DEF LD!Referred, LD!Decision
  <2>4. \A k \in links : Mixed(k)' => Mixed(k)
    BY <2>3, LinkEnds DEF Mixed, IsFallen, Corrected
  <2>5. UNCHANGED <<links, drifted>>
    BY <1>5 DEF Review
  <2>6. drifted' \subseteq {l \in Lines : line'[l].text = "cor"}
    BY <1>0, <2>3, <2>5 DEF Corrected
  <2> QED BY <2>1, <2>2, <2>4, <2>5, <2>6
<1>6. CASE Materialise \/ UNCHANGED finalVars
  <2>1. UNCHANGED <<line, drifted, links>>
    BY <1>6 DEF Materialise, finalVars
  <2> QED BY <1>0, <2>1 DEF Pass, Mixed, IsFallen, Corrected
<1> QED BY <1>2, <1>3, <1>4, <1>5, <1>6 DEF FinalNext

LEMMA InitFinal == Init => FinalInv
BY DEF Init, FinalInv, FromPageLoop, Corrected, Reasons, LD!Decision, LD!Statuses, LD!Texts,
       LD!FallenIsSource

LEMMA StepFinal ==
  FinalInv /\ [FinalNext]_finalVars =>
    FinalInv' /\ [LD!Next]_line /\ \A k \in links : Mixed(k)' => Mixed(k)
<1> SUFFICES ASSUME FinalInv, [FinalNext]_finalVars
             PROVE  FinalInv' /\ LD!Next /\ \A k \in links : Mixed(k)' => Mixed(k)
  OBVIOUS
<1>1. ASSUME NEW l \in Lines
      PROVE  /\ line'[l] \in LD!Decision
             /\ LD!Becomes(line[l], line'[l])
             /\ line'[l].reason # "none" <=> line'[l].status = "fallback"
             /\ line'[l].status = "fallback" => line'[l].text = "ocr"
             /\ line'[l].text = "none" <=> line'[l].status = "pending"
  <2>1. line[l] \in LD!Decision /\ Pass(line[l], line'[l])
    BY StepPasses DEF FinalInv
  <2> QED BY <2>1, PassKeeps DEF FinalInv, LD!FallenIsSource
<1>2. line' \in [Lines -> LD!Decision]
  BY <1>1, StepPasses
<1>3. LD!FallenIsSource'
  BY <1>1 DEF LD!FallenIsSource
<1>4. links' \subseteq InitLinks /\ drifted' \subseteq {l \in Lines : Corrected(l)}'
  BY StepPasses DEF FinalInv, Corrected
<1>5. LD!Next
  BY <1>1, <1>2 DEF LD!Next
<1> QED BY <1>2, <1>3, <1>4, <1>5, StepPasses DEF FinalInv

LEMMA FinalInvariant == Spec => []FinalInv
BY InitFinal, StepFinal, PTL DEF Spec

\* No document-wide pass leaves a word rewritten on one line and fallen back on the
\* next that was not so before, for any document and any links.
THEOREM WordsStayWhole == Spec => NoNewMix
<1>1. FinalInv /\ [FinalNext]_finalVars => [\A k \in links : Mixed(k)' => Mixed(k)]_line
  BY StepFinal
<1> QED BY <1>1, FinalInvariant, PTL DEF Spec, NoNewMix

\* The passes write decisions only through the verbs of decide.py.
THEOREM PassesImplementDecisions == Spec => PassesDecide
BY StepFinal, FinalInvariant, PTL DEF Spec, PassesDecide

----
\* Where the passes have come to: a break mark drifts until the second pass only, a
\* line is under review from the last pass on only, and then with the members of its
\* word that stood.
Reviewed == phase \in {"decide", "decided"}

PassInv ==
  /\ phase \in {"adjacency", "breaks", "loss", "review", "decide", "decided"}
  /\ phase \in {"adjacency", "breaks"} \/ drifted = {}
  /\ \A l \in Lines : l \in reviewNotes <=> line[l].status = "review"
  /\ ~Reviewed => \A l \in Lines : line[l].status \in {"corrected", "fallback"}
  /\ \A k \in links : /\ line[k[1]].status = "review" => line[k[2]].status # "corrected"
                      /\ line[k[2]].status = "review" => line[k[1]].status # "corrected"

LEMMA InitPass == Init => PassInv
<1> SUFFICES ASSUME Init PROVE PassInv
  OBVIOUS
<1>1. \A l \in Lines : line[l].status \in {"corrected", "fallback"}
  BY DEF Init, FromPageLoop
<1>2. \A k \in links : k[1] \in Lines /\ k[2] \in Lines
  BY DocumentAssumption DEF Init
<1> QED BY <1>1, <1>2 DEF Init, PassInv, Reviewed

\* A pass before the review leaves every line corrected or fallen.
LEMMA UnreviewedPass ==
  ASSUME PassInv, FinalInv, links' = links, reviewNotes' = reviewNotes, ~Reviewed,
         line' = [l \in Lines |-> line'[l]],
         \A l \in Lines : line'[l].status \in {"corrected", "fallback"},
         phase' \in {"adjacency", "breaks", "loss", "review", "decide", "decided"},
         phase' \in {"adjacency", "breaks"} \/ drifted' = {}
  PROVE  PassInv'
<1>1. \A l \in Lines : l \notin reviewNotes
  BY DEF PassInv
<1>2. \A k \in links : k[1] \in Lines /\ k[2] \in Lines
  BY LinkEnds
<1> QED BY <1>1, <1>2 DEF PassInv

LEMMA RevertsCorrected ==
  ASSUME NEW flagged, NEW own, NEW pulled, RevertUnits(flagged, own, pulled),
         \A l \in Lines : line[l].status \in {"corrected", "fallback"}
  PROVE  \A l \in Lines : line'[l].status \in {"corrected", "fallback"}
BY DEF RevertUnits, LD!Fallen

LEMMA ReviewReferrals ==
  ASSUME PassInv, FinalInv, Review
  PROVE  PassInv'
<1>1. PICK referrals \in SUBSET {l \in Lines : Corrected(l) /\ line[l].status = "corrected"} :
        /\ line' = [l \in Lines |-> IF l \in ReferredLines(referrals) THEN LD!Referred(line[l])
                                    ELSE line[l]]
        /\ reviewNotes' = reviewNotes \cup ReferredLines(referrals)
  BY DEF Review
<1>2. phase = "review" /\ phase' = "decide" /\ links' = links /\ drifted' = drifted
  BY DEF Review, NextPass, settings
<1>3. \A l \in Lines : line[l].status \in {"corrected", "fallback"} /\ l \notin reviewNotes
  BY <1>2 DEF PassInv, Reviewed
<1>4. \A l \in Lines : line'[l].status = IF l \in ReferredLines(referrals) THEN "review"
                                         ELSE line[l].status
  BY <1>1 DEF LD!Referred, LD!Decision, FinalInv
<1>5. ASSUME NEW k \in links
      PROVE  /\ line'[k[1]].status = "review" => line'[k[2]].status # "corrected"
             /\ line'[k[2]].status = "review" => line'[k[1]].status # "corrected"
  <2>1. k[1] \in Lines /\ k[2] \in Lines
    BY LinkEnds
  <2>2. k[1] \in UnitsContaining(referrals, Lines, links)
          <=> k[2] \in UnitsContaining(referrals, Lines, links)
    BY <2>1, UnitsContainingClosed
  <2> QED BY <2>1, <2>2, <1>3, <1>4 DEF ReferredLines
<1> QED BY <1>1, <1>2, <1>3, <1>4, <1>5 DEF PassInv, Reviewed

LEMMA StepPass == PassInv /\ FinalInv /\ [FinalNext]_finalVars => PassInv'
<1> SUFFICES ASSUME PassInv, FinalInv, [FinalNext]_finalVars
             PROVE  PassInv'
  OBVIOUS
<1>1. links' = links /\ line' = [l \in Lines |-> line'[l]]
  BY StepPasses
<1>2. CASE Adjacency
  <2>1. phase = "adjacency" /\ phase' = "breaks" /\ reviewNotes' = reviewNotes
    BY <1>2 DEF Adjacency, NextPass
  <2>2. \A l \in Lines : line[l].status \in {"corrected", "fallback"}
    BY <2>1 DEF PassInv, Reviewed
  <2>3. \A l \in Lines : line'[l].status \in {"corrected", "fallback"}
    BY <1>2, <2>2, RevertsCorrected DEF Adjacency
  <2> QED BY <1>1, <2>1, <2>3, UnreviewedPass DEF Reviewed
<1>3. CASE BreakChars
  <2>1. phase = "breaks" /\ phase' = "loss" /\ reviewNotes' = reviewNotes /\ drifted' = {}
    BY <1>3 DEF BreakChars, NextPass
  <2>2. \A l \in Lines : line[l].status \in {"corrected", "fallback"}
    BY <2>1 DEF PassInv, Reviewed
  <2>3. \A l \in Lines : line'[l].status = line[l].status
    BY <1>3 DEF BreakChars, LD!Renormalised, LD!Decision, FinalInv
  <2> QED BY <1>1, <2>1, <2>2, <2>3, UnreviewedPass DEF Reviewed
<1>4. CASE LossPolicy
  <2>1. phase = "loss" /\ phase' = "review" /\ reviewNotes' = reviewNotes
    BY <1>4 DEF LossPolicy, NextPass
  <2>2. drifted = {} /\ \A l \in Lines : line[l].status \in {"corrected", "fallback"}
    BY <2>1 DEF PassInv, Reviewed
  <2>3. drifted' = {}
    BY <1>4, <2>2 DEF LossPolicy
  <2>4. \A l \in Lines : line'[l].status \in {"corrected", "fallback"}
    BY <1>4, <2>2, RevertsCorrected DEF LossPolicy
  <2> QED BY <1>1, <2>1, <2>3, <2>4, UnreviewedPass DEF Reviewed
<1>5. CASE Review
  BY <1>5, ReviewReferrals
<1>6. CASE Materialise
  BY <1>6 DEF Materialise, settings, PassInv, Reviewed
<1>7. CASE UNCHANGED finalVars
  BY <1>7 DEF finalVars, settings, PassInv, Reviewed
<1> QED BY <1>2, <1>3, <1>4, <1>5, <1>6, <1>7 DEF FinalNext

LEMMA PassInvariant == Spec => []PassInv
BY InitPass, StepPass, FinalInvariant, PTL DEF Spec

\* At the end of a run the lines with review reasons are the ones under review, and
\* a word is referred whole but for the halves that fell (_review_pass).
THEOREM ReferralsDescribe == Spec => []ReferralsHold
<1>1. PassInv => ReferralsHold
  BY DEF PassInv, ReferralsHold
<1> QED BY <1>1, PassInvariant, PTL

\* Every decision that leaves the passes ends in its source's break character
\* (_preserve_break_chars, before anything reads the texts again).
THEOREM BreaksAreSettled == Spec => []BreaksSettled
<1>1. PassInv => BreaksSettled
  BY DEF PassInv, BreaksSettled, Decided
<1> QED BY <1>1, PassInvariant, PTL

\* The sidecar takes exactly the corrections the realignment gate takes away, those
\* of the units it pulls included (_loss_policy_pass, _sidecar_entries).
THEOREM SidecarKeepsAll == Spec => SidecarKeeps
<1>1. ASSUME FinalInv, FinalNext, lossPolicy = "realign", phase = "loss"
      PROVE  sidecar' = {l \in Lines : Corrected(l) /\ ~Corrected(l)'}
  <2>1. LossPolicy
    BY <1>1 DEF FinalNext, Adjacency, BreakChars, Review, Materialise
  <2>2. PICK flagged \in SUBSET Lines :
          /\ RevertUnits(flagged, "token_realign", "token_realign_pair_atomicity")
          /\ sidecar' = SidecarOf(flagged)
    BY <1>1, <2>1 DEF LossPolicy
  <2>3. \A l \in Lines : IF l \in Reverted(flagged) THEN line'[l].text = "ocr"
                                                    ELSE line'[l] = line[l]
    BY <1>1, <2>2, RevertPasses DEF Reasons
  <2>4. Reverted(flagged) \subseteq Lines
    BY DEF Reverted, UnitsContaining, UnitOf
  <2>5. \A l \in Lines : l \in Reverted(flagged) /\ Corrected(l) <=> Corrected(l) /\ ~Corrected(l)'
    BY <2>3 DEF Corrected
  <2> QED BY <2>2, <2>4, <2>5 DEF SidecarOf
<1>2. FinalInv /\ [FinalNext]_finalVars =>
        [lossPolicy = "realign" /\ phase = "loss" =>
           sidecar' = {l \in Lines : Corrected(l) /\ ~Corrected(l)'}]_phase
  BY <1>1 DEF finalVars
<1> QED BY <1>2, FinalInvariant, PTL DEF Spec, SidecarKeeps

----
\* The approval pulls whole units, as the caller's document links them.
LEMMA ApproveWhole == Approve => ApprovedWhole'
<1> SUFFICES ASSUME Approve, NEW k \in InitLinks
             PROVE  approved'[k[1]].status = "fallback" <=> approved'[k[2]].status = "fallback"
  BY DEF ApprovedWhole
<1>1. k[1] \in Lines /\ k[2] \in Lines
  BY DocumentAssumption
<1>2. UnitMates(k[1]) = UnitMates(k[2])
  BY <1>1, LinkedUnitsEqual DEF UnitMates
<1>3. ASSUME NEW l \in Lines
      PROVE  approved'[l].status = "fallback" <=> \E m \in UnitMates(l) : Intent(m).status = "fallback"
  <2>1. l \in UnitMates(l)
    BY UnitHoldsItsLine DEF UnitMates
  <2>2. approved'[l] = IF l \in Pulled THEN LD!Fallen(LD!Undecided, "human: unit atomicity")
                       ELSE Intent(l)
    BY DEF Approve
  <2>3. LD!Fallen(LD!Undecided, "human: unit atomicity").status = "fallback"
    BY DEF LD!Fallen
  <2> QED BY <2>1, <2>2, <2>3 DEF Pulled
<1> QED BY <1>1, <1>2, <1>3

LEMMA StepApproved ==
  ApprovedWhole /\ [ApprovalNext]_<<finalVars, approvalVars>> => ApprovedWhole'
<1> SUFFICES ASSUME ApprovedWhole, [ApprovalNext]_<<finalVars, approvalVars>>
             PROVE  ApprovedWhole'
  OBVIOUS
<1>1. CASE Approve
  BY <1>1, ApproveWhole
<1>2. CASE Judge \/ RefuseApproval
  BY <1>2 DEF Judge, RefuseApproval, ApprovedWhole, IsApproved
<1>3. CASE RunStep
  <2>1. phase' # "approved"
    BY <1>3 DEF RunStep, FinalNext, Adjacency, BreakChars, LossPolicy, Review, Materialise, NextPass
  <2> QED BY <2>1 DEF ApprovedWhole, IsApproved
<1>4. CASE UNCHANGED <<finalVars, approvalVars>>
  BY <1>4 DEF finalVars, approvalVars, ApprovedWhole, IsApproved
<1> QED BY <1>1, <1>2, <1>3, <1>4 DEF ApprovalNext

\* In an approved artefact the lines of a unit fell together or not at all, whatever
\* the verdicts, the policy and the state the run left the word in.
THEOREM ApprovalKeepsUnits == ApprovalSpec => []ApprovedWhole
<1>1. ApprovalInit => ApprovedWhole
  BY DEF ApprovalInit, Init, ApprovedWhole, IsApproved
<1> QED BY <1>1, StepApproved, PTL DEF ApprovalSpec

\* What approve() makes of a correction under review nobody judged.
LEMMA SilentIntent ==
  ASSUME Approve, unreviewed \in {"revert", "deliver"}
  PROVE  SilenceIsNotConsent'
<1> SUFFICES ASSUME NEW l \in Lines, decisions[l].status = "review", verdict[l] = "none"
             PROVE  \/ approved'[l].status = "fallback"
                    \/ unreviewed = "deliver" /\ approved'[l] = decisions[l]
  BY DEF Approve, SilenceIsNotConsent
<1>1. approved'[l] = IF l \in Pulled THEN LD!Fallen(LD!Undecided, "human: unit atomicity")
                     ELSE Intent(l)
  BY DEF Approve
<1>2. Intent(l) = IF unreviewed = "revert" THEN LD!Fallen(LD!Undecided, "human: unreviewed")
                  ELSE decisions[l]
  BY DEF Intent
<1>3. \A why : LD!Fallen(LD!Undecided, why).status = "fallback"
  BY DEF LD!Fallen
<1> QED BY <1>1, <1>2, <1>3

\* No correction the run could not establish is approved by silence (_intent_of).
THEOREM SilenceNeverConsents == ApprovalSpec => []SilenceIsNotConsent
<1> DEFINE Heard == unreviewed \in {"revert", "deliver"} /\ SilenceIsNotConsent
<1>1. ApprovalInit => Heard
  BY DEF ApprovalInit, Init, SilenceIsNotConsent, IsApproved
<1>2. Heard /\ [ApprovalNext]_<<finalVars, approvalVars>> => Heard'
  <2> SUFFICES ASSUME Heard, [ApprovalNext]_<<finalVars, approvalVars>>
               PROVE  Heard'
    OBVIOUS
  <2>1. CASE Approve
    <3>1. unreviewed' = unreviewed
      BY <2>1 DEF Approve
    <3> QED BY <2>1, <3>1, SilentIntent
  <2>2. CASE Judge \/ RefuseApproval
    BY <2>2 DEF Judge, RefuseApproval, approvalVars, SilenceIsNotConsent, IsApproved
  <2>3. CASE RunStep
    <3>1. phase' # "approved" /\ unreviewed' = unreviewed
      BY <2>3 DEF RunStep, approvalVars, FinalNext, Adjacency, BreakChars, LossPolicy, Review,
                  Materialise, NextPass
    <3> QED BY <3>1 DEF SilenceIsNotConsent, IsApproved
  <2>4. CASE UNCHANGED <<finalVars, approvalVars>>
    BY <2>4 DEF finalVars, approvalVars, SilenceIsNotConsent, IsApproved
  <2> QED BY <2>1, <2>2, <2>3, <2>4 DEF ApprovalNext
<1>3. Heard => SilenceIsNotConsent
  OBVIOUS
<1> QED BY <1>1, <1>2, <1>3, PTL DEF ApprovalSpec
====
