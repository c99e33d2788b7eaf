---- MODULE PageDriverProofs ----
(***************************************************************************)
(* Proofs about the page loop: its types and its purse; that it writes     *)
(* decisions only as core/decide.py promises them; that it leaves no line  *)
(* in limbo; and what becomes of broken words.                             *)
(***************************************************************************)
EXTENDS PageDriver, BasicFacts

\* Stage C's next target is one of the targets left.
LEMMA NextLineLeft ==
  ASSUME todo \subseteq Lines, todo # {}
  PROVE  NextLine \in todo
<1>1. \E l \in todo : \A m \in todo : l <= m
  BY FirstExists, LinesAssumption
<1> QED BY <1>1 DEF NextLine

\* The join reconciled next is one of the joins left.
LEMMA FirstJoinLeft ==
  ASSUME joins \subseteq InitLinks, joins # {}
  PROVE  FirstJoin \in joins
<1> DEFINE T == {k[1] : k \in joins}
<1>1. T \in SUBSET Nat /\ T # {}
  BY LinksAssumption, LinesAssumption
<1>2. PICK x \in T : \A y \in T : x <= y
  BY <1>1, FirstExists
<1>3. \E k \in joins : \A j \in joins : k[1] <= j[1]
  BY <1>2
<1> QED BY <1>3 DEF FirstJoin

\* The verbs of decide.py yield decisions.
LEMMA VerbsDecide ==
  ASSUME NEW d \in LD!Decision
  PROVE  /\ \A t \in LD!Texts \cup {"none"} : LD!Accepted(d, t) \in LD!Decision
         /\ \A why \in Reasons : LD!Fallen(d, why) \in LD!Decision
BY DEF LD!Decision, LD!Statuses, LD!Texts, LD!Accepted, LD!Fallen

LEMMA FallBackDecides ==
  ASSUME line \in [Lines -> LD!Decision], NEW S, NEW why, \A l \in Lines : why[l] \in Reasons
  PROVE  FallBack(S, why) \in [Lines -> LD!Decision]
BY VerbsDecide DEF FallBack

\* What is left after a head is again a sequence of chunks.
LEMMA TailOfChunks ==
  ASSUME NEW q \in Seq(Chunks), q # <<>>
  PROVE  Head(q) \in Chunks /\ Tail(q) \in Seq(Chunks)
BY HeadTailProperties

\* A plan the driver asks for honours the contract.
LEMMA PlanHonoured ==
  ASSUME NEW grain \in Grains \cup {"AUTO"}, NEW S \in SUBSET Lines, links \subseteq InitLinks
  PROVE  PlanContract(S, links, PlanOf(grain, S, links))
BY PlanAssumption

\* The router's work items are chunks: twice as many, each with fewer targets.
LEMMA WorkItemsAreChunks ==
  ASSUME NEW chunks \in Seq(Chunks), NEW skip, NEW escalate
  PROVE  WorkItems(chunks, skip, escalate) \in Seq(Chunks)
<1> DEFINE items == WorkItems(chunks, skip, escalate)
           n     == 2 * Len(chunks)
<1>1. n \in Nat /\ Len(chunks) \in Nat
  BY LenProperties
<1>2. \A i \in 1 .. n : items[i] \in Chunks
  <2> SUFFICES ASSUME NEW i \in 1 .. n PROVE items[i] \in Chunks
    OBVIOUS
  <2> DEFINE j == (i + 1) \div 2
  <2>1. j \in 1 .. Len(chunks)
    BY <1>1
  <2>2. chunks[j] \in Chunks
    BY <2>1, ElementOfSeq
  <2> QED BY <2>2 DEF WorkItems, Chunks
<1>3. items = [i \in 1 .. n |-> items[i]]
  BY DEF WorkItems
<1> QED BY <1>1, <1>2, <1>3, IsASeq

\* No reason is the absence of one, and a text said is a text.
LEMMA SaidIsText == \A l : Said(l) \in LD!Texts
BY DEF Said, LD!Texts

LEMMA FinerIsGrain ==
  ASSUME NEW grain \in Grains, Finer(grain) # "none"
  PROVE  Finer(grain) \in Grains
BY DEF Grains, Finer

LEMMA InitTyped == Init => TypeOK
BY LinesAssumption, LinksAssumption, RetryAssumption
   DEF Init, TypeOK, NoChunk, Chunks, Grains, Terminal, LD!Undecided, LD!Decision,
       LD!Statuses, LD!Texts

\* Every step of the page loop keeps the types.
LEMMA StepTyped == TypeOK /\ [Next]_vars => TypeOK'
<1> SUFFICES ASSUME TypeOK, [Next]_vars PROVE TypeOK'
  OBVIOUS
<1> USE DEF control, finish, document
<1>1. CASE StartPage
  <2> DEFINE plan == PlanOf("AUTO", LinesOn(page), links)
  <2>1. PlanContract(LinesOn(page), links, plan)
    BY PlanHonoured DEF TypeOK, LinesOn
  <2>2. links' \subseteq InitLinks /\ splits' \subseteq InitLinks
    BY <1>1, <2>1 DEF StartPage, PlanContract, TypeOK
  <2>3. queue' \in Seq(Chunks)
    BY <1>1, <2>1, WorkItemsAreChunks DEF StartPage, PlanContract
  <2>4. line' \in [Lines -> LD!Decision]
    <3>1. CASE Routing
      BY <1>1, <3>1, VerbsDecide DEF StartPage, TypeOK, LD!Texts
    <3>2. CASE ~Routing
      BY <1>1, <3>2 DEF StartPage, TypeOK
    <3> QED BY <3>1, <3>2
  <2>5. UNCHANGED <<page, work, top, cur, budget, attempt, calls, changed, neutral, joins,
                    todo, undecided, reverts, produced>> /\ pc' = "chunk"
    BY <1>1 DEF StartPage
  <2> QED BY <2>2, <2>3, <2>4, <2>5 DEF TypeOK
<1>2. CASE DropChunk
  BY <1>2, TailOfChunks DEF DropChunk, TypeOK
<1>3. CASE StartChunk
  <2>1. Head(queue) \in Chunks /\ Tail(queue) \in Seq(Chunks)
    BY <1>3, TailOfChunks DEF StartChunk, TypeOK
  <2>2. Head(queue).targets \subseteq Lines
    BY <2>1 DEF Chunks
  <2> QED BY <1>3, <2>1, <2>2, RetryAssumption DEF StartChunk, TypeOK
<1>4. CASE EndPage
  BY <1>4, LinesAssumption DEF EndPage, TypeOK, Terminal
<1>5. CASE ReplyAccepted \/ PairsSettled
  <2>1. PICK reply, away : /\ BeginFinish(reply, away) /\ attempt <= Cap
                           /\ reply \subseteq cur.lines /\ away \subseteq cur.lines
    <3>1. CASE ReplyAccepted
      BY <1>5, <3>1 DEF ReplyAccepted
    <3>2. CASE PairsSettled
      <4>1. \A refused \in SUBSET Refusable \ {{}} : UNION refused \subseteq cur.lines
        BY DEF Refusable
      <4>2. attempt = Cap => attempt <= Cap
        BY RetryAssumption DEF Cap, TypeOK
      <4> QED BY <3>2, <4>1, <4>2 DEF PairsSettled
    <3> QED BY <1>5, <3>1, <3>2
  <2>2. cur.lines \subseteq Lines /\ cur.targets \subseteq Lines
    BY DEF TypeOK, Chunks
  <2>3. budget' \in 0 .. PerChunkBudget /\ calls' \in Nat
    BY <2>1, RetryAssumption DEF BeginFinish, TypeOK, Cap
  <2>4. produced' \in [Lines -> {"none", "ocr", "cor"}]
    BY <2>1 DEF BeginFinish, TypeOK
  <2>5. joins' \subseteq InitLinks
    BY <2>1 DEF BeginFinish, TypeOK, JoinsOf
  <2>6. changed' \subseteq Lines /\ neutral' \subseteq Lines /\ undecided' \subseteq Lines
    BY <2>1, <2>2 DEF BeginFinish
  <2>7. UNCHANGED <<page, queue, work, top, cur, attempt, todo, reverts, line, links, splits>>
        /\ pc' = "reconcile"
    BY <2>1 DEF BeginFinish
  <2> QED BY <2>3, <2>4, <2>5, <2>6, <2>7 DEF TypeOK
<1>6. CASE RetryAttempt
  BY <1>6, RetryAssumption DEF RetryAttempt, TypeOK, Cap
<1>7. CASE Descend
  <2> DEFINE plan == PlanOf(Finer(cur.grain), DescentLines, links)
  <2>1. cur.grain \in Grains /\ cur.targets \subseteq Lines
    BY DEF TypeOK, Chunks
  <2>2. PlanContract(DescentLines, links, plan)
    BY <1>7, <2>1, PlanHonoured, FinerIsGrain DEF Descend, TypeOK, DescentLines
  <2>3. links' \subseteq InitLinks /\ splits' \subseteq InitLinks
    BY <1>7, <2>2 DEF Descend, PlanContract, TypeOK
  <2>4. work' \in Seq(Chunks)
    BY <1>7, <2>2, ConcatProperties DEF Descend, PlanContract, TypeOK
  <2>5. budget' \in 0 .. PerChunkBudget /\ calls' \in Nat
    BY <1>7, RetryAssumption DEF Descend, TypeOK, Cap
  <2>6. UNCHANGED <<page, queue, top, cur, attempt, changed, neutral, joins, todo, undecided,
                    reverts, line, produced>> /\ pc' = "sub"
    BY <1>7 DEF Descend
  <2> QED BY <2>3, <2>4, <2>5, <2>6 DEF TypeOK
<1>8. CASE GiveUp
  <2>1. line' \in [Lines -> LD!Decision]
    BY <1>8, FallBackDecides DEF GiveUp, FallenChunk, ReasonFor, Reasons, TypeOK
  <2>2. budget' \in 0 .. PerChunkBudget /\ calls' \in Nat
    BY <1>8, RetryAssumption DEF GiveUp, TypeOK, Cap
  <2> QED BY <1>8, <2>1, <2>2 DEF GiveUp, TypeOK
<1>9. CASE StartSub
  BY <1>9, TailOfChunks, RetryAssumption DEF StartSub, TypeOK
<1>10. CASE ExhaustedSub
  <2>1. line' \in [Lines -> LD!Decision]
    BY <1>10, FallBackDecides DEF ExhaustedSub, FallenChunk, ReasonFor, Reasons, TypeOK
  <2> QED BY <1>10, <2>1, TailOfChunks DEF ExhaustedSub, TypeOK
<1>11. CASE EndChunk
  BY <1>11 DEF EndChunk, TypeOK
<1>12. CASE AbsorbError
  <2>1. line' \in [Lines -> LD!Decision]
    BY <1>12, FallBackDecides DEF AbsorbError, Reasons, TypeOK
  <2> QED BY <1>12, <2>1 DEF AbsorbError, TypeOK
<1>13. CASE Reconcile
  <2> DEFINE tail == FirstJoin[1]
             head == FirstJoin[2]
             text == [l \in Lines |-> IF l = tail /\ ~IsPending(l) THEN line[l].text
                                      ELSE Said(l)]
             pair == {tail, head}
  <2>1. \A l \in Lines : text[l] \in LD!Texts \cup {"none"}
    BY SaidIsText DEF TypeOK, LD!Decision
  <2>2. \/ line' = [l \in Lines |-> IF l \in pair THEN LD!Accepted(line[l], text[l])
                                     ELSE line[l]]
        \/ line' = FallBack(pair, [l \in Lines |-> "hyphen_pair_fallback"])
    BY <1>13 DEF Reconcile
  <2> HIDE DEF text, pair
  <2>3. line' \in [Lines -> LD!Decision]
    <3>1. CASE line' = FallBack(pair, [l \in Lines |-> "hyphen_pair_fallback"])
      BY <3>1, FallBackDecides DEF Reasons, TypeOK
    <3>2. CASE line' = [l \in Lines |-> IF l \in pair THEN LD!Accepted(line[l], text[l])
                                        ELSE line[l]]
      BY <3>2, <2>1, VerbsDecide DEF TypeOK
    <3> QED BY <2>2, <3>1, <3>2
  <2> QED BY <1>13, <2>3 DEF Reconcile, TypeOK
<1>14. CASE EndReconcile
  BY <1>14 DEF EndReconcile, TypeOK, Chunks
<1>15. CASE RevisitLine
  BY <1>15, NextLineLeft DEF RevisitLine, TypeOK
<1>16. CASE DecideLine
  <2>1. NextLine \in Lines
    BY <1>16, NextLineLeft DEF DecideLine, TypeOK
  <2>2. \A why \in Reasons :
          [line EXCEPT ![NextLine] = LD!Fallen(@, why)] \in [Lines -> LD!Decision]
    BY <2>1, VerbsDecide DEF TypeOK
  <2>3. [line EXCEPT ![NextLine] = LD!Accepted(@, Said(NextLine))] \in [Lines -> LD!Decision]
    BY <2>1, VerbsDecide, SaidIsText DEF TypeOK
  <2>4. line' \in [Lines -> LD!Decision]
    BY <1>16, <2>2, <2>3 DEF DecideLine, Reasons
  <2> QED BY <1>16, <2>4 DEF DecideLine, TypeOK
<1>17. CASE SettleChunk
  <2>1. line' \in [Lines -> LD!Decision]
    BY <1>17, FallBackDecides DEF SettleChunk, Reasons, TypeOK
  <2> QED BY <1>17, <2>1 DEF SettleChunk, TypeOK
<1>18. CASE FailRun
  BY <1>18 DEF FailRun, TypeOK, Terminal
<1>19. CASE Abort
  BY <1>19 DEF Abort, TypeOK, Terminal
<1>20. CASE Stopped \/ UNCHANGED vars
  BY <1>20 DEF Stopped, vars, TypeOK
<1> QED
  BY <1>1, <1>2, <1>3, <1>4, <1>5, <1>6, <1>7, <1>8, <1>9, <1>10, <1>11, <1>12, <1>13,
     <1>14, <1>15, <1>16, <1>17, <1>18, <1>19, <1>20 DEF Next, Work

\* The page loop keeps its state well formed, whatever the planner, the producer,
\* the router and the cancellation do: the purse never goes below zero, no attempt
\* is made beyond the policy's, and only links the linker left are ever cut.
THEOREM PageTypes == Spec => []TypeOK
BY InitTyped, StepTyped, PTL DEF Spec

----
\* The purse of a top-level chunk: retries and descents together never make more
\* producer calls than RetryPolicy.per_chunk_budget.

\* Where the purse stands while the chunk still has something to spend it on.
\* During an attempt the failed attempts of this chunk are made but not yet
\* charged; an absorbed error charges nothing, and ends the descent.
Charged ==
  /\ pc = "attempt" =>
       /\ 1 <= attempt /\ attempt <= Cap
       /\ calls + budget = PerChunkBudget + attempt - 1
  /\ pc \in {"reconcile", "accept"} \/ (pc = "sub" /\ work # <<>>) =>
       calls + budget = PerChunkBudget

PurseInv == TypeOK /\ Charged /\ Purse

LEMMA InitPurse == Init => PurseInv
BY InitTyped, RetryAssumption DEF Init, PurseInv, Charged, Purse

LEMMA StepPurse == PurseInv /\ [Next]_vars => PurseInv'
<1> SUFFICES ASSUME PurseInv, [Next]_vars PROVE Charged' /\ Purse'
  BY StepTyped DEF PurseInv
<1> USE RetryAssumption DEF Cap, Charged, Purse, control, finish, document
<1>0. /\ budget \in Nat /\ attempt \in Nat /\ calls \in Nat
      /\ MaxAttempts \in Nat /\ PerChunkBudget \in Nat
      /\ Charged /\ Purse
  BY DEF PurseInv, TypeOK
<1>1. CASE StartPage \/ DropChunk \/ EndPage \/ EndChunk \/ FailRun
  BY <1>0, <1>1 DEF StartPage, DropChunk, EndPage, EndChunk, FailRun
<1>2. CASE StartChunk
  BY <1>0, <1>2 DEF StartChunk
<1>3. CASE ReplyAccepted \/ PairsSettled
  <2>1. /\ pc = "attempt" /\ pc' = "reconcile" /\ attempt <= Cap
        /\ budget' = budget - attempt /\ calls' = calls + 1
    BY <1>0, <1>3 DEF ReplyAccepted, PairsSettled, BeginFinish
  <2> QED BY <1>0, <2>1
<1>4. CASE RetryAttempt
  BY <1>0, <1>4 DEF RetryAttempt
<1>5. CASE Descend
  <2>1. /\ pc = "attempt" /\ pc' = "sub" /\ attempt = Cap
        /\ budget' = budget - attempt /\ calls' = calls + 1
    BY <1>5 DEF Descend
  <2> QED BY <1>0, <2>1
<1>6. CASE GiveUp
  <2>1. /\ pc = "attempt" /\ pc' = "sub" /\ attempt = Cap
        /\ budget' = budget - attempt /\ calls' = calls + 1
    BY <1>6 DEF GiveUp
  <2> QED BY <1>0, <2>1
<1>7. CASE StartSub
  BY <1>0, <1>7 DEF StartSub
<1>8. CASE ExhaustedSub
  BY <1>0, <1>8 DEF ExhaustedSub
<1>9. CASE AbsorbError
  <2>1. pc = "attempt" /\ pc' = "sub" /\ work' = <<>> /\ calls' = calls + 1
    BY <1>9 DEF AbsorbError
  <2> QED BY <1>0, <2>1
<1>10. CASE Reconcile \/ EndReconcile \/ RevisitLine \/ DecideLine \/ SettleChunk
  <2>1. /\ UNCHANGED <<work, budget, calls>> /\ pc \in {"reconcile", "accept"}
        /\ pc' \in {"reconcile", "accept", "sub"}
    BY <1>10 DEF Reconcile, EndReconcile, RevisitLine, DecideLine, SettleChunk
  <2> QED BY <1>0, <2>1
<1>11. CASE Abort
  BY <1>0, <1>11 DEF Abort
<1>12. CASE Stopped \/ UNCHANGED vars
  BY <1>0, <1>12 DEF Stopped, vars
<1> QED
  BY <1>1, <1>2, <1>3, <1>4, <1>5, <1>6, <1>7, <1>8, <1>9, <1>10, <1>11, <1>12
     DEF Next, Work

\* A top-level chunk and everything it descends to make at most per_chunk_budget
\* producer calls, for every planner, every policy and every outcome of the calls.
THEOREM PurseHolds == Spec => []Purse
<1>1. Spec => []PurseInv
  BY InitPurse, StepPurse, PTL DEF Spec
<1> QED BY <1>1, PTL DEF PurseInv

----
(***************************************************************************)
(* The page loop implements LineDecision: every pass writes decisions only *)
(* the way core/decide.py promises them.                                   *)
(*                                                                         *)
(* The delicate steps are the ones that accept a text: the router's skip   *)
(* and the reconciler.  A line that has fallen must never reach them.  The *)
(* reconciler checks; the router does not, and is safe only because a page *)
(* not yet started has no decided line but the far halves of words broken  *)
(* across pages, which a skip spares: no step cuts such a word's link, and *)
(* no step decides a line beyond the page and its cross-page partners.     *)
(***************************************************************************)

InChunk == {"attempt", "reconcile", "accept"}
OnPage(q) == \A i \in DOMAIN q : /\ q[i].targets \subseteq q[i].lines
                                 /\ q[i].lines \subseteq LinesOn(page)

\* What the loop works on belongs to the page it is on.
Scope ==
  /\ pc \in {"page", "chunk"} => work = <<>>
  /\ pc = "page" => queue = <<>>
  /\ OnPage(queue) /\ OnPage(work)
  /\ pc \in InChunk => cur.targets \subseteq cur.lines /\ cur.lines \subseteq LinesOn(page)
  /\ pc \in InChunk \cup {"sub"} => top \subseteq LinesOn(page)
  /\ pc \in {"reconcile", "accept"} => neutral \subseteq LinesOn(page)
  /\ pc = "reconcile" => \A k \in joins : k \in links /\ (k[1] \in cur.targets \/ k[2] \in cur.targets)
  /\ todo \subseteq LinesOn(page) \/ pc # "accept"
  /\ reverts \subseteq LinesOn(page)
  /\ pc # "accept" => reverts = {}

\* A line at an end of a word broken across two pages.
AtPageBreak(l) == \E k \in InitLinks : Crosses(k) /\ (k[1] = l \/ k[2] = l)

\* Links across pages are never cut, and ahead of the page being corrected only
\* lines at a page break are decided.
Ahead ==
  /\ \A k \in InitLinks : Crosses(k) => k \in links
  /\ \A l \in Lines : PageOf[l] > page \/ (pc = "page" /\ PageOf[l] = page) =>
       IsPending(l) \/ AtPageBreak(l)

NoReview == \A l \in Lines : line[l].status # "review"

DecisionsInv == TypeOK /\ Scope /\ Ahead /\ NoReview /\ FallenIsSource

\* What a step of the page loop may do to the decision of one line.
Move(d, e) ==
  \/ e = d
  \/ \E t \in LD!Texts : d.status \in {"pending", "corrected"} /\ e = LD!Accepted(d, t)
  \/ \E why \in Reasons : e = LD!Fallen(d, why)

\* The lines a step may decide: the page's and their partners on other pages.
Reach == LinesOn(page) \cup CrossPartners(page)

LEMMA UnitsInReach ==
  ASSUME NEW S, S \subseteq Reach
  PROVE  UnitsContaining(S, Pool, links) \subseteq Reach
BY DEF UnitsContaining, UnitOf, Pool, Reach

LEMMA FallBackMoves ==
  ASSUME TypeOK, NEW S, S \subseteq Reach, NEW why, \A l \in Lines : why[l] \in Reasons,
         line' = FallBack(S, why)
  PROVE  \A l \in Lines : Move(line[l], line'[l]) /\ (line'[l] # line[l] => l \in Reach)
BY DEF FallBack, Move

LEMMA PartnerInReach ==
  ASSUME NEW k \in InitLinks, k \in links, k[1] \in LinesOn(page) \/ k[2] \in LinesOn(page)
  PROVE  k[1] \in Reach /\ k[2] \in Reach
<1>1. k = <<k[1], k[2]>> /\ k[1] \in Lines /\ k[2] \in Lines
  BY LinksAssumption
<1>2. k[1] \in Partners(k[2], links) /\ k[2] \in Partners(k[1], links)
  BY <1>1 DEF Partners
<1> QED BY <1>1, <1>2 DEF Reach, CrossPartners, LinesOn

\* Every step moves decisions only as the verbs do, and only within reach.
LEMMA StepMoves ==
  ASSUME DecisionsInv, [Next]_vars
  PROVE  \A l \in Lines : Move(line[l], line'[l]) /\ (line'[l] # line[l] => l \in Reach)
<1> USE DEF control, finish, document
<1>0. TypeOK /\ Scope /\ Ahead /\ NoReview /\ FallenIsSource
  BY DEF DecisionsInv
<1>1. CASE UNCHANGED line
  BY <1>1 DEF Move
<1>2. CASE StartPage /\ Routing
  <2>1. PICK tier : line' = [l \in Lines |-> IF l \in Skipped(tier)
                                              THEN LD!Accepted(line[l], "ocr") ELSE line[l]]
    BY <1>2 DEF StartPage
  <2>2. ASSUME NEW l \in Skipped(tier) PROVE l \in LinesOn(page) /\ IsPending(l)
    <3>1. l \in LinesOn(page) /\ l \in Lines /\ PageOf[l] = page /\ ~Member(l)
      BY DEF Skipped, LinesOn
    <3>2. ~AtPageBreak(l)
      BY <1>0, <3>1 DEF AtPageBreak, Ahead, Member, Opener
    <3> QED BY <1>0, <1>2, <3>1, <3>2 DEF Ahead, StartPage
  <2> QED BY <2>1, <2>2 DEF Move, Reach, IsPending, LD!Texts
<1>3. CASE GiveUp
  <2>1. cur.targets \subseteq Reach
    BY <1>0, <1>3 DEF GiveUp, Scope, InChunk, Reach
  <2>2. UnitsContaining(cur.targets, Pool, links) \subseteq Reach
    BY <2>1, UnitsInReach
  <2> QED BY <1>0, <1>3, <2>2, FallBackMoves DEF GiveUp, FallenChunk, ReasonFor, Reasons
<1>4. CASE ExhaustedSub
  <2>1. Head(work) = work[1] /\ 1 \in DOMAIN work
    BY <1>0, <1>4, HeadTailProperties, EmptySeq, LenProperties DEF ExhaustedSub, TypeOK
  <2>2. Head(work).targets \subseteq Reach
    BY <1>0, <2>1 DEF Scope, OnPage, Reach
  <2>3. UnitsContaining(Head(work).targets, Pool, links) \subseteq Reach
    BY <2>2, UnitsInReach
  <2> QED BY <1>0, <1>4, <2>3, FallBackMoves DEF ExhaustedSub, FallenChunk, ReasonFor, Reasons
<1>5. CASE AbsorbError
  <2>1. Limbo \subseteq Reach
    BY <1>0, <1>5 DEF AbsorbError, Scope, InChunk, Limbo, Reach
  <2>2. UnitsContaining(Limbo, Pool, links) \subseteq Reach
    BY <2>1, UnitsInReach
  <2> QED BY <1>0, <1>5, <2>2, FallBackMoves DEF AbsorbError, Reasons
<1>6. CASE Reconcile
  <2> DEFINE tail == FirstJoin[1]
             head == FirstJoin[2]
             text == [l \in Lines |-> IF l = tail /\ ~IsPending(l) THEN line[l].text
                                      ELSE Said(l)]
             pair == {tail, head}
  <2>1. FirstJoin \in joins /\ FirstJoin \in InitLinks
    BY <1>0, <1>6, FirstJoinLeft DEF Reconcile, TypeOK
  <2>2. pair \subseteq Reach
    <3>1. /\ FirstJoin \in links
          /\ tail \in cur.targets \/ head \in cur.targets
          /\ cur.targets \subseteq LinesOn(page)
      BY <1>0, <1>6, <2>1 DEF Reconcile, Scope, InChunk
    <3> QED BY <2>1, <3>1, PartnerInReach
  <2>3. \A l \in Lines : text[l] \in LD!Texts
    BY <1>0, SaidIsText DEF IsPending, TypeOK, FallenIsSource, LD!FallenIsSource, LD!Decision
  <2>4. \/ /\ ~IsFallen(tail) /\ ~IsFallen(head)
           /\ line' = [l \in Lines |-> IF l \in pair THEN LD!Accepted(line[l], text[l])
                                        ELSE line[l]]
        \/ line' = FallBack(pair, [l \in Lines |-> "hyphen_pair_fallback"])
    BY <1>6 DEF Reconcile
  <2> HIDE DEF text
  <2>5. CASE line' = FallBack(pair, [l \in Lines |-> "hyphen_pair_fallback"])
    BY <1>0, <2>2, <2>5, FallBackMoves DEF Reasons
  <2>6. CASE /\ ~IsFallen(tail) /\ ~IsFallen(head)
             /\ line' = [l \in Lines |-> IF l \in pair THEN LD!Accepted(line[l], text[l])
                                          ELSE line[l]]
    <3> SUFFICES ASSUME NEW l \in Lines
                 PROVE  Move(line[l], line'[l]) /\ (line'[l] # line[l] => l \in Reach)
      OBVIOUS
    <3>1. CASE l \notin pair
      BY <2>6, <3>1 DEF Move
    <3>2. CASE l \in pair
      <4>1. line[l].status \in {"pending", "corrected"}
        BY <1>0, <2>6, <3>2 DEF IsFallen, NoReview, TypeOK, LD!Decision, LD!Statuses
      <4>2. line'[l] = LD!Accepted(line[l], text[l]) /\ text[l] \in LD!Texts
        BY <2>3, <2>6, <3>2
      <4> QED BY <2>2, <3>2, <4>1, <4>2 DEF Move
    <3> QED BY <3>1, <3>2
  <2> QED BY <2>4, <2>5, <2>6
<1>7. CASE DecideLine
  <2>1. NextLine \in Lines /\ NextLine \in Reach
    BY <1>0, <1>7, NextLineLeft DEF DecideLine, TypeOK, Scope, Reach
  <2>2. line[NextLine].status = "pending"
    BY <1>7 DEF DecideLine, IsPending
  <2>3. \/ \E why \in Reasons : line' = [line EXCEPT ![NextLine] = LD!Fallen(@, why)]
        \/ \E t \in LD!Texts : line' = [line EXCEPT ![NextLine] = LD!Accepted(@, t)]
    BY <1>7, SaidIsText DEF DecideLine, Reasons
  <2> QED BY <1>0, <2>1, <2>2, <2>3 DEF Move, TypeOK
<1>8. CASE SettleChunk
  <2>1. reverts \subseteq Reach /\ neutral \subseteq Reach
    BY <1>0, <1>8 DEF SettleChunk, Scope, Reach
  <2>2. UnitsContaining(reverts, Pool, links) \cup neutral \subseteq Reach
    BY <2>1, UnitsInReach
  <2> QED BY <1>0, <1>8, <2>2, FallBackMoves DEF SettleChunk, Reasons
<1> QED
  <2>1. CASE StartPage /\ ~Routing
    BY <1>1, <2>1 DEF StartPage
  <2>2. CASE ReplyAccepted \/ PairsSettled
    BY <1>1, <2>2 DEF ReplyAccepted, PairsSettled, BeginFinish
  <2>3. CASE DropChunk \/ StartChunk \/ EndPage \/ RetryAttempt \/ Descend \/ StartSub
    BY <1>1, <2>3 DEF DropChunk, StartChunk, EndPage, RetryAttempt, Descend, StartSub
  <2>4. CASE EndChunk \/ EndReconcile \/ RevisitLine \/ FailRun \/ Abort
    BY <1>1, <2>4 DEF EndChunk, EndReconcile, RevisitLine, FailRun, Abort
  <2>5. CASE Stopped \/ UNCHANGED vars
    BY <1>1, <2>5 DEF Stopped, vars
  <2> QED BY <1>2, <1>3, <1>4, <1>5, <1>6, <1>7, <1>8, <2>1, <2>2, <2>3, <2>4, <2>5
             DEF Next, Work

LEMMA OnPageTail ==
  ASSUME NEW q \in Seq(Chunks), q # <<>>, OnPage(q)
  PROVE  /\ Head(q).targets \subseteq Head(q).lines
         /\ Head(q).lines \subseteq LinesOn(page)
         /\ OnPage(Tail(q))
<1>1. Len(q) \in Nat /\ Len(q) >= 1 /\ DOMAIN q = 1 .. Len(q)
  BY EmptySeq, LenProperties
<1>2. Head(q) = q[1] /\ 1 \in DOMAIN q
  BY <1>1, HeadTailProperties
<1>3. \A i \in DOMAIN Tail(q) : Tail(q)[i] = q[i + 1] /\ i + 1 \in DOMAIN q
  BY <1>1, HeadTailProperties, LenProperties
<1> QED BY <1>2, <1>3 DEF OnPage

\* The chunks of a plan of lines of the page are on the page, and so are their
\* work items.
LEMMA PlanOnPage ==
  ASSUME NEW S, S \subseteq LinesOn(page), NEW plan, PlanContract(S, links, plan)
  PROVE  /\ OnPage(plan.chunks)
         /\ \A skip, escalate : OnPage(WorkItems(plan.chunks, skip, escalate))
<1>1. OnPage(plan.chunks)
  BY DEF PlanContract, OnPage
<1>2. ASSUME NEW skip, NEW escalate PROVE OnPage(WorkItems(plan.chunks, skip, escalate))
  <2> DEFINE items == WorkItems(plan.chunks, skip, escalate)
             n     == Len(plan.chunks)
  <2>1. n \in Nat /\ DOMAIN plan.chunks = 1 .. n /\ DOMAIN items = 1 .. 2 * n
    BY LenProperties DEF PlanContract, WorkItems
  <2> SUFFICES ASSUME NEW i \in 1 .. 2 * n
               PROVE  items[i].targets \subseteq items[i].lines /\ items[i].lines \subseteq LinesOn(page)
    BY <2>1 DEF OnPage
  <2> DEFINE chunk == plan.chunks[(i + 1) \div 2]
  <2>2. (i + 1) \div 2 \in DOMAIN plan.chunks
    BY <2>1
  <2>3. chunk \in Chunks /\ chunk.targets \subseteq chunk.lines /\ chunk.lines \subseteq LinesOn(page)
    BY <1>1, <2>1, <2>2, ElementOfSeq DEF OnPage, PlanContract
  <2>4. items[i] = [chunk EXCEPT !.targets = IF i % 2 = 1 THEN @ \ (skip \cup escalate)
                                             ELSE (@ \ skip) \cap escalate]
    BY <2>1 DEF WorkItems
  <2> QED BY <2>3, <2>4 DEF Chunks
<1> QED BY <1>1, <1>2

\* What the loop works on stays on its page.
LEMMA StepScope ==
  ASSUME DecisionsInv, [Next]_vars
  PROVE  Scope'
<1> USE DEF control, finish, document, InChunk
<1>0. TypeOK /\ Scope
  BY DEF DecisionsInv
<1>1. CASE StartPage
  <2> DEFINE plan == PlanOf("AUTO", LinesOn(page), links)
  <2>1. PlanContract(LinesOn(page), links, plan)
    BY <1>0, PlanHonoured DEF TypeOK, LinesOn
  <2>2. OnPage(queue')
    BY <1>1, <2>1, PlanOnPage DEF StartPage
  <2>3. /\ UNCHANGED <<page, work, todo, reverts>> /\ pc = "page" /\ pc' = "chunk"
    BY <1>1 DEF StartPage
  <2> QED BY <1>0, <2>2, <2>3 DEF Scope, OnPage, LinesOn
<1>2. CASE DropChunk
  BY <1>0, <1>2, OnPageTail DEF DropChunk, Scope, OnPage, TypeOK, LinesOn
<1>3. CASE StartChunk
  <2>1. /\ Head(queue).targets \subseteq Head(queue).lines
        /\ Head(queue).lines \subseteq LinesOn(page) /\ OnPage(Tail(queue))
    BY <1>0, <1>3, OnPageTail DEF StartChunk, Scope, TypeOK
  <2> QED BY <1>0, <1>3, <2>1 DEF StartChunk, Scope, OnPage, LinesOn
<1>4. CASE EndPage
  <2>1. /\ queue' = <<>> /\ work' = <<>> /\ reverts' = {} /\ pc' \in {"page", "done"}
    BY <1>0, <1>4 DEF EndPage, Scope
  <2> QED BY <2>1 DEF Scope, OnPage
<1>5. CASE ReplyAccepted \/ PairsSettled
  <2>1. PICK reply, away : BeginFinish(reply, away) /\ away \subseteq cur.lines
    <3>1. CASE ReplyAccepted
      BY <3>1 DEF ReplyAccepted
    <3>2. CASE PairsSettled
      BY <3>2 DEF PairsSettled, Refusable
    <3> QED BY <1>5, <3>1, <3>2
  <2>2. pc = "attempt"
    BY <1>5 DEF ReplyAccepted, PairsSettled
  <2>3. /\ UNCHANGED <<page, queue, work, top, cur, links, reverts>> /\ pc' = "reconcile"
        /\ neutral' = away /\ joins' = JoinsOf(cur.targets)
    BY <2>1 DEF BeginFinish
  <2>4. \A k \in JoinsOf(cur.targets) : k \in links /\ (k[1] \in cur.targets \/ k[2] \in cur.targets)
    BY DEF JoinsOf
  <2> QED BY <1>0, <2>1, <2>2, <2>3, <2>4 DEF Scope, OnPage, LinesOn
<1>6. CASE RetryAttempt
  BY <1>0, <1>6 DEF RetryAttempt, Scope, OnPage, LinesOn
<1>7. CASE Descend
  <2> DEFINE plan == PlanOf(Finer(cur.grain), DescentLines, links)
  <2>1. cur.grain \in Grains /\ DescentLines \subseteq LinesOn(page)
    BY <1>0, <1>7 DEF Descend, Scope, TypeOK, Chunks, DescentLines
  <2>2. PlanContract(DescentLines, links, plan)
    BY <1>0, <1>7, <2>1, PlanHonoured, FinerIsGrain DEF Descend, TypeOK, LinesOn
  <2>3. OnPage(plan.chunks) /\ OnPage(work)
    BY <1>0, <2>1, <2>2, PlanOnPage DEF Scope
  <2>4. OnPage(plan.chunks \o work)
    <3>1. plan.chunks \in Seq(Chunks) /\ work \in Seq(Chunks)
      BY <1>0, <2>2 DEF PlanContract, TypeOK
    <3> QED BY <2>3, <3>1, ConcatProperties, LenProperties DEF OnPage
  <2>5. /\ UNCHANGED <<page, queue, top, todo, reverts>> /\ work' = plan.chunks \o work
        /\ pc = "attempt" /\ pc' = "sub"
    BY <1>7 DEF Descend
  <2> QED BY <1>0, <2>4, <2>5 DEF Scope, OnPage, LinesOn
<1>8. CASE GiveUp
  BY <1>0, <1>8 DEF GiveUp, Scope, OnPage, LinesOn
<1>9. CASE StartSub
  <2>1. /\ Head(work).targets \subseteq Head(work).lines
        /\ Head(work).lines \subseteq LinesOn(page) /\ OnPage(Tail(work))
    BY <1>0, <1>9, OnPageTail DEF StartSub, Scope, TypeOK
  <2> QED BY <1>0, <1>9, <2>1 DEF StartSub, Scope, OnPage, LinesOn
<1>10. CASE ExhaustedSub
  <2>1. OnPage(Tail(work))
    BY <1>0, <1>10, OnPageTail DEF ExhaustedSub, Scope, TypeOK
  <2> QED BY <1>0, <1>10, <2>1 DEF ExhaustedSub, Scope, OnPage, LinesOn
<1>11. CASE EndChunk
  BY <1>0, <1>11 DEF EndChunk, Scope, OnPage, LinesOn
<1>12. CASE AbsorbError
  <2>1. /\ UNCHANGED <<page, queue, top, todo, reverts>> /\ work' = <<>>
        /\ pc = "attempt" /\ pc' = "sub"
    BY <1>12 DEF AbsorbError
  <2> QED BY <1>0, <2>1 DEF Scope, OnPage, LinesOn
<1>13. CASE Reconcile
  <2>1. /\ UNCHANGED <<pc, page, queue, work, top, cur, neutral, todo, reverts, links>>
        /\ joins' \subseteq joins /\ pc = "reconcile"
    BY <1>13 DEF Reconcile
  <2> QED BY <1>0, <2>1 DEF Scope, OnPage, LinesOn
<1>14. CASE EndReconcile
  BY <1>0, <1>14 DEF EndReconcile, Scope, OnPage, LinesOn
<1>15. CASE RevisitLine
  <2>1. NextLine \in todo
    BY <1>0, <1>15, NextLineLeft DEF RevisitLine, TypeOK
  <2>2. /\ UNCHANGED <<pc, page, queue, work, top, cur, neutral, joins, links>>
        /\ todo' \subseteq todo /\ pc = "accept" /\ reverts' \subseteq reverts \cup todo
    BY <1>15, <2>1 DEF RevisitLine
  <2> QED BY <1>0, <2>2 DEF Scope, OnPage, LinesOn
<1>16. CASE DecideLine
  BY <1>0, <1>16 DEF DecideLine, Scope, OnPage, LinesOn
<1>17. CASE SettleChunk
  BY <1>0, <1>17 DEF SettleChunk, Scope, OnPage, LinesOn
<1>18. CASE FailRun
  BY <1>0, <1>18 DEF FailRun, Scope, OnPage, LinesOn
<1>19. CASE Abort
  BY <1>0, <1>19 DEF Abort, Scope, OnPage, LinesOn
<1>20. CASE Stopped \/ UNCHANGED vars
  BY <1>0, <1>20 DEF Stopped, vars, Scope, OnPage, LinesOn
<1> QED
  BY <1>1, <1>2, <1>3, <1>4, <1>5, <1>6, <1>7, <1>8, <1>9, <1>10, <1>11, <1>12, <1>13,
     <1>14, <1>15, <1>16, <1>17, <1>18, <1>19, <1>20 DEF Next, Work

\* Only links between lines of the page are cut, and only a page's end moves on.
LEMMA StepLinks ==
  ASSUME DecisionsInv, [Next]_vars
  PROVE  /\ \A k \in links : Crosses(k) => k \in links'
         /\ page' = page \/ (page' = page + 1 /\ UNCHANGED line)
         /\ page' = page => pc = "page" \/ pc' # "page"
<1> USE DEF control, finish, document
<1>0. TypeOK /\ Scope
  BY DEF DecisionsInv
<1>1. CASE StartPage
  <2> DEFINE plan == PlanOf("AUTO", LinesOn(page), links)
  <2>1. PlanContract(LinesOn(page), links, plan)
    BY <1>0, PlanHonoured DEF TypeOK, LinesOn
  <2>2. \A k \in plan.splits : ~Crosses(k)
    BY <2>1 DEF PlanContract, LinesOn, Crosses
  <2> QED BY <1>1, <2>2 DEF StartPage
<1>2. CASE Descend
  <2> DEFINE plan == PlanOf(Finer(cur.grain), DescentLines, links)
  <2>1. cur.grain \in Grains /\ DescentLines \subseteq LinesOn(page)
    BY <1>0, <1>2 DEF Descend, Scope, InChunk, TypeOK, Chunks, DescentLines
  <2>2. PlanContract(DescentLines, links, plan)
    BY <1>0, <1>2, <2>1, PlanHonoured, FinerIsGrain DEF Descend, TypeOK, LinesOn
  <2>3. \A k \in plan.splits : ~Crosses(k)
    BY <2>1, <2>2 DEF PlanContract, LinesOn, Crosses
  <2> QED BY <1>2, <2>3 DEF Descend
<1>3. CASE EndPage
  <2>1. page + 1 # page
    BY <1>0, LinesAssumption DEF TypeOK
  <2> QED BY <1>3, <2>1 DEF EndPage
<1>4. CASE ReplyAccepted \/ PairsSettled
  BY <1>4 DEF ReplyAccepted, PairsSettled, BeginFinish
<1>5. CASE DropChunk \/ StartChunk \/ RetryAttempt \/ GiveUp \/ StartSub \/ ExhaustedSub
  BY <1>5 DEF DropChunk, StartChunk, RetryAttempt, GiveUp, StartSub, ExhaustedSub
<1>6. CASE EndChunk \/ AbsorbError \/ FailRun \/ Abort
  BY <1>6 DEF EndChunk, AbsorbError, FailRun, Abort
<1>7. CASE Reconcile \/ EndReconcile \/ RevisitLine \/ DecideLine \/ SettleChunk
  BY <1>7 DEF Reconcile, EndReconcile, RevisitLine, DecideLine, SettleChunk
<1>8. CASE Stopped \/ UNCHANGED vars
  BY <1>8 DEF Stopped, vars
<1> QED BY <1>1, <1>2, <1>3, <1>4, <1>5, <1>6, <1>7, <1>8 DEF Next, Work

LEMMA StepAhead ==
  ASSUME DecisionsInv, [Next]_vars
  PROVE  Ahead'
<1>0. TypeOK /\ Ahead
  BY DEF DecisionsInv
<1>1. \A k \in InitLinks : Crosses(k) => k \in links'
  BY <1>0, StepLinks DEF Ahead
<1>2. ASSUME NEW l \in Lines, PageOf[l] > page' \/ (pc' = "page" /\ PageOf[l] = page'),
             ~IsPending(l)'
      PROVE  AtPageBreak(l)
  <2>0. page \in Nat /\ PageOf[l] \in Nat
    BY <1>0, LinesAssumption DEF TypeOK
  <2>1. PageOf[l] > page \/ (pc = "page" /\ PageOf[l] = page)
    BY <1>2, <2>0, StepLinks
  <2>2. CASE line'[l] = line[l]
    BY <1>0, <1>2, <2>1, <2>2 DEF Ahead, IsPending
  <2>3. CASE line'[l] # line[l]
    <3>1. page' = page /\ l \in Reach
      BY <2>3, StepLinks, StepMoves
    <3>2. CASE PageOf[l] # page
      <4>1. PICK m \in LinesOn(page) : l \in Partners(m, links)
        BY <3>1, <3>2 DEF Reach, LinesOn, CrossPartners
      <4>2. \/ <<l, m>> \in InitLinks /\ Crosses(<<l, m>>)
            \/ <<m, l>> \in InitLinks /\ Crosses(<<m, l>>)
        BY <1>0, <3>2, <4>1 DEF Partners, Crosses, LinesOn, TypeOK
      <4> QED BY <4>2 DEF AtPageBreak
    <3>3. CASE PageOf[l] = page
      <4>1. pc = "page" /\ pc' = "page"
        BY <1>2, <2>0, <2>1, <3>1, <3>3
      <4>2. UNCHANGED line
        BY <4>1 DEF Next, Work, StartPage, DropChunk, StartChunk, EndPage, ReplyAccepted,
             PairsSettled, RetryAttempt, Descend, GiveUp, StartSub, ExhaustedSub, EndChunk,
             AbsorbError, Reconcile, EndReconcile, RevisitLine, DecideLine, SettleChunk,
             FailRun, Abort, Stopped, vars, document
      <4> QED BY <2>3, <4>2
    <3> QED BY <3>2, <3>3
  <2> QED BY <2>2, <2>3
<1> QED BY <1>1, <1>2 DEF Ahead, AtPageBreak, Crosses

\* A move keeps I-1 and never puts a line under review.
LEMMA MoveKeeps ==
  ASSUME NEW d \in LD!Decision, NEW e \in LD!Decision, Move(d, e),
         d.reason # "none" <=> d.status = "fallback",
         d.status = "fallback" => d.text = "ocr",
         d.text = "none" <=> d.status = "pending",
         d.status # "review"
  PROVE  /\ e.reason # "none" <=> e.status = "fallback"
         /\ e.status = "fallback" => e.text = "ocr"
         /\ e.text = "none" <=> e.status = "pending"
         /\ e.status # "review"
         /\ LD!Becomes(d, e)
<1> USE DEF LD!Decision, LD!Statuses, LD!Texts, LD!Becomes
<1>1. CASE e = d
  BY <1>1
<1>2. CASE \E t \in LD!Texts : d.status \in {"pending", "corrected"} /\ e = LD!Accepted(d, t)
  BY <1>2 DEF LD!Accepted
<1>3. CASE \E why \in Reasons : e = LD!Fallen(d, why)
  <2>1. "none" \notin Reasons
    BY DEF Reasons
  <2> QED BY <1>3, <2>1 DEF LD!Fallen
<1> QED BY <1>1, <1>2, <1>3 DEF Move

LEMMA StepDecisions == DecisionsInv /\ [Next]_vars => DecisionsInv' /\ [LD!Next]_line
<1> SUFFICES ASSUME DecisionsInv, [Next]_vars PROVE DecisionsInv' /\ LD!Next
  OBVIOUS
<1>1. TypeOK' /\ Scope' /\ Ahead'
  BY StepTyped, StepScope, StepAhead DEF DecisionsInv
<1>2. ASSUME NEW l \in Lines
      PROVE  /\ line'[l].reason # "none" <=> line'[l].status = "fallback"
             /\ line'[l].status = "fallback" => line'[l].text = "ocr"
             /\ line'[l].text = "none" <=> line'[l].status = "pending"
             /\ line'[l].status # "review"
             /\ LD!Becomes(line[l], line'[l])
  <2>1. line[l] \in LD!Decision /\ line'[l] \in LD!Decision
    BY <1>1 DEF DecisionsInv, TypeOK
  <2>2. Move(line[l], line'[l])
    BY StepMoves
  <2>3. /\ line[l].reason # "none" <=> line[l].status = "fallback"
        /\ line[l].status = "fallback" => line[l].text = "ocr"
        /\ line[l].text = "none" <=> line[l].status = "pending"
        /\ line[l].status # "review"
    BY DEF DecisionsInv, FallenIsSource, LD!FallenIsSource, NoReview
  <2> QED BY <2>1, <2>2, <2>3, MoveKeeps
<1>3. FallenIsSource' /\ NoReview'
  BY <1>2 DEF FallenIsSource, LD!FallenIsSource, NoReview
<1>4. LD!Next
  BY <1>1, <1>2 DEF LD!Next, TypeOK
<1> QED BY <1>1, <1>3, <1>4 DEF DecisionsInv

LEMMA InitDecisions == Init => DecisionsInv /\ LD!Init
<1> SUFFICES ASSUME Init PROVE DecisionsInv /\ LD!Init
  OBVIOUS
<1>1. TypeOK
  BY InitTyped
<1>2. Scope /\ Ahead
  BY DEF Init, Scope, Ahead, OnPage, InChunk, IsPending, LD!Undecided
<1>3. NoReview /\ FallenIsSource /\ LD!Init
  BY DEF Init, NoReview, FallenIsSource, LD!FallenIsSource, LD!Init, LD!Undecided
<1> QED BY <1>1, <1>2, <1>3 DEF DecisionsInv

LEMMA DecisionsInvariant == Spec => []DecisionsInv
BY InitDecisions, StepDecisions, PTL DEF Spec

\* I-1 through every pass of the page loop: a line carries a fallback reason exactly
\* when it fell back, and then holds its source text.
THEOREM FallenHoldSource == Spec => []FallenIsSource
BY DecisionsInvariant, PTL DEF DecisionsInv

\* The page loop implements the decision discipline of core/decide.py: no line that
\* fell is ever accepted again, by the reconciler, the router or stage C, and the
\* first reason stays.
THEOREM DriverImplementsDecisions == Spec => DecisionsHold
<1>1. Spec => LD!Init /\ [][LD!Next]_line
  BY InitDecisions, StepDecisions, DecisionsInvariant, PTL DEF Spec
<1> QED BY <1>1, PTL DEF DecisionsHold, LD!Spec

----
(***************************************************************************)
(* No line is left in limbo: whatever ends a top-level chunk, all its      *)
(* targets are decided, and a page ends with all its lines decided.        *)
(*                                                                         *)
(* An undecided line of the page is always somebody's: it waits in the     *)
(* queue, in what is left of the current descent, among the targets of the *)
(* chunk being attempted, or among those stage C has not reached yet.      *)
(***************************************************************************)

\* A chunk of q decides l.
Awaits(q, l) == \E i \in DOMAIN q : l \in q[i].targets

TopCovered ==
  \A l \in top : IsPending(l) =>
    /\ pc \in {"attempt", "reconcile"} => l \in cur.targets \/ Awaits(work, l)
    /\ pc = "accept" => l \in todo \/ Awaits(work, l)
    /\ pc = "sub" => Awaits(work, l)

PageCovered ==
  \A l \in LinesOn(page) : IsPending(l) =>
    /\ pc = "chunk" => Awaits(queue, l)
    /\ pc \in InChunk \cup {"sub"} => l \in top \/ Awaits(queue, l)
    /\ pc # "done"

PastDecided ==
  /\ \A l \in Lines : PageOf[l] < page => ~IsPending(l)
  /\ pc = "done" => page = NPages

LimboInv == DecisionsInv /\ TopCovered /\ PageCovered /\ PastDecided

LEMMA AwaitsTail ==
  ASSUME NEW q \in Seq(Chunks), q # <<>>, NEW l, Awaits(q, l)
  PROVE  l \in Head(q).targets \/ Awaits(Tail(q), l)
<1>1. PICK i \in DOMAIN q : l \in q[i].targets
  BY DEF Awaits
<1>2. Len(q) \in Nat /\ DOMAIN q = 1 .. Len(q)
  BY LenProperties
<1>3. CASE i = 1
  BY <1>1, <1>3, HeadTailProperties
<1>4. CASE i # 1
  <2>1. i - 1 \in DOMAIN Tail(q) /\ Tail(q)[i - 1] = q[i]
    BY <1>1, <1>2, <1>4, HeadTailProperties, LenProperties
  <2> QED BY <1>1, <2>1 DEF Awaits
<1> QED BY <1>3, <1>4

LEMMA AwaitsConcat ==
  ASSUME NEW p \in Seq(Chunks), NEW q \in Seq(Chunks), NEW l, Awaits(p, l) \/ Awaits(q, l)
  PROVE  Awaits(p \o q, l)
<1>1. /\ Len(p) \in Nat /\ DOMAIN p = 1 .. Len(p)
      /\ Len(q) \in Nat /\ DOMAIN q = 1 .. Len(q)
      /\ DOMAIN (p \o q) = 1 .. Len(p) + Len(q)
  BY ConcatProperties, LenProperties
<1>2. CASE Awaits(p, l)
  <2>1. PICK i \in DOMAIN p : l \in p[i].targets
    BY <1>2 DEF Awaits
  <2>2. i \in DOMAIN (p \o q) /\ (p \o q)[i] = p[i]
    BY <1>1, ConcatProperties
  <2> QED BY <2>1, <2>2 DEF Awaits
<1>3. CASE Awaits(q, l)
  <2>1. PICK i \in DOMAIN q : l \in q[i].targets
    BY <1>3 DEF Awaits
  <2>2. Len(p) + i \in DOMAIN (p \o q) /\ (p \o q)[Len(p) + i] = q[i]
    BY <1>1, ConcatProperties
  <2> QED BY <2>1, <2>2 DEF Awaits
<1> QED BY <1>2, <1>3

\* The router's work items lose no target but the skipped ones.
LEMMA WorkItemsCover ==
  ASSUME NEW chunks \in Seq(Chunks), NEW skip, NEW escalate,
         NEW l, l \notin skip, Awaits(chunks, l)
  PROVE  Awaits(WorkItems(chunks, skip, escalate), l)
<1> DEFINE items == WorkItems(chunks, skip, escalate)
<1>1. PICK i \in DOMAIN chunks : l \in chunks[i].targets
  BY DEF Awaits
<1>2. Len(chunks) \in Nat /\ DOMAIN chunks = 1 .. Len(chunks) /\ chunks[i] \in Chunks
  BY LenProperties, ElementOfSeq
<1>3. DOMAIN items = 1 .. 2 * Len(chunks)
  BY DEF WorkItems
<1>4. CASE l \in escalate
  <2>1. 2 * i \in DOMAIN items /\ (2 * i + 1) \div 2 = i /\ (2 * i) % 2 # 1
    BY <1>2, <1>3
  <2>2. items[2 * i] = [chunks[i] EXCEPT !.targets = (@ \ skip) \cap escalate]
    BY <1>3, <2>1 DEF WorkItems
  <2>3. l \in items[2 * i].targets
    BY <1>1, <1>2, <1>4, <2>2 DEF Chunks
  <2> QED BY <2>1, <2>3 DEF Awaits
<1>5. CASE l \notin escalate
  <2>1. 2 * i - 1 \in DOMAIN items /\ (2 * i - 1 + 1) \div 2 = i /\ (2 * i - 1) % 2 = 1
    BY <1>2, <1>3
  <2>2. items[2 * i - 1] = [chunks[i] EXCEPT !.targets = @ \ (skip \cup escalate)]
    BY <1>3, <2>1 DEF WorkItems
  <2>3. l \in items[2 * i - 1].targets
    BY <1>1, <1>2, <1>5, <2>2 DEF Chunks
  <2> QED BY <2>1, <2>3 DEF Awaits
<1> QED BY <1>4, <1>5

LEMMA VerbsStatus ==
  ASSUME NEW d \in LD!Decision
  PROVE  \A t, why : /\ LD!Accepted(d, t).status = "corrected"
                     /\ LD!Fallen(d, why).status = "fallback"
BY DEF LD!Accepted, LD!Fallen, LD!Decision

\* A decided line stays decided.
LEMMA StaysDecided ==
  ASSUME DecisionsInv, [Next]_vars, NEW l \in Lines, IsPending(l)'
  PROVE  IsPending(l)
<1>1. Move(line[l], line'[l]) /\ line[l] \in LD!Decision
  BY StepMoves DEF DecisionsInv, TypeOK
<1>2. line'[l].status = "pending"
  BY DEF IsPending
<1>3. line'[l] = line[l]
  BY <1>1, <1>2, VerbsStatus DEF Move
<1> QED BY <1>2, <1>3 DEF IsPending

\* A line of a set that falls back is decided.
LEMMA FallenDecided ==
  ASSUME NEW S, NEW why, line' = FallBack(S, why), NEW l \in Lines, l \in S
  PROVE  ~IsPending(l)'
BY DEF FallBack, IsPending, LD!Fallen

LEMMA SeedsContained == \A S : S \subseteq UnitsContaining(S, Pool, links)
BY DEF UnitsContaining

LEMMA StepLimbo ==
  ASSUME LimboInv, [Next]_vars
  PROVE  TopCovered' /\ PageCovered' /\ PastDecided'
<1> USE DEF control, finish, document, InChunk
<1>0. /\ DecisionsInv /\ TypeOK /\ Scope /\ TopCovered /\ PageCovered /\ PastDecided
      /\ \A l \in Lines : IsPending(l)' => IsPending(l)
  BY StaysDecided DEF LimboInv, DecisionsInv
<1>90. /\ queue \in Seq(Chunks) /\ work \in Seq(Chunks) /\ cur \in Chunks
      /\ top \subseteq Lines /\ page \in 1 .. NPages /\ LinesOn(page) \subseteq Lines
  BY <1>0 DEF TypeOK, LinesOn
<1>91. ASSUME UNCHANGED page, pc' # "done" \/ pc = "done" PROVE PastDecided'
  BY <1>0, <1>91 DEF PastDecided
<1>1. CASE StartPage
  <2> DEFINE plan == PlanOf("AUTO", LinesOn(page), links)
  <2>1. PlanContract(LinesOn(page), links, plan)
    BY <1>0, PlanHonoured DEF TypeOK, LinesOn
  <2>2. UNCHANGED page /\ pc' = "chunk"
    BY <1>1 DEF StartPage
  <2>3. ASSUME NEW l \in LinesOn(page), IsPending(l)' PROVE Awaits(queue', l)
    <3>1. Awaits(plan.chunks, l) /\ plan.chunks \in Seq(Chunks)
      BY <2>1 DEF PlanContract, Awaits
    <3>2. CASE ~Routing
      BY <1>1, <3>1, <3>2 DEF StartPage
    <3>3. CASE Routing
      <4>1. PICK tier : /\ queue' = WorkItems(plan.chunks, Skipped(tier), Escalated(tier))
                        /\ line' = [m \in Lines |-> IF m \in Skipped(tier)
                                                    THEN LD!Accepted(line[m], "ocr")
                                                    ELSE line[m]]
        BY <1>1, <3>3 DEF StartPage
      <4>2. l \notin Skipped(tier)
        <5> SUFFICES ASSUME l \in Skipped(tier) PROVE FALSE
          OBVIOUS
        <5>1. line'[l] = LD!Accepted(line[l], "ocr") /\ line[l] \in LD!Decision
          BY <1>0, <1>90, <4>1 DEF TypeOK
        <5> QED BY <2>3, <5>1 DEF IsPending, LD!Accepted, LD!Decision
      <4> QED BY <3>1, <4>1, <4>2, WorkItemsCover
    <3> QED BY <3>2, <3>3
  <2>4. PageCovered'
    BY <2>2, <2>3 DEF PageCovered, LinesOn
  <2> QED BY <1>91, <2>2, <2>4 DEF TopCovered
<1>2. CASE DropChunk
  <2>1. Head(queue).targets = {}
    BY <1>0, <1>90, <1>2, OnPageTail DEF DropChunk, Scope
  <2>2. PageCovered'
    BY <1>0, <1>90, <1>2, <2>1, AwaitsTail DEF DropChunk, PageCovered, LinesOn
  <2> QED BY <1>91, <1>2, <2>2 DEF DropChunk, TopCovered
<1>3. CASE StartChunk
  <2>1. PageCovered'
    BY <1>0, <1>90, <1>3, AwaitsTail DEF StartChunk, PageCovered, LinesOn
  <2> QED BY <1>91, <1>3, <2>1 DEF StartChunk, TopCovered
<1>4. CASE EndPage
  <2>1. \A l \in LinesOn(page) : ~IsPending(l)
    BY <1>0, <1>4 DEF EndPage, PageCovered, Awaits
  <2>2. \A l \in Lines : PageOf[l] <= page => ~IsPending(l)'
    <3> SUFFICES ASSUME NEW l \in Lines, PageOf[l] <= page PROVE ~IsPending(l)
      BY <1>0
    <3>1. PageOf[l] = page \/ PageOf[l] < page
      BY <1>90, LinesAssumption
    <3> QED BY <1>0, <2>1, <3>1 DEF PastDecided, LinesOn
  <2>3. CASE page = NPages
    <3>1. pc' = "done" /\ page' = page
      BY <1>4, <2>3 DEF EndPage
    <3> QED BY <1>90, <2>2, <2>3, <3>1, LinesAssumption DEF TopCovered, PageCovered, PastDecided, LinesOn
  <2>4. CASE page # NPages
    <3>1. pc' = "page" /\ page' = page + 1
      BY <1>4, <2>4 DEF EndPage
    <3> QED BY <1>90, <2>2, <3>1, LinesAssumption DEF TopCovered, PageCovered, PastDecided
  <2> QED BY <2>3, <2>4
<1>5. CASE ReplyAccepted \/ PairsSettled
  <2>1. /\ UNCHANGED <<page, queue, work, top, cur, line>> /\ pc = "attempt" /\ pc' = "reconcile"
    BY <1>5 DEF ReplyAccepted, PairsSettled, BeginFinish
  <2> QED BY <1>0, <1>91, <2>1 DEF TopCovered, PageCovered, IsPending, LinesOn
<1>6. CASE RetryAttempt
  BY <1>0, <1>91, <1>6 DEF RetryAttempt, TopCovered, PageCovered, IsPending, LinesOn
<1>7. CASE Descend
  <2> DEFINE plan == PlanOf(Finer(cur.grain), DescentLines, links)
  <2>1. cur.grain \in Grains /\ DescentLines \subseteq Lines
    BY <1>90 DEF Chunks, DescentLines
  <2>2. PlanContract(DescentLines, links, plan)
    BY <1>0, <1>7, <2>1, PlanHonoured, FinerIsGrain DEF Descend, TypeOK
  <2>3. /\ UNCHANGED <<page, queue, top, line>> /\ work' = plan.chunks \o work
        /\ pc = "attempt" /\ pc' = "sub"
    BY <1>7 DEF Descend
  <2>4. ASSUME NEW l \in top, IsPending(l) PROVE Awaits(work', l)
    <3>1. l \in cur.targets \/ Awaits(work, l)
      BY <1>0, <2>3, <2>4 DEF TopCovered
    <3>2. l \in cur.targets => Awaits(plan.chunks, l)
      BY <2>2 DEF PlanContract, DescentLines, Awaits
    <3>3. plan.chunks \in Seq(Chunks)
      BY <2>2 DEF PlanContract
    <3> QED BY <1>90, <2>3, <3>1, <3>2, <3>3, AwaitsConcat
  <2> QED BY <1>0, <1>91, <2>3, <2>4 DEF TopCovered, PageCovered, IsPending, LinesOn
<1>8. CASE GiveUp
  <2>1. /\ UNCHANGED <<page, queue, work, top>> /\ pc = "attempt" /\ pc' = "sub"
    BY <1>8 DEF GiveUp
  <2>2. \A l \in Lines : l \in cur.targets => ~IsPending(l)'
    BY <1>8, FallenDecided, SeedsContained DEF GiveUp, FallenChunk
  <2> QED BY <1>0, <1>90, <1>91, <2>1, <2>2 DEF TopCovered, PageCovered, LinesOn
<1>9. CASE StartSub
  <2>1. /\ UNCHANGED <<page, queue, top, line>> /\ pc = "sub" /\ pc' = "attempt"
        /\ work # <<>> /\ cur' = Head(work) /\ work' = Tail(work)
    BY <1>9 DEF StartSub
  <2>2. TopCovered'
    BY <1>0, <1>90, <2>1, AwaitsTail DEF TopCovered, IsPending
  <2> QED BY <1>0, <1>91, <2>1, <2>2 DEF PageCovered, IsPending, LinesOn
<1>10. CASE ExhaustedSub
  <2>1. /\ UNCHANGED <<page, queue, top, pc>> /\ pc = "sub" /\ work # <<>> /\ work' = Tail(work)
    BY <1>10 DEF ExhaustedSub
  <2>2. \A l \in Lines : l \in Head(work).targets => ~IsPending(l)'
    BY <1>10, FallenDecided, SeedsContained DEF ExhaustedSub, FallenChunk
  <2>3. TopCovered'
    BY <1>0, <1>90, <2>1, <2>2, AwaitsTail DEF TopCovered
  <2> QED BY <1>0, <1>90, <1>91, <2>1, <2>3 DEF PageCovered, LinesOn
<1>11. CASE EndChunk
  <2>1. /\ UNCHANGED <<page, queue, work, top, line>> /\ pc = "sub" /\ pc' = "chunk"
        /\ work = <<>>
    BY <1>11 DEF EndChunk
  <2>2. \A l \in top : ~IsPending(l)
    BY <1>0, <2>1 DEF TopCovered, Awaits
  <2> QED BY <1>0, <1>91, <2>1, <2>2 DEF TopCovered, PageCovered, IsPending, LinesOn
<1>12. CASE AbsorbError
  <2>1. /\ UNCHANGED <<page, queue, top>> /\ pc' = "sub" /\ pc = "attempt"
    BY <1>12 DEF AbsorbError
  <2>2. \A l \in top : ~IsPending(l)'
    <3> SUFFICES ASSUME NEW l \in top, IsPending(l) PROVE ~IsPending(l)'
      BY <1>0, <1>90
    <3>1. l \in UnitsContaining(Limbo, Pool, links)
      BY SeedsContained DEF Limbo
    <3> QED BY <1>12, <1>90, <3>1, FallenDecided DEF AbsorbError
  <2> QED BY <1>0, <1>90, <1>91, <2>1, <2>2 DEF TopCovered, PageCovered, LinesOn
<1>13. CASE Reconcile
  <2>1. /\ UNCHANGED <<page, queue, work, top, pc, cur>> /\ pc = "reconcile"
    BY <1>13 DEF Reconcile
  <2> QED BY <1>0, <1>90, <1>91, <2>1 DEF TopCovered, PageCovered, LinesOn
<1>14. CASE EndReconcile
  <2>1. /\ UNCHANGED <<page, queue, work, top, line>> /\ pc = "reconcile" /\ pc' = "accept"
        /\ todo' = cur.targets
    BY <1>14 DEF EndReconcile
  <2> QED BY <1>0, <1>91, <2>1 DEF TopCovered, PageCovered, IsPending, LinesOn
<1>15. CASE RevisitLine
  <2>1. /\ UNCHANGED <<page, queue, work, top, line, pc>> /\ pc = "accept"
        /\ todo' = todo \ {NextLine} /\ ~IsPending(NextLine)
    BY <1>15 DEF RevisitLine
  <2> QED BY <1>0, <1>91, <2>1 DEF TopCovered, PageCovered, IsPending, LinesOn
<1>16. CASE DecideLine
  <2>1. /\ UNCHANGED <<page, queue, work, top, pc>> /\ pc = "accept"
        /\ todo' = todo \ {NextLine}
    BY <1>16 DEF DecideLine
  <2>2. NextLine \in Lines /\ line[NextLine] \in LD!Decision
    BY <1>0, <1>16, NextLineLeft DEF DecideLine, TypeOK
  <2>3. line'[NextLine].status \in {"corrected", "fallback"}
    <3>1. \/ \E t : line'[NextLine] = LD!Accepted(line[NextLine], t)
          \/ \E why : line'[NextLine] = LD!Fallen(line[NextLine], why)
      BY <1>0, <1>16, <2>2 DEF DecideLine, TypeOK
    <3> QED BY <2>2, <3>1, VerbsStatus
  <2>4. ASSUME NEW l \in Lines, IsPending(l)' PROVE l # NextLine
    BY <2>3, <2>4 DEF IsPending
  <2> QED BY <1>0, <1>90, <1>91, <2>1, <2>4 DEF TopCovered, PageCovered, LinesOn
<1>17. CASE SettleChunk
  <2>1. /\ UNCHANGED <<page, queue, work, top>> /\ pc = "accept" /\ pc' = "sub" /\ todo = {}
    BY <1>17 DEF SettleChunk
  <2> QED BY <1>0, <1>90, <1>91, <2>1 DEF TopCovered, PageCovered, LinesOn
<1>18. CASE FailRun \/ Abort
  <2>1. UNCHANGED <<page, line>> /\ pc' \in {"failed", "aborted"}
    BY <1>18 DEF FailRun, Abort
  <2> QED BY <1>91, <2>1 DEF TopCovered, PageCovered
<1>19. CASE Stopped \/ UNCHANGED vars
  BY <1>0, <1>91, <1>19 DEF Stopped, vars, TopCovered, PageCovered, IsPending, LinesOn
<1> QED
  BY <1>1, <1>2, <1>3, <1>4, <1>5, <1>6, <1>7, <1>8, <1>9, <1>10, <1>11, <1>12, <1>13,
     <1>14, <1>15, <1>16, <1>17, <1>18, <1>19 DEF Next, Work

LEMMA InitLimbo == Init => LimboInv
<1> SUFFICES ASSUME Init PROVE LimboInv
  OBVIOUS
<1>1. DecisionsInv
  BY InitDecisions
<1>2. TopCovered /\ PageCovered
  BY DEF Init, TopCovered, PageCovered, InChunk
<1>3. PastDecided
  BY LinesAssumption DEF Init, PastDecided
<1> QED BY <1>1, <1>2, <1>3 DEF LimboInv

LEMMA LimboCovers == LimboInv => NoLimbo
<1> SUFFICES ASSUME LimboInv PROVE NoLimbo
  OBVIOUS
<1>1. pc = "sub" /\ work = <<>> => \A l \in top : ~IsPending(l)
  BY DEF LimboInv, TopCovered, Awaits
<1>2. ASSUME NEW l \in Lines, PageOf[l] < page \/ pc = "done" PROVE ~IsPending(l)
  <2>1. CASE PageOf[l] < page
    BY <2>1 DEF LimboInv, PastDecided
  <2>2. CASE pc = "done" /\ ~ (PageOf[l] < page)
    <3>1. page = NPages /\ PageOf[l] = page
      BY <2>2, LinesAssumption DEF LimboInv, PastDecided
    <3> QED BY <2>2, <3>1 DEF LimboInv, PageCovered, LinesOn
  <2> QED BY <1>2, <2>1, <2>2
<1> QED BY <1>1, <1>2 DEF NoLimbo

\* Whatever ends a top-level chunk (its finish, its fallback, an empty purse, an
\* absorbed error), its targets are decided; a page, and so the run, never goes on
\* with an undecided line behind it.  For every planner that honours PlanContract.
THEOREM NothingInLimbo == Spec => []NoLimbo
<1>1. LimboInv /\ [Next]_vars => LimboInv'
  BY StepLimbo, StepDecisions DEF LimboInv
<1>2. Spec => []LimboInv
  BY <1>1, InitLimbo, PTL DEF Spec
<1> QED BY <1>2, LimboCovers, PTL

----
\* The words the loop decides: a consequence is never reported without its cause, a
\* chunk decides nothing but its own words, a correction is the producer's answer for
\* its line, and a word on two lines falls whole or stands whole.

\* A line that fell has a unit member that fell for a reason of its own.
LEMMA FallenHasCause ==
  ASSUME CauseReported, FallenIsSource, NEW l \in Lines,
         NEW m \in UnitOf(l, Lines, InitLinks), IsFallen(m)
  PROVE  \E c \in UnitOf(l, Lines, InitLinks) : IsFallen(c) /\ line[c].reason \notin Consequence
<1>1. m \in Lines
  BY DEF UnitOf
<1>2. CASE line[m].reason \notin Consequence
  BY <1>2
<1>3. CASE line[m].reason \in Consequence
  <2>1. UnitOf(m, Lines, InitLinks) = UnitOf(l, Lines, InitLinks)
    BY MembersShareUnit
  <2> QED BY <1>1, <1>3, <2>1 DEF CauseReported
<1> QED BY <1>2, <1>3

\* A line that fell keeps its reason.
LEMMA FallenKept ==
  ASSUME DecisionsInv, [Next]_vars, NEW l \in Lines, IsFallen(l)
  PROVE  line'[l] = line[l]
<1>1. Move(line[l], line'[l]) /\ line[l] \in LD!Decision
  BY StepMoves DEF DecisionsInv, TypeOK
<1>2. line[l].reason # "none" /\ line[l].status = "fallback" /\ line[l].text = "ocr"
  BY DEF IsFallen, DecisionsInv, FallenIsSource, LD!FallenIsSource
<1>3. \A why : LD!Fallen(line[l], why) = line[l]
  BY <1>1, <1>2 DEF LD!Fallen, LD!Decision
<1> QED BY <1>1, <1>2, <1>3 DEF Move

\* It is enough to look at the lines a step first gives a consequence to: a member of
\* their unit had fallen, or falls in the step for a reason of its own.
LEMMA CauseStep ==
  ASSUME DecisionsInv, CauseReported, [Next]_vars,
         \A l \in Lines : line'[l].reason \in Consequence /\ line[l].reason \notin Consequence =>
           \E m \in UnitOf(l, Lines, InitLinks) :
             IsFallen(m) \/ (IsFallen(m)' /\ line'[m].reason \notin Consequence)
  PROVE  CauseReported'
<1> SUFFICES ASSUME NEW l \in Lines, line'[l].reason \in Consequence
             PROVE  \E m \in UnitOf(l, Lines, InitLinks) :
                      IsFallen(m)' /\ line'[m].reason \notin Consequence
  BY DEF CauseReported, Consequence
<1>0. FallenIsSource
  BY DEF DecisionsInv
<1>1. ASSUME NEW m \in UnitOf(l, Lines, InitLinks), IsFallen(m)
      PROVE  \E c \in UnitOf(l, Lines, InitLinks) :
               IsFallen(c)' /\ line'[c].reason \notin Consequence
  <2>1. PICK c \in UnitOf(l, Lines, InitLinks) : IsFallen(c) /\ line[c].reason \notin Consequence
    BY <1>0, <1>1, FallenHasCause
  <2>2. c \in Lines
    BY DEF UnitOf
  <2>3. line'[c] = line[c]
    BY <2>1, <2>2, FallenKept
  <2> QED BY <2>1, <2>3 DEF IsFallen
<1>2. CASE line[l].reason \in Consequence
  <2>1. line[l].reason # "none"
    BY <1>2 DEF Consequence
  <2>2. IsFallen(l) /\ l \in UnitOf(l, Lines, InitLinks)
    BY <1>0, <2>1, UnitHoldsItsLine DEF FallenIsSource, LD!FallenIsSource, IsFallen
  <2> QED BY <1>1, <2>2
<1>3. CASE line[l].reason \notin Consequence
  <2>1. PICK m \in UnitOf(l, Lines, InitLinks) :
          IsFallen(m) \/ (IsFallen(m)' /\ line'[m].reason \notin Consequence)
    BY <1>3
  <2> QED BY <1>1, <2>1
<1> QED BY <1>2, <1>3

\* A line a fallback pulls down with its unit has in it a seed of that fallback.
LEMMA PulledHasCause ==
  ASSUME DecisionsInv, NEW seeds \in SUBSET Lines, NEW all, NEW why, NEW l \in Lines,
         line' = FallBack(all, why), UnitsContaining(seeds, Pool, links) \subseteq all,
         \A r \in all : r \in seeds \/ r \notin UnitsContaining(seeds, Pool, links) =>
                          why[r] \notin Consequence,
         line'[l].reason \in Consequence, line[l].reason \notin Consequence
  PROVE  \E m \in UnitOf(l, Lines, InitLinks) :
           IsFallen(m) \/ (IsFallen(m)' /\ line'[m].reason \notin Consequence)
<1>0. TypeOK /\ FallenIsSource
  BY DEF DecisionsInv
<1>1. l \in all /\ line'[l] = LD!Fallen(line[l], why[l])
  BY DEF FallBack
<1>2. why[l] \in Consequence
  BY <1>1 DEF LD!Fallen
<1>3. l \in UnitsContaining(seeds, Pool, links) /\ l \notin seeds
  BY <1>1, <1>2
<1>4. PICK r \in seeds \cap Pool : l \in UnitOf(r, Pool, links)
  BY <1>3 DEF UnitsContaining
<1>5. r \in UnitOf(l, Lines, InitLinks)
  <2>1. Pool \in SUBSET Lines /\ links \in SUBSET InitLinks
    BY <1>0 DEF Pool, LinesOn, CrossPartners, TypeOK
  <2>2. l \in UnitOf(r, Lines, InitLinks)
    BY <1>4, <2>1, UnitGrows
  <2> QED BY <2>2, UnitHoldsItsLine, MembersShareUnit
<1>6. r \in all /\ line'[r] = LD!Fallen(line[r], why[r]) /\ line[r] \in LD!Decision
  <2>1. r \in all /\ r \in Lines
    BY <1>4 DEF UnitsContaining
  <2> QED BY <1>0, <2>1 DEF FallBack, TypeOK
<1>7. CASE line[r].reason = "none"
  <2>1. line'[r].reason = why[r] /\ line'[r].status = "fallback"
    BY <1>6, <1>7 DEF LD!Fallen
  <2>2. why[r] \notin Consequence
    BY <1>6
  <2>3. IsFallen(r)' /\ line'[r].reason \notin Consequence
    BY <2>1, <2>2 DEF IsFallen
  <2> QED BY <1>5, <2>3
<1>8. CASE line[r].reason # "none"
  BY <1>0, <1>5, <1>8 DEF IsFallen, FallenIsSource, LD!FallenIsSource
<1> QED BY <1>7, <1>8

LEMMA VerbsReason ==
  ASSUME NEW d \in LD!Decision
  PROVE  \A t, why : /\ LD!Accepted(d, t).reason = d.reason
                     /\ LD!Fallen(d, why).reason \in {d.reason, why}
<1>1. \A t : LD!Accepted(d, t).reason = d.reason
  BY DEF LD!Accepted, LD!Decision
<1>2. \A why : LD!Fallen(d, why).reason \in {d.reason, why}
  BY DEF LD!Fallen
<1> QED BY <1>1, <1>2

\* The targets of an exhausted chunk fall for a reason of their own.
LEMMA OwnReason ==
  \A S \in SUBSET Lines : \A r \in S :
    ReasonFor(S, "all_attempts_exhausted", "hyphen_unit_fallback")[r] \notin Consequence
BY DEF ReasonFor, Consequence

LEMMA StepCause ==
  ASSUME DecisionsInv, CauseReported, [Next]_vars
  PROVE  CauseReported'
<1> USE DEF control, finish, document
<1>0. TypeOK /\ Scope /\ FallenIsSource
  BY DEF DecisionsInv
<1> SUFFICES ASSUME NEW l \in Lines, line'[l].reason \in Consequence,
                    line[l].reason \notin Consequence
             PROVE  \E m \in UnitOf(l, Lines, InitLinks) :
                      IsFallen(m) \/ (IsFallen(m)' /\ line'[m].reason \notin Consequence)
  BY CauseStep
<1>90. line[l] \in LD!Decision
  BY <1>0 DEF TypeOK
<1>1. ~UNCHANGED line
  OBVIOUS
<1>2. CASE StartPage
  <2>1. line'[l] = line[l] \/ line'[l] = LD!Accepted(line[l], "ocr")
    BY <1>2 DEF StartPage
  <2>2. line'[l].reason = line[l].reason
    BY <1>0, <2>1 DEF LD!Accepted, TypeOK, LD!Decision
  <2> QED BY <2>2
<1>3. CASE GiveUp
  <2>1. cur.targets \in SUBSET Lines
    BY <1>0 DEF TypeOK, Chunks
  <2>2. line' = FallBack(UnitsContaining(cur.targets, Pool, links),
                         ReasonFor(cur.targets, "all_attempts_exhausted", "hyphen_unit_fallback"))
    BY <1>3 DEF GiveUp, FallenChunk
  <2> QED BY <2>1, <2>2, OwnReason, PulledHasCause
<1>4. CASE ExhaustedSub
  <2>1. Head(work).targets \in SUBSET Lines
    BY <1>0, <1>4, TailOfChunks DEF ExhaustedSub, TypeOK, Chunks
  <2>2. line' = FallBack(UnitsContaining(Head(work).targets, Pool, links),
                         ReasonFor(Head(work).targets, "all_attempts_exhausted",
                                   "hyphen_unit_fallback"))
    BY <1>4 DEF ExhaustedSub, FallenChunk
  <2> QED BY <2>1, <2>2, OwnReason, PulledHasCause
<1>5. CASE AbsorbError
  <2>1. line'[l].reason \in {line[l].reason, "chunk_error_absorbed"}
    BY <1>5 DEF AbsorbError, FallBack, LD!Fallen
  <2> QED BY <2>1 DEF Consequence
<1>6. CASE Reconcile
  <2>1. line'[l].reason \in {line[l].reason, "hyphen_pair_fallback"}
    <3>1. \/ line'[l] = line[l]
          \/ \E t : line'[l] = LD!Accepted(line[l], t)
          \/ line'[l] = LD!Fallen(line[l], "hyphen_pair_fallback")
      BY <1>6 DEF Reconcile, FallBack
    <3> QED BY <1>90, <3>1, VerbsReason
  <2> QED BY <2>1 DEF Consequence
<1>7. CASE DecideLine
  <2>1. NextLine \in Lines
    BY <1>0, <1>7, NextLineLeft DEF DecideLine, TypeOK
  <2>2. \/ line'[l].reason \in {line[l].reason, "orphan_hyphen_completed", "guard_refused"}
        \/ l = NextLine /\ PartnerFell(l)
    <3>1. \/ line'[l] = line[l]
          \/ \E t : line'[l] = LD!Accepted(line[l], t)
          \/ line'[l] = LD!Fallen(line[l], "orphan_hyphen_completed")
          \/ line'[l] = LD!Fallen(line[l], "guard_refused")
          \/ l = NextLine /\ PartnerFell(l)
      BY <1>0, <1>7, <2>1 DEF DecideLine, TypeOK
    <3> QED BY <1>90, <3>1, VerbsReason
  <2>3. PICK m \in Partners(l, links) : IsFallen(m)
    BY <2>2 DEF Consequence, PartnerFell
  <2>4. m \in UnitOf(l, Lines, InitLinks)
    <3>1. PICK k \in InitLinks : {k[1], k[2]} = {l, m} /\ k[1] \in Lines /\ k[2] \in Lines
      BY <1>0, LinksAssumption DEF Partners, TypeOK
    <3> QED BY <3>1, LinkedUnitsEqual, UnitHoldsItsLine
  <2> QED BY <2>3, <2>4
<1>8. CASE SettleChunk
  <2> DEFINE units == UnitsContaining(reverts, Pool, links)
             why   == [r \in Lines |-> IF r \in reverts THEN "guard_refused"
                                       ELSE IF r \in units THEN "hyphen_unit_fallback"
                                       ELSE "pair_drift_fallback"]
  <2>1. reverts \in SUBSET Lines /\ neutral \subseteq Lines
    BY <1>0 DEF TypeOK
  <2>2. line' = FallBack(UnitsContaining(reverts, Pool, links) \cup neutral, why)
    BY <1>8 DEF SettleChunk
  <2>3. units \subseteq Lines
    BY <1>0, <2>1 DEF UnitsContaining, UnitOf, Pool, LinesOn, CrossPartners
  <2>4. \A r \in units \cup neutral : r \in reverts \/ r \notin units =>
          why[r] \notin Consequence
    BY <2>1, <2>3 DEF Consequence
  <2>5. units \subseteq units \cup neutral
    OBVIOUS
  <2> HIDE DEF why
  <2> QED BY <2>1, <2>2, <2>4, <2>5, PulledHasCause
<1> QED
  <2>1. ~ (ReplyAccepted \/ PairsSettled)
    BY <1>1 DEF ReplyAccepted, PairsSettled, BeginFinish
  <2>2. ~ (DropChunk \/ StartChunk \/ EndPage \/ RetryAttempt \/ Descend \/ StartSub)
    BY <1>1 DEF DropChunk, StartChunk, EndPage, RetryAttempt, Descend, StartSub
  <2>3. ~ (EndChunk \/ EndReconcile \/ RevisitLine \/ FailRun \/ Abort)
    BY <1>1 DEF EndChunk, EndReconcile, RevisitLine, FailRun, Abort
  <2>4. ~ (Stopped \/ UNCHANGED vars)
    BY <1>1 DEF Stopped, vars
  <2> QED BY <1>2, <1>3, <1>4, <1>5, <1>6, <1>7, <1>8, <2>1, <2>2, <2>3, <2>4 DEF Next, Work

LEMMA InitCause == Init => CauseReported
BY DEF Init, CauseReported, Consequence, LD!Undecided

\* The report tells a decision from its consequence: a line said to have fallen with
\* its unit or its partner has in its word a line that fell for a reason of its own,
\* for every planner and every producer.
THEOREM CausesAreReported == Spec => []CauseReported
BY InitCause, StepCause, DecisionsInvariant, PTL DEF Spec

----
\* What the running chunk may decide belongs to the top-level chunk it came from, or
\* to a unit of one of its targets.
Tops ==
  /\ pc \in InChunk \cup {"sub"} => \A i \in DOMAIN work : work[i].targets \subseteq top
  /\ pc \in InChunk => cur.targets \subseteq top
  /\ pc = "accept" => todo \subseteq cur.targets /\ reverts \subseteq cur.targets
  /\ pc \in {"reconcile", "accept"} => neutral \subseteq UnitsContaining(top, Lines, InitLinks)

\* The units of lines of the top-level chunk are among its units.
LEMMA TopUnits ==
  ASSUME TypeOK, NEW S \in SUBSET top
  PROVE  UnitsContaining(S, Pool, links) \subseteq UnitsContaining(top, Lines, InitLinks)
<1>1. Pool \in SUBSET Lines /\ links \in SUBSET InitLinks /\ top \subseteq Lines
  BY DEF Pool, LinesOn, CrossPartners, TypeOK
<1>2. \A l \in S \cap Pool : UnitOf(l, Pool, links) \subseteq UnitOf(l, Lines, InitLinks)
  BY <1>1, UnitGrows
<1> QED BY <1>1, <1>2 DEF UnitsContaining

\* So are both ends of a link at a line of the chunk.
LEMMA TopLinks ==
  ASSUME TypeOK, NEW k \in links, k[1] \in top \/ k[2] \in top
  PROVE  k[1] \in UnitsContaining(top, Lines, InitLinks) /\ k[2] \in UnitsContaining(top, Lines, InitLinks)
<1>1. k \in InitLinks /\ top \in SUBSET Lines /\ k[1] \in Lines /\ k[2] \in Lines
  BY LinksAssumption DEF TypeOK
<1>2. k[1] \in UnitsContaining(top, Lines, InitLinks) <=> k[2] \in UnitsContaining(top, Lines, InitLinks)
  BY <1>1, UnitsContainingClosed
<1> QED BY <1>2 DEF UnitsContaining

\* What is left of a sequence of chunks are its later chunks.
LEMMA TailIsLater ==
  ASSUME NEW q \in Seq(Chunks), q # <<>>
  PROVE  /\ 1 \in DOMAIN q /\ Head(q) = q[1]
         /\ \A i \in DOMAIN Tail(q) : Tail(q)[i] = q[i + 1] /\ i + 1 \in DOMAIN q /\ i + 1 # 1
BY HeadTailProperties, EmptySeq, LenProperties

\* A chunk of a concatenation comes from one of its parts.
LEMMA ConcatIsEither ==
  ASSUME NEW p \in Seq(Chunks), NEW q \in Seq(Chunks), NEW i \in DOMAIN (p \o q)
  PROVE  \/ i \in DOMAIN p /\ (p \o q)[i] = p[i]
         \/ i - Len(p) \in DOMAIN q /\ (p \o q)[i] = q[i - Len(p)] /\ i \notin DOMAIN p
BY ConcatProperties, LenProperties

LEMMA InitTops == Init => Tops
BY DEF Init, Tops, InChunk

LEMMA StepTops ==
  ASSUME DecisionsInv, Tops, [Next]_vars
  PROVE  Tops'
<1> USE DEF control, finish, document, InChunk
<1>0. TypeOK /\ Scope /\ queue \in Seq(Chunks) /\ work \in Seq(Chunks)
  BY DEF DecisionsInv, TypeOK
<1>1. CASE StartPage \/ DropChunk \/ EndPage \/ EndChunk \/ FailRun \/ Abort
  <2>1. pc' \in {"page", "chunk", "done", "failed", "aborted"}
    BY <1>0, <1>1 DEF StartPage, DropChunk, EndPage, EndChunk, FailRun, Abort
  <2> QED BY <2>1 DEF Tops
<1>2. CASE StartChunk
  <2>1. pc' = "attempt" /\ work' = <<>> /\ cur' = Head(queue) /\ top' = Head(queue).targets
    BY <1>0, <1>2 DEF StartChunk, Scope
  <2> QED BY <2>1 DEF Tops
<1>3. CASE ReplyAccepted \/ PairsSettled
  <2>1. PICK reply, away : /\ BeginFinish(reply, away)
                           /\ away \subseteq UnitsContaining(top, Lines, InitLinks)
    <3>1. CASE ReplyAccepted
      BY <3>1 DEF ReplyAccepted
    <3>2. CASE PairsSettled
      <4>1. cur.targets \subseteq top
        BY <3>2 DEF PairsSettled, Tops
      <4>2. \A x \in Refusable : x \subseteq UnitsContaining(top, Lines, InitLinks)
        BY <1>0, <4>1, TopLinks DEF Refusable
      <4>3. PICK refused, reply : refused \subseteq Refusable /\ BeginFinish(reply, UNION refused)
        BY <3>2 DEF PairsSettled
      <4> QED BY <4>2, <4>3
    <3> QED BY <1>3, <3>1, <3>2
  <2>2. pc = "attempt"
    BY <1>3 DEF ReplyAccepted, PairsSettled
  <2>3. UNCHANGED <<work, top, cur>> /\ pc' = "reconcile" /\ neutral' = away
    BY <2>1 DEF BeginFinish
  <2> QED BY <2>1, <2>2, <2>3 DEF Tops
<1>4. CASE RetryAttempt
  BY <1>4 DEF RetryAttempt, Tops
<1>5. CASE Descend
  <2> DEFINE plan == PlanOf(Finer(cur.grain), DescentLines, links)
  <2>1. cur.grain \in Grains /\ cur.targets \subseteq Lines
    BY <1>0 DEF TypeOK, Chunks
  <2>2. PlanContract(DescentLines, links, plan)
    BY <1>0, <1>5, <2>1, PlanHonoured, FinerIsGrain DEF Descend, TypeOK, DescentLines
  <2>3. plan.chunks \in Seq(Chunks) /\ \A i \in DOMAIN plan.chunks : plan.chunks[i].targets \subseteq cur.targets
    BY <2>2 DEF PlanContract, DescentLines
  <2>4. pc = "attempt" /\ pc' = "sub" /\ UNCHANGED top /\ work' = plan.chunks \o work
    BY <1>5 DEF Descend
  <2>5. cur.targets \subseteq top /\ \A i \in DOMAIN work : work[i].targets \subseteq top
    BY <2>4 DEF Tops
  <2> HIDE DEF plan
  <2>6. \A i \in DOMAIN work' : work'[i].targets \subseteq top
    BY <1>0, <2>3, <2>4, <2>5, ConcatIsEither
  <2> QED BY <2>4, <2>6 DEF Tops
<1>6. CASE GiveUp
  BY <1>6 DEF GiveUp, Tops
<1>7. CASE StartSub
  <2>1. /\ pc = "sub" /\ pc' = "attempt" /\ UNCHANGED top /\ work # <<>>
        /\ cur' = Head(work) /\ work' = Tail(work)
    BY <1>7 DEF StartSub
  <2> QED BY <1>0, <2>1, TailIsLater DEF Tops
<1>8. CASE ExhaustedSub
  <2>1. /\ pc = "sub" /\ pc' = "sub" /\ UNCHANGED top /\ work # <<>> /\ work' = Tail(work)
    BY <1>8 DEF ExhaustedSub
  <2> QED BY <1>0, <2>1, TailIsLater DEF Tops
<1>9. CASE AbsorbError
  <2>1. pc' = "sub" /\ work' = <<>>
    BY <1>9 DEF AbsorbError
  <2> QED BY <2>1 DEF Tops
<1>10. CASE Reconcile
  BY <1>10 DEF Reconcile, Tops
<1>11. CASE EndReconcile
  BY <1>0, <1>11 DEF EndReconcile, Tops, Scope
<1>12. CASE RevisitLine
  <2>1. NextLine \in todo
    BY <1>0, <1>12, NextLineLeft DEF RevisitLine, TypeOK
  <2> QED BY <1>12, <2>1 DEF RevisitLine, Tops
<1>13. CASE DecideLine
  BY <1>13 DEF DecideLine, Tops
<1>14. CASE SettleChunk
  BY <1>14 DEF SettleChunk, Tops
<1>15. CASE Stopped \/ UNCHANGED vars
  BY <1>15 DEF Stopped, vars, Tops
<1> QED
  BY <1>1, <1>2, <1>3, <1>4, <1>5, <1>6, <1>7, <1>8, <1>9, <1>10, <1>11, <1>12, <1>13,
     <1>14, <1>15 DEF Next, Work

LEMMA TopsInvariant == Spec => []Tops
BY InitTops, StepTops, DecisionsInvariant, PTL DEF Spec

\* A step of a running chunk decides lines of its units only.
LEMMA StepOwnUnits ==
  ASSUME DecisionsInv, Tops, [Next]_vars, ~AtRest, NEW l \in Lines, line'[l] # line[l]
  PROVE  l \in UnitsContaining(top, Lines, InitLinks)
<1> USE DEF control, finish, document, InChunk
<1>0. TypeOK /\ Scope
  BY DEF DecisionsInv
<1>1. ASSUME NEW S, NEW why, line' = FallBack(S, why) PROVE l \in S
  BY <1>1 DEF FallBack
<1>2. top \subseteq UnitsContaining(top, Lines, InitLinks)
  BY DEF UnitsContaining
<1>3. CASE GiveUp
  <2>1. cur.targets \in SUBSET top
    BY <1>3 DEF GiveUp, Tops
  <2> QED BY <1>0, <1>1, <1>3, <2>1, TopUnits DEF GiveUp, FallenChunk
<1>4. CASE ExhaustedSub
  <2>1. Head(work).targets \in SUBSET top
    BY <1>0, <1>4, TailIsLater DEF ExhaustedSub, Tops, TypeOK
  <2> QED BY <1>0, <1>1, <1>4, <2>1, TopUnits DEF ExhaustedSub, FallenChunk
<1>5. CASE AbsorbError
  <2>1. Limbo \in SUBSET top
    BY DEF Limbo
  <2> QED BY <1>0, <1>1, <1>5, <2>1, TopUnits DEF AbsorbError
<1>6. CASE Reconcile
  <2>1. FirstJoin \in joins /\ l \in {FirstJoin[1], FirstJoin[2]}
    BY <1>0, <1>6, FirstJoinLeft DEF Reconcile, FallBack, TypeOK
  <2>2. FirstJoin \in links /\ (FirstJoin[1] \in top \/ FirstJoin[2] \in top)
    BY <1>0, <1>6, <2>1 DEF Reconcile, Scope, Tops
  <2> QED BY <1>0, <2>1, <2>2, TopLinks
<1>7. CASE DecideLine
  <2>1. NextLine \in todo /\ l = NextLine
    BY <1>0, <1>7, NextLineLeft DEF DecideLine, TypeOK
  <2> QED BY <1>2, <1>7, <2>1 DEF DecideLine, Tops
<1>8. CASE SettleChunk
  <2>1. reverts \in SUBSET top /\ neutral \subseteq UnitsContaining(top, Lines, InitLinks)
    BY <1>8 DEF SettleChunk, Tops
  <2>2. l \in UnitsContaining(reverts, Pool, links) \cup neutral
    BY <1>1, <1>8 DEF SettleChunk
  <2> QED BY <1>0, <2>1, <2>2, TopUnits
<1> QED
  <2>1. ~ (ReplyAccepted \/ PairsSettled)
    BY DEF ReplyAccepted, PairsSettled, BeginFinish
  <2>2. ~ (StartPage \/ DropChunk \/ StartChunk \/ EndPage)
    BY DEF StartPage, DropChunk, StartChunk, EndPage, AtRest
  <2>3. ~ (RetryAttempt \/ Descend \/ StartSub \/ EndChunk \/ EndReconcile \/ RevisitLine)
    BY DEF RetryAttempt, Descend, StartSub, EndChunk, EndReconcile, RevisitLine
  <2>4. ~ (FailRun \/ Abort \/ Stopped \/ UNCHANGED vars)
    BY DEF FailRun, Abort, Stopped, vars
  <2> QED BY <1>3, <1>4, <1>5, <1>6, <1>7, <1>8, <2>1, <2>2, <2>3, <2>4 DEF Next, Work

\* A chunk decides its own words only: while a top-level chunk runs, through its
\* descents, its errors and its fallbacks, no line changes but its targets and the
\* lines a hyphen unit ties to them.
THEOREM ChunksDecideTheirOwn == Spec => OnlyOwnUnits
<1>1. DecisionsInv /\ Tops /\ [Next]_vars =>
        [~AtRest => \A l \in Lines : line'[l] # line[l] =>
                      l \in UnitsContaining(top, Lines, InitLinks)]_vars
  BY StepOwnUnits
<1> QED BY <1>1, DecisionsInvariant, TopsInvariant, PTL DEF Spec, OnlyOwnUnits


----
\* T holds a word of one page whole or not at all.
Whole(T, K) == \A k \in K : ~Crosses(k) => (k[1] \in T <=> k[2] \in T)

\* No line is a target of two chunks of q, and no word of two.
Apart(q, K) ==
  /\ \A i, j \in DOMAIN q : i # j => q[i].targets \cap q[j].targets = {}
  /\ \A i \in DOMAIN q : Whole(q[i].targets, K)

\* A line has one owner: among the chunks not yet started, those of the current
\* descent, and the chunk that runs.
Owned ==
  /\ Apart(queue, links) /\ Apart(work, links)
  /\ pc \in InChunk \cup {"sub"} => \A i \in DOMAIN queue : queue[i].targets \cap top = {}
  /\ pc \in InChunk => /\ Whole(cur.targets, links)
                       /\ \A i \in DOMAIN work : work[i].targets \cap cur.targets = {}
  /\ pc = "reconcile" => joins \subseteq JoinsOf(cur.targets)

\* The page of l is not started.
Unstarted(l) == PageOf[l] > page \/ (pc = "page" /\ PageOf[l] = page)

\* What waits for its owner has not been corrected.
Waits(l) == \/ Unstarted(l) \/ Awaits(queue, l) \/ Awaits(work, l)
            \/ pc = "attempt" /\ l \in cur.targets
Fresh == \A l \in Lines : Waits(l) => line[l].status # "corrected"

\* A correction is the producer's answer, at any time and not only between chunks.
Answered ==
  /\ \A l \in Lines : line[l].status = "corrected" =>
       \/ line[l].text = produced[l]
       \/ produced[l] = "none" /\ line[l].text = "ocr" /\ Routing
  /\ pc \in {"reconcile", "accept"} => \A l \in cur.targets : produced[l] = Said(l)
  /\ \A l \in Lines : Unstarted(l) => produced[l] = "none"

AnswerInv == LimboInv /\ Tops /\ Owned /\ Fresh /\ Answered

\* A planner of whole units keeps words together among the targets it is given.
LEMMA PlanApart ==
  ASSUME WholeUnitPlans, NEW grain \in Grains \cup {"AUTO"}, NEW S \in SUBSET Lines,
         NEW K \in SUBSET InitLinks, Whole(S, K)
  PROVE  Apart(PlanOf(grain, S, K).chunks, K \ PlanOf(grain, S, K).splits)
<1> DEFINE plan == PlanOf(grain, S, K)
<1>1. WholeUnits(S, K, plan) /\ PlanContract(S, K, plan)
  BY PlanAssumption DEF WholeUnitPlans
<1> HIDE DEF plan
<1>2. ASSUME NEW i \in DOMAIN plan.chunks, NEW k \in K \ plan.splits, ~Crosses(k)
      PROVE  k[1] \in plan.chunks[i].targets <=> k[2] \in plan.chunks[i].targets
  <2>1. k = <<k[1], k[2]>>
    BY LinksAssumption
  <2>2. plan.chunks[i].targets \subseteq S
    BY <1>1 DEF PlanContract
  <2>3. CASE k[1] \in S /\ k[2] \in S
    BY <1>1, <2>1, <2>3 DEF WholeUnits
  <2>4. CASE k[1] \notin S /\ k[2] \notin S
    BY <2>2, <2>4
  <2> QED BY <1>2, <2>3, <2>4 DEF Whole
<1>3. \A i, j \in DOMAIN plan.chunks :
        i # j => plan.chunks[i].targets \cap plan.chunks[j].targets = {}
  BY <1>1 DEF WholeUnits
<1>4. \A i \in DOMAIN plan.chunks : Whole(plan.chunks[i].targets, K \ plan.splits)
  BY <1>2 DEF Whole
<1>5. Apart(plan.chunks, K \ plan.splits)
  BY <1>3, <1>4 DEF Apart
<1> QED BY <1>5 DEF plan

LEMMA WholeShrinks ==
  ASSUME NEW T, NEW K, NEW live \in SUBSET K, Whole(T, K)
  PROVE  Whole(T, live)
BY DEF Whole

LEMMA ApartShrinks ==
  ASSUME NEW q, NEW K, NEW live \in SUBSET K, Apart(q, K)
  PROVE  Apart(q, live)
BY WholeShrinks DEF Apart

LEMMA ApartTail ==
  ASSUME NEW q \in Seq(Chunks), q # <<>>, NEW K, Apart(q, K)
  PROVE  /\ Apart(Tail(q), K) /\ Whole(Head(q).targets, K)
         /\ \A i \in DOMAIN Tail(q) : Tail(q)[i].targets \cap Head(q).targets = {}
<1>1. /\ 1 \in DOMAIN q /\ Head(q) = q[1]
      /\ \A i \in DOMAIN Tail(q) : Tail(q)[i] = q[i + 1] /\ i + 1 \in DOMAIN q /\ i + 1 # 1
  BY TailIsLater
<1>2. \A i, j \in DOMAIN Tail(q) : i # j => i + 1 # j + 1
  BY HeadTailProperties, LenProperties
<1>3. \A i, j \in DOMAIN Tail(q) : i # j => Tail(q)[i].targets \cap Tail(q)[j].targets = {}
  BY <1>1, <1>2 DEF Apart
<1>4. \A i \in DOMAIN Tail(q) : Whole(Tail(q)[i].targets, K)
  BY <1>1 DEF Apart
<1>5. Whole(Head(q).targets, K)
  BY <1>1 DEF Apart
<1>6. \A i \in DOMAIN Tail(q) : Tail(q)[i].targets \cap Head(q).targets = {}
  BY <1>1 DEF Apart
<1> QED BY <1>3, <1>4, <1>5, <1>6 DEF Apart

LEMMA ApartConcat ==
  ASSUME NEW p \in Seq(Chunks), NEW q \in Seq(Chunks), NEW K, Apart(p, K), Apart(q, K),
         \A i \in DOMAIN p, j \in DOMAIN q : p[i].targets \cap q[j].targets = {}
  PROVE  Apart(p \o q, K)
<1> DEFINE all == p \o q
<1>1. \A i \in DOMAIN all :
        \/ i \in DOMAIN p /\ all[i] = p[i]
        \/ i - Len(p) \in DOMAIN q /\ all[i] = q[i - Len(p)] /\ i \notin DOMAIN p
  BY ConcatIsEither
<1>2. DOMAIN all \subseteq Nat /\ Len(p) \in Nat
  BY ConcatProperties, LenProperties
<1> HIDE DEF all
<1>3. ASSUME NEW i \in DOMAIN all, NEW j \in DOMAIN all, i # j
      PROVE  all[i].targets \cap all[j].targets = {}
  <2>1. i - Len(p) # j - Len(p)
    BY <1>2, <1>3
  <2>2. CASE i \in DOMAIN p /\ j \in DOMAIN p
    BY <1>1, <1>3, <2>2 DEF Apart
  <2>3. CASE i \notin DOMAIN p /\ j \notin DOMAIN p
    BY <1>1, <2>1, <2>3 DEF Apart
  <2>4. CASE i \in DOMAIN p /\ j \notin DOMAIN p
    BY <1>1, <2>4
  <2>5. CASE i \notin DOMAIN p /\ j \in DOMAIN p
    BY <1>1, <2>5
  <2> QED BY <2>2, <2>3, <2>4, <2>5
<1>4. \A i \in DOMAIN all : Whole(all[i].targets, K)
  BY <1>1 DEF Apart
<1>5. Apart(all, K)
  BY <1>3, <1>4 DEF Apart
<1> QED BY <1>5 DEF all

\* The router keeps words together: it skips no member of a word and escalates the
\* whole of it or nothing.
LEMMA RouterKeepsWords ==
  ASSUME TypeOK, NEW tier
  PROVE  /\ \A k \in links : k[1] \notin Skipped(tier) /\ k[2] \notin Skipped(tier)
         /\ Whole(Escalated(tier), links)
<1>1. \A k \in links : Member(k[1]) /\ Member(k[2])
  BY DEF Member, Opener
<1>2. \A k \in links : k[1] \notin Skipped(tier) /\ k[2] \notin Skipped(tier)
  BY <1>1 DEF Skipped
<1>3. ASSUME NEW k \in links, ~Crosses(k)
      PROVE  k[1] \in Escalated(tier) <=> k[2] \in Escalated(tier)
  <2>1. k[1] \in Lines /\ k[2] \in Lines
    BY LinksAssumption DEF TypeOK
  <2>2. k[1] \in LinesOn(page) <=> k[2] \in LinesOn(page)
    BY <1>3, <2>1 DEF Crosses, LinesOn
  <2>3. \A l : PageUnit(l) \subseteq LinesOn(page)
    BY DEF PageUnit, UnitOf
  <2>4. ASSUME NEW l PROVE k[1] \in PageUnit(l) <=> k[2] \in PageUnit(l)
    <3>1. CASE k[1] \in LinesOn(page) /\ k[2] \in LinesOn(page)
      BY <3>1, UnitClosed DEF PageUnit
    <3>2. CASE k[1] \notin LinesOn(page) /\ k[2] \notin LinesOn(page)
      BY <2>3, <3>2
    <3> QED BY <2>2, <3>1, <3>2
  <2> QED BY <1>1, <2>4 DEF Escalated
<1>4. Whole(Escalated(tier), links)
  BY <1>3 DEF Whole
<1> QED BY <1>2, <1>4

\* So a chunk and its escalated sibling are apart, and so are all work items.
LEMMA WorkItemsApart ==
  ASSUME NEW chunks \in Seq(Chunks), NEW K, NEW skip, NEW escalate, Apart(chunks, K),
         \A k \in K : k[1] \notin skip /\ k[2] \notin skip,
         Whole(escalate, K)
  PROVE  Apart(WorkItems(chunks, skip, escalate), K)
<1> DEFINE items == WorkItems(chunks, skip, escalate)
           of(i) == (i + 1) \div 2
<1>1. Len(chunks) \in Nat /\ DOMAIN chunks = 1 .. Len(chunks) /\ DOMAIN items = 1 .. 2 * Len(chunks)
  BY LenProperties DEF WorkItems
<1>2. \A i \in DOMAIN items : of(i) \in DOMAIN chunks /\ chunks[of(i)] \in Chunks
  <2>1. \A i \in DOMAIN items : of(i) \in DOMAIN chunks
    BY <1>1
  <2> QED BY <1>1, <2>1, ElementOfSeq
<1>3. ASSUME NEW i \in DOMAIN items
      PROVE  items[i].targets = IF i % 2 = 1 THEN chunks[of(i)].targets \ (skip \cup escalate)
                                ELSE (chunks[of(i)].targets \ skip) \cap escalate
  <2>1. items[i] = [chunks[of(i)] EXCEPT !.targets =
                      IF i % 2 = 1 THEN @ \ (skip \cup escalate) ELSE (@ \ skip) \cap escalate]
    BY DEF WorkItems
  <2> QED BY <1>2, <2>1 DEF Chunks
<1>4. \A i, j \in DOMAIN items : i # j => of(i) # of(j) \/ (i % 2 = 1 <=> j % 2 # 1)
  <2>1. \A i \in Nat : i = IF i % 2 = 1 THEN 2 * of(i) - 1 ELSE 2 * of(i)
    OBVIOUS
  <2>2. DOMAIN items \subseteq Nat
    BY <1>1
  <2> HIDE DEF items, of
  <2> QED BY <2>1, <2>2
<1> HIDE DEF items, of
<1>5. ASSUME NEW i \in DOMAIN items, NEW j \in DOMAIN items, i # j
      PROVE  items[i].targets \cap items[j].targets = {}
  <2>1. CASE of(i) # of(j)
    <3>1. chunks[of(i)].targets \cap chunks[of(j)].targets = {}
      BY <1>2, <2>1 DEF Apart
    <3> QED BY <1>3, <3>1
  <2>2. CASE i % 2 = 1 <=> j % 2 # 1
    BY <1>3, <2>2
  <2> QED BY <1>4, <1>5, <2>1, <2>2
<1>6. ASSUME NEW i \in DOMAIN items PROVE Whole(items[i].targets, K)
  <2>1. Whole(chunks[of(i)].targets, K)
    BY <1>2 DEF Apart
  <2> QED BY <1>3, <2>1 DEF Whole
<1>7. Apart(items, K)
  BY <1>5, <1>6 DEF Apart
<1> QED BY <1>7 DEF items

LEMMA NoneApart == \A K : Apart(<<>>, K)
BY DEF Apart

\* A link leads to a line of the same page or of a later one.
LEMMA LinksGoForward ==
  ASSUME NEW k \in InitLinks
  PROVE  /\ k[1] \in Lines /\ k[2] \in Lines
         /\ PageOf[k[1]] \in Nat /\ PageOf[k[2]] \in Nat /\ PageOf[k[1]] <= PageOf[k[2]]
<1>1. k[1] \in Lines /\ k[2] \in Lines /\ k[1] < k[2]
  BY LinksAssumption DEF WellLinked
<1>2. PageOf[k[1]] <= PageOf[k[2]]
  BY <1>1, LinesAssumption
<1>3. \A l \in Lines : PageOf[l] \in Nat
  BY LinesAssumption
<1> QED BY <1>1, <1>2, <1>3

LEMMA StepOwned ==
  ASSUME WholeUnitPlans, DecisionsInv, Tops, Owned, [Next]_vars
  PROVE  Owned'
<1> USE DEF control, finish, document, InChunk
<1>0. /\ TypeOK /\ Scope /\ queue \in Seq(Chunks) /\ work \in Seq(Chunks)
      /\ links \in SUBSET InitLinks
  BY DEF DecisionsInv, TypeOK
<1>90. ASSUME NEW K, K = links', NEW q, Apart(q, links), K \subseteq links PROVE Apart(q, K)
  BY <1>90, ApartShrinks
<1>1. CASE StartPage
  <2> DEFINE plan == PlanOf("AUTO", LinesOn(page), links)
  <2>1. LinesOn(page) \in SUBSET Lines /\ Whole(LinesOn(page), links)
    <3>1. \A k \in links : k[1] \in Lines /\ k[2] \in Lines
      BY <1>0, LinksAssumption
    <3> QED BY <3>1 DEF LinesOn, Whole, Crosses
  <2>2. Apart(plan.chunks, links \ plan.splits) /\ plan.chunks \in Seq(Chunks)
    BY <1>0, <2>1, PlanApart, PlanHonoured DEF PlanContract
  <2>3. ASSUME NEW tier
        PROVE  Apart(WorkItems(plan.chunks, Skipped(tier), Escalated(tier)), links \ plan.splits)
    <3>1. /\ \A k \in links : k[1] \notin Skipped(tier) /\ k[2] \notin Skipped(tier)
          /\ Whole(Escalated(tier), links \ plan.splits)
      BY <1>0, RouterKeepsWords, WholeShrinks
    <3> QED BY <2>2, <3>1, WorkItemsApart
  <2>4. /\ links' = links \ plan.splits /\ pc' = "chunk" /\ work' = <<>>
        /\ \/ queue' = plan.chunks
           \/ \E tier : queue' = WorkItems(plan.chunks, Skipped(tier), Escalated(tier))
    BY <1>0, <1>1 DEF StartPage, Scope
  <2> HIDE DEF plan
  <2>5. Apart(queue', links')
    BY <2>2, <2>3, <2>4
  <2>6. Apart(work', links')
    BY <2>4, NoneApart
  <2> QED BY <2>4, <2>5, <2>6 DEF Owned
<1>2. CASE DropChunk
  <2>1. /\ pc' = "chunk" /\ UNCHANGED <<work, links>> /\ queue # <<>> /\ queue' = Tail(queue)
    BY <1>2 DEF DropChunk
  <2>2. Apart(queue', links')
    BY <1>0, <2>1, ApartTail DEF Owned
  <2> QED BY <2>1, <2>2 DEF Owned
<1>3. CASE StartChunk
  <2>1. /\ pc' = "attempt" /\ work' = <<>> /\ UNCHANGED links /\ queue # <<>>
        /\ queue' = Tail(queue) /\ cur' = Head(queue) /\ top' = Head(queue).targets
    BY <1>0, <1>3 DEF StartChunk, Scope
  <2>2. /\ Apart(queue', links') /\ Whole(cur'.targets, links')
        /\ \A i \in DOMAIN queue' : queue'[i].targets \cap top' = {}
    BY <1>0, <2>1, ApartTail DEF Owned
  <2> QED BY <2>1, <2>2, NoneApart DEF Owned
<1>4. CASE EndPage \/ EndChunk \/ FailRun \/ Abort
  <2>1. /\ UNCHANGED <<queue, work, links>> /\ pc' \in {"page", "done", "chunk", "failed", "aborted"}
    BY <1>4 DEF EndPage, EndChunk, FailRun, Abort
  <2> QED BY <2>1 DEF Owned
<1>5. CASE ReplyAccepted \/ PairsSettled
  <2>1. /\ pc = "attempt" /\ pc' = "reconcile" /\ UNCHANGED <<queue, work, top, cur, links>>
        /\ joins' = JoinsOf(cur.targets)
    BY <1>5 DEF ReplyAccepted, PairsSettled, BeginFinish
  <2>2. JoinsOf(cur.targets)' = JoinsOf(cur.targets)
    BY <2>1 DEF JoinsOf
  <2> QED BY <2>1, <2>2 DEF Owned
<1>6. CASE RetryAttempt
  BY <1>6 DEF RetryAttempt, Owned
<1>7. CASE Descend
  <2> DEFINE plan == PlanOf(Finer(cur.grain), DescentLines, links)
  <2>1. pc = "attempt" /\ cur.grain \in Grains /\ cur.targets \in SUBSET Lines
        /\ Finer(cur.grain) \in Grains
    BY <1>0, <1>7, FinerIsGrain DEF Descend, TypeOK, Chunks
  <2>2. Apart(plan.chunks, links \ plan.splits) /\ PlanContract(cur.targets, links, plan)
    BY <1>0, <2>1, PlanApart, PlanHonoured DEF Owned, DescentLines
  <2>3. /\ pc' = "sub" /\ UNCHANGED <<queue, top>> /\ work' = plan.chunks \o work
        /\ links' = links \ plan.splits
    BY <1>7 DEF Descend
  <2> HIDE DEF plan
  <2>4. /\ plan.chunks \in Seq(Chunks)
        /\ \A i \in DOMAIN plan.chunks : plan.chunks[i].targets \subseteq cur.targets
    BY <2>2 DEF PlanContract
  <2>5. Apart(work, links') /\ Apart(queue, links')
    BY <1>90, <2>3 DEF Owned
  <2>6. \A i \in DOMAIN plan.chunks, j \in DOMAIN work :
          plan.chunks[i].targets \cap work[j].targets = {}
    BY <2>1, <2>4 DEF Owned
  <2>7. Apart(work', links')
    BY <1>0, <2>2, <2>3, <2>4, <2>5, <2>6, ApartConcat
  <2> QED BY <2>1, <2>3, <2>5, <2>7 DEF Owned
<1>8. CASE GiveUp
  BY <1>8 DEF GiveUp, Owned
<1>9. CASE StartSub
  <2>1. /\ pc = "sub" /\ pc' = "attempt" /\ UNCHANGED <<queue, top, links>> /\ work # <<>>
        /\ cur' = Head(work) /\ work' = Tail(work)
    BY <1>9 DEF StartSub
  <2>2. /\ Apart(work', links') /\ Whole(cur'.targets, links')
        /\ \A i \in DOMAIN work' : work'[i].targets \cap cur'.targets = {}
    BY <1>0, <2>1, ApartTail DEF Owned
  <2> QED BY <2>1, <2>2 DEF Owned
<1>10. CASE ExhaustedSub
  <2>1. /\ pc = "sub" /\ pc' = "sub" /\ UNCHANGED <<queue, top, links>> /\ work # <<>>
        /\ work' = Tail(work)
    BY <1>10 DEF ExhaustedSub
  <2>2. Apart(work', links')
    BY <1>0, <2>1, ApartTail DEF Owned
  <2> QED BY <2>1, <2>2 DEF Owned
<1>11. CASE AbsorbError
  <2>1. /\ pc = "attempt" /\ pc' = "sub" /\ UNCHANGED <<queue, top, links>> /\ work' = <<>>
    BY <1>11 DEF AbsorbError
  <2> QED BY <2>1, NoneApart DEF Owned
<1>12. CASE Reconcile
  <2>1. /\ UNCHANGED <<pc, queue, work, top, cur, links>> /\ pc = "reconcile" /\ joins' \subseteq joins
    BY <1>12 DEF Reconcile
  <2>2. JoinsOf(cur.targets)' = JoinsOf(cur.targets)
    BY <2>1 DEF JoinsOf
  <2> QED BY <2>1, <2>2 DEF Owned
<1>13. CASE EndReconcile
  BY <1>13 DEF EndReconcile, Owned
<1>14. CASE RevisitLine \/ DecideLine
  <2>1. /\ UNCHANGED <<pc, queue, work, top, cur, links>> /\ pc = "accept"
    BY <1>14 DEF RevisitLine, DecideLine
  <2> QED BY <2>1 DEF Owned
<1>15. CASE SettleChunk
  BY <1>15 DEF SettleChunk, Owned
<1>16. CASE Stopped \/ UNCHANGED vars
  <2>1. UNCHANGED vars
    BY <1>16 DEF Stopped
  <2>2. JoinsOf(cur.targets)' = JoinsOf(cur.targets)
    BY <2>1 DEF vars, JoinsOf
  <2> QED BY <2>1, <2>2 DEF vars, Owned
<1> QED
  BY <1>1, <1>2, <1>3, <1>4, <1>5, <1>6, <1>7, <1>8, <1>9, <1>10, <1>11, <1>12, <1>13,
     <1>14, <1>15, <1>16 DEF Next, Work

\* A line corrected after a step was so before, or is a target of the chunk being
\* finished and holds what its reply said, or was skipped by the router.
LEMMA Corrected ==
  ASSUME LimboInv, Tops, Owned, [Next]_vars, NEW l \in Lines, line'[l].status = "corrected"
  PROVE  \/ line'[l] = line[l]
         \/ /\ pc \in {"reconcile", "accept"} /\ l \in cur.targets
            /\ line'[l].text = Said(l)
            /\ Reconcile \/ DecideLine
         \/ /\ StartPage /\ Routing /\ l \in LinesOn(page) /\ line'[l].text = "ocr"
<1> USE DEF control, finish, document, InChunk
<1>0. DecisionsInv /\ TypeOK /\ Scope /\ PastDecided /\ line[l] \in LD!Decision
  BY DEF LimboInv, DecisionsInv, TypeOK
<1>1. ASSUME NEW S, NEW why, line' = FallBack(S, why) PROVE line'[l] = line[l]
  <2>1. line'[l] = line[l] \/ line'[l] = LD!Fallen(line[l], why[l])
    BY <1>1 DEF FallBack
  <2> QED BY <1>0, <2>1, VerbsStatus
<1>2. CASE StartPage
  <2>1. CASE UNCHANGED line
    BY <2>1
  <2>2. CASE ~UNCHANGED line
    <3>1. PICK tier : line' = [m \in Lines |-> IF m \in Skipped(tier) THEN LD!Accepted(line[m], "ocr")
                                                ELSE line[m]]
      BY <1>2, <2>2 DEF StartPage
    <3>2. Routing
      BY <1>2, <2>2 DEF StartPage
    <3>3. CASE l \in Skipped(tier)
      <4>1. l \in LinesOn(page)
        BY <3>3 DEF Skipped
      <4>2. line'[l].text = "ocr"
        BY <1>0, <3>1, <3>3 DEF LD!Accepted, LD!Decision
      <4> QED BY <1>2, <3>2, <4>1, <4>2
    <3> QED BY <3>1, <3>3
  <2> QED BY <2>1, <2>2
<1>3. CASE GiveUp \/ ExhaustedSub \/ AbsorbError \/ SettleChunk
  BY <1>1, <1>3 DEF GiveUp, ExhaustedSub, FallenChunk, AbsorbError, SettleChunk
<1>4. CASE Reconcile
  <2> DEFINE tail == FirstJoin[1]
             head == FirstJoin[2]
             text == [m \in Lines |-> IF m = tail /\ ~IsPending(m) THEN line[m].text
                                      ELSE Said(m)]
             pair == {tail, head}
  <2>1. /\ FirstJoin \in joins /\ FirstJoin \in links /\ FirstJoin \in JoinsOf(cur.targets)
        /\ tail \in Lines /\ head \in Lines /\ FirstJoin \in InitLinks /\ pc = "reconcile"
        /\ cur.targets \subseteq LinesOn(page)
    <3>1. FirstJoin \in joins /\ pc = "reconcile"
      BY <1>0, <1>4, FirstJoinLeft DEF Reconcile, TypeOK
    <3>2. FirstJoin \in JoinsOf(cur.targets) /\ cur.targets \subseteq LinesOn(page)
      BY <1>0, <3>1 DEF Owned, Scope
    <3>3. FirstJoin \in links /\ FirstJoin \in InitLinks
      BY <1>0, <3>2 DEF JoinsOf, TypeOK
    <3> QED BY <3>1, <3>2, <3>3, LinksGoForward
  <2>2. head \in cur.targets /\ (tail \in cur.targets \/ (Crosses(FirstJoin) /\ PageOf[tail] # page))
    <3>1. CASE Crosses(FirstJoin)
      <4>1. head \in cur.targets /\ PageOf[head] = page
        BY <2>1, <3>1 DEF JoinsOf, LinesOn
      <4> QED BY <3>1, <4>1 DEF Crosses
    <3>2. CASE ~Crosses(FirstJoin)
      BY <2>1, <3>2 DEF JoinsOf, Owned, Whole
    <3> QED BY <3>1, <3>2
  <2>3. tail \notin cur.targets => ~IsPending(tail)
    <3> SUFFICES ASSUME tail \notin cur.targets PROVE ~IsPending(tail)
      OBVIOUS
    <3>1. PageOf[head] = page /\ PageOf[tail] # page
      BY <2>1, <2>2 DEF LinesOn
    <3>2. PageOf[tail] <= PageOf[head] /\ PageOf[tail] \in Nat /\ PageOf[head] \in Nat
      BY <2>1, LinksGoForward
    <3>3. PageOf[tail] < page
      BY <3>1, <3>2
    <3> QED BY <1>0, <2>1, <3>3 DEF PastDecided
  <2>4. \/ /\ ~IsFallen(tail) /\ ~IsFallen(head)
           /\ line' = [m \in Lines |-> IF m \in pair THEN LD!Accepted(line[m], text[m])
                                        ELSE line[m]]
        \/ line' = FallBack(pair, [m \in Lines |-> "hyphen_pair_fallback"])
    BY <1>4 DEF Reconcile
  <2>5. CASE line' = FallBack(pair, [m \in Lines |-> "hyphen_pair_fallback"])
    BY <1>1, <2>5
  <2>6. text[l] = IF l = tail /\ ~IsPending(l) THEN line[l].text ELSE Said(l)
    OBVIOUS
  <2> HIDE DEF text
  <2>7. CASE /\ ~IsFallen(tail) /\ ~IsFallen(head)
             /\ line' = [m \in Lines |-> IF m \in pair THEN LD!Accepted(line[m], text[m])
                                          ELSE line[m]]
    <3>1. CASE l \notin pair
      BY <2>7, <3>1
    <3>2. CASE l = tail /\ ~IsPending(tail)
      <4>1. line[l].status = "corrected" /\ line'[l] = LD!Accepted(line[l], line[l].text)
        BY <1>0, <2>6, <2>7, <3>2 DEF DecisionsInv, NoReview, IsPending, IsFallen, LD!Decision, LD!Statuses
      <4> QED BY <1>0, <4>1 DEF LD!Accepted, LD!Decision
    <3>3. CASE l \in pair /\ ~ (l = tail /\ ~IsPending(tail))
      <4>1. l \in cur.targets /\ line'[l] = LD!Accepted(line[l], Said(l))
        BY <2>2, <2>3, <2>6, <2>7, <3>3
      <4>2. line'[l].text = Said(l)
        BY <1>0, <4>1 DEF LD!Accepted, LD!Decision
      <4> QED BY <1>4, <2>1, <4>1, <4>2
    <3> QED BY <3>1, <3>2, <3>3
  <2> QED BY <2>4, <2>5, <2>7
<1>5. CASE DecideLine
  <2>1. NextLine \in todo /\ NextLine \in Lines /\ pc = "accept" /\ todo \subseteq cur.targets
    BY <1>0, <1>5, NextLineLeft DEF DecideLine, TypeOK, Tops
  <2>2. \/ line'[l] = line[l]
        \/ \E why : line'[l] = LD!Fallen(line[l], why)
        \/ l = NextLine /\ line'[l] = LD!Accepted(line[l], Said(l))
    BY <1>0, <1>5, <2>1 DEF DecideLine, TypeOK
  <2>3. \A t : LD!Accepted(line[l], t).text = t
    BY <1>0 DEF LD!Accepted, LD!Decision
  <2> QED BY <1>0, <1>5, <2>1, <2>2, <2>3, VerbsStatus
<1> QED
  <2>1. CASE ReplyAccepted \/ PairsSettled
    BY <2>1 DEF ReplyAccepted, PairsSettled, BeginFinish
  <2>2. CASE DropChunk \/ StartChunk \/ EndPage \/ RetryAttempt \/ Descend \/ StartSub
    BY <2>2 DEF DropChunk, StartChunk, EndPage, RetryAttempt, Descend, StartSub
  <2>3. CASE EndChunk \/ EndReconcile \/ RevisitLine \/ FailRun \/ Abort
    BY <2>3 DEF EndChunk, EndReconcile, RevisitLine, FailRun, Abort
  <2>4. CASE Stopped \/ UNCHANGED vars
    BY <2>4 DEF Stopped, vars
  <2> QED BY <1>2, <1>3, <1>4, <1>5, <2>1, <2>2, <2>3, <2>4 DEF Next, Work

\* What waits after a step waited before, but for the lines the planner gives anew.
LEMMA WaitedBefore ==
  ASSUME DecisionsInv, [Next]_vars, NEW l \in Lines, Waits(l)'
  PROVE  Waits(l)
<1> USE DEF control, finish, document, InChunk
<1>0. /\ TypeOK /\ Scope /\ queue \in Seq(Chunks) /\ work \in Seq(Chunks)
      /\ page \in Nat /\ PageOf[l] \in Nat
  BY LinesAssumption DEF DecisionsInv, TypeOK
<1>90. ASSUME NEW q \in Seq(Chunks), q # <<>>, Awaits(Tail(q), l) \/ l \in Head(q).targets
       PROVE  Awaits(q, l)
  BY <1>90, TailIsLater DEF Awaits
<1>1. CASE StartPage
  <2> DEFINE plan == PlanOf("AUTO", LinesOn(page), links)
  <2>1. PlanContract(LinesOn(page), links, plan)
    BY <1>0, PlanHonoured DEF TypeOK, LinesOn
  <2>2. /\ OnPage(plan.chunks)
         /\ \A skip, escalate : OnPage(WorkItems(plan.chunks, skip, escalate))
    BY <2>1, PlanOnPage
  <2>3. \/ queue' = plan.chunks
         \/ \E skip, escalate : queue' = WorkItems(plan.chunks, skip, escalate)
    BY <1>1 DEF StartPage
  <2>4. OnPage(queue')
    BY <2>2, <2>3
  <2>5. /\ UNCHANGED <<page, work>> /\ pc = "page" /\ pc' = "chunk"
    BY <1>1 DEF StartPage
  <2>6. Awaits(queue', l) => l \in LinesOn(page)
    BY <2>4 DEF OnPage, Awaits
  <2> QED BY <2>5, <2>6 DEF Waits, Unstarted, LinesOn
<1>2. CASE DropChunk
  <2>1. /\ UNCHANGED <<page, work, pc>> /\ pc = "chunk" /\ queue # <<>> /\ queue' = Tail(queue)
    BY <1>2 DEF DropChunk
  <2> QED BY <1>0, <1>90, <2>1 DEF Waits, Unstarted
<1>3. CASE StartChunk
  <2>1. /\ UNCHANGED <<page, work>> /\ pc = "chunk" /\ pc' = "attempt" /\ queue # <<>>
        /\ queue' = Tail(queue) /\ cur' = Head(queue)
    BY <1>3 DEF StartChunk
  <2> QED BY <1>0, <1>90, <2>1 DEF Waits, Unstarted
<1>4. CASE EndPage
  <2>1. /\ UNCHANGED <<queue, work>> /\ pc = "chunk"
        /\ \/ pc' = "done" /\ page' = page
           \/ pc' = "page" /\ page' = page + 1
    BY <1>4 DEF EndPage
  <2> QED BY <1>0, <2>1 DEF Waits, Unstarted
<1>5. CASE ReplyAccepted \/ PairsSettled
  <2>1. pc = "attempt" /\ pc' = "reconcile" /\ UNCHANGED <<page, queue, work, cur>>
    BY <1>5 DEF ReplyAccepted, PairsSettled, BeginFinish
  <2> QED BY <2>1 DEF Waits, Unstarted
<1>6. CASE Descend
  <2> DEFINE plan == PlanOf(Finer(cur.grain), DescentLines, links)
  <2>1. pc = "attempt" /\ cur.grain \in Grains /\ cur.targets \in SUBSET Lines
        /\ Finer(cur.grain) \in Grains
    BY <1>0, <1>6, FinerIsGrain DEF Descend, TypeOK, Chunks
  <2>2. PlanContract(cur.targets, links, plan)
    BY <1>0, <2>1, PlanHonoured DEF TypeOK, DescentLines
  <2>3. pc' = "sub" /\ UNCHANGED <<page, queue>> /\ work' = plan.chunks \o work
    BY <1>6 DEF Descend
  <2> HIDE DEF plan
  <2>4. /\ plan.chunks \in Seq(Chunks)
        /\ \A i \in DOMAIN plan.chunks : plan.chunks[i].targets \subseteq cur.targets
    BY <2>2 DEF PlanContract
  <2>5. Awaits(work', l) => Awaits(work, l) \/ l \in cur.targets
    BY <1>0, <2>3, <2>4, ConcatIsEither DEF Awaits
  <2> QED BY <2>1, <2>3, <2>5 DEF Waits, Unstarted
<1>7. CASE StartSub
  <2>1. /\ UNCHANGED <<page, queue>> /\ pc = "sub" /\ pc' = "attempt" /\ work # <<>>
        /\ work' = Tail(work) /\ cur' = Head(work)
    BY <1>7 DEF StartSub
  <2> QED BY <1>0, <1>90, <2>1 DEF Waits, Unstarted
<1>8. CASE ExhaustedSub
  <2>1. /\ UNCHANGED <<page, queue, pc>> /\ pc = "sub" /\ work # <<>> /\ work' = Tail(work)
    BY <1>8 DEF ExhaustedSub
  <2> QED BY <1>0, <1>90, <2>1 DEF Waits, Unstarted
<1>9. CASE AbsorbError
  <2>1. /\ UNCHANGED <<page, queue>> /\ pc = "attempt" /\ pc' = "sub" /\ work' = <<>>
    BY <1>9 DEF AbsorbError
  <2>2. ~Awaits(work', l)
    BY <2>1 DEF Awaits
  <2> QED BY <2>1, <2>2 DEF Waits, Unstarted
<1>10. CASE RetryAttempt \/ GiveUp \/ EndChunk \/ FailRun \/ Abort
  <2>1. UNCHANGED <<page, queue, work, cur>> /\ (pc' = pc \/ pc' \notin {"page", "attempt"})
    BY <1>10 DEF RetryAttempt, GiveUp, EndChunk, FailRun, Abort
  <2> QED BY <2>1 DEF Waits, Unstarted
<1>11. CASE Reconcile \/ EndReconcile \/ RevisitLine \/ DecideLine \/ SettleChunk
  <2>1. /\ UNCHANGED <<page, queue, work, cur>> /\ pc' \in {"reconcile", "accept", "sub"}
    BY <1>11 DEF Reconcile, EndReconcile, RevisitLine, DecideLine, SettleChunk
  <2> QED BY <2>1 DEF Waits, Unstarted
<1>12. CASE Stopped \/ UNCHANGED vars
  BY <1>12 DEF Stopped, vars, Waits, Unstarted
<1> QED
  BY <1>1, <1>2, <1>3, <1>4, <1>5, <1>6, <1>7, <1>8, <1>9, <1>10, <1>11, <1>12 DEF Next, Work

\* A target of the chunk being finished does not wait.
LEMMA FinishedDoNotWait ==
  ASSUME TypeOK, Scope, Tops, Owned, pc \in {"reconcile", "accept"}, NEW l \in cur.targets
  PROVE  ~Waits(l)
<1>1. l \in LinesOn(page) /\ l \in top /\ page \in Nat
  BY DEF Scope, Tops, InChunk, TypeOK
<1>2. ~Unstarted(l)
  BY <1>1 DEF Unstarted, LinesOn
<1>3. ~Awaits(queue, l) /\ ~Awaits(work, l)
  BY <1>1 DEF Owned, InChunk, Awaits
<1> QED BY <1>2, <1>3 DEF Waits

LEMMA StepFresh ==
  ASSUME LimboInv, Tops, Owned, Fresh, [Next]_vars
  PROVE  Fresh'
<1>0. DecisionsInv /\ TypeOK /\ Scope
  BY DEF LimboInv, DecisionsInv
<1> SUFFICES ASSUME NEW l \in Lines, Waits(l)', line'[l].status = "corrected" PROVE FALSE
  BY DEF Fresh
<1>1. Waits(l) /\ line'[l] # line[l]
  BY <1>0, WaitedBefore DEF Fresh
<1>2. CASE pc \in {"reconcile", "accept"} /\ l \in cur.targets
  BY <1>0, <1>1, <1>2, FinishedDoNotWait
<1>3. CASE StartPage /\ Routing /\ l \in LinesOn(page)
  <2> DEFINE plan == PlanOf("AUTO", LinesOn(page), links)
  <2>1. PICK tier : /\ queue' = WorkItems(plan.chunks, Skipped(tier), Escalated(tier))
                    /\ line' = [m \in Lines |-> IF m \in Skipped(tier)
                                                THEN LD!Accepted(line[m], "ocr") ELSE line[m]]
    BY <1>3 DEF StartPage
  <2>2. l \in Skipped(tier)
    BY <1>1, <2>1
  <2>3. PlanContract(LinesOn(page), links, plan)
    BY <1>0, PlanHonoured DEF TypeOK, LinesOn
  <2>4. plan.chunks \in Seq(Chunks)
    BY <2>3 DEF PlanContract
  <2> HIDE DEF plan
  <2>5. ~Awaits(queue', l)
    <3> DEFINE items == WorkItems(plan.chunks, Skipped(tier), Escalated(tier))
    <3>1. Len(plan.chunks) \in Nat /\ DOMAIN plan.chunks = 1 .. Len(plan.chunks)
          /\ DOMAIN items = 1 .. 2 * Len(plan.chunks)
      BY <2>4, LenProperties DEF WorkItems
    <3>2. ASSUME NEW i \in DOMAIN items PROVE l \notin items[i].targets
      <4> DEFINE chunk == plan.chunks[(i + 1) \div 2]
      <4>1. (i + 1) \div 2 \in DOMAIN plan.chunks
        BY <3>1
      <4>2. chunk \in Chunks
        BY <2>4, <3>1, <4>1, ElementOfSeq
      <4>3. items[i] = [chunk EXCEPT !.targets =
                          IF i % 2 = 1 THEN @ \ (Skipped(tier) \cup Escalated(tier))
                          ELSE (@ \ Skipped(tier)) \cap Escalated(tier)]
        BY DEF WorkItems
      <4> QED BY <2>2, <4>2, <4>3 DEF Chunks
    <3> QED BY <2>1, <3>2 DEF Awaits
  <2>6. pc = "page" /\ pc' = "chunk" /\ page' = page /\ work' = <<>> /\ page \in Nat
    BY <1>0, <1>3 DEF StartPage, Scope, TypeOK
  <2>7. ~Unstarted(l)' /\ ~Awaits(work', l)
    BY <1>3, <2>6 DEF Unstarted, Awaits, LinesOn
  <2> QED BY <2>5, <2>6, <2>7 DEF Waits
<1> QED BY <1>1, <1>2, <1>3, Corrected

LEMMA StepAnswered ==
  ASSUME LimboInv, Tops, Owned, Fresh, Answered, [Next]_vars
  PROVE  Answered'
<1> USE DEF control, finish, document, InChunk
<1>0. DecisionsInv /\ TypeOK /\ Scope /\ cur.targets \subseteq Lines
  BY DEF LimboInv, DecisionsInv, TypeOK, Chunks
<1>1. CASE ReplyAccepted \/ PairsSettled
  <2>1. PICK reply, away : BeginFinish(reply, away)
    BY <1>1 DEF ReplyAccepted, PairsSettled
  <2>2. /\ pc = "attempt" /\ pc' = "reconcile" /\ UNCHANGED <<line, cur, page>> /\ changed' = reply
        /\ produced' = [l \in Lines |-> IF l \notin cur.targets THEN produced[l]
                                        ELSE IF l \in reply THEN "cor" ELSE "ocr"]
    BY <1>1, <2>1 DEF ReplyAccepted, PairsSettled, BeginFinish
  <2>3. ASSUME NEW l \in Lines, line'[l].status = "corrected" \/ Unstarted(l)'
        PROVE  produced'[l] = produced[l]
    <3> SUFFICES ASSUME l \in cur.targets PROVE FALSE
      BY <2>2
    <3>1. line[l].status # "corrected"
      BY <2>2 DEF Fresh, Waits
    <3>2. ~Unstarted(l)'
      BY <1>0, <2>2 DEF Unstarted, Scope, LinesOn, TypeOK
    <3> QED BY <2>2, <2>3, <3>1, <3>2
  <2>4. \A l \in cur'.targets : produced'[l] = Said(l)'
    BY <1>0, <2>2 DEF Said
  <2>5. \A l \in Lines : Unstarted(l)' => Unstarted(l)
    BY <2>2 DEF Unstarted
  <2> QED BY <2>2, <2>3, <2>4, <2>5 DEF Answered
<1>2. CASE ~ (ReplyAccepted \/ PairsSettled)
  <2>1. UNCHANGED produced
    BY <1>2 DEF Next, Work, StartPage, DropChunk, StartChunk, EndPage, RetryAttempt, Descend,
         GiveUp, StartSub, ExhaustedSub, EndChunk, AbsorbError, Reconcile, EndReconcile,
         RevisitLine, DecideLine, SettleChunk, FailRun, Abort, Stopped, vars
  <2>2. pc' \in {"reconcile", "accept"} => pc \in {"reconcile", "accept"} /\ UNCHANGED <<cur, changed>>
    BY <1>2 DEF Next, Work, StartPage, DropChunk, StartChunk, EndPage, RetryAttempt, Descend,
         GiveUp, StartSub, ExhaustedSub, EndChunk, AbsorbError, Reconcile, EndReconcile,
         RevisitLine, DecideLine, SettleChunk, FailRun, Abort, Stopped, vars
  <2>3. pc' \in {"reconcile", "accept"} => \A l \in cur'.targets : produced'[l] = Said(l)'
    BY <2>1, <2>2 DEF Answered, Said
  <2>4. ASSUME NEW l \in Lines, Unstarted(l)' PROVE produced'[l] = "none"
    <3>1. Waits(l)'
      BY <2>4 DEF Waits
    <3>2. Unstarted(l)
      <4>0. page \in Nat /\ PageOf[l] \in Nat
        BY <1>0, LinesAssumption DEF TypeOK
      <4>1. \/ page' = page /\ (pc = "page" \/ pc' # "page")
            \/ page' = page + 1
        BY <1>0, StepLinks
      <4> QED BY <2>4, <4>0, <4>1 DEF Unstarted
    <3> QED BY <2>1, <3>2 DEF Answered
  <2>5. ASSUME NEW l \in Lines, line'[l].status = "corrected"
        PROVE  \/ line'[l].text = produced'[l]
               \/ produced'[l] = "none" /\ line'[l].text = "ocr" /\ Routing
    <3>1. CASE line'[l] = line[l]
      BY <2>1, <2>5, <3>1 DEF Answered
    <3>2. CASE pc \in {"reconcile", "accept"} /\ l \in cur.targets /\ line'[l].text = Said(l)
      BY <2>1, <3>2 DEF Answered
    <3>3. CASE StartPage /\ Routing /\ l \in LinesOn(page) /\ line'[l].text = "ocr"
      <4>1. Unstarted(l)
        BY <3>3 DEF StartPage, Unstarted, LinesOn
      <4> QED BY <2>1, <3>3, <4>1 DEF Answered
    <3> QED BY <2>5, <3>1, <3>2, <3>3, Corrected
  <2> QED BY <2>3, <2>4, <2>5 DEF Answered
<1> QED BY <1>1, <1>2

LEMMA InitAnswer == Init => AnswerInv
<1> SUFFICES ASSUME Init PROVE AnswerInv
  OBVIOUS
<1>1. LimboInv /\ Tops
  BY InitLimbo, InitTops
<1>2. Owned
  BY NoneApart DEF Init, Owned, InChunk
<1>3. Fresh /\ Answered
  BY DEF Init, Fresh, Answered, LD!Undecided
<1> QED BY <1>1, <1>2, <1>3 DEF AnswerInv

LEMMA AnswerInvariant == WholeUnitPlans => (Spec => []AnswerInv)
<1> SUFFICES ASSUME WholeUnitPlans PROVE Spec => []AnswerInv
  OBVIOUS
<1>1. AnswerInv /\ [Next]_vars => AnswerInv'
  <2> SUFFICES ASSUME AnswerInv, [Next]_vars PROVE AnswerInv'
    OBVIOUS
  <2>1. LimboInv /\ DecisionsInv /\ Tops /\ Owned /\ Fresh /\ Answered
    BY DEF AnswerInv, LimboInv
  <2>2. DecisionsInv' /\ TopCovered' /\ PageCovered' /\ PastDecided'
    BY <2>1, StepLimbo, StepDecisions
  <2>3. Tops' /\ Owned' /\ Fresh' /\ Answered'
    BY <2>1, StepTops, StepOwned, StepFresh, StepAnswered
  <2> QED BY <2>2, <2>3 DEF AnswerInv, LimboInv
<1> QED BY <1>1, InitAnswer, PTL DEF Spec

\* A correction that stands is the producer's answer for that line as a target: a
\* head is never frozen on the raw text of a reply that did not mention it, through
\* every join, descent, retry and fallback.  For every planner that gives each line
\* one owner and each word one chunk.
THEOREM CorrectionsAreAnswers == WholeUnitPlans => (Spec => []OwnAnswer)
<1>1. AnswerInv => OwnAnswer
  BY DEF AnswerInv, Answered, OwnAnswer
<1> QED BY <1>1, AnswerInvariant, PTL

----
Decided(k) == ~IsPending(k[1]) /\ ~IsPending(k[2])

\* The two lines of a word fall together or stand together at any time; the head of a
\* word over two pages is decided after its tail, so it is the join that decides it;
\* and the validator puts a word of the page back whole.
PairsEven ==
  /\ \A k \in links : Decided(k) => (IsFallen(k[1]) <=> IsFallen(k[2]))
  /\ \A k \in links : Crosses(k) /\ ~IsPending(k[2]) => ~IsPending(k[1])
  /\ pc = "reconcile" => \A k \in JoinsOf(cur.targets) \ joins : Decided(k)
  /\ pc = "accept" => \A k \in JoinsOf(cur.targets) : Decided(k)
  /\ pc \in {"reconcile", "accept"} =>
       \A k \in links : IF Crosses(k) THEN k[2] \notin neutral
                        ELSE k[1] \in neutral <=> k[2] \in neutral

\* A step that changes no decision, or makes both lines of a word fall, keeps its two
\* lines even; so does one that decides a line while the other is undecided.
LEMMA EvenKept ==
  ASSUME DecisionsInv, [Next]_vars, NEW k \in links,
         Decided(k) => (IsFallen(k[1]) <=> IsFallen(k[2])),
         Crosses(k) /\ ~IsPending(k[2]) => ~IsPending(k[1]),
         \/ line'[k[1]] = line[k[1]] /\ line'[k[2]] = line[k[2]]
         \/ IsFallen(k[1])' /\ IsFallen(k[2])'
         \/ Decided(k)' /\ ~IsFallen(k[1])' /\ ~IsFallen(k[2])'
  PROVE  /\ Decided(k)' => (IsFallen(k[1])' <=> IsFallen(k[2])')
         /\ Crosses(k) /\ ~IsPending(k[2])' => ~IsPending(k[1])'
BY DEF Decided, IsFallen, IsPending

\* When words are pairs, what the units of lines within reach hold of a link is all
\* or nothing.
LEMMA FallsWhole ==
  ASSUME WordsArePairs, TypeOK, NEW S, S \subseteq Reach, NEW k \in links
  PROVE  k[1] \in UnitsContaining(S, Pool, links) <=> k[2] \in UnitsContaining(S, Pool, links)
<1>0. k \in InitLinks /\ k = <<k[1], k[2]>> /\ k[1] \in Lines /\ k[2] \in Lines /\ Reach = Pool
  BY LinksAssumption DEF TypeOK, Reach, Pool
<1>1. ASSUME k[1] \in Reach \/ k[2] \in Reach PROVE k[1] \in Reach /\ k[2] \in Reach
  <2>1. CASE k[1] \in LinesOn(page) \/ k[2] \in LinesOn(page)
    BY <1>0, <2>1, PartnerInReach
  <2>2. CASE k[1] \in CrossPartners(page) \/ k[2] \in CrossPartners(page)
    <3>1. PICK l \in LinesOn(page) : k[1] \in Partners(l, links) \/ k[2] \in Partners(l, links)
      BY <2>2 DEF CrossPartners
    <3>2. PICK j \in links : l \in {j[1], j[2]} /\ (k[1] \in {j[1], j[2]} \/ k[2] \in {j[1], j[2]})
      BY <3>1 DEF Partners
    <3>3. j = k
      BY <1>0, <3>2 DEF WordsArePairs, TypeOK
    <3> QED BY <2>1, <3>2, <3>3
  <2> QED BY <1>1, <2>1, <2>2 DEF Reach
<1>2. CASE k[1] \in Reach /\ k[2] \in Reach
  BY <1>0, <1>2, UnitsContainingClosed
<1>3. CASE k[1] \notin Reach /\ k[2] \notin Reach
  BY <1>3, UnitsInReach
<1> QED BY <1>1, <1>2, <1>3

\* So a fallback of units leaves every word even.
LEMMA FallBackEven ==
  ASSUME WordsArePairs, DecisionsInv, [Next]_vars, NEW S, S \subseteq Reach, NEW why,
         line' = FallBack(UnitsContaining(S, Pool, links), why), NEW k \in links
  PROVE  \/ line'[k[1]] = line[k[1]] /\ line'[k[2]] = line[k[2]]
         \/ IsFallen(k[1])' /\ IsFallen(k[2])'
<1>1. k[1] \in Lines /\ k[2] \in Lines /\ TypeOK
  BY LinksAssumption DEF DecisionsInv, TypeOK
<1>2. CASE k[1] \in UnitsContaining(S, Pool, links) /\ k[2] \in UnitsContaining(S, Pool, links)
  BY <1>1, <1>2 DEF FallBack, IsFallen, LD!Fallen
<1>3. CASE k[1] \notin UnitsContaining(S, Pool, links) /\ k[2] \notin UnitsContaining(S, Pool, links)
  BY <1>1, <1>3 DEF FallBack
<1> QED BY <1>1, <1>2, <1>3, FallsWhole

\* A line ahead of the page is undecided or fallen.
LEMMA AheadNotCorrected ==
  ASSUME DecisionsInv, Fresh, NEW l \in Lines, Unstarted(l), ~IsPending(l)
  PROVE  IsFallen(l)
BY DEF Fresh, Waits, IsPending, IsFallen, DecisionsInv, NoReview, TypeOK, LD!Decision, LD!Statuses

\* How any step leaves the two lines of a word.
LEMMA StepEven ==
  ASSUME WordsArePairs, AnswerInv, PairsEven, [Next]_vars, NEW k \in links
  PROVE  /\ Decided(k)' => (IsFallen(k[1])' <=> IsFallen(k[2])')
         /\ Crosses(k) /\ ~IsPending(k[2])' => ~IsPending(k[1])'
<1> USE DEF control, finish, document, InChunk
<1>0. /\ DecisionsInv /\ TypeOK /\ Scope /\ Tops /\ Owned /\ Fresh /\ FallenIsSource
      /\ k \in InitLinks /\ k[1] \in Lines /\ k[2] \in Lines
      /\ line[k[1]] \in LD!Decision /\ line[k[2]] \in LD!Decision
      /\ page \in Nat
  BY LinksAssumption DEF AnswerInv, LimboInv, DecisionsInv, TypeOK
<1>90. /\ Decided(k) => (IsFallen(k[1]) <=> IsFallen(k[2]))
       /\ Crosses(k) /\ ~IsPending(k[2]) => ~IsPending(k[1])
  BY DEF PairsEven
<1>1. ASSUME \/ line'[k[1]] = line[k[1]] /\ line'[k[2]] = line[k[2]]
             \/ IsFallen(k[1])' /\ IsFallen(k[2])'
             \/ Decided(k)' /\ ~IsFallen(k[1])' /\ ~IsFallen(k[2])'
      PROVE  /\ Decided(k)' => (IsFallen(k[1])' <=> IsFallen(k[2])')
             /\ Crosses(k) /\ ~IsPending(k[2])' => ~IsPending(k[1])'
  BY <1>0, <1>1, <1>90, EvenKept
<1>2. CASE UNCHANGED line
  BY <1>1, <1>2
<1>3. CASE StartPage /\ Routing
  <2>1. PICK tier : line' = [l \in Lines |-> IF l \in Skipped(tier)
                                              THEN LD!Accepted(line[l], "ocr") ELSE line[l]]
    BY <1>3 DEF StartPage
  <2>2. k[1] \notin Skipped(tier) /\ k[2] \notin Skipped(tier)
    BY <1>0, RouterKeepsWords
  <2> QED BY <1>0, <1>1, <2>1, <2>2
<1>4. CASE GiveUp
  <2>1. cur.targets \subseteq Reach
    BY <1>0, <1>4 DEF GiveUp, Scope, Reach
  <2> QED BY <1>0, <1>1, <1>4, <2>1, FallBackEven DEF GiveUp, FallenChunk
<1>5. CASE ExhaustedSub
  <2>1. Head(work) = work[1] /\ 1 \in DOMAIN work
    BY <1>0, <1>5, TailIsLater DEF ExhaustedSub, TypeOK
  <2>2. Head(work).targets \subseteq Reach
    BY <1>0, <2>1 DEF Scope, OnPage, Reach
  <2> QED BY <1>0, <1>1, <1>5, <2>2, FallBackEven DEF ExhaustedSub, FallenChunk
<1>6. CASE AbsorbError
  <2>1. Limbo \subseteq Reach
    BY <1>0, <1>6 DEF AbsorbError, Scope, Limbo, Reach
  <2> QED BY <1>0, <1>1, <1>6, <2>1, FallBackEven DEF AbsorbError
<1>7. CASE Reconcile
  <2> DEFINE tail == FirstJoin[1]
             head == FirstJoin[2]
             text == [l \in Lines |-> IF l = tail /\ ~IsPending(l) THEN line[l].text
                                      ELSE Said(l)]
             pair == {tail, head}
  <2>1. FirstJoin \in joins /\ FirstJoin \in InitLinks
    BY <1>0, <1>7, FirstJoinLeft DEF Reconcile, TypeOK
  <2>2. k = FirstJoin \/ (k[1] \notin pair /\ k[2] \notin pair)
    BY <1>0, <2>1 DEF WordsArePairs
  <2>3. \/ line' = [l \in Lines |-> IF l \in pair THEN LD!Accepted(line[l], text[l])
                                    ELSE line[l]]
        \/ line' = FallBack(pair, [l \in Lines |-> "hyphen_pair_fallback"])
    BY <1>7 DEF Reconcile
  <2> HIDE DEF text
  <2>4. CASE k[1] \notin pair /\ k[2] \notin pair
    BY <1>0, <1>1, <2>3, <2>4 DEF FallBack
  <2>5. CASE k = FirstJoin /\ line' = FallBack(pair, [l \in Lines |-> "hyphen_pair_fallback"])
    <3>1. IsFallen(k[1])' /\ IsFallen(k[2])'
      BY <1>0, <2>5 DEF FallBack, IsFallen, LD!Fallen
    <3> QED BY <1>1, <3>1
  <2>6. CASE /\ k = FirstJoin
             /\ line' = [l \in Lines |-> IF l \in pair THEN LD!Accepted(line[l], text[l])
                                          ELSE line[l]]
    <3>1. line'[k[1]].status = "corrected" /\ line'[k[2]].status = "corrected"
      BY <1>0, <2>6, VerbsStatus
    <3>2. Decided(k)' /\ ~IsFallen(k[1])' /\ ~IsFallen(k[2])'
      BY <3>1 DEF Decided, IsPending, IsFallen
    <3> QED BY <1>1, <3>2
  <2> QED BY <2>2, <2>3, <2>4, <2>5, <2>6
<1>8. CASE DecideLine
  <2> DEFINE l == NextLine
  <2>1. /\ l \in todo /\ l \in Lines /\ l \in cur.targets /\ pc = "accept" /\ IsPending(l)
        /\ l \in LinesOn(page)
    BY <1>0, <1>8, NextLineLeft DEF DecideLine, TypeOK, Tops, Scope
  <2>2. \A m \in Lines : m # l => line'[m] = line[m]
    BY <1>0, <1>8 DEF DecideLine, TypeOK
  <2>3. k \in JoinsOf(cur.targets) => Decided(k)
    BY <2>1 DEF PairsEven
  <2> HIDE DEF l
  <2>4. CASE k[1] # l /\ k[2] # l
    BY <1>0, <1>1, <2>2, <2>4
  <2>5. CASE (k[1] = l \/ k[2] = l) /\ k \in JoinsOf(cur.targets)
    BY <2>1, <2>3, <2>5 DEF Decided
  <2>6. CASE (k[1] = l \/ k[2] = l) /\ k \notin JoinsOf(cur.targets)
    <3>1. Crosses(k) /\ k[1] = l /\ k[2] # l
      <4>1. CASE Crosses(k)
        BY <2>1, <2>6, <4>1 DEF JoinsOf, Crosses
      <4>2. CASE ~Crosses(k)
        BY <1>0, <2>1, <2>6, <4>2 DEF JoinsOf, Owned, Whole
      <4> QED BY <4>1, <4>2
    <3>2. IsPending(k[2])
      BY <1>90, <2>1, <3>1
    <3>3. IsPending(k[2])'
      BY <1>0, <2>2, <3>1, <3>2 DEF IsPending
    <3> QED BY <3>3 DEF Decided
  <2> QED BY <2>4, <2>5, <2>6
<1>9. CASE SettleChunk
  <2> DEFINE units == UnitsContaining(reverts, Pool, links)
  <2>1. reverts \subseteq Reach /\ pc = "accept" /\ neutral \subseteq LinesOn(page)
    BY <1>0, <1>9 DEF SettleChunk, Scope, Reach
  <2>2. k[1] \in units <=> k[2] \in units
    BY <1>0, <2>1, FallsWhole
  <2>3. \A m \in Lines : IF m \in units \cup neutral THEN line'[m].status = "fallback"
                         ELSE line'[m] = line[m]
    BY <1>9 DEF SettleChunk, FallBack, LD!Fallen
  <2> HIDE DEF units
  <2>4. CASE k[1] \in units
    BY <1>0, <1>1, <2>2, <2>3, <2>4 DEF IsFallen
  <2>5. CASE k[1] \notin units /\ k[1] \in neutral /\ k[2] \in neutral
    BY <1>0, <1>1, <2>3, <2>5 DEF IsFallen
  <2>6. CASE k[1] \notin units /\ k[1] \notin neutral /\ k[2] \notin neutral
    BY <1>0, <1>1, <2>2, <2>3, <2>6
  <2>7. CASE k[1] \notin units /\ ~ (k[1] \in neutral <=> k[2] \in neutral)
    <3>1. Crosses(k) /\ k[2] \notin neutral /\ k[1] \in neutral
      BY <2>1, <2>7 DEF PairsEven
    <3>2. line'[k[2]] = line[k[2]] /\ line'[k[1]].status = "fallback"
      BY <1>0, <2>2, <2>3, <2>7, <3>1
    <3>3. Unstarted(k[2])
      <4>1. PageOf[k[1]] = page /\ PageOf[k[2]] # PageOf[k[1]]
        BY <2>1, <3>1 DEF LinesOn, Crosses
      <4>2. PageOf[k[1]] <= PageOf[k[2]] /\ PageOf[k[2]] \in Nat
        BY <1>0, LinksGoForward
      <4>3. PageOf[k[2]] > page
        BY <1>0, <4>1, <4>2
      <4> QED BY <4>3 DEF Unstarted
    <3>4. IsPending(k[2]) \/ IsFallen(k[2])
      BY <1>0, <3>3, AheadNotCorrected
    <3> QED BY <3>2, <3>4 DEF Decided, IsPending, IsFallen
  <2> QED BY <2>4, <2>5, <2>6, <2>7
<1> QED
  <2>1. CASE StartPage /\ ~Routing
    BY <1>2, <2>1 DEF StartPage
  <2>2. CASE ReplyAccepted \/ PairsSettled
    BY <1>2, <2>2 DEF ReplyAccepted, PairsSettled, BeginFinish
  <2>3. CASE DropChunk \/ StartChunk \/ EndPage \/ RetryAttempt \/ Descend \/ StartSub
    BY <1>2, <2>3 DEF DropChunk, StartChunk, EndPage, RetryAttempt, Descend, StartSub
  <2>4. CASE EndChunk \/ EndReconcile \/ RevisitLine \/ FailRun \/ Abort
    BY <1>2, <2>4 DEF EndChunk, EndReconcile, RevisitLine, FailRun, Abort
  <2>5. CASE Stopped \/ UNCHANGED vars
    BY <1>2, <2>5 DEF Stopped, vars
  <2> QED BY <1>3, <1>4, <1>5, <1>6, <1>7, <1>8, <1>9, <2>1, <2>2, <2>3, <2>4, <2>5
             DEF Next, Work

\* What the finish of a chunk knows of its words.
FinishEven ==
  /\ pc = "reconcile" => \A k \in JoinsOf(cur.targets) \ joins : Decided(k)
  /\ pc = "accept" => \A k \in JoinsOf(cur.targets) : Decided(k)
  /\ pc \in {"reconcile", "accept"} =>
       \A k \in links : IF Crosses(k) THEN k[2] \notin neutral
                        ELSE k[1] \in neutral <=> k[2] \in neutral

LEMMA StepFinishEven ==
  ASSUME WordsArePairs, AnswerInv, FinishEven, [Next]_vars
  PROVE  FinishEven'
<1> USE DEF control, finish, document, InChunk
<1>0. /\ DecisionsInv /\ TypeOK /\ Scope /\ Owned /\ links \subseteq InitLinks
  BY DEF AnswerInv, LimboInv, DecisionsInv, TypeOK
<1>1. CASE pc' \notin {"reconcile", "accept"}
  BY <1>1 DEF FinishEven
<1>90. ASSUME UNCHANGED <<cur, links>>
       PROVE  JoinsOf(cur.targets)' = JoinsOf(cur.targets)
  BY <1>90 DEF JoinsOf
<1>91. ASSUME NEW k \in links, Decided(k) PROVE Decided(k)'
  <2>1. k[1] \in Lines /\ k[2] \in Lines
    BY <1>0, LinksAssumption
  <2> QED BY <1>0, <1>91, <2>1, StaysDecided DEF Decided
<1>92. JoinsOf(cur.targets) \subseteq links
  BY DEF JoinsOf
<1>2. CASE ReplyAccepted \/ PairsSettled
  <2>1. PICK reply, away :
          /\ BeginFinish(reply, away)
          /\ \A k \in links : IF Crosses(k) THEN k[2] \notin away
                              ELSE k[1] \in away <=> k[2] \in away
    <3>1. CASE ReplyAccepted
      BY <3>1 DEF ReplyAccepted
    <3>2. CASE PairsSettled
      <4>1. PICK refused, reply : refused \subseteq Refusable /\ BeginFinish(reply, UNION refused)
        BY <3>2 DEF PairsSettled
      <4>2. /\ pc = "attempt" /\ cur.targets \subseteq cur.lines /\ cur.lines \subseteq LinesOn(page)
            /\ Whole(cur.targets, links)
        BY <1>0, <3>2 DEF PairsSettled, Scope, Owned
      <4>3. ASSUME NEW k \in links, NEW x \in refused, k[1] \in x \/ k[2] \in x
            PROVE  ~Crosses(k) => k[1] \in x /\ k[2] \in x
        <5>1. PICK j \in links : j[1] \in cur.targets /\ x = {j[1], j[2]} \cap cur.lines
          BY <4>1 DEF Refusable
        <5>2. j = k
          BY <1>0, <4>3, <5>1 DEF WordsArePairs
        <5> QED BY <4>2, <5>1, <5>2 DEF Whole
      <4>4. ASSUME NEW k \in links, NEW x \in refused, k[2] \in x PROVE ~Crosses(k)
        <5>1. PICK j \in links : j[1] \in cur.targets /\ x = {j[1], j[2]} \cap cur.lines
          BY <4>1 DEF Refusable
        <5>2. j = k
          BY <1>0, <4>4, <5>1 DEF WordsArePairs
        <5>3. k[1] \in LinesOn(page) /\ k[2] \in LinesOn(page)
          BY <4>2, <4>4, <5>1, <5>2
        <5> QED BY <5>3 DEF Crosses, LinesOn
      <4>5. \A k \in links : IF Crosses(k) THEN k[2] \notin UNION refused
                             ELSE k[1] \in UNION refused <=> k[2] \in UNION refused
        BY <4>3, <4>4
      <4> QED BY <4>1, <4>5
    <3> QED BY <1>2, <3>1, <3>2
  <2>2. /\ UNCHANGED <<cur, links>> /\ pc' = "reconcile" /\ neutral' = away
        /\ joins' = JoinsOf(cur.targets)
    BY <2>1 DEF BeginFinish
  <2> QED BY <1>90, <2>1, <2>2 DEF FinishEven
<1>3. CASE Reconcile
  <2>1. /\ pc = "reconcile" /\ pc' = "reconcile" /\ UNCHANGED <<cur, links, neutral>>
        /\ joins' = joins \ {FirstJoin}
    BY <1>3 DEF Reconcile
  <2>2. PICK first : first = FirstJoin
    OBVIOUS
  <2>3. first \in links /\ first[1] \in Lines /\ first[2] \in Lines
    <3>1. first \in joins
      BY <1>0, <1>3, <2>2, FirstJoinLeft DEF Reconcile, TypeOK
    <3>2. first \in links
      BY <2>1, <3>1 DEF FinishEven, Owned, AnswerInv, JoinsOf
    <3> QED BY <1>0, <3>1, <3>2, LinksAssumption
  <2>4. Decided(first)'
    <3> DEFINE text == [l \in Lines |-> IF l = FirstJoin[1] /\ ~IsPending(l) THEN line[l].text
                                        ELSE Said(l)]
               pair == {FirstJoin[1], FirstJoin[2]}
    <3>1. \/ line' = [l \in Lines |-> IF l \in pair THEN LD!Accepted(line[l], text[l])
                                      ELSE line[l]]
          \/ line' = FallBack(pair, [l \in Lines |-> "hyphen_pair_fallback"])
      BY <1>3 DEF Reconcile
    <3> HIDE DEF text
    <3>2. ASSUME NEW l \in {first[1], first[2]} PROVE line'[l].status \in {"corrected", "fallback"}
      <4>1. l \in Lines /\ line[l] \in LD!Decision /\ l \in pair
        BY <1>0, <2>2, <2>3 DEF TypeOK
      <4>2. \/ line'[l] = LD!Accepted(line[l], text[l])
            \/ line'[l] = LD!Fallen(line[l], "hyphen_pair_fallback")
        BY <3>1, <4>1 DEF FallBack
      <4> QED BY <4>1, <4>2, VerbsStatus
    <3> QED BY <3>2 DEF Decided, IsPending
  <2>5. \A k \in JoinsOf(cur.targets) \ joins' : k = first \/ k \in JoinsOf(cur.targets) \ joins
    BY <2>1, <2>2
  <2>6. \A k \in JoinsOf(cur.targets) \ joins' : Decided(k)'
    BY <1>91, <1>92, <2>1, <2>4, <2>5 DEF FinishEven
  <2> QED BY <1>90, <2>1, <2>6 DEF FinishEven
<1>4. CASE EndReconcile
  <2>1. /\ pc = "reconcile" /\ pc' = "accept" /\ UNCHANGED <<cur, links, neutral, line>> /\ joins = {}
    BY <1>4 DEF EndReconcile
  <2>2. \A k \in JoinsOf(cur.targets) : Decided(k)'
    BY <1>91, <1>92, <2>1 DEF FinishEven
  <2> QED BY <1>90, <2>1, <2>2 DEF FinishEven
<1>5. CASE RevisitLine \/ DecideLine
  <2>1. /\ pc = "accept" /\ pc' = "accept" /\ UNCHANGED <<cur, links, neutral>>
    BY <1>5 DEF RevisitLine, DecideLine
  <2>2. \A k \in JoinsOf(cur.targets) : Decided(k)'
    BY <1>91, <1>92, <2>1 DEF FinishEven
  <2> QED BY <1>90, <2>1, <2>2 DEF FinishEven
<1>6. CASE Stopped \/ UNCHANGED vars
  <2>1. UNCHANGED <<pc, cur, links, neutral, joins>>
    BY <1>6 DEF Stopped, vars
  <2>2. \A k \in links : Decided(k) => Decided(k)'
    BY <1>91
  <2> QED BY <1>90, <1>92, <2>1, <2>2 DEF FinishEven
<1>7. CASE \/ StartPage \/ DropChunk \/ StartChunk \/ EndPage \/ RetryAttempt \/ Descend
           \/ GiveUp \/ StartSub \/ ExhaustedSub \/ EndChunk \/ AbsorbError \/ SettleChunk
           \/ FailRun \/ Abort
  <2>1. pc' \notin {"reconcile", "accept"}
    BY <1>7 DEF StartPage, DropChunk, StartChunk, EndPage, RetryAttempt, Descend, GiveUp,
         StartSub, ExhaustedSub, EndChunk, AbsorbError, SettleChunk, FailRun, Abort
  <2> QED BY <1>1, <2>1
<1> QED BY <1>2, <1>3, <1>4, <1>5, <1>6, <1>7 DEF Next, Work

\* No step ties two lines together that were not.
LEMMA LinksShrink ==
  ASSUME [Next]_vars
  PROVE  links' \subseteq links
<1> USE DEF control, finish, document
<1>1. CASE StartPage \/ Descend
  BY <1>1 DEF StartPage, Descend
<1>2. CASE ~ (StartPage \/ Descend)
  BY <1>2 DEF Next, Work, DropChunk, StartChunk, EndPage, ReplyAccepted, PairsSettled,
       BeginFinish, RetryAttempt, GiveUp, StartSub, ExhaustedSub, EndChunk, AbsorbError,
       Reconcile, EndReconcile, RevisitLine, DecideLine, SettleChunk, FailRun, Abort, Stopped,
       vars
<1> QED BY <1>1, <1>2

LEMMA StepPairs ==
  ASSUME WordsArePairs, AnswerInv, PairsEven, [Next]_vars
  PROVE  PairsEven'
<1>1. FinishEven'
  BY StepFinishEven DEF PairsEven, FinishEven
<1>2. \A k \in links : /\ Decided(k)' => (IsFallen(k[1])' <=> IsFallen(k[2])')
                       /\ Crosses(k) /\ ~IsPending(k[2])' => ~IsPending(k[1])'
  BY StepEven
<1>3. links' \subseteq links
  BY LinksShrink
<1> QED BY <1>1, <1>2, <1>3 DEF PairsEven, FinishEven, Crosses

\* A word broken over two lines, of one page or of two, falls whole or stands whole:
\* between chunks both its lines fell back or neither did, whichever chunk, descent,
\* refusal or error decided each of them, when every word lies on two lines and the
\* planner keeps words whole.  Of longer words it does not hold (UnitWhole).
THEOREM PairsStayWhole == WholeUnitPlans /\ WordsArePairs => (Spec => []PairWhole)
<1> SUFFICES ASSUME WholeUnitPlans, WordsArePairs PROVE Spec => []PairWhole
  OBVIOUS
<1>1. Init => PairsEven
  BY LinksAssumption DEF Init, PairsEven, Decided, IsPending, LD!Undecided
<1>2. AnswerInv /\ PairsEven /\ [Next]_vars => PairsEven'
  BY StepPairs
<1>3. PairsEven => PairWhole
  BY DEF PairsEven, PairWhole, Decided
<1> QED BY <1>1, <1>2, <1>3, AnswerInvariant, PTL DEF Spec
====
