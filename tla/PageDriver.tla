---- MODULE PageDriver ----
(***************************************************************************)
(* One run's pages through the edit producer: core/pipeline.py             *)
(* (_process_pages), core/driver.py, core/attempt.py, core/outcome.py,     *)
(* core/reconcile.py, core/acceptance.py (stage C), core/routing.py.       *)
(*                                                                         *)
(* A page is planned into chunks.  Each top-level chunk opens a purse of   *)
(* attempts; a chunk whose attempts are spent is re-planned one            *)
(* granularity finer and its sub-chunks draw on the same purse.  A chunk   *)
(* whose reply is valid is finished line by line: its hyphen joins are     *)
(* reconciled, its lines accepted or put back to their source.  A chunk    *)
(* that cannot be healed falls back to its source with its hyphen units.   *)
(*                                                                         *)
(* The recursion _run_chunk / _descend_granularity is a depth-first        *)
(* worklist: `work` holds what is left of the current top-level chunk's    *)
(* descent.  Texts are "ocr" or "cor" (LineDecision); a valid reply is the *)
(* set `changed` of the lines it does not leave as they are.               *)
(***************************************************************************)
EXTENDS HyphenUnits, Plans

CONSTANTS
  NPages,           \* pages are 1 .. NPages, in manifest order
  PageOf,           \* PageOf[l]: the page of line l
  InitLinks,        \* the hyphen links the parser and the linker left
  Dangling,         \* lines with an opening role and no partner
  PlanOf(_, _, _),  \* PlanOf(grain, lines, links): the planner (module Planner)
  PerChunkBudget,   \* RetryPolicy.per_chunk_budget
  MaxAttempts,      \* RetryPolicy.max_attempts
  Routing,          \* a QE scorer and an enabled routing policy are set
  CanEscalate       \* an escalation producer is set

\* downgrade_granularity.
Finer(grain) ==
  CASE grain = "PAGE"   -> "BLOCK"
    [] grain = "BLOCK"  -> "WINDOW"
    [] grain = "WINDOW" -> "LINE"
    [] grain = "LINE"   -> "none"

\* No plan cuts a word without severing its link.
WholeUnitPlans ==
  \A grain \in Grains \cup {"AUTO"}, S \in SUBSET Lines, links \in SUBSET InitLinks :
    WholeUnits(S, links, PlanOf(grain, S, links))

\* Every broken word lies on two lines.
WordsArePairs ==
  \A j, k \in InitLinks : j # k => {j[1], j[2]} \cap {k[1], k[2]} = {}

ASSUME LinesAssumption ==
  /\ Lines \subseteq Nat /\ IsFiniteSet(Lines)
  /\ NPages \in Nat \ {0}
  /\ PageOf \in [Lines -> 1 .. NPages]
  /\ \A l, m \in Lines : l < m => PageOf[l] <= PageOf[m]
  /\ Dangling \subseteq Lines
ASSUME LinksAssumption ==
  InitLinks \subseteq Lines \X Lines /\ WellLinked(InitLinks)
ASSUME RetryAssumption ==
  PerChunkBudget \in Nat \ {0} /\ MaxAttempts \in Nat \ {0}
ASSUME RoutingAssumption == Routing \in BOOLEAN /\ CanEscalate \in BOOLEAN
ASSUME PlanAssumption ==
  \A grain \in Grains \cup {"AUTO"}, S \in SUBSET Lines, links \in SUBSET InitLinks :
    PlanContract(S, links, PlanOf(grain, S, links))

\* FALLBACK_REASON_CODES, the ones the page loop writes; "guard_refused" stands
\* for every reason check_line gives.
Reasons == {"all_attempts_exhausted", "chunk_error_absorbed", "hyphen_unit_fallback",
            "hyphen_pair_fallback", "hyphen_partner_fell_back",
            "orphan_hyphen_completed", "pair_drift_fallback", "guard_refused"}

VARIABLES
  pc,          \* where the run is: the program counter of the page loop
  page,        \* the page being corrected
  queue,       \* routed chunks of the page not yet started
  work,        \* sub-chunks of the current top-level chunk not yet started
  top,         \* targets of the current top-level chunk
  cur,         \* the chunk being attempted or finished
  budget,      \* ChunkBudget.remaining
  attempt,     \* the attempt about to be made, from 1
  calls,       \* producer calls made for the current top-level chunk
  changed,     \* the validated reply: the chunk's lines it changes
  neutral,     \* the lines VR-10 put back to source in that reply
  joins,       \* joins this chunk owns, not yet reconciled
  todo,        \* targets not yet through stage C
  undecided,   \* targets that had no decision before the reconcile
  reverts,     \* reconciled members stage C refused
  line,        \* every line's decision (LineDecision)
  links,       \* the live hyphen links
  splits,      \* ctx.hyphen_splits
  produced     \* ctx.producer_ops: what the producer said of each target

control  == <<pc, page, queue, work, top, cur, budget, attempt, calls>>
finish   == <<changed, neutral, joins, todo, undecided, reverts>>
document == <<line, links, splits, produced>>
vars     == <<control, finish, document>>

LD == INSTANCE LineDecision

NoChunk == [grain |-> "LINE", lines |-> {}, targets |-> {}]

Init ==
  /\ pc = "page" /\ page = 1
  /\ queue = <<>> /\ work = <<>> /\ top = {} /\ cur = NoChunk
  /\ budget = 0 /\ attempt = 0 /\ calls = 0
  /\ changed = {} /\ neutral = {} /\ joins = {} /\ todo = {}
  /\ undecided = {} /\ reverts = {}
  /\ line = [l \in Lines |-> LD!Undecided]
  /\ links = InitLinks /\ splits = {}
  /\ produced = [l \in Lines |-> "none"]

----
LinesOn(p) == {l \in Lines : PageOf[l] = p}
Crosses(k) == PageOf[k[1]] # PageOf[k[2]]

\* _cross_page_partners: the off-page lines this page's lines point at.
CrossPartners(p) ==
  {m \in Lines : PageOf[m] # p /\ \E l \in LinesOn(p) : m \in Partners(l, links)}

\* _unit_pool: what a unit query may reach from this page.
Pool == LinesOn(page) \cup CrossPartners(page)

Opener(l) == l \in Dangling \/ \E k \in links : k[1] = l
Member(l) == Opener(l) \/ \E k \in links : k[2] = l

IsPending(l) == line[l].status = "pending"
IsFallen(l)  == line[l].status = "fallback"
Said(l)      == IF l \in changed THEN "cor" ELSE "ocr"

\* Mutated form: the text is left behind.
FallBackKeepingText(S, why) ==
  [l \in Lines |-> IF l \in S THEN [LD!Fallen(line[l], why[l]) EXCEPT !.text = "cor"]
                   ELSE line[l]]
\* Mutated form: the last reason wins.
FallBackLastReason(S, why) ==
  [l \in Lines |-> IF l \in S THEN [LD!Fallen(line[l], why[l]) EXCEPT !.reason = why[l]]
                   ELSE line[l]]

\* decide.fall_back on every line of S, why[l] the reason.
FallBack(S, why) == [l \in Lines |-> IF l \in S THEN LD!Fallen(line[l], why[l]) ELSE line[l]]

\* Mutated form: the two reasons swapped.
ReasonSwapped(S, own, pulled) == [l \in Lines |-> IF l \in S THEN pulled ELSE own]

\* One reason for the lines of S, another for the members they pull down.
ReasonFor(S, own, pulled) == [l \in Lines |-> IF l \in S THEN own ELSE pulled]

----
\* Planning and routing of a page.

\* Mutated form: hyphen members skipped like any line.
SkippedMembersToo(tier) == {l \in LinesOn(page) : tier[l] = "skip"}
\* Mutated form: a member escalates alone.
PageUnitAlone(l) == {l}

\* _score_page_into_tiers: a hyphen member is never skipped and escalates only
\* with its whole unit, when the page holds all of it.
Skipped(tier) == {l \in LinesOn(page) : tier[l] = "skip" /\ ~Member(l)}
PageUnit(l) ==
  LET unit == UnitOf(l, LinesOn(page), links)
  IN  IF unit # {l} /\ Complete(l, LinesOn(page), links) THEN unit ELSE {}
Escalated(tier) ==
  IF ~CanEscalate THEN {}
  ELSE {l \in LinesOn(page) : tier[l] = "escalate" /\ ~Member(l)} \cup
       UNION {PageUnit(l) : l \in {m \in LinesOn(page) : tier[m] = "escalate" /\ Member(m)}}

\* Mutated form: no sibling for the escalated lines.
WorkItemsNoSibling(chunks, skip, escalate) ==
  [i \in 1 .. Len(chunks) |-> [chunks[i] EXCEPT !.targets = @ \ (skip \cup escalate)]]

\* _work_items: the primary producer's chunk, then its escalated sibling.
WorkItems(chunks, skip, escalate) ==
  [i \in 1 .. 2 * Len(chunks) |->
     LET chunk == chunks[(i + 1) \div 2]
     IN  [chunk EXCEPT !.targets = IF i % 2 = 1 THEN @ \ (skip \cup escalate)
                                   ELSE (@ \ skip) \cap escalate]]

\* process_page and _plan_page_chunks: plan the page, decide what the router
\* skips, queue the rest.
StartPage ==
  /\ pc = "page"
  /\ LET plan == PlanOf("AUTO", LinesOn(page), links)
     IN  /\ links' = links \ plan.splits
         /\ splits' = splits \cup plan.splits
         /\ \/ /\ ~Routing
               /\ queue' = plan.chunks
               /\ UNCHANGED line
            \/ /\ Routing
               /\ \E tier \in [LinesOn(page) -> {"skip", "primary", "escalate"}] :
                    /\ queue' = WorkItems(plan.chunks, Skipped(tier), Escalated(tier))
                    /\ line' = [l \in Lines |-> IF l \in Skipped(tier)
                                                THEN LD!Accepted(line[l], "ocr")
                                                ELSE line[l]]
  /\ pc' = "chunk"
  /\ UNCHANGED <<page, work, top, cur, budget, attempt, calls, finish, produced>>

\* A chunk with nothing to send, or routed down to no target, is dropped.
DropChunk ==
  /\ pc = "chunk" /\ queue # <<>>
  /\ Head(queue).lines = {} \/ (Routing /\ Head(queue).targets = {})
  /\ queue' = Tail(queue)
  /\ UNCHANGED <<pc, page, work, top, cur, budget, attempt, calls, finish, document>>

\* The page loop takes the next chunk, with a fresh purse.
StartChunk ==
  /\ pc = "chunk" /\ queue # <<>>
  /\ Head(queue).lines # {} /\ (Routing => Head(queue).targets # {})
  /\ cur' = Head(queue) /\ queue' = Tail(queue)
  /\ top' = Head(queue).targets
  /\ budget' = PerChunkBudget /\ attempt' = 1 /\ calls' = 0
  /\ pc' = "attempt"
  /\ UNCHANGED <<page, work, finish, document>>

EndPage ==
  /\ pc = "chunk" /\ queue = <<>>
  /\ IF page = NPages THEN pc' = "done" /\ UNCHANGED page
                      ELSE pc' = "page" /\ page' = page + 1
  /\ UNCHANGED <<queue, work, top, cur, budget, attempt, calls, finish, document>>

----
\* The attempt loop of one chunk.

\* Mutated form: the purse forgotten.
CapOfPolicy == MaxAttempts

\* attempts_allowed: the policy's cap, bounded by the purse.
Cap == IF MaxAttempts <= budget THEN MaxAttempts ELSE budget

\* The lines a hyphen-integrity refusal may name: a tail among the targets with
\* its partner, as far as the chunk holds them.
Refusable == {{k[1], k[2]} \cap cur.lines : k \in {j \in links : j[1] \in cur.targets}}

\* Mutated form: every join owned by its tail.
JoinsByTail(targets) == {k \in links : k[1] \in targets}

\* The joins a chunk owns: by their tail on the page, by their head across pages.
JoinsOf(targets) ==
  {k \in links : IF Crosses(k) THEN k[2] \in targets ELSE k[1] \in targets}

\* The call is charged to the purse and its valid reply goes to the finish; what
\* the producer said of the targets is captured for the edit script.
BeginFinish(reply, neutralised) ==
  /\ changed' = reply /\ neutral' = neutralised
  /\ produced' = [l \in Lines |-> IF l \notin cur.targets THEN produced[l]
                                  ELSE IF l \in reply THEN "cor" ELSE "ocr"]
  /\ joins' = JoinsOf(cur.targets)
  /\ undecided' = {l \in cur.targets : IsPending(l)}
  /\ budget' = budget - attempt /\ calls' = calls + 1
  /\ pc' = "reconcile"
  /\ UNCHANGED <<page, queue, work, top, cur, attempt, todo, reverts, line, links, splits>>

\* The producer answers and the validator finds nothing to refuse.
ReplyAccepted ==
  /\ pc = "attempt" /\ attempt <= Cap
  /\ \E reply \in SUBSET cur.lines : BeginFinish(reply, {})

\* VR-10: on the last attempt the pairs still refused are put back to their
\* source, and the rest of the reply stands.
PairsSettled ==
  /\ pc = "attempt" /\ attempt = Cap
  /\ \E refused \in SUBSET Refusable \ {{}} :
       \E reply \in SUBSET (cur.lines \ UNION refused) : BeginFinish(reply, UNION refused)

\* A transient error, a malformed reply or a refused pair with attempts left.
RetryAttempt ==
  /\ pc = "attempt" /\ attempt < Cap
  /\ attempt' = attempt + 1 /\ calls' = calls + 1
  /\ UNCHANGED <<pc, page, queue, work, top, cur, budget, finish, document>>

\* Mutated form: the units left behind.
FallenChunkAlone(chunk) ==
  FallBack(chunk.targets, ReasonFor(chunk.targets, "all_attempts_exhausted",
                                    "hyphen_unit_fallback"))

\* _apply_chunk_fallback: the chunk's targets, then the rest of their units.
FallenChunk(chunk) ==
  FallBack(UnitsContaining(chunk.targets, Pool, links),
           ReasonFor(chunk.targets, "all_attempts_exhausted", "hyphen_unit_fallback"))

\* Mutated form: the context descends with the targets.
DescentLinesAndContext == cur.lines

\* Only the targets of a failed chunk descend.
DescentLines == cur.targets

\* The last attempt failed on a recoverable error: the targets descend to a finer
\* granularity if there is one and the purse can still pay.
Descend ==
  /\ pc = "attempt" /\ attempt = Cap
  /\ Finer(cur.grain) # "none" /\ budget - attempt > 0
  /\ LET plan == PlanOf(Finer(cur.grain), DescentLines, links)
     IN  /\ work' = plan.chunks \o work
         /\ links' = links \ plan.splits
         /\ splits' = splits \cup plan.splits
  /\ budget' = budget - attempt /\ calls' = calls + 1
  /\ pc' = "sub"
  /\ UNCHANGED <<page, queue, top, cur, attempt, finish, line, produced>>

\* ... or the chunk falls back to its source.
GiveUp ==
  /\ pc = "attempt" /\ attempt = Cap
  /\ Finer(cur.grain) = "none" \/ budget - attempt <= 0
  /\ line' = FallenChunk(cur)
  /\ budget' = budget - attempt /\ calls' = calls + 1
  /\ pc' = "sub"
  /\ UNCHANGED <<page, queue, work, top, cur, attempt, finish, links, splits, produced>>

\* The descent takes its next sub-chunk, on the purse of the chunk it came from.
StartSub ==
  /\ pc = "sub" /\ work # <<>> /\ budget > 0
  /\ cur' = Head(work) /\ work' = Tail(work)
  /\ attempt' = 1 /\ pc' = "attempt"
  /\ UNCHANGED <<page, queue, top, budget, calls, finish, document>>

\* Mutated form: the sub-chunk stays at the head of the descent.
ExhaustedSubKept ==
  /\ pc = "sub" /\ work # <<>> /\ budget <= 0
  /\ line' = FallenChunk(Head(work))
  /\ UNCHANGED <<control, finish, links, splits, produced>>

\* The purse ran out: the rest of the descent falls back.
ExhaustedSub ==
  /\ pc = "sub" /\ work # <<>> /\ budget <= 0
  /\ line' = FallenChunk(Head(work)) /\ work' = Tail(work)
  /\ UNCHANGED <<pc, page, queue, top, cur, budget, attempt, calls, finish,
                 links, splits, produced>>

EndChunk ==
  /\ pc = "sub" /\ work = <<>>
  /\ pc' = "chunk"
  /\ UNCHANGED <<page, queue, work, top, cur, budget, attempt, calls, finish, document>>

\* Mutated form: the sub-chunk's own targets only.
LimboOfSub == {l \in cur.targets : IsPending(l)}

\* The targets an absorbed error leaves undecided.
Limbo == {l \in top : IsPending(l)}

\* _run_chunk_absorbing and _absorb_chunk_error: any other domain error ends the
\* whole top-level chunk; its targets still undecided fall with their units.
AbsorbError ==
  /\ pc = "attempt"
  /\ LET fallen == UnitsContaining(Limbo, Pool, links)
     IN  line' = FallBack(fallen, [l \in Lines |-> "chunk_error_absorbed"])
  /\ work' = <<>> /\ calls' = calls + 1
  /\ pc' = "sub"
  /\ UNCHANGED <<page, queue, top, cur, budget, attempt, finish, links, splits, produced>>

\* A permanent refusal by the provider or a programming error: the run fails.
FailRun ==
  /\ pc = "attempt"
  /\ pc' = "failed" /\ calls' = calls + 1
  /\ UNCHANGED <<page, queue, work, top, cur, budget, attempt, finish, document>>

\* The cancellation probe, polled between pages, chunks and sub-chunks and by the
\* producer during a call.
Abort ==
  /\ \/ pc \in {"page", "attempt"}
     \/ pc = "chunk" /\ queue # <<>>
     \/ pc = "sub" /\ work # <<>>
  /\ pc' = "aborted"
  /\ UNCHANGED <<page, queue, work, top, cur, budget, attempt, calls, finish, document>>

----
\* The finish of a chunk whose reply is valid.

FirstJoin == CHOOSE k \in joins : \A j \in joins : k[1] <= j[1]

\* _reconcile_one_pair on the first join in reading order.  The tail's text is its
\* decision if it has one; the head's always comes from this reply.
Reconcile ==
  /\ pc = "reconcile" /\ joins # {}
  /\ LET tail == FirstJoin[1]
         head == FirstJoin[2]
         text == [l \in Lines |-> IF l = tail /\ ~IsPending(l) THEN line[l].text ELSE Said(l)]
         pair == {tail, head}
     IN  \/ /\ ~IsFallen(tail) /\ ~IsFallen(head)
            /\ line' = [l \in Lines |-> IF l \in pair THEN LD!Accepted(line[l], text[l])
                                        ELSE line[l]]
         \/ /\ IsFallen(tail) \/ IsFallen(head) \/ text[tail] = "cor" \/ text[head] = "cor"
            /\ line' = FallBack(pair, [l \in Lines |-> "hyphen_pair_fallback"])
  /\ joins' = joins \ {FirstJoin}
  /\ UNCHANGED <<control, changed, neutral, todo, undecided, reverts, links, splits, produced>>

EndReconcile ==
  /\ pc = "reconcile" /\ joins = {}
  /\ todo' = cur.targets
  /\ pc' = "accept"
  /\ UNCHANGED <<page, queue, work, top, cur, budget, attempt, calls, changed, neutral,
                 joins, undecided, reverts, document>>

NextLine == CHOOSE l \in todo : \A m \in todo : l <= m

PartnerFell(l) == \E m \in Partners(l, links) \cap Pool : IsFallen(m)

\* Stage C on the next target, in reading order.
\* A line the reconciler decided in this chunk faces the attachment guards only;
\* any other decided line is left alone.
RevisitLine ==
  /\ pc = "accept" /\ todo # {} /\ ~IsPending(NextLine)
  /\ \/ UNCHANGED reverts
     \/ /\ NextLine \in undecided /\ line[NextLine].text = "cor"
        /\ reverts' = reverts \cup {NextLine}
  /\ todo' = todo \ {NextLine}
  /\ UNCHANGED <<control, changed, neutral, joins, undecided, document>>

\* An undecided line: an opener whose correction lost its mark falls, then one
\* whose partner fell, then check_line accepts the text or refuses a change.
DecideLine ==
  /\ pc = "accept" /\ todo # {} /\ IsPending(NextLine)
  /\ LET l == NextLine
     IN  \/ /\ Opener(l) /\ Said(l) = "cor"
            /\ line' = [line EXCEPT ![l] = LD!Fallen(@, "orphan_hyphen_completed")]
         \/ /\ PartnerFell(l)
            /\ line' = [line EXCEPT ![l] = LD!Fallen(@, "hyphen_partner_fell_back")]
         \/ /\ ~PartnerFell(l)
            /\ line' = [line EXCEPT ![l] = LD!Accepted(@, Said(l))]
         \/ /\ ~PartnerFell(l) /\ Said(l) = "cor"
            /\ line' = [line EXCEPT ![l] = LD!Fallen(@, "guard_refused")]
  /\ todo' = todo \ {NextLine}
  /\ UNCHANGED <<control, changed, neutral, joins, undecided, reverts, links, splits, produced>>

\* _revert_units, then the fall of the lines VR-10 had put back; the reply and the
\* chunk's working sets go out of scope.
SettleChunk ==
  /\ pc = "accept" /\ todo = {}
  /\ LET units == UnitsContaining(reverts, Pool, links)
     IN  line' = FallBack(units \cup neutral,
                          [l \in Lines |-> IF l \in reverts THEN "guard_refused"
                                           ELSE IF l \in units THEN "hyphen_unit_fallback"
                                           ELSE "pair_drift_fallback"])
  /\ changed' = {} /\ neutral' = {} /\ undecided' = {} /\ reverts' = {}
  /\ pc' = "sub"
  /\ UNCHANGED <<page, queue, work, top, cur, budget, attempt, calls, joins, todo,
                 links, splits, produced>>

----
Terminal == {"done", "aborted", "failed"}

Stopped == pc \in Terminal /\ UNCHANGED vars

\* The steps the run takes by itself, given that every call returns or raises.
Work ==
  \/ StartPage \/ DropChunk \/ StartChunk \/ EndPage
  \/ ReplyAccepted \/ PairsSettled \/ RetryAttempt \/ Descend \/ GiveUp
  \/ StartSub \/ ExhaustedSub \/ EndChunk \/ AbsorbError
  \/ Reconcile \/ EndReconcile \/ RevisitLine \/ DecideLine \/ SettleChunk

Next == Work \/ FailRun \/ Abort \/ Stopped

Spec == Init /\ [][Next]_vars

\* A producer call returns or raises, and the event loop runs the coroutine on;
\* nothing obliges the host to cancel or a call to fail.
FairSpec == Spec /\ WF_vars(Work)

----
\* Properties.

\* The state of the page loop, the purse, the working sets of the finish and the
\* links have the shapes the code gives them.
TypeOK ==
  /\ pc \in Terminal \cup {"page", "chunk", "sub", "attempt", "reconcile", "accept"}
  /\ page \in 1 .. NPages
  /\ queue \in Seq(Chunks) /\ work \in Seq(Chunks) /\ cur \in Chunks
  /\ top \subseteq Lines
  /\ budget \in 0 .. PerChunkBudget /\ attempt \in 0 .. MaxAttempts /\ calls \in Nat
  /\ changed \subseteq Lines /\ neutral \subseteq Lines /\ todo \subseteq Lines
  /\ undecided \subseteq Lines /\ reverts \subseteq Lines
  /\ links \subseteq InitLinks /\ splits \subseteq InitLinks /\ joins \subseteq InitLinks
  /\ line \in [Lines -> LD!Decision]
  /\ produced \in [Lines -> {"none", "ocr", "cor"}]

\* Between two top-level chunks, and at the end of a run that delivers a result.
AtRest == pc \in {"page", "chunk", "done"}

\* core/decide.py I-1, through every pass of the page loop: a line carries a
\* fallback reason exactly when it fell back, and then it holds its source text.
FallenIsSource == LD!FallenIsSource

\* The page loop writes decisions only as decide.py promises them: a fallen line is
\* never resurrected by a later reconcile, skip or acceptance, and the first
\* reason stays.
DecisionsHold == LD!Spec

\* A descent never multiplies the cost: a top-level chunk and everything it
\* descends to make at most per_chunk_budget producer calls (ChunkBudget).
Purse == calls <= PerChunkBudget

\* The run may degrade, it may never continue with undecided lines: when a
\* top-level chunk ends, whether finished, fallen back, exhausted or absorbed, all
\* its targets are decided; when a page ends, all its lines are.
NoLimbo ==
  /\ pc = "sub" /\ work = <<>> => \A l \in top : ~IsPending(l)
  /\ \A l \in Lines : PageOf[l] < page \/ pc = "done" => ~IsPending(l)

\* ADR-010, for words broken over two lines: between chunks both halves fell back or
\* neither did, whichever page, chunk, descent or error decided each of them.
PairWhole ==
  AtRest => \A k \in links :
    ~IsPending(k[1]) /\ ~IsPending(k[2]) => (IsFallen(k[1]) <=> IsFallen(k[2]))

\* ADR-010 for words over any number of lines, as the texts show it: no word is
\* rewritten on one line and verbatim, fallen back, on the next.
UnitWhole ==
  AtRest => \A k \in links :
    /\ IsFallen(k[1]) => line[k[2]].text # "cor"
    /\ IsFallen(k[2]) => line[k[1]].text # "cor"

\* A correction that stands is what the producer answered for that line as a target;
\* a line it was never asked about keeps its source text.  A head is never frozen on
\* the raw OCR of a reply that did not mention it.
OwnAnswer ==
  AtRest => \A l \in Lines : line[l].status = "corrected" =>
    \/ line[l].text = produced[l]
    \/ produced[l] = "none" /\ line[l].text = "ocr" /\ Routing

\* The report tells a decision from its consequence: a line said to have fallen
\* with its unit or its partner has a unit member that fell for a reason of its own.
Consequence == {"hyphen_unit_fallback", "hyphen_partner_fell_back"}
CauseReported ==
  \A l \in Lines : line[l].reason \in Consequence =>
    \E m \in UnitOf(l, Lines, InitLinks) :
      IsFallen(m) /\ line[m].reason \notin Consequence

\* While a chunk runs, only its targets and the lines their units tie to them are
\* decided: a context line is left to the chunk that owns it.
OnlyOwnUnits ==
  [][~AtRest => \A l \in Lines : line'[l] # line[l] =>
                  l \in UnitsContaining(top, Lines, InitLinks)]_vars

\* Every run ends: retries, descents and the page loop cannot go on for ever.
Terminates == <>(pc \in Terminal)

====
