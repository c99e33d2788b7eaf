# A verification of the saknussemm engine

saknussemm corrects the text of digitised newspapers (ALTO and PAGE XML). A *producer*, usually a
language model, proposes edits; the engine decides line by line what may stand, keeps the halves of
words broken at a line end together, and rewrites the files. This directory holds TLA+ models of
that decision engine, the TLC runs that check them on small documents, and the theorems TLAPS proves
of them for every document.

Source paths below are relative to `src/src/saknussemm/`.

## 1. The system

| Component | State it keeps | Operations | Talks to |
|---|---|---|---|
| Decision writer `core/decide.py`, `core/traces.py` | a line's text, status, reasons | `accept`, `fall_back`, `refer_for_review`, `renormalise` | called by every pass |
| Hyphen units `core/units.py`, `core/workspace.py` | pair and forward pointers of lines | derive units, close a set over them, cut a link | planner, outcome, acceptance, approval |
| Linker `core/pairing.py`, `core/indexing.py` | the same pointers, once, at load | link lines, link pages, collect cross-page partners | parsers, page loop |
| Planner `core/planner.py` | none (cuts links) | `plan_page` at four granularities | driver |
| Page loop `core/pipeline.py`, `core/driver.py` | `RunContext`: counters, splits, captured edits | pages, chunks, descents, absorbed errors | planner, router, attempt loop, outcome |
| Attempt loop `core/attempt.py`, `core/retry.py` | `ChunkBudget`, attempt number | call, validate, retry, settle a pair | producer, validator |
| Router, batching `core/routing.py`, `core/batching.py` | none | tiers, sibling chunks, image-cap batches | driver |
| Outcome `core/outcome.py` | none | finish, fall back, absorb | reconcile, acceptance |
| Reconciler `core/reconcile.py`, `core/hyphenation.py` | join metrics | claim joins, decide them in reading order | outcome |
| Acceptance `core/acceptance.py`, `core/guards.py` | none | stage C; adjacency, loss and review passes | outcome, finalise |
| Finalisation `core/finalize.py`, `core/decisions.py`, `core/review.py` | the `DecisionSet` | the passes in order, materialise | pipeline |
| Approval `approval.py` | an amended `DecisionSet` | `approve` | rendering |
| Edit protocol `core/editing.py` | none | apply a script of edits to lines | attempt loop, report |
| Rendering `core/rendering.py`, `core/projection.py` | corrected files, undeliverable files | rewrite, verify what was written | formats |
| Result `core/result.py`, `core/report.py` | the result; files on disk | build, `write` | host |
| Page alignment `core/page_alignment.py` | none | match or re-cut a page-wide reply | page producers |
| Preflight `core/preflight.py`, `core/identity.py` | captured source bytes | refuse, capture | pipeline |
| Formats, producers, integrations, facade | – | parse, rewrite, prompt | engine, host |

Interactions. The parsers build a manifest (lines, pages, hyphen pointers) that the linker completes
and the run copies; the page loop hands chunks of it to the attempt loop, which calls the producer,
validates the reply and captures the edits; outcome, reconciler and acceptance write decisions
through the decision writer; finalisation runs its passes over the whole document; the adapters
rewrite the captured bytes with the decided texts; the result writes the files. Approval starts again
from a result and a manifest.

One run is one coroutine: pages in order, chunks in order, one call to the producer at a time. There
is no parallelism inside a run; the hard behaviour is in the *order*: what a chunk decides for lines
of another chunk or page, what a retry, a descent, an exhausted purse, an absorbed error or a
cancellation leaves behind, and which pass touched a line first. The rule that makes it hard is
ADR-010: a *hyphen unit*, the lines a broken word runs over, lives or falls back as one, although its
lines are planned, called, reconciled, accepted, reviewed and approved by different steps.

What makes each component correct:

- *decisions*: a line that fell holds its source text, for ever, with the reason of the pass that
  first took its correction away;
- *planner*: every line of a page is decided by exactly one chunk; a lone line's request shows the
  line after it when both fit a window with overlap; a word that fits is planned
  whole; a cut is recorded; a request goes past its budgets only for a word, up to a limit;
- *page loop*: no line stays undecided; no settled line is decided again; a chunk decides its own
  targets and their units only; calls are bounded; the run ends;
- *units*: the two halves of a word fall together, through every path;
- *finalisation*: passes divide no word, referrals describe corrections that stand, taken-away
  corrections are kept when they are promised to be;
- *linker*: a line is linked once each way, no break is lost in silence, references resolve, markup
  stays with its word;
- *batching*: no call carries more images than its producer takes, and no line is lost to the split;
- *edit protocol*: what an edit does depends neither on the order edits are sent in nor on the other
  edits around it; nothing leaves its budget; a published script never invents a text;
- *page alignment*: every line gets its own line of a reply, or nothing;
- *rewriter*: the artefact spells the decision, what goes is counted, a second run changes nothing;
- *rendering and writing*: outputs come from the bytes decided on; a directory never holds a report of
  what is not there;
- *approval*: verdicts are heard, silence is not consent, words stay whole.

The hazards behind these, each at its line, are in `PROJECT.json`.

## 2. The modules

| Module | Models | State and actions |
|---|---|---|
| `HyphenUnits` | `core/units.py`, pointers of `core/pairing.py` | links as a set of pairs `<<tail, head>>`; `UnitOf`, `UnitsContaining`, `Complete` over a pool of visible lines |
| `LineDecision` | `core/decide.py` | **abstract specification**: `line[l]` = status, text, reason; `Becomes` allows the four verbs, each where the engine may use it |
| `Pairing` | `core/pairing.py`, the roles both parsers read, the cut of `core/units.py` | `lm[l]`, the hyphen fields of a line's manifest; `LinkLine`, `PagesLinked`, `Rename`, `LinkSeam`, `SeamsLinked`, `Split` |
| `Plans` | `ChunkPlan`, between `core/planner.py` and `core/driver.py` | a plan of a page: `PlanContract`, what the driver may count on, and `WholeUnits`, that it divides no word |
| `Planner`, `Batching` | `core/planner.py`, `core/batching.py` | operators: `PlanPage` gives the chunks and the cuts, `Capped` splits chunks at an image cap; their loops are the sets of positions they stop at (`Stops`, `Gathered`) |
| `PlannerCheck` | planner under the driver | picks links, configuration and granularity, plans, then re-plans the targets of any chunk one level finer, then batches |
| `PageDriver` | `core/pipeline.py`, `driver.py`, `attempt.py`, `outcome.py`, `reconcile.py`, `acceptance.py` (stage C), `routing.py` | the page loop, see below |
| `Finalize` | `core/finalize.py`, document-wide passes of `acceptance.py`, `decisions.py` | `phase` steps through adjacency, break characters, loss policy, review, decided |
| `Approval` | `approval.py` | extends `Finalize`; `Judge`, `Approve`, `RefuseApproval` |
| `Positions` | – | sets in order (`Ordered`, `Ranked`), parts of sequences (`Chosen`, `Sifted`) and loops (`Stops`, `Gathered`), without recursion: what sorting, filtering and grouping in the Python code come to |
| `Editing` | `core/editing.py` | operators on texts: anchors (`Where`), what a script makes of a line (`LineVerdict`), of a page (`Applied`), refusals and budget |
| `PageAlignment` | `core/alignment.py`, `core/page_alignment.py`, `producers/page_llm.py` | operators: the banded alignment (`CostOf`, `AlignTokens`), the re-cut of a reply (`Opcodes`, `Cuts`, `Pieces`), the edits of a page reply (`PageOps`) |
| `Replies` | `core/validator.py`, normalisation and capture of `core/attempt.py`, the script of `core/report.py`, its replay | `Edit`, `AnswerPage`, `Propose`, `PutBackPairs`, `Decide`, `Refuse`, `Publish`, `Replay` over `captured`, `decided`, `final`, `replayed` |
| `AltoLine` | `formats/alto/_text.py`, hyphen fields of `parser.py`, `rewriter.py` | operators on the children of a TextLine: `Spelled`, `Parsed`, `PathOf`, `Rewritten`, `Lost` |
| `AltoRewrite` | a TextLine through two runs, with its neighbours; `core/projection.py` | `Link`, `Fall`, `Refuse`, `Accept`, `Rewrite`, `Again`, `DecideAgain` |
| `Delivery` | `core/preflight.py`, `formats/_snapshot.py`, `core/rendering.py`, `core/provenance.py`, `CorrectionResult.write` | files that change under the run, see below |
| `MC*` | – | the small documents and configurations of the runs |
| `BasicFacts` | – | lemmas the proof modules share: hyphen units, sets in order, parts of sequences, loops |
| `PlannerProofs`, `PageDriverProofs`, `OutcomeProofs`, `PairingProofs`, `DeliveryProofs`, `RepliesProofs`, `AltoRewriteProofs` | – | theorems and proofs, one module per component; `OutcomeProofs` holds those about the decisions themselves, the passes over the document and the approval |

How they compose. `PageDriver` takes the planner as the constant operator `PlanOf`, so that its
proofs hold for every planner that keeps `PlanContract`; the runs give it the real one
(`MCPageDriver` instantiates `Planner`), and `PlansKeepContract` proves that the real one keeps it.
`PlannerCheck` puts that planner, the image cap and the driver's descents together. `PageDriver` and `Finalize` instantiate `LineDecision` and are shown
to implement it (`DecisionsHold`, `PassesDecide`). `Pairing` establishes what the others assume of
links (`WellLinked`, with the openers nothing continues that `PageDriver` calls `Dangling`).
`Approval` continues `Finalize`; `Replies` is built from `PageAlignment` and `Editing`; `AltoRewrite`
uses the alignment of `PageAlignment` on words, as the rewriter does.

### The page loop in `PageDriver`

`pc` is where the coroutine stands. Every step between two values of `pc` is code without an `await`,
or one producer call with its outcome.

| `pc` | Actions | Code |
|---|---|---|
| `page` | `StartPage` | `process_page`, `_plan_page_chunks`, router |
| `chunk` | `StartChunk`, `DropChunk`, `EndPage` | the loop of `process_page`, `_process_pages` |
| `attempt` | `ReplyAccepted`, `PairsSettled`, `RetryAttempt`, `Descend`, `GiveUp`, `AbsorbError`, `FailRun` | `_attempt_chunk`, `_pair_fallback`, `_handle_failed_attempt`, `_handle_chunk_failure`, `_run_chunk_absorbing` |
| `sub` | `StartSub`, `ExhaustedSub`, `EndChunk` | the loop of `_descend_granularity` |
| `reconcile` | `Reconcile`, `EndReconcile` | `_claim_joins`, `_reconcile_one_pair` |
| `accept` | `RevisitLine`, `DecideLine`, `SettleChunk` | `_apply_line_acceptance`, `_revert_units`, the pair fallback of `_run_chunk` |
| any pause | `Abort` | the `should_abort` probe between pages, chunks, sub-chunks and during a call |

The recursion of `_run_chunk` and `_descend_granularity` is a depth-first worklist `work`; the purse
(`budget`) belongs to the top-level chunk, whose targets are `top`. `calls` counts the producer calls
made for it. `changed` is the validated reply: the lines it gives another text. `produced` is
`ctx.producer_ops`.

### Files and outputs in `Delivery`

| `pc` | Actions | Code |
|---|---|---|
| `idle`, `parse` | `Load`, `ParseFile` | `build_document_manifest`, one read per file, stamped |
| `loaded`, `capture` | `StartRun`, `Capture`, `Preflight`, `RefuseChanged`, `Unreadable` | `_snapshot_sources`, the digest check |
| `render` | `Render`, `Finish` | `_render_outputs` with a built-in adapter behind `SnapshotAdapter` |
| `render`, `reread`, `recheck` | `OwnRead`, `OwnRewrite`, `OwnChecked`, `OwnWithheld` | a host's adapter, `_require_unchanged` before and after it |
| `result`, `xmls`, `report`, `sidecar`, `written` | `Write`, `WriteXml`, `XmlsWritten`, `WriteReport`, `WriteSidecar`, `WriteFails`, `NextRun`, `NewDirectory` | `CorrectionResult.write`, one `_replace_output` at a time |
| any | `Edit` (somebody changes or removes a source), `Crash` | – |

A crash keeps the directory and loses everything else; a failed write keeps the result, which may be
written again. Both are how the code meets them: each file is replaced atomically, the set is not.

### Texts: `Editing`, `PageAlignment`, `Replies`, `AltoLine`

Where the properties are about the texts themselves they are sequences of one-character strings, and
the code's conversions are modelled by what they do: trimming, splitting in words, finding an anchor,
slicing, reading the children of a TextLine as a text. The operators compute what the Python
functions compute on such texts, over small alphabets.

### What is abstracted

- In `LineDecision`, `PageDriver`, `Finalize`, `Approval`: a text is its line's source (`ocr`), some
  other text (`cor`), or nothing yet. Guards, drift tests, review rules and scores read characters;
  there each is a choice of the lines it fires on, within the conditions the code puts around it (a
  guard refuses only a text that differs from the source, the reconciler refuses a pair only if a
  side differs or fell, ...).
- Ids: lines are numbers in document order, except in `Replies`, where two pages share a line id.
- `PageDriver` assumes links as `Pairing` leaves them: at most one each way per line, later line as
  head, only lines without text between.
- `Pairing`: the default policy reads the characters at the seam; here it may accept or refuse any
  candidate. `source` says of each line whether it is blank, how its break is marked and whether it
  opens with `HypPart2`.
- A failed attempt: transient error, malformed reply and refused pair differ in back-off, temperature
  and message, which decide nothing. All of them are retryable, so the test `can_downgrade` is true
  when attempts run out. An error outside the recoverable families either ends the top-level chunk
  (`AbsorbError`) or the run (`FailRun`).
- `PageDriver` puts back the two ends of links, each line for a word it is part of, and settles what
  it puts back. Where a line shares its id with a line of the next file, the code may put back a line
  of no word (section 5). It may also meet a pair it cannot settle on the last attempt: one with a
  line without source text is refused again when it is put back (`core/attempt.py:401`), the error
  leaves the attempt loop and the chunk falls. Neither is modelled.
- `Finalize` starts from any decided document, with any of the links cut; it does not replay the
  page loop. The review is modelled with the reasons of a line as one flag.
- `Approval`: verdicts that name no line of the document, two verdicts on one line and a result of
  another document raise before anything happens, and are left out with the rendering that follows.
- `Replies`: the guards that let a text stand are a choice; an answer to a page is its list of lines,
  with line separators already flattened by the JSON reader; a page is one chunk.
- `AltoLine`: children are Strings, SPs and HYPs with the attributes the properties speak of. There
  is no geometry, no glyph, no no-break space; the soft hyphen occurs in HYPs only.
- `Delivery`: a content is a version. A rewrite that does not say what was decided may happen to any
  file. Nothing reads the sources while a result is written.

## 3. The runs

| Run | Question | Bounds |
|---|---|---|
| `planner` | Is every plan, at every granularity, after a descent and after batching, an exact division of the page whose requests go past their budgets only for a word, up to the planner's limit? | 6 lines in 3 blocks, every link set the linker can leave that skips at most one line, every configuration of the caps listed in `MCPlanner` |
| `driver_pairs` | Do retries, descents, pair settlement, absorbed errors, cancellation and failure keep words whole and lines decided, and does the run end? | 6 lines on 3 pages (one without text), one word in a page, one across two, a dangling opener; purse 4, 2 attempts |
| `driver_windows` | The same with overlapping windows, context lines and a router that skips, keeps or escalates any line: is anything left undecided, or decided by another chunk? | purse 4, 1 attempt |
| `finalize` | Do the document-wide passes keep words whole, in every order of reverts and under each loss policy? Do verdicts, silence and the run's own falls then combine into whole words? | 4 lines, 2 files, a word over three lines with any link cut, every verdict |
| `pairing` | Is each line linked once each way, no break lost, every reference resolved, markup kept on its word? | lines on 3 pages of 2 files that share a page id, everything a file may say of them, every answer of the policy, every cut |
| `delivery` | Can a directory of outputs be trusted, however sources change and writes fail? | 2 files, 2 contents, 2 runs |
| `replies` | Do edits land where they say, within budget, on their own line, and does a replay of the published script deliver nothing that was not decided? | 3 documents: a pair of lines with a word broken between them; two one-line pages of two files that share a line id; a page of three lines, one shown for context only, answered as a list of lines. 2 edits a reply, bands 0 and 20 |
| `rewriting` | Is any word lost, any loss not counted, any ID doubled, and is the output stable under a second run? | every shape of break markup on a line of one or two Strings, every neighbour, every decision of `MCAltoRewrite` |
| `driver_chain`, `pairing_seam`, `rewriting_space`, `rewriting_guess` | Statements of the repository the code does not keep, section 5 | as above |

Why these bounds are enough for the cases to happen. In `driver_pairs` the page of four lines is
planned as one request, descends to two blocks, then to windows and lines; a purse of 4 with 2
attempts runs dry after the second failing chunk, in the middle of a descent, and is generous enough
for a sub-chunk to succeed after its parent failed. The cross-page word has a page without text
between its halves, so that its partners are not on neighbouring page numbers. In `driver_windows`
the block is larger than the request limit, so that windows overlap and each has context lines owned
by its neighbour. `WindowSlack` is 2 in the runs and 10 in the code: the windows of six lines must
meet the limit. In `planner` the caps are below, at and above the size of the page, and the image cap
is smaller than some words, which must then be refused and not divided. In `pairing` three pages are
what it takes for a page in the middle to be without text; two of them share an id, so renaming
happens; a line may be promoted by its own page and again by a seam. In `delivery` two runs into one
directory are what it takes for an old report to lie beside new files. In `replies`, `Scale` = 12 is divisible by the size
of every union of words that occurs, so similarities are exact; `MergeSlack` = 1 lets a line lose a
word and still be matched; with the band 0 the best path is not in the corridor. In `rewriting` two
Strings are what it takes for the edge String, the aligned one and the one a word came from to
differ.

Deadlock is checked on the page loop and on `delivery`: the first has explicit terminal states, in
the second a source can be edited or the process restarted. The other runs stop when the plan is at
its finest level, the decisions are taken or approved, the links are cut, the script has been
replayed or the second pass is written, and say so.

*Fairness.* `Terminates` is checked under weak fairness of `Work`, everything the run does by
itself: a producer call returns or raises (clients time out, and the engine awaits nothing else but
its back-off sleeps), and the event loop resumes a ready coroutine. Nothing is assumed of `Abort`,
the host's choice, nor of `FailRun`. No other module states liveness: `Delivery` promises nothing
will be written, `Replies` and `AltoRewrite` are straight lines.

Every property of a passing run has a mutant: a plausible bug in one definition (a closure left out,
a swapped order, the purse ignored) under which TLC finds it violated. The mutated forms stand beside
the definitions they change.

## 4. The proofs

TLAPS checks the following for every document, every set of links, every planner that keeps
`PlanContract`, every planner configuration the code admits, every policy, any number of files,
contents and runs, every text, number of edits and children of a line. The assumptions on constants
are the named `ASSUME`s of `PlannerCheck`, `PageDriver`, `Finalize`, `LineDecision`, `Pairing`,
`Delivery`, `Replies` and `AltoRewrite`; TLC evaluates them in the runs, `PlanAssumption` for the real
planner included. Those of `PlannerCheck` are the bounds of
`ChunkPlannerConfig`'s fields and its validator that the overlap is smaller than the window;
`LinesAssumption` says that lines are numbered in page order.

### The planner and the image cap

`PlannerProofs`: **`EveryLineHasOneOwner`** (`OneOwner`), **`FittingUnitsHold`**
(`FittingUnitsStayWhole`), **`SplitsAreExact`** (`CutExactly`), **`RequestsStayBounded`**
(`RequestsBounded`, see *Budgets*), **`NextLineIsSeen`** (`FollowingContext`), **`CallsStayWithinCap`**
(`CallsWithinCap`).

- *Loops.* `_coalesce`, the windows, the chains and the batches are loops over positions, and each is
  the sequence of positions it stops at. `StopsCut`: a loop that always moves on cuts its range into
  the stretches between stops, no position lost and none twice. What would be an induction over the
  iterations is a least counterexample (`FirstExists`): the first position that no stretch holds.
  From there on everything is about sets of lines.
- *Words.* `Span` is the number of reading positions a word takes, its own lines and those between.
  A window extends until no link leaves it or the cap stops it; a word no longer than what the window
  may grow by is inside the last window that holds its first line, and every one of its lines is
  pinned to the last window that holds all of it. At LINE granularity the chain reaches the end of
  the word or the cap.
- *Budgets.* PAGE and BLOCK chunks hold both budgets. A window has a *core*, its first lines: no more
  than `line_window_size`, and within the character budget unless it is one line (`CoreEndFacts`).
  Every line past the core is one a word goes on over, because the extension loop stops at the first
  end that no link leaves (`ReachLeads`, `PastCoreReached`), and the whole is at most
  `extension_limit`, the larger of `max_lines_per_request` and of the core plus the slack. The core
  of a LINE chunk is its first line, and what lies between two stops of a chain lies under the link
  that leads from one to the next (`ChainEndFacts`). A part of a bounded request is bounded
  (`WindowLess`, `LineLess`), which is why the image cap keeps it so. The planner's own words promise
  less room (section 5).
- *State.* Every attempt of `plan_page` is `Sound` (owners, bounds, exact cuts, short words whole).
  Capping keeps `Sound`, because a sibling is a union of units of the page; a descent plans a page
  that is a chunk's targets, with the links left, and is `Sound` again. `PlanInv` carries that,
  with the cap: a descent's chunks are among the lines of a chunk that was in it.
- **`PlansKeepContract`**: `PlanPage` keeps `PlanContract`, the one assumption of the page loop about
  its planner. **`ShortWordsPlannedWhole`**: it satisfies `WholeUnits` on pages whose words are no
  longer than a chunk may be (`maxLines`) and a window may grow (`WindowSlack + 1`, 11 lines in the
  code). The bound is needed: past it the code divides words without recording a cut (section 5).

### The page loop

- **`PageTypes`** (`TypeOK`): shows, with the shapes, that the purse is never negative and that only
  links the linker left are ever cut.
- **`PurseHolds`** (`Purse`). `calls` alone is not inductive. `Charged` adds where the purse stands:
  `calls + budget` is the whole purse between attempts, and off by the attempts already made during a
  chunk, which are charged when it ends.
- **`FallenHoldSource`** (`FallenIsSource`) and **`DriverImplementsDecisions`** (`DecisionsHold`):
  each step of the page loop is a step of `LineDecision` or leaves the decisions alone. The hard
  steps are those that `accept`: `DecideLine` only meets undecided lines; `Reconcile` refuses a pair
  with a fallen side; and `StartPage`, which confirms skipped lines, is safe only because nothing has
  decided a line of this page before, unless a link ties it to an earlier page, and then it is a
  member and is never skipped. That is the invariant of the module: lines ahead of the current page
  are decided only at the head of a live cross-page link, and plans never cut those.
- **`NothingInLimbo`** (`NoLimbo`): the targets of a top-level chunk not yet decided are always
  covered by the current chunk or by the descents left (`TopCovered`), and the undecided lines of a
  page by the chunks queued (`PageCovered`). `PlanContract` and the partition made by the router
  keep both.
- **`CausesAreReported`** (`CauseReported`): a line that fell with its word has in its word a line
  that fell for a reason of its own. Inductive by itself with the links never growing: who pulls a
  unit is in it, and fell first.
- **`ChunksDecideTheirOwn`** (`OnlyOwnUnits`), from `Tops`: whatever a chunk, its descents or its
  fallbacks decide is a target of the top-level chunk or in a unit of one.
- **`CorrectionsAreAnswers`** (`OwnAnswer`), under `WholeUnitPlans`. `Owned`: among the chunks queued,
  the descents left and the running chunk, a line has one owner and a word of one page is whole in
  it. `Fresh`: what still waits for its owner has not been corrected, by whichever chunk saw it as
  context. Then the answer a line holds is the last one it was given as a target.
- **`PairsStayWhole`** (`PairWhole`), under `WholeUnitPlans` and `WordsArePairs`. `PairsEven`: two
  decided halves fell or stood together at *every* step, not only at rest; the head of a word over
  two pages is never decided before its tail; once the joins of a chunk are settled, both halves of
  each are decided; and the validator puts a word of one page back whole.

  Neither hypothesis is idle. `WholeUnitPlans` says no plan divides a word: TLC evaluates it for the
  planner of the runs (an `ASSUME` of `MCPageDriver`) and `ShortWordsPlannedWhole` proves it of the
  real planner, every configuration, while words are short. `WordsArePairs` says no line is in two
  words: it holds in `driver_pairs` and `driver_windows`, and the counterexample of `driver_chain`
  shows that the code does not keep longer words whole.

### Units and the passes over the document

- **`UnitsContainingClosed`**: the closure every fallback relies on is closed over its pool.
- **`WordsStayWhole`** (`NoNewMix`), **`PassesImplementDecisions`** (`PassesDecide`): the
  document-wide passes, from that lemma.
- **`ApprovalKeepsUnits`** (`ApprovedWhole`): both ends of a link have the same unit in the caller's
  document, so one fallen intent pulls the other.
- **`ReferralsDescribe`** (`ReferralsHold`), **`BreaksAreSettled`** (`BreaksSettled`),
  **`SidecarKeepsAll`** (`SidecarKeeps`), from `PassInv`: the lines with review notes are the ones
  under review in every phase, nobody is under review before the review, and from then on a line
  under review has no corrected partner; nothing is drifted once the break pass is over, since a
  revert only makes lines fall.
- **`SilenceNeverConsents`** (`SilenceIsNotConsent`): a line under review nobody judged falls or is
  left under review as the reader asked; closing the refusals over units only adds to what falls.

### The linker, the outputs, the abstract specification

- **`LinksAreSound`** (`LinkedOnce`), **`NoBreakLost`** (`BreaksAccounted`), **`ReferencesResolve`**
  (`Resolves`), **`MarkupStays`** (`OwnMarkup`): the four properties of `Pairing`, from `PairingInv`.
  Its core is that a link joins *consecutive* lines of text (`Linked`): two words can then neither
  meet on a line nor cross, and whoever is taken as a head is either free or the head of a seam. The
  walk links nothing ahead of itself (`NothingAhead`); a page's references stay on it until pages
  have their final names (`Referring`, `Named`), which differ by the file where they met; `Sided`
  says on which side of a line each piece of markup is. `LinkedOnce` contains `WellLinked`, which the
  modules after the linker assume of their links.
- **`RenderedAsDecided`**, **`ReportDescribes`**, **`WithheldAbsent`**, **`WriteLeavesOne`**: the four
  properties of `Delivery`. None is inductive: a write that fails half way and is repeated meets its
  own earlier report. `DeliveryInv` adds that the captured bytes are the parsed ones once the run may
  go on (`Attested`), which files are rendered so far, that before a result exists every report is of
  an earlier run and a report of this run says what this result says (`ReportsAge`), and how far the
  write has come (`WrittenSoFar`).
- **`DecisionSourced`**, **`DecisionFinal`** on the abstract specification, which the page loop and
  the passes inherit.

### Edits and replies

`RepliesAssumption` is the typing of the inputs: pages are numbered from 1, each with its lines, their
texts and roles, edits and replies are what the schemas of `core/editing.py` admit, the budget is a
number. Nothing is assumed of the guards, the similarity scale or the bound on the number of edits.

- **`ReplayNeverInvents`** (`NeverInvents`), from `ReplyInv`. What ties a replay to a run is
  `Recorded`: for each line with captured edits, the edits name that line, and either the one of them
  that stands gave the text captured (a whole-line edit), or applying all of them to the source does
  (`Faithful`). It survives the put-back of a pair and the retry because the reply is judged afresh
  each time (`Judged`), and the later respelling of a break mark because a line whose text changed
  after the capture is published as a whole-line edit. `ScriptOnLine` then shows that the script a
  replay sees on a line is that line's part and nothing of a line of the same id on another page, and
  `ReplayGives` that its precondition holds or the line is left alone.
- **`EditsLandInPlace`** (`EditsLand`). The code splices from the right so that offsets stay those of
  the source; `SplicedInPlace` shows that this is the source with each edit where it says. The
  order edits are sent in reaches the text only through the sort: if no two name the same range, the
  sorted edits of any order are the same sequence (`RearrangedPlaced`, `PlacedGivesText`).
- **`LinesWithinBudget`** (`WithinBudget`). The guard adds up `_changed_chars` of each edit, which
  is no distance; the property speaks of the edit distance of the whole line. The proof walks the
  table of distances: copying what no edit touches keeps to the diagonal (`CopyMove`), an edit costs
  at most what is left of it without its common ends (`ReplaceMove`), and the steps join at each edit's
  end (`InPlaceNear`). The same walk serves the run and the replay, whose script was recorded by
  `ReplyInv` and is judged again on the text in hand (`ReplayIsWithin`).

### The ALTO line

`RewriteAssumption`: a line is a sequence of Strings, SPs and HYPs with the attributes the model has,
with at most one HYP, and proposals are texts. The one HYP is a hypothesis about documents and not
about the code: ALTO allows one, at the end (`formats/alto/rewriter.py:1168` says of another shape
that ALTO does not define it). On a line with several, a rebuild keeps the first and counts none of
the others. Where the HYP stands is left open.

- **`IdsStayDistinct`** (`IdsDistinct`) and **`LossesAreCounted`** (`LossesCounted`), from
  `RewriteInv`: source and tree are lines, the tree is the source until it is written, and a second
  run starts from one that kept both. A write in place leaves the children alike but for text,
  confidence and SUBS (`Alike`). A rebuild is the case with an argument: the backtrack of
  `align_tokens` only goes down, so a String answers one word at most (`BacktrackFalls`,
  `AlignedOnce`); the IDs it recycles are taken before the first word is written, and a new one is
  free because there are more candidates than IDs in use (`NewIdFree`); so no two words share an ID,
  and as many styles are kept as Strings were matched that had one (`StylesCounted`).

### What is only model-checked

- `OnOwnLine`: that the cheapest path through the corridor is the one with the evidence depends on the
  corridor being wide enough for the page, and on what the two costs are on the lines at hand.
- `SecondPassQuiet`: it compares two runs through everything a line's neighbours, links and SUBS may
  be, and speaks of the shapes of `MCAltoRewrite`.
- `WordsSurvive`: that the text a line spells splits back into the words written to it is an induction
  over characters (splitting, trimming and spelling undo one another), through every way a line is
  written. It also needs lines whose Strings are kept apart by SP or HYP, which those of
  `MCAltoRewrite` are but which `AltoRewrite` does not ask of `Lines`.
- `Terminates` and with it everything that rests on fairness: liveness and `ENABLED` are out of the
  prover's reach.
- That the loops of the planner, the table of distances, the matching blocks and the alignment are
  what the Python functions compute: each is written once, as the value the loop arrives at, and
  proved about in that form. The library's induction rules cannot be instantiated here; where an
  induction is needed the proofs look at a least counterexample (`FirstExists`) or build the function
  step by step (`RoundsDefined`). No module declares a `RECURSIVE` operator.

## 5. Where the code and its words differ

Four runs end in a counterexample on purpose; details and quotations are in `PROJECT.json`.

1. `driver_chain`: in a word over three lines of one page, the first join can be accepted and the
   second refused; the first line keeps its correction beside a fallen one. `PairWhole` holds for
   words over two lines, so the passing runs of the page loop use those; `UnitWhole` states the rule
   for all.
2. `pairing_seam`: a page ends in an open word and the next page begins with a line that opens one of
   its own. Linking the seam overwrites that line's link onward; the line below still points back.
   `LinkedOnce` excepts exactly this line.
3. `rewriting_guess`: a line that ends one word by its markup and opens another by its last character
   only gets a `HYP` when it is rebuilt.
4. `rewriting_space`: a correction that puts a space before the mark of a stated break is written
   without it, and the fidelity check stops the run. Other shapes with the same end: a forward break
   stated by `SUBS_TYPE="HypPart1"` without a `HYP`; a String that ends in "=" before a `HYP` that
   says "-"; an `SP` before the `HYP` and a correction without the space; a link cut by the planner,
   whose lines keep their `HYP`.

Met while modelling and shown by no run, each with its place:

- `core/planner.py:9` says that what overshoots the character budget is "bounded by
  `max_lines_per_request`", and lines 378 and 382 that the extension "stays line-capped". Line 383
  takes the larger of that cap and of the core plus ten lines, and the core is bounded by
  `line_window_size`, which nothing ties to `max_lines_per_request`. A window may therefore hold more
  lines than `max_lines_per_request`: its core alone may, and for a word it may grow ten lines past
  the core. `RequestsBounded` states the limit the code keeps, not the one its comments name, and the
  configurations of `MCPlanner` include windows above the cap.
- `core/reconcile.py:98`: the dict of a chunk's pairs is kept by bare line ids, which the docstring
  (line 88) calls safe because a chunk is of one page. Its last line may be linked to the first line
  of the next *file* (`link_cross_page_hyphens` goes over all pages of the run, and
  `tests/test_input_order_on_the_real_corpora.py:183` counts on it), ids are unique in one file only
  (`core/identity.py:18`), and `forward_partner_id` leaves the page out. The line of this page with
  that id, often its first, then loses its own entry and is paired with the last one: when the last
  line's reply has grown, both are put back and reported as `pair_drift_fallback`; when the other line
  is blank, no reply is accepted.
- `core/attempt.py:291` drops from the published script all edits of a line one of whose edits was
  refused, although the others were applied and delivered; `core/report.py:48` calls the script the
  edits "actually applied". `NeverInvents` is what holds.
- `approval.py:296` groups units on the caller's document, whose links no plan cut;
  `approval.py:26` promises units. A word the run had cut is judged whole.
- `core/acceptance.py:185`: a stage-C refusal reaches the direct partners on other pages and not a
  third line of the word.
- `core/planner.py:160`: a word longer than every window is divided among windows and no split is
  recorded, against `docs/promises.md:68`.
- `docs/promises.md:55`: the refusals E4 and E5 are applied to whole-line edits only in a replay. Two
  adjacent spans can together erase a mark or a first word that neither may erase alone.
- A page reply re-cut by characters that has more lines than the page leaves a line separator inside
  a piece, and validation refuses the whole reply.
- `approval.py:165` renders from the paths again, without the captured bytes and without the digest.
- `formats/alto/parser.py`: on a line of one String that both ends and opens a word, the forward
  SUBS_CONTENT is read off the String that carries the backward one. In `core/pairing.py`, a line
  with a guessed break before a `HypPart2` line makes a pair whose rewriting may strip that line's
  SUBS.
- `formats/alto/rewriter.py:585`: an Abbreviation SUBS on the edge String of a line with a hyphen
  role is removed and not counted. `LossesCounted` speaks of the other paths.
- A `HYP` written after a word that already shows its mark makes a second run rebuild the line;
  `SecondPassQuiet` speaks of lines rewritten without loss.

## 6. Not modelled, and why

- *PAGE rewriter, ALTO geometry, reading order, glyphs, processing entries*: deterministic
  transformations of the tree without state, on data (coordinates, attributes) a small model would
  only repeat.
- *Vision and LLM producers, integrations, facade*: they turn a request into edits; the engine must
  be right for whatever they send, and that is what `Replies` and `PageDriver` take from them.
- *Confidence*: numbers attached to the report after the decisions.
- *Events, redaction, schemas and field validation, the configuration refusals of preflight*: they
  leave no decision behind, or stop before anything has happened.
- *Back-off times, temperature, hyphen latch*: no decision depends on them.
- *Format services*: safe parsing, format detection and schema validation.
- *Approval's second rendering*: it is the rendering of `Delivery` without the snapshot.

## 7. The plan

Done: decisions, units, linker, planner and batching, page loop, document-wide passes, approval,
edits and replies, delivery, the ALTO line; theorems for every checked safety property of these but
the ones listed at the end of section 4.

What is left, in this order: the pairs of a chunk with ids that lines of two files share; a document-level composition of `Pairing` with the page loop, in which
the dangling openers and the links are derived and not given; `WholeUnitPlans` discharged inside
such a composition, by `ShortWordsPlannedWhole`; the PAGE rewriter if it comes to keep markup.
