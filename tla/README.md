# Formal model of the tariff order reader

TLA+ specifications of the reading and review system in this repository, the
TLC configurations that check them on small instances, and TLAPS proofs of what
matters most for every instance. Paths are relative to the repository root;
`api/` is `services/api/src/tariff_api/`, `worker/` is
`services/worker/src/tariff_worker/`. `PROJECT.json` maps every definition that
models code to the lines it models.

## 1. The system

PDF tariff orders are registered, read by a chain of worker stages, localised
and decided on by a reviewer, turned into candidate facts, reviewed fact by
fact, and published as releases. A second track reads the revenue requirement
(ARR) of the same documents and feeds filing cases.

| component | code | state it keeps | operations | how it interacts |
|---|---|---|---|---|
| job queue | `api/queue.py`, `api/routers/jobs.py` | table `jobs`: status, attempts, run_id, lease, available_at, cancel_requested, checkpoint | enqueue, claim (SKIP LOCKED), heartbeat, checkpoint, complete, fail, cancel_from_worker, request_cancel | every stage is a job; API calls enqueue and cancel, workers claim and settle |
| worker runner | `worker/runner.py`, `worker/main.py` | JobContext in memory: checkpoint, cancel and lease-lost flags; a heartbeat thread | run_once, run_forever, `--drain`, save_checkpoint, heartbeat | between the queue and the stage handlers |
| source state machine | `api/models.py`, `api/services/sources.py` | `source_documents.state`, version, stage columns | transition, enqueue_stage, request_stage_rerun, request_reprocess | moved by the stages, by the API and by publication |
| reading stages | `worker/stages/*.py` | pages, headings, regions, structure cells, candidates | inventory, triage, parse, localise, grid, extract, validate | read in one transaction, write in another, queue the successor |
| localisation checkpoint | `api/services/localisation.py` | localisation record, regions, bound profile | assign_profile, decide (confirm, correct), annotate_region | opens or closes the gate of grid and extract |
| review | `api/services/review.py`, `api/routers/review.py` | candidates' review columns, `review_decisions` | decide, undo, evidence views, batch | a correction queues a validation; publication reads the result |
| publication | `api/services/publication.py` | `data_releases`, `published_facts` | preview (token), publish | freezes the decisions it copies |
| registration | `api/services/sources.py` | one row per content hash | register_upload, register_from_object | starts the chain |
| library, acquisition | `api/library.py`, `api/discovery.py`, `worker/stages/acquire.py` | library entries: status, attempts, source | seed, reconcile, upsert, acquire | acquires through the queue, registers like an upload |
| ARR track | `api/arr/service.py`, `worker/stages/arr.py` | arr_state, chapters, ARR candidates, `arr_facts` | start, update and confirm chapters, publish | shares the queue and the review |
| ARR cases, true-up | `api/arr/cases.py`, `api/arr/trueup.py` | case status, assumption set, formulation, statement, drafts | add and remove inputs, formulate, compute, freeze, draft, revise | reads published ARR facts |
| formulation, filing, petitions | `api/arr/formulate.py`, `filing.py`, `petition*.py`, `narrative*.py` | formulations, drafts, workbooks | compute, reproduce, render, fill | driven by cases |
| mapping workbench | `api/arr/workbench.py` | mapping decisions | decide, withdraw, draft | gate of ARR approvals |
| organisations, access | `api/routers/organisations.py`, `api/workspace.py` | organisations, members, roles | create, add, remove, require | guards cases |
| evidence views | `api/services/review.py` | `evidence_views` | render_evidence, render_page_for, _check_views | a decision cites the views of its reviewer |
| page algorithms | `api/triage.py`, `readers.py`, `grid_integrity.py`, `normalise.py`, `localisation.py` | none | pages to classes, labels, regions, cells | called by the stages |
| readings | `api/extraction.py`, `clause_outline.py`, `assessment.py`, `validators.py` | none | two channels to candidates, routes and findings | called by extract and validate |
| ARR reading, rules | `api/arr/chapters.py`, `extract.py`, `taxonomy.py`, `rules.py`, `reproduce.py`, `identities.py`, `decisions.py` | none | orders to facts, rules to figures | called by the ARR stages and the cases |
| providers, OCR | `api/providers.py`, `api/ocr.py` | none | extract, assess, summarise | called by the stages, may fail |
| adapters, auth, registry, CLI, explorer, export, web, infra | the rest | none, or reference rows | | |

Hard behaviour, and where it comes from:

* **At-least-once work.** Leases expire, workers die and stall. The queue's rows
  are fenced by `(job_id, run_id)`. The domain writes of a stage are not: the
  final transaction of a run that lost its lease still commits.
* **Long reads.** A stage reads, works for minutes, and writes from what it
  read. In between its source may be re-run, corrected or bound to another
  profile.
* **Found jobs.** `enqueue_stage` returns a live job of the stage, a running one
  too, although it started from what has since been changed.
* **Unlocked requests.** API calls read at READ COMMITTED without locks and at
  commit write the columns they changed. `expected_version` is compared when
  the row is read.
* **Stale screens.** Reviewers decide on, and publishers accept, what they were
  shown some time ago.
* **Cancellation.** `request_cancel` reads and writes without a lock; a running
  handler learns of it from the heartbeat thread.

What makes each modelled component correct is stated in section 3, with the
hazards behind each property at their lines in `PROJECT.json`.

## 2. Modules

    JobLifecycle           what the queue promises of a job (abstract)
    JobQueue               table jobs, queue.py
      JobRunner            worker processes over JobQueue; implements JobLifecycle
    SourcePipeline         a source, its stages and the calls on it
    Review                 decisions, undo, validation and re-reading
      Publication          previews and releases over Review
    Evidence               what reviewers were shown of what they decide on
    ArrCase, TrueUp        a case and its inputs; TrueUp EXTENDS ArrCase
    ArrTrack, PetitionFill, Organisations, Library, Registration
                           what people do beside the review of a tariff

    Regions, Grids, Triage, Readers, Clauses          pages, tables, labels
    Channels, RateRules, NetworkRules                 readings of a region
    Validators, Worklist                              findings, queue, checklist
    WorkbookFill                                      passes of a petition fill
    Rules, Reproduction, Formulation, Decisions       the ARR computations
    Labels, Workbench, ArrGrids, Chapters             the reading of an ARR order

    MCPublication                                     an instance for TLC
    MCDesk                 ArrTrack .. Registration, one part per behaviour
    MCFindings             what is found of candidates and left to review
      MCFigures            the computations on small inputs
        MCArrFigures       with those of the ARR side, the reading of an ARR
                           order, TrueUp and Evidence

    JobRunnerProofs        queue, runner, refinement of JobLifecycle
    SourcePipelineProofs   the gate on decided regions; what reviewers get
    ReviewProofs           rows, decisions and their history
      PublicationProofs    releases; evidence views
    DeskProofs             the parts of MCDesk and MCDesk itself
    CaseProofs             ArrCase and TrueUp
    FillProofs             WorkbookFill
      FindingProofs        Validators, Worklist and MCFindings

Parts that share no rows share a run, never a state: MCDesk and MCArrFigures
begin a behaviour in one part and stay in it, so what TLC explores is the sum of
the parts.

### JobQueue and JobRunner

`JobQueue` has the rows and, per job, the request_cancel in flight (`cancelTx`).
Each function of `queue.py` that writes is an action: `Enqueue`, `ClaimRun` and
`ClaimExhausted` (the two ends of `claim`), `Heartbeat`, `Checkpoint`,
`Complete`, `FailRetry` and `FailFinal`, `CancelFromWorker`,
`RequestCancelRead` and `RequestCancelWrite`. Time is two actions,
`LeaseExpires` and `RetryDelayEnds`, so any skew between the clock of a worker
and that of the database is covered. `FOR UPDATE SKIP LOCKED` is the choice of
a set of rows that other sessions hold at that instant, at most one each: the
claim takes the first claimable row outside it. A `run_id` is fresh for every
claim; the model numbers the claims of a job, so `run = attempts`, which is
proved and not built in.

`JobRunner` adds the process: its place (`down`, `idle`, `work`, `save`,
`complete`, `cancel`, `retry`, `giveUp`), its `JobContext`, and the units of work
found in the domain tables. A handler commits a unit and then saves the
checkpoint. It can be killed between any two steps. The heartbeat thread sets
`cancelSeen` or `leaseLost` at any moment. A polling worker and a `--drain` worker
differ in what they do when `claim` returns None.

`JobLifecycle` knows no workers and no leases: a job is submitted, begun at most
`MaxAttempts` times, advances unit by unit, and succeeds only with all of them.
The mapping is in `JobRunner` (`Lifecycle`): the phase is the status, the starts are
the attempts up to the bound, the progress is the checkpoint in the row. A
withdrawal in the abstract module can come after a success, because a cancel
request that read the row while it was queued writes when it commits.

### SourcePipeline

One source. `state` runs over the transition table of `models.py`; `done` is the
set of stages whose version or time column is set; `regions`, `structure` and
`candidates` are known by the *generation* of the region set they come from,
which is all the properties need to tell old from new. `decided` collects the
generations a reviewer decided on. `job` has the last job of each kind, and
`run` what each worker is doing. `live` says whether its run is still the one
the queue lets write, which is what `JobRunner` proves about a holder.

A stage is an opening transaction (`Skip`, `Refuse` or `Open`), then its final
transaction, or `Raise`, `StopAtCheckpoint`, `Abandon`, `Crash`. The final transaction
is two steps. `Load` takes what it loads of the source, its record and its regions;
`EndInventory` ... `EndExtract` commit the transition, the results and the successor.
Between the two others may commit, and a column is written only if its new value
differs from the loaded one (`Flushed`). `BindDetected` is the commit of the profile
the headings name, after which localise reads under it; `LocaliseWithoutProfile` is
the ambiguous record when they name none. `FailSource` moves the source to failed
before the job fails. The final transaction does not ask whether the run is live,
as in the code. Then the run is recorded (`Complete`, `Fail`), fenced.

A call of the API is a load (`Ask`) and a commit (`RerunStage`, `Reprocess`,
`AssignProfile`, `Confirm`, `Correct`, `Annotate`) that decides by what was loaded and
writes the columns it changed. The job tables are read at the commit. `Reprocess` may
put a second inventory job beside one that is live, hence the kind
`inventory_again`. Two history variables say what an overlap did: `late` has the
generations of regions left standing by a commit that another one had come before
since its load, and `overtaken` says that some commit came after the source had
moved on. The properties name these, and no wider, exceptions.

### Review, Publication and Evidence

`Review` has the candidates of one source, one row per item and reading, their
history, what each reviewer has on screen, the request each has in flight, and
the validation job with what it read. A request is two steps: the read and its
checks, then the commit, which writes the columns the request changed
(`Flushed`) and no others, as the ORM does. With `Overlap = FALSE` the requests of
users come one at a time, while the transactions of the worker still come between
any two steps; with `Overlap = TRUE`, which is what the server allows, requests
interleave as well. `ReadAgain` is the last transaction of a new extraction:
pending candidates go, and their history with them by cascade; reviewed ones stay
beside the newly read ones.

`Publication` adds releases. `Digest` is what the preview token hashes: the version and
status of the rows in scope, not their values. `PublishRead` recomputes and
compares it, `PublishWrite` copies the facts, supersedes the prior release it
read, and marks the candidates. A release number taken meanwhile rolls the
request back.

`Evidence` is the other side of a decision: `ShowEvidence` and `ShowPage` write a
view for the viewer, `ViewsAge` is the 24 hours of `_check_views`, `TakeDecision`
cites views, a correction selects the evidence anew, `UndoTaken` brings the old
record back. A record is its sequence of pages, the first of which is the primary.

### Cases

`ArrCase` has one case with its assumption sets, formulations and filing drafts;
`TrueUp` adds the actuals, the statement, its freeze and its draft. Every request
is a read and a commit (`...Read`, `...Write`), and `Flushed` writes the columns it
changed. `overlaps` counts the requests begun beside another one. The routes of
`/arr` that reach the same sets and formulations without the case are the same
actions with `through = FALSE`. `Publish` is the reading track's new fact.

### The desk

* `ArrTrack`: the stages `localise`, `extract`, `validate` of the ARR track, each a
  read and a write minutes later, and `start_reading`, chapters, decisions, undo
  and publication beside them. A call on the chapters or the publication is a load
  (`Ask...`) and a commit, and so is the last transaction of a localisation
  (`LocaliseLoad`, `LocaliseWrite`): a state set to what was loaded is not written.
  `beside` has the localisations that committed beside a confirmation, a publication
  or a running stage, and `unseen` says that a row changed since the last validation
  read the rows.
* `PetitionFill`: the request, the three transactions of `run_fill`, the artefacts
  put between them, a dead or stalled worker, cancellation.
* `Organisations`: each change of members is a read with the role check and the
  last-owner rule, and a commit. `changed` says, per request in flight, that a row
  changed since the request read the rows.
* `Library`: seeding, reconciling, URLs, requests, the acquisition job (attempt
  committed, download outside any transaction, registration) and twins; uploads,
  licensees set and removed, and a classification given, changed and taken back at
  any time. Seeding, reconciling, setting a URL and linking a twin are a load and a
  commit (`open`), with everything else in between, and two new rows of one slot
  clash on its unique index (`Clash`).
* `Registration`: uploads under Idempotency-Keys, lost and sent again, and what
  the primary key of the records and the unique hash refuse at commit.

### The computations

One definition per function, evaluated from an input to its result in one step
(`Compute` in MCFindings), except the workbook fill, which runs in passes. Each
module ends in operators that say what the result owes to the input (`...Holds`),
stated apart from how it is computed.

| module | code | what is kept | what is an input |
|---|---|---|---|
| Regions | `localisation.py` | the rules from pages to regions | the patterns that hold on a page |
| Grids | `grid_integrity.py`, `normalise.py` | merged, split and continued cells, headers, units of table, column and row, slabs | what kind of text a cell has |
| Triage | `triage.py` | classes, quality flags, printed labels and their rule | the measures behind a signal |
| Readers | `readers.py` | rows run together, strict reading, pairing, comparison | the readers themselves |
| Clauses | `clause_outline.py` | categories, titles, connectors, two-column headers | the attributes of a line |
| Channels | `extraction.py`, `assessment.py`, `stages/extract.py` | merge, compare, dedupe, routes, image budget | a candidate's texts |
| RateRules, NetworkRules | `extraction.py`, `css_formula.py` | what the rules make of cells, clauses and sentences | the pattern that recognises a word |
| Validators | `validators.py`, `css_formula.py`, `stages/validate.py` | all validators with every rule of VAL-07, units and seasons; attachment of findings | parameters read from clauses |
| Worklist | `services/review.py` | order and filters of the queue, the checklist | names that break ties |
| WorkbookFill | `arr/petition_fill.py` | passes, ownership, ties, conflicts | the workbook's layout |
| Rules, Reproduction | `arr/rules.py`, `arr/reproduce.py` | formulas with units, years, columns, cells, ledgers, pipelines | rule files, traces |
| Formulation | `arr/formulate.py`, `arr/identities.py` | base, plan, formulas, identities | decimals (integers here) |
| Decisions | `arr/decisions.py` | rows from text, positions, arithmetic with deducted rows and signs, overrides, reasons | the geometry of a page |
| Labels, Workbench | `arr/taxonomy.py`, `arr/workbench.py` | placing a label, decisions on labels, mapping drafts | the taxonomy's texts |
| ArrGrids, Chapters | `arr/extract.py`, `arr/chapters.py` | licensees, years, voices, rows; parts and chapters | the words of a title |

## 3. Runs

| run | question | bounds | states |
|---|---|---|---|
| JobRunnerAll | the queue with its workers: safety, refinement of JobLifecycle, every job settles | 1 job, a polling and a `--drain` worker, 2 attempts, 2 units | 38 thousand |
| PipelineOneDecision | upload to review with one confirmation or correction, and that it gets there | 2 workers, 1 profile, 1 fault, 3 region sets | 138 thousand |
| PipelineAllCalls | the gate on decided regions, and frozen regions, under all six calls | 2 workers, 2 calls, 3 region sets, no fault | 612 thousand |
| ReviewSafety | decisions, undo, re-reading and releases, one request at a time | 1 item, 2 values, 2 reviewers, 3 decisions, 2 readings, 2 releases | 1.8 million |
| ReviewRaces | overlapping requests of two reviewers | 2 corrections, 2 readings, 2 releases | 1.3 million |
| Desk | the five parts of MCDesk | 2 lines, figures and rows, 2 readings, 2 calls; 2 fills, 1 crash; 3 people, 3 changes, 2 in flight; 2 licensees, 2 documents, 2 keys; 4 requests sent twice | 693 thousand |
| CasesAndFigures | a case with two users; every computation; evidence views | 2 sets, 2 formulations, 1 draft, 2 publications, 1 overlap; the inputs listed in the MC modules; 2 viewers, 2 candidates, 2 pages, 2 views, 2 decisions | 1.2 million |
| ReviewOneReviewer | is the second reviewer another one when undos overlap? **no** | 3 decisions, no release | |
| EvidenceShown | was the approved record shown? **no** | 1 candidate, 3 views, 3 decisions | |
| ArrCaseReproduce | does what was frozen reproduce? **no** | 1 user, 1 set, 1 formulation | |
| ArrSupersede | is an earlier fact of the same identity superseded? **no** | as Desk, 3 rows | |
| FindingsAttach | does every finding reach its row? **no** | as the figures | |

What the passing runs show, beside types:

* *JobRunnerAll.* At most one process can write the row of a job (`OneHolder`).
  No handler starts more than max_attempts times, and a job claimed more often is
  settled (`AttemptsAreBounded`). Whoever takes a job over resumes from the
  checkpoint of its row, which never claims work that is not in the tables
  (`NoUnitIsLost`), and never goes back (`CheckpointNeverGoesBack`). A settled job
  stays settled, but for the cancel request that read it while it was queued
  (`SettledStaysSettled`). All of this is the abstract life of a job
  (`ImplementsLifecycle`). Every queued job settles (`EveryJobSettles`).
* *PipelineOneDecision.* What the reviewers get was extracted from the structure
  of the current regions, passed every stage, and was localised under the bound
  profile (`ReviewerSeesCurrentReading`). A source at rest that waits for nobody
  has a failed job to show for it (`NotStranded`). Each stage queues its successor, and
  no fault within the bound breaks the chain without a failed job (`EveryStageChains`).
  All this with stages that run twice, late and side by side, and with one confirmation
  or correction that commits at any moment after it loaded. Left out by name: what a
  commit leaves that another transaction had overtaken (`overtaken`, `late`).
* *PipelineAllCalls.* Structure and candidates come from decided regions
  (`ReadOnlyDecidedRegions`) whatever is re-run, re-bound, corrected or annotated,
  at any moment, or from regions that an overlap left (`late`). Once candidates exist,
  what replaces the regions is a decision or, again, an overlap
  (`RegionsFrozenOnceExtracted`). The properties of PipelineOneDecision do not hold
  under all calls; section 6 says which call breaks which.
* *ReviewSafety.* An approval rests on one standing decision that needs no second,
  or on two by different reviewers (`FourEyes`). A row is always what its latest
  standing decision left (`RowFollowsHistory`). A decision is taken on the state
  its reviewer saw (`DecidedAsSeen`). A published fact keeps its decision and value,
  a release holds what its preview showed although the token does not hash
  values, and exactly the last release is current (`ReleasesHold`).
* *ReviewRaces.* Even when requests overlap, a second-round decision that read a
  first reviewer is by another one, who did decide first (`SecondFollowsFirst`).
* *Desk.* An extraction only reads confirmed chapters; nothing is past a
  confirmation that did not happen, and what is extracted is on its way to the
  reviewers, where no localisation committed beside another step on the order
  (`TrackCheckpoints`). A published ARR fact is the row as decided, and the
  findings publication trusts are those of the standing rows (`ReviewStands`). One
  source per document, one write per key, one request per key (`RegisteredOnce`).
  A filled row has its artefacts and a settled one stays settled (`FillHolds`); a
  requested fill ends (`EveryFillEnds`). A role changes only by a request that says so,
  whose caller is an owner or administrator unless a row changed since its read; who
  was removed is added back only by a request that found no row; the last owner goes
  only with a request on changed rows (`MembershipHolds`). A registered order keeps its
  primary licensee, and nothing but a person's edit takes a licensee from it or
  moves it to another year; an acquired slot changes its source only by a download
  asked for before or by a transaction that loaded it before it was acquired; and
  what failed can be asked for again (`HoldingsStand`).
* *CasesAndFigures.* A frozen case rests on a frozen, unblocked formulation of its
  own, frozen set, or on a statement of the actuals as they are; a set has one
  assumption per key (`FrozenStands`). A draft is of what was frozen, unblocked and
  current (`DraftsRest`). What was frozen or closed is left alone
  (`FrozenIsLeftAlone`). A decision cites a view of the primary page unless the
  evidence was selected anew, and of two rounds two reviewers were shown it
  (`EvidenceHolds`). The workbook fill leaves what the petitioner entered
  (`EnteredIsKept`); bindings that feed each other in n layers settle within 2n + 1
  passes, so `MAX_PASSES = 12` is enough for five; a settled workbook agrees with
  every binding that wrote in it, and a cell two bindings disagree about is in the
  report (`FillSettles`). A layer takes two passes because the format's own computation
  takes a cell over from a copy only one pass after that was carried there.
  `PagesAsPrinted`, `ReadingsKept`, `FindingsStand`, `ReproducedAsFiled`,
  `FormulatedAsPlanned`, `DecisionsAsPrinted` and `ArrReadAsPrinted` join the
  `...Holds` operators of the computations of a kind.

**Why the bounds are enough to be of interest.** Two workers give a stale run
beside the live one; with two attempts there is a takeover, a retry and an
exhausted claim; two units put a crash between a commit and its checkpoint. A
second region set is one that replaces a decided one, a third one that is
changed by a call as well. One fault with one decision lets a run outlive its
lease, the decision and a takeover; two calls of any kind without faults change what
a run has read or loaded, before and after its load. The proofs bound neither faults
nor calls. Two changes in the library add two licensees; a third, which takes one
away or clears a year, is within the proof only. Three decisions are a first
decision, a second and one more after an undo; two readings put a reviewed
candidate beside a newly read one; two releases make one supersede the other. Two
sets are a frozen one and its revision, and one overlap is a pair of requests that
read before either writes. Three members with two requests in flight are two owners
who remove each other. A request sent twice, beside one that shares its key and
one that shares its bytes, is every clash at commit. The inputs of a computation
reach every branch of it: their sets are in the MC modules, next to the
function, and each property has been broken by a change of the code's definition.

Symmetry is over workers, reviewers, values and the users of a case, none of which
the properties tell apart, and is not used where liveness is checked. Loads and
previews that could lead to no step are left out. Deadlock is checked by
JobRunnerAll; elsewhere the system rests when there is nothing to do.

**Fairness.** `FairRunnerSpec`: a worker that is down is started again (weak): the
scheduler re-executes the drain job (`infra/gcp/run.tf:187-210`). On the compose
stack nothing restarts the worker, and there the assumption is the operator's. A
worker that is up claims what stays claimable (strong, since a row locked by
another session is skipped at that instant). A handler that runs goes on (weak).
A lease nobody renews expires and a retry delay ends (weak). A lease that is
renewed need not expire, and nothing is assumed of kills, failures or users.

`FairSpec` of the pipeline: each worker goes on with its run (weak), and as long as
jobs can be claimed over and over some worker claims one (one strong fairness over
all claims). Opening, ending or raising is one fair choice, so a stage need not
succeed. `PetitionFairness`: for each fill a job that can be claimed is, a handler goes
on, and the lease of one that died expires (all weak).

## 4. Proofs

Everything below holds for every value of the constants that satisfies the
assumptions of its module (`QueueAssumption`, `RunnerAssumption`,
`PipelineAssumption`, `ReviewAssumption`, `PublicationAssumption`, `CaseAssumption`,
`FindingsAssumption` and those of the desk's parts): bounds that are natural numbers, finite sets where
something is counted, distinguished values that are not members.

| theorems | module | what they show |
|---|---|---|
| QueueTypeCorrect, QueueExhaustedIsSettled | JobRunnerProofs | the queue alone, under every caller |
| RunnerInvariant, RunnerTypeCorrect, RunnerOneHolder, RunnerAttemptsAreBounded, RunnerNoUnitIsLost, RunnerCheckpointNeverGoesBack, RunnerSettledStaysSettled | JobRunnerProofs | the safety of JobRunnerAll |
| RunnerImplementsLifecycle | JobRunnerProofs | every step of the workers is a step of JobLifecycle or a stutter |
| PipelineTypeCorrect, PipelineReadsOnlyDecidedRegions | SourcePipelineProofs | the gate on decided regions, under all calls and overlaps |
| PipelineFreezesRegions | SourcePipelineProofs | the same for frozen regions |
| PipelineLocalisesUnderProfile | SourcePipelineProofs | all calls but `profile` |
| PipelinePassesEveryStage | SourcePipelineProofs | all calls but `rerun` and `profile` |
| PipelineShowsCurrentReading, PipelineStrandsNone | SourcePipelineProofs | `confirm` and `correct`, until the second of them |
| ReviewTypeCorrect, ReviewSecondFollowsFirst | ReviewProofs | under any overlap of requests |
| ReviewDecidedAsSeen, ReviewRowFollowsHistory, ReviewFourEyes | ReviewProofs | one request at a time beside the worker |
| PublicationReleasesHold | PublicationProofs | one request at a time beside the worker |
| EvidenceIsShown | PublicationProofs | what deciding reviewers were shown |
| RegistrationTypeCorrect, RegistrationRegistersOnce | DeskProofs | uploads sent any number of times |
| OrganisationsTypeCorrect, OrganisationsMembershipHolds | DeskProofs | members under any overlap |
| PetitionTypeCorrect, PetitionFillHolds | DeskProofs | any number of fills and crashes |
| TrackTypeCorrect, TrackKeepsCheckpoints, TrackReviewStands | DeskProofs | the ARR track with people around its stages |
| LibraryTypeCorrect, LibraryHoldingsStand | DeskProofs | the library and its acquisitions |
| DeskTypeCorrect | DeskProofs | MCDesk, composed of the parts' type theorems |
| FillTypeCorrect, FillKeepsEntered | FillProofs | any workbook, any plan of checks, any number of passes |
| FillEndsSettled | FillProofs | the same: settled in time, consistent, conflicts reported |
| ChecklistIsComplete, QueueIsComplete | FindingProofs | any candidates, any question: nobody is left out |
| DayIsCovered, SlabsDoNotMeet, CapsAreKept, RowsAreBlocked | FindingProofs | any number of bands, slabs, derived values and rows |
| FindingsCover | FindingProofs | `FindingsStand` of every input of the run, from the six above |
| CaseTypeCorrect, CaseDraftsRest | CaseProofs | the case under any overlap |
| CaseFrozenStands, CaseFrozenIsLeftAlone | CaseProofs | the case; where it says so, one request at a time |

**Why the properties are not inductive, and what makes them so.**

* `QueueInv`: types and `ExhaustedIsSettled`. The type bounds attempts by
  `MaxAttempts + 1`: a claim past the bound must settle the row, or the next
  claim would pass it again.
* `RunnerInv`: neither `OneHolder` nor the resumption from the row is inductive.
  They need that the run of a row is its number of attempts and that an absent row
  was never claimed (`RowsOK`), that no process has a run later than the row's
  (`RunsOK`), that two processes of one job have different runs (`RunsDistinct`),
  and what a process at each place has already committed (`ContextOK`). The key
  step is the claim: its run is later than every run in a process, so all
  others lose the fence at once. For the refinement `RetriesLeft`: a queued job has
  an attempt left, otherwise a claim would be no `Begin`; and a cancel request in
  flight is about a row that exists, otherwise its write would be no `Withdraw`.
* `PipelineInv`: the gate says what structure and candidates are, and they are
  written from what a run read long before. `ReadersDecided` says that a run of
  grid or extract that is reading or writing read a decided generation, or one that
  an overlap left (`late`). It stays true since both sets only grow: a correction makes
  a reader stale, never undecided. What a transaction has loaded is either so still or
  its commit is one of those `late` and `overtaken` record.
* The other theorems of the pipeline exclude the calls that make them false; TLC has a
  counterexample for a call left out (section 6). `StagesInOrder` says which stages
  a source in each state has passed, and that a grid run in flight found the
  localisation done. `BoundOnce` says that the profile, once bound, is the one every
  localise run in flight has read. `DecidedOnce`, until the second decision, says that
  before a decision no region was decided and nothing read behind the gate, and
  after it that every run in flight reads the present regions (`ReadingIsCurrent`); and
  that a job that succeeded has moved the source past its stage, so the stage the
  source waits for has a job that did not succeed (`ChainHolds`). TLC checked each of them
  before it was proved. Faults are not bounded in these proofs.
* `SharedInv` of the review, under any overlap: each decision keeps the rules of its
  round (`Lawfulness`); a row that was deleted is never inserted again, since a
  re-reading makes rows of a new reading and nobody has heard of a later one
  (`Readings`); whoever a row, a snapshot or an open request names as first
  reviewer took a first decision (`FirstsStand`).
* `Sight` and `Story`, for `~Overlap` only: what an open request read is so, and what
  a reviewer has on screen is so or its version is old (`Sight`); the decisions of a
  row are numbered and each standing one was taken on what the one before it left,
  so an undo gives the row back to the decision before (`Story`). From these follow
  `DecidedAsSeen`, `RowFollowsHistory` and `FourEyes`.
* `Released` over those: a row in a release is never written again (`Published`), and
  what a preview lists is so until its row has a later version or is gone
  (`Previewed`), which is what makes a token without values enough.
* `EvidenceInv`: a view of the version a candidate is at shows its primary page
  (`ViewsAsShown`), the view a decision rests on is remembered with it (`EachRests`),
  and what a candidate of two rounds owes to the decisions before it holds of every
  row an undo could bring back (`EachBacked`).
* The desk: the record of a key is written with the upload and clashes with the
  next one (`WrittenIsRecorded`, `OneRecordPerKey`, `AnsweredIsRecorded`); a request of
  members that nothing changed beneath may not take the one owner (`ReadsHold`); a
  fill's job is claimed once, and a handler's place says what it has put
  (`ClaimedOnce`, `HandlersStored`); an extraction took its confirmed reading with it, and
  which stage may run in which state beside no other step (`ConfirmedRead`,
  `InOrder`), with what a validation nothing disturbed has found (`FoundAsIs`,
  `LeftAsIs`); an acquisition that has not begun is the next attempt of its slot, and
  nothing ended under a key the slot has not reached (`KeysInTurn`,
  `NoneBeganBeyond`).
* `CaseInv` is `Shared`, under any overlap, and `OneAtATime` as long as `overlaps = 0`.
  `Shared`: a frozen formulation has no blocked line and a frozen set (`RunsStand`), a
  frozen statement was ready, and each open request carries what it read of rows that
  are never written again or of its own draft (`Carries`). `OneAtATime`: at most one
  request is open, what it read of the case is still so (`Fresh`), and the
  formulation of a case is of its set (`RunIsOfItsSet`). TLC checked `CaseInv` on the
  instance of CasesAndFigures before it was proved.
* `PassInv` of the fill is about the middle of a pass. What a check computed at its
  start still has the cells it read, and is what the check computes now unless a sheet
  of its binding was written since (`SeenStand`); a check the pass is done with, whose
  sheets were not, would write nothing, and a disagreement of it is in the report
  (`DoneStand`, `NotedStand`); a written cell has its figure from a check of its owner
  (`WrittenStand`). When a pass writes nothing, all checks are of that kind.
* `LayersInv` is why the passes suffice. From pass 2k - 1 on, what feeds a cell of
  layer k stays, so a check of it that is done may write again only to take over from
  a carried figure (`FedInv`); from pass 2k on it writes no more (`LastInv`); so a pass that
  wrote anything is at most twice the number of layers (`WrittenInTime`).
* What is found and left to review has no history to be inductive over: the theorems
  speak of any input, and `FindingsInv` only says that a result is the computation's of
  an input of the run. Candidates have distinct names, so the ranks of the queue order
  them strictly, and the place of one, the number of those before it, fills an interval
  (`QueueIsComplete`). An item counts the candidates under its key; these sets are
  disjoint, so their sizes sum up to all (`ChecklistIsComplete`). Hours of bands that do
  not overlap sum up to the hours of their union (`DayIsCovered`). Of two slabs that
  share a quantity, the upper one has a neighbour at or above the lower one that it
  meets as well, and VAL-03 compares neighbours (`SlabsDoNotMeet`).
* What the findings' theorems ask of their input. `KnownFamilies`: the families are those
  of the schema. `SlabsOK`: an absolute slab has an upper bound, and of two that end at
  one quantity both include it or neither does. The code needs that: a "below 100"
  without a lower bound, sorted between 50-100 and 100-150, hides from VAL-03 that these
  two share the 100. `BandsOK`: a band that was read lies within a day. `DerivationsOK`: what a
  derivation reads is a whole number or not printed. `RowOK`: a flagged row is out of batch
  approval. Nothing is asked of the keys of rows: `RowsBlocked` says which records a
  finding reaches where a row's key is no longer its record's, and FindingsAttach shows
  that it does not reach the others.

**Induction.** The theorems of `NaturalsInduction` take an operator, which the
provers here cannot instantiate. Where a proof needs induction over data it takes
the least natural number of a set instead (`LeastNatural`, from
`NatLessThanWellFounded` and `WFMin`), and a fold is taken by what its recursive
function is: that one exists for every finite set is `FoldExists`, and what each
of its steps keeps the result keeps is `FoldKeeps`. So `SumFunction` of a check's
cells is a natural number, and the same for the same cells.

**`~Overlap`, and what it leaves out.** The review's theorems about histories and
releases are for requests that come one at a time, with validation and re-reading
in between. The server allows more, and then they are false: TLC finds `FourEyes` and
`SecondIsByAnother` violated with two requests side by side (section 6), and two
current releases. Both `ASSUME ~Overlap` and its negation have instances among the
runs, and what survives any overlap is `SecondFollowsFirst`. In a case `overlaps = 0` is
part of the property and a state, so its theorems also speak of the behaviours
whose requests overlap later.

**Only model-checked.** Liveness under fairness (`EveryJobSettles`,
`EveryStageChains`, `EveryFillEnds`), which is out of this prover's reach. The
computations other than the fill and the findings: `ReproducedAsFiled` rests on RECURSIVE
operators, which may not be near a theorem, and so do `FormulatedAsPlanned`,
`DecisionsAsPrinted` and `ArrReadAsPrinted`, which share its module; `PagesAsPrinted` and
`ReadingsKept` are about long functions of sequences, each of which would need its
own induction over the input.

## 5. What is not modelled, and why

* What stages compute from pages is in the computations, not in the pipeline, which
  knows results by generation, nor in the review, which knows them by value.
  Providers and OCR return, fail or are slow.
* Rationales and the fields a correction may name: they refuse a request and write
  nothing. Replay of a decision under its key is as in `Registration`.
* Completeness declarations and gaps of a publication: some declaration is
  always acceptable, and none changes what is copied.
* `job_events` and audit rows: append-only, nothing reads them back.
* The order of claims by priority matters with several jobs only; the runs have one
  job, or model the claims of the pipeline as unordered.
* Which words a pattern recognises: texts come with what they are.
* Decimals: figures are integers of the last place. `WorkbookFill` compares exactly
  where the code allows 1e-9.
* A transaction loads what it writes at one moment; rows it reads later, and the job
  tables, are read at its commit. Two annotations of one region set that overlap: the
  second is left out.
* `ArrTrack` has one call on chapters or publication open at a time, a publication reads
  its rows as it commits, and a job is not taken again after its last commit.
  `Library` has one of its load-and-commit transactions open at a time; uploads name
  a licensee, since an order without one is linked to no slot.
* Discovery of library URLs, filing drafts and blocks, petition documents, read-only
  views, adapters, the web client and deployment data; `PROJECT.json` has a reason for
  each.

## 6. Where the code and its documents disagree

Shown by a run, with the lines in `PROJECT.json` under `findings`:

1. Two undos that overlap clear the first reviewer of a candidate that waits for
   its second review, and whoever decided first decides second too
   (ReviewOneReviewer; ADR-0013 says the second reviewer must differ).
2. A second reviewer approves a corrected record on the view of the page it cited
   before (EvidenceShown; `services/review.py:4`).
3. An assumption removed between formulation and freeze leaves a frozen formulation
   that does not reproduce (ArrCaseReproduce; ADR-0018).
4. Publishing an ARR fact whose identity has a current fact of an earlier publication
   is rolled back by the unique index, where the docstring says the earlier fact is
   superseded (ArrSupersede). Two rows of one identity in a single publication are
   rolled back too, and are not what the run shows.
5. The assessment completes a record after its key was made, and a blocking finding
   on it reaches no row (FindingsAttach; `validators.py:5`).

Met while modelling. Those of the queue, the pipeline and the review can be
reproduced by changing `Calls`, `Overlap` or a bound of a run.

*Queue and pipeline*

* `--drain` ends while claimable jobs remain: `run_once` answers False for a job it
  has just failed as exhausted (`worker/main.py:74`).
* A stage re-run while it is running is cancelled, and none is queued
  (`services/sources.py:294`). `request_reprocess` from inventoried always fails
  (`services/sources.py:350`).
* Candidates of the old structure reach the reviewers after a correction, and
  `decide` with a correction has no guard on the state of the source
  (`services/localisation.py:157`).
* A localise run that lost its job rewrites the record and withdraws the decision
  made meanwhile (`worker/stages/localise.py:182`, against `api/queue.py:9`).
* A localise run and a decision that both loaded the record before either committed
  leave undecided regions under `extraction_allowed`: the run sets the flag to False over
  a loaded False, which writes nothing (`worker/stages/localise.py:238-260`,
  `services/localisation.py:139-188`), where the docstring says "A reviewer's earlier
  decision does not survive" (`worker/stages/localise.py:226-228`). The regions are then
  read without a decision on them: `ReadOnlyDecidedRegions` fails with `late` left out.
* A commit that was overtaken can drive the state of a source back, or leave it at rest
  with no job: `NotStranded` fails with `~overtaken` left out.
* `assign_profile` while localisation runs finds that job and queues nothing:
  `ReviewerSeesCurrentReading` fails with `Calls = {"profile"}`.
* A failed source can be re-run from a stage whose inputs it never had: the same
  property fails with `Calls = {"confirm", "rerun"}`.
* A running handler may pass checkpoints after a cancel request, until its
  heartbeat has seen it (against `api/queue.py:11`).

*Review and publication*

* With overlapping requests a second approval can commit over the undo of the first:
  `FourEyes` fails with two decisions and `Overlap = TRUE`.
* A release over a subset drops the facts of the release before, and two publications
  that overlap can leave two current releases (`services/publication.py:246-252`).
* A correction made while the validation runs finds that job and queues none
  (`worker/stages/validate.py:43`); published before it, it is never validated. Undo
  queues no validation either, so the blocking count is that of the undone record;
  undo of a rejected ARR line runs no identity again (`services/review.py:831-869`,
  against 785-786).
* A re-extraction deletes the decisions of pending candidates by cascade
  (`api/models.py:862-864`), although the history says that nothing is deleted.
* The validation changes the blocking count of a row without changing its version,
  and the token does not cover it. After publication, a correction by the documented
  route (re-reading, ADR-0014) meets VAL-13 between the published candidate and the
  new one.
* The evidence endpoint's `viewed_required` asks neither for the age of a view nor
  whether the evidence was selected anew. The queue's docstring says "document
  (default)" where the default order is risk. `batch_approve` counts candidates it
  sent to a second review as approved.

*Desk*

* A binding may check a cell twice and tie it to another (`BS2!C38` and
  `F1_PP_Annual!J16` in `packages/reference-filings/uperc-npcl-fy2026-27/bindings`): if
  the two differ the fill would write them in turn until `MAX_PASSES`. Of a cell only
  the first disagreement of a pass is reported (`seen_conflicts`,
  `arr/petition_fill.py:348`), so the report may lack a third binding.
* A failed acquisition records the error in a transaction that the raised failure
  rolls back (`worker/stages/acquire.py:46-48`); a late failure overwrites `acquired`; an
  acquire job that was cancelled or died blocks the next request.
* `reconcile` makes a second, undated slot. Overlapping removals can take the last
  owner (`routers/organisations.py:168`).
* A confirmation of ARR chapters beside a re-localisation leaves `chapters_confirmed` over
  newly proposed chapters (`arr/service.py:118-133`, `worker/stages/arr.py:290-310`); the
  last write of extract or validate can overwrite the `chapters_proposed` of one.
* A formulation or an added assumption that read the case before a freeze commits after
  it (`arr/cases.py:319`): `FrozenStands` and `FrozenIsLeftAlone` fail with `overlaps = 0`
  left out.
* A failure to put an artefact leaves a petition's row `running`.

*Reading*

* `rules_extract` attributes a cell to the last schedule heading on its page;
  `_grid_anchor_lines` continues after the first row only of the grid before;
  `merge_duplicates` drops the loser's conditions and footnotes; `{c.key(): c}`
  (`extraction.py:840`) drops all but the last candidate of a key; dedupe drops a
  disagreement of the channels when an agreeing reading outranks it.
* A charge column that reads 1, 1, 2 is dropped as row numbers; a two-column header of a
  clause keeps the first two amounts.
* Tables of 50 cells and more that differ in at most 2 % are of high agreement without
  a tag, and the strategies `readers.py:9-12` names only set flags of the page.
  The two readers run the lines of a cell together as they return it (`normalise_cell`,
  `readers.py:52`, `115`, `151`), so `split_tall_rows` finds no stacked cell in what
  `parse` stores, where its docstring and the comment at `worker/stages/parse.py:224` say
  that the printed rows of a ruled row are split. No run states it: the model follows
  the code, and `Readers` has the split only for grids that come with their lines.
* `carried_values` is keyed by the reader's column and looked up by the merged one; a
  cell that names a currency only is never flagged (`grid_integrity.py:184-191`); slabs whose bounds are not
  integers are always flagged as apart. A table torn by a page break reads
  as the whole one where its columns are not split, the last row before the break
  holds a number and names all its labels, and no divider stands above
  (`TornHolds`); otherwise it need not.
* "Isolated disagreements ... resolve to no label" (`triage.py:552-554`) is about the rule:
  its segments skip such a page, while `resolve_label` keeps the label the page shows. A
  stray label on a page to which the rule gives no number is not flagged.
  `extract_label` takes the first of the last four lines.
* The channels' readings of two seasons can be merged through a third that names none.
  An approved surcharge row whose first label is not a bare code finds no parameters
  filed under its code (`extraction.py:1216`, `css_formula.py:156-165`).
* VAL-10 sums minutes and no overlaps, VAL-16 keeps the last reading of a key, VAL-03
  skips slabs without a lower or an upper bound and compares neighbours only.

*ARR*

* `row_licensees` carries a heading row's licensee past a total row. A period table
  collapses equal start dates.
* A rule's sum over feeds that are published rounded takes the unrounded value. The
  `@k` shift of a reference may land on another voice of a year; a binding of `rule:x`
  that checks x counts as a match, as does an indirect echo of an input; a rate whose
  sign is not in its quote is accepted.
* A page number equal to the serial that is due takes the next row's label, and a row
  without figures takes the next row's.
* An alias once committed to a mapping file stays in it when its label is later
  withdrawn or decided not to be a line.

## 7. Plan

Done: the queue with its workers and their refinement, the pipeline, the review
with releases and evidence, the desk, the cases and the computations; the
theorems of section 4.

Next: the properties of the readings for every input, one computation at a time; filing drafts and blocks as a component beside the cases.
