# LessonCanvas in TLA+

LessonCanvas turns a teacher's brief into a unit blueprint and then into lesson
plans, slide decks and exercises. The backend (`src/apps/backend/src/lessoncanvas`,
below `B/`) is a FastAPI process and Celery workers over one PostgreSQL database and
one object store; a LangGraph workflow executes a run. This directory holds TLA+
modules of its stateful core, TLC configurations that check them, and proofs checked
by the TLA+ proof system.

The modules are translated from the Python source. The documents under `specs/` are
used for one thing only: where they promise something the code does not do, a run
shows the counterexample (see *Disagreements*).

## 1. The system

### Processes and what they share

| process | code | what it shares |
|---|---|---|
| API requests | `B/api/*.py` over `B/modules/*/service.py` | database rows, the task queue |
| Celery workers | `B/worker.py`, `B/modules/artifact_production/*graph.py` | database rows, objects, the task queue |
| teacher confirmations | `B/modules/discovery_planning/{brief,blueprint}.py` | version rows, and the runs they supersede |
| SSE streams | `B/api/generation.py`, `B/api/sse_registry.py` | event rows, stream slots |
| model, embedding, storage and identity providers | `B/adapters/*` | nothing; they answer or fail |

Three facts about this environment decide most of what can go wrong:

1. **Sessions copy rows.** `SessionLocal` is built with `autoflush=False,
   expire_on_commit=False` (`B/db.py:15`). A session keeps the columns it loaded; a
   commit updates, by primary key, the columns whose value differs from the loaded
   one. There is no version column, so the last commit wins column by column.
2. **Tasks are acknowledged when they are taken** (`B/worker.py`, no `acks_late`): a
   worker that dies takes its delivery with it. Requests commit before they dispatch.
3. **Locks are few**: a row lock on the workspace serialises admission, and a unique
   constraint identifies a run. Every other check reads first and writes later.

### Components

| component | state | operations | correct when |
|---|---|---|---|
| run orchestration (`run_orchestration/service.py`, `api/generation.py`, `decks.py`, `exercises.py`) | run rows, call budget | start, resume, reserve a call, dispatch | one run per version pair; starts stay within the limit; calls within the cap; active runs get settled |
| run workflow (`artifact_production/graph.py`, `worker.py`) | run status, artifact status | assemble, checkpoint, process, finalize, retry, exhaust | completed work stays; a complete run is whole; stale runs stop |
| lesson production (`graph.py`, `design.py`, `review.py`, `deck_graph.py`, `exercise_graph.py`) | one artifact row, its objects, its traces | design, draft, review, revise, render, validate, put, complete | what is completed was reviewed and is stored; attempts are bounded |
| version confirmation (`brief.py`, `blueprint.py`) | drafts, versions, decisions, stale flag | edit, import, decide, confirm, supersede active runs | no edit is lost; a confirmed blueprint was planned for its brief |
| run events and streaming (`service.append_event`, SSE endpoints) | append-only events, stream slots | append, poll, end | a client sees every event once and in order, also after reconnecting |
| targeted regeneration (`transition.py`, `impact.py`) | scope and prerequisite of a new run | impact, coverage, carry over | decks and exercises are written from plans of their pair; a covered start is accepted |
| discovery and planning (`graph.py`, `service.py`, `planning.py`, `tool_loop.py`) | rounds, drafts, planning runs, tool quota | ask, answer, draft, plan, call a tool | a run shown as ready has a draft; one active plan |
| narration (`narration.py`) | in-memory registry, stored text, quota | begin, chunk, finish, stop, listen | what is told as complete is stored |
| sources and grounding (`sources_grounding/*`) | source rows, chunks, findings, objects | upload, parse, analyse, delete | one analysis in flight and one call per trigger; deletion wins |
| alignment review (`alignment_evaluation/service.py`) | report, findings | compute, follow up | membership is the current complete artifacts |
| delivery export (`alignment_evaluation/delivery.py`) | export rows, package object | create, build, download | a ready package is the one its row describes; a failed build is visible and can be repeated |
| workspace identity (`identity_workspace/service.py`, `limits.py`) | workspace, projects, counters, stream slots | create, count, limit, release | limits hold under concurrency, slots come back |
| deletion (`identity_workspace/deletion.py`) | every row and object of a project | cascade, verify, repair | no source survives; what is left behind is written down |
| teacher memory (`teacher_memory/service.py`) | proposals, memories, passes | propose, confirm, reject, edit, delete, use | records within their limit; a run keeps the memory it began with |
| product validation (`product_validation/service.py`) | assignments, evidence revisions, status | assign, import, conclude | the status follows the newest evidence |
| technical evaluation (`technical_evaluation/service.py`) | evaluation runs, results | create, execute | out of scope: one task from beginning to end |
| document tools, parsers, criteria | none | pure functions on documents | out of scope: layout and text |
| adapters, application shell, web client | none shared | I/O and rendering | out of scope: seen through their outcomes |

### How they interact

A brief confirmation bumps the version, marks the blueprint stale and supersedes the
active runs; a blueprint confirmation supersedes them too. `start` reads the newest
pair, asks `admit_run` under the workspace lock, inserts run and artifact rows, commits
and enqueues `generate_unit`. A worker loads the run, re-reads the versions before every
lesson (the *safe checkpoint*), produces the lesson, and finally counts the complete
artifacts to choose the run's status. A failing provider re-enqueues the task; after the
last retry `mark_provider_exhausted` settles the run. `resume` sets a partly failed run
back to `queued` and enqueues it again. Decks and exercises are runs of the same table
that read the plans back; what a new pair makes of the older documents is computed when a
run is started. Alignment, delivery, deletion and the evaluation components read what the
runs leave. Before that, an interview ends in a brief draft and a planning interview in a
blueprint draft; the teacher edits both and confirms them. Confirmations and settled runs
schedule memory passes, whose confirmed records the next run attaches. Every request goes
through the limits, and streams follow runs and narrations.

## 2. Modules

| module | models | proofs |
|---|---|---|
| `GenerationRun` | runs of a workspace: confirmations, start and resume requests, queue, workers, settling | `GenerationRunProofs` |
| `LessonStage` | one artifact's stages by overlapping tasks, with the sessions' copies of the row | `LessonStageProofs` |
| `RunProgress` | what a run promises: calls for missing lessons, each lesson once, complete when whole | implemented by `GenerationRun`, one request at a time |
| `LessonAttempt` | the contract of an attempt, as the run sees it | implemented by `LessonStage` |
| `DeliveryExport` | what the newest versions have, what blocks a package, overrides, and the export | `DeliveryExportProofs` |
| `SourceLifecycle` | upload, parsing, screening, analysis and deletion of a project's sources | `SourceLifecycleProofs` |
| `Regeneration` | pairs, scopes, coverage and prerequisites of plan, deck and exercise runs | `PlanningProofs` |
| `Interview` | discovery and planning runs over checkpointed threads | `PlanningProofs` |
| `Confirmation` | drafts and confirmed versions of brief and blueprint | `PlanningProofs` |
| `EventStream` | a run's events and the streams that poll them | `StreamingProofs` |
| `Narration` | narrations of evidence and interviews, their threads and listeners | `StreamingProofs` |
| `Admission` | workspaces, rate windows and the project limit | `WorkspaceProofs` |
| `ProjectDeletion` | deletion passes over rows and two buckets | `WorkspaceProofs` |
| `TeacherMemory` | passes, proposals, records, overrides and what runs attach | `WorkspaceProofs` |
| `ProductValidation` | assignments, imported evidence, outcomes and the derived status | `ProductValidationProofs` |

`MC*` modules add the symmetry sets TLC uses. Definitions named after a mutation
(`BuildUnchecked`, `AnalyzeClaimLate`, ...) stand next to the definition they alter and are
used by no specification: they show that a property notices the change.

### GenerationRun

A step is one read or one committed write, since nothing but a commit is visible to
another session. The state of a process between two steps is its `pc` and what it has
read: `client[c]` for a request, `teacher[p]` for a confirmation, `worker[w]` for a task.

| variable | code |
|---|---|
| `brief`, `blueprint`, `stale` | the newest `BriefVersion`, `BlueprintVersion` and its stale flag |
| `pair`, `status`, `calls`, `nextRun` | `GenerationRun` rows (`models.py:380-417`) in creation order |
| `artifact[r][l]` | `LessonPlanArtifact.status`; `"none"` outside the run's scope, `"working"` for every status between pending and the outcome |
| `queue[<<r, a>>]` | deliveries of `generate_unit(r)` at retry `a`; removed when taken |
| `wsLock` | the row lock of `admit_run` |
| `released`, `lateCalls` | history: runs that have been settled once; calls after the pair was replaced |

`WorkerWrites` is the ORM write: it replaces whatever the row holds, and issues no
UPDATE when the new value is the one the session loaded. `FinalizeRead`/`FinalizeWrite`,
`ExhaustRead`/`ExhaustWrite`, `ConfirmBriefRead`/`ConfirmBriefCommit` and
`ResumeRead`/`ResumeCommit` are pairs because the code decides on what it read earlier.
`LessonCall`, `LessonComplete`, `LessonFail`, `LessonProviderError`, `LessonError` and
`LessonCapped` are an attempt at a lesson as `LessonAttempt` describes it.

`RunProgress` is the abstract specification: a run starts with the scope it keeps, pays a
call while a lesson of the scope is missing, produces each lesson once, is complete when
the last one is, and may be superseded. `GenerationRun!Progress` instantiates it with the
rows: `scope` is the lessons that have an artifact, `done` those whose artifact is complete,
and `state` joins all statuses but `complete` and `superseded` as `"open"`. `Reopen` is
there because the code does what section 5 tells of `superseded`; nothing reopens a complete
run. Queue, locks, workers and history are not part of it.

### LessonStage

One artifact and the tasks that may be working on it. `task[t].row` is the session's
copy; `Commit` writes the columns in which the new row differs from it, so two tasks
overwrite each other column by column. Documents are numbers, a new one for every
draft and revision, and a checksum is the document. The three writers are instances:

| | `MaxDesigns` | `ParseGuarded` | `Part` |
|---|---|---|---|
| lesson plan (`graph.py`) | `DESIGNER_RETRIES + 1` | TRUE | `{plan}` |
| slide deck (`deck_graph.py`) | 0 | FALSE | one part |
| exercise pair (`exercise_graph.py`) | 0 | FALSE | `{sheet, key}` |

`Spend` joins the reservation of a call with the status commit that follows it at once;
between the two the code does nothing another task can see, except that a crash there
leaves the old status, which the model's crash before the step also does.

`LessonAttempt` is the abstract specification. `LessonStage!Attempt` instantiates it with
`artifact <- Shown(row.status)`, `active` the tasks in an attempt and `used` their calls:
an attempt makes at most `LessonCalls` calls, each within the run's cap, and does not
complete the lesson without one. It fails the lesson without a call only when there is no
plan to write a deck or a pair of exercises from (`PlanMissing`, which implements `Refuse`;
`deck_graph.py:211-226`, `exercise_graph.py:218-233`); retrieval may also end an attempt
before its first call. This is what `GenerationRun` assumes of a plan's lesson, which has no
prerequisite; its runs stand for plan runs.

### DeliveryExport

An export request is the sequence `ReadBrief`, `Align`, `FindExport`, `InsertExport` or
`ClaimExport`, `Build`, `CheckBrief`, `CheckBlueprint`, `Settle`: one step per query or
commit of `create_export`, so that versions, artifacts and the row may change between any
two of them.

| variable | code |
|---|---|
| `pair`, `stale` | the newest `BriefVersion` and `BlueprintVersion`, and the stale flag |
| `artifact[v][m]`, `object[v][m]` | the row of member `m` (a family and a lesson) in the run of the pair `v`, and the file under its key |
| `recorded`, `withdrawn` | `AlignmentOverride` rows by status; a finding is its pair and member |
| `export`, `package` | `DeliveryExport` rows by identity, and the package objects |
| `client[c]` | a request: where it is and the identity it computed |
| `wasCurrent` | history: the pairs that were the newest versions at one moment |

The identity of an export is its pair, label and manifest, as in the unique constraint of
`models.py:592-603`. `Current` is `current_members` with retention: a member the pair's run
does not cover comes from the newest other run that completed it. What runs do to artifacts
(`BeginMember`, `CompleteMember`, `FailMember`) is reduced to what an export can see;
`StoreAgain` and `CommitAgain` are the second task of a run, which `GenerationRun` shows to
exist and `LessonStage` shows to overwrite files: they are what makes the checksum matter.
`Build` is one step although the code reads file after file: documents are never used
twice, so a file that has been compared cannot change what is packed.

### SourceLifecycle

Uploads and deletions are requests, parsing and analysis are tasks. Each works in one
transaction that spans a call of the object store or of the model, so the model has to say
what transactions see of each other: a row written by an open transaction is invisible, and
whoever writes or deletes it waits (PostgreSQL's read-committed level).

| variable | code |
|---|---|
| `row[s]`, `chunks[s]`, `analysis[s]` | committed `Source`, `SourceChunk`, `SourceAnalysis` rows |
| `text[s]` | what the file holds, as far as parsing and screening tell files apart |
| `object[s]` | the file in the bucket |
| `claim[s]` | the open transaction that has written the analysis row of `s` |
| `projectLock` | the row lock of `create_source` |
| `parseTask`, `trigger[s]` | deliveries of `parse_source` and `analyze_source` |
| `uploader`, `worker`, `deleter` | a request or task: where it is and what it has read |

`"analyzing"` is not an analysis status of the model because it is never committed:
`claim_analysis` flushes it and the transaction commits after the answer. `Inserting` tells
a first analysis (an insert nobody sees, but which refers to the source and so holds its
deletion up) from a repeated one (an update, which others see and wait for). `DeleteRow`
either removes everything or is rolled back by a foreign key. An upload is three calls that
fail apart: the put, the commit and the enqueue, each of which may have had its effect when
it is reported failed (`UploadPutFails`, `UploadCommitFails`, `UploadDispatchFails`); the code
compensates for none of them. Source and chunk rows that an
open upload or parse has written are in no variable: nobody can see them, and the commit
writes them.

### Regeneration

`pairs[n]` is what the n-th confirmed pair wants of the unit and of each lesson; a change of
the unit touches every lesson. `runs` has the rows of all families in the order of
`created_at`, each with its scope (`artifact`), the plan run it was bound to
(`prerequisite`) and the lessons whose writer has answered (`written`, the traces that
`lesson_plans_of_prerequisite` reads). `StartPlans` and `StartDerived` are the reads of a
start, `InsertRun` its insert; `TargetedScope`, `Uncovered` and `Retained` are
`_targeted_scope`, `_plan_coverage` and `retained_artifacts`. `GenerationRun` has what lies
inside these steps, and takes any scope; this module says which scope it is.

### Interview

Discovery and planning are rows of one table, `DiscoveryRun`, and threads of one
checkpointer. `thread[r]` is the last checkpoint; a request executes the thread node by node
until it waits or ends, and then writes the status it computes from the thread
(`SyncRead`, `SyncWrite`). `client[c].row` and `seen` are the statuses the request's and
the node's session have loaded, since a commit only writes what differs. The discovery
endpoints address the newest run of either kind (`Addressed`), as `service.py:48-64` does.

### Confirmation

Rows are never deleted, so revisions and version numbers are indexes of sequences. A
request is its reads and one insert, which a unique key may refuse; `ImportRead` and
`ImportCommit` are `sync_draft_from_run`. What a draft says is reduced to its number of
lessons and whether a finding is open; `from` names the revision a draft was computed from.

### EventStream and Narration

`author[w]` is the number a writer is about to commit under the run's lock; a stream is
`OpenStream`, then `ReplayEvents`, `ReadStatus` and `SendEvent` until the run is settled and
there was nothing to read. `seen[c]` is what has reached the client, which names its length
when it comes back. `Narration` has both flavours of narrations, chosen in the initial
state: those of evidence are charged and leave the registry at their end, those of
interviews replace each other. A thread streams, stores, tells and leaves in this order.

### Admission

`call[c].due` are the guards a request still has to pass. A guard reads the clock
(`ReadClock`), adds to the window's row (`Upsert`, which waits for whoever has not committed
that row) and commits the attempt (`AnswerGuard`). `CreateProject` and `CommitProject` are
the count and the insert under the workspace's lock.

### ProjectDeletion

A pass is one transaction over the rows and many calls to a store that knows none:
`dropped`, `repaired` and `failed` are what it will do to the rows, `objects` changes at
once. `RollBack` is an error, a crash, and the failure of an account's deletion, which
returns the rows but not the objects. `owned`, `missed` and `blind` are history.

### TeacherMemory

`passes[t]` is the one pass of a trigger, `executor[w]` a task that executes one,
`decision[c]` a confirmation or rejection, `reader[r]` a task of a run that attaches the
memory. Proposals that are deleted keep their place, since a sequence stands for the table.
`applied` are the `memory.applied` events that make a snapshot once.

### ProductValidation

`evaluation[c]` is a request. An import inserts its row and waits for whoever has inserted
the same revision (`InsertEvidence`), stores the document (`StoreDocument`) and commits the
row, the one it supersedes and the outcome (`CommitEvidence`). A put may fail after it stored
the document (`PutFails`); only a failing commit is cleaned up, and that may fail, too
(`ImportFails`). `package` is the number of the
package of record, which the other components change; scores are the outcome they give.

## 3. Runs

Every run explores its instance completely.

| run | question | instance |
|---|---|---|
| `RunSerial` | with one request at a time, crashes and retries: one task per run, results that are whole and stay, bounded work on replaced versions, and the refinement to `RunProgress` | 1 project, 2 lessons, 2 workers, 2 runs, 2 resumes, 1 crash, 1 retry |
| `RunRaces` | overlapping requests without crashes: capped runs have spent their budget, identity, admission, nobody stranded, everything settled | 2 clients, 2 workers, 2 runs, 2 resumes, 1 retry, limit 1, fair |
| `StagePlans` | reviewed before completed, designs paid once, and the refinement to `LessonAttempt` with overlapping tasks | 2 tasks, 2 designs, 2 drafts, 3 attempts, cap 9 |
| `StagePair` | two files and one commit; attempts end | 2 parts, 2 drafts, unguarded parse, fair |
| `Exports` | two requests for one export, while artifacts are overwritten and findings overridden; one request at a time among confirmations of both kinds | 1 export row; *races*: 2 clients, 1 brief and 2 blueprint versions, 2 documents, no crash; *versions*: 1 request, 2 brief and 2 blueprint versions, 1 document, 1 crash |
| `Sources` | uploads, tasks and deletions of two sources with a failing object store, database or broker | 2 uploads, 2 deletions, 2 workers, limit 1, 1 failure, 1 crash |
| `Services` | the nine other services, one at a time | two requests, tasks or threads of each; the bounds below |

The five runs of section 5 are counterexamples.

`Exports` chooses one of its two instances in the initial state (`MCDeliveryExport`).

`Services` extends nine modules that share no variable. An initial state chooses one of ten
*foci* (the memory comes twice, with two passes and no run, and with one pass and two tasks
of a run) and only that service moves, so that the run explores the sum of their state spaces
and not the product:

| focus | states | bounds |
|---|---|---|
| interview | 786 000 | 3 runs, 2 plans, 2 briefs, 2 rounds, 1 tool round, cap 2, 1 overlap, narration or death |
| regeneration | 471 000 | 2 pairs, 2 lessons, decks, 2 starts in flight, 1 resume |
| confirmation | 200 000 | 2 revisions of each draft, 2 plans, 1 lesson |
| memory, run memory | 157 000, 146 000 | 2 contents, limit 1, 2 candidates, 2 executions; 2 tasks of a run |
| admission | 137 000 | 3 requests, 2 windows of each class, limit 1 each, 2 projects |
| narration | 77 000 | 2 narrations, 1 token, quota 2, 1 listener, both flavours |
| deletion | 57 000 | 2 sources, 1 artifact, any number of passes |
| validation | 53 000 | 1 unit, 2 packages, 2 revisions, 2 documents |
| stream | 3 000 | 3 events, 2 clients, pages of 2 |

The figures are distinct states up to the symmetry of the requests. Two tries at each thing
are enough for their properties to fail when a lock, a key or an order is taken away: each
of the fourteen mutants does that, and is found with these bounds.

The bounds are chosen so that each mechanism meets its limit. `Cap` is lower than the calls
the lessons would like. Two workers, two clients or two tasks are the fewest that race, and
the code has no step that involves three. Two versions are the fewest that make one stale;
one retry distinguishes a retried task from an exhausted one; two drafts and two designs
distinguish a retry from giving up. `Exports` has one member because `Matches` and
`Blocked` only ask whether there is a member for which something holds; that the
properties hold for any number of members is proved. It has two documents, the artifact's and the one that
overwrites it, and one export row, for which both clients compete. `Sources` has a limit of
one and two sources, so that the second upload meets the limit until the first source is
deleted, and one failure, after which a deletion must be repeated. `MaxBrief`,
`MaxBlueprint`, `MaxRuns`, `MaxResumes`, `MaxCrashes`, `MaxBegins`, `MaxDoc`, `MaxExports`,
`MaxTriggers` and `MaxErrors` only stop the environment. A system in which nobody asks for
anything may stop, which is why the runs switch deadlock checking off.

Some properties carry a condition, each because the code does not promise more:

- those of `RunSerial` (`OneTaskPerRun`, `CompleteRunIsWhole`, `CompletedLessonsStay` and the
  refinement to `RunProgress`) are checked with one client, since overlapping resumes do give
  a run two tasks, which undo each other's work. They say nothing of that overlap;
  `RunResumesOverlap` shows it for `CompletedLessonsStay`;
- `CompleteIsStored`, `CompleteIsReviewed` and `DesignPaidOnce` exclude `overlapped` tasks,
  `Implements` does not;
- `NoStrandedRun`, `EventuallySettled`, `BuildingIsAttended` and `ProcessingIsCarried` exclude
  crashes: nothing in the code takes up what a dead process left, and the hazards in
  `PROJECT.json` say where. `ProcessingIsCarried`
  excludes failures of the store, the database and the broker, too, and sources whose file a
  deletion has taken;
- `DeletionTakesTheFile` has no condition, but it is about sources that have a row. The file of
  an upload whose put was reported failed or whose commit failed has none and stays until the
  project is deleted, which finds it by listing the bucket (`SourcesAreGone`);
- `DocumentsAreOwned` excludes the documents of requests that died, whose put failed after
  storing, or whose commit and cleanup both failed (`stranded`);
- `BuildingIsAttended` excludes exports whose files no longer match: a checksum mismatch
  leaves the export building;
- `OneActivePlan`, `OutcomeIsEarned` and `ContextIsKept` exclude overlapping starts, requests
  for one assignment and tasks of one run (`overlapped`, `crossing`, `together`): the code
  takes no lock there, and TLC shows that each is violated by an overlap;
- `ResidueIsKnown` excludes a store that does not answer (`blind`) and ends with the project,
  which `DeletionForgets` shows to end too early; `SourcesAreGone` excludes an upload that
  dies or fails while a pass settles (`missed`);
- `ToldIsStored` excludes a narration the provider broke off, which an interview's listeners
  are told as complete.

### Fairness

`GenerationRun!Fairness` is weak fairness of the continuation of a request that has begun
(`RequestStep`) and of every step of a worker (`WorkStep`). It demands neither a request
nor a confirmation nor a success of the model. Requests run to their end because FastAPI
does not suspend them indefinitely and the row lock is held for one transaction; workers
run because Celery polls the queue. `LessonStage!FairSpec` is weak fairness of a task's
steps: the model client has a timeout, so an answer or a `ModelProviderError` comes.
The other modules state safety only.

## 4. Proofs

Every safety invariant, every action property and both refinements that the passing runs
check are theorems. They hold for every value of the constants that satisfies the assumptions named in
the modules (`BoundAssumption`, `LessonAssumption`, `ProjectAssumption`, `ClientAssumption`,
`StageAssumption`, `ExportAssumption`, `SourceAssumption`, `StreamAssumption`,
`NarrationAssumption`, `RegenerationAssumption`, `ConfirmationAssumption`,
`InterviewAssumption`, `MemoryAssumption`, `AdmissionAssumption`, `ValidationAssumption`):
any number of workers, clients, projects, lessons, tasks, retries, members, versions, sources, events and requests. Some assume
more, each what the code needs for it:

- `NothingStranded` assumes `MaxCrashes = 0`: nothing takes up what a dead process left;
- `StaleWorkStaysBounded` assumes a finite pool of workers, without which "at most one
  lesson per worker" is no number;
- the theorems from `OneTokenPerRun` on, in the table of the runs, assume `OneClient`, that
  requests come one at a time: two resumes that overlap do give a run two tasks (section 3).
  Any number of workers, confirmations, retries and crashes remains.

### Runs (`GenerationRunProofs`)

| theorem | says | argument |
|---|---|---|
| `TypeCorrect` | `Spec => []TypeOK` | `TypeInv`: a confirmation in flight still has room for its version |
| `CappedRunsHaveSpent` | `Spec => []CappedIsSpent` | `BudgetInv`: `calls` never falls and never passes `Cap` (`CallsGrow`), so that a worker that has found the budget spent, and writes so only steps later, still tells the truth (`Spent`, `SpentStep`), whoever has resumed the run meanwhile |
| `RunIdentity` | `Spec => []OneRunPerPair` | an insert finds no run of its pair at the moment it inserts |
| `AdmissionCorrect` | `Spec => []AdmissionHolds` | `LockInv`: whoever is about to insert holds the lock and saw room; nothing but an insert adds an unreleased active run |
| `NothingStranded` | without crashes, `Spec => []NoStrandedRun` | `StrandInv`: every active run has a delivery, a worker past the point of taking it, or a request about to dispatch; `Settling`: who stops working writes a terminal status |
| `StaleWorkStaysBounded` | `Spec => []StaleWorkBounded` | `LateInv`: the calls still in hand for a stale run are the pairs of a worker in a lesson and an unused call of its attempt (`LateRoom`); each late call uses one up and nobody adds any, because a lesson is begun only for a current pair and a stale pair never becomes current again (`VersionInv`, `StaleStays`) |
| `OneTokenPerRun` | `Spec => []OneTaskPerRun` | `TokenInv`: a delivery, a worker at work and a request with the run exclude each other, and a run whose status only the last step of a task writes has none of them; that is what lets a resume in |
| `CompleteRunsAreWhole` | `Spec => []CompleteRunIsWhole` | `TaskInv`: who is about to settle a run as complete has counted its lessons, and by `TokenInv` nobody else writes them before it does |
| `CompletedLessonsAreKept` | `Spec => CompletedLessonsStay` | a lesson in work was not complete when it was chosen (`TaskInv`), and no second task of the run can have completed it since |
| `RunsKeepTheirPromise` | `Spec => RunsProgress` | `ProgressInv` joins the invariants above with `PaidInv`: an attempt that has used a call has charged its run. A call is then `Spend`, because the lesson in work is in the scope and missing (`LessonIsMissing`); a decided lesson is `Produce` or a stutter; a status write is `Complete`, `Supersede`, `Reopen` or a stutter, because the only write of `complete` follows a count of all lessons and a complete run is left so (`CompleteIsLeft`) |

Each of the last five first reduces the eighteen steps of a worker to a shape (`Shape`,
`WorkHasShape`): it takes a delivery, keeps its run, leaves it, or leaves a delivery behind.
`CreatedInv` adds that nothing refers to a run before it is created.

### Stages (`LessonStageProofs`)

| theorem | says | argument |
|---|---|---|
| `StagesTypeCorrect` | `Spec => []TypeOK` | `IInv` adds `Budgeted`: how many calls an attempt has used at each stage |
| `StagesImplementAttempt` | `Spec => Attempt!Spec` | each stage is a `Call`, `Progress`, `Decide`, `Leave` or a stutter; `PlanMissing` is a `Refuse`. Needs `Budgeted` for the bound on calls and for "no document without a call" |
| `CompleteLessonsAreStored`, `CompleteLessonsAreReviewed` | `Spec => []CompleteIsStored`, `Spec => []CompleteIsReviewed` | `SerialInv`: unless tasks overlapped, at most one is at work, its session's copy is the committed row, the parts it has put hold the plan it is about to commit, and past the review that plan was cleared with the verdict of the row (`Along`); a completed row agrees with bucket and review (`Agrees`) |
| `DesignsArePaidOnce` | `Spec => DesignPaidOnce` | by the same invariant the copy that a task looks at before it designs is the row |

### Exports (`DeliveryExportProofs`)

| theorem | says | argument |
|---|---|---|
| `ExportTypeCorrect` | `Spec => []TypeOK` | manifests are well typed because the newest of a finite set of runs is one of them (`NewestIsOne`) |
| `ExportsAreWhole` | `Spec => []ReadyIsWhole` | `PackageInv`: a package is only ever put after its files matched the manifest, so every package equals the manifest of its identity, whoever builds it and however often |
| `ExportsDoNotMixVersions` | `Spec => []ReadyPairWasCurrent` | `VersionInv`: versions only grow, so a brief found unchanged was the newest during everything in between, the second reading of the blueprint included |
| `ValidatedExportsAreComplete` | `Spec => []ValidatedHasNoGaps` | `IdentityInv`: `Blocked` and `ManifestOf` see the same state and agree member by member; completed members have a file (`FilesInv`) |
| `BuildingExportsAreAttended` | `Spec => []BuildingIsAttended` | a mismatch never heals, since a document once overwritten is not stored again (`MatchesStays`): whoever leaves a building export saw a mismatch, or settled it |

The proof first puts every request step into one of seven kinds (`RequestKind`,
`RequestIsOfAKind`) according to what it writes; the invariant is then shown for the kinds.

### Sources (`SourceLifecycleProofs`)

| theorem | says | argument |
|---|---|---|
| `SourceTypeCorrect` | `Spec => []TypeOK` | `ChainInv`: a source is in one upload, one waiting task or one worker's parse, so that `TriggerInv` bounds the triggers |
| `UploadsStayWithinLimit` | `Spec => []SourcesWithinLimit` | `UploadInv`, `LimitInv`: who uploads holds the lock and has seen room for one more |
| `DeletionIsFinal`, `AnalysesDoNotOverlap` | `Spec => []DeletedLeavesNothing`, `Spec => []OneCallAtATime` | `ClaimInv`: who calls the model holds the row of the analysis, inserted or updated before the call and until its commit; a deletion that has seen that row holds it too, so the two exclude each other |
| `ScreeningComesFirst` | `Spec => []OnlyScreenedIsUsed` | `WantInv`: the result a parse is about to write is that of its file, which is uploaded once (`TextInv`) |
| `DeletionsTakeTheFile` | `Spec => DeletionTakesTheFile` | only `DeleteRow` removes a row; `FileInv`: a deletion that is past the store has left no file, and nobody puts another, failing uploads included |
| `SourcesAreCarried` | `Spec => []ProcessingIsCarried` | inductive with the types: the upload hands over to the task, the task to a worker |

### Planning (`PlanningProofs`)

| theorem | says | argument |
|---|---|---|
| `DerivedDocumentsFollowTheirPair` | `RegenerationSpec => []DerivedFollowsItsPair` | `FollowInv`: a run, and a start about to insert one, is bound to a plan run of its own pair, and a lesson is written only from what that run has written, which never shrinks (`PlansStay`) |
| `EditsAreNeverLost`, `ConfirmedVersionsFit` | `ConfirmationSpec => []EditsAreLinear`, `ConfirmationSpec => []ConfirmedFitsItsBrief` | `ConfirmationInv`: rows are only added, so what a request has read stays true; the base of an edit, the plan and the brief of a draft and of the confirmation that read them agree, and a confirmation at its last step has passed the checks for rows that cannot change |
| `ReadyRunsHaveDrafts` | `InterviewSpec => []ReadyHasDraft` | `InterviewInv`: a thread that has ended left a draft, and whoever is about to write "ready" has read such a thread |
| `OnePlanIsActive` | `InterviewSpec => []OneActivePlan` | unless requests overlapped, one is at work; an active plan is the newest, and a start inserts one only when it found none |

### Streams and narrations (`StreamingProofs`)

| theorem | says | argument |
|---|---|---|
| `StreamsMissNothing` | `StreamSpec => []SeenIsPrefix` | `LogInv`: one author at a time holds the number after the last one, so the log has no gap and nothing appears behind a cursor; `FollowerInv`: a stream's cursor is where its client is, and its page continues from there |
| `NarrationsToldAreStored` | `NarrationSpec => []ToldIsStored` | `NarrationInv`: an entry becomes complete, without an error, only after its trace was committed; listeners hold entries, not names, so replacing one changes nothing for those who listen |

### Workspace (`WorkspaceProofs`)

| theorem | says | argument |
|---|---|---|
| `RecordsStayWithinCap` | `MemorySpec => []RecordsWithinCap` | `CapInv`: the lock has one holder, and since it counted there are not more records; an override points to a record |
| `RunsKeepTheirContext` | `MemorySpec => []ContextIsKept` | `ContextInv`: the first task of a run attaches alone, the later ones find the event that says so |
| `ResidueStaysKnown`, `DeletedProjectsHaveNoSource` | `DeletionSpec => []ResidueIsKnown`, `DeletionSpec => []SourcesAreGone` | `UsedInv`: a key is stored once; `ResidueInv`: of what a settling pass drops from the rows, whatever is still stored is recorded as failed; `GoneInv`: a source that is stored when a pass has verified everything was committed after the rows were read, and makes the settling fail, or is still being uploaded, and fails itself |
| `LimitsAreKept` | `AdmissionSpec => []LimitsHold` | `WindowInv`: one request holds a window's row, whose total is at least what was admitted and what that request asks for; `ProjectsInv`: one request at a time is about to add a project, and saw room |

### Product validation (`ProductValidationProofs`)

| theorem | says | argument |
|---|---|---|
| `DocumentsHaveOwners` | `ValidationSpec => []DocumentsAreOwned` | `DocumentInv`: documents get fresh names, and are with one request or one row |
| `OutcomesAreEarned` | `ValidationSpec => []OutcomeIsEarned` | `AssignmentInv`: an assignment no two requests crossed has one current evidence with its outcome, and the request that works on it knows which one it will supersede |

None of these properties is inductive as it stands. Each speaks of what is committed, and is
kept by what somebody has read, holds or is about to write; the invariants say what that is,
which is also where the code's locks, keys and the order of its writes enter. The type
invariants are part of them and are not run: an action that breaks one breaks a proof.

Left to TLC: `EventuallySettled` and `AttemptEnds`, since fairness and ENABLED are outside
the prover. The five counterexamples of section 5 are runs, not theorems. No module uses a
RECURSIVE operator or an induction over data; where the size of a set matters
(`LateRoom`, the runs and sources under a limit, the records of a workspace), the proofs
count by adding and removing one element.

## 5. Disagreements between the code and its documents

Each is a run that TLC must find violated, with the document's sentence as the property;
`PROJECT.json` quotes the lines.

| run | the document says | the code |
|---|---|---|
| `RunSupersededRevives` | `superseded` is one-way | a worker writes its status over a row it loaded earlier |
| `RunResumesOverlap` | completed lessons never re-enter work (specs/F003:118) | two resumes pass one unlocked check and queue two tasks; one works on from the row it loaded |
| `StageUnreviewed` | what reaches the teacher has been checked | the re-review reads the first draft |
| `RegenerationRefused` | a start is covered by plans of the pair's run or retained ones | retained plans stop counting as soon as the newest plan run is the pair's own (`service.py:258-264`) |
| `DeletionForgets` | unrepairable objects keep the deletion visibly incomplete | the pass after a failed one keeps the residual of an artifact that is still there, does not look at it, and deletes the project with it |

Others were met while modelling and have no run of their own; the models contain the
behaviour.

- *Runs.* A worker crash in the middle of a lesson leaves the run active for ever: the delivery
  is acknowledged when it is taken (`worker.py:26`), only exceptions are retried, and a start
  or a resume refuses a run that is active, although specs/F003:95 says that a bounded retry
  resumes it. `resume_run` does not ask `admit_run`; a stale blueprint does not stop
  `start_generation` (specs/F002 AC-016).
- *Exports.* A build that meets a checksum mismatch leaves its row building (specs/F008:137);
  a finding's override can be withdrawn once (specs/F008:175, `models.py:555`); a ready
  export is built again by a request that had found it failed (specs/F008:115).
- *Sources.* `delete_source` promises that "the private object must never be stranded silently"
  (`service.py:197`) and keeps it; an upload has no such care: a put that is reported failed
  but stored (`service.py:85`), a commit that fails (`api/sources.py:179-196`) or a crash leaves
  a file without a row, and a failing enqueue (197) leaves a source processing. A parse that ends after a failed deletion hides `delete_failed`; a second
  analysis trigger waits and repeats the call (specs/F016:115).
- *Regeneration.* A repeated start of a targeted deck run is refused instead of answered with
  the run (`service.py:399-417` comes before 421; specs/F007:104). Decks can be started
  when every plan is retained and there is no plan run of the pair: the prerequisite is then
  none and every lesson fails (`deck_graph.py:209-226`). A retained artifact is any
  complete one of an older pair, also of an intent that was changed and changed back
  (`transition.py:59-66`). A lesson that failed in an older run and did not change is in no
  later scope.
- *Interviews.* `get_active_run` and the discovery endpoints do not ask for the kind and take
  planning runs (`service.py:48-64`); the quota error of `graph.py:290` is not the class the
  endpoints catch; a planning run that is superseded while a request executes it becomes
  active again (`planning.py:123`, 464); a provider failure at the second attempt writes
  no status, since the session has loaded that status (`planning.py:474`; specs/F002:137); a
  narration's call may be lost from the counter, which is loaded and written
  (`narration.py:74`).
- *Confirmation.* A confirmation that loses its version number to another one returns none
  (`brief.py:165-172`); two requests that import the same planning run may put the import
  over an edit.
- *Memory.* One pass leaves two pending proposals of a category, since the session does not
  flush between them (specs/F013:172); a crash leaves a pass scheduled or running.
- *Validation.* Concurrent imports of different revisions leave two current ones when there
  was none before (specs/F010:148 says the later one supersedes); a conclusion overwrites an
  outcome that came meanwhile. An import does not look at the state of its assignment and
  gives one that was concluded as not complete an outcome (`service.py:486`), although
  "terminal states are immutable" (`service.py:512`, specs/F010:113, 129). A corrected revision
  recomputes a passed or failed assignment, as specs/F010:95 wants and 113, 129 and AC-007
  ("outcomes immutable once terminal") deny. "No private evidence object can outlive its owning row" (`service.py:381`, 492) covers the commit
  only: a put that fails after storing (471-476), or a crash before the commit, strands the
  document, and the deletion of the project does not find it, since it asks for the keys of rows.
- *Deletion.* A worker that puts its object after the artifact keys were read strands it.
- *Streams.* The terminal status of a run is committed before the event that tells it
  (`graph.py:491-510`), and a stream that ends between the two never sends the event; decks
  and exercises take no slot.
- *Narrations.* Requests that have read the same quota write the same number
  (`evidence.py:538`); two that both registered take each other out of the registry
  (`evidence.py:641`); an error other than the provider's leaves the listeners waiting; an
  offset may be that of another narration.

## 6. Not modelled

Text extraction, screening patterns, document rendering and validation, the evaluation
criteria, prompts, and everything the web client renders are functions of their input or
layout: they share no state and no order of steps. Adapters are modelled by the outcomes
their callers distinguish. Read-only projections (evidence, listings) are left out, and so
are embeddings and retrieval over them, whose failure changes nothing but the quality of an
answer.

Technical evaluation is left out: a pass is created under a unique key and dispatched once,
and one task executes it from beginning to end without another actor on its rows; its
harness is a script over the handlers the other modules have. A crash leaves a pass active,
and nothing dispatches it again, although `execute_evaluation` says that it resumes.

The services are checked one at a time. Where one changes what another reads, the reading
module has the change as an action of its own: `ConfirmBrief` in `Interview`, `PlanReady` in
`Confirmation`, `PackageChanges` in `ProductValidation`, `Upload` and `WorkerPut` in
`ProjectDeletion`, `DeleteProject` in `Admission`.

## 7. Plan

All the modules of section 2 are written, and their safety properties are proved. What
remains is to state what some more components promise as abstract specifications, and to
show that the modules implement them, as `LessonStage` implements `LessonAttempt` and
`GenerationRun` implements `RunProgress`: the export as a register of packages that are
whole when they are ready, the analysis of a source as calls one at a time, and the event
stream as a log read in order.
