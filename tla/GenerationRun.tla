---------------------------- MODULE GenerationRun ----------------------------
(***************************************************************************)
(* The life of lesson-plan generation runs in one workspace.               *)
(*                                                                         *)
(* Four kinds of process share the rows of the database:                   *)
(*   - API clients: POST generation/start and generation/resume            *)
(*     (api/generation.py over run_orchestration/service.py);              *)
(*   - teachers confirming a brief or a blueprint version, which           *)
(*     supersedes the active runs (discovery_planning/brief.py,            *)
(*     blueprint.py);                                                      *)
(*   - Celery workers executing generate_unit (worker.py), that is the     *)
(*     LangGraph workflow assemble -> process* -> finalize                 *)
(*     (artifact_production/graph.py);                                     *)
(*   - the task queue between them, which holds a delivery until a worker  *)
(*     takes it and forgets it then (Celery's early acknowledgement).      *)
(*                                                                         *)
(* A step of a process is one read or one committed write.  The writes of  *)
(* a run's and an artifact's status are the ORM's: UPDATE ... WHERE id,    *)
(* whatever the row holds by then, and only when the value differs from    *)
(* the one the session loaded.                                             *)
(*                                                                         *)
(* One lesson's model calls are abstracted to their number and outcome;    *)
(* module LessonStage has their detail.  The event log is left out.        *)
(***************************************************************************)
EXTENDS Integers, FiniteSets

CONSTANTS
  Project,        \* projects of the workspace
  Lesson,         \* lesson indexes of a blueprint
  Worker,         \* Celery worker processes
  Client,         \* API requests that may be in flight at the same time
  NoClient,       \* the workspace row lock is free
  MaxBrief,       \* bound: confirmed brief versions of a project
  MaxBlueprint,   \* bound: confirmed blueprint versions of a project
  MaxRuns,        \* bound: generation runs ever created
  MaxResumes,     \* bound: accepted resume requests
  MaxCrashes,     \* bound: crashes of a worker or of an API process
  Cap,            \* model_call_cap of a run
  LessonCalls,    \* most model calls of one attempt at a lesson
  Limit,          \* max_concurrent_generation_runs_per_workspace
  MaxRetries      \* max_retries of the Celery task

ASSUME BoundAssumption ==
  /\ MaxBrief \in Nat \ {0} /\ MaxBlueprint \in Nat \ {0}
  /\ MaxRuns \in Nat \ {0} /\ MaxResumes \in Nat /\ MaxCrashes \in Nat
  /\ Cap \in Nat /\ LessonCalls \in Nat \ {0}
  /\ Limit \in Nat \ {0} /\ MaxRetries \in Nat

ASSUME LessonAssumption == Lesson \subseteq Nat \ {0} /\ Lesson # {} /\ IsFiniteSet(Lesson)

ASSUME ProjectAssumption == Project # {}

ASSUME ClientAssumption == NoClient \notin Client

RunId == 1..MaxRuns             \* in creation order
Attempt == 0..MaxRetries        \* request.retries of a delivery

Active == {"queued", "generating", "validating"}
Resumable == {"partial_failure", "capped_failure"}
Terminal == Resumable \union {"complete", "superseded", "terminal_failure"}
Status == Active \union Terminal

\* "none": the lesson is outside the scope fixed when the run was created
ArtifactStatus == {"none", "pending", "working", "complete", "failed"}
Pair == [project : Project, brief : 1..MaxBrief, blueprint : 1..MaxBlueprint]

VARIABLES
  brief,      \* brief[p]: newest confirmed brief version, 0 when none
  blueprint,  \* blueprint[p]: newest confirmed blueprint version, 0 when none
  stale,      \* stale[p]: the stale flag of that blueprint version
  teacher,    \* teacher[p]: a confirmation in flight
  nextRun,    \* the id the next run gets
  pair,       \* pair[r]: the version pair run r is bound to
  status,     \* status[r]
  calls,      \* calls[r]: model_calls
  artifact,   \* artifact[r][l]: status of the artifact of lesson l
  wsLock,     \* holder of the workspace row lock
  client,     \* client[c]: a request in flight
  queue,      \* queue[<<r, a>>]: deliveries of generate_unit(r) at retry a
  worker,     \* worker[w]: a task in execution
  resumes,    \* accepted resumes so far
  crashes,    \* crashes so far
  released,   \* history: runs that have left the active set since their creation
  lateCalls   \* history: model calls of run r after its pair stopped being current

versionVars == <<brief, blueprint, stale>>
rowVars == <<nextRun, pair, calls, artifact, lateCalls>>
runVars == <<nextRun, pair, calls, artifact, lateCalls, status, released>>
apiVars == <<wsLock, client, resumes>>
taskVars == <<queue, worker>>
\* what no step of a worker touches
outside == <<brief, blueprint, stale, teacher, wsLock, client, resumes, crashes>>
vars == <<brief, blueprint, stale, teacher, nextRun, pair, status, calls, artifact,
          wsLock, client, queue, worker, resumes, crashes, released, lateCalls>>

-----------------------------------------------------------------------------
Created == {r \in RunId : r < nextRun}
ActiveRuns == {r \in Created : status[r] \in Active}
CurrentPair(p) == [project |-> p, brief |-> brief[p], blueprint |-> blueprint[p]]
IsCurrent(r) == pair[r] = CurrentPair(pair[r].project)
RunsOf(vp) == {r \in Created : pair[r] = vp}
Scope(r) == {l \in Lesson : artifact[r][l] # "none"}
Completed(r) == {l \in Lesson : artifact[r][l] = "complete"}

NoPair == [project |-> CHOOSE p \in Project : TRUE, brief |-> 1, blueprint |-> 1]
IdleClient == [pc |-> "idle", run |-> 1, want |-> NoPair]
IdleTeacher == [pc |-> "idle", seen |-> {}]
IdleWorker == [pc |-> "idle", run |-> 1, attempt |-> 0, cursor |-> 0, seen |-> "queued",
               used |-> 0, outcome |-> "running"]

ClientPC == {"idle", "admit", "insert", "dispatch", "resume"}
TeacherPC == {"idle", "brief", "blueprint"}
WorkerPC == {"idle", "assemble", "enter", "load", "check", "supersede", "lesson",
             "validate", "finalize", "settle", "retry", "exhaust", "exhausted"}
Outcome == {"running", "already_finished", "stopped", "done", "capped"} \union Terminal

Init ==
  /\ brief = [p \in Project |-> 0]
  /\ blueprint = [p \in Project |-> 0]
  /\ stale = [p \in Project |-> FALSE]
  /\ teacher = [p \in Project |-> IdleTeacher]
  /\ nextRun = 1
  /\ pair = [r \in RunId |-> NoPair]
  /\ status = [r \in RunId |-> "queued"]
  /\ calls = [r \in RunId |-> 0]
  /\ artifact = [r \in RunId |-> [l \in Lesson |-> "none"]]
  /\ wsLock = NoClient
  /\ client = [c \in Client |-> IdleClient]
  /\ queue = [d \in RunId \X Attempt |-> 0]
  /\ worker = [w \in Worker |-> IdleWorker]
  /\ resumes = 0
  /\ crashes = 0
  /\ released = {}
  /\ lateCalls = [r \in RunId |-> 0]

\* A request in flight moves on.
Request(c, state) == client' = [client EXCEPT ![c] = state]

\* Every committed write of run r's status goes through SetStatus.
SetStatus(r, s) ==
  /\ status' = [status EXCEPT ![r] = s]
  /\ released' = IF s \in Active THEN released ELSE released \union {r}

-----------------------------------------------------------------------------
(* Confirming versions.  The active runs are selected first and written     *)
(* when the transaction flushes and commits, whatever they became between.  *)

Supersede(seen) ==
  /\ status' = [r \in RunId |-> IF r \in seen THEN "superseded" ELSE status[r]]
  /\ released' = released \union seen

ConfirmBriefRead(p) ==
  /\ teacher[p].pc = "idle"
  /\ brief[p] < MaxBrief
  /\ teacher' = [teacher EXCEPT ![p] =
        [pc |-> "brief", seen |-> {r \in ActiveRuns : pair[r].project = p}]]
  /\ UNCHANGED <<versionVars, runVars, apiVars, taskVars, crashes>>

ConfirmBriefCommit(p) ==
  /\ teacher[p].pc = "brief"
  /\ brief' = [brief EXCEPT ![p] = @ + 1]
  /\ stale' = [stale EXCEPT ![p] = blueprint[p] > 0]
  /\ Supersede(teacher[p].seen)
  /\ teacher' = [teacher EXCEPT ![p] = IdleTeacher]
  /\ UNCHANGED <<blueprint, rowVars, apiVars, taskVars, crashes>>

ConfirmBlueprintRead(p) ==
  /\ teacher[p].pc = "idle"
  /\ brief[p] > 0
  /\ blueprint[p] < MaxBlueprint
  /\ teacher' = [teacher EXCEPT ![p] =
        [pc |-> "blueprint", seen |-> {r \in ActiveRuns : pair[r].project = p}]]
  /\ UNCHANGED <<versionVars, runVars, apiVars, taskVars, crashes>>

ConfirmBlueprintCommit(p) ==
  /\ teacher[p].pc = "blueprint"
  /\ blueprint' = [blueprint EXCEPT ![p] = @ + 1]
  /\ stale' = [stale EXCEPT ![p] = FALSE]
  /\ Supersede(teacher[p].seen)
  /\ teacher' = [teacher EXCEPT ![p] = IdleTeacher]
  /\ UNCHANGED <<brief, rowVars, apiVars, taskVars, crashes>>

-----------------------------------------------------------------------------
(* POST generation/start.  A pair that already has a run returns it and     *)
(* changes nothing; an empty regeneration scope refuses the request.        *)

StartRead(c, p) ==
  /\ client[c].pc = "idle"
  /\ brief[p] > 0 /\ blueprint[p] > 0
  /\ RunsOf(CurrentPair(p)) = {}
  /\ nextRun + Cardinality({d \in Client : client[d].pc \in {"admit", "insert"}}) <= MaxRuns
  /\ Request(c, [client[c] EXCEPT !.pc = "admit", !.want = CurrentPair(p)])
  /\ UNCHANGED <<versionVars, teacher, runVars, wsLock, resumes, taskVars, crashes>>

\* Mutant: counts the active runs without the lock.
StartAdmitUnlocked(c) ==
  /\ client[c].pc = "admit"
  /\ Cardinality(ActiveRuns) < Limit
  /\ Request(c, [client[c] EXCEPT !.pc = "insert"])
  /\ UNCHANGED <<versionVars, teacher, runVars, wsLock, resumes, taskVars, crashes>>

\* admit_run takes the workspace row lock, held until the request's commit.
StartAdmit(c) ==
  /\ client[c].pc = "admit"
  /\ wsLock = NoClient
  /\ Cardinality(ActiveRuns) < Limit
  /\ wsLock' = c
  /\ Request(c, [client[c] EXCEPT !.pc = "insert"])
  /\ UNCHANGED <<versionVars, teacher, runVars, resumes, taskVars, crashes>>

StartRefuse(c) ==
  /\ client[c].pc = "admit"
  /\ wsLock = NoClient
  /\ Cardinality(ActiveRuns) >= Limit
  /\ Request(c, IdleClient)
  /\ UNCHANGED <<versionVars, teacher, runVars, wsLock, resumes, taskVars, crashes>>

\* The first run of a project covers every lesson, a later one the lessons the
\* version change affects.
ScopeChoices(p) ==
  IF \E r \in Created : pair[r].project = p
    THEN (SUBSET Lesson) \ {{}}
    ELSE {Lesson}

\* Mutant: no unique constraint on the run's identity.
StartInsertAnyway(c) ==
  /\ client[c].pc = "insert"
  /\ nextRun <= MaxRuns
  /\ artifact' = [artifact EXCEPT ![nextRun] = [l \in Lesson |-> "pending"]]
  /\ pair' = [pair EXCEPT ![nextRun] = client[c].want]
  /\ status' = [status EXCEPT ![nextRun] = "queued"]
  /\ nextRun' = nextRun + 1
  /\ wsLock' = NoClient
  /\ Request(c, [client[c] EXCEPT !.pc = "dispatch", !.run = nextRun])
  /\ UNCHANGED <<versionVars, teacher, calls, lateCalls, released, resumes, taskVars, crashes>>

StartInsert(c) ==
  LET vp == client[c].want
  IN /\ client[c].pc = "insert"
     /\ RunsOf(vp) = {}
     /\ nextRun <= MaxRuns   \* bound, already taken by StartRead
     /\ \E scope \in ScopeChoices(vp.project) :
          artifact' = [artifact EXCEPT ![nextRun] =
             [l \in Lesson |-> IF l \in scope THEN "pending" ELSE "none"]]
     /\ pair' = [pair EXCEPT ![nextRun] = vp]
     /\ status' = [status EXCEPT ![nextRun] = "queued"]
     /\ nextRun' = nextRun + 1
     /\ wsLock' = NoClient
     /\ Request(c, [client[c] EXCEPT !.pc = "dispatch", !.run = nextRun])
     /\ UNCHANGED <<versionVars, teacher, calls, lateCalls, released, resumes, taskVars, crashes>>

\* The unique constraint on the run's identity: roll back, return the other run.
StartDuplicate(c) ==
  /\ client[c].pc = "insert"
  /\ RunsOf(client[c].want) # {}
  /\ wsLock' = NoClient
  /\ Request(c, IdleClient)
  /\ UNCHANGED <<versionVars, teacher, runVars, resumes, taskVars, crashes>>

Dispatch(c) ==
  /\ client[c].pc = "dispatch"
  /\ queue' = [queue EXCEPT ![<<client[c].run, 0>>] = @ + 1]
  /\ Request(c, IdleClient)
  /\ UNCHANGED <<versionVars, teacher, runVars, wsLock, resumes, worker, crashes>>

\* The API process dies between the commit and the dispatch.
DispatchLost(c) ==
  /\ client[c].pc = "dispatch"
  /\ crashes < MaxCrashes
  /\ crashes' = crashes + 1
  /\ Request(c, IdleClient)
  /\ UNCHANGED <<versionVars, teacher, runVars, wsLock, resumes, taskVars>>

-----------------------------------------------------------------------------
(* POST generation/resume: the status is checked on a row loaded without a  *)
(* lock and written later.                                                  *)

\* Mutant: resume without the status check.
ResumeReadAny(c, r) ==
  /\ client[c].pc = "idle"
  /\ r \in Created /\ IsCurrent(r)
  /\ resumes < MaxResumes
  /\ Request(c, [client[c] EXCEPT !.pc = "resume", !.run = r])
  /\ UNCHANGED <<versionVars, teacher, runVars, wsLock, resumes, taskVars, crashes>>

ResumeRead(c, r) ==
  /\ client[c].pc = "idle"
  /\ r \in Created /\ IsCurrent(r)
  /\ status[r] \in Resumable
  /\ resumes + Cardinality({d \in Client : client[d].pc = "resume"}) < MaxResumes
  /\ Request(c, [client[c] EXCEPT !.pc = "resume", !.run = r])
  /\ UNCHANGED <<versionVars, teacher, runVars, wsLock, resumes, taskVars, crashes>>

\* Mutant: a resumed run gets a new budget.
ResumeCommitAfresh(c) ==
  /\ client[c].pc = "resume"
  /\ resumes' = resumes + 1
  /\ SetStatus(client[c].run, "queued")
  /\ calls' = [calls EXCEPT ![client[c].run] = 0]
  /\ Request(c, [client[c] EXCEPT !.pc = "dispatch"])
  /\ UNCHANGED <<versionVars, teacher, nextRun, pair, artifact, lateCalls, wsLock, taskVars, crashes>>

ResumeCommit(c) ==
  /\ client[c].pc = "resume"
  /\ resumes' = resumes + 1
  /\ SetStatus(client[c].run, "queued")
  /\ Request(c, [client[c] EXCEPT !.pc = "dispatch"])
  /\ UNCHANGED <<versionVars, teacher, rowVars, wsLock, taskVars, crashes>>

-----------------------------------------------------------------------------
(* A worker takes a delivery and executes the workflow.                     *)

Becomes(w, state) == worker' = [worker EXCEPT ![w] = state]
Goto(w, pc) == Becomes(w, [worker[w] EXCEPT !.pc = pc])
Finish(w) == Becomes(w, IdleWorker)

\* Writing s where the session loaded worker[w].seen: no UPDATE when they agree.
WorkerWrites(w, s) ==
  IF worker[w].seen = s
    THEN UNCHANGED <<status, released>>
    ELSE SetStatus(worker[w].run, s)

Take(w, r, a) ==
  /\ worker[w].pc = "idle"
  /\ queue[<<r, a>>] > 0
  /\ queue' = [queue EXCEPT ![<<r, a>>] = @ - 1]
  /\ Becomes(w, [worker[w] EXCEPT !.pc = "assemble", !.run = r, !.attempt = a])
  /\ UNCHANGED <<outside, runVars>>

\* assemble_node: a run that is no longer active goes straight to finalize.
AssembleRead(w) ==
  LET s == status[worker[w].run]
  IN /\ worker[w].pc = "assemble"
     /\ IF s \in Active
          THEN Becomes(w, [worker[w] EXCEPT !.pc = "enter", !.seen = s])
          ELSE Becomes(w, [worker[w] EXCEPT !.pc = "finalize", !.outcome = "already_finished"])
     /\ UNCHANGED <<outside, runVars, queue>>

AssembleWrite(w) ==
  /\ worker[w].pc = "enter"
  /\ WorkerWrites(w, "generating")
  /\ Goto(w, "load")
  /\ UNCHANGED <<outside, rowVars, queue>>

\* process_lesson_node: load the run ...
LoadRun(w) ==
  LET s == status[worker[w].run]
  IN /\ worker[w].pc = "load"
     /\ IF s \in Active
          THEN Becomes(w, [worker[w] EXCEPT !.pc = "check", !.seen = s])
          ELSE Becomes(w, [worker[w] EXCEPT !.pc = "finalize", !.outcome = "stopped"])
     /\ UNCHANGED <<outside, runVars, queue>>

\* Mutant: every lesson of the blueprint is visited, the run's scope or not.
RemainingWide(w) == {l \in Lesson : l > worker[w].cursor}

Remaining(w) == {l \in Scope(worker[w].run) : l > worker[w].cursor}

\* Mutants: the checkpoint without the version comparison, and one that also
\* regenerates completed lessons.
NextLesson(w, Skips) ==
  /\ worker[w].pc = "check"
  /\ \/ Remaining(w) = {} /\ Goto(w, "validate")
     \/ \E l \in Remaining(w) :
          /\ \A m \in Remaining(w) : l <= m
          /\ Becomes(w, [worker[w] EXCEPT !.cursor = l, !.pc =
                            IF l \in Skips THEN "load" ELSE "lesson"])
  /\ UNCHANGED <<outside, runVars, queue>>
CheckpointBlind(w) == NextLesson(w, Completed(worker[w].run))
CheckpointRedo(w) == NextLesson(w, {})

\* ... then the safe checkpoint: the newest versions and the next artifact decide.
Checkpoint(w) ==
  LET r == worker[w].run
  IN /\ worker[w].pc = "check"
     /\ \/ ~IsCurrent(r) /\ Goto(w, "supersede")
        \/ IsCurrent(r) /\ Remaining(w) = {} /\ Goto(w, "validate")
        \/ /\ IsCurrent(r)
           /\ \E l \in Remaining(w) :
                /\ \A m \in Remaining(w) : l <= m
                /\ Becomes(w, [worker[w] EXCEPT !.cursor = l, !.pc =
                                  IF l \in Completed(r) THEN "load" ELSE "lesson"])
     /\ UNCHANGED <<outside, runVars, queue>>

SupersedeWrite(w) ==
  /\ worker[w].pc = "supersede"
  /\ WorkerWrites(w, "superseded")
  /\ Becomes(w, [worker[w] EXCEPT !.pc = "finalize", !.outcome = "superseded"])
  /\ UNCHANGED <<outside, rowVars, queue>>

ValidateWrite(w) ==
  /\ worker[w].pc = "validate"
  /\ WorkerWrites(w, "validating")
  /\ Becomes(w, [worker[w] EXCEPT !.pc = "finalize", !.outcome = "done"])
  /\ UNCHANGED <<outside, rowVars, queue>>

\* One attempt at a lesson: calls reserved one at a time, then an outcome.
SetArtifact(w, s) ==
  artifact' = [artifact EXCEPT ![worker[w].run][worker[w].cursor] = s]

\* Mutant: one call too many per attempt.
LessonCallExtra(w) ==
  LET r == worker[w].run
  IN /\ worker[w].pc = "lesson"
     /\ worker[w].used <= LessonCalls
     /\ calls[r] < Cap
     /\ calls' = [calls EXCEPT ![r] = @ + 1]
     /\ lateCalls' = [lateCalls EXCEPT ![r] = IF IsCurrent(r) THEN @ ELSE @ + 1]
     /\ SetArtifact(w, "working")
     /\ Becomes(w, [worker[w] EXCEPT !.used = @ + 1])
     /\ UNCHANGED <<outside, nextRun, pair, status, released, queue>>

LessonCall(w) ==
  LET r == worker[w].run
  IN /\ worker[w].pc = "lesson"
     /\ worker[w].used < LessonCalls
     /\ calls[r] < Cap
     /\ calls' = [calls EXCEPT ![r] = @ + 1]
     /\ lateCalls' = [lateCalls EXCEPT ![r] = IF IsCurrent(r) THEN @ ELSE @ + 1]
     /\ SetArtifact(w, "working")
     /\ Becomes(w, [worker[w] EXCEPT !.used = @ + 1])
     /\ UNCHANGED <<outside, nextRun, pair, status, released, queue>>

LessonCapped(w) ==
  /\ worker[w].pc = "lesson"
  /\ worker[w].used < LessonCalls
  /\ calls[worker[w].run] >= Cap
  /\ Becomes(w, [worker[w] EXCEPT !.pc = "finalize", !.outcome = "capped"])
  /\ UNCHANGED <<outside, runVars, queue>>

LessonEnds(w, s, pc) ==
  /\ worker[w].pc = "lesson"
  /\ worker[w].used > 0
  /\ SetArtifact(w, s)
  /\ Becomes(w, [worker[w] EXCEPT !.pc = pc, !.used = 0])
  /\ UNCHANGED <<outside, nextRun, pair, calls, lateCalls, status, released, queue>>

LessonComplete(w) == LessonEnds(w, "complete", "load")

\* The design, the review or the document validation gave up on the lesson.
LessonFail(w) == LessonEnds(w, "failed", "load")

\* The model provider failed: the lesson is marked failed and the task is retried.
LessonProviderError(w) == LessonEnds(w, "failed", "retry")

\* Any other exception leaves the artifact: a failing retrieval before the first
\* call, a failing object storage after the last.
LessonError(w) ==
  /\ worker[w].pc = "lesson"
  /\ Goto(w, "retry")
  /\ UNCHANGED <<outside, runVars, queue>>

-----------------------------------------------------------------------------
(* Settling a run.                                                          *)

\* Mutant: one completed lesson is enough for a complete run.
FinalizeReadAny(w) ==
  LET r == worker[w].run
  IN /\ worker[w].pc = "finalize"
     /\ IF status[r] \in Terminal
          THEN Finish(w)
          ELSE Becomes(w, [worker[w] EXCEPT !.pc = "settle", !.seen = status[r],
                 !.outcome = IF Completed(r) # {} THEN "complete" ELSE "terminal_failure"])
     /\ UNCHANGED <<outside, runVars, queue>>

\* finalize_node: a settled run keeps its status.
FinalizeRead(w) ==
  LET r == worker[w].run
      verdict ==
        IF worker[w].outcome = "superseded" THEN "superseded"
        ELSE IF worker[w].outcome = "capped" THEN "capped_failure"
        ELSE IF Completed(r) = Scope(r) THEN "complete"
        ELSE IF Completed(r) # {} THEN "partial_failure"
        ELSE "terminal_failure"
  IN /\ worker[w].pc = "finalize"
     /\ IF status[r] \in Terminal
          THEN Finish(w)
          ELSE Becomes(w, [worker[w] EXCEPT !.pc = "settle", !.seen = status[r],
                                             !.outcome = verdict])
     /\ UNCHANGED <<outside, runVars, queue>>

FinalizeWrite(w) ==
  /\ worker[w].pc = "settle"
  /\ WorkerWrites(w, worker[w].outcome)
  /\ Finish(w)
  /\ UNCHANGED <<outside, rowVars, queue>>

\* Mutants: the last retry gives up without settling the run; a retry is not counted.
RetryGivesUp(w) ==
  LET r == worker[w].run
      a == worker[w].attempt
  IN /\ worker[w].pc = "retry"
     /\ queue' = IF a < MaxRetries THEN [queue EXCEPT ![<<r, a + 1>>] = @ + 1] ELSE queue
     /\ Finish(w)
     /\ UNCHANGED <<outside, runVars>>

RetryForever(w) ==
  /\ worker[w].pc = "retry"
  /\ queue' = [queue EXCEPT ![<<worker[w].run, worker[w].attempt>>] = @ + 1]
  /\ Finish(w)
  /\ UNCHANGED <<outside, runVars>>

\* generate_unit: retry the task, or settle the run after the last retry.
Retry(w) ==
  LET r == worker[w].run
      a == worker[w].attempt
  IN /\ worker[w].pc = "retry"
     /\ IF a < MaxRetries
          THEN /\ queue' = [queue EXCEPT ![<<r, a + 1>>] = @ + 1]
               /\ Finish(w)
          ELSE /\ Goto(w, "exhaust")
               /\ UNCHANGED queue
     /\ UNCHANGED <<outside, runVars>>

\* mark_provider_exhausted does not look at the status it replaces.
ExhaustRead(w) ==
  LET r == worker[w].run
  IN /\ worker[w].pc = "exhaust"
     /\ Becomes(w, [worker[w] EXCEPT !.pc = "exhausted", !.seen = status[r], !.outcome =
                      IF Completed(r) # {} THEN "partial_failure" ELSE "terminal_failure"])
     /\ UNCHANGED <<outside, runVars, queue>>

ExhaustWrite(w) ==
  /\ worker[w].pc = "exhausted"
  /\ WorkerWrites(w, worker[w].outcome)
  /\ Finish(w)
  /\ UNCHANGED <<outside, rowVars, queue>>

\* A worker process dies: its task was acknowledged when it was taken.
WorkerCrash(w) ==
  /\ worker[w].pc # "idle"
  /\ crashes < MaxCrashes
  /\ crashes' = crashes + 1
  /\ Finish(w)
  /\ UNCHANGED <<versionVars, teacher, runVars, apiVars, queue>>

-----------------------------------------------------------------------------
ConfirmNext(p) ==
  \/ ConfirmBriefRead(p) \/ ConfirmBriefCommit(p)
  \/ ConfirmBlueprintRead(p) \/ ConfirmBlueprintCommit(p)

\* A request once begun runs to its end; only the first step is the client's choice.
RequestStep(c) ==
  \/ StartAdmit(c) \/ StartRefuse(c) \/ StartInsert(c) \/ StartDuplicate(c)
  \/ Dispatch(c) \/ ResumeCommit(c)

ClientNext(c) ==
  \/ \E p \in Project : StartRead(c, p)
  \/ \E r \in RunId : ResumeRead(c, r)
  \/ RequestStep(c)
  \/ DispatchLost(c)

WorkStep(w) ==
  \/ \E r \in RunId, a \in Attempt : Take(w, r, a)
  \/ AssembleRead(w) \/ AssembleWrite(w)
  \/ LoadRun(w) \/ Checkpoint(w) \/ SupersedeWrite(w) \/ ValidateWrite(w)
  \/ LessonCall(w) \/ LessonCapped(w)
  \/ LessonComplete(w) \/ LessonFail(w) \/ LessonProviderError(w) \/ LessonError(w)
  \/ FinalizeRead(w) \/ FinalizeWrite(w)
  \/ Retry(w) \/ ExhaustRead(w) \/ ExhaustWrite(w)

Next ==
  \/ \E p \in Project : ConfirmNext(p)
  \/ \E c \in Client : ClientNext(c)
  \/ \E w \in Worker : WorkStep(w) \/ WorkerCrash(w)

Spec == Init /\ [][Next]_vars

\* Requests in flight are served and workers work; nobody has to ask for anything.
Fairness ==
  /\ \A c \in Client : WF_vars(RequestStep(c))
  /\ \A w \in Worker : WF_vars(WorkStep(w))

FairSpec == Spec /\ Fairness

-----------------------------------------------------------------------------
(* What the rows say of the runs' progress.                                 *)

Scopes == [r \in RunId |-> Scope(r)]
Products == [r \in RunId |-> Completed(r)]
States == [r \in RunId |->
             IF r \notin Created THEN "none"
             ELSE IF status[r] \in {"complete", "superseded"} THEN status[r] ELSE "open"]
Progress == INSTANCE RunProgress WITH scope <- Scopes, done <- Products, state <- States

-----------------------------------------------------------------------------
(* Properties.                                                              *)

TypeOK ==
  /\ brief \in [Project -> 0..MaxBrief]
  /\ blueprint \in [Project -> 0..MaxBlueprint]
  /\ stale \in [Project -> BOOLEAN]
  /\ teacher \in [Project -> [pc : TeacherPC, seen : SUBSET RunId]]
  /\ nextRun \in 1..(MaxRuns + 1)
  /\ pair \in [RunId -> Pair]
  /\ status \in [RunId -> Status]
  /\ calls \in [RunId -> Nat]
  /\ artifact \in [RunId -> [Lesson -> ArtifactStatus]]
  /\ wsLock \in Client \union {NoClient}
  /\ client \in [Client -> [pc : ClientPC, run : RunId, want : Pair]]
  /\ queue \in [RunId \X Attempt -> Nat]
  /\ worker \in [Worker -> [pc : WorkerPC, run : RunId, attempt : Attempt,
                            cursor : Lesson \union {0}, seen : Status, used : 0..LessonCalls,
                            outcome : Outcome]]
  /\ resumes \in Nat
  /\ crashes \in Nat
  /\ released \subseteq RunId
  /\ lateCalls \in [RunId -> Nat]

\* A run that is shown as capped has spent its budget and no more: all its tasks,
\* retries and resumes draw on one count, and the task that finds it exhausted writes
\* the status only later, when others may have resumed the run (reserve_model_call,
\* finalize_node, resume_run).
CappedIsSpent == \A r \in RunId : status[r] = "capped_failure" => calls[r] = Cap

\* Duplicate starts of the same versions converge on one run, also when both
\* requests looked before either had inserted (uq_generation_run_identity).
OneRunPerPair == \A r, s \in Created : pair[r] = pair[s] => r = s

\* Starts never overshoot the workspace's limit: the runs that stayed active
\* since admit_run let them in are at most Limit, whatever else happens.
AdmissionHolds == Cardinality(ActiveRuns \ released) <= Limit

\* The safe checkpoint: once newer versions are confirmed, a run costs at most the
\* lesson each worker was in (process_lesson_node re-reads the versions).
StaleWorkBounded == \A r \in RunId : lateCalls[r] <= LessonCalls * Cardinality(Worker)

Busy(r) == {w \in Worker : worker[w].pc # "idle" /\ worker[w].run = r}
Dispatching(r) == {c \in Client : client[c].pc = "dispatch" /\ client[c].run = r}

\* Unless something crashes, an active run always has someone who will settle
\* it: a delivery, a worker, or the request that is about to dispatch it.  Starts
\* and resumes refuse an active run, so nobody else could.
NoStrandedRun ==
  \A r \in ActiveRuns :
    (\E a \in Attempt : queue[<<r, a>>] > 0) \/ Busy(r) # {} \/ Dispatching(r) # {}

\* While requests come one at a time, a run never has two tasks: a retry replaces
\* the delivery it retries, and only a settled run is resumed.
OneTaskPerRun ==
  \A r \in RunId :
    /\ \A a, b \in Attempt :
         queue[<<r, a>>] > 0 /\ queue[<<r, b>>] > 0 => a = b /\ queue[<<r, a>>] = 1
    /\ Cardinality(Busy(r) \union Dispatching(r)) <= 1
    /\ (\E a \in Attempt : queue[<<r, a>>] > 0) => Busy(r) \union Dispatching(r) = {}

\* A run is complete only when every lesson of its scope is (finalize_node counts
\* before it writes).
CompleteRunIsWhole ==
  \A r \in Created : status[r] = "complete" => Completed(r) = Scope(r)

\* Completed lessons never re-enter work, across retries, crashes and resumes: so
\* specs/F003 State Transitions has it, for any requests; the code keeps it while they
\* come one at a time.
CompletedLessonsStay == [][\A r \in RunId : Completed(r) \subseteq Completed(r)']_vars

\* While requests come one at a time, queues, retries, crashes and confirmations
\* leave the runs' progress as RunProgress promises it: no call is paid for a run
\* that lacks no lesson, a lesson is completed once, and a complete run stays complete
\* or is marked superseded by a confirmation that had selected it while it was still
\* active (graph.py, service.py).
RunsProgress == Progress!Spec

\* Every run is settled in the end, provided nothing crashes.
EventuallySettled == \A r \in RunId : (r \in ActiveRuns) ~> (r \notin ActiveRuns)

-----------------------------------------------------------------------------
(* What the documentation says and the code does not do.                    *)

\* specs/F003 State Transitions: "superseded is one-way".
SupersededIsOneWay ==
  [][\A r \in Created : status[r] = "superseded" => status'[r] = "superseded"]_vars

=============================================================================
