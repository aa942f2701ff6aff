----------------------------- MODULE LessonStage -----------------------------
(***************************************************************************)
(* One lesson's artifact in one run: design, draft, review, revise,        *)
(* re-review, render, validate, store (artifact_production/graph.py,       *)
(* design.py, review.py; deck_graph.py and exercise_graph.py have the same *)
(* stages without the designer).                                           *)
(*                                                                         *)
(* The row of the artifact is shared by every task that executes the run.  *)
(* A task's session holds its own copy and a commit updates the columns    *)
(* the session changed, so that another task's values in those columns are *)
(* overwritten and those in the others stay.                               *)
(*                                                                         *)
(* A document is a number, new for every draft or revision the model       *)
(* writes; its checksum is the document.  A crash of a task is a task that *)
(* takes no further step.                                                  *)
(***************************************************************************)
EXTENDS Integers, FiniteSets

CONSTANTS
  Task,          \* executions of the run that may overlap
  Part,          \* files of the artifact: the plan, or an exercise sheet and its key
  Cap,           \* model_call_cap of the run
  MaxDesigns,    \* designer calls of an attempt, 0 for decks and exercises
  MaxDrafts,     \* drafts of an attempt
  ParseGuarded,  \* an unparseable draft is caught
  MaxBegins      \* bound: attempts at the lesson

ASSUME StageAssumption ==
  /\ Cap \in Nat /\ MaxDesigns \in Nat /\ MaxDrafts \in Nat \ {0} /\ MaxBegins \in Nat
  /\ ParseGuarded \in BOOLEAN
  /\ Part # {}

\* Decks and exercises are written from the confirmed plan of the lesson, without a designer.
FromPlan == MaxDesigns = 0

\* draft, review, revise and re-review of every draft
LessonCalls == MaxDesigns + 4 * MaxDrafts

ArtifactStatus == {"pending", "designing", "drafting", "reviewing", "rendering", "validating",
                   "complete", "failed"}
DesignStatus == {"none", "ready", "failed"}
ReviewOutcome == {"none", "passed", "passed_after_revise", "failed_after_revise", "unparseable"}
Row == [status : ArtifactStatus, design : DesignStatus, review : ReviewOutcome, doc : Nat]

VARIABLES
  row,      \* the artifact row
  object,   \* object[p]: the document in the bucket under the key of part p, 0 when none
  calls,    \* model_calls of the run
  traced,   \* draft in the newest writer trace of the lesson, 0 when none
  cleared,  \* history: <<d, e>>: a reviewer found nothing severe in d and e went on to render
  nextDoc,  \* the next document
  task,     \* task[t]: an execution of process_lesson_node
  begins,   \* attempts so far
  overlapped  \* history: an attempt began while another task was in one

vars == <<row, object, calls, traced, cleared, nextDoc, task, begins, overlapped>>

\* the stages that are about to reserve a call, and those waiting for its answer
Reserving == {"design", "draft", "review", "revise", "rereview"}
Calling == {"designing", "drafting", "reviewing", "revising", "rereviewing"}
StagePC == {"idle", "render", "validate", "put"} \union Reserving \union Calling
Outcome == {"none", "complete", "failed", "capped", "provider", "error"}

NewRow == [status |-> "pending", design |-> "none", review |-> "none", doc |-> 0]
IdleTask == [pc |-> "idle", row |-> NewRow, designs |-> 0, drafts |-> 0, used |-> 0,
             draft |-> 0, plan |-> 0, stored |-> {}, outcome |-> "none"]

Init ==
  /\ row = NewRow
  /\ object = [p \in Part |-> 0]
  /\ calls \in 0..Cap          \* the run's other lessons have used some
  /\ traced = 0
  /\ cleared = {}
  /\ nextDoc = 1
  /\ task = [t \in Task |-> IdleTask]
  /\ begins = 0
  /\ overlapped = FALSE

-----------------------------------------------------------------------------
Becomes(t, state) == task' = [task EXCEPT ![t] = state]
Goto(t, pc) == Becomes(t, [task[t] EXCEPT !.pc = pc])
Ended(outcome, used) == [IdleTask EXCEPT !.outcome = outcome, !.used = used]

\* A commit: the columns in which new differs from the session's copy.
Commit(t, new) ==
  row' = [column \in DOMAIN row |->
            IF new[column] = task[t].row[column] THEN row[column] ELSE new[column]]

Saves(t, new, state) ==
  /\ Commit(t, new)
  /\ Becomes(t, [state EXCEPT !.row = new])

\* The attempt is over.
Fails(t, new) ==
  /\ Commit(t, [new EXCEPT !.status = "failed"])
  /\ Becomes(t, Ended("failed", task[t].used))

Stops(t, outcome) ==
  /\ Becomes(t, Ended(outcome, task[t].used))
  /\ UNCHANGED row

Counts ==
  /\ begins' = begins + 1
  /\ overlapped' = (overlapped \/ \E u \in Task : task[u].pc # "idle")

-----------------------------------------------------------------------------
\* Mutant: the stored design is not looked at.
BeginAgain(t) ==
  /\ task[t].pc = "idle"
  /\ begins < MaxBegins
  /\ row.status # "complete"
  /\ Counts
  /\ Becomes(t, [IdleTask EXCEPT !.pc = IF MaxDesigns > 0 THEN "design" ELSE "draft",
                                 !.row = row])
  /\ UNCHANGED <<row, object, calls, traced, cleared, nextDoc>>

\* Mutant: a completed lesson is attempted again.
BeginCompleted(t) ==
  /\ task[t].pc = "idle"
  /\ begins < MaxBegins
  /\ Counts
  /\ Becomes(t, [IdleTask EXCEPT !.row = row, !.pc =
                    IF MaxDesigns > 0 /\ row.design # "ready" THEN "design" ELSE "draft"])
  /\ UNCHANGED <<row, object, calls, traced, cleared, nextDoc>>

\* A task reaches the lesson; a completed one is skipped, a stored design reused.
Begin(t) ==
  /\ task[t].pc = "idle"
  /\ begins < MaxBegins
  /\ row.status # "complete"
  /\ Counts
  /\ Becomes(t, [IdleTask EXCEPT !.row = row, !.pc =
                    IF MaxDesigns > 0 /\ row.design # "ready" THEN "design" ELSE "draft"])
  /\ UNCHANGED <<row, object, calls, traced, cleared, nextDoc>>

\* The prerequisite run has no plan of the lesson: it fails before any call.
PlanMissing(t) ==
  /\ FromPlan
  /\ task[t].pc = "draft" /\ task[t].drafts = 0
  /\ Fails(t, task[t].row)
  /\ UNCHANGED <<object, calls, traced, cleared, nextDoc, begins, overlapped>>

\* reserve_model_call, then the status the stage shows while the model answers.
Spend(t, status, state) ==
  /\ calls < Cap
  /\ calls' = calls + 1
  /\ Saves(t, [task[t].row EXCEPT !.status = status], [state EXCEPT !.used = @ + 1])
  /\ UNCHANGED <<object, traced, cleared, nextDoc, begins, overlapped>>

ReserveDesign(t) ==
  /\ task[t].pc = "design" /\ task[t].designs < MaxDesigns
  /\ Spend(t, "designing", [task[t] EXCEPT !.pc = "designing", !.designs = @ + 1])

ReserveDraft(t) ==
  /\ task[t].pc = "draft" /\ task[t].drafts < MaxDrafts
  /\ Spend(t, "drafting", [task[t] EXCEPT !.pc = "drafting", !.drafts = @ + 1])

ReserveReview(t) ==
  \/ task[t].pc = "review" /\ Spend(t, "reviewing", [task[t] EXCEPT !.pc = "reviewing"])
  \/ task[t].pc = "rereview" /\ Spend(t, "reviewing", [task[t] EXCEPT !.pc = "rereviewing"])

\* The revise round stays within the status reviewing.
ReserveRevise(t) ==
  /\ task[t].pc = "revise"
  /\ Spend(t, "reviewing", [task[t] EXCEPT !.pc = "revising"])

\* The last try was used up: the design stage or the lesson gives up.
DesignGivesUp(t) ==
  /\ task[t].pc = "design" /\ task[t].designs = MaxDesigns
  /\ Fails(t, [task[t].row EXCEPT !.design = "failed"])
  /\ UNCHANGED <<object, calls, traced, cleared, nextDoc, begins, overlapped>>

DraftGivesUp(t) ==
  /\ task[t].pc = "draft" /\ task[t].drafts = MaxDrafts
  /\ Fails(t, task[t].row)
  /\ UNCHANGED <<object, calls, traced, cleared, nextDoc, begins, overlapped>>

CapReached(t) ==
  /\ task[t].pc \in Reserving
  /\ task[t].pc = "design" => task[t].designs < MaxDesigns
  /\ task[t].pc = "draft" => task[t].drafts < MaxDrafts
  /\ calls >= Cap
  /\ Stops(t, "capped")
  /\ UNCHANGED <<object, calls, traced, cleared, nextDoc, begins, overlapped>>

-----------------------------------------------------------------------------
(* The model answers.                                                       *)

\* The session is rolled back and the lesson marked failed, whatever the row holds.
ProviderError(t) ==
  /\ task[t].pc \in Calling
  /\ row' = [row EXCEPT !.status = "failed"]
  /\ Becomes(t, Ended("provider", task[t].used))
  /\ UNCHANGED <<object, calls, traced, cleared, nextDoc, begins, overlapped>>

Designed(t) ==
  /\ task[t].pc = "designing"
  /\ Saves(t, [task[t].row EXCEPT !.design = "ready"], [task[t] EXCEPT !.pc = "draft"])
  /\ UNCHANGED <<object, calls, traced, cleared, nextDoc, begins, overlapped>>

\* An unparseable or invalid design: the next try carries the problems.
DesignRejected(t) ==
  /\ task[t].pc = "designing"
  /\ Goto(t, "design")
  /\ UNCHANGED <<row, object, calls, traced, cleared, nextDoc, begins, overlapped>>

\* The draft is recorded in a trace event, and only there.
Drafted(t) ==
  /\ task[t].pc = "drafting"
  /\ nextDoc' = nextDoc + 1
  /\ traced' = nextDoc
  /\ Becomes(t, [task[t] EXCEPT !.pc = "review", !.draft = nextDoc, !.plan = nextDoc])
  /\ UNCHANGED <<row, object, calls, cleared, begins, overlapped>>

\* The plan writer catches an unparseable draft, the other writers let it end the task.
DraftUnparseable(t) ==
  /\ task[t].pc = "drafting"
  /\ IF ParseGuarded
       THEN Goto(t, "draft") /\ UNCHANGED row
       ELSE Stops(t, "error")
  /\ UNCHANGED <<object, calls, traced, cleared, nextDoc, begins, overlapped>>

\* The verdict is recorded in the same commit as what follows from it.
Records(t, outcome, status, pc) ==
  Saves(t, [task[t].row EXCEPT !.review = outcome, !.status = status],
           [task[t] EXCEPT !.pc = pc])

\* No severe finding: on to rendering.  Both rounds send the writer's draft.
ReviewClean(t) ==
  /\ \/ task[t].pc = "reviewing" /\ Records(t, "passed", "rendering", "render")
     \/ task[t].pc = "rereviewing" /\ Records(t, "passed_after_revise", "rendering", "render")
  /\ cleared' = cleared \union {<<task[t].draft, task[t].plan>>}
  /\ UNCHANGED <<object, calls, traced, nextDoc, begins, overlapped>>

\* Severe findings: one revise round, after which the lesson fails.
ReviewSevere(t) ==
  /\ \/ task[t].pc = "reviewing" /\ Goto(t, "revise") /\ UNCHANGED row
     \/ /\ task[t].pc = "rereviewing"
        /\ Fails(t, [task[t].row EXCEPT !.review = "failed_after_revise"])
  /\ UNCHANGED <<object, calls, traced, cleared, nextDoc, begins, overlapped>>

\* Mutant: an unparseable review lets the draft pass.
ReviewIgnored(t) ==
  /\ task[t].pc \in {"reviewing", "revising", "rereviewing"}
  /\ Records(t, "unparseable", "rendering", "render")
  /\ UNCHANGED <<object, calls, traced, cleared, nextDoc, begins, overlapped>>

\* An unparseable review or revision costs a draft.
ReviewUnparseable(t) ==
  /\ task[t].pc \in {"reviewing", "revising", "rereviewing"}
  /\ Records(t, "unparseable", task[t].row.status, "draft")
  /\ UNCHANGED <<object, calls, traced, cleared, nextDoc, begins, overlapped>>

Revised(t) ==
  /\ task[t].pc = "revising"
  /\ nextDoc' = nextDoc + 1
  /\ Becomes(t, [task[t] EXCEPT !.pc = "rereview", !.plan = nextDoc])
  /\ UNCHANGED <<row, object, calls, traced, cleared, begins, overlapped>>

-----------------------------------------------------------------------------
(* Rendering, validating and storing.                                       *)

Render(t) ==
  /\ task[t].pc = "render"
  /\ Saves(t, [task[t].row EXCEPT !.status = "validating"], [task[t] EXCEPT !.pc = "validate"])
  /\ UNCHANGED <<object, calls, traced, cleared, nextDoc, begins, overlapped>>

\* Mutant: an invalid document is rendered again, not drafted again.
ValidateRerenders(t) ==
  /\ task[t].pc = "validate"
  /\ \E pc \in {"put", "render"} : Goto(t, pc)
  /\ UNCHANGED <<row, object, calls, traced, cleared, nextDoc, begins, overlapped>>

\* An invalid document costs a draft.
Validate(t) ==
  /\ task[t].pc = "validate"
  /\ \E pc \in {"put", "draft"} : Goto(t, pc)
  /\ UNCHANGED <<row, object, calls, traced, cleared, nextDoc, begins, overlapped>>

\* Every part is stored under a key that depends on the run and the lesson only.
Put(t) ==
  /\ task[t].pc = "put"
  /\ \E p \in Part \ task[t].stored :
       /\ object' = [object EXCEPT ![p] = task[t].plan]
       /\ Becomes(t, [task[t] EXCEPT !.stored = @ \union {p}])
  /\ UNCHANGED <<row, calls, traced, cleared, nextDoc, begins, overlapped>>

\* Mutant: the row is completed as soon as one part is stored.
CompleteEarly(t) ==
  /\ task[t].pc = "put" /\ task[t].stored # {}
  /\ Commit(t, [task[t].row EXCEPT !.status = "complete", !.doc = task[t].plan])
  /\ IF task[t].stored = Part
       THEN Becomes(t, Ended("complete", task[t].used))
       ELSE Becomes(t, [task[t] EXCEPT !.row.status = "complete", !.row.doc = task[t].plan])
  /\ UNCHANGED <<object, calls, traced, cleared, nextDoc, begins, overlapped>>

\* ... and the row completed with the checksums of what was stored.
Complete(t) ==
  /\ task[t].pc = "put" /\ task[t].stored = Part
  /\ Commit(t, [task[t].row EXCEPT !.status = "complete", !.doc = task[t].plan])
  /\ Becomes(t, Ended("complete", task[t].used))
  /\ UNCHANGED <<object, calls, traced, cleared, nextDoc, begins, overlapped>>

\* Any other exception ends the task: of the retrieval before the first call, of the
\* renderer or the object storage after the last.
StageError(t) ==
  /\ \/ task[t].pc \in {"design", "draft"} /\ task[t].used = 0
     \/ task[t].pc \in {"render", "put"}
  /\ Stops(t, "error")
  /\ UNCHANGED <<object, calls, traced, cleared, nextDoc, begins, overlapped>>

-----------------------------------------------------------------------------
Work(t) ==
  \/ PlanMissing(t)
  \/ ReserveDesign(t) \/ ReserveDraft(t) \/ ReserveReview(t) \/ ReserveRevise(t)
  \/ DesignGivesUp(t) \/ DraftGivesUp(t) \/ CapReached(t)
  \/ ProviderError(t) \/ Designed(t) \/ DesignRejected(t)
  \/ Drafted(t) \/ DraftUnparseable(t)
  \/ ReviewClean(t) \/ ReviewSevere(t) \/ ReviewUnparseable(t) \/ Revised(t)
  \/ Render(t) \/ Validate(t) \/ Put(t) \/ Complete(t) \/ StageError(t)

Next == \E t \in Task : Begin(t) \/ Work(t)

Spec == Init /\ [][Next]_vars

\* The model answers or fails in bounded time (its client has a timeout), and a
\* worker goes on with what it has begun.
FairSpec == Spec /\ \A t \in Task : WF_vars(Work(t))

-----------------------------------------------------------------------------
(* What module GenerationRun takes an attempt at a lesson to be.            *)

Working == ArtifactStatus \ {"pending", "complete", "failed"}

Shown(status) == IF status \in Working THEN "working" ELSE status
Attempt == INSTANCE LessonAttempt WITH
  artifact <- Shown(row.status),
  active <- {t \in Task : task[t].pc # "idle"},
  used <- [t \in Task |-> task[t].used],
  Prerequisite <- FromPlan

-----------------------------------------------------------------------------
(* Properties.                                                              *)

TypeOK ==
  /\ row \in Row
  /\ object \in [Part -> Nat]
  /\ calls \in 0..Cap
  /\ traced \in Nat
  /\ cleared \subseteq Nat \X Nat
  /\ nextDoc \in Nat \ {0}
  /\ task \in [Task -> [pc : StagePC, row : Row, designs : 0..MaxDesigns, drafts : 0..MaxDrafts,
                        used : 0..LessonCalls, draft : Nat, plan : Nat, stored : SUBSET Part,
                        outcome : Outcome]]
  /\ begins \in 0..MaxBegins
  /\ overlapped \in BOOLEAN

\* A completed artifact has its files: the bucket holds, for every part, the
\* document whose checksum the row carries (_process_one_lesson), as long as no two
\* tasks overlapped: they store under the same key and commit in either order.
CompleteIsStored ==
  row.status = "complete" /\ ~overlapped => \A p \in Part : object[p] = row.doc

\* The draft the decks and exercises are written from, read back from the newest
\* writer trace of the lesson.
ReadBack == traced

\* Nothing is completed past the review: the last verdict on a completed artifact is
\* a pass, what is read back is the draft the reviewer passed, and it is the stored
\* document unless a revise round replaced it (review_stage,
\* lesson_plans_of_prerequisite).  Overlapping tasks mix their columns.
CompleteIsReviewed ==
  row.status = "complete" /\ ~overlapped =>
    /\ row.review \in {"passed", "passed_after_revise"}
    /\ <<ReadBack, row.doc>> \in cleared
    /\ ReadBack = row.doc <=> row.review = "passed"

\* A stored design is never paid for again, after whatever failures and resumes of
\* tasks that do not overlap.
DesignPaidOnce ==
  [][\A t \in Task : task'[t].pc = "designing" /\ ~overlapped => row.design # "ready"]_vars

\* The stages implement the attempt GenerationRun abstracts them to: at most LessonCalls
\* calls, each within the run's cap, and the lesson decided only after a call, or failed
\* before the first one because the plan it is written from is missing.
Implements == Attempt!Spec

\* An attempt ends: drafts, revisions and re-renders do not go on forever.
AttemptEnds == \A t \in Task : task[t].pc # "idle" ~> task[t].pc = "idle"

-----------------------------------------------------------------------------
(* What the documentation says and the code does not do.                    *)

\* specs/F016, user scenario: what reaches the teacher has been reviewed; a document
\* that is stored after a revise round has not been.
StoredWasReviewed ==
  row.status = "complete" => \E e \in 1..row.doc : <<row.doc, e>> \in cleared

=============================================================================
