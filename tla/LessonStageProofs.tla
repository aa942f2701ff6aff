-------------------------- MODULE LessonStageProofs --------------------------
(***************************************************************************)
(* Proofs about LessonStage for every value of its constants.              *)
(***************************************************************************)
EXTENDS LessonStage, TLAPS

TaskState == [pc : StagePC, row : Row, designs : 0..MaxDesigns, drafts : 0..MaxDrafts,
              used : 0..LessonCalls, draft : Nat, plan : Nat, stored : SUBSET Part,
              outcome : Outcome]

\* The draft in hand has cost at most n calls.
Within(k, n) == k.drafts >= 1 /\ k.used <= k.designs + 4 * (k.drafts - 1) + n

\* An attempt has spent one call per design and at most four per draft.
Budgeted(k) ==
  /\ k.used >= k.designs + k.drafts
  /\ k.pc \in {"design", "designing"} =>
       k.used = k.designs /\ k.drafts = 0 /\ MaxDesigns > 0
  /\ k.pc = "designing" => k.designs >= 1
  /\ k.pc = "draft" => k.used <= k.designs + 4 * k.drafts
  /\ k.pc \in {"drafting", "review"} => Within(k, 1)
  /\ k.pc \in {"reviewing", "revise"} => Within(k, 2)
  /\ k.pc \in {"revising", "rereview"} => Within(k, 3)
  /\ k.pc \in {"rereviewing", "render", "validate", "put"} => Within(k, 4)

IInv == TypeOK /\ \A t \in Task : Budgeted(task[t])

USE StageAssumption

\* A commit leaves a row, and its status is the old one or the session's.
LEMMA CommitRow ==
  ASSUME NEW t \in Task, TypeOK, NEW new \in Row, Commit(t, new)
  PROVE  row' \in Row /\ row'.status \in {row.status, new.status}
<1> DEFINE r(column) == IF new[column] = task[t].row[column] THEN row[column] ELSE new[column]
<1>1. row \in Row
  BY DEF TypeOK
<1>2. DOMAIN row = {"status", "design", "review", "doc"}
  BY <1>1 DEF Row
<1>3. row' = [column \in {"status", "design", "review", "doc"} |-> r(column)]
  BY <1>2 DEF Commit
<1>4. r("status") \in ArtifactStatus /\ r("design") \in DesignStatus
      /\ r("review") \in ReviewOutcome /\ r("doc") \in Nat
  BY <1>1 DEF Row
<1>5. row' = [status |-> r("status"), design |-> r("design"), review |-> r("review"),
              doc |-> r("doc")]
  BY <1>3
<1> QED BY <1>4, <1>5 DEF Row

\* The initial state satisfies the invariant.
LEMMA InitIInv == Init => IInv
<1> SUFFICES ASSUME Init PROVE IInv
  OBVIOUS
<1>1. NewRow \in Row
  BY DEF NewRow, Row, ArtifactStatus, DesignStatus, ReviewOutcome
<1>2. IdleTask \in TaskState /\ Budgeted(IdleTask)
  BY <1>1 DEF IdleTask, TaskState, StagePC, Outcome, LessonCalls, Budgeted, Within
<1>3. begins \in 0..MaxBegins /\ overlapped \in BOOLEAN
  <2>1. begins \in 0..MaxBegins
    BY StageAssumption DEF Init
  <2>2. overlapped \in BOOLEAN
    BY Zenon DEF Init
  <2> QED BY <2>1, <2>2
<1>4. \A t \in Task : task[t] = IdleTask
  BY DEF Init
<1>5. task \in [Task -> TaskState]
  BY <1>2 DEF Init
<1>6. /\ row \in Row /\ object \in [Part -> Nat] /\ calls \in 0..Cap
      /\ traced \in Nat /\ cleared \subseteq Nat \X Nat /\ nextDoc \in Nat \ {0}
  BY <1>1 DEF Init
<1>7. TypeOK
  BY <1>3, <1>5, <1>6 DEF TypeOK, TaskState
<1> QED BY <1>2, <1>4, <1>7 DEF IInv

\* A task that moves to a budgeted state keeps the invariant.
LEMMA MoveIInv ==
  ASSUME IInv, NEW t \in Task, NEW x \in TaskState, Budgeted(x), Becomes(t, x),
         row' \in Row, object' \in [Part -> Nat], calls' \in 0..Cap, traced' \in Nat,
         cleared' \subseteq Nat \X Nat, nextDoc' \in Nat \ {0}, begins' \in 0..MaxBegins, overlapped' \in BOOLEAN
  PROVE  IInv'
<1>1. task' = [task EXCEPT ![t] = x] /\ task \in [Task -> TaskState]
  BY DEF Becomes, IInv, TypeOK, TaskState
<1>2. task' \in [Task -> TaskState] /\ \A u \in Task : Budgeted(task'[u])
  BY <1>1 DEF IInv
<1> QED BY <1>2 DEF IInv, TypeOK, TaskState, Budgeted

\* Every attempt begins within its budget.
LEMMA BeginIInv ==
  ASSUME IInv, NEW t \in Task, Begin(t)
  PROVE  IInv'
<1> DEFINE x == [IdleTask EXCEPT !.row = row, !.pc =
                   IF MaxDesigns > 0 /\ row.design # "ready" THEN "design" ELSE "draft"]
<1>a. NewRow \in Row /\ row \in Row /\ 0 \in 0..LessonCalls
  BY DEF NewRow, Row, ArtifactStatus, DesignStatus, ReviewOutcome, IInv, TypeOK, LessonCalls
<1>b. IdleTask \in TaskState
  BY <1>a DEF IdleTask, TaskState, StagePC, Outcome
<1>c. x \in TaskState
  BY <1>a, <1>b DEF TaskState, StagePC, Reserving
<1>d. Budgeted(x)
  BY <1>a, <1>b DEF TaskState, IdleTask, Budgeted, Within
<1>1. x \in TaskState /\ Budgeted(x)
  BY <1>c, <1>d
<1>2. Becomes(t, x)
  BY DEF Begin
<1> HIDE DEF x
<1> QED BY <1>1, <1>2, MoveIInv DEF Begin, Counts, IInv, TypeOK

\* ... and so does one that commits a row on its way.
LEMMA SavesIInv ==
  ASSUME IInv, NEW t \in Task, NEW new \in Row, NEW x \in TaskState, Budgeted(x),
         Saves(t, new, x), object' \in [Part -> Nat], calls' \in 0..Cap, traced' \in Nat,
         cleared' \subseteq Nat \X Nat, nextDoc' \in Nat \ {0}, begins' \in 0..MaxBegins, overlapped' \in BOOLEAN
  PROVE  IInv'
<1> DEFINE y == [x EXCEPT !.row = new]
<1>a. y \in TaskState
  BY DEF TaskState
<1>b. y.pc = x.pc /\ y.used = x.used /\ y.designs = x.designs /\ y.drafts = x.drafts
  BY DEF TaskState
<1>1. y \in TaskState /\ Budgeted(y)
  BY <1>a, <1>b DEF Budgeted, Within
<1>2. Becomes(t, y)
  BY DEF Saves
<1>3. row' \in Row
  BY CommitRow DEF Saves, IInv
<1> HIDE DEF y
<1> QED BY <1>1, <1>2, <1>3, MoveIInv

\* A reserved call fits the budget of the attempt.
LEMMA ReserveIInv ==
  ASSUME IInv, NEW t \in Task,
         ReserveDesign(t) \/ ReserveDraft(t) \/ ReserveReview(t) \/ ReserveRevise(t)
  PROVE  IInv'
<1> DEFINE k == task[t]
<1>1. k \in TaskState /\ Budgeted(k)
  BY DEF IInv, TypeOK, TaskState
<1>2. ASSUME NEW status \in ArtifactStatus, NEW x, [x EXCEPT !.used = @ + 1] \in TaskState,
             Budgeted([x EXCEPT !.used = @ + 1]), Spend(t, status, x)
      PROVE  IInv'
  <2>1. [k.row EXCEPT !.status = status] \in Row
    BY <1>1 DEF TaskState, Row
  <2>2. Saves(t, [k.row EXCEPT !.status = status], [x EXCEPT !.used = @ + 1])
    BY <1>2 DEF Spend
  <2> QED BY <1>2, <2>1, <2>2, SavesIInv DEF Spend, IInv, TypeOK
<1>3. {"designing", "drafting", "reviewing"} \subseteq ArtifactStatus
  BY DEF ArtifactStatus
<1>4. CASE ReserveDesign(t)
  <2> DEFINE x == [k EXCEPT !.pc = "designing", !.designs = @ + 1]
             y == [x EXCEPT !.used = @ + 1]
  <2>a. k.designs + 1 \in 0..MaxDesigns /\ k.used + 1 \in 0..LessonCalls
    BY <1>1, <1>4 DEF ReserveDesign, TaskState, LessonCalls, Budgeted
  <2>b. y \in TaskState
    BY <1>1, <2>a DEF TaskState, StagePC, Calling
  <2>c. y.pc = "designing" /\ y.used = k.used + 1 /\ y.designs = k.designs + 1 /\ y.drafts = k.drafts
    BY <1>1 DEF TaskState
  <2>1. y \in TaskState /\ Budgeted(y)
    BY <1>1, <1>4, <2>b, <2>c DEF ReserveDesign, TaskState, Budgeted, Within
  <2> QED BY <1>2, <1>3, <1>4, <2>1 DEF ReserveDesign
<1>5. CASE ReserveDraft(t)
  <2> DEFINE x == [k EXCEPT !.pc = "drafting", !.drafts = @ + 1]
             y == [x EXCEPT !.used = @ + 1]
  <2>a. k.drafts + 1 \in 0..MaxDrafts /\ k.used + 1 \in 0..LessonCalls
    BY <1>1, <1>5 DEF ReserveDraft, TaskState, LessonCalls, Budgeted
  <2>b. y \in TaskState
    BY <1>1, <2>a DEF TaskState, StagePC, Calling
  <2>c. y.pc = "drafting" /\ y.used = k.used + 1 /\ y.drafts = k.drafts + 1 /\ y.designs = k.designs
    BY <1>1 DEF TaskState
  <2>1. y \in TaskState /\ Budgeted(y)
    BY <1>1, <1>5, <2>b, <2>c DEF ReserveDraft, TaskState, Budgeted, Within
  <2> QED BY <1>2, <1>3, <1>5, <2>1 DEF ReserveDraft
<1>6. ASSUME NEW pc \in {"reviewing", "revising", "rereviewing"},
             <<k.pc, pc>> \in {<<"review", "reviewing">>, <<"revise", "revising">>,
                               <<"rereview", "rereviewing">>},
             Spend(t, "reviewing", [k EXCEPT !.pc = pc])
      PROVE  IInv'
  <2> DEFINE x == [k EXCEPT !.pc = pc]
             y == [x EXCEPT !.used = @ + 1]
  <2>a. k.used + 1 \in 0..LessonCalls
    BY <1>1, <1>6 DEF TaskState, LessonCalls, Budgeted, Within
  <2>b. y \in TaskState
    BY <1>1, <2>a DEF TaskState, StagePC, Calling
  <2>c. y.pc = pc /\ y.used = k.used + 1 /\ y.drafts = k.drafts /\ y.designs = k.designs
    BY <1>1 DEF TaskState
  <2>1. y \in TaskState /\ Budgeted(y)
    BY <1>1, <1>6, <2>b, <2>c DEF TaskState, Budgeted, Within
  <2> QED BY <1>2, <1>3, <1>6, <2>1
<1>7. CASE ReserveReview(t)
  BY <1>6, <1>7 DEF ReserveReview
<1>8. CASE ReserveRevise(t)
  BY <1>6, <1>8 DEF ReserveRevise
<1> QED BY <1>4, <1>5, <1>7, <1>8

\* The end of an attempt leaves nothing to pay for.
LEMMA EndedIInv ==
  ASSUME IInv, NEW t \in Task, NEW o \in Outcome, Becomes(t, Ended(o, task[t].used)), row' \in Row,
         UNCHANGED <<object, calls, traced, cleared, nextDoc, begins, overlapped>>
  PROVE  IInv'
<1> DEFINE k == task[t]
           x == Ended(o, k.used)
<1>1. k \in TaskState /\ Budgeted(k)
  BY DEF IInv, TypeOK, TaskState
<1>2. NewRow \in Row /\ 0 \in 0..MaxDesigns /\ 0 \in 0..MaxDrafts /\ k.used \in 0..LessonCalls
  BY <1>1 DEF NewRow, Row, ArtifactStatus, DesignStatus, ReviewOutcome, TaskState
<1>3. x \in TaskState
  BY <1>2 DEF Ended, IdleTask, TaskState, StagePC
<1>4. x.pc = "idle" /\ x.used = k.used /\ x.designs = 0 /\ x.drafts = 0
  BY DEF Ended, IdleTask
<1>5. Budgeted(x)
  BY <1>1, <1>4 DEF TaskState, Budgeted
<1> HIDE DEF x
<1> QED BY <1>3, <1>5, MoveIInv DEF IInv, TypeOK, x

\* What ends an attempt keeps the invariant.
LEMMA EndIInv ==
  ASSUME IInv, NEW t \in Task,
         PlanMissing(t) \/ DesignGivesUp(t) \/ DraftGivesUp(t) \/ CapReached(t)
           \/ ProviderError(t) \/ Complete(t) \/ StageError(t)
  PROVE  IInv'
<1> DEFINE k == task[t]
<1>1. k \in TaskState /\ Budgeted(k) /\ row \in Row
  BY DEF IInv, TypeOK, TaskState
<1>3. ASSUME NEW o \in Outcome, Becomes(t, Ended(o, k.used)), row' \in Row,
             UNCHANGED <<object, calls, traced, cleared, nextDoc, begins, overlapped>>
      PROVE  IInv'
  BY <1>3, EndedIInv
<1>4. {"complete", "failed", "capped", "provider", "error"} \subseteq Outcome
  BY DEF Outcome
<1>5. ASSUME NEW new \in Row, Fails(t, new), UNCHANGED <<object, calls, traced, cleared, nextDoc, begins, overlapped>>
      PROVE  IInv'
  <2>1. [new EXCEPT !.status = "failed"] \in Row
    BY DEF Row, ArtifactStatus
  <2> QED BY <1>3, <1>4, <1>5, <2>1, CommitRow DEF Fails, IInv
<1>6. CASE DesignGivesUp(t)
  <2>1. [k.row EXCEPT !.design = "failed"] \in Row
    BY <1>1 DEF TaskState, Row, DesignStatus
  <2> QED BY <1>5, <1>6, <2>1 DEF DesignGivesUp
<1>7. CASE PlanMissing(t) \/ DraftGivesUp(t)
  BY <1>1, <1>5, <1>7 DEF PlanMissing, DraftGivesUp, TaskState
<1>8. CASE CapReached(t) \/ StageError(t)
  BY <1>1, <1>3, <1>4, <1>8 DEF CapReached, StageError, Stops
<1>9. CASE ProviderError(t)
  BY <1>1, <1>3, <1>4, <1>9 DEF ProviderError, Row, ArtifactStatus
<1>10. CASE Complete(t)
  <2>1. [k.row EXCEPT !.status = "complete", !.doc = k.plan] \in Row
    BY <1>1 DEF TaskState, Row, ArtifactStatus
  <2>2. Commit(t, [k.row EXCEPT !.status = "complete", !.doc = k.plan])
    BY <1>10 DEF Complete
  <2>3. row' \in Row
    BY <2>1, <2>2, CommitRow DEF IInv
  <2> QED BY <1>3, <1>4, <1>10, <2>3 DEF Complete
<1> QED BY <1>6, <1>7, <1>8, <1>9, <1>10

\* An answer, and what is done with it, costs nothing more.
LEMMA AnswerIInv ==
  ASSUME IInv, NEW t \in Task,
         Designed(t) \/ DesignRejected(t) \/ Drafted(t) \/ DraftUnparseable(t) \/ ReviewClean(t)
           \/ ReviewSevere(t) \/ ReviewUnparseable(t) \/ Revised(t) \/ Render(t) \/ Validate(t)
           \/ Put(t)
  PROVE  IInv'
<1> DEFINE k == task[t]
           Follows(pc) ==
             \/ k.pc = "designing" /\ pc \in {"design", "draft"}
             \/ k.pc = "drafting" /\ pc \in {"draft", "review"}
             \/ k.pc = "reviewing" /\ pc \in {"revise", "render", "draft"}
             \/ k.pc = "revising" /\ pc \in {"rereview", "draft"}
             \/ k.pc = "rereviewing" /\ pc \in {"render", "draft"}
             \/ k.pc = "render" /\ pc = "validate"
             \/ k.pc = "validate" /\ pc \in {"put", "draft"}
             \/ k.pc = "put" /\ pc = "put"
           others == UNCHANGED <<object, calls, traced, cleared, nextDoc, begins, overlapped>>
<1>1. /\ k \in TaskState /\ Budgeted(k) /\ row \in Row /\ k.row \in Row
      /\ object \in [Part -> Nat] /\ calls \in 0..Cap /\ traced \in Nat
      /\ cleared \subseteq Nat \X Nat /\ nextDoc \in Nat \ {0} /\ begins \in 0..MaxBegins /\ overlapped \in BOOLEAN
  BY DEF IInv, TypeOK, TaskState
<1>2. ASSUME NEW pc, Follows(pc) PROVE pc \in StagePC
  BY <1>2 DEF StagePC, Reserving, Calling
<1>3. ASSUME NEW x \in TaskState, Follows(x.pc), x.used = k.used, x.designs = k.designs,
             x.drafts = k.drafts
      PROVE  Budgeted(x)
  BY <1>1, <1>3 DEF TaskState, Budgeted, Within
<1>4. ASSUME NEW pc, Follows(pc)
      PROVE  [k EXCEPT !.pc = pc] \in TaskState /\ Budgeted([k EXCEPT !.pc = pc])
  <2> DEFINE x == [k EXCEPT !.pc = pc]
  <2>1. x \in TaskState /\ x.pc = pc /\ x.used = k.used /\ x.designs = k.designs
        /\ x.drafts = k.drafts
    BY <1>1, <1>2, <1>4 DEF TaskState
  <2> HIDE DEF x
  <2>2. Budgeted(x)
    BY <1>3, <1>4, <2>1
  <2> QED BY <2>1, <2>2 DEF x
<1>5. ASSUME NEW pc, Follows(pc), Goto(t, pc), UNCHANGED row, others
      PROVE  IInv'
  BY <1>1, <1>4, <1>5, MoveIInv DEF Goto
<1>6. ASSUME NEW outcome \in ReviewOutcome, NEW status \in ArtifactStatus, NEW pc, Follows(pc),
             Records(t, outcome, status, pc),
             cleared' \subseteq Nat \X Nat, UNCHANGED <<object, calls, traced, nextDoc, begins, overlapped>>
      PROVE  IInv'
  <2>1. [k.row EXCEPT !.review = outcome, !.status = status] \in Row
    BY <1>1 DEF Row
  <2> QED BY <1>1, <1>4, <1>6, <2>1, SavesIInv DEF Records
<1>7. ASSUME Becomes(t, Ended("error", k.used)) \/ Becomes(t, Ended("failed", k.used)),
             row' \in Row, others
      PROVE  IInv'
  BY <1>1, <1>7, EndedIInv DEF Outcome
<1>8. CASE Designed(t)
  <2>1. [k.row EXCEPT !.design = "ready"] \in Row
    BY <1>1 DEF Row, DesignStatus
  <2> QED BY <1>1, <1>4, <1>8, <2>1, SavesIInv DEF Designed
<1>9. CASE DesignRejected(t) \/ Validate(t)
  BY <1>5, <1>9 DEF DesignRejected, Validate
<1>10. CASE Drafted(t)
  <2> DEFINE x == [k EXCEPT !.pc = "review", !.draft = nextDoc, !.plan = nextDoc]
  <2>1. x \in TaskState /\ x.pc = "review" /\ x.used = k.used /\ x.designs = k.designs
        /\ x.drafts = k.drafts
    BY <1>1 DEF TaskState, StagePC, Reserving
  <2>2. Becomes(t, x)
    BY <1>10 DEF Drafted
  <2> HIDE DEF x
  <2>3. Budgeted(x)
    BY <1>3, <1>10, <2>1 DEF Drafted
  <2> QED BY <1>1, <1>10, <2>1, <2>2, <2>3, MoveIInv DEF Drafted
<1>11. CASE DraftUnparseable(t)
  BY <1>1, <1>5, <1>7, <1>11 DEF DraftUnparseable, Stops
<1>12. CASE ReviewClean(t)
  <2>1. cleared' \subseteq Nat \X Nat
    BY <1>1, <1>12 DEF ReviewClean, TaskState
  <2>2. {"passed", "passed_after_revise"} \subseteq ReviewOutcome /\ "rendering" \in ArtifactStatus
    BY DEF ReviewOutcome, ArtifactStatus
  <2> QED BY <1>6, <1>12, <2>1, <2>2 DEF ReviewClean
<1>13. CASE ReviewSevere(t)
  <2>1. CASE Goto(t, "revise") /\ UNCHANGED row /\ k.pc = "reviewing"
    BY <1>5, <1>13, <2>1 DEF ReviewSevere
  <2>2. CASE Fails(t, [k.row EXCEPT !.review = "failed_after_revise"])
    <3>1. [[k.row EXCEPT !.review = "failed_after_revise"] EXCEPT !.status = "failed"] \in Row
      BY <1>1 DEF Row, ReviewOutcome, ArtifactStatus
    <3>2. row' \in Row
      BY <2>2, <3>1, CommitRow DEF Fails, IInv
    <3> QED BY <1>7, <1>13, <2>2, <3>2 DEF ReviewSevere, Fails
  <2> QED BY <1>13, <2>1, <2>2 DEF ReviewSevere
<1>14. CASE ReviewUnparseable(t)
  <2>1. "unparseable" \in ReviewOutcome /\ k.row.status \in ArtifactStatus
    BY <1>1 DEF ReviewOutcome, Row
  <2> QED BY <1>1, <1>6, <1>14, <2>1 DEF ReviewUnparseable
<1>15. CASE Revised(t)
  <2> DEFINE x == [k EXCEPT !.pc = "rereview", !.plan = nextDoc]
  <2>1. x \in TaskState /\ x.pc = "rereview" /\ x.used = k.used /\ x.designs = k.designs
        /\ x.drafts = k.drafts
    BY <1>1 DEF TaskState, StagePC, Reserving
  <2>2. Becomes(t, x)
    BY <1>15 DEF Revised
  <2> HIDE DEF x
  <2>3. Budgeted(x)
    BY <1>3, <1>15, <2>1 DEF Revised
  <2> QED BY <1>1, <1>15, <2>1, <2>2, <2>3, MoveIInv DEF Revised
<1>16. CASE Render(t)
  <2>1. [k.row EXCEPT !.status = "validating"] \in Row
    BY <1>1 DEF Row, ArtifactStatus
  <2> QED BY <1>1, <1>4, <1>16, <2>1, SavesIInv DEF Render
<1>17. CASE Put(t)
  <2>1. PICK p \in Part : /\ object' = [object EXCEPT ![p] = k.plan]
                          /\ Becomes(t, [k EXCEPT !.stored = @ \union {p}])
    BY <1>17 DEF Put
  <2> DEFINE x == [k EXCEPT !.stored = @ \union {p}]
  <2>2. x \in TaskState /\ x.pc = k.pc /\ x.used = k.used /\ x.designs = k.designs
        /\ x.drafts = k.drafts
    BY <1>1 DEF TaskState
  <2>3. object' \in [Part -> Nat]
    BY <1>1, <2>1 DEF TaskState
  <2>4. Becomes(t, x)
    BY <2>1
  <2> HIDE DEF x
  <2>5. Budgeted(x)
    BY <1>3, <1>17, <2>2 DEF Put
  <2> QED BY <1>1, <1>17, <2>2, <2>3, <2>4, <2>5, MoveIInv DEF Put
<1> QED BY <1>8, <1>9, <1>10, <1>11, <1>12, <1>13, <1>14, <1>15, <1>16, <1>17

\* The invariant is inductive.
LEMMA NextIInv == IInv /\ [Next]_vars => IInv'
<1> SUFFICES ASSUME IInv, [Next]_vars PROVE IInv'
  OBVIOUS
<1>1. CASE UNCHANGED vars
  BY <1>1 DEF vars, IInv, TypeOK, Budgeted, Within
<1>2. ASSUME NEW t \in Task, Begin(t) \/ Work(t) PROVE IInv'
  BY <1>2, BeginIInv, ReserveIInv, EndIInv, AnswerIInv DEF Work
<1> QED BY <1>1, <1>2 DEF Next

\* Every reachable state of the stages is well typed, for every number of tasks,
\* parts, drafts and designs.
THEOREM StagesTypeCorrect == Spec => []TypeOK
<1>1. IInv => TypeOK
  BY DEF IInv
<1> QED BY <1>1, InitIInv, NextIInv, PTL DEF Spec

-----------------------------------------------------------------------------
(* The stages implement the contract.                                       *)

Busy == {u \in Task : task[u].pc # "idle"}
Used == [u \in Task |-> task[u].used]

\* The attempt of t changes with its task, the others stay.
LEMMA AttemptMoves ==
  ASSUME IInv, NEW t \in Task, NEW x, Becomes(t, x)
  PROVE  /\ task'[t] = x
         /\ x.pc # "idle" => Busy' = Busy \union {t}
         /\ x.pc = "idle" => Busy' = Busy \ {t}
         /\ Used' = [Used EXCEPT ![t] = x.used]
BY DEF Busy, Used, Becomes, IInv, TypeOK

\* A commit shows the status it writes, or leaves the one that is shown.
LEMMA CommitShows ==
  ASSUME NEW t \in Task, IInv, NEW new \in Row, Commit(t, new)
  PROVE  Shown(row.status)' \in {Shown(row.status), Shown(new.status)}
<1>1. row'.status \in {row.status, new.status}
  BY CommitRow DEF IInv
<1> QED BY <1>1 DEF Shown

\* A reserved call of the stages is a call of the contract.
LEMMA SpendIsCall ==
  ASSUME IInv, IInv', NEW t \in Task, NEW status \in Working, NEW x, task[t].pc # "idle",
         [x EXCEPT !.used = @ + 1] \in TaskState, x.pc # "idle", x.used = task[t].used,
         [x EXCEPT !.used = @ + 1].pc = x.pc, [x EXCEPT !.used = @ + 1].used = x.used + 1,
         Spend(t, status, x)
  PROVE  Attempt!Call(t)
<1> DEFINE k == task[t]
           new == [k.row EXCEPT !.status = status]
           y == [x EXCEPT !.used = @ + 1]
           z == [y EXCEPT !.row = new]
<1>1. k \in TaskState /\ new \in Row /\ new.status = status
  BY DEF IInv, TypeOK, TaskState, Row, Working
<1>2. Commit(t, new) /\ Becomes(t, z)
  BY DEF Spend, Saves
<1>3. z.pc = x.pc /\ z.used = k.used + 1
  BY DEF TaskState
<1>4. task'[t] = z /\ Busy' = Busy \union {t} /\ Used' = [Used EXCEPT ![t] = z.used]
  <2> HIDE DEF z
  <2> QED BY <1>2, <1>3, AttemptMoves
<1>5. z.used \in 0..LessonCalls
  BY <1>4 DEF IInv, TypeOK
<1>6. Shown(row.status)' \in {Shown(row.status), "working"}
  <2> HIDE DEF new
  <2> QED BY <1>1, <1>2, CommitShows DEF Shown
<1>7. t \in Busy /\ Used[t] = k.used /\ k.used \in Nat
  BY <1>1 DEF Busy, Used, TaskState
<1>8. k.used < LessonCalls
  BY <1>3, <1>5, <1>7 DEF LessonCalls
<1>9. Busy' = Busy /\ Used' = [Used EXCEPT ![t] = Used[t] + 1]
  BY <1>3, <1>4, <1>7
<1>10. calls < Cap /\ calls' = calls + 1
  BY DEF Spend
<1> HIDE DEF y, z, new
<1> QED BY <1>6, <1>7, <1>8, <1>9, <1>10 DEF Attempt!Call, Busy, Used

\* Each reservation is such a call.
LEMMA ReserveIsCall ==
  ASSUME IInv, IInv', NEW t \in Task,
         ReserveDesign(t) \/ ReserveDraft(t) \/ ReserveReview(t) \/ ReserveRevise(t)
  PROVE  Attempt!Call(t)
<1> DEFINE k == task[t]
<1>1. k \in TaskState /\ {"designing", "drafting", "reviewing"} \subseteq Working
  BY DEF IInv, TypeOK, TaskState, Working, ArtifactStatus
<1>2. k.used + 1 \in 0..LessonCalls
  <2>1. Budgeted(k)
    BY DEF IInv
  <2> QED BY <1>1, <2>1 DEF ReserveDesign, ReserveDraft, ReserveReview, ReserveRevise,
                            TaskState, LessonCalls, Budgeted, Within
<1>3. ASSUME NEW pc \in Calling, NEW status \in Working, k.pc # "idle",
             Spend(t, status, [k EXCEPT !.pc = pc])
      PROVE  Attempt!Call(t)
  <2> DEFINE x == [k EXCEPT !.pc = pc]
  <2>1. x.pc = pc /\ pc # "idle" /\ x.used = k.used
    BY <1>1, <1>3 DEF TaskState, Calling
  <2>2. [x EXCEPT !.used = @ + 1] \in TaskState
        /\ [x EXCEPT !.used = @ + 1].pc = x.pc /\ [x EXCEPT !.used = @ + 1].used = x.used + 1
    BY <1>1, <1>2, <1>3 DEF TaskState, StagePC
  <2> HIDE DEF x
  <2> QED BY <1>3, <2>1, <2>2, SpendIsCall DEF x
<1>4. CASE ReserveDesign(t)
  <2> DEFINE x == [k EXCEPT !.pc = "designing", !.designs = @ + 1]
  <2>1. x.pc = "designing" /\ x.used = k.used /\ k.pc # "idle"
    BY <1>1, <1>4 DEF TaskState, ReserveDesign
  <2>2. [x EXCEPT !.used = @ + 1] \in TaskState
        /\ [x EXCEPT !.used = @ + 1].pc = x.pc /\ [x EXCEPT !.used = @ + 1].used = x.used + 1
    <3>1. k.designs + 1 \in 0..MaxDesigns
      BY <1>1, <1>4 DEF TaskState, ReserveDesign
    <3> QED BY <1>1, <1>2, <3>1 DEF TaskState, StagePC, Calling
  <2>3. Spend(t, "designing", x)
    BY <1>4 DEF ReserveDesign
  <2> HIDE DEF x
  <2> QED BY <1>1, <2>1, <2>2, <2>3, SpendIsCall
<1>5. CASE ReserveDraft(t)
  <2> DEFINE x == [k EXCEPT !.pc = "drafting", !.drafts = @ + 1]
  <2>1. x.pc = "drafting" /\ x.used = k.used /\ k.pc # "idle"
    BY <1>1, <1>5 DEF TaskState, ReserveDraft
  <2>2. [x EXCEPT !.used = @ + 1] \in TaskState
        /\ [x EXCEPT !.used = @ + 1].pc = x.pc /\ [x EXCEPT !.used = @ + 1].used = x.used + 1
    <3>1. k.drafts + 1 \in 0..MaxDrafts
      BY <1>1, <1>5 DEF TaskState, ReserveDraft
    <3> QED BY <1>1, <1>2, <3>1 DEF TaskState, StagePC, Calling
  <2>3. Spend(t, "drafting", x)
    BY <1>5 DEF ReserveDraft
  <2> HIDE DEF x
  <2> QED BY <1>1, <2>1, <2>2, <2>3, SpendIsCall
<1>6. CASE ReserveReview(t)
  BY <1>1, <1>3, <1>6 DEF ReserveReview, Calling
<1>7. CASE ReserveRevise(t)
  BY <1>1, <1>3, <1>7 DEF ReserveRevise, Calling
<1> QED BY <1>4, <1>5, <1>6, <1>7

\* A task that begins enters an attempt.
LEMMA BeginIsEnter ==
  ASSUME IInv, NEW t \in Task, Begin(t)
  PROVE  Attempt!Enter(t)
<1> DEFINE x == [IdleTask EXCEPT !.row = row, !.pc =
                   IF MaxDesigns > 0 /\ row.design # "ready" THEN "design" ELSE "draft"]
<1>1. NewRow \in Row /\ row \in Row /\ 0 \in 0..LessonCalls
  BY DEF NewRow, Row, ArtifactStatus, DesignStatus, ReviewOutcome, IInv, TypeOK, LessonCalls
<1>2. x.pc # "idle" /\ x.used = 0
  BY <1>1 DEF IdleTask
<1>3. Busy' = Busy \union {t} /\ Used' = [Used EXCEPT ![t] = 0]
  <2> HIDE DEF x
  <2>1. Becomes(t, x)
    BY DEF Begin, x
  <2> QED BY <1>2, <2>1, AttemptMoves
<1>4. t \notin Busy /\ Shown(row.status) # "complete" /\ UNCHANGED <<calls, row>>
  BY DEF Begin, Busy, Shown, Working
<1> HIDE DEF x
<1> QED BY <1>3, <1>4 DEF Attempt!Enter, Busy, Used

\* The end of an attempt takes its task out of it.
LEMMA EndedLeaves ==
  ASSUME IInv, NEW t \in Task, NEW o \in Outcome, Becomes(t, Ended(o, task[t].used)),
         task[t].pc # "idle"
  PROVE  t \in Busy /\ Busy' = Busy \ {t} /\ Used' = Used
<1> DEFINE x == Ended(o, task[t].used)
<1>1. x.pc = "idle" /\ x.used = task[t].used
  BY DEF Ended, IdleTask
<1>2. Busy' = Busy \ {t} /\ Used' = [Used EXCEPT ![t] = x.used]
  <2> HIDE DEF x
  <2>1. Becomes(t, x)
    BY DEF x
  <2> QED BY <1>1, <2>1, AttemptMoves
<1>3. [Used EXCEPT ![t] = task[t].used] = Used
  BY DEF Used
<1> HIDE DEF x
<1> QED BY <1>1, <1>2, <1>3 DEF Busy

\* What ends an attempt decides the lesson, or leaves it as it is.
LEMMA EndIsDecided ==
  ASSUME IInv, NEW t \in Task,
         PlanMissing(t) \/ DesignGivesUp(t) \/ DraftGivesUp(t) \/ CapReached(t)
           \/ ProviderError(t) \/ Complete(t) \/ StageError(t)
  PROVE  \/ Attempt!Leave(t) \/ Attempt!Refuse(t)
         \/ Attempt!Decide(t, "failed") \/ Attempt!Decide(t, "complete")
<1> DEFINE k == task[t]
<1>1. k \in TaskState /\ Budgeted(k) /\ k.row \in Row /\ row \in Row
  BY DEF IInv, TypeOK, TaskState
<1>2. k.pc # "idle"
  BY DEF PlanMissing, DesignGivesUp, DraftGivesUp, CapReached, ProviderError, Complete,
         StageError, Reserving, Calling
<1>3. ASSUME NEW o \in Outcome, Becomes(t, Ended(o, k.used)), UNCHANGED <<row, calls>>
      PROVE  Attempt!Leave(t)
  BY <1>2, <1>3, EndedLeaves DEF Attempt!Leave, Busy, Used
<1>4. ASSUME NEW o \in Outcome, NEW s, Becomes(t, Ended(o, k.used)), UNCHANGED calls,
             k.used > 0, Shown(row.status)' \in {Shown(row.status), s}
      PROVE  Attempt!Decide(t, s)
  BY <1>2, <1>4, EndedLeaves DEF Attempt!Decide, Busy, Used
<1>5. {"complete", "failed", "capped", "provider", "error"} \subseteq Outcome
  BY DEF Outcome
<1>6. ASSUME NEW new \in Row, Fails(t, new), UNCHANGED calls
      PROVE  Shown(row.status)' \in {Shown(row.status), "failed"} /\ Becomes(t, Ended("failed", k.used))
  <2> DEFINE failed == [new EXCEPT !.status = "failed"]
  <2>1. failed \in Row /\ Shown(failed.status) = "failed"
    BY DEF Row, ArtifactStatus, Shown, Working
  <2>2. Commit(t, failed)
    BY <1>6 DEF Fails
  <2> HIDE DEF failed
  <2>3. Shown(row.status)' \in {Shown(row.status), "failed"}
    BY <2>1, <2>2, CommitShows
  <2> QED BY <1>6, <2>3 DEF Fails
<1>a. CASE PlanMissing(t)
  <2>1. k.used = 0 /\ FromPlan /\ k.row \in Row
    BY <1>1, <1>a DEF TaskState, PlanMissing, FromPlan, Budgeted
  <2>2. Shown(row.status)' \in {Shown(row.status), "failed"} /\ Becomes(t, Ended("failed", k.used))
        /\ UNCHANGED calls
    BY <1>6, <1>a, <2>1 DEF PlanMissing
  <2> QED BY <1>2, <1>5, <2>1, <2>2, EndedLeaves DEF Attempt!Refuse, Busy, Used
<1>7. CASE DesignGivesUp(t)
  <2>1. [k.row EXCEPT !.design = "failed"] \in Row /\ k.used > 0
    BY <1>1, <1>7 DEF TaskState, Row, DesignStatus, DesignGivesUp, Budgeted
  <2> QED BY <1>4, <1>5, <1>6, <1>7, <2>1 DEF DesignGivesUp
<1>8. CASE DraftGivesUp(t)
  <2>1. k.used > 0
    BY <1>1, <1>8 DEF TaskState, DraftGivesUp, Budgeted
  <2> QED BY <1>1, <1>4, <1>5, <1>6, <1>8, <2>1 DEF DraftGivesUp
<1>9. CASE CapReached(t) \/ StageError(t)
  BY <1>3, <1>5, <1>9 DEF CapReached, StageError, Stops
<1>11. CASE ProviderError(t)
  <2>1. k.used > 0
    BY <1>1, <1>11 DEF TaskState, ProviderError, Calling, Budgeted, Within
  <2>2. Shown(row.status)' = "failed"
    BY <1>1, <1>11 DEF ProviderError, Shown, Working, Row
  <2> QED BY <1>4, <1>5, <1>11, <2>1, <2>2 DEF ProviderError
<1>12. CASE Complete(t)
  <2> DEFINE new == [k.row EXCEPT !.status = "complete", !.doc = k.plan]
  <2>1. k.used > 0
    BY <1>1, <1>12 DEF TaskState, Complete, Budgeted, Within
  <2>2. new \in Row /\ Shown(new.status) = "complete"
    BY <1>1 DEF Row, TaskState, ArtifactStatus, Shown, Working
  <2>3. Commit(t, new)
    BY <1>12 DEF Complete
  <2> HIDE DEF new
  <2>4. Shown(row.status)' \in {Shown(row.status), "complete"}
    BY <2>2, <2>3, CommitShows
  <2> QED BY <1>4, <1>5, <1>12, <2>1, <2>4 DEF Complete
<1> QED BY <1>a, <1>7, <1>8, <1>9, <1>11, <1>12

\* An answer shows the status of the next stage or nothing, or ends the attempt.
LEMMA AnswerIsProgress ==
  ASSUME IInv, NEW t \in Task,
         Designed(t) \/ DesignRejected(t) \/ Drafted(t) \/ DraftUnparseable(t) \/ ReviewClean(t)
           \/ ReviewSevere(t) \/ ReviewUnparseable(t) \/ Revised(t) \/ Render(t) \/ Validate(t)
           \/ Put(t)
  PROVE  \/ Attempt!Progress(t) \/ UNCHANGED Attempt!vars
         \/ Attempt!Leave(t) \/ Attempt!Decide(t, "failed")
<1> DEFINE k == task[t]
<1>1. k \in TaskState /\ Budgeted(k) /\ k.row \in Row /\ row \in Row
  BY DEF IInv, TypeOK, TaskState
<1>2. k.pc # "idle" /\ t \in Busy
  BY DEF Designed, DesignRejected, Drafted, DraftUnparseable, ReviewClean, ReviewSevere,
         ReviewUnparseable, Revised, Render, Validate, Put, Busy
<1>3. k.used > 0
  BY <1>1 DEF Designed, DesignRejected, Drafted, DraftUnparseable, ReviewClean, ReviewSevere,
         ReviewUnparseable, Revised, Render, Validate, Put, TaskState, Budgeted, Within
<1>4. ASSUME NEW x, Becomes(t, x), x.pc # "idle", x.used = k.used
      PROVE  Busy' = Busy /\ Used' = Used
  <2>1. Busy' = Busy \union {t} /\ Used' = [Used EXCEPT ![t] = x.used]
    BY <1>4, AttemptMoves
  <2>2. [Used EXCEPT ![t] = k.used] = Used
    BY DEF Used
  <2> QED BY <1>2, <1>4, <2>1, <2>2
<1>5. ASSUME NEW x, Becomes(t, x), x.pc # "idle", x.used = k.used, UNCHANGED calls,
             Shown(row.status)' \in {Shown(row.status), "working"}
      PROVE  Attempt!Progress(t) \/ UNCHANGED Attempt!vars
  <2>1. Busy' = Busy /\ Used' = Used
    BY <1>4, <1>5
  <2>2. Used[t] > 0
    BY <1>3 DEF Used
  <2> QED BY <1>2, <1>5, <2>1, <2>2 DEF Attempt!Progress, Attempt!vars, Busy, Used
<1>6. ASSUME NEW new \in Row, NEW x, Saves(t, new, x), x \in TaskState, x.pc # "idle",
             x.used = k.used, UNCHANGED calls,
             new.status = k.row.status \/ new.status \in Working
      PROVE  Attempt!Progress(t) \/ UNCHANGED Attempt!vars
  <2> DEFINE y == [x EXCEPT !.row = new]
  <2>1. y.pc # "idle" /\ y.used = k.used
    BY <1>6 DEF TaskState
  <2>2. Becomes(t, y) /\ Commit(t, new)
    BY <1>6 DEF Saves
  <2>3. Shown(row.status)' \in {Shown(row.status), "working"}
    <3>1. CASE new.status \in Working
      BY <1>6, <2>2, <3>1, CommitShows DEF Shown
    <3>2. CASE new.status = k.row.status
      <4>1. row'.status = row.status
        BY <1>1, <2>2, <3>2 DEF Commit, Row
      <4> QED BY <4>1 DEF Shown
    <3> QED BY <1>6, <3>1, <3>2
  <2> HIDE DEF y
  <2> QED BY <1>5, <1>6, <2>1, <2>2, <2>3
<1>7. ASSUME NEW pc \in StagePC, pc # "idle"
      PROVE  [k EXCEPT !.pc = pc] \in TaskState /\ [k EXCEPT !.pc = pc].pc # "idle"
             /\ [k EXCEPT !.pc = pc].used = k.used
  BY <1>1, <1>7 DEF TaskState
<1>8. ASSUME NEW pc \in StagePC, pc # "idle", Goto(t, pc), UNCHANGED <<row, calls>>
      PROVE  Attempt!Progress(t) \/ UNCHANGED Attempt!vars
  <2> DEFINE x == [k EXCEPT !.pc = pc]
  <2>1. x.pc # "idle" /\ x.used = k.used /\ Becomes(t, x)
    BY <1>7, <1>8 DEF Goto
  <2> HIDE DEF x
  <2> QED BY <1>5, <1>8, <2>1
<1>9. {"design", "draft", "review", "revise", "rereview", "render", "validate", "put"} \subseteq StagePC
  BY DEF StagePC, Reserving
<1>10. ASSUME NEW outcome \in ReviewOutcome, NEW status \in ArtifactStatus, NEW pc \in StagePC,
              pc # "idle", Records(t, outcome, status, pc), UNCHANGED calls,
              status = k.row.status \/ status \in Working
       PROVE  Attempt!Progress(t) \/ UNCHANGED Attempt!vars
  <2> DEFINE new == [k.row EXCEPT !.review = outcome, !.status = status]
             x == [k EXCEPT !.pc = pc]
  <2>1. new \in Row /\ new.status = status
    BY <1>1 DEF Row
  <2>2. x \in TaskState /\ x.pc # "idle" /\ x.used = k.used
    BY <1>7, <1>10
  <2>3. Saves(t, new, x)
    BY <1>10 DEF Records
  <2> HIDE DEF x, new
  <2> QED BY <1>6, <1>10, <2>1, <2>2, <2>3
<1>11. CASE Designed(t)
  <2> DEFINE new == [k.row EXCEPT !.design = "ready"]
             x == [k EXCEPT !.pc = "draft"]
  <2>1. new \in Row /\ new.status = k.row.status
    BY <1>1 DEF Row, DesignStatus
  <2>2. x \in TaskState /\ x.pc # "idle" /\ x.used = k.used
    BY <1>7, <1>9
  <2>3. Saves(t, new, x) /\ UNCHANGED calls
    BY <1>11 DEF Designed
  <2> HIDE DEF x, new
  <2> QED BY <1>6, <2>1, <2>2, <2>3
<1>12. CASE DesignRejected(t) \/ Validate(t)
  BY <1>8, <1>9, <1>12 DEF DesignRejected, Validate
<1>13. CASE Drafted(t) \/ Revised(t)
  <2>1. CASE Drafted(t)
    <3> DEFINE x == [k EXCEPT !.pc = "review", !.draft = nextDoc, !.plan = nextDoc]
    <3>1. Becomes(t, x) /\ UNCHANGED <<row, calls>>
      BY <2>1 DEF Drafted
    <3>2. x.pc # "idle" /\ x.used = k.used
      BY <1>1 DEF TaskState
    <3> HIDE DEF x
    <3> QED BY <1>5, <3>1, <3>2
  <2>2. CASE Revised(t)
    <3> DEFINE x == [k EXCEPT !.pc = "rereview", !.plan = nextDoc]
    <3>1. Becomes(t, x) /\ UNCHANGED <<row, calls>>
      BY <2>2 DEF Revised
    <3>2. x.pc # "idle" /\ x.used = k.used
      BY <1>1 DEF TaskState
    <3> HIDE DEF x
    <3> QED BY <1>5, <3>1, <3>2
  <2> QED BY <1>13, <2>1, <2>2
<1>14. CASE DraftUnparseable(t)
  <2>1. CASE ParseGuarded
    BY <1>8, <1>9, <1>14, <2>1 DEF DraftUnparseable
  <2>2. CASE ~ParseGuarded
    <3>1. Attempt!Leave(t)
      BY <1>2, <1>3, <1>14, <2>2, EndedLeaves
         DEF DraftUnparseable, Stops, Attempt!Leave, Busy, Used, Outcome
    <3> QED BY <3>1
  <2> QED BY <2>1, <2>2
<1>15. CASE ReviewClean(t)
  BY <1>9, <1>10, <1>15 DEF ReviewClean, ReviewOutcome, ArtifactStatus, Working
<1>16. CASE ReviewSevere(t)
  <2>1. CASE Goto(t, "revise") /\ UNCHANGED row
    BY <1>8, <1>9, <1>16, <2>1 DEF ReviewSevere
  <2>2. CASE Fails(t, [k.row EXCEPT !.review = "failed_after_revise"])
    <3> DEFINE new == [[k.row EXCEPT !.review = "failed_after_revise"] EXCEPT !.status = "failed"]
    <3>1. new \in Row /\ Shown(new.status) = "failed"
      BY <1>1 DEF Row, ReviewOutcome, ArtifactStatus, Shown, Working
    <3>2. Commit(t, new) /\ Becomes(t, Ended("failed", k.used)) /\ UNCHANGED calls
      BY <1>16, <2>2 DEF Fails, ReviewSevere
    <3> HIDE DEF new
    <3>3. Shown(row.status)' \in {Shown(row.status), "failed"}
      BY <3>1, <3>2, CommitShows
    <3>4. Attempt!Decide(t, "failed")
      BY <1>2, <1>3, <3>2, <3>3, EndedLeaves DEF Attempt!Decide, Busy, Used, Outcome
    <3> QED BY <3>4
  <2> QED BY <1>16, <2>1, <2>2 DEF ReviewSevere
<1>17. CASE ReviewUnparseable(t)
  <2>1. k.row.status \in ArtifactStatus
    BY <1>1 DEF Row
  <2> QED BY <1>9, <1>10, <1>17, <2>1 DEF ReviewUnparseable, ReviewOutcome
<1>18. CASE Render(t)
  <2> DEFINE new == [k.row EXCEPT !.status = "validating"]
             x == [k EXCEPT !.pc = "validate"]
  <2>1. new \in Row /\ new.status \in Working
    BY <1>1 DEF Row, ArtifactStatus, Working
  <2>2. x \in TaskState /\ x.pc # "idle" /\ x.used = k.used
    BY <1>7, <1>9
  <2>3. Saves(t, new, x) /\ UNCHANGED calls
    BY <1>18 DEF Render
  <2> HIDE DEF x, new
  <2> QED BY <1>6, <2>1, <2>2, <2>3
<1>19. CASE Put(t)
  <2>1. PICK p \in Part : Becomes(t, [k EXCEPT !.stored = @ \union {p}])
    BY <1>19 DEF Put
  <2> DEFINE x == [k EXCEPT !.stored = @ \union {p}]
  <2>2. x.pc # "idle" /\ x.used = k.used /\ Becomes(t, x)
    BY <1>1, <1>2, <2>1 DEF TaskState
  <2> HIDE DEF x
  <2> QED BY <1>5, <1>19, <2>2 DEF Put
<1> QED BY <1>11, <1>12, <1>13, <1>14, <1>15, <1>16, <1>17, <1>18, <1>19

\* The stages of a lesson implement the contract the runs rely on, for every number
\* of overlapping tasks, drafts, designs and parts.
THEOREM StagesImplementAttempt == Spec => Implements
<1>1. Init => Attempt!Init
  BY DEF Init, Attempt!Init, Shown, Working, NewRow, IdleTask
<1>2. IInv /\ IInv' /\ [Next]_vars => [Attempt!Next]_(Attempt!vars)
  <2> SUFFICES ASSUME IInv, IInv', [Next]_vars PROVE Attempt!Next \/ UNCHANGED Attempt!vars
    OBVIOUS
  <2>1. CASE UNCHANGED vars
    BY <2>1 DEF vars, Attempt!vars
  <2>2. ASSUME NEW t \in Task, Begin(t) \/ Work(t)
        PROVE  Attempt!Next \/ UNCHANGED Attempt!vars
    <3>1. \/ Attempt!Enter(t) \/ Attempt!Call(t) \/ Attempt!Progress(t) \/ Attempt!Leave(t)
          \/ Attempt!Refuse(t) \/ Attempt!Decide(t, "failed") \/ Attempt!Decide(t, "complete")
          \/ UNCHANGED Attempt!vars
      BY <2>2, BeginIsEnter, ReserveIsCall, EndIsDecided, AnswerIsProgress DEF Work
    <3> QED BY <3>1 DEF Attempt!Next
  <2> QED BY <2>1, <2>2 DEF Next
<1> QED BY <1>1, <1>2, InitIInv, NextIInv, PTL DEF Spec, Implements, Attempt!Spec

-----------------------------------------------------------------------------
(* What a lesson is when its attempts do not overlap.                       *)

\* A task's state, without the bounds on what it has tried.
TaskShape == [pc : StagePC, row : Row, designs : Nat, drafts : Nat, used : Nat,
              draft : Nat, plan : Nat, stored : SUBSET Part, outcome : Outcome]

AfterDraft == {"review", "reviewing", "revise", "revising", "rereview", "rereviewing",
               "render", "validate", "put"}

\* The attempt k of the one task at work, beside row r, objects o, newest trace d,
\* cleared pairs c and next document n: its session's copy is the row, what it has
\* stored is its plan, and past the review its pair was cleared by the verdict the
\* row carries.
Along(k, r, o, d, c, n) ==
  /\ k.row = r /\ r.status # "complete"
  /\ k.stored # {} => k.pc = "put"
  /\ \A p \in k.stored : o[p] = k.plan
  /\ k.pc \in {"design", "designing"} => r.design # "ready"
  /\ k.pc \in AfterDraft => d = k.draft /\ k.draft < n
  /\ k.pc \in {"review", "reviewing", "revise", "revising"} => k.plan = k.draft
  /\ k.pc \in {"rereview", "rereviewing"} => k.plan # k.draft
  /\ k.pc \in {"render", "validate", "put"} =>
       /\ r.review \in {"passed", "passed_after_revise"}
       /\ <<d, k.plan>> \in c
       /\ d = k.plan <=> r.review = "passed"

\* A completed row agrees with the bucket and with the reviews.
Agrees(r, o, d, c) ==
  r.status = "complete" =>
    /\ \A p \in Part : o[p] = r.doc
    /\ r.review \in {"passed", "passed_after_revise"}
    /\ <<d, r.doc>> \in c
    /\ d = r.doc <=> r.review = "passed"

AtWork(t) == task[t].pc # "idle"

\* One task is at work at a time, along a lesson that is not completed.
SerialInv ==
  overlapped \/
    /\ \A t, u \in Task : AtWork(t) /\ AtWork(u) => t = u
    /\ \A t \in Task : AtWork(t) => Along(task[t], row, object, traced, cleared, nextDoc)
    /\ Agrees(row, object, traced, cleared)

\* A typed task has the shape.
LEMMA ShapeOfTask ==
  ASSUME IInv, NEW t \in Task
  PROVE  task[t] \in TaskShape /\ task[t].row \in Row /\ row \in Row
<1>1. task[t] \in TaskState /\ row \in Row
  BY DEF IInv, TypeOK, TaskState
<1>2. LessonCalls \in Nat
  BY DEF LessonCalls
<1> QED BY <1>1, <1>2 DEF TaskState, TaskShape

\* The session's copy is the row: its commit leaves what it writes.
LEMMA CommitExact ==
  ASSUME IInv, NEW t \in Task, NEW new \in Row, task[t].row = row, Commit(t, new)
  PROVE  row' = new
<1>1. row \in Row
  BY ShapeOfTask
<1>2. DOMAIN row = {"status", "design", "review", "doc"}
  BY <1>1 DEF Row
<1>3. row' = [column \in {"status", "design", "review", "doc"} |->
                IF new[column] = row[column] THEN row[column] ELSE new[column]]
  BY <1>2 DEF Commit
<1>4. \A column \in {"status", "design", "review", "doc"} : row'[column] = new[column]
  BY <1>3
<1>5. row' = [status |-> new.status, design |-> new.design, review |-> new.review,
              doc |-> new.doc]
  BY <1>3, <1>4
<1> QED BY <1>5 DEF Row

\* The step of the one task at work keeps the invariant when its next state is along
\* the lesson and the row agrees.
LEMMA SerialStep ==
  ASSUME IInv, SerialInv, NEW t \in Task, NEW x, AtWork(t), Becomes(t, x),
         overlapped' = overlapped,
         ~overlapped => /\ x.pc # "idle" => Along(x, row', object', traced', cleared', nextDoc')
                        /\ Agrees(row', object', traced', cleared')
  PROVE  SerialInv'
<1> SUFFICES ASSUME ~overlapped PROVE SerialInv'
  BY DEF SerialInv
<1>1. task' = [task EXCEPT ![t] = x] /\ task \in [Task -> TaskState]
  BY DEF Becomes, IInv, TypeOK, TaskState
<1>2. task'[t] = x /\ \A u \in Task \ {t} : task'[u] = task[u] /\ task[u].pc = "idle"
  BY <1>1 DEF SerialInv, AtWork
<1>3. \A u \in Task : AtWork(u)' => u = t /\ x.pc # "idle"
  BY <1>2 DEF AtWork
<1>4. \A u \in Task : AtWork(u)' => Along(task'[u], row', object', traced', cleared', nextDoc')
  BY <1>2, <1>3
<1>5. Agrees(row', object', traced', cleared')
  OBVIOUS
<1> QED BY <1>3, <1>4, <1>5 DEF SerialInv

\* An attempt begins along the row it finds, or beside another one.
LEMMA BeginSerial ==
  ASSUME IInv, SerialInv, NEW t \in Task, Begin(t)
  PROVE  SerialInv'
<1> DEFINE x == [IdleTask EXCEPT !.row = row, !.pc =
                   IF MaxDesigns > 0 /\ row.design # "ready" THEN "design" ELSE "draft"]
<1>1. CASE overlapped \/ \E u \in Task : task[u].pc # "idle"
  BY <1>1 DEF Begin, Counts, SerialInv
<1>2. CASE ~overlapped /\ \A u \in Task : task[u].pc = "idle"
  <2>1. task' = [task EXCEPT ![t] = x] /\ task \in [Task -> TaskState]
    BY DEF Begin, Becomes, IInv, TypeOK, TaskState
  <2>2. x.row = row /\ x.stored = {} /\ x.pc \in {"design", "draft"}
        /\ (x.pc = "design" => row.design # "ready")
    BY DEF IdleTask
  <2> HIDE DEF x
  <2>3. task'[t] = x /\ \A u \in Task \ {t} : task'[u].pc = "idle"
    BY <1>2, <2>1
  <2>4. Along(x, row, object, traced, cleared, nextDoc)
    BY <2>2 DEF Along, AfterDraft, Begin
  <2>5. \A u \in Task : AtWork(u)' => u = t
    BY <2>3 DEF AtWork
  <2>6. UNCHANGED <<row, object, traced, cleared, nextDoc>>
    BY DEF Begin
  <2>7. \A u \in Task : AtWork(u)' => Along(task'[u], row', object', traced', cleared', nextDoc')
    BY <2>3, <2>4, <2>5, <2>6
  <2>8. Agrees(row', object', traced', cleared')
    BY <1>2, <2>6 DEF SerialInv
  <2> QED BY <2>5, <2>7, <2>8 DEF SerialInv
<1> QED BY <1>1, <1>2

\* The end of an attempt that does not complete the lesson.
LEMMA EndedSerial ==
  ASSUME IInv, SerialInv, NEW t \in Task, NEW o, AtWork(t), Becomes(t, Ended(o, task[t].used)),
         overlapped' = overlapped, ~overlapped => row'.status # "complete"
  PROVE  SerialInv'
<1> DEFINE x == Ended(o, task[t].used)
<1>1. x.pc = "idle"
  BY DEF Ended, IdleTask
<1> HIDE DEF x
<1>2. ~overlapped => Agrees(row', object', traced', cleared')
  BY DEF Agrees
<1> QED BY <1>1, <1>2, SerialStep DEF x

\* An attempt that fails leaves a row that is not completed.
LEMMA FailsSerial ==
  ASSUME IInv, SerialInv, NEW t \in Task, NEW new \in Row, AtWork(t), Fails(t, new),
         overlapped' = overlapped
  PROVE  SerialInv'
<1> DEFINE failed == [new EXCEPT !.status = "failed"]
<1>1. failed \in Row /\ failed.status = "failed"
  BY DEF Row, ArtifactStatus
<1>2. Commit(t, failed)
  BY DEF Fails
<1> HIDE DEF failed
<1>3. ~overlapped => row'.status # "complete"
  <2> SUFFICES ASSUME ~overlapped PROVE row'.status # "complete"
    OBVIOUS
  <2>1. task[t].row = row
    BY DEF SerialInv, Along
  <2> QED BY <1>1, <1>2, <2>1, CommitExact
<1> QED BY <1>3, EndedSerial DEF Fails

\* A task that commits a row and goes on.
LEMMA SavesSerial ==
  ASSUME IInv, SerialInv, NEW t \in Task, NEW new \in Row, NEW x \in TaskShape, AtWork(t),
         Saves(t, new, x), overlapped' = overlapped, new.status # "complete",
         ~overlapped => Along([x EXCEPT !.row = new], new, object', traced', cleared', nextDoc')
  PROVE  SerialInv'
<1> DEFINE y == [x EXCEPT !.row = new]
<1>1. ~overlapped => row' = new
  <2> SUFFICES ASSUME ~overlapped PROVE row' = new
    OBVIOUS
  <2>1. task[t].row = row
    BY DEF SerialInv, Along
  <2> QED BY <2>1, CommitExact DEF Saves
<1>2. Becomes(t, y)
  BY DEF Saves
<1> HIDE DEF y
<1>3. ~overlapped => Agrees(row', object', traced', cleared')
  BY <1>1 DEF Agrees
<1> QED BY <1>1, <1>2, <1>3, SerialStep DEF y

\* A task that goes on without a commit.
LEMMA GoesSerial ==
  ASSUME IInv, SerialInv, NEW t \in Task, NEW x, AtWork(t), Becomes(t, x),
         overlapped' = overlapped, row' = row,
         ~overlapped => Along(x, row, object', traced', cleared', nextDoc')
  PROVE  SerialInv'
<1>1. ~overlapped => row.status # "complete"
  BY DEF SerialInv, Along
<1>2. ~overlapped => Agrees(row', object', traced', cleared')
  BY <1>1 DEF Agrees
<1> QED BY <1>2, SerialStep

\* A call that is reserved goes on along the lesson.
LEMMA SpendSerial ==
  ASSUME IInv, SerialInv, NEW t \in Task, NEW status \in ArtifactStatus \ {"complete"},
         NEW x \in TaskShape, x.draft = task[t].draft, x.plan = task[t].plan,
         x.stored = task[t].stored,
         <<task[t].pc, x.pc>> \in {<<"design", "designing">>, <<"draft", "drafting">>,
            <<"review", "reviewing">>, <<"revise", "revising">>, <<"rereview", "rereviewing">>},
         Spend(t, status, x)
  PROVE  SerialInv'
<1> DEFINE k == task[t]
           new == [k.row EXCEPT !.status = status]
           y == [x EXCEPT !.used = @ + 1]
           z == [y EXCEPT !.row = new]
<1>1. k \in TaskShape /\ k.row \in Row /\ AtWork(t)
  BY ShapeOfTask DEF AtWork
<1>2. new \in Row /\ new.status # "complete" /\ new.design = k.row.design
      /\ new.review = k.row.review
  BY <1>1 DEF Row
<1>3. y \in TaskShape
  BY DEF TaskShape
<1>4. z.pc = x.pc /\ z.row = new /\ z.draft = k.draft /\ z.plan = k.plan /\ z.stored = k.stored
  BY DEF TaskShape
<1>5. Saves(t, new, y) /\ UNCHANGED <<object, traced, cleared, nextDoc, overlapped>>
  BY DEF Spend
<1> HIDE DEF new
<1>6. ~overlapped => Along(z, new, object, traced, cleared, nextDoc)
  <2> SUFFICES ASSUME ~overlapped PROVE Along(z, new, object, traced, cleared, nextDoc)
    OBVIOUS
  <2>1. Along(k, row, object, traced, cleared, nextDoc)
    BY <1>1 DEF SerialInv
  <2> HIDE DEF z, k
  <2> QED BY <1>2, <1>4, <2>1 DEF Along, AfterDraft, k
<1> QED BY <1>1, <1>2, <1>3, <1>5, <1>6, SavesSerial

\* Each reservation is such a call.
LEMMA ReserveSerial ==
  ASSUME IInv, SerialInv, NEW t \in Task,
         ReserveDesign(t) \/ ReserveDraft(t) \/ ReserveReview(t) \/ ReserveRevise(t)
  PROVE  SerialInv'
<1> DEFINE k == task[t]
<1>1. k \in TaskShape
  BY ShapeOfTask
<1>2. {"designing", "drafting", "reviewing"} \subseteq ArtifactStatus \ {"complete"}
  BY DEF ArtifactStatus
<1>3. CASE ReserveDesign(t)
  <2> DEFINE x == [k EXCEPT !.pc = "designing", !.designs = @ + 1]
  <2>1. x \in TaskShape /\ x.draft = k.draft /\ x.plan = k.plan /\ x.stored = k.stored
        /\ x.pc = "designing"
    <3>1. k.designs + 1 \in Nat /\ "designing" \in StagePC
      BY <1>1 DEF TaskShape, StagePC, Calling
    <3> QED BY <1>1, <3>1 DEF TaskShape
  <2>2. Spend(t, "designing", x) /\ k.pc = "design"
    BY <1>3 DEF ReserveDesign
  <2> HIDE DEF x
  <2> QED BY <1>2, <2>1, <2>2, SpendSerial
<1>4. CASE ReserveDraft(t)
  <2> DEFINE x == [k EXCEPT !.pc = "drafting", !.drafts = @ + 1]
  <2>1. x \in TaskShape /\ x.draft = k.draft /\ x.plan = k.plan /\ x.stored = k.stored
        /\ x.pc = "drafting"
    <3>1. k.drafts + 1 \in Nat /\ "drafting" \in StagePC
      BY <1>1 DEF TaskShape, StagePC, Calling
    <3> QED BY <1>1, <3>1 DEF TaskShape
  <2>2. Spend(t, "drafting", x) /\ k.pc = "draft"
    BY <1>4 DEF ReserveDraft
  <2> HIDE DEF x
  <2> QED BY <1>2, <2>1, <2>2, SpendSerial
<1>5. ASSUME NEW pc \in {"reviewing", "revising", "rereviewing"},
             <<k.pc, pc>> \in {<<"review", "reviewing">>, <<"revise", "revising">>,
                               <<"rereview", "rereviewing">>},
             Spend(t, "reviewing", [k EXCEPT !.pc = pc])
      PROVE  SerialInv'
  <2> DEFINE x == [k EXCEPT !.pc = pc]
  <2>1. x \in TaskShape /\ x.draft = k.draft /\ x.plan = k.plan /\ x.stored = k.stored
        /\ x.pc = pc
    BY <1>1 DEF TaskShape, StagePC, Calling
  <2>2. Spend(t, "reviewing", x)
    BY <1>5
  <2> HIDE DEF x
  <2> QED BY <1>2, <1>5, <2>1, <2>2, SpendSerial
<1>6. CASE ReserveReview(t) \/ ReserveRevise(t)
  BY <1>5, <1>6 DEF ReserveReview, ReserveRevise
<1> QED BY <1>3, <1>4, <1>6

\* What ends an attempt leaves a failed row, or a completed one that agrees.
LEMMA EndSerial ==
  ASSUME IInv, SerialInv, NEW t \in Task,
         PlanMissing(t) \/ DesignGivesUp(t) \/ DraftGivesUp(t) \/ CapReached(t)
           \/ ProviderError(t) \/ Complete(t) \/ StageError(t)
  PROVE  SerialInv'
<1> DEFINE k == task[t]
<1>1. k \in TaskShape /\ k.row \in Row /\ row \in Row
  BY ShapeOfTask
<1>2. AtWork(t) /\ overlapped' = overlapped
  BY DEF AtWork, PlanMissing, DesignGivesUp, DraftGivesUp, CapReached, ProviderError, Complete, StageError,
         Reserving, Calling
<1>3. ~overlapped => Along(k, row, object, traced, cleared, nextDoc)
  BY <1>2 DEF SerialInv
<1>4. CASE DesignGivesUp(t)
  <2>1. [k.row EXCEPT !.design = "failed"] \in Row
    BY <1>1 DEF Row, DesignStatus
  <2> QED BY <1>2, <1>4, <2>1, FailsSerial DEF DesignGivesUp
<1>5. CASE PlanMissing(t) \/ DraftGivesUp(t)
  BY <1>1, <1>2, <1>5, FailsSerial DEF PlanMissing, DraftGivesUp
<1>6. CASE CapReached(t) \/ StageError(t)
  <2>1. PICK o : Becomes(t, Ended(o, k.used)) /\ row' = row
    BY <1>6 DEF CapReached, StageError, Stops
  <2>2. ~overlapped => row'.status # "complete"
    BY <1>3, <2>1 DEF Along
  <2> QED BY <1>2, <2>1, <2>2, EndedSerial
<1>7. CASE ProviderError(t)
  <2>1. row'.status # "complete"
    BY <1>1, <1>7 DEF ProviderError, Row
  <2> QED BY <1>2, <1>7, <2>1, EndedSerial DEF ProviderError
<1>8. CASE Complete(t)
  <2> DEFINE new == [k.row EXCEPT !.status = "complete", !.doc = k.plan]
             x == Ended("complete", k.used)
  <2>1. /\ new \in Row /\ new.review = k.row.review /\ new.doc = k.plan
    BY <1>1 DEF Row, ArtifactStatus, TaskShape
  <2>2. x.pc = "idle" /\ Becomes(t, x)
    BY <1>8 DEF Ended, IdleTask, Complete
  <2>3. Commit(t, new) /\ k.pc = "put" /\ k.stored = Part
        /\ UNCHANGED <<object, traced, cleared>>
    BY <1>8 DEF Complete
  <2> HIDE DEF new, x
  <2>4. ~overlapped => Agrees(row', object', traced', cleared')
    <3> SUFFICES ASSUME ~overlapped PROVE Agrees(row', object', traced', cleared')
      OBVIOUS
    <3>1. Along(k, row, object, traced, cleared, nextDoc)
      BY <1>3
    <3>2. row' = new
      BY <2>1, <2>3, <3>1, CommitExact DEF Along
    <3> QED BY <2>1, <2>3, <3>1, <3>2 DEF Along, Agrees
  <2> QED BY <1>2, <2>2, <2>4, SerialStep
<1> QED BY <1>4, <1>5, <1>6, <1>7, <1>8

\* An answer, and what is done with it, stays along the lesson.
LEMMA AnswerSerial ==
  ASSUME IInv, SerialInv, NEW t \in Task,
         Designed(t) \/ DesignRejected(t) \/ Drafted(t) \/ DraftUnparseable(t) \/ ReviewClean(t)
           \/ ReviewSevere(t) \/ ReviewUnparseable(t) \/ Revised(t) \/ Render(t) \/ Validate(t)
           \/ Put(t)
  PROVE  SerialInv'
<1> DEFINE k == task[t]
           At(pc) == [k EXCEPT !.pc = pc]
<1>1. /\ k \in TaskShape /\ k.row \in Row /\ row \in Row /\ nextDoc \in Nat
      /\ object \in [Part -> Nat]
  BY ShapeOfTask DEF IInv, TypeOK
<1>2. AtWork(t) /\ overlapped' = overlapped
  BY DEF AtWork, Designed, DesignRejected, Drafted, DraftUnparseable, ReviewClean, ReviewSevere,
         ReviewUnparseable, Revised, Render, Validate, Put
<1>3. ~overlapped => Along(k, row, object, traced, cleared, nextDoc)
  BY <1>2 DEF SerialInv
<1>4. ASSUME NEW pc \in StagePC
      PROVE  /\ At(pc) \in TaskShape /\ At(pc).pc = pc /\ At(pc).row = k.row
             /\ At(pc).draft = k.draft /\ At(pc).plan = k.plan /\ At(pc).stored = k.stored
  BY <1>1 DEF TaskShape
<1>5. {"design", "draft", "review", "revise", "rereview", "render", "validate", "put"} \subseteq StagePC
  BY DEF StagePC, Reserving
<1>6. ASSUME NEW pc, <<k.pc, pc>> \in {<<"designing", "design">>, <<"drafting", "draft">>,
               <<"reviewing", "revise">>, <<"validate", "put">>, <<"validate", "draft">>},
             Goto(t, pc), UNCHANGED <<row, object, traced, cleared, nextDoc>>
      PROVE  SerialInv'
  <2> DEFINE x == At(pc)
  <2>1. x.pc = pc /\ x.row = k.row /\ x.draft = k.draft /\ x.plan = k.plan /\ x.stored = k.stored
    BY <1>4, <1>5, <1>6
  <2>2. Becomes(t, x)
    BY <1>6 DEF Goto
  <2> HIDE DEF x
  <2>3. ~overlapped => Along(x, row, object', traced', cleared', nextDoc')
    BY <1>3, <1>6, <2>1 DEF Along, AfterDraft
  <2> QED BY <1>2, <1>6, <2>2, <2>3, GoesSerial
<1>7. ASSUME NEW new \in Row, NEW pc \in StagePC, Saves(t, new, At(pc)), new.status # "complete",
             ~overlapped => /\ k.stored = {} /\ pc \notin {"design", "designing"}
                            /\ pc \in {"draft", "render", "validate"}
                            /\ pc \in AfterDraft => traced = k.draft /\ k.draft < nextDoc
                            /\ pc \in {"render", "validate"} =>
                                 /\ new.review \in {"passed", "passed_after_revise"}
                                 /\ <<traced, k.plan>> \in cleared'
                                 /\ traced = k.plan <=> new.review = "passed",
             UNCHANGED <<object, traced, nextDoc>>
      PROVE  SerialInv'
  <2> DEFINE x == At(pc)
             y == [x EXCEPT !.row = new]
  <2>1. x \in TaskShape /\ Saves(t, new, x)
    BY <1>4, <1>7
  <2>2. y.pc = pc /\ y.row = new /\ y.draft = k.draft /\ y.plan = k.plan /\ y.stored = k.stored
    <3>1. x.pc = pc /\ x.draft = k.draft /\ x.plan = k.plan /\ x.stored = k.stored
      BY <1>4
    <3> HIDE DEF x
    <3> QED BY <2>1, <3>1 DEF TaskShape
  <2> HIDE DEF y, x
  <2>3. ~overlapped => Along(y, new, object', traced', cleared', nextDoc')
    BY <1>7, <2>2 DEF Along, AfterDraft
  <2> QED BY <1>2, <1>7, <2>1, <2>3, SavesSerial DEF y
<1>8. ~overlapped /\ k.pc # "put" => k.stored = {}
  BY <1>3 DEF Along
<1>9. CASE Designed(t)
  <2> DEFINE new == [k.row EXCEPT !.design = "ready"]
  <2>1. new \in Row /\ new.status = k.row.status
    BY <1>1 DEF Row, DesignStatus
  <2>2. Saves(t, new, At("draft")) /\ k.pc = "designing"
    BY <1>9 DEF Designed
  <2> HIDE DEF new
  <2>3. CASE overlapped
    BY <1>9, <2>3 DEF Designed, SerialInv
  <2>4. CASE ~overlapped
    <3>1. new.status # "complete"
      BY <1>3, <2>1, <2>4 DEF Along
    <3> QED BY <1>5, <1>7, <1>8, <1>9, <2>1, <2>2, <3>1 DEF Designed, AfterDraft
  <2> QED BY <2>3, <2>4
<1>10. CASE DesignRejected(t) \/ Validate(t)
  BY <1>6, <1>10 DEF DesignRejected, Validate
<1>11. CASE Drafted(t)
  <2> DEFINE x == [k EXCEPT !.pc = "review", !.draft = nextDoc, !.plan = nextDoc]
  <2>1. x.pc = "review" /\ x.row = k.row /\ x.draft = nextDoc /\ x.plan = nextDoc
        /\ x.stored = k.stored
    BY <1>1 DEF TaskShape
  <2>2. Becomes(t, x) /\ row' = row /\ traced' = nextDoc /\ nextDoc' = nextDoc + 1
        /\ k.pc = "drafting" /\ UNCHANGED <<object, cleared>>
    BY <1>11 DEF Drafted
  <2> HIDE DEF x
  <2>3. ~overlapped => Along(x, row, object', traced', cleared', nextDoc')
    BY <1>1, <1>3, <2>1, <2>2 DEF Along, AfterDraft
  <2> QED BY <1>2, <2>2, <2>3, GoesSerial
<1>12. CASE DraftUnparseable(t)
  <2>1. CASE ParseGuarded
    BY <1>6, <1>12, <2>1 DEF DraftUnparseable
  <2>2. CASE ~ParseGuarded
    <3>1. Becomes(t, Ended("error", k.used)) /\ row' = row
      BY <1>12, <2>2 DEF DraftUnparseable, Stops
    <3>2. ~overlapped => row'.status # "complete"
      BY <1>3, <3>1 DEF Along
    <3> QED BY <1>2, <3>1, <3>2, EndedSerial
  <2> QED BY <2>1, <2>2
<1>13. ASSUME NEW outcome \in ReviewOutcome, NEW status \in ArtifactStatus, NEW pc \in StagePC,
              Records(t, outcome, status, pc), UNCHANGED <<object, traced, nextDoc>>,
              ~overlapped => /\ k.stored = {} /\ status # "complete"
                             /\ pc \in {"draft", "render"}
                             /\ pc \in AfterDraft => traced = k.draft /\ k.draft < nextDoc
                             /\ pc = "render" =>
                                  /\ outcome \in {"passed", "passed_after_revise"}
                                  /\ <<traced, k.plan>> \in cleared'
                                  /\ traced = k.plan <=> outcome = "passed"
       PROVE  SerialInv'
  <2> DEFINE new == [k.row EXCEPT !.review = outcome, !.status = status]
  <2>1. new \in Row /\ new.status = status /\ new.review = outcome
    BY <1>1 DEF Row
  <2>2. Saves(t, new, At(pc))
    BY <1>13 DEF Records
  <2> HIDE DEF new, At
  <2>3. CASE overlapped
    BY <1>2, <2>3 DEF SerialInv
  <2>4. CASE ~overlapped
    BY <1>7, <1>13, <2>1, <2>2, <2>4
  <2> QED BY <2>3, <2>4
<1>14. CASE ReviewClean(t)
  <2>1. {"passed", "passed_after_revise"} \subseteq ReviewOutcome /\ "rendering" \in ArtifactStatus
    BY DEF ReviewOutcome, ArtifactStatus
  <2>2. cleared' = cleared \union {<<k.draft, k.plan>>} /\ UNCHANGED <<object, traced, nextDoc>>
    BY <1>14 DEF ReviewClean
  <2>3. CASE k.pc = "reviewing" /\ Records(t, "passed", "rendering", "render")
    <3>1. ~overlapped => traced = k.draft /\ k.plan = k.draft /\ k.draft < nextDoc
      BY <1>3, <2>3 DEF Along, AfterDraft
    <3> QED BY <1>5, <1>8, <1>13, <2>1, <2>2, <2>3, <3>1
  <2>4. CASE k.pc = "rereviewing" /\ Records(t, "passed_after_revise", "rendering", "render")
    <3>1. ~overlapped => traced = k.draft /\ k.plan # k.draft /\ k.draft < nextDoc
      BY <1>3, <2>4 DEF Along, AfterDraft
    <3> QED BY <1>5, <1>8, <1>13, <2>1, <2>2, <2>4, <3>1
  <2> QED BY <1>14, <2>3, <2>4 DEF ReviewClean
<1>15. CASE ReviewSevere(t)
  <2>1. CASE k.pc = "reviewing" /\ Goto(t, "revise") /\ UNCHANGED row
    BY <1>6, <1>15, <2>1 DEF ReviewSevere
  <2>2. CASE Fails(t, [k.row EXCEPT !.review = "failed_after_revise"])
    <3>1. [k.row EXCEPT !.review = "failed_after_revise"] \in Row
      BY <1>1 DEF Row, ReviewOutcome
    <3> QED BY <1>2, <2>2, <3>1, FailsSerial
  <2> QED BY <1>15, <2>1, <2>2 DEF ReviewSevere
<1>16. CASE ReviewUnparseable(t)
  <2>1. "unparseable" \in ReviewOutcome /\ k.row.status \in ArtifactStatus
    BY <1>1 DEF ReviewOutcome, Row
  <2>2. ~overlapped => k.row.status # "complete" /\ k.stored = {}
    BY <1>3, <1>16 DEF Along, ReviewUnparseable
  <2> QED BY <1>5, <1>13, <1>16, <2>1, <2>2 DEF ReviewUnparseable, AfterDraft
<1>17. CASE Revised(t)
  <2> DEFINE x == [k EXCEPT !.pc = "rereview", !.plan = nextDoc]
  <2>1. x.pc = "rereview" /\ x.row = k.row /\ x.draft = k.draft /\ x.plan = nextDoc
        /\ x.stored = k.stored /\ k.draft \in Nat
    BY <1>1 DEF TaskShape
  <2>2. Becomes(t, x) /\ row' = row /\ nextDoc' = nextDoc + 1 /\ k.pc = "revising"
        /\ UNCHANGED <<object, traced, cleared>>
    BY <1>17 DEF Revised
  <2> HIDE DEF x
  <2>3. ~overlapped => Along(x, row, object', traced', cleared', nextDoc')
    BY <1>1, <1>3, <2>1, <2>2 DEF Along, AfterDraft
  <2> QED BY <1>2, <2>2, <2>3, GoesSerial
<1>18. CASE Render(t)
  <2> DEFINE new == [k.row EXCEPT !.status = "validating"]
  <2>1. new \in Row /\ new.status = "validating" /\ new.review = k.row.review
    BY <1>1 DEF Row, ArtifactStatus
  <2>2. Saves(t, new, At("validate")) /\ k.pc = "render"
        /\ UNCHANGED <<object, traced, cleared, nextDoc>>
    BY <1>18 DEF Render
  <2>3. "validate" \in StagePC
    BY DEF StagePC
  <2> HIDE DEF new, At
  <2>4. ~overlapped => /\ k.stored = {} /\ traced = k.draft /\ k.draft < nextDoc
                       /\ new.review \in {"passed", "passed_after_revise"}
                       /\ <<traced, k.plan>> \in cleared'
                       /\ traced = k.plan <=> new.review = "passed"
    BY <1>3, <2>1, <2>2 DEF Along, AfterDraft
  <2> QED BY <1>7, <2>1, <2>2, <2>3, <2>4
<1>19. CASE Put(t)
  <2>1. PICK p \in Part : /\ object' = [object EXCEPT ![p] = k.plan]
                          /\ Becomes(t, [k EXCEPT !.stored = @ \union {p}])
    BY <1>19 DEF Put
  <2> DEFINE x == [k EXCEPT !.stored = @ \union {p}]
  <2>2. /\ x.pc = k.pc /\ x.row = k.row /\ x.draft = k.draft /\ x.plan = k.plan
        /\ x.stored = k.stored \union {p} /\ k.stored \subseteq Part
    BY <1>1 DEF TaskShape
  <2>3. Becomes(t, x) /\ k.pc = "put" /\ UNCHANGED <<row, traced, cleared, nextDoc>>
    BY <1>19, <2>1 DEF Put
  <2> HIDE DEF x
  <2>4. \A q \in k.stored : object[q] = k.plan => object'[q] = k.plan
    BY <1>1, <2>1, <2>2
  <2>5. object'[p] = k.plan
    BY <1>1, <2>1
  <2>6. ~overlapped => Along(x, row, object', traced', cleared', nextDoc')
    BY <1>3, <2>2, <2>3, <2>4, <2>5 DEF Along, AfterDraft
  <2> QED BY <1>2, <2>3, <2>6, GoesSerial
<1> QED BY <1>9, <1>10, <1>11, <1>12, <1>14, <1>15, <1>16, <1>17, <1>18, <1>19

\* No task is at work at first.
LEMMA InitSerial == Init => SerialInv
<1> SUFFICES ASSUME Init PROVE SerialInv
  OBVIOUS
<1>1. \A t \in Task : ~AtWork(t)
  BY DEF Init, IdleTask, AtWork
<1>2. row.status = "pending"
  BY DEF Init, NewRow
<1> QED BY <1>1, <1>2 DEF SerialInv, Agrees

\* One task at a time: the invariant is inductive.
LEMMA NextSerial == IInv /\ SerialInv /\ [Next]_vars => SerialInv'
<1> SUFFICES ASSUME IInv, SerialInv, [Next]_vars PROVE SerialInv'
  OBVIOUS
<1>1. CASE UNCHANGED vars
  BY <1>1 DEF vars, SerialInv, AtWork
<1>2. ASSUME NEW t \in Task, Begin(t) \/ Work(t) PROVE SerialInv'
  BY <1>2, BeginSerial, ReserveSerial, EndSerial, AnswerSerial DEF Work
<1> QED BY <1>1, <1>2 DEF Next

\* A lesson completed by tasks that do not overlap has its document in the bucket
\* under every part's key, for every number of parts, drafts and resumes.
THEOREM CompleteLessonsAreStored == Spec => []CompleteIsStored
<1>1. SerialInv => CompleteIsStored
  BY DEF SerialInv, Agrees, CompleteIsStored
<1> QED BY <1>1, InitIInv, NextIInv, InitSerial, NextSerial, PTL DEF Spec

\* ... and passed its last review: what decks and exercises read back is the draft
\* that was reviewed.
THEOREM CompleteLessonsAreReviewed == Spec => []CompleteIsReviewed
<1>1. SerialInv => CompleteIsReviewed
  BY DEF SerialInv, Agrees, CompleteIsReviewed, ReadBack
<1> QED BY <1>1, InitIInv, NextIInv, InitSerial, NextSerial, PTL DEF Spec

\* A task is at the designer after it was about to be.
LEMMA DesigningComes ==
  ASSUME IInv, NEW t \in Task, [Next]_vars, task'[t].pc = "designing"
  PROVE  task[t].pc \in {"design", "designing"}
<1> DEFINE k == task[t]
<1> SUFFICES ASSUME k.pc \notin {"design", "designing"} PROVE FALSE
  OBVIOUS
<1>1. k \in TaskShape /\ k.row \in Row /\ row \in Row /\ nextDoc \in Nat
      /\ task \in [Task -> TaskState]
  BY ShapeOfTask DEF IInv, TypeOK, TaskState
<1>2. CASE UNCHANGED vars
  BY <1>2 DEF vars
<1>3. ASSUME NEW x, x.pc # "designing", Becomes(t, x)
      PROVE  FALSE
  BY <1>1, <1>3 DEF Becomes
<1>4. ASSUME NEW x \in TaskShape, x.pc # "designing", NEW new, Saves(t, new, x)
      PROVE  FALSE
  <2> DEFINE y == [x EXCEPT !.row = new]
  <2>1. y.pc = x.pc /\ Becomes(t, y)
    BY <1>4 DEF TaskShape, Saves
  <2> HIDE DEF y
  <2> QED BY <1>3, <1>4, <2>1
<1>5. ASSUME NEW x \in TaskShape, x.pc # "designing", NEW status, Spend(t, status, x)
      PROVE  FALSE
  <2> DEFINE y == [x EXCEPT !.used = @ + 1]
             new == [k.row EXCEPT !.status = status]
  <2>1. x.used + 1 \in Nat
    BY <1>5 DEF TaskShape
  <2>2. y \in TaskShape /\ y.pc = x.pc
    BY <1>5, <2>1 DEF TaskShape
  <2>3. Saves(t, new, y)
    BY <1>5 DEF Spend
  <2> HIDE DEF y, new
  <2> QED BY <1>4, <1>5, <2>2, <2>3
<1>6. ASSUME NEW pc \in StagePC, pc # "designing"
      PROVE  [k EXCEPT !.pc = pc] \in TaskShape /\ [k EXCEPT !.pc = pc].pc # "designing"
  BY <1>1, <1>6 DEF TaskShape
<1>7. ASSUME NEW pc \in StagePC, pc # "designing", Goto(t, pc)
      PROVE  FALSE
  BY <1>3, <1>6, <1>7 DEF Goto
<1>8. ASSUME NEW pc \in StagePC, pc # "designing", NEW new, Saves(t, new, [k EXCEPT !.pc = pc])
      PROVE  FALSE
  BY <1>4, <1>6, <1>8
<1>9. ASSUME NEW o, NEW n, Becomes(t, Ended(o, n))
      PROVE  FALSE
  <2>1. Ended(o, n).pc = "idle"
    BY DEF Ended, IdleTask
  <2> QED BY <1>3, <1>9, <2>1
<1>10. StagePC \ {"designing"} =
         {"idle", "design", "draft", "drafting", "review", "reviewing", "revise", "revising",
          "rereview", "rereviewing", "render", "validate", "put"}
  BY DEF StagePC, Reserving, Calling
<1>11. ASSUME NEW u \in Task, Begin(u) \/ Work(u), u # t PROVE FALSE
  <2>1. \A x : Becomes(u, x) => task'[t] = k
    BY <1>1, <1>11 DEF Becomes
  <2>2. \E x : Becomes(u, x)
    BY <1>11 DEF Begin, Work, ReserveDesign, ReserveDraft, ReserveReview, ReserveRevise,
      PlanMissing, DesignGivesUp, DraftGivesUp, CapReached, ProviderError, Designed,
      DesignRejected, Drafted,
      DraftUnparseable, ReviewClean, ReviewSevere, ReviewUnparseable, Revised, Render, Validate,
      Put, Complete, StageError, Spend, Saves, Fails, Stops, Goto, Records
  <2> QED BY <2>1, <2>2
<1>12. CASE Begin(t)
  <2> DEFINE x == [IdleTask EXCEPT !.row = row, !.pc =
                     IF MaxDesigns > 0 /\ row.design # "ready" THEN "design" ELSE "draft"]
  <2>1. x.pc # "designing" /\ Becomes(t, x)
    BY <1>12 DEF IdleTask, Begin
  <2> HIDE DEF x
  <2> QED BY <1>3, <2>1
<1>13. CASE ReserveDesign(t)
  BY <1>13 DEF ReserveDesign
<1>14. CASE ReserveDraft(t)
  <2> DEFINE x == [k EXCEPT !.pc = "drafting", !.drafts = @ + 1]
  <2>1. k.drafts + 1 \in Nat /\ "drafting" \in StagePC
    BY <1>1, <1>10 DEF TaskShape
  <2>2. x \in TaskShape /\ x.pc # "designing"
    BY <1>1, <2>1 DEF TaskShape
  <2>3. Spend(t, "drafting", x)
    BY <1>14 DEF ReserveDraft
  <2> HIDE DEF x
  <2> QED BY <1>5, <2>2, <2>3
<1>15. CASE ReserveReview(t) \/ ReserveRevise(t)
  BY <1>5, <1>6, <1>10, <1>15 DEF ReserveReview, ReserveRevise
<1>16. CASE PlanMissing(t) \/ DesignGivesUp(t) \/ DraftGivesUp(t) \/ CapReached(t)
              \/ ProviderError(t) \/ Complete(t) \/ StageError(t)
  BY <1>9, <1>16 DEF PlanMissing, DesignGivesUp, DraftGivesUp, CapReached, ProviderError, Complete,
                     StageError, Fails, Stops
<1>17. CASE Designed(t) \/ DesignRejected(t)
  BY <1>17 DEF Designed, DesignRejected
<1>18. CASE Drafted(t) \/ Revised(t)
  <2>1. CASE Drafted(t)
    <3> DEFINE x == [k EXCEPT !.pc = "review", !.draft = nextDoc, !.plan = nextDoc]
    <3>1. x.pc = "review" /\ Becomes(t, x)
      BY <1>1, <2>1 DEF Drafted, TaskShape
    <3> HIDE DEF x
    <3> QED BY <1>3, <3>1
  <2>2. CASE Revised(t)
    <3> DEFINE x == [k EXCEPT !.pc = "rereview", !.plan = nextDoc]
    <3>1. x.pc = "rereview" /\ Becomes(t, x)
      BY <1>1, <2>2 DEF Revised, TaskShape
    <3> HIDE DEF x
    <3> QED BY <1>3, <3>1
  <2> QED BY <1>18, <2>1, <2>2
<1>19. CASE DraftUnparseable(t)
  BY <1>7, <1>9, <1>10, <1>19 DEF DraftUnparseable, Stops
<1>20. CASE ReviewClean(t) \/ ReviewUnparseable(t)
  BY <1>8, <1>10, <1>20 DEF ReviewClean, ReviewUnparseable, Records
<1>21. CASE ReviewSevere(t)
  BY <1>7, <1>9, <1>10, <1>21 DEF ReviewSevere, Fails
<1>22. CASE Render(t) \/ Validate(t)
  BY <1>7, <1>8, <1>10, <1>22 DEF Render, Validate
<1>23. CASE Put(t)
  <2>1. PICK p \in Part : Becomes(t, [k EXCEPT !.stored = @ \union {p}])
    BY <1>23 DEF Put
  <2> DEFINE x == [k EXCEPT !.stored = @ \union {p}]
  <2>2. x.pc = k.pc /\ Becomes(t, x)
    BY <1>1, <2>1 DEF TaskShape
  <2> HIDE DEF x
  <2> QED BY <1>3, <1>23, <2>2 DEF Put
<1>24. ASSUME NEW u \in Task, Begin(u) \/ Work(u) PROVE FALSE
  BY <1>11, <1>12, <1>13, <1>14, <1>15, <1>16, <1>17, <1>18, <1>19, <1>20, <1>21, <1>22,
     <1>23, <1>24 DEF Work
<1> QED BY <1>2, <1>24 DEF Next

\* A stored design is never paid for again, over any number of attempts of tasks that
\* do not overlap.
THEOREM DesignsArePaidOnce == Spec => DesignPaidOnce
<1> DEFINE Paid == \A t \in Task : task'[t].pc = "designing" /\ ~overlapped => row.design # "ready"
<1>1. IInv /\ SerialInv /\ [Next]_vars => Paid
  <2> SUFFICES ASSUME IInv, SerialInv, [Next]_vars, NEW t \in Task, task'[t].pc = "designing",
                      ~overlapped
               PROVE  row.design # "ready"
    OBVIOUS
  <2>1. task[t].pc \in {"design", "designing"}
    BY DesigningComes
  <2>2. Along(task[t], row, object, traced, cleared, nextDoc)
    BY <2>1 DEF SerialInv, AtWork
  <2> QED BY <2>1, <2>2 DEF Along
<1>2. IInv /\ SerialInv /\ [Next]_vars => [Paid]_vars
  BY <1>1
<1>3. Spec => [][Paid]_vars
  <2> HIDE DEF Paid
  <2> QED BY <1>2, InitIInv, NextIInv, InitSerial, NextSerial, PTL DEF Spec
<1> QED BY <1>3 DEF DesignPaidOnce

=============================================================================
