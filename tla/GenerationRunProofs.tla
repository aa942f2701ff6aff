------------------------- MODULE GenerationRunProofs -------------------------
(***************************************************************************)
(* Proofs about GenerationRun for every value of its constants.            *)
(***************************************************************************)
EXTENDS GenerationRun, FiniteSetTheorems, TLAPS

\* A confirmation in flight still has room for the version it adds.
TeacherRoom ==
  \A p \in Project :
    /\ teacher[p].pc = "brief" => brief[p] < MaxBrief
    /\ teacher[p].pc = "blueprint" => blueprint[p] < MaxBlueprint

TypeInv == TypeOK /\ TeacherRoom

\* A worker about to settle a run has a terminal status to write, and finalize_node
\* saw an active one.
Settling ==
  \A w \in Worker :
    /\ worker[w].pc = "settle" => worker[w].seen \in Active /\ worker[w].outcome \in Terminal
    /\ worker[w].pc = "exhausted" => worker[w].outcome \in Terminal

\* The initial state has the types declared for the variables.
LEMMA InitTypeInv == Init => TypeInv
<1> SUFFICES ASSUME Init PROVE TypeInv
  OBVIOUS
<1>1. NoPair \in Pair
  BY BoundAssumption, ProjectAssumption DEF NoPair, Pair
<1>2. 1 \in RunId /\ 0 \in Attempt
  BY BoundAssumption DEF RunId, Attempt
<1>3. IdleClient \in [pc : ClientPC, run : RunId, want : Pair]
  BY <1>1, <1>2 DEF IdleClient, ClientPC
<1>4. IdleTeacher \in [pc : TeacherPC, seen : SUBSET RunId]
  BY DEF IdleTeacher, TeacherPC
<1>5. IdleWorker \in [pc : WorkerPC, run : RunId, attempt : Attempt, cursor : Lesson \union {0},
                      seen : Status, used : 0..LessonCalls, outcome : Outcome]
  BY <1>2, BoundAssumption DEF IdleWorker, WorkerPC, Status, Active, Outcome
<1>6. TypeOK
  BY <1>1, <1>2, <1>3, <1>4, <1>5, BoundAssumption
     DEF Init, TypeOK, Status, Active, ArtifactStatus, Attempt
<1>7. TeacherRoom
  BY DEF Init, TeacherRoom, IdleTeacher
<1> QED BY <1>6, <1>7 DEF TypeInv

\* No step of a confirmation takes a variable out of its type.
LEMMA ConfirmTypeInv ==
  ASSUME TypeInv, NEW p \in Project, ConfirmNext(p)
  PROVE  TypeInv'
<1> USE BoundAssumption DEF TypeInv
<1>1. CASE ConfirmBriefRead(p)
  BY <1>1 DEF TypeOK, TeacherRoom, ConfirmBriefRead, TeacherPC, ActiveRuns, Created,
              versionVars, runVars, apiVars, taskVars
<1>2. CASE ConfirmBriefCommit(p)
  BY <1>2 DEF TypeOK, TeacherRoom, ConfirmBriefCommit, TeacherPC, IdleTeacher, Supersede,
              Status, Terminal, rowVars, apiVars, taskVars
<1>3. CASE ConfirmBlueprintRead(p)
  BY <1>3 DEF TypeOK, TeacherRoom, ConfirmBlueprintRead, TeacherPC, ActiveRuns, Created,
              versionVars, runVars, apiVars, taskVars
<1>4. CASE ConfirmBlueprintCommit(p)
  BY <1>4 DEF TypeOK, TeacherRoom, ConfirmBlueprintCommit, TeacherPC, IdleTeacher, Supersede,
              Status, Terminal, rowVars, apiVars, taskVars
<1> QED BY <1>1, <1>2, <1>3, <1>4 DEF ConfirmNext


\* No step of an API request takes a variable out of its type.
LEMMA ClientTypeInv ==
  ASSUME TypeInv, NEW c \in Client, ClientNext(c)
  PROVE  TypeInv'
<1> USE BoundAssumption DEF TypeInv
<1> DEFINE C == [pc : ClientPC, run : RunId, want : Pair]
<1>a. IdleClient \in C
  BY ProjectAssumption DEF IdleClient, ClientPC, NoPair, Pair, RunId
<1>b. ASSUME NEW x \in C, Request(c, x)
      PROVE  client' \in [Client -> C]
  BY <1>b DEF Request, TypeOK
<1>c. client[c] \in C
  BY DEF TypeOK
<1>1. ASSUME NEW p \in Project, StartRead(c, p) PROVE TypeInv'
  <2>1. CurrentPair(p) \in Pair
    BY <1>1 DEF StartRead, CurrentPair, Pair, TypeOK
  <2>2. [client[c] EXCEPT !.pc = "admit", !.want = CurrentPair(p)] \in C
    BY <2>1, <1>c DEF ClientPC
  <2>3. client' \in [Client -> C]
    BY <1>1, <2>2, <1>b DEF StartRead
  <2> QED BY <1>1, <2>3 DEF TypeOK, TeacherRoom, StartRead, versionVars, runVars, taskVars
<1>2. ASSUME NEW r \in RunId, ResumeRead(c, r) PROVE TypeInv'
  <2>1. [client[c] EXCEPT !.pc = "resume", !.run = r] \in C
    BY <1>c DEF ClientPC
  <2>2. client' \in [Client -> C]
    BY <1>2, <2>1, <1>b DEF ResumeRead
  <2> QED BY <1>2, <2>2 DEF TypeOK, TeacherRoom, ResumeRead, versionVars, runVars, taskVars
<1>3. CASE StartAdmit(c)
  <2>1. [client[c] EXCEPT !.pc = "insert"] \in C
    BY <1>c DEF ClientPC
  <2>2. client' \in [Client -> C]
    BY <1>3, <2>1, <1>b DEF StartAdmit
  <2> QED BY <1>3, <2>2 DEF TypeOK, TeacherRoom, StartAdmit, versionVars, runVars, taskVars
<1>4. CASE StartRefuse(c)
  BY <1>a, <1>b, <1>4 DEF TypeOK, TeacherRoom, StartRefuse, versionVars, runVars, taskVars
<1>5. CASE StartInsert(c)
  <2> DEFINE vp == client[c].want
  <2>1. nextRun \in RunId /\ nextRun + 1 \in 1..(MaxRuns + 1) /\ vp \in Pair
    <3>1. nextRun \in 1..(MaxRuns + 1) /\ nextRun <= MaxRuns
      BY <1>5 DEF StartInsert, TypeOK
    <3> QED BY <3>1, <1>c DEF RunId
  <2>2. artifact' \in [RunId -> [Lesson -> ArtifactStatus]]
    <3>1. PICK scope \in ScopeChoices(vp.project) :
             artifact' = [artifact EXCEPT ![nextRun] =
                [l \in Lesson |-> IF l \in scope THEN "pending" ELSE "none"]]
      BY <1>5 DEF StartInsert
    <3>2. [l \in Lesson |-> IF l \in scope THEN "pending" ELSE "none"] \in
             [Lesson -> ArtifactStatus]
      BY DEF ArtifactStatus
    <3> QED BY <3>1, <3>2 DEF TypeOK
  <2>3. pair' \in [RunId -> Pair] /\ status' \in [RunId -> Status]
    BY <1>5, <2>1 DEF StartInsert, TypeOK, Status, Active
  <2>4. [client[c] EXCEPT !.pc = "dispatch", !.run = nextRun] \in C
    BY <2>1, <1>c DEF ClientPC
  <2>5. client' \in [Client -> C]
    BY <1>5, <2>4, <1>b DEF StartInsert
  <2> QED BY <1>5, <2>1, <2>2, <2>3, <2>5
          DEF StartInsert, TypeOK, TeacherRoom, versionVars, taskVars
<1>6. CASE StartDuplicate(c)
  BY <1>a, <1>b, <1>6 DEF TypeOK, TeacherRoom, StartDuplicate, versionVars, runVars, taskVars
<1>7. CASE Dispatch(c)
  <2>1. <<client[c].run, 0>> \in RunId \X Attempt
    BY <1>c DEF Attempt
  <2>2. queue' \in [RunId \X Attempt -> Nat]
    BY <1>7, <2>1 DEF Dispatch, TypeOK
  <2> QED BY <1>a, <1>b, <1>7, <2>2 DEF TypeOK, TeacherRoom, Dispatch, versionVars, runVars
<1>8. CASE DispatchLost(c)
  BY <1>a, <1>b, <1>8 DEF TypeOK, TeacherRoom, DispatchLost, versionVars, runVars, taskVars
<1>9. CASE ResumeCommit(c)
  <2>1. [client[c] EXCEPT !.pc = "dispatch"] \in C
    BY <1>c DEF ClientPC
  <2>2. client' \in [Client -> C]
    BY <1>9, <2>1, <1>b DEF ResumeCommit
  <2> QED BY <1>9, <2>2 DEF TypeOK, TeacherRoom, ResumeCommit, SetStatus, Status, Active,
                            versionVars, rowVars, taskVars
<1> QED BY <1>1, <1>2, <1>3, <1>4, <1>5, <1>6, <1>7, <1>8, <1>9 DEF ClientNext, RequestStep

\* No step of a worker takes a variable out of its type.
LEMMA WorkerTypeInv ==
  ASSUME TypeInv, Settling, NEW w \in Worker, WorkStep(w) \/ WorkerCrash(w)
  PROVE  TypeInv'
<1> USE BoundAssumption DEF TypeInv
<1> DEFINE W == [pc : WorkerPC, run : RunId, attempt : Attempt, cursor : Lesson \union {0},
                 seen : Status, used : 0..LessonCalls, outcome : Outcome]
<1>a. IdleWorker \in W
  BY DEF IdleWorker, WorkerPC, Status, Active, Outcome, RunId, Attempt
<1>b. ASSUME NEW x \in W, Becomes(w, x)
      PROVE  worker' \in [Worker -> W]
  BY <1>b DEF Becomes, TypeOK
<1>c. worker[w] \in W /\ worker[w].run \in RunId /\ status[worker[w].run] \in Status
  BY DEF TypeOK
<1>d. ASSUME NEW pc \in WorkerPC, Goto(w, pc)
      PROVE  worker' \in [Worker -> W]
  BY <1>b, <1>c, <1>d DEF Goto
<1>e. ASSUME NEW pc \in WorkerPC, NEW s \in Status, NEW o \in Outcome
      PROVE  /\ [worker[w] EXCEPT !.pc = pc, !.seen = s] \in W
             /\ [worker[w] EXCEPT !.pc = pc, !.outcome = o] \in W
             /\ [worker[w] EXCEPT !.pc = pc, !.seen = s, !.outcome = o] \in W
  BY <1>c
<1>f. ASSUME NEW s \in Status, WorkerWrites(w, s)
      PROVE  status' \in [RunId -> Status] /\ released' \subseteq RunId
  <2>1. CASE worker[w].seen = s
    BY <1>f, <2>1 DEF WorkerWrites, TypeOK
  <2>2. CASE worker[w].seen # s
    <3>1. status' = [status EXCEPT ![worker[w].run] = s]
      BY <1>f, <2>2 DEF WorkerWrites, SetStatus
    <3>2. released' = released \/ released' = released \union {worker[w].run}
      BY <1>f, <2>2 DEF WorkerWrites, SetStatus
    <3> QED BY <1>c, <3>1, <3>2 DEF TypeOK
  <2> QED BY <2>1, <2>2
<1>g. ASSUME NEW s \in ArtifactStatus, SetArtifact(w, s)
      PROVE  artifact' \in [RunId -> [Lesson -> ArtifactStatus]]
  BY <1>c, <1>g DEF SetArtifact, TypeOK
<1>h. ASSUME worker' \in [Worker -> W],
             UNCHANGED <<outside, nextRun, pair>>,
             status' \in [RunId -> Status], released' \subseteq RunId,
             calls' \in [RunId -> Nat], lateCalls' \in [RunId -> Nat],
             artifact' \in [RunId -> [Lesson -> ArtifactStatus]],
             queue' \in [RunId \X Attempt -> Nat]
      PROVE  TypeInv'
  BY <1>h DEF TypeOK, TeacherRoom, outside
<1>i. ASSUME worker' \in [Worker -> W], UNCHANGED <<outside, runVars, queue>>
      PROVE  TypeInv'
  BY <1>i DEF TypeOK, TeacherRoom, outside, runVars
<1>j. ASSUME NEW s \in Status, WorkerWrites(w, s), worker' \in [Worker -> W],
             UNCHANGED <<outside, rowVars, queue>>
      PROVE  TypeInv'
  BY <1>f, <1>j DEF TypeOK, TeacherRoom, outside, rowVars
<1>1. ASSUME NEW r \in RunId, NEW a \in Attempt, Take(w, r, a) PROVE TypeInv'
  <2>1. queue' \in [RunId \X Attempt -> Nat]
    <3>1. <<r, a>> \in RunId \X Attempt
      OBVIOUS
    <3> QED BY <1>1, <3>1 DEF Take, TypeOK
  <2>2. [worker[w] EXCEPT !.pc = "assemble", !.run = r, !.attempt = a] \in W
    BY <1>c DEF WorkerPC
  <2>3. worker' \in [Worker -> W]
    BY <1>1, <2>2, <1>b DEF Take
  <2> QED BY <1>1, <2>1, <2>3 DEF Take, TypeOK, TeacherRoom, outside, runVars
<1>2. CASE AssembleRead(w)
  <2>1. {"enter", "finalize"} \subseteq WorkerPC /\ "already_finished" \in Outcome
    BY DEF WorkerPC, Outcome
  <2>2. /\ [worker[w] EXCEPT !.pc = "enter", !.seen = status[worker[w].run]] \in W
        /\ [worker[w] EXCEPT !.pc = "finalize", !.outcome = "already_finished"] \in W
    BY <2>1, <1>c, <1>e
  <2>3. worker' \in [Worker -> W]
    BY <1>2, <2>2, <1>b DEF AssembleRead
  <2> QED BY <1>2, <2>3, <1>i DEF AssembleRead
<1>3. CASE AssembleWrite(w)
  <2>1. "generating" \in Status /\ "load" \in WorkerPC
    BY DEF Status, Active, WorkerPC
  <2> QED BY <1>3, <2>1, <1>d, <1>j DEF AssembleWrite
<1>4. CASE LoadRun(w)
  <2>1. {"check", "finalize"} \subseteq WorkerPC /\ "stopped" \in Outcome
    BY DEF WorkerPC, Outcome
  <2>2. /\ [worker[w] EXCEPT !.pc = "check", !.seen = status[worker[w].run]] \in W
        /\ [worker[w] EXCEPT !.pc = "finalize", !.outcome = "stopped"] \in W
    BY <2>1, <1>c, <1>e
  <2>3. worker' \in [Worker -> W]
    BY <1>4, <2>2, <1>b DEF LoadRun
  <2> QED BY <1>4, <2>3, <1>i DEF LoadRun
<1>5. CASE Checkpoint(w)
  <2>1. {"supersede", "validate", "load", "lesson"} \subseteq WorkerPC
    BY DEF WorkerPC
  <2>2. ASSUME NEW l \in Remaining(w), NEW pc \in WorkerPC
        PROVE  [worker[w] EXCEPT !.cursor = l, !.pc = pc] \in W
    BY <1>c DEF Remaining, Scope
  <2>3. ASSUME NEW l \in Remaining(w),
               Becomes(w, [worker[w] EXCEPT !.cursor = l, !.pc =
                             IF l \in Completed(worker[w].run) THEN "load" ELSE "lesson"])
        PROVE  worker' \in [Worker -> W]
    BY <2>1, <2>2, <2>3, <1>b
  <2>4. worker' \in [Worker -> W]
    BY <1>5, <2>1, <2>3, <1>d DEF Checkpoint
  <2> QED BY <1>5, <2>4, <1>i DEF Checkpoint
<1>6. CASE SupersedeWrite(w)
  <2>1. "superseded" \in Status /\ "finalize" \in WorkerPC /\ "superseded" \in Outcome
    BY DEF Status, Terminal, WorkerPC, Outcome
  <2>2. [worker[w] EXCEPT !.pc = "finalize", !.outcome = "superseded"] \in W
    BY <2>1, <1>c
  <2>3. worker' \in [Worker -> W]
    BY <1>6, <2>2, <1>b DEF SupersedeWrite
  <2> QED BY <1>6, <2>1, <2>3, <1>j DEF SupersedeWrite
<1>7. CASE ValidateWrite(w)
  <2>1. "validating" \in Status /\ "finalize" \in WorkerPC /\ "done" \in Outcome
    BY DEF Status, Active, WorkerPC, Outcome
  <2>2. [worker[w] EXCEPT !.pc = "finalize", !.outcome = "done"] \in W
    BY <2>1, <1>c
  <2>3. worker' \in [Worker -> W]
    BY <1>7, <2>2, <1>b DEF ValidateWrite
  <2> QED BY <1>7, <2>1, <2>3, <1>j DEF ValidateWrite
<1>8. CASE LessonCall(w)
  <2>1. [worker[w] EXCEPT !.used = worker[w].used + 1] \in W
    BY <1>8, <1>c DEF LessonCall
  <2>2. worker' \in [Worker -> W]
    BY <1>8, <2>1, <1>b DEF LessonCall
  <2>3. artifact' \in [RunId -> [Lesson -> ArtifactStatus]]
    BY <1>8, <1>g DEF LessonCall, ArtifactStatus
  <2>4. calls' \in [RunId -> Nat] /\ lateCalls' \in [RunId -> Nat]
    BY <1>8, <1>c DEF LessonCall, TypeOK
  <2> QED BY <1>8, <2>2, <2>3, <2>4 DEF LessonCall, TypeOK, TeacherRoom, outside
<1>9. CASE LessonCapped(w)
  <2>1. "finalize" \in WorkerPC /\ "capped" \in Outcome
    BY DEF WorkerPC, Outcome
  <2>2. [worker[w] EXCEPT !.pc = "finalize", !.outcome = "capped"] \in W
    BY <2>1, <1>c
  <2>3. worker' \in [Worker -> W]
    BY <1>9, <2>2, <1>b DEF LessonCapped
  <2> QED BY <1>9, <2>1, <2>3, <1>i DEF LessonCapped
<1>10. ASSUME NEW s \in ArtifactStatus, NEW pc \in WorkerPC, LessonEnds(w, s, pc)
       PROVE  TypeInv'
  <2>1. [worker[w] EXCEPT !.pc = pc, !.used = 0] \in W
    <3>1. 0 \in 0..LessonCalls
      OBVIOUS
    <3> QED BY <3>1, <1>c
  <2>2. worker' \in [Worker -> W]
    BY <1>10, <2>1, <1>b DEF LessonEnds
  <2>3. artifact' \in [RunId -> [Lesson -> ArtifactStatus]]
    BY <1>10, <1>g DEF LessonEnds
  <2> QED BY <1>10, <2>2, <2>3 DEF LessonEnds, TypeOK, TeacherRoom, outside
<1>11. CASE LessonComplete(w) \/ LessonFail(w) \/ LessonProviderError(w)
  <2>1. {"load", "retry"} \subseteq WorkerPC /\ {"complete", "failed"} \subseteq ArtifactStatus
    BY DEF WorkerPC, ArtifactStatus
  <2> QED BY <1>11, <2>1, <1>10 DEF LessonComplete, LessonFail, LessonProviderError
<1>12. CASE LessonError(w)
  <2>1. "retry" \in WorkerPC
    BY DEF WorkerPC
  <2> QED BY <1>12, <2>1, <1>d, <1>i DEF LessonError
<1>13. CASE FinalizeRead(w)
  <2> DEFINE r == worker[w].run
             verdict ==
               IF worker[w].outcome = "superseded" THEN "superseded"
               ELSE IF worker[w].outcome = "capped" THEN "capped_failure"
               ELSE IF Completed(r) = Scope(r) THEN "complete"
               ELSE IF Completed(r) # {} THEN "partial_failure"
               ELSE "terminal_failure"
  <2>1. verdict \in Outcome /\ "settle" \in WorkerPC
    BY DEF Outcome, Terminal, Resumable, WorkerPC
  <2>2. [worker[w] EXCEPT !.pc = "settle", !.seen = status[r], !.outcome = verdict] \in W
    BY <2>1, <1>c, <1>e
  <2>3. worker' \in [Worker -> W]
    BY <1>13, <2>2, <1>a, <1>b DEF FinalizeRead, Finish
  <2> QED BY <1>13, <2>3, <1>i DEF FinalizeRead
<1>14. CASE FinalizeWrite(w)
  <2>1. worker[w].outcome \in Status
    BY <1>14 DEF FinalizeWrite, Settling, Status
  <2>2. worker' \in [Worker -> W]
    BY <1>14, <1>a, <1>b DEF FinalizeWrite, Finish
  <2> QED BY <1>14, <2>1, <2>2, <1>j DEF FinalizeWrite
<1>15. CASE Retry(w)
  <2> DEFINE r == worker[w].run
             a == worker[w].attempt
  <2>1. worker' \in [Worker -> W]
    <3>1. "exhaust" \in WorkerPC
      BY DEF WorkerPC
    <3> QED BY <1>15, <3>1, <1>a, <1>b, <1>d DEF Retry, Finish
  <2>2. queue' \in [RunId \X Attempt -> Nat]
    <3>1. CASE a < MaxRetries
      <4>1. <<r, a + 1>> \in RunId \X Attempt
        BY <3>1, <1>c DEF Attempt
      <4>2. queue' = [queue EXCEPT ![<<r, a + 1>>] = queue[<<r, a + 1>>] + 1]
        BY <1>15, <3>1 DEF Retry
      <4> QED BY <4>1, <4>2 DEF TypeOK
    <3>2. CASE ~(a < MaxRetries)
      BY <1>15, <3>2 DEF Retry, TypeOK
    <3> QED BY <3>1, <3>2
  <2> QED BY <1>15, <2>1, <2>2 DEF Retry, TypeOK, TeacherRoom, outside, runVars
<1>16. CASE ExhaustRead(w)
  <2>1. {"partial_failure", "terminal_failure"} \subseteq Outcome /\ "exhausted" \in WorkerPC
    BY DEF Outcome, Terminal, Resumable, WorkerPC
  <2>2. [worker[w] EXCEPT !.pc = "exhausted", !.seen = status[worker[w].run], !.outcome =
           IF Completed(worker[w].run) # {} THEN "partial_failure" ELSE "terminal_failure"] \in W
    BY <2>1, <1>c, <1>e
  <2>3. worker' \in [Worker -> W]
    BY <1>16, <2>2, <1>b DEF ExhaustRead
  <2> QED BY <1>16, <2>3, <1>i DEF ExhaustRead
<1>17. CASE ExhaustWrite(w)
  <2>1. worker[w].outcome \in Status
    BY <1>17 DEF ExhaustWrite, Settling, Status
  <2>2. worker' \in [Worker -> W]
    BY <1>17, <1>a, <1>b DEF ExhaustWrite, Finish
  <2> QED BY <1>17, <2>1, <2>2, <1>j DEF ExhaustWrite
<1>18. CASE WorkerCrash(w)
  <2>1. worker' \in [Worker -> W]
    BY <1>18, <1>a, <1>b DEF WorkerCrash, Finish
  <2> QED BY <1>18, <2>1 DEF WorkerCrash, TypeOK, TeacherRoom, versionVars, runVars, apiVars
<1> QED BY <1>1, <1>2, <1>3, <1>4, <1>5, <1>6, <1>7, <1>8, <1>9, <1>11, <1>12, <1>13, <1>14,
           <1>15, <1>16, <1>17, <1>18 DEF WorkStep

\* Only finalize_node and mark_provider_exhausted prepare a status to settle with.
LEMMA SettlingStep ==
  ASSUME TypeInv, Settling, [Next]_vars
  PROVE  Settling'
<1> USE DEF TypeInv
<1> DEFINE Ready(x) ==
      /\ x.pc = "settle" => x.seen \in Active /\ x.outcome \in Terminal
      /\ x.pc = "exhausted" => x.outcome \in Terminal
<1>1. ASSUME worker' = worker PROVE Settling'
  BY <1>1 DEF Settling
<1>2. ASSUME NEW w \in Worker, NEW x, Becomes(w, x), Ready(x) PROVE Settling'
  BY <1>2 DEF Becomes, Settling, TypeOK
<1>3. CASE UNCHANGED vars
  BY <1>1, <1>3 DEF vars
<1>4. ASSUME NEW p \in Project, ConfirmNext(p) PROVE Settling'
  BY <1>1, <1>4 DEF ConfirmNext, ConfirmBriefRead, ConfirmBriefCommit, ConfirmBlueprintRead,
                    ConfirmBlueprintCommit, taskVars
<1>5. ASSUME NEW c \in Client, ClientNext(c) PROVE Settling'
  BY <1>1, <1>5 DEF ClientNext, RequestStep, StartRead, StartAdmit, StartRefuse, StartInsert,
                    StartDuplicate, Dispatch, DispatchLost, ResumeRead, ResumeCommit, taskVars
<1>6. ASSUME NEW w \in Worker, WorkStep(w) \/ WorkerCrash(w) PROVE Settling'
  <2> DEFINE W == [pc : WorkerPC, run : RunId, attempt : Attempt, cursor : Lesson \union {0},
                   seen : Status, used : 0..LessonCalls, outcome : Outcome]
  <2>a. worker[w] \in W
    BY DEF TypeOK
  <2>b. Ready(IdleWorker)
    BY DEF IdleWorker
  <2>c. ASSUME NEW pc, pc \notin {"settle", "exhausted"}, Goto(w, pc) PROVE Settling'
    <3>1. Ready([worker[w] EXCEPT !.pc = pc])
      BY <2>a, <2>c
    <3> QED BY <3>1, <2>c, <1>2 DEF Goto
  <2>d. ASSUME NEW x, x.pc \notin {"settle", "exhausted"}, Becomes(w, x) PROVE Settling'
    BY <2>d, <1>2
  <2>e. ASSUME Finish(w) PROVE Settling'
    BY <2>b, <2>e, <1>2 DEF Finish
  <2>1. ASSUME NEW r \in RunId, NEW a \in Attempt, Take(w, r, a) PROVE Settling'
    BY <2>1, <2>a, <2>d DEF Take
  <2>2. CASE AssembleRead(w)
    BY <2>2, <2>a, <2>d DEF AssembleRead
  <2>3. CASE AssembleWrite(w)
    BY <2>3, <2>c DEF AssembleWrite
  <2>4. CASE LoadRun(w)
    BY <2>4, <2>a, <2>d DEF LoadRun
  <2>5. CASE Checkpoint(w)
    <3>1. ASSUME NEW l \in Remaining(w),
                 Becomes(w, [worker[w] EXCEPT !.cursor = l, !.pc =
                               IF l \in Completed(worker[w].run) THEN "load" ELSE "lesson"])
          PROVE  Settling'
      BY <3>1, <2>a, <2>d
    <3> QED BY <2>5, <3>1, <2>c DEF Checkpoint
  <2>6. CASE SupersedeWrite(w)
    BY <2>6, <2>a, <2>d DEF SupersedeWrite
  <2>7. CASE ValidateWrite(w)
    BY <2>7, <2>a, <2>d DEF ValidateWrite
  <2>8. CASE LessonCall(w)
    BY <2>8, <2>a, <2>d DEF LessonCall
  <2>9. CASE LessonCapped(w)
    BY <2>9, <2>a, <2>d DEF LessonCapped
  <2>10. CASE LessonComplete(w) \/ LessonFail(w) \/ LessonProviderError(w)
    BY <2>10, <2>a, <2>d DEF LessonComplete, LessonFail, LessonProviderError, LessonEnds
  <2>11. CASE LessonError(w)
    BY <2>11, <2>c DEF LessonError
  <2>12. CASE FinalizeRead(w)
    <3> DEFINE r == worker[w].run
               verdict ==
                 IF worker[w].outcome = "superseded" THEN "superseded"
                 ELSE IF worker[w].outcome = "capped" THEN "capped_failure"
                 ELSE IF Completed(r) = Scope(r) THEN "complete"
                 ELSE IF Completed(r) # {} THEN "partial_failure"
                 ELSE "terminal_failure"
    <3>1. CASE status[r] \in Terminal
      BY <2>12, <3>1, <2>e DEF FinalizeRead
    <3>2. CASE status[r] \notin Terminal
      <4>1. status[r] \in Active /\ verdict \in Terminal
        BY <3>2, <2>a DEF TypeOK, Status, Terminal, Resumable
      <4>2. Ready([worker[w] EXCEPT !.pc = "settle", !.seen = status[r], !.outcome = verdict])
        BY <4>1, <2>a
      <4> HIDE DEF verdict, Ready
      <4>3. Becomes(w, [worker[w] EXCEPT !.pc = "settle", !.seen = status[r],
                                         !.outcome = verdict])
        BY <2>12, <3>2 DEF FinalizeRead, verdict
      <4> QED BY <4>2, <4>3, <1>2
    <3> QED BY <3>1, <3>2
  <2>13. CASE FinalizeWrite(w) \/ ExhaustWrite(w) \/ WorkerCrash(w)
    BY <2>13, <2>e DEF FinalizeWrite, ExhaustWrite, WorkerCrash
  <2>14. CASE Retry(w)
    BY <2>14, <2>c, <2>e DEF Retry
  <2>15. CASE ExhaustRead(w)
    <3>1. Ready([worker[w] EXCEPT !.pc = "exhausted", !.seen = status[worker[w].run],
              !.outcome = IF Completed(worker[w].run) # {} THEN "partial_failure"
                                                           ELSE "terminal_failure"])
      BY <2>a DEF Terminal, Resumable
    <3> HIDE DEF Ready
    <3> QED BY <2>15, <3>1, <1>2 DEF ExhaustRead
  <2> QED BY <1>6, <2>1, <2>2, <2>3, <2>4, <2>5, <2>6, <2>7, <2>8, <2>9, <2>10, <2>11, <2>12,
             <2>13, <2>14, <2>15 DEF WorkStep
<1> QED BY <1>3, <1>4, <1>5, <1>6 DEF Next

\* Every step preserves the types.
LEMMA TypeInvStep ==
  ASSUME TypeInv, Settling, [Next]_vars
  PROVE  TypeInv'
<1>1. CASE UNCHANGED vars
  BY <1>1 DEF vars, TypeInv, TypeOK, TeacherRoom
<1>2. CASE Next
  BY <1>2, ConfirmTypeInv, ClientTypeInv, WorkerTypeInv DEF Next
<1> QED BY <1>1, <1>2

\* What every later proof starts from.
LEMMA Reachable == Spec => [](TypeInv /\ Settling)
<1>1. Init => TypeInv /\ Settling
  BY InitTypeInv DEF Init, Settling, IdleWorker
<1>2. TypeInv /\ Settling /\ [Next]_vars => (TypeInv /\ Settling)'
  BY TypeInvStep, SettlingStep
<1> QED BY <1>1, <1>2, PTL DEF Spec

\* The variables keep their types in every behaviour.
THEOREM TypeCorrect == Spec => []TypeOK
<1>1. TypeInv => TypeOK
  BY DEF TypeInv
<1> QED BY <1>1, Reachable, PTL

\* Only a reserved model call changes the counter of a run (reserve_model_call).
LEMMA CallsChange ==
  ASSUME [Next]_vars
  PROVE  calls' = calls \/ \E w \in Worker : LessonCall(w)
<1>1. CASE UNCHANGED vars
  BY <1>1 DEF vars
<1>2. ASSUME NEW p \in Project, ConfirmNext(p) PROVE calls' = calls
  BY <1>2 DEF ConfirmNext, ConfirmBriefRead, ConfirmBriefCommit, ConfirmBlueprintRead,
              ConfirmBlueprintCommit, runVars, rowVars
<1>3. ASSUME NEW c \in Client, ClientNext(c) PROVE calls' = calls
  BY <1>3 DEF ClientNext, RequestStep, StartRead, StartAdmit, StartRefuse, StartInsert,
              StartDuplicate, Dispatch, DispatchLost, ResumeRead, ResumeCommit, runVars, rowVars
<1>4. ASSUME NEW w \in Worker, WorkStep(w) \/ WorkerCrash(w), ~LessonCall(w)
      PROVE  calls' = calls
  BY <1>4 DEF WorkStep, Take, AssembleRead, AssembleWrite, LoadRun, Checkpoint, SupersedeWrite,
              ValidateWrite, LessonCapped, LessonComplete, LessonFail, LessonProviderError,
              LessonEnds, LessonError, FinalizeRead, FinalizeWrite, Retry, ExhaustRead,
              ExhaustWrite, WorkerCrash, runVars, rowVars
<1> QED BY <1>1, <1>2, <1>3, <1>4 DEF Next

\* What a run has spent it keeps: no step gives calls back or exceeds the cap.
LEMMA CallsGrow ==
  ASSUME TypeInv, \A r \in RunId : calls[r] <= Cap, [Next]_vars
  PROVE  \A r \in RunId : calls'[r] <= Cap /\ (calls[r] = Cap => calls'[r] = Cap)
<1>1. CASE calls' = calls
  BY <1>1
<1>2. ASSUME NEW w \in Worker, LessonCall(w)
      PROVE  \A r \in RunId : calls'[r] <= Cap /\ (calls[r] = Cap => calls'[r] = Cap)
  BY <1>2, BoundAssumption DEF LessonCall, TypeInv, TypeOK
<1> QED BY <1>1, <1>2, CallsChange

\* A worker that will write "capped_failure" has found the budget of its run spent.
Spent(x) ==
  /\ x.pc = "finalize" /\ x.outcome = "capped" => calls[x.run] = Cap
  /\ x.pc = "settle" /\ x.outcome = "capped_failure" => calls[x.run] = Cap
  /\ x.pc = "exhausted" => x.outcome # "capped_failure"

BudgetInv ==
  /\ \A r \in RunId : calls[r] <= Cap
  /\ CappedIsSpent
  /\ \A w \in Worker : Spent(worker[w])

\* Until the budget is spent, no worker prepares to settle its run as capped.
LEMMA SpentStep ==
  ASSUME TypeInv, BudgetInv, [Next]_vars
  PROVE  \A w \in Worker : Spent(worker[w])'
<1> USE DEF TypeInv
<1> DEFINE Goal == \A w \in Worker : Spent(worker[w])'
           W == [pc : WorkerPC, run : RunId, attempt : Attempt, cursor : Lesson \union {0},
                 seen : Status, used : 0..LessonCalls, outcome : Outcome]
           Keeps(x) ==
             /\ x.pc = "finalize" /\ x.outcome = "capped" => calls'[x.run] = Cap
             /\ x.pc = "settle" /\ x.outcome = "capped_failure" => calls'[x.run] = Cap
             /\ x.pc = "exhausted" => x.outcome # "capped_failure"
<1>a. \A w \in Worker : worker[w] \in W
  BY DEF TypeOK
<1>b. \A w \in Worker : Keeps(worker[w])
  BY <1>a, CallsGrow DEF BudgetInv, Spent
<1>1. ASSUME worker' = worker PROVE Goal
  BY <1>1, <1>b DEF Spent
<1>2. ASSUME NEW w \in Worker, NEW x, Becomes(w, x), Keeps(x) PROVE Goal
  <2>1. ASSUME NEW v \in Worker PROVE Keeps(worker'[v])
    BY <2>1, <1>2, <1>b DEF Becomes, TypeOK
  <2> QED BY <2>1 DEF Spent
<1>3. CASE UNCHANGED vars
  BY <1>1, <1>3 DEF vars
<1>4. ASSUME NEW p \in Project, ConfirmNext(p) PROVE Goal
  BY <1>1, <1>4 DEF ConfirmNext, ConfirmBriefRead, ConfirmBriefCommit, ConfirmBlueprintRead,
                    ConfirmBlueprintCommit, taskVars
<1>5. ASSUME NEW c \in Client, ClientNext(c) PROVE Goal
  BY <1>1, <1>5 DEF ClientNext, RequestStep, StartRead, StartAdmit, StartRefuse, StartInsert,
                    StartDuplicate, Dispatch, DispatchLost, ResumeRead, ResumeCommit, taskVars
<1>6. ASSUME NEW w \in Worker, WorkStep(w) \/ WorkerCrash(w) PROVE Goal
  <2>a. worker[w] \in W
    BY <1>a
  <2>b. Keeps(IdleWorker)
    BY DEF IdleWorker
  <2>c. ASSUME NEW x, x.pc \notin {"finalize", "settle", "exhausted"}, Becomes(w, x) PROVE Goal
    BY <2>c, <1>2
  <2>d. ASSUME NEW x, x.pc = "finalize", x.outcome # "capped", Becomes(w, x) PROVE Goal
    BY <2>d, <1>2
  <2>e. ASSUME Finish(w) PROVE Goal
    BY <2>b, <2>e, <1>2 DEF Finish
  <2>f. ASSUME NEW pc, pc \notin {"finalize", "settle", "exhausted"}, Goto(w, pc) PROVE Goal
    <3>1. [worker[w] EXCEPT !.pc = pc].pc = pc
      BY <2>a
    <3> QED BY <3>1, <2>c, <2>f DEF Goto
  <2>1. ASSUME NEW r \in RunId, NEW a \in Attempt, Take(w, r, a) PROVE Goal
    BY <2>1, <2>a, <2>c DEF Take
  <2>2. CASE AssembleRead(w)
    BY <2>2, <2>a, <2>c, <2>d DEF AssembleRead
  <2>3. CASE AssembleWrite(w)
    BY <2>3, <2>f DEF AssembleWrite
  <2>4. CASE LoadRun(w)
    BY <2>4, <2>a, <2>c, <2>d DEF LoadRun
  <2>5. CASE Checkpoint(w)
    <3>1. ASSUME NEW l \in Remaining(w),
                 Becomes(w, [worker[w] EXCEPT !.cursor = l, !.pc =
                               IF l \in Completed(worker[w].run) THEN "load" ELSE "lesson"])
          PROVE  Goal
      BY <3>1, <2>a, <2>c
    <3> QED BY <2>5, <3>1, <2>f DEF Checkpoint
  <2>6. CASE SupersedeWrite(w)
    BY <2>6, <2>a, <2>d DEF SupersedeWrite
  <2>7. CASE ValidateWrite(w)
    BY <2>7, <2>a, <2>d DEF ValidateWrite
  <2>8. CASE LessonCall(w)
    BY <2>8, <2>a, <2>c DEF LessonCall
  <2>9. CASE LessonCapped(w)
    <3>1. calls[worker[w].run] = Cap /\ calls' = calls
      <4>1. worker[w].run \in RunId
        BY <2>a
      <4>2. calls[worker[w].run] <= Cap /\ calls[worker[w].run] \in Nat
        BY <4>1 DEF BudgetInv, TypeOK
      <4>3. calls[worker[w].run] >= Cap /\ calls' = calls
        BY <2>9 DEF LessonCapped, runVars
      <4> QED BY <4>2, <4>3, BoundAssumption
    <3>2. Keeps([worker[w] EXCEPT !.pc = "finalize", !.outcome = "capped"])
      BY <3>1, <2>a
    <3> HIDE DEF Keeps
    <3> QED BY <2>9, <3>2, <1>2 DEF LessonCapped
  <2>10. CASE LessonComplete(w) \/ LessonFail(w) \/ LessonProviderError(w)
    BY <2>10, <2>a, <2>c DEF LessonComplete, LessonFail, LessonProviderError, LessonEnds
  <2>11. CASE LessonError(w)
    BY <2>11, <2>f DEF LessonError
  <2>12. CASE FinalizeRead(w)
    <3> DEFINE r == worker[w].run
               verdict ==
                 IF worker[w].outcome = "superseded" THEN "superseded"
                 ELSE IF worker[w].outcome = "capped" THEN "capped_failure"
                 ELSE IF Completed(r) = Scope(r) THEN "complete"
                 ELSE IF Completed(r) # {} THEN "partial_failure"
                 ELSE "terminal_failure"
               x == [worker[w] EXCEPT !.pc = "settle", !.seen = status[r], !.outcome = verdict]
    <3>1. CASE status[r] \in Terminal
      BY <2>12, <3>1, <2>e DEF FinalizeRead
    <3>2. CASE status[r] \notin Terminal
      <4>1. verdict = "capped_failure" => worker[w].outcome = "capped"
        OBVIOUS
      <4>2. worker[w].pc = "finalize"
        BY <2>12 DEF FinalizeRead
      <4>3. verdict = "capped_failure" => calls'[r] = Cap
        BY <4>1, <4>2, <1>b
      <4>4. x.pc = "settle" /\ x.outcome = verdict /\ x.run = r
        BY <2>a
      <4>5. Becomes(w, x)
        BY <2>12, <3>2 DEF FinalizeRead
      <4> HIDE DEF verdict, x
      <4>6. Keeps(x)
        BY <4>3, <4>4
      <4> QED BY <4>5, <4>6, <1>2
    <3> QED BY <3>1, <3>2
  <2>13. CASE FinalizeWrite(w) \/ ExhaustWrite(w) \/ WorkerCrash(w)
    BY <2>13, <2>e DEF FinalizeWrite, ExhaustWrite, WorkerCrash
  <2>14. CASE Retry(w)
    BY <2>14, <2>f, <2>e DEF Retry
  <2>15. CASE ExhaustRead(w)
    <3>1. Keeps([worker[w] EXCEPT !.pc = "exhausted", !.seen = status[worker[w].run],
              !.outcome = IF Completed(worker[w].run) # {} THEN "partial_failure"
                                                           ELSE "terminal_failure"])
      BY <2>a
    <3> HIDE DEF Keeps
    <3> QED BY <2>15, <3>1, <1>2 DEF ExhaustRead
  <2> QED BY <1>6, <2>1, <2>2, <2>3, <2>4, <2>5, <2>6, <2>7, <2>8, <2>9, <2>10, <2>11, <2>12,
             <2>13, <2>14, <2>15 DEF WorkStep
<1> QED BY <1>3, <1>4, <1>5, <1>6 DEF Next

\* Only a worker that found the budget spent writes "capped_failure".
LEMMA CappedWrite ==
  ASSUME TypeInv, BudgetInv, [Next]_vars, NEW r \in RunId,
         status'[r] = "capped_failure", status[r] # "capped_failure"
  PROVE  calls[r] = Cap
<1> USE DEF TypeInv
<1>1. status' # status
  OBVIOUS
<1>2. ASSUME NEW q, NEW s, SetStatus(q, s) PROVE q = r /\ s = "capped_failure"
  BY <1>2 DEF SetStatus, TypeOK
<1>3. CASE UNCHANGED vars
  BY <1>1, <1>3 DEF vars
<1>4. ASSUME NEW p \in Project, ConfirmNext(p) PROVE FALSE
  <2>1. ASSUME NEW seen, Supersede(seen) PROVE FALSE
    BY <2>1 DEF Supersede
  <2> QED BY <1>1, <1>4, <2>1 DEF ConfirmNext, ConfirmBriefRead, ConfirmBriefCommit,
             ConfirmBlueprintRead, ConfirmBlueprintCommit, runVars
<1>5. ASSUME NEW c \in Client, ClientNext(c) PROVE FALSE
  <2>1. CASE StartInsert(c)
    BY <2>1 DEF StartInsert, TypeOK
  <2>2. CASE ResumeCommit(c)
    BY <2>2, <1>2 DEF ResumeCommit
  <2> QED BY <1>1, <1>5, <2>1, <2>2 DEF ClientNext, RequestStep, StartRead, StartAdmit,
             StartRefuse, StartDuplicate, Dispatch, DispatchLost, ResumeRead, runVars
<1>6. ASSUME NEW w \in Worker, WorkStep(w) \/ WorkerCrash(w) PROVE calls[r] = Cap
  <2>1. ASSUME NEW s, WorkerWrites(w, s) PROVE s = "capped_failure" /\ worker[w].run = r
    BY <2>1, <1>1, <1>2 DEF WorkerWrites
  <2>2. CASE FinalizeWrite(w)
    BY <2>2, <2>1 DEF FinalizeWrite, BudgetInv, Spent
  <2>3. CASE ExhaustWrite(w)
    BY <2>3, <2>1 DEF ExhaustWrite, BudgetInv, Spent
  <2>4. CASE AssembleWrite(w) \/ SupersedeWrite(w) \/ ValidateWrite(w)
    BY <2>4, <2>1 DEF AssembleWrite, SupersedeWrite, ValidateWrite
  <2> QED BY <1>1, <1>6, <2>2, <2>3, <2>4 DEF WorkStep, Take, AssembleRead, LoadRun, Checkpoint,
             LessonCall, LessonCapped, LessonComplete, LessonFail, LessonProviderError,
             LessonEnds, LessonError, FinalizeRead, Retry, ExhaustRead, WorkerCrash, runVars
<1> QED BY <1>3, <1>4, <1>5, <1>6 DEF Next

\* However many tasks, retries and resumes share a run's budget, a run is shown as
\* capped only when all of it is spent.
THEOREM CappedRunsHaveSpent == Spec => []CappedIsSpent
<1>1. Init => BudgetInv
  BY BoundAssumption DEF Init, BudgetInv, CappedIsSpent, Spent, IdleWorker
<1>2. TypeInv /\ BudgetInv /\ [Next]_vars => BudgetInv'
  <2> SUFFICES ASSUME TypeInv, BudgetInv, [Next]_vars PROVE BudgetInv'
    OBVIOUS
  <2>1. \A r \in RunId : calls'[r] <= Cap /\ (calls[r] = Cap => calls'[r] = Cap)
    BY CallsGrow DEF BudgetInv
  <2>2. CappedIsSpent'
    BY <2>1, CappedWrite DEF BudgetInv, CappedIsSpent
  <2>3. \A w \in Worker : Spent(worker[w])'
    BY SpentStep
  <2> QED BY <2>1, <2>2, <2>3 DEF BudgetInv
<1>3. BudgetInv => CappedIsSpent
  BY DEF BudgetInv
<1> QED BY <1>1, <1>2, <1>3, Reachable, PTL DEF Spec

\* Only the insert of a start creates a run.
LEMMA RunsChange ==
  ASSUME [Next]_vars
  PROVE  UNCHANGED <<nextRun, pair>> \/ \E c \in Client : StartInsert(c)
<1>1. CASE UNCHANGED vars
  BY <1>1 DEF vars
<1>2. ASSUME NEW p \in Project, ConfirmNext(p) PROVE UNCHANGED <<nextRun, pair>>
  BY <1>2 DEF ConfirmNext, ConfirmBriefRead, ConfirmBriefCommit, ConfirmBlueprintRead,
              ConfirmBlueprintCommit, runVars, rowVars
<1>3. ASSUME NEW c \in Client, ClientNext(c), ~StartInsert(c) PROVE UNCHANGED <<nextRun, pair>>
  BY <1>3 DEF ClientNext, RequestStep, StartRead, StartAdmit, StartRefuse,
              StartDuplicate, Dispatch, DispatchLost, ResumeRead, ResumeCommit, runVars, rowVars
<1>4. ASSUME NEW w \in Worker, WorkStep(w) \/ WorkerCrash(w)
      PROVE  UNCHANGED <<nextRun, pair>>
  BY <1>4 DEF WorkStep, Take, AssembleRead, AssembleWrite, LoadRun, Checkpoint, SupersedeWrite,
              ValidateWrite, LessonCall, LessonCapped, LessonComplete, LessonFail,
              LessonProviderError, LessonEnds, LessonError, FinalizeRead, FinalizeWrite, Retry,
              ExhaustRead, ExhaustWrite, WorkerCrash, runVars, rowVars, outside
<1> QED BY <1>1, <1>2, <1>3, <1>4 DEF Next

\* However starts race, a version pair has one run.
THEOREM RunIdentity == Spec => []OneRunPerPair
<1>1. Init => OneRunPerPair
  BY DEF Init, OneRunPerPair, Created, RunId
<1>2. TypeInv /\ OneRunPerPair /\ [Next]_vars => OneRunPerPair'
  <2> SUFFICES ASSUME TypeInv, OneRunPerPair, [Next]_vars PROVE OneRunPerPair'
    OBVIOUS
  <2>1. CASE UNCHANGED <<nextRun, pair>>
    BY <2>1 DEF OneRunPerPair, Created
  <2>2. ASSUME NEW c \in Client, StartInsert(c) PROVE OneRunPerPair'
    <3>1. nextRun \in RunId /\ nextRun' = nextRun + 1
      BY <2>2 DEF StartInsert, TypeInv, TypeOK, RunId
    <3>2. Created' = Created \union {nextRun}
      BY <3>1, BoundAssumption DEF Created, RunId
    <3>3. \A r \in Created : pair'[r] = pair[r] /\ pair[r] # pair'[nextRun]
      BY <2>2, <3>1 DEF StartInsert, RunsOf, Created, TypeInv, TypeOK, RunId
    <3> QED BY <3>2, <3>3 DEF OneRunPerPair
  <2> QED BY <2>1, <2>2, RunsChange
<1> QED BY <1>1, <1>2, Reachable, PTL DEF Spec

-----------------------------------------------------------------------------
(* Admission.  The runs that never left the active set since their creation *)
(* are the created ones outside the history set released; a start adds one, *)
(* under the workspace lock, after it counted fewer than Limit active runs. *)

Kept == ActiveRuns \ released

LockInv ==
  /\ \A c \in Client : client[c].pc = "insert" => wsLock = c
  /\ \A c \in Client : client[c].pc = "insert" => Cardinality(Kept) < Limit
  /\ \A r \in Created : r \notin released => status[r] \in Active
  /\ Cardinality(Kept) <= Limit

\* What a step can do to the statuses of the runs.
LEMMA StatusChange ==
  ASSUME [Next]_vars
  PROVE  \/ UNCHANGED <<status, released>>
         \/ \E seen : Supersede(seen)
         \/ \E r, s : SetStatus(r, s)
         \/ \E c \in Client : StartInsert(c)
<1>1. CASE UNCHANGED vars
  BY <1>1 DEF vars
<1>2. ASSUME NEW p \in Project, ConfirmNext(p)
      PROVE  UNCHANGED <<status, released>> \/ \E seen : Supersede(seen)
  BY <1>2 DEF ConfirmNext, ConfirmBriefRead, ConfirmBriefCommit, ConfirmBlueprintRead,
              ConfirmBlueprintCommit, runVars
<1>3. ASSUME NEW c \in Client, ClientNext(c), ~StartInsert(c)
      PROVE  UNCHANGED <<status, released>> \/ \E r, s : SetStatus(r, s)
  BY <1>3 DEF ClientNext, RequestStep, StartRead, StartAdmit, StartRefuse,
              StartDuplicate, Dispatch, DispatchLost, ResumeRead, ResumeCommit, runVars
<1>4. ASSUME NEW w \in Worker, WorkStep(w) \/ WorkerCrash(w)
      PROVE  UNCHANGED <<status, released>> \/ \E r, s : SetStatus(r, s)
  BY <1>4 DEF WorkStep, Take, AssembleRead, AssembleWrite, LoadRun, Checkpoint, SupersedeWrite,
              ValidateWrite, LessonCall, LessonCapped, LessonComplete, LessonFail,
              LessonProviderError, LessonEnds, LessonError, FinalizeRead, FinalizeWrite, Retry,
              ExhaustRead, ExhaustWrite, WorkerCrash, WorkerWrites, runVars
<1> QED BY <1>1, <1>2, <1>3, <1>4 DEF Next

\* Apart from an insert, no step lets a run into Kept.
LEMMA KeptShrinks ==
  ASSUME TypeInv, LockInv, [Next]_vars, ~\E c \in Client : StartInsert(c)
  PROVE  /\ Kept' \subseteq Kept
         /\ \A r \in Created' : r \notin released' => status'[r] \in Active
<1>1. Created' = Created
  BY RunsChange DEF Created
<1>2. CASE UNCHANGED <<status, released>>
  BY <1>1, <1>2 DEF LockInv, Kept, ActiveRuns
<1>3. ASSUME NEW seen, Supersede(seen)
      PROVE  \A r \in Created' : r \notin released' => r \notin released /\ status'[r] \in Active
  BY <1>1, <1>3 DEF Supersede, LockInv, Created
<1>4. ASSUME NEW r, NEW s, SetStatus(r, s)
      PROVE  \A x \in Created' : x \notin released' => x \notin released /\ status'[x] \in Active
  <2> TAKE x \in Created'
  <2> HAVE x \notin released'
  <2>1. x \in RunId /\ x \in Created /\ status \in [RunId -> Status]
    BY <1>1 DEF Created, TypeInv, TypeOK
  <2>2. CASE x = r
    BY <1>4, <2>1, <2>2 DEF SetStatus
  <2>3. CASE x # r
    <3>1. status'[x] = status[x] /\ x \notin released
      BY <1>4, <2>1, <2>3 DEF SetStatus
    <3> QED BY <2>1, <3>1 DEF LockInv
  <2> QED BY <2>2, <2>3
<1>5. \A r \in Created' : r \notin released' => r \notin released /\ status'[r] \in Active
  BY <1>1, <1>2, <1>3, <1>4, StatusChange DEF LockInv
<1> QED BY <1>1, <1>5 DEF Kept, ActiveRuns, LockInv

\* The lock is held by the one client between admission and insert.
LEMMA LockStep ==
  ASSUME TypeInv, LockInv, [Next]_vars
  PROVE  /\ \A c \in Client : client'[c].pc = "insert" => wsLock' = c
         /\ \A c \in Client : client'[c].pc = "insert" =>
              client[c].pc = "insert" \/ (StartAdmit(c) /\ client[c].pc = "admit")
<1> DEFINE Goal ==
      /\ \A c \in Client : client'[c].pc = "insert" => wsLock' = c
      /\ \A c \in Client : client'[c].pc = "insert" =>
           client[c].pc = "insert" \/ (StartAdmit(c) /\ client[c].pc = "admit")
<1>1. CASE UNCHANGED <<client, wsLock>>
  BY <1>1 DEF LockInv
<1>2. CASE UNCHANGED vars
  BY <1>1, <1>2 DEF vars
<1>3. ASSUME NEW p \in Project, ConfirmNext(p) PROVE Goal
  BY <1>1, <1>3 DEF ConfirmNext, ConfirmBriefRead, ConfirmBriefCommit, ConfirmBlueprintRead,
                    ConfirmBlueprintCommit, apiVars
<1>4. ASSUME NEW w \in Worker, WorkStep(w) \/ WorkerCrash(w) PROVE Goal
  BY <1>1, <1>4 DEF WorkStep, Take, AssembleRead, AssembleWrite, LoadRun, Checkpoint,
     SupersedeWrite, ValidateWrite, LessonCall, LessonCapped, LessonComplete, LessonFail,
     LessonProviderError, LessonEnds, LessonError, FinalizeRead, FinalizeWrite, Retry,
     ExhaustRead, ExhaustWrite, WorkerCrash, outside, apiVars
<1>5. ASSUME NEW c \in Client, ClientNext(c) PROVE Goal
  <2> DEFINE C == [pc : ClientPC, run : RunId, want : Pair]
  <2>1. client \in [Client -> C]
    BY DEF TypeInv, TypeOK
  <2>2. ASSUME NEW x, x.pc # "insert", Request(c, x), wsLock' = wsLock PROVE Goal
    BY <2>1, <2>2 DEF Request, LockInv
  <2>3. ASSUME NEW x, x.pc # "insert", Request(c, x), client[c].pc = "insert" PROVE Goal
    BY <2>1, <2>3 DEF Request, LockInv
  <2>4. IdleClient.pc # "insert"
    BY DEF IdleClient
  <2>5. CASE StartAdmit(c)
    <3>1. client'[c].pc = "insert" /\ client[c].pc = "admit" /\ wsLock' = c
      BY <2>1, <2>5 DEF StartAdmit, Request
    <3>2. \A d \in Client : d # c => client'[d].pc # "insert"
      BY <2>1, <2>5, ClientAssumption DEF StartAdmit, Request, LockInv
    <3> QED BY <2>5, <3>1, <3>2
  <2>6. CASE StartInsert(c)
    BY <2>1, <2>3, <2>6 DEF StartInsert
  <2>7. CASE StartDuplicate(c)
    BY <2>3, <2>4, <2>7 DEF StartDuplicate
  <2>8. CASE StartRefuse(c) \/ Dispatch(c) \/ DispatchLost(c)
    BY <2>2, <2>4, <2>8 DEF StartRefuse, Dispatch, DispatchLost
  <2>9. CASE ResumeCommit(c)
    BY <2>1, <2>2, <2>9 DEF ResumeCommit
  <2>10. ASSUME NEW p \in Project, StartRead(c, p) PROVE Goal
    BY <2>1, <2>2, <2>10 DEF StartRead
  <2>11. ASSUME NEW r \in RunId, ResumeRead(c, r) PROVE Goal
    BY <2>1, <2>2, <2>11 DEF ResumeRead
  <2> QED BY <1>5, <2>5, <2>6, <2>7, <2>8, <2>9, <2>10, <2>11 DEF ClientNext, RequestStep
<1> QED BY <1>2, <1>3, <1>4, <1>5 DEF Next

\* The admission invariant is inductive.
LEMMA LockInvStep ==
  ASSUME TypeInv, LockInv, [Next]_vars
  PROVE  LockInv'
<1>a. IsFiniteSet(ActiveRuns) /\ IsFiniteSet(Kept)
  <2>1. IsFiniteSet(RunId)
    BY FS_Interval, BoundAssumption DEF RunId
  <2> QED BY <2>1, FS_Subset DEF Kept, ActiveRuns, Created
<1>b. Cardinality(Kept) \in Nat /\ Cardinality(ActiveRuns) \in Nat
  BY <1>a, FS_CardinalityType
<1>c. Cardinality(Kept) <= Cardinality(ActiveRuns)
  BY <1>a, FS_Subset DEF Kept
<1>1. CASE \E c \in Client : StartInsert(c)
  <2> PICK c \in Client : StartInsert(c)
    BY <1>1
  <2>1. client[c].pc = "insert" /\ client'[c].pc # "insert"
    BY DEF StartInsert, Request, TypeInv, TypeOK
  <2>2. \A d \in Client : client'[d].pc # "insert"
    <3>1. \A d \in Client : client'[d].pc = "insert" => client[d].pc = "insert"
      BY <2>1, LockStep DEF StartInsert, StartAdmit, LockInv
    <3> QED BY <2>1, <3>1 DEF LockInv
  <2>3. nextRun \in RunId /\ Created' = Created \union {nextRun} /\ nextRun \notin Created
    <3>1. nextRun \in 1..(MaxRuns + 1) /\ nextRun <= MaxRuns /\ nextRun' = nextRun + 1
      BY DEF StartInsert, TypeInv, TypeOK
    <3> QED BY <3>1, BoundAssumption DEF Created, RunId
  <2>4. status'[nextRun] \in Active /\ \A r \in Created : status'[r] = status[r]
    BY <2>3 DEF StartInsert, TypeInv, TypeOK, Active, Created
  <2>5. released' = released
    BY DEF StartInsert
  <2>6. Kept' \subseteq Kept \union {nextRun}
    BY <2>3, <2>4, <2>5 DEF Kept, ActiveRuns
  <2>7. Cardinality(Kept \union {nextRun}) <= Limit /\ IsFiniteSet(Kept \union {nextRun})
    <3>1. Cardinality(Kept) < Limit
      BY <2>1 DEF LockInv
    <3>2. /\ IsFiniteSet(Kept \union {nextRun})
          /\ Cardinality(Kept \union {nextRun}) =
               IF nextRun \in Kept THEN Cardinality(Kept) ELSE Cardinality(Kept) + 1
      BY <1>a, FS_AddElement
    <3> HIDE DEF Kept
    <3> QED BY <1>b, <3>1, <3>2, BoundAssumption
  <2>8. Cardinality(Kept') <= Cardinality(Kept \union {nextRun}) /\ Cardinality(Kept') \in Nat
    BY <2>6, <2>7, FS_Subset, FS_CardinalityType
  <2>9. Cardinality(Kept \union {nextRun}) \in Nat
    BY <2>7, FS_CardinalityType
  <2> HIDE DEF Kept
  <2>10. Cardinality(Kept') <= Limit
    BY <2>7, <2>8, <2>9, BoundAssumption
  <2> QED BY <2>2, <2>3, <2>4, <2>5, <2>10 DEF LockInv
<1>2. CASE ~\E c \in Client : StartInsert(c)
  <2>1. Kept' \subseteq Kept /\ \A r \in Created' : r \notin released' => status'[r] \in Active
    BY <1>2, KeptShrinks
  <2>2. Cardinality(Kept') <= Cardinality(Kept) /\ Cardinality(Kept') \in Nat
    BY <1>a, <2>1, FS_Subset, FS_CardinalityType
  <2>3. ASSUME NEW c \in Client, client'[c].pc = "insert" PROVE Cardinality(Kept) < Limit
    <3>1. CASE client[c].pc = "insert"
      BY <3>1 DEF LockInv
    <3>2. CASE StartAdmit(c)
      BY <3>2, <1>b, <1>c, BoundAssumption DEF StartAdmit
    <3> QED BY <2>3, <3>1, <3>2, LockStep
  <2> HIDE DEF Kept
  <2>4. \A c \in Client : client'[c].pc = "insert" => Cardinality(Kept') < Limit
    BY <1>b, <2>2, <2>3, BoundAssumption
  <2>5. Cardinality(Kept') <= Limit
    BY <1>b, <2>2, BoundAssumption DEF LockInv
  <2> QED BY <2>1, <2>4, <2>5, LockStep DEF LockInv
<1> QED BY <1>1, <1>2

\* Racing starts never admit more than Limit runs, whatever resumes, confirmations
\* and workers do to the statuses meanwhile.
THEOREM AdmissionCorrect == Spec => []AdmissionHolds
<1>1. Init => LockInv
  <2> SUFFICES ASSUME Init PROVE LockInv
    OBVIOUS
  <2>1. Created = {}
    BY DEF Init, Created, RunId
  <2>2. Cardinality(Kept) = 0
    BY <2>1, FS_EmptySet DEF Kept, ActiveRuns
  <2> QED BY <2>1, <2>2, BoundAssumption DEF Init, LockInv, IdleClient
<1>2. TypeInv /\ LockInv /\ [Next]_vars => LockInv'
  BY LockInvStep
<1>3. LockInv => AdmissionHolds
  BY DEF LockInv, AdmissionHolds, Kept
<1> QED BY <1>1, <1>2, <1>3, Reachable, PTL DEF Spec

-----------------------------------------------------------------------------
(* Stranding.  Without crashes, every active run has a carrier: a delivery, *)
(* a client about to dispatch it, or a worker that will still write it.  A  *)
(* worker in mark_provider_exhausted that loaded a terminal status is not   *)
(* one: its write is skipped when the row agrees with what it loaded.       *)

Carries(w, r) ==
  /\ worker[w].pc # "idle"
  /\ worker[w].run = r
  /\ ~(worker[w].pc = "exhausted" /\ worker[w].seen \in Terminal)

Carried(r) ==
  \/ \E a \in Attempt : queue[<<r, a>>] > 0
  \/ \E c \in Client : client[c].pc = "dispatch" /\ client[c].run = r
  \/ \E w \in Worker : Carries(w, r)

StrandInv == \A r \in ActiveRuns : Carried(r)

\* A confirmation makes no run active and touches no carrier.
LEMMA ConfirmStrandInv ==
  ASSUME TypeInv, StrandInv, NEW p \in Project, ConfirmNext(p)
  PROVE  StrandInv'
<1>1. UNCHANGED <<queue, client, worker, nextRun>>
  BY DEF ConfirmNext, ConfirmBriefRead, ConfirmBriefCommit, ConfirmBlueprintRead,
         ConfirmBlueprintCommit, apiVars, taskVars, runVars, rowVars
<1>2. \A r \in Created : status'[r] \in Active => status[r] \in Active
  <2>1. status' = status \/ \E seen : Supersede(seen)
    BY DEF ConfirmNext, ConfirmBriefRead, ConfirmBriefCommit, ConfirmBlueprintRead,
           ConfirmBlueprintCommit, runVars
  <2>2. ASSUME NEW seen, Supersede(seen)
        PROVE  \A r \in Created : status'[r] \in Active => status[r] \in Active
    BY <2>2 DEF Supersede, Active, Created
  <2> QED BY <2>1, <2>2
<1> QED BY <1>1, <1>2 DEF StrandInv, ActiveRuns, Created, Carried, Carries

\* A request that makes a run active is about to dispatch it.
LEMMA ClientStrandInv ==
  ASSUME TypeInv, StrandInv, MaxCrashes = 0, NEW c \in Client, ClientNext(c)
  PROVE  StrandInv'
<1> DEFINE C == [pc : ClientPC, run : RunId, want : Pair]
<1>a. client \in [Client -> C] /\ client[c] \in C
  BY DEF TypeInv, TypeOK
<1>b. IdleClient.pc # "dispatch"
  BY DEF IdleClient
<1>c. ASSUME NEW x, client[c].pc # "dispatch", Request(c, x),
             UNCHANGED <<queue, worker, status, nextRun>>
      PROVE  StrandInv'
  <2>1. \A d \in Client : client[d].pc = "dispatch" => client'[d] = client[d]
    BY <1>a, <1>c DEF Request
  <2>2. \A r \in RunId : Carried(r) => Carried(r)'
    BY <1>c, <2>1 DEF Carried, Carries
  <2> QED BY <1>c, <2>2 DEF StrandInv, ActiveRuns, Created
<1>1. ASSUME NEW p \in Project, StartRead(c, p) PROVE StrandInv'
  BY <1>1, <1>c DEF StartRead, runVars, taskVars
<1>2. ASSUME NEW r \in RunId, ResumeRead(c, r) PROVE StrandInv'
  BY <1>2, <1>c DEF ResumeRead, runVars, taskVars
<1>3. CASE StartAdmit(c) \/ StartRefuse(c) \/ StartDuplicate(c)
  BY <1>3, <1>c DEF StartAdmit, StartRefuse, StartDuplicate, runVars, taskVars
<1>4. CASE DispatchLost(c)
  BY <1>4, BoundAssumption DEF DispatchLost, TypeInv, TypeOK
<1>5. CASE StartInsert(c)
  <2>1. nextRun \in RunId /\ Created' = Created \union {nextRun} /\ nextRun \notin Created
    <3>1. nextRun \in 1..(MaxRuns + 1) /\ nextRun <= MaxRuns /\ nextRun' = nextRun + 1
      BY <1>5 DEF StartInsert, TypeInv, TypeOK
    <3> QED BY <3>1, BoundAssumption DEF Created, RunId
  <2>2. client'[c].pc = "dispatch" /\ client'[c].run = nextRun
    BY <1>5, <1>a DEF StartInsert, Request
  <2>3. \A d \in Client : client[d].pc = "dispatch" => client'[d] = client[d]
    BY <1>5, <1>a DEF StartInsert, Request
  <2>4. queue' = queue /\ worker' = worker
    BY <1>5 DEF StartInsert, taskVars
  <2>5. \A r \in Created : status'[r] = status[r]
    BY <1>5, <2>1 DEF StartInsert, TypeInv, TypeOK, Created
  <2>6. ASSUME NEW r \in RunId, r = nextRun PROVE Carried(r)'
    BY <2>2, <2>6 DEF Carried
  <2>7. \A r \in RunId : Carried(r) => Carried(r)'
    BY <2>3, <2>4 DEF Carried, Carries
  <2>8. ASSUME NEW r \in Created, status'[r] \in Active PROVE Carried(r)'
    BY <2>5, <2>7, <2>8 DEF StrandInv, ActiveRuns, Created
  <2>9. \A r \in Created' : status'[r] \in Active => Carried(r)'
    BY <2>1, <2>6, <2>8
  <2> QED BY <2>9 DEF StrandInv, ActiveRuns
<1>6. CASE Dispatch(c)
  <2> DEFINE d0 == <<client[c].run, 0>>
  <2>1. d0 \in RunId \X Attempt /\ 0 \in Attempt
    BY <1>a, BoundAssumption DEF Attempt
  <2>2. queue' = [queue EXCEPT ![d0] = queue[d0] + 1]
    BY <1>6 DEF Dispatch
  <2>3. queue'[d0] > 0 /\ \A d \in RunId \X Attempt : queue[d] > 0 => queue'[d] > 0
    BY <2>1, <2>2 DEF TypeInv, TypeOK
  <2>4. \A d \in Client : d # c => client'[d] = client[d]
    BY <1>6, <1>a DEF Dispatch, Request
  <2>5. worker' = worker /\ status' = status /\ nextRun' = nextRun
    BY <1>6 DEF Dispatch, runVars
  <2>6. \A r \in RunId : Carried(r) => Carried(r)'
    <3> TAKE r \in RunId
    <3> HAVE Carried(r)
    <3>1. ASSUME NEW a \in Attempt, queue[<<r, a>>] > 0 PROVE Carried(r)'
      <4>1. <<r, a>> \in RunId \X Attempt
        OBVIOUS
      <4> QED BY <2>3, <3>1, <4>1 DEF Carried
    <3>2. ASSUME NEW d \in Client, client[d].pc = "dispatch", client[d].run = r
          PROVE  Carried(r)'
      <4>1. CASE d = c
        BY <2>1, <2>3, <3>2, <4>1 DEF Carried
      <4>2. CASE d # c
        BY <2>4, <3>2, <4>2 DEF Carried
      <4> QED BY <4>1, <4>2
    <3>3. ASSUME NEW w \in Worker, Carries(w, r) PROVE Carried(r)'
      BY <2>5, <3>3 DEF Carried, Carries
    <3> QED BY <3>1, <3>2, <3>3 DEF Carried
  <2> QED BY <2>5, <2>6 DEF StrandInv, ActiveRuns, Created
<1>7. CASE ResumeCommit(c)
  <2>1. client'[c].pc = "dispatch" /\ client'[c].run = client[c].run
    BY <1>7, <1>a DEF ResumeCommit, Request
  <2>2. \A d \in Client : client[d].pc = "dispatch" => client'[d] = client[d]
    BY <1>7, <1>a DEF ResumeCommit, Request
  <2>3. queue' = queue /\ worker' = worker /\ nextRun' = nextRun
    BY <1>7 DEF ResumeCommit, taskVars, rowVars
  <2>4. \A r \in RunId : r # client[c].run => status'[r] = status[r]
    BY <1>7 DEF ResumeCommit, SetStatus, TypeInv, TypeOK
  <2>5. ASSUME NEW r \in RunId, r = client[c].run PROVE Carried(r)'
    BY <2>1, <2>5 DEF Carried
  <2>6. \A r \in RunId : Carried(r) => Carried(r)'
    BY <2>2, <2>3 DEF Carried, Carries
  <2>7. ASSUME NEW r \in RunId, r < nextRun, status'[r] \in Active PROVE Carried(r)'
    <3>1. CASE r = client[c].run
      BY <2>5, <3>1
    <3>2. CASE r # client[c].run
      BY <2>4, <2>6, <2>7, <3>2 DEF StrandInv, ActiveRuns, Created
    <3> QED BY <3>1, <3>2
  <2> QED BY <2>3, <2>7 DEF StrandInv, ActiveRuns, Created
<1> QED BY <1>1, <1>2, <1>3, <1>4, <1>5, <1>6, <1>7 DEF ClientNext, RequestStep

\* A worker leaves a run only after it settled it, or after it queued a retry.
LEMMA WorkerStrandInv ==
  ASSUME TypeInv, Settling, StrandInv, MaxCrashes = 0, NEW w \in Worker,
         WorkStep(w) \/ WorkerCrash(w)
  PROVE  StrandInv'
<1> DEFINE W == [pc : WorkerPC, run : RunId, attempt : Attempt, cursor : Lesson \union {0},
                 seen : Status, used : 0..LessonCalls, outcome : Outcome]
           me == worker[w].run
<1>a. worker \in [Worker -> W] /\ worker[w] \in W
  BY DEF TypeInv, TypeOK
<1>b. UNCHANGED <<client, nextRun>> \/ WorkerCrash(w)
  BY DEF WorkStep, Take, AssembleRead, AssembleWrite, LoadRun, Checkpoint, SupersedeWrite,
         ValidateWrite, LessonCall, LessonCapped, LessonComplete, LessonFail,
         LessonProviderError, LessonEnds, LessonError, FinalizeRead, FinalizeWrite, Retry,
         ExhaustRead, ExhaustWrite, outside, runVars, rowVars
\* a carrier of another run survives any step of w that only adds deliveries
<1>c. ASSUME NEW x, Becomes(w, x), UNCHANGED <<client, nextRun>>,
             \A d \in RunId \X Attempt : queue[d] > 0 => queue'[d] > 0
      PROVE  \A r \in RunId : r # me /\ Carried(r) => Carried(r)'
  <2> TAKE r \in RunId
  <2> HAVE r # me /\ Carried(r)
  <2>1. ASSUME NEW a \in Attempt, queue[<<r, a>>] > 0 PROVE Carried(r)'
    BY <1>c, <2>1 DEF Carried
  <2>2. ASSUME NEW c \in Client, client[c].pc = "dispatch", client[c].run = r PROVE Carried(r)'
    BY <1>c, <2>2 DEF Carried
  <2>3. ASSUME NEW v \in Worker, Carries(v, r) PROVE Carried(r)'
    <3>1. v # w /\ worker'[v] = worker[v]
      BY <1>a, <1>c, <2>3 DEF Becomes, Carries
    <3> QED BY <2>3, <3>1 DEF Carried, Carries
  <2> QED BY <2>1, <2>2, <2>3 DEF Carried
\* w keeps carrying its run
<1>d. ASSUME NEW x, Becomes(w, x), UNCHANGED <<client, nextRun, queue>>,
             x.pc \notin {"idle", "exhausted"}, x.run = me,
             \A r \in RunId : r # me => status'[r] = status[r]
      PROVE  StrandInv'
  <2>1. ASSUME NEW r \in RunId, r = me PROVE Carried(r)'
    BY <1>a, <1>d, <2>1 DEF Carried, Carries, Becomes
  <2>2. \A r \in RunId : r # me /\ Carried(r) => Carried(r)'
    BY <1>c, <1>d
  <2>3. ASSUME NEW r \in RunId, r < nextRun, status'[r] \in Active PROVE Carried(r)'
    BY <1>d, <2>1, <2>2, <2>3 DEF StrandInv, ActiveRuns, Created
  <2> QED BY <1>d, <2>3 DEF StrandInv, ActiveRuns, Created
\* w leaves a run that is not active any more
<1>e. ASSUME Finish(w), UNCHANGED <<client, nextRun, queue>>, status'[me] \notin Active,
             \A r \in RunId : r # me => status'[r] = status[r]
      PROVE  StrandInv'
  <2>1. \A r \in RunId : r # me /\ Carried(r) => Carried(r)'
    BY <1>c, <1>e DEF Finish
  <2>2. ASSUME NEW r \in RunId, r < nextRun, status'[r] \in Active PROVE Carried(r)'
    BY <1>e, <2>1, <2>2 DEF StrandInv, ActiveRuns, Created
  <2> QED BY <1>e, <2>2 DEF StrandInv, ActiveRuns, Created
<1>f. ASSUME NEW s, WorkerWrites(w, s)
      PROVE  \A r \in RunId : r # me => status'[r] = status[r]
  BY <1>f DEF WorkerWrites, SetStatus, TypeInv, TypeOK
<1>1. ASSUME NEW r \in RunId, NEW a \in Attempt, Take(w, r, a) PROVE StrandInv'
  <2>1. worker[w].pc = "idle" /\ worker'[w].pc = "assemble" /\ worker'[w].run = r
    BY <1>1, <1>a DEF Take, Becomes
  <2>2. ASSUME NEW q \in RunId, q = r PROVE Carried(q)'
    BY <2>1, <2>2 DEF Carried, Carries
  <2>3. ASSUME NEW q \in RunId, q # r, Carried(q) PROVE Carried(q)'
    <3>1. ASSUME NEW b \in Attempt, queue[<<q, b>>] > 0 PROVE Carried(q)'
      <4>1. queue'[<<q, b>>] = queue[<<q, b>>]
        BY <1>1, <2>3 DEF Take, TypeInv, TypeOK
      <4> QED BY <3>1, <4>1 DEF Carried
    <3>2. ASSUME NEW c \in Client, client[c].pc = "dispatch", client[c].run = q
          PROVE  Carried(q)'
      BY <1>1, <3>2 DEF Carried, Take, outside
    <3>3. ASSUME NEW v \in Worker, Carries(v, q) PROVE Carried(q)'
      <4>1. v # w /\ worker'[v] = worker[v]
        BY <1>1, <1>a, <2>1, <3>3 DEF Take, Becomes, Carries
      <4> QED BY <3>3, <4>1 DEF Carried, Carries
    <3> QED BY <2>3, <3>1, <3>2, <3>3 DEF Carried
  <2>4. UNCHANGED <<status, nextRun>>
    BY <1>1 DEF Take, runVars
  <2> QED BY <2>2, <2>3, <2>4 DEF StrandInv, ActiveRuns, Created
<1>2. CASE AssembleRead(w)
  BY <1>2, <1>a, <1>b, <1>d DEF AssembleRead, runVars, outside
<1>3. CASE AssembleWrite(w)
  BY <1>3, <1>a, <1>d, <1>f DEF AssembleWrite, Goto, rowVars, outside
<1>4. CASE LoadRun(w)
  BY <1>4, <1>a, <1>d DEF LoadRun, runVars, outside
<1>5. CASE Checkpoint(w)
  <2>1. ASSUME NEW pc, pc \notin {"idle", "exhausted"}, Goto(w, pc),
               UNCHANGED <<client, nextRun, queue, status>>
        PROVE  StrandInv'
    BY <2>1, <1>a, <1>d DEF Goto
  <2>2. ASSUME NEW l \in Remaining(w), UNCHANGED <<client, nextRun, queue, status>>,
               Becomes(w, [worker[w] EXCEPT !.cursor = l, !.pc =
                             IF l \in Completed(me) THEN "load" ELSE "lesson"])
        PROVE  StrandInv'
    BY <2>2, <1>a, <1>d
  <2> QED BY <1>5, <2>1, <2>2 DEF Checkpoint, runVars, outside
<1>6. CASE SupersedeWrite(w)
  BY <1>6, <1>a, <1>d, <1>f DEF SupersedeWrite, rowVars, outside
<1>7. CASE ValidateWrite(w)
  BY <1>7, <1>a, <1>d, <1>f DEF ValidateWrite, rowVars, outside
<1>8. CASE LessonCall(w)
  BY <1>8, <1>a, <1>d DEF LessonCall, outside
<1>9. CASE LessonCapped(w)
  BY <1>9, <1>a, <1>d DEF LessonCapped, runVars, outside
<1>10. CASE LessonComplete(w) \/ LessonFail(w) \/ LessonProviderError(w)
  BY <1>10, <1>a, <1>d DEF LessonComplete, LessonFail, LessonProviderError, LessonEnds, outside
<1>11. CASE LessonError(w)
  BY <1>11, <1>a, <1>d DEF LessonError, Goto, runVars, outside
<1>12. CASE FinalizeRead(w)
  <2>1. UNCHANGED <<client, nextRun, queue, status>>
    BY <1>12 DEF FinalizeRead, runVars, outside
  <2>2. CASE status[me] \in Terminal
    BY <1>12, <2>1, <2>2, <1>e DEF FinalizeRead, Terminal, Resumable, Active
  <2>3. CASE status[me] \notin Terminal
    <3> DEFINE verdict ==
                 IF worker[w].outcome = "superseded" THEN "superseded"
                 ELSE IF worker[w].outcome = "capped" THEN "capped_failure"
                 ELSE IF Completed(me) = Scope(me) THEN "complete"
                 ELSE IF Completed(me) # {} THEN "partial_failure"
                 ELSE "terminal_failure"
               x == [worker[w] EXCEPT !.pc = "settle", !.seen = status[me],
                                      !.outcome = verdict]
    <3>1. x.pc \notin {"idle", "exhausted"} /\ x.run = me
      BY <1>a
    <3>2. Becomes(w, x)
      BY <1>12, <2>3 DEF FinalizeRead
    <3> HIDE DEF x
    <3> QED BY <2>1, <3>1, <3>2, <1>d
  <2> QED BY <2>2, <2>3
<1>13. CASE FinalizeWrite(w)
  <2>1. status'[me] \notin Active
    <3>1. worker[w].seen \in Active /\ worker[w].outcome \in Terminal
      BY <1>13 DEF FinalizeWrite, Settling
    <3>2. SetStatus(me, worker[w].outcome)
      BY <1>13, <3>1 DEF FinalizeWrite, WorkerWrites, Active, Terminal, Resumable
    <3> QED BY <1>a, <3>1, <3>2 DEF SetStatus, TypeInv, TypeOK, Active, Terminal, Resumable
  <2> QED BY <1>13, <2>1, <1>e, <1>f DEF FinalizeWrite, rowVars, outside
<1>14. CASE Retry(w)
  <2> DEFINE a == worker[w].attempt
             d0 == <<me, a + 1>>
  <2>1. CASE a < MaxRetries
    <3>1. d0 \in RunId \X Attempt /\ a + 1 \in Attempt
      BY <1>a, <2>1, BoundAssumption DEF Attempt
    <3>2. queue' = [queue EXCEPT ![d0] = queue[d0] + 1] /\ Finish(w)
      BY <1>14, <2>1 DEF Retry
    <3>3. queue'[d0] > 0 /\ \A d \in RunId \X Attempt : queue[d] > 0 => queue'[d] > 0
      BY <3>1, <3>2 DEF TypeInv, TypeOK
    <3>4. ASSUME NEW r \in RunId, r = me PROVE Carried(r)'
      BY <3>1, <3>3, <3>4 DEF Carried
    <3>5. UNCHANGED <<client, nextRun, status>>
      BY <1>14 DEF Retry, runVars, outside
    <3>6. \A r \in RunId : r # me /\ Carried(r) => Carried(r)'
      BY <3>2, <3>3, <3>5, <1>c DEF Finish
    <3> QED BY <3>4, <3>5, <3>6 DEF StrandInv, ActiveRuns, Created
  <2>2. CASE ~(a < MaxRetries)
    BY <1>14, <2>2, <1>a, <1>d DEF Retry, Goto, runVars, outside
  <2> QED BY <2>1, <2>2
<1>15. CASE ExhaustRead(w)
  <2> DEFINE x == [worker[w] EXCEPT !.pc = "exhausted", !.seen = status[me], !.outcome =
                     IF Completed(me) # {} THEN "partial_failure" ELSE "terminal_failure"]
  <2>1. Becomes(w, x) /\ UNCHANGED <<client, nextRun, queue, status>>
    BY <1>15 DEF ExhaustRead, runVars, outside
  <2>2. x.pc = "exhausted" /\ x.run = me /\ x.seen = status[me]
    BY <1>a
  <2> HIDE DEF x
  <2>3. ASSUME NEW r \in RunId, r = me, status[r] \in Active PROVE Carried(r)'
    <3>1. Carries(w, r)'
      BY <1>a, <2>1, <2>2, <2>3 DEF Carries, Becomes, Active, Terminal, Resumable
    <3> QED BY <3>1 DEF Carried
  <2>4. \A r \in RunId : r # me /\ Carried(r) => Carried(r)'
    BY <2>1, <1>c
  <2> QED BY <2>1, <2>3, <2>4 DEF StrandInv, ActiveRuns, Created
<1>16. CASE ExhaustWrite(w)
  <2> DEFINE o == worker[w].outcome
  <2>0. o \in Terminal /\ WorkerWrites(w, o) /\ Finish(w) /\ UNCHANGED <<client, nextRun, queue>>
    BY <1>16 DEF ExhaustWrite, Settling, rowVars, outside
  <2>1. CASE worker[w].seen # o
    <3>1. status'[me] \notin Active
      BY <1>a, <2>0, <2>1
         DEF WorkerWrites, SetStatus, TypeInv, TypeOK, Active, Terminal, Resumable
    <3> QED BY <2>0, <3>1, <1>e, <1>f
  <2>2. CASE worker[w].seen = o
    <3>1. status' = status
      BY <2>0, <2>2 DEF WorkerWrites
    <3>2. \A r \in RunId : ~Carries(w, r)
      BY <1>16, <2>0, <2>2 DEF Carries, ExhaustWrite
    <3>3. \A v \in Worker : v # w => worker'[v] = worker[v]
      BY <1>a, <2>0 DEF Finish, Becomes
    <3>4. \A r \in RunId : Carried(r) => Carried(r)'
      BY <2>0, <3>2, <3>3 DEF Carried, Carries
    <3> QED BY <2>0, <3>1, <3>4 DEF StrandInv, ActiveRuns, Created
  <2> QED BY <2>1, <2>2
<1>17. CASE WorkerCrash(w)
  BY <1>17, BoundAssumption DEF WorkerCrash, TypeInv, TypeOK
<1> QED BY <1>1, <1>2, <1>3, <1>4, <1>5, <1>6, <1>7, <1>8, <1>9, <1>10, <1>11, <1>12, <1>13,
           <1>14, <1>15, <1>16, <1>17 DEF WorkStep

\* Without crashes, an active run always has someone who will settle it.
THEOREM NothingStranded ==
  ASSUME MaxCrashes = 0
  PROVE  Spec => []NoStrandedRun
<1>1. Init => StrandInv
  BY DEF Init, StrandInv, ActiveRuns, Created, RunId
<1>2. TypeInv /\ Settling /\ StrandInv /\ [Next]_vars => StrandInv'
  <2> SUFFICES ASSUME TypeInv, Settling, StrandInv, [Next]_vars PROVE StrandInv'
    OBVIOUS
  <2>1. CASE UNCHANGED vars
    BY <2>1 DEF vars, StrandInv, ActiveRuns, Created, Carried, Carries
  <2>2. CASE Next
    BY <2>2, MaxCrashes = 0, ConfirmStrandInv, ClientStrandInv, WorkerStrandInv DEF Next
  <2> QED BY <2>1, <2>2
<1>3. StrandInv => NoStrandedRun
  BY DEF StrandInv, NoStrandedRun, Carried, Carries, Busy, Dispatching
<1> QED BY <1>1, <1>2, <1>3, Reachable, PTL DEF Spec

-----------------------------------------------------------------------------
(* What a step of a worker does to its task, its run and the queue.         *)

\* The task goes on with its run, which stays or becomes active or superseded ...
Keeps(w) ==
  /\ worker[w].pc # "idle" /\ worker'[w].pc # "idle" /\ worker'[w].run = worker[w].run
  /\ queue' = queue
  /\ status'[worker[w].run] \in {status[worker[w].run], "superseded"} \union Active

\* ... or leaves it, settled or not ...
Leaves(w) == worker[w].pc # "idle" /\ worker'[w].pc = "idle" /\ queue' = queue

\* ... or leaves a delivery in its place.
Requeues(w) ==
  /\ worker[w].pc # "idle" /\ worker'[w].pc = "idle" /\ status' = status
  /\ \E a \in Attempt : queue' = [queue EXCEPT ![<<worker[w].run, a>>] = @ + 1]

Takes(w) == \E r \in RunId, a \in Attempt : Take(w, r, a)

\* The artifacts of the run change only under a lesson's attempt.
Writes(w) == worker[w].pc = "lesson" /\ Keeps(w) /\ \E s : SetArtifact(w, s)

\* The attempt decides the lesson.
Decides(w) == \E s \in {"complete", "failed"}, pc \in {"load", "retry"} : LessonEnds(w, s, pc)

Shape(w) ==
  LET me == worker[w].run
  IN /\ UNCHANGED <<brief, blueprint, teacher, client, nextRun, pair>>
     /\ \A v \in Worker \ {w} : worker'[v] = worker[v]
     /\ \A r \in RunId \ {me} : status'[r] = status[r]
     /\ Takes(w) \/ Keeps(w) \/ Leaves(w) \/ Requeues(w)
     /\ artifact' = artifact \/ Writes(w)
     /\ lateCalls' = lateCalls \/ LessonCall(w)
     /\ (artifact' = artifact /\ calls' = calls) \/ LessonCall(w) \/ Decides(w)
     /\ \/ LessonCall(w)
        \/ worker'[w].used = 0
        \/ worker'[w].used = worker[w].used /\ (Keeps(w) \/ Takes(w))
     /\ worker'[w].pc = "settle" /\ worker'[w].outcome = "complete" =>
          worker'[w].run = me /\ Completed(me) = Scope(me) /\ artifact' = artifact
     /\ worker'[w].pc = "exhausted" =>
          worker'[w].outcome \in {"partial_failure", "terminal_failure"}
     /\ worker'[w].pc = "lesson" =>
          /\ worker'[w].run = me
          /\ \/ LessonCall(w)
             \/ /\ IsCurrent(me) /\ artifact' = artifact
                /\ worker'[w].cursor \in Lesson
                /\ artifact[me][worker'[w].cursor] \notin {"none", "complete"}
     /\ status'[me] = "complete" =>
          \/ status[me] = "complete"
          \/ /\ worker[w].pc \in {"settle", "exhausted"} /\ worker[w].outcome = "complete"
             /\ Leaves(w) /\ artifact' = artifact

\* Every step of a worker has that shape.
LEMMA WorkHasShape ==
  ASSUME TypeInv, Settling, NEW w \in Worker, WorkStep(w) \/ WorkerCrash(w)
  PROVE  Shape(w)
<1> DEFINE W == [pc : WorkerPC, run : RunId, attempt : Attempt, cursor : Lesson \union {0},
                 seen : Status, used : 0..LessonCalls, outcome : Outcome]
           me == worker[w].run
<1>1. /\ worker \in [Worker -> W] /\ worker[w] \in W /\ me \in RunId
      /\ status \in [RunId -> Status]
  BY DEF TypeInv, TypeOK
<1>2. ASSUME NEW x, Becomes(w, x)
      PROVE  worker'[w] = x /\ \A v \in Worker \ {w} : worker'[v] = worker[v]
  BY <1>1, <1>2 DEF Becomes
<1>3. ASSUME NEW s, WorkerWrites(w, s)
      PROVE  /\ \A r \in RunId \ {me} : status'[r] = status[r]
             /\ status'[me] \in {status[me], s}
             /\ worker[w].seen # s => status'[me] = s
  BY <1>1, <1>3 DEF WorkerWrites, SetStatus
\* a step that goes on, changes nothing but the task, and neither settles nor teaches
<1>4. ASSUME NEW x, Becomes(w, x), x.run = me, worker[w].pc # "idle",
             x.used \in {0, worker[w].used},
             x.pc \notin {"idle", "settle", "exhausted", "lesson"},
             UNCHANGED <<brief, blueprint, teacher, client, nextRun, pair, lateCalls, queue, status>>,
             artifact' = artifact \/ (worker[w].pc = "lesson" /\ \E s : SetArtifact(w, s)),
             (artifact' = artifact /\ calls' = calls) \/ Decides(w)
      PROVE  Shape(w)
  <2>1. worker'[w] = x /\ \A v \in Worker \ {w} : worker'[v] = worker[v]
    BY <1>2, <1>4
  <2>2. Keeps(w)
    BY <1>4, <2>1 DEF Keeps
  <2>3. artifact' = artifact \/ Writes(w)
    BY <1>4, <2>2 DEF Writes
  <2> QED BY <1>1, <1>4, <2>1, <2>2, <2>3 DEF Shape
\* ... one that goes on and writes an active or superseded status
<1>5. ASSUME NEW x, Becomes(w, x), x.run = me, worker[w].pc # "idle",
             x.used \in {0, worker[w].used},
             x.pc \notin {"idle", "settle", "exhausted", "lesson"},
             UNCHANGED <<brief, blueprint, teacher, client, nextRun, pair, lateCalls, calls, queue, artifact>>,
             NEW s \in Active \union {"superseded"}, WorkerWrites(w, s)
      PROVE  Shape(w)
  <2>1. worker'[w] = x /\ \A v \in Worker \ {w} : worker'[v] = worker[v]
    BY <1>2, <1>5
  <2>2. Keeps(w)
    BY <1>3, <1>5, <2>1 DEF Keeps
  <2>3. status'[me] = "complete" => status[me] = "complete"
    BY <1>3, <1>5 DEF Active
  <2> QED BY <1>1, <1>3, <1>5, <2>1, <2>2, <2>3 DEF Shape
\* ... one that leaves the run
<1>6. ASSUME Finish(w), worker[w].pc # "idle",
             UNCHANGED <<brief, blueprint, teacher, client, nextRun, pair, lateCalls, calls, queue, artifact>>,
             \A r \in RunId \ {me} : status'[r] = status[r],
             status'[me] = "complete" =>
               \/ status[me] = "complete"
               \/ worker[w].pc \in {"settle", "exhausted"} /\ worker[w].outcome = "complete"
      PROVE  Shape(w)
  <2>1. worker'[w] = IdleWorker /\ \A v \in Worker \ {w} : worker'[v] = worker[v]
    BY <1>2, <1>6 DEF Finish
  <2>2. worker'[w].pc = "idle" /\ worker'[w].used = 0
    BY <2>1 DEF IdleWorker
  <2>3. Leaves(w)
    BY <1>6, <2>2 DEF Leaves
  <2> QED BY <1>1, <1>6, <2>1, <2>2, <2>3 DEF Shape
<1>7. ASSUME NEW pc
      PROVE  /\ [worker[w] EXCEPT !.pc = pc].pc = pc /\ [worker[w] EXCEPT !.pc = pc].run = me
             /\ [worker[w] EXCEPT !.pc = pc].used = worker[w].used
  BY <1>1
<1>8. ASSUME NEW r \in RunId, NEW a \in Attempt, Take(w, r, a) PROVE Shape(w)
  <2> DEFINE x == [worker[w] EXCEPT !.pc = "assemble", !.run = r, !.attempt = a]
  <2>1. x.pc = "assemble" /\ x.used = worker[w].used /\ Becomes(w, x)
    BY <1>1, <1>8 DEF Take
  <2> HIDE DEF x
  <2>2. worker'[w] = x /\ \A v \in Worker \ {w} : worker'[v] = worker[v]
    BY <1>2, <2>1
  <2>3. Takes(w) /\ UNCHANGED <<brief, blueprint, teacher, client, nextRun, pair, lateCalls, calls, artifact, status>>
    BY <1>8 DEF Take, Takes, outside, runVars
  <2> QED BY <1>1, <2>1, <2>2, <2>3 DEF Shape
<1>9. CASE AssembleRead(w)
  <2> DEFINE s == status[me]
             x == IF s \in Active THEN [worker[w] EXCEPT !.pc = "enter", !.seen = s]
                  ELSE [worker[w] EXCEPT !.pc = "finalize", !.outcome = "already_finished"]
  <2>1. Becomes(w, x) /\ x.pc \in {"enter", "finalize"} /\ x.run = me /\ x.used = worker[w].used
    BY <1>1, <1>9 DEF AssembleRead
  <2> HIDE DEF x
  <2> QED BY <1>4, <1>9, <2>1 DEF AssembleRead, outside, runVars
<1>10. CASE AssembleWrite(w)
  BY <1>5, <1>7, <1>10 DEF AssembleWrite, Goto, outside, rowVars, Active
<1>11. CASE LoadRun(w)
  <2> DEFINE s == status[me]
             x == IF s \in Active THEN [worker[w] EXCEPT !.pc = "check", !.seen = s]
                  ELSE [worker[w] EXCEPT !.pc = "finalize", !.outcome = "stopped"]
  <2>1. Becomes(w, x) /\ x.pc \in {"check", "finalize"} /\ x.run = me /\ x.used = worker[w].used
    BY <1>1, <1>11 DEF LoadRun
  <2> HIDE DEF x
  <2> QED BY <1>4, <1>11, <2>1 DEF LoadRun, outside, runVars
<1>12. CASE Checkpoint(w)
  <2>1. /\ UNCHANGED <<brief, blueprint, teacher, client, nextRun, pair, lateCalls, calls, queue, status, artifact>>
        /\ worker[w].pc = "check"
    BY <1>12 DEF Checkpoint, outside, runVars
  <2>2. ASSUME NEW pc \in {"supersede", "validate"}, Goto(w, pc) PROVE Shape(w)
    BY <1>4, <1>7, <2>1, <2>2 DEF Goto
  <2>3. ASSUME IsCurrent(me), NEW l \in Remaining(w),
               Becomes(w, [worker[w] EXCEPT !.cursor = l, !.pc =
                             IF l \in Completed(me) THEN "load" ELSE "lesson"])
        PROVE  Shape(w)
    <3> DEFINE x == [worker[w] EXCEPT !.cursor = l, !.pc =
                       IF l \in Completed(me) THEN "load" ELSE "lesson"]
    <3>1. x.run = me /\ x.used = worker[w].used /\ x.cursor = l /\ x.pc = IF l \in Completed(me) THEN "load" ELSE "lesson"
      BY <1>1
    <3>2. Becomes(w, x)
      BY <2>3
    <3> HIDE DEF x
    <3>3. CASE l \in Completed(me)
      BY <1>4, <2>1, <3>1, <3>2, <3>3
    <3>4. CASE l \notin Completed(me)
      <4>1. worker'[w] = x /\ \A v \in Worker \ {w} : worker'[v] = worker[v]
        BY <1>2, <3>2
      <4>2. Keeps(w)
        BY <2>1, <3>1, <3>4, <4>1 DEF Keeps
      <4>3. l \in Lesson /\ artifact[me][l] \notin {"none", "complete"}
        BY <2>3, <3>4 DEF Completed, Remaining, Scope
      <4> QED BY <1>1, <2>1, <2>3, <3>1, <3>4, <4>1, <4>2, <4>3 DEF Shape
    <3> QED BY <3>3, <3>4
  <2> QED BY <1>12, <2>2, <2>3 DEF Checkpoint
<1>13. CASE SupersedeWrite(w)
  <2> DEFINE x == [worker[w] EXCEPT !.pc = "finalize", !.outcome = "superseded"]
  <2>1. Becomes(w, x) /\ x.pc = "finalize" /\ x.run = me /\ x.used = worker[w].used
    BY <1>1, <1>13 DEF SupersedeWrite
  <2> HIDE DEF x
  <2> QED BY <1>5, <1>13, <2>1 DEF SupersedeWrite, outside, rowVars
<1>14. CASE ValidateWrite(w)
  <2> DEFINE x == [worker[w] EXCEPT !.pc = "finalize", !.outcome = "done"]
  <2>1. Becomes(w, x) /\ x.pc = "finalize" /\ x.run = me /\ x.used = worker[w].used
    BY <1>1, <1>14 DEF ValidateWrite
  <2> HIDE DEF x
  <2> QED BY <1>5, <1>14, <2>1 DEF ValidateWrite, outside, rowVars, Active
<1>15. CASE LessonCall(w)
  <2> DEFINE x == [worker[w] EXCEPT !.used = @ + 1]
  <2>1. Becomes(w, x) /\ x.pc = "lesson" /\ x.run = me /\ worker[w].pc = "lesson"
    BY <1>1, <1>15 DEF LessonCall
  <2> HIDE DEF x
  <2>2. worker'[w] = x /\ \A v \in Worker \ {w} : worker'[v] = worker[v]
    BY <1>2, <2>1
  <2>3. UNCHANGED <<brief, blueprint, teacher, client, nextRun, pair, status, queue>>
        /\ SetArtifact(w, "working")
    BY <1>15 DEF LessonCall, outside
  <2>4. Keeps(w) /\ Writes(w)
    BY <2>1, <2>2, <2>3 DEF Keeps, Writes
  <2> QED BY <1>1, <1>15, <2>1, <2>2, <2>3, <2>4 DEF Shape
<1>16. CASE LessonCapped(w)
  <2> DEFINE x == [worker[w] EXCEPT !.pc = "finalize", !.outcome = "capped"]
  <2>1. Becomes(w, x) /\ x.pc = "finalize" /\ x.run = me /\ x.used = worker[w].used
    BY <1>1, <1>16 DEF LessonCapped
  <2> HIDE DEF x
  <2> QED BY <1>4, <1>16, <2>1 DEF LessonCapped, outside, runVars
<1>17. ASSUME NEW s \in {"complete", "failed"}, NEW pc \in {"load", "retry"}, LessonEnds(w, s, pc) PROVE Shape(w)
  <2> DEFINE x == [worker[w] EXCEPT !.pc = pc, !.used = 0]
  <2>1. Becomes(w, x) /\ x.pc = pc /\ x.run = me /\ x.used = 0
    BY <1>1, <1>17 DEF LessonEnds
  <2> HIDE DEF x
  <2> QED BY <1>4, <1>17, <2>1 DEF LessonEnds, Decides, outside
<1>18. CASE LessonComplete(w) \/ LessonFail(w) \/ LessonProviderError(w)
  BY <1>17, <1>18 DEF LessonComplete, LessonFail, LessonProviderError
<1>19. CASE LessonError(w)
  BY <1>4, <1>7, <1>19 DEF LessonError, Goto, outside, runVars
<1>20. CASE FinalizeRead(w)
  <2> DEFINE verdict ==
               IF worker[w].outcome = "superseded" THEN "superseded"
               ELSE IF worker[w].outcome = "capped" THEN "capped_failure"
               ELSE IF Completed(me) = Scope(me) THEN "complete"
               ELSE IF Completed(me) # {} THEN "partial_failure"
               ELSE "terminal_failure"
             x == [worker[w] EXCEPT !.pc = "settle", !.seen = status[me], !.outcome = verdict]
  <2>1. /\ UNCHANGED <<brief, blueprint, teacher, client, nextRun, pair, lateCalls, calls, queue, status, artifact>>
        /\ worker[w].pc = "finalize"
    BY <1>20 DEF FinalizeRead, outside, runVars
  <2>2. CASE status[me] \in Terminal
    BY <1>6, <1>20, <2>1, <2>2 DEF FinalizeRead
  <2>3. CASE status[me] \notin Terminal
    <3>1. x.pc = "settle" /\ x.run = me /\ x.used = worker[w].used /\ x.outcome = verdict
      BY <1>1
    <3>2. verdict = "complete" => Completed(me) = Scope(me)
      OBVIOUS
    <3>3. Becomes(w, x)
      BY <1>20, <2>3 DEF FinalizeRead
    <3> HIDE DEF x, verdict
    <3>4. worker'[w] = x /\ \A v \in Worker \ {w} : worker'[v] = worker[v]
      BY <1>2, <3>3
    <3>5. Keeps(w)
      BY <2>1, <3>1, <3>4 DEF Keeps
    <3> QED BY <1>1, <2>1, <3>1, <3>2, <3>4, <3>5 DEF Shape
  <2> QED BY <2>2, <2>3
<1>21. CASE FinalizeWrite(w) \/ ExhaustWrite(w)
  <2>1. /\ UNCHANGED <<brief, blueprint, teacher, client, nextRun, pair, lateCalls, calls, queue, artifact>>
        /\ worker[w].pc \in {"settle", "exhausted"} /\ Finish(w)
        /\ WorkerWrites(w, worker[w].outcome)
    BY <1>21 DEF FinalizeWrite, ExhaustWrite, outside, rowVars
  <2>2. status'[me] \in {status[me], worker[w].outcome}
    BY <1>3, <2>1
  <2>3. \A r \in RunId \ {me} : status'[r] = status[r]
    BY <1>3, <2>1
  <2> QED BY <1>6, <2>1, <2>2, <2>3
<1>22. CASE Retry(w)
  <2>1. /\ UNCHANGED <<brief, blueprint, teacher, client, nextRun, pair, lateCalls, calls, status, artifact>>
        /\ worker[w].pc = "retry"
    BY <1>22 DEF Retry, outside, runVars
  <2>2. CASE worker[w].attempt < MaxRetries
    <3> DEFINE a == worker[w].attempt + 1
    <3>1. a \in Attempt
      BY <1>1, <2>2, BoundAssumption DEF Attempt
    <3>2. queue' = [queue EXCEPT ![<<me, a>>] = @ + 1] /\ Finish(w)
      BY <1>22, <2>2 DEF Retry
    <3> HIDE DEF a
    <3>3. worker'[w] = IdleWorker /\ \A v \in Worker \ {w} : worker'[v] = worker[v]
      BY <1>2, <3>2 DEF Finish
    <3>4. worker'[w].pc = "idle" /\ worker'[w].used = 0
      BY <3>3 DEF IdleWorker
    <3>5. Requeues(w)
      BY <2>1, <3>1, <3>2, <3>4 DEF Requeues
    <3> QED BY <1>1, <2>1, <3>3, <3>4, <3>5 DEF Shape
  <2>3. CASE ~(worker[w].attempt < MaxRetries)
    BY <1>4, <1>7, <1>22, <2>1, <2>3 DEF Retry, Goto
  <2> QED BY <2>2, <2>3
<1>23. CASE ExhaustRead(w)
  <2> DEFINE o == IF Completed(me) # {} THEN "partial_failure" ELSE "terminal_failure"
             x == [worker[w] EXCEPT !.pc = "exhausted", !.seen = status[me], !.outcome = o]
  <2>1. /\ UNCHANGED <<brief, blueprint, teacher, client, nextRun, pair, lateCalls, calls, queue, status, artifact>>
        /\ worker[w].pc = "exhaust" /\ Becomes(w, x)
    BY <1>23 DEF ExhaustRead, outside, runVars
  <2>2. x.pc = "exhausted" /\ x.run = me /\ x.used = worker[w].used /\ x.outcome \in {"partial_failure", "terminal_failure"}
    BY <1>1
  <2> HIDE DEF x
  <2>3. worker'[w] = x /\ \A v \in Worker \ {w} : worker'[v] = worker[v]
    BY <1>2, <2>1
  <2>4. Keeps(w)
    BY <2>1, <2>2, <2>3 DEF Keeps
  <2> QED BY <1>1, <2>1, <2>2, <2>3, <2>4 DEF Shape
<1>24. CASE WorkerCrash(w)
  BY <1>6, <1>24 DEF WorkerCrash, versionVars, runVars, apiVars
<1> QED BY <1>8, <1>9, <1>10, <1>11, <1>12, <1>13, <1>14, <1>15, <1>16, <1>18, <1>19, <1>20,
           <1>21, <1>22, <1>23, <1>24 DEF WorkStep

\* A confirmation touches the versions and the statuses it supersedes.
LEMMA ConfirmHasShape ==
  ASSUME TypeInv, NEW p \in Project, ConfirmNext(p)
  PROVE  /\ UNCHANGED <<client, nextRun, pair, calls, lateCalls, artifact, queue, worker>>
         /\ \A q \in Project : brief'[q] >= brief[q] /\ blueprint'[q] >= blueprint[q]
         /\ \A r \in RunId : status'[r] \in {status[r], "superseded"}
         /\ \A q \in Project : teacher'[q].seen \subseteq teacher[q].seen \union ActiveRuns
         /\ \/ status' = status
            \/ Supersede(teacher[p].seen)
<1>1. brief \in [Project -> Nat] /\ blueprint \in [Project -> Nat] /\ status \in [RunId -> Status]
  <2>1. 0..MaxBrief \subseteq Nat /\ 0..MaxBlueprint \subseteq Nat
    BY BoundAssumption
  <2> QED BY <2>1 DEF TypeInv, TypeOK
<1>2. ASSUME NEW seen, Supersede(seen)
      PROVE  \A r \in RunId : status'[r] \in {status[r], "superseded"}
  BY <1>2 DEF Supersede
<1>3. ASSUME NEW x, x.seen \subseteq ActiveRuns, teacher' = [teacher EXCEPT ![p] = x]
      PROVE  \A q \in Project : teacher'[q].seen \subseteq teacher[q].seen \union ActiveRuns
  <2>1. teacher'[p] = x /\ \A q \in Project \ {p} : teacher'[q] = teacher[q]
    BY <1>3 DEF TypeInv, TypeOK
  <2> QED BY <1>3, <2>1
<1>4. CASE ConfirmBriefRead(p) \/ ConfirmBlueprintRead(p)
  <2>1. PICK pc : teacher' = [teacher EXCEPT ![p] =
                    [pc |-> pc, seen |-> {r \in ActiveRuns : pair[r].project = p}]]
    BY <1>4 DEF ConfirmBriefRead, ConfirmBlueprintRead
  <2>2. [pc |-> pc, seen |-> {r \in ActiveRuns : pair[r].project = p}].seen \subseteq ActiveRuns
    OBVIOUS
  <2>3. \A q \in Project : teacher'[q].seen \subseteq teacher[q].seen \union ActiveRuns
    BY <1>3, <2>1, <2>2
  <2> QED BY <1>1, <1>4, <2>3
          DEF ConfirmBriefRead, ConfirmBlueprintRead, versionVars, runVars, apiVars, taskVars
<1>5. CASE ConfirmBriefCommit(p) \/ ConfirmBlueprintCommit(p)
  <2>1. /\ teacher' = [teacher EXCEPT ![p] = IdleTeacher] /\ IdleTeacher.seen \subseteq ActiveRuns
        /\ Supersede(teacher[p].seen)
    BY <1>5 DEF ConfirmBriefCommit, ConfirmBlueprintCommit, IdleTeacher
  <2>2. \A q \in Project : teacher'[q].seen \subseteq teacher[q].seen \union ActiveRuns
    BY <1>3, <2>1
  <2>3. \A r \in RunId : status'[r] \in {status[r], "superseded"}
    BY <1>2, <2>1
  <2>4. \A q \in Project : brief'[q] >= brief[q] /\ blueprint'[q] >= blueprint[q]
    BY <1>1, <1>5 DEF ConfirmBriefCommit, ConfirmBlueprintCommit
  <2> QED BY <1>5, <2>1, <2>2, <2>3, <2>4
          DEF ConfirmBriefCommit, ConfirmBlueprintCommit, rowVars, apiVars, taskVars
<1> QED BY <1>4, <1>5 DEF ConfirmNext

\* What a step of a request does: it moves on without touching the rows, inserts the
\* next run, queues its delivery, or makes a resumable run active again.
Quiet == UNCHANGED <<nextRun, pair, status, artifact, queue>>
Moves(c) ==
  /\ Quiet
  /\ \/ client'[c].pc = "idle"
     \/ \E p \in Project : client'[c].pc = "admit" /\ client'[c].want = CurrentPair(p)
     \/ client[c].pc = "admit" /\ client'[c].pc = "insert" /\ client'[c].want = client[c].want
     \/ \E r \in Created : /\ client[c].pc = "idle"
                           /\ client'[c].pc = "resume" /\ client'[c].run = r
                           /\ status[r] \in Resumable
Inserts(c) ==
  /\ client[c].pc = "insert" /\ client'[c].pc = "dispatch" /\ client'[c].run = nextRun
  /\ nextRun \in RunId /\ nextRun' = nextRun + 1
  /\ pair' = [pair EXCEPT ![nextRun] = client[c].want]
  /\ status' = [status EXCEPT ![nextRun] = "queued"]
  /\ \A r \in RunId \ {nextRun} : artifact'[r] = artifact[r]
  /\ \A l \in Lesson : artifact'[nextRun][l] # "complete"
  /\ queue' = queue
Dispatches(c) ==
  /\ client[c].pc = "dispatch" /\ client'[c].pc = "idle"
  /\ queue' = [queue EXCEPT ![<<client[c].run, 0>>] = @ + 1]
  /\ UNCHANGED <<nextRun, pair, status, artifact>>
Resumes(c) ==
  /\ client[c].pc = "resume" /\ client'[c].pc = "dispatch" /\ client'[c].run = client[c].run
  /\ status' = [status EXCEPT ![client[c].run] = "queued"]
  /\ UNCHANGED <<nextRun, pair, artifact, queue>>

\* Every step of a request has one of these shapes.
LEMMA ClientHasShape ==
  ASSUME TypeInv, NEW c \in Client, ClientNext(c)
  PROVE  /\ UNCHANGED <<brief, blueprint, teacher, worker, calls, lateCalls>>
         /\ \A d \in Client \ {c} : client'[d] = client[d]
         /\ Moves(c) \/ Inserts(c) \/ Dispatches(c) \/ Resumes(c)
<1> DEFINE C == [pc : ClientPC, run : RunId, want : Pair]
           Rest == UNCHANGED <<brief, blueprint, teacher, worker, calls, lateCalls>>
           Others == \A d \in Client \ {c} : client'[d] = client[d]
<1>1. client \in [Client -> C] /\ client[c] \in C
  BY DEF TypeInv, TypeOK
<1>2. ASSUME NEW x, Request(c, x) PROVE client'[c] = x /\ Others
  BY <1>1, <1>2 DEF Request
<1>3. IdleClient.pc = "idle"
  BY DEF IdleClient
<1>4. ASSUME NEW p \in Project, StartRead(c, p) PROVE Rest /\ Others /\ Moves(c)
  <2> DEFINE x == [client[c] EXCEPT !.pc = "admit", !.want = CurrentPair(p)]
  <2>1. x.pc = "admit" /\ x.want = CurrentPair(p)
    BY <1>1
  <2>2. Request(c, x)
    BY <1>4 DEF StartRead
  <2> HIDE DEF x
  <2>3. client'[c] = x /\ Others
    BY <1>2, <2>2
  <2> QED BY <1>4, <2>1, <2>3 DEF StartRead, Moves, Quiet, versionVars, runVars, taskVars
<1>5. ASSUME NEW r \in RunId, ResumeRead(c, r) PROVE Rest /\ Others /\ Moves(c)
  <2> DEFINE x == [client[c] EXCEPT !.pc = "resume", !.run = r]
  <2>1. x.pc = "resume" /\ x.run = r
    BY <1>1
  <2>2. Request(c, x) /\ r \in Created /\ status[r] \in Resumable /\ client[c].pc = "idle"
    BY <1>5 DEF ResumeRead
  <2> HIDE DEF x
  <2>3. client'[c] = x /\ Others
    BY <1>2, <2>2
  <2> QED BY <1>5, <2>1, <2>2, <2>3 DEF ResumeRead, Moves, Quiet, versionVars, runVars, taskVars
<1>6. CASE StartAdmit(c)
  <2> DEFINE x == [client[c] EXCEPT !.pc = "insert"]
  <2>1. x.pc = "insert" /\ x.want = client[c].want
    BY <1>1
  <2>2. Request(c, x) /\ client[c].pc = "admit"
    BY <1>6 DEF StartAdmit
  <2> HIDE DEF x
  <2>3. client'[c] = x /\ Others
    BY <1>2, <2>2
  <2> QED BY <1>6, <2>1, <2>2, <2>3 DEF StartAdmit, Moves, Quiet, versionVars, runVars, taskVars
<1>7. CASE StartRefuse(c) \/ StartDuplicate(c) \/ DispatchLost(c)
  <2>1. client'[c] = IdleClient /\ Others
    BY <1>2, <1>7 DEF StartRefuse, StartDuplicate, DispatchLost
  <2> QED BY <1>3, <1>7, <2>1
          DEF StartRefuse, StartDuplicate, DispatchLost, Moves, Quiet, versionVars, runVars, taskVars
<1>8. CASE StartInsert(c)
  <2> DEFINE x == [client[c] EXCEPT !.pc = "dispatch", !.run = nextRun]
  <2>1. nextRun \in RunId
    BY <1>8 DEF StartInsert, TypeInv, TypeOK, RunId
  <2>2. x.pc = "dispatch" /\ x.run = nextRun
    BY <1>1
  <2>3. Request(c, x)
    BY <1>8 DEF StartInsert
  <2> HIDE DEF x
  <2>4. client'[c] = x /\ Others
    BY <1>2, <2>3
  <2>5. PICK scope \in ScopeChoices(client[c].want.project) :
          artifact' = [artifact EXCEPT ![nextRun] =
             [l \in Lesson |-> IF l \in scope THEN "pending" ELSE "none"]]
    BY <1>8 DEF StartInsert
  <2>6. /\ \A r \in RunId \ {nextRun} : artifact'[r] = artifact[r]
        /\ \A l \in Lesson : artifact'[nextRun][l] # "complete"
    BY <2>1, <2>5 DEF TypeInv, TypeOK
  <2> QED BY <1>8, <2>1, <2>2, <2>4, <2>6 DEF StartInsert, Inserts, versionVars, taskVars
<1>9. CASE Dispatch(c)
  <2>1. client'[c] = IdleClient /\ Others
    BY <1>2, <1>9 DEF Dispatch
  <2> QED BY <1>3, <1>9, <2>1 DEF Dispatch, Dispatches, versionVars, runVars
<1>10. CASE ResumeCommit(c)
  <2> DEFINE x == [client[c] EXCEPT !.pc = "dispatch"]
  <2>1. x.pc = "dispatch" /\ x.run = client[c].run
    BY <1>1
  <2>2. Request(c, x)
    BY <1>10 DEF ResumeCommit
  <2> HIDE DEF x
  <2>3. client'[c] = x /\ Others
    BY <1>2, <2>2
  <2> QED BY <1>10, <2>1, <2>3 DEF ResumeCommit, SetStatus, Resumes, versionVars, rowVars, taskVars
<1> QED BY <1>4, <1>5, <1>6, <1>7, <1>8, <1>9, <1>10 DEF ClientNext, RequestStep

-----------------------------------------------------------------------------
(* Nothing refers to a run before it exists, and versions only grow.        *)

CreatedInv ==
  /\ \A w \in Worker : worker[w].pc # "idle" => worker[w].run < nextRun
  /\ \A r \in RunId, a \in Attempt : queue[<<r, a>>] > 0 => r < nextRun
  /\ \A c \in Client : client[c].pc \in {"dispatch", "resume"} => client[c].run < nextRun
  /\ \A r \in RunId : r >= nextRun => lateCalls[r] = 0 /\ \A l \in Lesson : artifact[r][l] # "complete"

\* A confirmation creates nothing ...
LEMMA ConfirmCreated ==
  ASSUME TypeInv, CreatedInv, NEW p \in Project, ConfirmNext(p)
  PROVE  CreatedInv'
BY ConfirmHasShape DEF CreatedInv

\* ... a request names the run it creates, or one it has read ...
LEMMA ClientCreated ==
  ASSUME TypeInv, CreatedInv, NEW c \in Client, ClientNext(c)
  PROVE  CreatedInv'
<1>1. /\ nextRun \in Nat /\ RunId \subseteq Nat /\ 0 \in Attempt
      /\ \A d \in Client : client[d].run \in RunId
      /\ queue \in [RunId \X Attempt -> Nat]
  <2>1. nextRun \in Nat /\ RunId \subseteq Nat /\ 0 \in Attempt
    BY BoundAssumption DEF TypeInv, TypeOK, RunId, Attempt
  <2> QED BY <2>1 DEF TypeInv, TypeOK
<1>2. UNCHANGED <<worker, lateCalls>> /\ \A d \in Client \ {c} : client'[d] = client[d]
  BY ClientHasShape
<1>3. CASE Moves(c)
  <2>1. client'[c].pc \in {"dispatch", "resume"} => client'[c].run < nextRun
    BY <1>3 DEF Moves, Created
  <2> QED BY <1>2, <1>3, <2>1 DEF Moves, Quiet, CreatedInv
<1>4. CASE Inserts(c)
  <2>1. nextRun' = nextRun + 1 /\ queue' = queue /\ client'[c].run = nextRun
    BY <1>4 DEF Inserts
  <2>2. \A r \in RunId : r >= nextRun + 1 => artifact'[r] = artifact[r]
    BY <1>1, <1>4 DEF Inserts
  <2>3. \A w \in Worker : worker[w].run \in Nat
    BY <1>1 DEF TypeInv, TypeOK
  <2>4. \A w \in Worker : worker'[w].pc # "idle" => worker'[w].run < nextRun'
    BY <1>1, <1>2, <2>1, <2>3 DEF CreatedInv
  <2>5. \A r \in RunId, a \in Attempt : queue'[<<r, a>>] > 0 => r < nextRun'
    <3>1. \A r \in RunId, a \in Attempt : queue'[<<r, a>>] > 0 => r < nextRun
      BY <2>1 DEF CreatedInv
    <3> QED BY <1>1, <2>1, <3>1
  <2>6. \A d \in Client : client'[d].pc \in {"dispatch", "resume"} => client'[d].run < nextRun'
    <3>1. \A d \in Client : client[d].run \in Nat
      BY <1>1
    <3>2. \A d \in Client \ {c} : client'[d].pc \in {"dispatch", "resume"} => client'[d].run < nextRun
      BY <1>2 DEF CreatedInv
    <3>3. \A d \in Client \ {c} : client'[d].run \in Nat
      BY <1>2, <3>1
    <3> QED BY <1>1, <2>1, <3>2, <3>3
  <2>7. \A r \in RunId : r >= nextRun' =>
          lateCalls'[r] = 0 /\ \A l \in Lesson : artifact'[r][l] # "complete"
    <3>1. \A r \in RunId : r >= nextRun + 1 => r >= nextRun
      BY <1>1
    <3> QED BY <1>2, <2>1, <2>2, <3>1 DEF CreatedInv
  <2> QED BY <2>4, <2>5, <2>6, <2>7 DEF CreatedInv
<1>5. CASE Dispatches(c)
  <2> DEFINE d0 == <<client[c].run, 0>>
  <2>1. d0 \in RunId \X Attempt /\ client[c].run < nextRun /\ nextRun' = nextRun
    BY <1>1, <1>5 DEF Dispatches, CreatedInv
  <2>2. queue' = [queue EXCEPT ![d0] = queue[d0] + 1]
    BY <1>5 DEF Dispatches
  <2>3. \A r \in RunId, a \in Attempt : queue'[<<r, a>>] = queue[<<r, a>>] \/ r = client[c].run
    BY <1>1, <2>1, <2>2
  <2>4. \A r \in RunId, a \in Attempt : queue'[<<r, a>>] > 0 => r < nextRun
    BY <2>1, <2>3 DEF CreatedInv
  <2> QED BY <1>2, <1>5, <2>1, <2>4 DEF Dispatches, CreatedInv
<1>6. CASE Resumes(c)
  BY <1>2, <1>6 DEF Resumes, CreatedInv
<1> QED BY <1>3, <1>4, <1>5, <1>6, ClientHasShape

\* ... and a worker goes on with what it took.
LEMMA WorkerCreated ==
  ASSUME TypeInv, Settling, CreatedInv, NEW w \in Worker, WorkStep(w) \/ WorkerCrash(w)
  PROVE  CreatedInv'
<1> DEFINE me == worker[w].run
<1>1. /\ nextRun \in Nat /\ RunId \subseteq Nat /\ me \in RunId
      /\ queue \in [RunId \X Attempt -> Nat] /\ artifact \in [RunId -> [Lesson -> ArtifactStatus]]
      /\ lateCalls \in [RunId -> Nat]
  BY BoundAssumption DEF TypeInv, TypeOK, RunId
<1>2. Shape(w)
  BY WorkHasShape
<1>3. UNCHANGED <<client, nextRun>> /\ \A v \in Worker \ {w} : worker'[v] = worker[v]
  BY <1>2 DEF Shape
<1>4. \A r \in RunId : r >= nextRun => lateCalls'[r] = 0
  <2>1. CASE lateCalls' = lateCalls
    BY <2>1 DEF CreatedInv
  <2>2. CASE LessonCall(w)
    <3>1. me < nextRun
      BY <2>2 DEF LessonCall, CreatedInv
    <3>2. \A r \in RunId : r # me => lateCalls'[r] = lateCalls[r]
      BY <1>1, <2>2 DEF LessonCall
    <3>3. \A r \in RunId : r >= nextRun => r # me
      BY <1>1, <3>1
    <3> QED BY <3>2, <3>3 DEF CreatedInv
  <2> QED BY <1>2, <2>1, <2>2 DEF Shape
<1>5. \A r \in RunId : r >= nextRun => artifact'[r] = artifact[r]
  <2>1. CASE artifact' = artifact
    BY <2>1
  <2>2. CASE Writes(w)
    <3>1. me < nextRun
      BY <2>2 DEF Writes, CreatedInv
    <3>2. \A r \in RunId : r # me => artifact'[r] = artifact[r]
      <4>1. PICK s : artifact' = [artifact EXCEPT ![me][worker[w].cursor] = s]
        BY <2>2 DEF Writes, SetArtifact
      <4> QED BY <1>1, <4>1
    <3>3. \A r \in RunId : r >= nextRun => r # me
      BY <1>1, <3>1
    <3> QED BY <3>2, <3>3
  <2> QED BY <1>2, <2>1, <2>2 DEF Shape
<1>6. /\ worker'[w].pc # "idle" => worker'[w].run < nextRun
      /\ \A r \in RunId, a \in Attempt : queue'[<<r, a>>] > 0 => r < nextRun
  <2>1. CASE Takes(w)
    <3>1. PICK r \in RunId, a \in Attempt : Take(w, r, a)
      BY <2>1 DEF Takes
    <3>2. /\ queue[<<r, a>>] > 0 /\ queue' = [queue EXCEPT ![<<r, a>>] = queue[<<r, a>>] - 1]
          /\ worker'[w].run = r
      BY <3>1 DEF Take, Becomes, TypeInv, TypeOK
    <3>3. \A q \in RunId, b \in Attempt : queue'[<<q, b>>] > 0 => queue[<<q, b>>] > 0
      BY <1>1, <3>2
    <3> QED BY <3>2, <3>3 DEF CreatedInv
  <2>2. CASE Keeps(w) \/ Leaves(w)
    BY <2>2 DEF Keeps, Leaves, CreatedInv
  <2>3. CASE Requeues(w)
    <3>1. PICK a \in Attempt : queue' = [queue EXCEPT ![<<me, a>>] = queue[<<me, a>>] + 1]
      BY <2>3 DEF Requeues
    <3>2. \A r \in RunId, b \in Attempt : queue'[<<r, b>>] = queue[<<r, b>>] \/ r = me
      BY <1>1, <3>1
    <3>3. me < nextRun /\ worker'[w].pc = "idle"
      BY <2>3 DEF Requeues, CreatedInv
    <3> QED BY <3>2, <3>3 DEF CreatedInv
  <2> QED BY <1>2, <2>1, <2>2, <2>3 DEF Shape
<1> QED BY <1>3, <1>4, <1>5, <1>6 DEF CreatedInv

\* No reachable state refers to a run that does not exist.
LEMMA NothingBeforeItsRun == Spec => []CreatedInv
<1>1. Init => CreatedInv
  BY DEF Init, CreatedInv, IdleWorker, IdleClient
<1>2. TypeInv /\ Settling /\ CreatedInv /\ [Next]_vars => CreatedInv'
  <2> SUFFICES ASSUME TypeInv, Settling, CreatedInv, [Next]_vars PROVE CreatedInv'
    OBVIOUS
  <2>1. CASE UNCHANGED vars
    BY <2>1 DEF vars, CreatedInv
  <2>2. CASE Next
    BY <2>2, ConfirmCreated, ClientCreated, WorkerCreated DEF Next
  <2> QED BY <2>1, <2>2
<1> QED BY <1>1, <1>2, Reachable, PTL DEF Spec

AtMost(vp) == vp.brief <= brief[vp.project] /\ vp.blueprint <= blueprint[vp.project]

\* A pair that was read is never ahead of the versions.
VersionInv ==
  /\ \A r \in Created : AtMost(pair[r])
  /\ \A c \in Client : client[c].pc \in {"admit", "insert"} => AtMost(client[c].want)

\* A run is current while its pair agrees with the newest versions.
LEMMA CurrentMeans ==
  ASSUME TypeInv, NEW r \in RunId
  PROVE  /\ pair[r] \in Pair /\ pair[r].project \in Project
         /\ pair[r].brief \in Nat /\ pair[r].blueprint \in Nat
         /\ IsCurrent(r) <=> /\ pair[r].brief = brief[pair[r].project]
                             /\ pair[r].blueprint = blueprint[pair[r].project]
<1>1. pair[r] \in Pair
  BY DEF TypeInv, TypeOK
<1> QED BY <1>1, BoundAssumption DEF IsCurrent, CurrentPair, Pair

\* What is typed about the versions.
LEMMA VersionsTyped ==
  ASSUME TypeInv
  PROVE  /\ \A p \in Project : brief[p] \in Nat /\ blueprint[p] \in Nat
         /\ \A r \in RunId : pair[r] \in Pair
         /\ \A c \in Client : client[c].want \in Pair
         /\ \A vp \in Pair : vp.project \in Project /\ vp.brief \in Nat /\ vp.blueprint \in Nat
         /\ nextRun \in Nat /\ RunId \subseteq Nat /\ pair \in [RunId -> Pair]
<1>1. 0..MaxBrief \subseteq Nat /\ 0..MaxBlueprint \subseteq Nat
  BY BoundAssumption
<1>2. \A p \in Project : brief[p] \in Nat /\ blueprint[p] \in Nat
  BY <1>1 DEF TypeInv, TypeOK
<1>3. \A vp \in Pair : vp.project \in Project /\ vp.brief \in Nat /\ vp.blueprint \in Nat
  BY BoundAssumption DEF Pair
<1>4. nextRun \in Nat /\ RunId \subseteq Nat
  BY BoundAssumption DEF TypeInv, TypeOK, RunId
<1>5. pair \in [RunId -> Pair] /\ \A c \in Client : client[c].want \in Pair
  BY DEF TypeInv, TypeOK
<1> QED BY <1>2, <1>3, <1>4, <1>5

\* No pair gets ahead: a request reads the versions, and they only grow.
LEMMA VersionInvStep ==
  ASSUME TypeInv, Settling, VersionInv, Next
  PROVE  VersionInv'
<1>1. ASSUME \A q \in Project : brief'[q] >= brief[q] /\ blueprint'[q] >= blueprint[q],
             TypeInv'
      PROVE  \A vp \in Pair : AtMost(vp) => AtMost(vp)'
  <2> TAKE vp \in Pair
  <2>1. /\ vp.project \in Project /\ vp.brief \in Nat /\ vp.blueprint \in Nat
        /\ brief[vp.project] \in Nat /\ blueprint[vp.project] \in Nat
    BY VersionsTyped
  <2>2. brief'[vp.project] \in Nat /\ blueprint'[vp.project] \in Nat
    BY <1>1, <2>1, BoundAssumption DEF TypeInv, TypeOK
  <2> QED BY <1>1, <2>1, <2>2 DEF AtMost
<1>2. TypeInv'
  BY TypeInvStep
<1>3. ASSUME NEW p \in Project, ConfirmNext(p) PROVE VersionInv'
  <2>1. UNCHANGED <<client, nextRun, pair>> /\ \A vp \in Pair : AtMost(vp) => AtMost(vp)'
    BY <1>1, <1>2, <1>3, ConfirmHasShape
  <2>2. \A r \in Created : AtMost(pair[r])'
    <3> TAKE r \in Created
    <3>1. r \in RunId /\ pair[r] \in Pair /\ AtMost(pair[r])
      BY VersionsTyped DEF Created, VersionInv
    <3> QED BY <2>1, <3>1 DEF AtMost
  <2>3. \A c \in Client : client[c].pc \in {"admit", "insert"} => AtMost(client[c].want)'
    <3> TAKE c \in Client
    <3>1. client[c].want \in Pair
      BY VersionsTyped
    <3> QED BY <2>1, <3>1 DEF AtMost, VersionInv
  <2> QED BY <2>1, <2>2, <2>3 DEF VersionInv, Created
<1>4. ASSUME NEW w \in Worker, WorkStep(w) \/ WorkerCrash(w) PROVE VersionInv'
  <2>1. UNCHANGED <<client, nextRun, pair, brief, blueprint>>
    BY <1>4, WorkHasShape DEF Shape
  <2> QED BY <2>1 DEF VersionInv, AtMost, Created
<1>5. ASSUME NEW c \in Client, ClientNext(c) PROVE VersionInv'
  <2>1. /\ UNCHANGED <<brief, blueprint>> /\ \A d \in Client \ {c} : client'[d] = client[d]
        /\ Moves(c) \/ Inserts(c) \/ Dispatches(c) \/ Resumes(c)
    BY <1>5, ClientHasShape
  <2>2. CASE Moves(c)
    <3>1. client'[c].pc \in {"admit", "insert"} => AtMost(client'[c].want)
      <4>1. ASSUME NEW p \in Project, client'[c].want = CurrentPair(p)
            PROVE  AtMost(client'[c].want)
        BY <4>1, VersionsTyped DEF CurrentPair, AtMost
      <4>2. ASSUME client[c].pc = "admit", client'[c].want = client[c].want
            PROVE  AtMost(client'[c].want)
        BY <4>2 DEF VersionInv
      <4> QED BY <2>2, <4>1, <4>2 DEF Moves
    <3>2. \A d \in Client : client'[d].pc \in {"admit", "insert"} => AtMost(client'[d].want)
      BY <2>1, <3>1 DEF VersionInv
    <3>3. UNCHANGED <<pair, nextRun>>
      BY <2>2 DEF Moves, Quiet
    <3> QED BY <2>1, <3>2, <3>3 DEF VersionInv, AtMost, Created
  <2>3. CASE Inserts(c)
    <3>1. nextRun \in RunId /\ Created' = Created \union {nextRun}
      BY <2>3, VersionsTyped DEF Inserts, Created
    <3>2. pair'[nextRun] = client[c].want /\ \A r \in Created : pair'[r] = pair[r]
      BY <2>3, <3>1, VersionsTyped DEF Inserts, Created
    <3>3. \A r \in Created' : AtMost(pair'[r])
      BY <2>3, <3>1, <3>2 DEF Inserts, VersionInv
    <3>4. \A d \in Client : client'[d].pc \in {"admit", "insert"} => AtMost(client'[d].want)
      BY <2>1, <2>3 DEF Inserts, VersionInv
    <3> QED BY <2>1, <3>3, <3>4 DEF VersionInv, AtMost
  <2>4. CASE Dispatches(c) \/ Resumes(c)
    <3>1. UNCHANGED <<pair, nextRun>>
      BY <2>4 DEF Dispatches, Resumes
    <3>2. \A d \in Client : client'[d].pc \in {"admit", "insert"} => AtMost(client'[d].want)
      BY <2>1, <2>4 DEF Dispatches, Resumes, VersionInv
    <3> QED BY <2>1, <3>1, <3>2 DEF VersionInv, AtMost, Created
  <2> QED BY <2>1, <2>2, <2>3, <2>4
<1> QED BY <1>3, <1>4, <1>5 DEF Next

\* A run that exists and is not current never is again.
LEMMA StaleStays ==
  ASSUME TypeInv, Settling, VersionInv, Next, NEW r \in Created, ~IsCurrent(r)
  PROVE  ~IsCurrent(r)'
<1>1. TypeInv' /\ r \in RunId /\ AtMost(pair[r])
  BY TypeInvStep DEF Created, VersionInv
<1>2. \A q \in Project : brief'[q] >= brief[q] /\ blueprint'[q] >= blueprint[q]
  <2>1. CASE \E p \in Project : ConfirmNext(p)
    BY <2>1, ConfirmHasShape
  <2>2. CASE UNCHANGED <<brief, blueprint>>
    BY <2>2, VersionsTyped
  <2> QED BY <2>1, <2>2, ClientHasShape, WorkHasShape DEF Next, Shape
<1>3. pair'[r] = pair[r]
  <2>1. ASSUME NEW c \in Client, Inserts(c) PROVE pair'[r] = pair[r]
    BY <1>1, <2>1, VersionsTyped DEF Inserts, Created
  <2> QED BY <2>1, ConfirmHasShape, ClientHasShape, WorkHasShape
          DEF Next, Shape, Moves, Quiet, Dispatches, Resumes
<1>4. /\ pair[r].project \in Project /\ pair[r].brief \in Nat /\ pair[r].blueprint \in Nat
      /\ brief[pair[r].project] \in Nat /\ blueprint[pair[r].project] \in Nat
      /\ ~(pair[r].brief = brief[pair[r].project] /\ pair[r].blueprint = blueprint[pair[r].project])
  BY <1>1, CurrentMeans, VersionsTyped
<1>5. /\ brief'[pair[r].project] \in Nat /\ blueprint'[pair[r].project] \in Nat
      /\ brief'[pair[r].project] >= brief[pair[r].project]
      /\ blueprint'[pair[r].project] >= blueprint[pair[r].project]
  BY <1>1, <1>2, <1>4, BoundAssumption DEF TypeInv, TypeOK
<1>6. ~(pair[r].brief = brief'[pair[r].project] /\ pair[r].blueprint = blueprint'[pair[r].project])
  BY <1>1, <1>4, <1>5 DEF AtMost
<1> QED BY <1>3, <1>6 DEF IsCurrent, CurrentPair

-----------------------------------------------------------------------------
(* Stale work.  While a run is current it has no late call; once it is not, *)
(* the calls its workers still have in hand are the pairs of LateRoom, and  *)
(* each late call uses one up.                                              *)

LateRoom(r) ==
  {x \in Worker \X (1..LessonCalls) :
     worker[x[1]].pc = "lesson" /\ worker[x[1]].run = r /\ x[2] > worker[x[1]].used}

LateInv ==
  \A r \in Created :
    IF IsCurrent(r)
      THEN lateCalls[r] = 0
      ELSE lateCalls[r] + Cardinality(LateRoom(r)) <= LessonCalls * Cardinality(Worker)

\* As many pairs as calls of all workers.
LEMMA RoomIsFinite ==
  ASSUME TypeInv, IsFiniteSet(Worker), NEW S \in SUBSET (Worker \X (1..LessonCalls))
  PROVE  /\ IsFiniteSet(S) /\ Cardinality(S) \in Nat /\ Cardinality(Worker) \in Nat
         /\ Cardinality(S) <= LessonCalls * Cardinality(Worker)
         /\ LessonCalls * Cardinality(Worker) \in Nat
<1> DEFINE P == Worker \X (1..LessonCalls)
<1>1. IsFiniteSet(1..LessonCalls) /\ Cardinality(1..LessonCalls) = LessonCalls
  BY FS_Interval, BoundAssumption
<1>2. IsFiniteSet(P) /\ Cardinality(P) = Cardinality(Worker) * LessonCalls
  BY <1>1, FS_Product
<1>3. IsFiniteSet(S) /\ Cardinality(S) <= Cardinality(P)
  BY <1>2, FS_Subset
<1>4. Cardinality(Worker) \in Nat /\ Cardinality(S) \in Nat
  BY <1>3, FS_CardinalityType
<1>5. Cardinality(Worker) * LessonCalls = LessonCalls * Cardinality(Worker)
      /\ LessonCalls * Cardinality(Worker) \in Nat
  BY <1>4, BoundAssumption
<1> QED BY <1>2, <1>3, <1>4, <1>5

\* Only a call at work changes the count of late calls, and no stale run gets room.
LEMMA RoomShrinks ==
  ASSUME TypeInv, Settling, CreatedInv, Next, NEW r \in Created, ~IsCurrent(r),
         ~\E w \in Worker : LessonCall(w) /\ worker[w].run = r
  PROVE  LateRoom(r)' \subseteq LateRoom(r) /\ lateCalls'[r] = lateCalls[r]
<1>1. r \in RunId /\ lateCalls \in [RunId -> Nat]
  BY DEF Created, TypeInv, TypeOK
<1>2. ASSUME UNCHANGED <<worker, lateCalls>>
      PROVE  LateRoom(r)' \subseteq LateRoom(r) /\ lateCalls'[r] = lateCalls[r]
  BY <1>2 DEF LateRoom
<1>3. ASSUME NEW w \in Worker, WorkStep(w) \/ WorkerCrash(w)
      PROVE  LateRoom(r)' \subseteq LateRoom(r) /\ lateCalls'[r] = lateCalls[r]
  <2>1. Shape(w)
    BY <1>3, WorkHasShape
  <2>2. \A v \in Worker \ {w} : worker'[v] = worker[v]
    BY <2>1 DEF Shape
  <2>3. CASE LessonCall(w)
    <3>1. worker[w].run # r
      BY <2>3
    <3>2. worker'[w].run = worker[w].run
      BY <2>3 DEF LessonCall, Becomes, TypeInv, TypeOK
    <3>3. lateCalls'[r] = lateCalls[r]
      BY <1>1, <2>3, <3>1 DEF LessonCall
    <3>4. \A x \in LateRoom(r)' : x \in Worker \X (1..LessonCalls) /\ x[1] # w
      BY <3>1, <3>2 DEF LateRoom
    <3>5. \A x \in LateRoom(r)' : x \in LateRoom(r)
      BY <2>2, <3>4 DEF LateRoom
    <3> QED BY <3>3, <3>5
  <2>4. CASE ~LessonCall(w)
    <3>1. lateCalls'[r] = lateCalls[r]
      BY <2>1, <2>4 DEF Shape
    <3>2. ~(worker'[w].pc = "lesson" /\ worker'[w].run = r)
      BY <2>1, <2>4 DEF Shape
    <3>3. \A x \in LateRoom(r)' : x \in Worker \X (1..LessonCalls) /\ x[1] # w
      BY <3>2 DEF LateRoom
    <3>4. \A x \in LateRoom(r)' : x \in LateRoom(r)
      BY <2>2, <3>3 DEF LateRoom
    <3> QED BY <3>1, <3>4
  <2> QED BY <2>3, <2>4
<1> QED BY <1>2, <1>3, ConfirmHasShape, ClientHasShape DEF Next

\* A late call uses up one of the calls its worker had in hand.
LEMMA LateCallUsesRoom ==
  ASSUME TypeInv, IsFiniteSet(Worker), NEW w \in Worker, NEW r \in RunId, worker[w].run = r,
         LessonCall(w), ~IsCurrent(r)
  PROVE  /\ lateCalls'[r] = lateCalls[r] + 1
         /\ Cardinality(LateRoom(r)') + 1 <= Cardinality(LateRoom(r))
<1> DEFINE W == [pc : WorkerPC, run : RunId, attempt : Attempt, cursor : Lesson \union {0},
                 seen : Status, used : 0..LessonCalls, outcome : Outcome]
<1>1. /\ worker \in [Worker -> W] /\ worker[w] \in W /\ worker[w].used \in 0..LessonCalls
      /\ lateCalls \in [RunId -> Nat]
  BY DEF TypeInv, TypeOK
<1> PICK k \in 0..LessonCalls : k = worker[w].used
  BY <1>1
<1>2. lateCalls'[r] = lateCalls[r] + 1
  BY <1>1 DEF LessonCall
<1>3. worker[w].pc = "lesson" /\ k < LessonCalls
  BY DEF LessonCall
<1>4. <<w, k + 1>> \in LateRoom(r)
  <2>1. k + 1 \in 1..LessonCalls /\ k + 1 > k
    BY <1>1, <1>3, BoundAssumption
  <2> QED BY <1>3, <2>1 DEF LateRoom
<1>5. /\ worker'[w].used = k + 1 /\ worker'[w].run = r
      /\ \A v \in Worker \ {w} : worker'[v] = worker[v]
  BY <1>1 DEF LessonCall, Becomes
<1>6. \A x \in LateRoom(r)' : x \in LateRoom(r) \ {<<w, k + 1>>}
  <2> TAKE x \in LateRoom(r)'
  <2>1. /\ x \in Worker \X (1..LessonCalls) /\ x[1] \in Worker /\ x[2] \in 1..LessonCalls
        /\ worker'[x[1]].pc = "lesson" /\ worker'[x[1]].run = r /\ x[2] > worker'[x[1]].used
    BY DEF LateRoom
  <2>2. CASE x[1] = w
    <3>1. x[2] > k + 1 /\ k \in Nat
      BY <1>1, <1>5, <2>1, <2>2, BoundAssumption
    <3>2. x # <<w, k + 1>> /\ x[2] > k
      <4>1. x[2] \in Int
        BY <2>1, BoundAssumption
      <4>2. x[2] > k /\ x[2] # k + 1
        BY <3>1, <4>1
      <4> QED BY <4>2
    <3> QED BY <1>3, <2>1, <2>2, <3>2 DEF LateRoom
  <2>3. CASE x[1] # w
    BY <1>5, <2>1, <2>3 DEF LateRoom
  <2> QED BY <2>2, <2>3
<1>7. LateRoom(r) \in SUBSET (Worker \X (1..LessonCalls))
  BY DEF LateRoom
<1>8. IsFiniteSet(LateRoom(r)) /\ Cardinality(LateRoom(r)) \in Nat
  BY <1>7, RoomIsFinite
<1>9. /\ IsFiniteSet(LateRoom(r) \ {<<w, k + 1>>})
      /\ Cardinality(LateRoom(r) \ {<<w, k + 1>>}) = Cardinality(LateRoom(r)) - 1
  BY <1>4, <1>8, FS_RemoveElement
<1>10. Cardinality(LateRoom(r)') <= Cardinality(LateRoom(r) \ {<<w, k + 1>>})
       /\ Cardinality(LateRoom(r)') \in Nat
  BY <1>6, <1>9, FS_Subset, FS_CardinalityType
<1>11. Cardinality(LateRoom(r)') + 1 <= Cardinality(LateRoom(r))
  BY <1>8, <1>9, <1>10
<1> QED BY <1>2, <1>11

\* The bound holds for the run a step is about.
LEMMA LateInvStep ==
  ASSUME IsFiniteSet(Worker), TypeInv, Settling, CreatedInv, VersionInv, LateInv, Next
  PROVE  LateInv'
<1> DEFINE Bound == LessonCalls * Cardinality(Worker)
<1>1. TypeInv'
  BY TypeInvStep
<1>2. \A r \in RunId : /\ LateRoom(r)' \in SUBSET (Worker \X (1..LessonCalls))
                       /\ LateRoom(r) \in SUBSET (Worker \X (1..LessonCalls))
  BY DEF LateRoom
<1>3. ASSUME NEW S \in SUBSET (Worker \X (1..LessonCalls))
      PROVE  Cardinality(S) \in Nat /\ Cardinality(S) <= Bound /\ Bound \in Nat
  BY <1>3, RoomIsFinite
<1>4. ASSUME NEW r \in RunId, lateCalls'[r] = 0
      PROVE  IF IsCurrent(r)' THEN lateCalls'[r] = 0
             ELSE lateCalls'[r] + Cardinality(LateRoom(r)') <= Bound
  <2>1. Cardinality(LateRoom(r)') \in Nat /\ Cardinality(LateRoom(r)') <= Bound
    BY <1>2, <1>3
  <2> HIDE DEF Bound
  <2> QED BY <1>4, <2>1
<1>5. lateCalls \in [RunId -> Nat] /\ RunId \subseteq Nat /\ nextRun \in Nat
  BY VersionsTyped DEF TypeInv, TypeOK
<1>6. lateCalls' = lateCalls \/ \E w \in Worker : LessonCall(w)
  BY ConfirmHasShape, ClientHasShape, WorkHasShape DEF Next, Shape
<1>7. \A r \in Created' : r \in Created \/ (r = nextRun /\ nextRun' = nextRun + 1)
  <2>1. CASE nextRun' = nextRun
    BY <2>1 DEF Created
  <2>2. CASE nextRun' = nextRun + 1
    BY <1>5, <2>2 DEF Created
  <2> QED BY <2>1, <2>2, ConfirmHasShape, ClientHasShape, WorkHasShape
          DEF Next, Shape, Moves, Quiet, Inserts, Dispatches, Resumes
<1>8. ASSUME NEW r \in RunId, r = nextRun
      PROVE  lateCalls'[r] = 0
  <2>1. lateCalls[r] = 0
    BY <1>5, <1>8 DEF CreatedInv
  <2>2. ASSUME NEW w \in Worker, LessonCall(w) PROVE lateCalls'[r] = lateCalls[r]
    <3>1. worker[w].run # r
      BY <1>5, <1>8, <2>2 DEF LessonCall, CreatedInv
    <3> QED BY <1>5, <2>2, <3>1 DEF LessonCall
  <2> QED BY <1>6, <2>1, <2>2
<1>9. ASSUME NEW r \in Created, IsCurrent(r)
      PROVE  lateCalls'[r] = 0
  <2>1. lateCalls[r] = 0 /\ r \in RunId
    BY <1>9 DEF LateInv, Created
  <2>2. ASSUME NEW w \in Worker, LessonCall(w) PROVE lateCalls'[r] = lateCalls[r]
    BY <1>5, <1>9, <2>1, <2>2 DEF LessonCall
  <2> QED BY <1>6, <2>1, <2>2
<1>10. ASSUME NEW r \in Created, ~IsCurrent(r)
       PROVE  ~IsCurrent(r)' /\ lateCalls'[r] + Cardinality(LateRoom(r)') <= Bound
  <2>1. ~IsCurrent(r)' /\ r \in RunId
    BY <1>10, StaleStays DEF Created
  <2>2. lateCalls[r] + Cardinality(LateRoom(r)) <= Bound /\ lateCalls[r] \in Nat
    BY <1>5, <1>10, <2>1 DEF LateInv
  <2>3. /\ Cardinality(LateRoom(r)) \in Nat /\ Cardinality(LateRoom(r)') \in Nat /\ Bound \in Nat
    BY <1>2, <1>3, <2>1
  <2>4. CASE \E w \in Worker : LessonCall(w) /\ worker[w].run = r
    <3>1. /\ lateCalls'[r] = lateCalls[r] + 1
          /\ Cardinality(LateRoom(r)') + 1 <= Cardinality(LateRoom(r))
      BY <1>10, <2>1, <2>4, LateCallUsesRoom
    <3> HIDE DEF Bound
    <3>2. lateCalls'[r] + Cardinality(LateRoom(r)') <= Bound
      BY <2>2, <2>3, <3>1
    <3> QED BY <2>1, <3>2
  <2>5. CASE ~\E w \in Worker : LessonCall(w) /\ worker[w].run = r
    <3>1. LateRoom(r)' \subseteq LateRoom(r) /\ lateCalls'[r] = lateCalls[r]
      BY <1>10, <2>5, RoomShrinks
    <3>2. Cardinality(LateRoom(r)') <= Cardinality(LateRoom(r))
      <4>1. IsFiniteSet(LateRoom(r))
        BY <1>2, <2>1, RoomIsFinite
      <4> QED BY <3>1, <4>1, FS_Subset
    <3> HIDE DEF Bound
    <3>3. lateCalls'[r] + Cardinality(LateRoom(r)') <= Bound
      BY <2>2, <2>3, <3>1, <3>2
    <3> QED BY <2>1, <3>3
  <2> QED BY <2>4, <2>5
<1>11. ASSUME NEW r \in Created'
       PROVE  IF IsCurrent(r)' THEN lateCalls'[r] = 0
              ELSE lateCalls'[r] + Cardinality(LateRoom(r)') <= Bound
  <2>1. r \in RunId
    BY <1>11 DEF Created
  <2> HIDE DEF Bound
  <2> QED BY <1>4, <1>7, <1>8, <1>9, <1>10, <2>1
<1> QED BY <1>11 DEF LateInv

\* Once newer versions are confirmed, a run costs at most one lesson per worker, for
\* every number of runs, workers, lessons, retries, resumes and crashes: only the pool
\* of workers has to be finite.
THEOREM StaleWorkStaysBounded ==
  ASSUME IsFiniteSet(Worker)
  PROVE  Spec => []StaleWorkBounded
<1>1. Init => VersionInv /\ LateInv
  BY DEF Init, VersionInv, LateInv, Created, RunId, IdleClient
<1>2. TypeInv /\ Settling /\ CreatedInv /\ VersionInv /\ LateInv /\ [Next]_vars
        => (VersionInv /\ LateInv)'
  <2> SUFFICES ASSUME TypeInv, Settling, CreatedInv, VersionInv, LateInv, [Next]_vars
               PROVE  (VersionInv /\ LateInv)'
    OBVIOUS
  <2>1. CASE UNCHANGED vars
    BY <2>1 DEF vars, VersionInv, LateInv, Created, AtMost, IsCurrent, CurrentPair, LateRoom
  <2>2. CASE Next
    BY <2>2, IsFiniteSet(Worker), VersionInvStep, LateInvStep
  <2> QED BY <2>1, <2>2
<1>3. TypeInv /\ CreatedInv /\ LateInv => StaleWorkBounded
  <2> SUFFICES ASSUME TypeInv, CreatedInv, LateInv, NEW r \in RunId
               PROVE  lateCalls[r] <= LessonCalls * Cardinality(Worker)
    BY DEF StaleWorkBounded
  <2>1. LateRoom(r) \in SUBSET (Worker \X (1..LessonCalls))
    BY DEF LateRoom
  <2>2. /\ Cardinality(LateRoom(r)) \in Nat /\ LessonCalls * Cardinality(Worker) \in Nat
        /\ lateCalls[r] \in Nat
    BY <2>1, IsFiniteSet(Worker), RoomIsFinite DEF TypeInv, TypeOK
  <2>3. r \in Created \/ lateCalls[r] = 0
    BY VersionsTyped DEF Created, CreatedInv
  <2>4. lateCalls[r] = 0 \/ lateCalls[r] + Cardinality(LateRoom(r)) <= LessonCalls * Cardinality(Worker)
    BY <2>3 DEF LateInv
  <2> DEFINE B == LessonCalls * Cardinality(Worker)
  <2> HIDE DEF B
  <2>5. B \in Nat /\ (lateCalls[r] = 0 \/ lateCalls[r] + Cardinality(LateRoom(r)) <= B)
    BY <2>2, <2>4 DEF B
  <2>6. lateCalls[r] <= B
    BY <2>2, <2>5
  <2> QED BY <2>6 DEF B
<1> QED BY <1>1, <1>2, <1>3, Reachable, NothingBeforeItsRun, PTL DEF Spec

-----------------------------------------------------------------------------
(* One request at a time.                                                   *)

OneClient == \A c, d \in Client : c = d

Queued(r, a) == queue[<<r, a>>] > 0
Has(w, r) == worker[w].pc # "idle" /\ worker[w].run = r
Sends(c, r) == client[c].pc = "dispatch" /\ client[c].run = r
Revives(c, r) == client[c].pc = "resume" /\ client[c].run = r
Free(r) == (\A a \in Attempt : ~Queued(r, a)) /\ \A w \in Worker : ~Has(w, r)

\* Statuses that only the last step of a task writes.
Settled == Resumable \union {"complete", "terminal_failure"}

\* A run has one delivery, one worker or one request about to dispatch it, and none of
\* them when it is settled; what a client resumes was resumable when it looked, and
\* only a confirmation has touched it since.
OneToken(r) ==
  /\ \A a, b \in Attempt : Queued(r, a) /\ Queued(r, b) => a = b /\ queue[<<r, a>>] = 1
  /\ \A v, w \in Worker : Has(v, r) /\ Has(w, r) => v = w
  /\ \A w \in Worker, a \in Attempt : ~(Has(w, r) /\ Queued(r, a))
  /\ \A c \in Client : Sends(c, r) \/ Revives(c, r) => Free(r)
SettledIsFree(r) ==
  /\ r < nextRun /\ status[r] \in Settled => Free(r) /\ \A c \in Client : ~Sends(c, r)
  /\ \A c \in Client : Revives(c, r) => status[r] \in Resumable \union {"superseded"}
TokenInv == \A r \in RunId : OneToken(r) /\ SettledIsFree(r)

\* The runs of workers and requests are runs, and deliveries are counted.
LEMMA RunsTyped ==
  ASSUME TypeInv
  PROVE  /\ \A w \in Worker : worker[w].run \in RunId
         /\ \A c \in Client : client[c].run \in RunId
         /\ queue \in [RunId \X Attempt -> Nat] /\ 0 \in Attempt
         /\ status \in [RunId -> Status] /\ Created \subseteq RunId
         /\ artifact \in [RunId -> [Lesson -> ArtifactStatus]]
         /\ nextRun \in Nat /\ RunId \subseteq Nat
<1>1. nextRun \in Nat /\ RunId \subseteq Nat /\ 0 \in Attempt
  BY BoundAssumption DEF TypeInv, TypeOK, RunId, Attempt
<1> QED BY <1>1 DEF TypeInv, TypeOK, Created

\* A step that leaves the deliveries, workers and requests of a run alone, or only
\* takes some of the latter away, and that does not settle it.
LEMMA LeftAlone ==
  ASSUME NEW r \in RunId, OneToken(r), SettledIsFree(r),
         \A a \in Attempt : queue'[<<r, a>>] = queue[<<r, a>>],
         \A w \in Worker : Has(w, r)' => Has(w, r),
         \A c \in Client : (Sends(c, r)' => Sends(c, r)) /\ (Revives(c, r)' => Revives(c, r)),
         r < nextRun' => r < nextRun,
         status'[r] \in {status[r], "superseded"}
  PROVE  OneToken(r)' /\ SettledIsFree(r)'
<1>1. \A a \in Attempt : Queued(r, a)' <=> Queued(r, a)
  BY DEF Queued
<1>2. Free(r) => Free(r)'
  BY <1>1 DEF Free
<1>3. "superseded" \notin Settled
  BY DEF Settled, Resumable
<1>4. OneToken(r)'
  BY <1>1, <1>2 DEF OneToken
<1>5. SettledIsFree(r)'
  BY <1>2, <1>3 DEF SettledIsFree
<1> QED BY <1>4, <1>5

\* A confirmation settles nothing.
LEMMA ConfirmToken ==
  ASSUME TypeInv, TokenInv, NEW p \in Project, ConfirmNext(p), NEW r \in RunId
  PROVE  OneToken(r)' /\ SettledIsFree(r)'
<1>1. /\ UNCHANGED <<client, nextRun, queue, worker>>
      /\ status'[r] \in {status[r], "superseded"}
  BY ConfirmHasShape
<1>2. /\ \A a \in Attempt : queue'[<<r, a>>] = queue[<<r, a>>]
      /\ \A w \in Worker : Has(w, r)' => Has(w, r)
      /\ \A c \in Client : (Sends(c, r)' => Sends(c, r)) /\ (Revives(c, r)' => Revives(c, r))
      /\ r < nextRun' => r < nextRun
  BY <1>1 DEF Has, Sends, Revives
<1>3. OneToken(r) /\ SettledIsFree(r)
  BY DEF TokenInv
<1> QED BY <1>1, <1>2, <1>3, LeftAlone

\* A request dispatches a run nobody else has.
LEMMA ClientToken ==
  ASSUME OneClient, TypeInv, CreatedInv, TokenInv, NEW c \in Client, ClientNext(c),
         NEW r \in RunId
  PROVE  OneToken(r)' /\ SettledIsFree(r)'
<1>1. /\ worker' = worker /\ \A d \in Client : d = c
      /\ Moves(c) \/ Inserts(c) \/ Dispatches(c) \/ Resumes(c)
  BY ClientHasShape DEF OneClient
<1>2. OneToken(r) /\ SettledIsFree(r)
  BY DEF TokenInv
<1>3. \A w \in Worker : Has(w, r)' <=> Has(w, r)
  BY <1>1 DEF Has
<1>4. client[c].run \in RunId /\ nextRun \in Nat /\ r \in Nat /\ 0 \in Attempt
  BY RunsTyped
\* a run whose deliveries stay is free as before, and the requests decide the rest
<1>5. ASSUME queue' = queue, Sends(c, r)' \/ Revives(c, r)' => Free(r)
      PROVE  OneToken(r)' /\ (Free(r)' <=> Free(r))
  <2>1. \A a \in Attempt : Queued(r, a)' <=> Queued(r, a)
    BY <1>5 DEF Queued
  <2>2. Free(r)' <=> Free(r)
    BY <1>3, <2>1 DEF Free
  <2> QED BY <1>1, <1>2, <1>3, <1>5, <2>1, <2>2 DEF OneToken
<1>6. CASE Moves(c)
  <2>1. queue' = queue /\ status' = status /\ nextRun' = nextRun
    BY <1>6 DEF Moves, Quiet
  <2>2. ~Sends(c, r)'
    BY <1>6 DEF Moves, Sends
  <2>3. Revives(c, r)' => r < nextRun /\ status[r] \in Resumable
    BY <1>6 DEF Moves, Revives, Created
  <2>4. Revives(c, r)' => Free(r)
    BY <1>2, <2>3 DEF SettledIsFree, Settled
  <2>5. OneToken(r)' /\ (Free(r)' <=> Free(r))
    BY <1>5, <2>1, <2>2, <2>4
  <2>6. SettledIsFree(r)'
    BY <1>1, <1>2, <2>1, <2>2, <2>3, <2>5 DEF SettledIsFree
  <2> QED BY <2>5, <2>6
<1>7. CASE Inserts(c)
  <2>1. /\ queue' = queue /\ nextRun' = nextRun + 1 /\ nextRun \in RunId
        /\ status' = [status EXCEPT ![nextRun] = "queued"]
        /\ client'[c].pc = "dispatch" /\ client'[c].run = nextRun
    BY <1>7 DEF Inserts
  <2>2. r = nextRun => Free(r)
    BY <1>4 DEF CreatedInv, Free, Queued, Has
  <2>3. (Sends(c, r)' => r = nextRun) /\ ~Revives(c, r)'
    BY <2>1 DEF Sends, Revives
  <2>4. OneToken(r)' /\ (Free(r)' <=> Free(r))
    BY <1>5, <2>1, <2>2, <2>3
  <2>5. r = nextRun => status'[r] = "queued"
    BY <2>1, RunsTyped
  <2>6. r # nextRun => status'[r] = status[r] /\ (r < nextRun' => r < nextRun)
    <3>1. r # nextRun => status'[r] = status[r]
      BY <2>1, RunsTyped
    <3>2. r \in Nat /\ nextRun \in Nat /\ nextRun' = nextRun + 1
      BY <2>1, RunsTyped
    <3>3. r # nextRun => (r < nextRun' => r < nextRun)
      BY <3>2
    <3> QED BY <3>1, <3>3
  <2>7. "queued" \notin Settled
    BY DEF Settled, Resumable
  <2>8. SettledIsFree(r)'
    <3>1. r < nextRun' /\ status'[r] \in Settled => r # nextRun /\ r < nextRun /\ status[r] \in Settled
      BY <2>5, <2>6, <2>7
    <3> QED BY <1>1, <1>2, <2>3, <2>4, <3>1 DEF SettledIsFree
  <2> QED BY <2>4, <2>8
<1>8. CASE Dispatches(c)
  <2> PICK r0 \in RunId : r0 = client[c].run
    BY <1>4
  <2>1. /\ queue' = [queue EXCEPT ![<<r0, 0>>] = queue[<<r0, 0>>] + 1]
        /\ client[c].pc = "dispatch" /\ client'[c].pc = "idle" /\ status' = status
        /\ nextRun' = nextRun
    BY <1>8 DEF Dispatches
  <2>2. ~Sends(c, r)' /\ ~Revives(c, r)'
    BY <2>1 DEF Sends, Revives
  <2>3. CASE r # r0
    <3>1. \A a \in Attempt : queue'[<<r, a>>] = queue[<<r, a>>]
      BY <2>1, <2>3, RunsTyped
    <3>2. /\ \A d \in Client : (Sends(d, r)' => Sends(d, r)) /\ (Revives(d, r)' => Revives(d, r))
          /\ \A w \in Worker : Has(w, r)' => Has(w, r)
          /\ r < nextRun' => r < nextRun
          /\ status'[r] \in {status[r], "superseded"}
      BY <1>1, <1>3, <2>1, <2>2
    <3> QED BY <1>2, <3>1, <3>2, LeftAlone
  <2>4. CASE r = r0
    <3>1. Sends(c, r) /\ Free(r)
      BY <1>2, <2>1, <2>4 DEF Sends, OneToken
    <3>2. \A a \in Attempt : queue[<<r, a>>] \in Nat /\ ~(queue[<<r, a>>] > 0)
      BY <3>1, RunsTyped DEF Free, Queued
    <3>3. \A a \in Attempt : queue[<<r, a>>] = 0
      BY <3>2
    <3>4. \A a \in Attempt : queue'[<<r, a>>] = IF a = 0 THEN 1 ELSE 0
      BY <1>4, <2>1, <2>4, <3>3, RunsTyped
    <3>5. \A a, b \in Attempt : Queued(r, a)' /\ Queued(r, b)' => a = b /\ queue'[<<r, a>>] = 1
      BY <3>4 DEF Queued
    <3>6. \A w \in Worker : ~Has(w, r)'
      BY <1>3, <3>1 DEF Free
    <3>7. OneToken(r)'
      BY <1>1, <2>2, <3>5, <3>6 DEF OneToken
    <3>8. SettledIsFree(r)'
      BY <1>1, <1>2, <2>1, <2>2, <3>1 DEF SettledIsFree
    <3> QED BY <3>7, <3>8
  <2> QED BY <2>3, <2>4
<1>9. CASE Resumes(c)
  <2> PICK r0 \in RunId : r0 = client[c].run
    BY <1>4
  <2>1. /\ queue' = queue /\ status' = [status EXCEPT ![r0] = "queued"]
        /\ client[c].pc = "resume" /\ client'[c].pc = "dispatch" /\ client'[c].run = r0
        /\ nextRun' = nextRun
    BY <1>9 DEF Resumes
  <2>2. (Sends(c, r)' => r = r0) /\ ~Revives(c, r)'
    BY <2>1 DEF Sends, Revives
  <2>3. r = r0 => Free(r)
    BY <1>2, <2>1 DEF Revives, OneToken
  <2>4. OneToken(r)' /\ (Free(r)' <=> Free(r))
    BY <1>5, <2>1, <2>2, <2>3
  <2>5. status'[r] = IF r = r0 THEN "queued" ELSE status[r]
    BY <2>1, RunsTyped
  <2>6. "queued" \notin Settled
    BY DEF Settled, Resumable
  <2>7. SettledIsFree(r)'
    BY <1>1, <1>2, <2>1, <2>2, <2>4, <2>5, <2>6 DEF SettledIsFree
  <2> QED BY <2>4, <2>7
<1> QED BY <1>1, <1>6, <1>7, <1>8, <1>9


\* A worker takes the only delivery of a run, and leaves the run to nobody or to one
\* delivery.
LEMMA WorkerToken ==
  ASSUME TypeInv, Settling, CreatedInv, TokenInv, NEW w \in Worker, WorkStep(w) \/ WorkerCrash(w),
         NEW r \in RunId
  PROVE  OneToken(r)' /\ SettledIsFree(r)'
<1> PICK me \in RunId : me = worker[w].run
  BY RunsTyped
<1>1. Shape(w)
  BY WorkHasShape
<1>2. /\ client' = client /\ nextRun' = nextRun
      /\ \A v \in Worker \ {w} : worker'[v] = worker[v]
      /\ r # me => status'[r] = status[r]
  BY <1>1 DEF Shape
<1>3. /\ \A c \in Client : (Sends(c, r)' <=> Sends(c, r)) /\ (Revives(c, r)' <=> Revives(c, r))
      /\ \A v \in Worker \ {w} : Has(v, r)' <=> Has(v, r)
  BY <1>2 DEF Has, Sends, Revives
<1>4. OneToken(r) /\ SettledIsFree(r)
  BY DEF TokenInv
\* a run the worker neither had nor has now
<1>5. ASSUME ~Has(w, r)', \A a \in Attempt : queue'[<<r, a>>] = queue[<<r, a>>],
             status'[r] = status[r]
      PROVE  OneToken(r)' /\ SettledIsFree(r)'
  BY <1>2, <1>3, <1>4, <1>5, LeftAlone
\* the run of a task at work is not settled, and nobody else has it
<1>6. ASSUME Has(w, r)
      PROVE  /\ r < nextRun /\ status[r] \notin Settled
             /\ \A a \in Attempt : ~Queued(r, a)
             /\ \A v \in Worker : Has(v, r) => v = w
             /\ \A c \in Client : ~Sends(c, r) /\ ~Revives(c, r)
  <2>1. ~Free(r) /\ r < nextRun
    BY <1>6 DEF Free, Has, CreatedInv
  <2> QED BY <1>4, <1>6, <2>1 DEF OneToken, SettledIsFree
<1>7. CASE Takes(w)
  <2> PICK q \in RunId, a \in Attempt : Take(w, q, a)
    BY <1>7 DEF Takes
  <2>1. /\ queue[<<q, a>>] > 0 /\ queue' = [queue EXCEPT ![<<q, a>>] = queue[<<q, a>>] - 1]
        /\ worker'[w].run = q /\ worker[w].pc = "idle" /\ status' = status
    BY DEF Take, Becomes, TypeInv, TypeOK, runVars
  <2>2. CASE r # q
    <3>1. \A b \in Attempt : queue'[<<r, b>>] = queue[<<r, b>>]
      BY <2>1, <2>2, RunsTyped
    <3>2. ~Has(w, r)'
      BY <2>1, <2>2 DEF Has
    <3> QED BY <1>5, <2>1, <3>1, <3>2
  <2>3. CASE r = q
    <3>1. Queued(r, a) /\ queue[<<r, a>>] = 1 /\ \A b \in Attempt : b # a => ~Queued(r, b)
      BY <1>4, <2>1, <2>3 DEF OneToken, Queued
    <3>2. queue'[<<r, a>>] = 0 /\ \A b \in Attempt : b # a => queue'[<<r, b>>] = queue[<<r, b>>]
      BY <2>1, <2>3, <3>1, RunsTyped
    <3>3. \A b \in Attempt : ~Queued(r, b)'
      BY <3>1, <3>2 DEF Queued
    <3>4. \A v \in Worker : ~Has(v, r)
      BY <1>4, <3>1 DEF OneToken
    <3>5. ~Free(r)
      BY <3>1 DEF Free
    <3>6. OneToken(r)'
      BY <1>3, <1>4, <3>3, <3>4, <3>5 DEF OneToken
    <3>7. SettledIsFree(r)'
      BY <1>2, <1>3, <1>4, <2>1, <3>5 DEF SettledIsFree
    <3> QED BY <3>6, <3>7
  <2> QED BY <2>2, <2>3
<1>8. CASE Keeps(w) \/ Leaves(w)
  <2>1. queue' = queue /\ worker[w].pc # "idle"
    BY <1>8 DEF Keeps, Leaves
  <2>2. Has(w, r)' => Has(w, r)
    BY <1>8 DEF Keeps, Leaves, Has
  <2>3. CASE r # me
    <3>1. ~Has(w, r)'
      BY <2>2, <2>3 DEF Has
    <3> QED BY <1>2, <1>5, <2>1, <2>3, <3>1
  <2>4. CASE r = me
    <3>1. Has(w, r)
      BY <2>1, <2>4 DEF Has
    <3>2. \A a \in Attempt : ~Queued(r, a)'
      BY <1>6, <2>1, <3>1 DEF Queued
    <3>3. /\ \A v \in Worker : Has(v, r)' => v = w
          /\ \A c \in Client : ~Sends(c, r)' /\ ~Revives(c, r)'
      BY <1>3, <1>6, <3>1
    <3>4. OneToken(r)'
      BY <3>2, <3>3 DEF OneToken
    <3>5. CASE Keeps(w)
      <4>1. status'[r] \in {status[r], "superseded"} \union Active
        BY <2>4, <3>5 DEF Keeps
      <4>2. status'[r] \notin Settled
        BY <1>6, <3>1, <4>1 DEF Settled, Resumable, Active
      <4>3. SettledIsFree(r)'
        BY <3>3, <4>2 DEF SettledIsFree
      <4> QED BY <3>4, <4>3
    <3>6. CASE Leaves(w)
      <4>1. ~Has(w, r)'
        BY <3>6 DEF Leaves, Has
      <4>2. Free(r)'
        BY <3>2, <3>3, <4>1 DEF Free
      <4>3. SettledIsFree(r)'
        BY <3>3, <4>2 DEF SettledIsFree
      <4> QED BY <3>4, <4>3
    <3> QED BY <1>8, <3>5, <3>6
  <2> QED BY <2>3, <2>4
<1>9. CASE Requeues(w)
  <2> PICK a \in Attempt : queue' = [queue EXCEPT ![<<me, a>>] = queue[<<me, a>>] + 1]
    BY <1>9 DEF Requeues
  <2>1. worker[w].pc # "idle" /\ ~Has(w, r)' /\ status' = status
    BY <1>9 DEF Requeues, Has
  <2>2. CASE r # me
    <3>1. \A b \in Attempt : queue'[<<r, b>>] = queue[<<r, b>>]
      BY <2>2, RunsTyped
    <3> QED BY <1>5, <2>1, <3>1
  <2>3. CASE r = me
    <3>1. Has(w, r)
      BY <2>1, <2>3 DEF Has
    <3>2. \A b \in Attempt : queue[<<r, b>>] \in Nat /\ ~(queue[<<r, b>>] > 0)
      BY <1>6, <3>1, RunsTyped DEF Queued
    <3>3. \A b \in Attempt : queue[<<r, b>>] = 0
      BY <3>2
    <3>4. \A b \in Attempt : queue'[<<r, b>>] = IF b = a THEN 1 ELSE 0
      BY <2>3, <3>3, RunsTyped
    <3>5. \A b, b1 \in Attempt : Queued(r, b)' /\ Queued(r, b1)' => b = b1 /\ queue'[<<r, b>>] = 1
      BY <3>4 DEF Queued
    <3>6. /\ \A v \in Worker : ~Has(v, r)'
          /\ \A c \in Client : ~Sends(c, r)' /\ ~Revives(c, r)'
      BY <1>3, <1>6, <2>1, <3>1
    <3>7. OneToken(r)'
      BY <3>5, <3>6 DEF OneToken
    <3>8. SettledIsFree(r)'
      BY <1>6, <2>1, <3>1, <3>6 DEF SettledIsFree
    <3> QED BY <3>7, <3>8
  <2> QED BY <2>2, <2>3
<1> QED BY <1>1, <1>7, <1>8, <1>9 DEF Shape

\* Whatever happens, every run keeps to one token.
LEMMA TokenInvStep ==
  ASSUME OneClient, TypeInv, Settling, CreatedInv, TokenInv, [Next]_vars
  PROVE  TokenInv'
<1>1. CASE UNCHANGED vars
  BY <1>1 DEF vars, TokenInv, OneToken, SettledIsFree, Free, Queued, Has, Sends, Revives
<1>2. CASE Next
  <2> SUFFICES ASSUME NEW r \in RunId PROVE OneToken(r)' /\ SettledIsFree(r)'
    BY DEF TokenInv
  <2> QED BY <1>2, ConfirmToken, ClientToken, WorkerToken DEF Next
<1> QED BY <1>1, <1>2

\* Before the first request there is nothing to hold.
LEMMA InitToken == Init => TokenInv
<1> SUFFICES ASSUME Init, NEW r \in RunId PROVE OneToken(r) /\ SettledIsFree(r)
  BY DEF TokenInv
<1>1. /\ \A a \in Attempt : ~Queued(r, a)
      /\ \A w \in Worker : ~Has(w, r)
      /\ \A c \in Client : ~Sends(c, r) /\ ~Revives(c, r)
      /\ nextRun = 1 /\ r >= 1
  BY DEF Init, Queued, Has, Sends, Revives, IdleClient, IdleWorker, RunId
<1> QED BY <1>1 DEF OneToken, SettledIsFree, Free

\* While requests come one at a time, a run never has two tasks.
THEOREM OneTokenPerRun ==
  ASSUME OneClient
  PROVE  Spec => []OneTaskPerRun
<1>1. TypeInv /\ Settling /\ CreatedInv /\ TokenInv /\ [Next]_vars => TokenInv'
  BY OneClient, TokenInvStep
<1>2. TokenInv => OneTaskPerRun
  <2> SUFFICES ASSUME TokenInv, NEW r \in RunId
               PROVE  /\ \A a, b \in Attempt :
                           queue[<<r, a>>] > 0 /\ queue[<<r, b>>] > 0 => a = b /\ queue[<<r, a>>] = 1
                      /\ Cardinality(Busy(r) \union Dispatching(r)) <= 1
                      /\ (\E a \in Attempt : queue[<<r, a>>] > 0) =>
                            Busy(r) \union Dispatching(r) = {}
    BY DEF OneTaskPerRun
  <2> DEFINE T == Busy(r) \union Dispatching(r)
  <2>1. /\ \A x \in Busy(r) : x \in Worker /\ Has(x, r)
        /\ \A x \in Dispatching(r) : x \in Client /\ Sends(x, r)
    BY DEF Busy, Dispatching, Has, Sends
  <2>2. OneToken(r)
    BY DEF TokenInv
  <2>3. \A x, y \in T : x = y
    <3>1. \A x, y \in Busy(r) : x = y
      BY <2>1, <2>2 DEF OneToken
    <3>2. \A x, y \in Dispatching(r) : x = y
      BY <2>1, OneClient DEF OneClient
    <3>3. ASSUME NEW x \in Busy(r), NEW y \in Dispatching(r) PROVE FALSE
      BY <2>1, <2>2 DEF OneToken, Free
    <3> QED BY <3>1, <3>2, <3>3
  <2>4. Cardinality(T) <= 1
    <3>1. CASE T = {}
      BY <3>1, FS_EmptySet
    <3>2. CASE T # {}
      <4> PICK x \in T : TRUE
        BY <3>2
      <4>1. T = {x}
        BY <2>3
      <4>2. Cardinality(T) = 1
        BY <4>1, FS_Singleton
      <4> QED BY <4>2
    <3> QED BY <3>1, <3>2
  <2>5. ASSUME NEW a \in Attempt, queue[<<r, a>>] > 0 PROVE T = {}
    <3>1. Queued(r, a) /\ ~Free(r)
      BY <2>5 DEF Queued, Free
    <3> QED BY <2>1, <2>2, <3>1 DEF OneToken
  <2> HIDE DEF T
  <2>6. \A a, b \in Attempt :
          queue[<<r, a>>] > 0 /\ queue[<<r, b>>] > 0 => a = b /\ queue[<<r, a>>] = 1
    BY <2>2 DEF OneToken, Queued
  <2> QED BY <2>4, <2>5, <2>6 DEF T
<1> QED BY <1>1, <1>2, InitToken, Reachable, NothingBeforeItsRun, PTL DEF Spec


-----------------------------------------------------------------------------
(* Completed lessons and complete runs, one request at a time.              *)

Whole(r) == Completed(r) = Scope(r)

\* A task that will settle its run as complete has counted every lesson, and nobody
\* has touched them since; a lesson in work was not complete when it was chosen.
TaskInv(w) ==
  /\ worker[w].pc = "exhausted" => worker[w].outcome # "complete"
  /\ worker[w].pc = "settle" /\ worker[w].outcome = "complete" => Whole(worker[w].run)
  /\ worker[w].pc = "lesson" =>
       /\ worker[w].cursor \in Lesson
       /\ artifact[worker[w].run][worker[w].cursor] \notin {"none", "complete"}
WholeInv ==
  /\ \A w \in Worker : TaskInv(w)
  /\ \A r \in RunId : r < nextRun /\ status[r] = "complete" => Whole(r)

\* Whether a run is whole depends on its artifacts alone.
LEMMA WholeDepends ==
  ASSUME NEW r \in RunId, artifact'[r] = artifact[r]
  PROVE  /\ Whole(r)' <=> Whole(r)
         /\ Completed(r)' = Completed(r)
BY DEF Whole, Completed, Scope

\* A worker writes the artifacts of its own run only ...
LEMMA WorkerArtifacts ==
  ASSUME TypeInv, Settling, NEW w \in Worker, WorkStep(w) \/ WorkerCrash(w), NEW r \in RunId
  PROVE  \/ artifact'[r] = artifact[r]
         \/ Has(w, r) /\ Writes(w)
<1>1. artifact' = artifact \/ Writes(w)
  BY WorkHasShape DEF Shape
<1>2. ASSUME Writes(w), worker[w].run # r PROVE artifact'[r] = artifact[r]
  BY <1>2, RunsTyped DEF Writes, SetArtifact
<1> QED BY <1>1, <1>2 DEF Writes, Has

\* ... and a lesson that is not complete.
LEMMA WritesSpare ==
  ASSUME TypeInv, NEW w \in Worker, TaskInv(w), Writes(w), NEW r \in RunId, NEW l \in Lesson,
         artifact[r][l] = "complete"
  PROVE  artifact'[r][l] = "complete"
<1> PICK me \in RunId : me = worker[w].run
  BY RunsTyped
<1>1. worker[w].cursor \in Lesson /\ artifact[me][worker[w].cursor] # "complete"
  BY DEF Writes, TaskInv
<1> PICK k \in Lesson : k = worker[w].cursor
  BY <1>1
<1>2. ~(r = me /\ l = k)
  BY <1>1
<1> PICK s : artifact' = [artifact EXCEPT ![me][k] = s]
  BY DEF Writes, SetArtifact
<1>3. artifact'[me] = [artifact[me] EXCEPT ![k] = s] /\ (r # me => artifact'[r] = artifact[r])
  BY RunsTyped
<1>4. artifact[me] \in [Lesson -> ArtifactStatus]
  BY RunsTyped
<1>5. r = me => artifact'[r][l] = artifact[r][l]
  BY <1>2, <1>3, <1>4
<1> QED BY <1>3, <1>5

\* What a task knows stays true while its run's artifacts do.
LEMMA TaskStays ==
  ASSUME TypeInv, NEW w \in Worker, TaskInv(w), worker'[w] = worker[w],
         NEW r \in RunId, worker[w].run = r, Has(w, r) => artifact'[r] = artifact[r]
  PROVE  TaskInv(w)'
<1>1. worker'[w].run = r
  OBVIOUS
<1>2. worker[w].pc # "idle" => artifact'[r] = artifact[r] /\ (Whole(r)' <=> Whole(r))
  BY WholeDepends DEF Has
<1>3. /\ worker'[w].pc = "exhausted" => worker'[w].outcome # "complete"
      /\ worker'[w].pc = "lesson" =>
           worker'[w].cursor \in Lesson /\ artifact'[r][worker'[w].cursor] \notin {"none", "complete"}
  BY <1>2 DEF TaskInv
<1>4. worker'[w].pc = "settle" /\ worker'[w].outcome = "complete" =>
        Completed(r)' = Scope(r)'
  BY <1>2 DEF TaskInv, Whole
<1> QED BY <1>1, <1>3, <1>4 DEF TaskInv, Whole, Completed, Scope

\* What a worker's own step makes of its task.
LEMMA TaskMoves ==
  ASSUME TypeInv, Settling, NEW w \in Worker, TaskInv(w), WorkStep(w) \/ WorkerCrash(w)
  PROVE  TaskInv(w)'
<1> PICK me \in RunId : me = worker[w].run
  BY RunsTyped
<1>1. Shape(w)
  BY WorkHasShape
<1>2. worker'[w].pc = "exhausted" => worker'[w].outcome # "complete"
  BY <1>1 DEF Shape
<1>3. ASSUME worker'[w].pc = "settle", worker'[w].outcome = "complete"
      PROVE  Whole(worker[w].run)' /\ worker'[w].run = me
  <2>1. worker'[w].run = me /\ Whole(me) /\ artifact' = artifact
    BY <1>1, <1>3 DEF Shape, Whole
  <2> QED BY <2>1, WholeDepends DEF Whole, Completed, Scope
<1>4. ASSUME worker'[w].pc = "lesson"
      PROVE  /\ worker'[w].run = me /\ worker'[w].cursor \in Lesson
             /\ artifact'[me][worker'[w].cursor] \notin {"none", "complete"}
  <2>1. CASE LessonCall(w)
    <3> PICK k \in Lesson : k = worker[w].cursor
      BY <2>1 DEF LessonCall, TaskInv
    <3>1. artifact' = [artifact EXCEPT ![me][k] = "working"]
      BY <2>1 DEF LessonCall, SetArtifact
    <3>2. artifact'[me][k] = "working"
      BY <3>1, RunsTyped
    <3>3. worker'[w].run = me /\ worker'[w].cursor = k
      BY <2>1 DEF LessonCall, Becomes, TypeInv, TypeOK
    <3> QED BY <3>2, <3>3
  <2>2. CASE ~LessonCall(w)
    BY <1>1, <1>4, <2>2 DEF Shape
  <2> QED BY <2>1, <2>2
<1> QED BY <1>2, <1>3, <1>4 DEF TaskInv, Whole, Completed, Scope


\* Everything that is known of tasks and complete runs stays true.
LEMMA WholeInvStep ==
  ASSUME OneClient, TypeInv, Settling, CreatedInv, TokenInv, WholeInv, [Next]_vars
  PROVE  WholeInv'
<1>1. CASE UNCHANGED vars
  BY <1>1 DEF vars, WholeInv, TaskInv, Whole, Completed, Scope
<1>2. CASE \E p \in Project : ConfirmNext(p)
  <2>1. /\ UNCHANGED <<nextRun, artifact, worker>>
        /\ \A r \in RunId : status'[r] \in {status[r], "superseded"}
    BY <1>2, ConfirmHasShape
  <2>2. \A w \in Worker : TaskInv(w)'
    BY <2>1 DEF WholeInv, TaskInv, Whole, Completed, Scope
  <2>3. \A r \in RunId : r < nextRun' /\ status'[r] = "complete" => Whole(r)'
    BY <2>1, WholeDepends DEF WholeInv
  <2> QED BY <2>2, <2>3 DEF WholeInv
<1>3. CASE \E c \in Client : ClientNext(c)
  <2> PICK c \in Client : ClientNext(c)
    BY <1>3
  <2>1. worker' = worker /\ (Moves(c) \/ Inserts(c) \/ Dispatches(c) \/ Resumes(c))
    BY ClientHasShape
  <2>2. \A r \in RunId : artifact'[r] = artifact[r] \/ r = nextRun
    BY <2>1 DEF Moves, Quiet, Inserts, Dispatches, Resumes
  <2>3. ASSUME NEW w \in Worker PROVE TaskInv(w)'
    <3> PICK r \in RunId : r = worker[w].run
      BY RunsTyped
    <3>1. Has(w, r) => r # nextRun
      BY RunsTyped DEF CreatedInv, Has
    <3> QED BY <2>1, <2>2, <3>1, TaskStays DEF WholeInv
  <2>4. ASSUME NEW r \in RunId, r < nextRun', status'[r] = "complete" PROVE Whole(r)'
    <3>1. r # nextRun /\ status[r] = "complete" /\ r < nextRun
      <4>1. CASE Moves(c) \/ Dispatches(c)
        BY <2>4, <4>1, RunsTyped DEF Moves, Quiet, Dispatches
      <4>2. CASE Inserts(c)
        <5>1. nextRun' = nextRun + 1 /\ status' = [status EXCEPT ![nextRun] = "queued"]
          BY <4>2 DEF Inserts
        <5>2. r # nextRun
          BY <2>4, <5>1, RunsTyped
        <5>3. status[r] = "complete"
          BY <2>4, <5>1, <5>2, RunsTyped
        <5>4. r < nextRun
          <6>1. r \in Nat /\ nextRun \in Nat /\ r < nextRun + 1
            BY <2>4, <5>1, RunsTyped
          <6> QED BY <5>2, <6>1
        <5> QED BY <5>2, <5>3, <5>4
      <4>3. CASE Resumes(c)
        <5>1. nextRun' = nextRun /\ status' = [status EXCEPT ![client[c].run] = "queued"]
          BY <4>3 DEF Resumes
        <5> QED BY <2>4, <5>1, RunsTyped
      <4> QED BY <2>1, <4>1, <4>2, <4>3
    <3> QED BY <2>2, <3>1, WholeDepends DEF WholeInv
  <2> QED BY <2>3, <2>4 DEF WholeInv
<1>4. CASE \E w \in Worker : WorkStep(w) \/ WorkerCrash(w)
  <2> PICK w \in Worker : WorkStep(w) \/ WorkerCrash(w)
    BY <1>4
  <2>1. Shape(w)
    BY WorkHasShape
  <2>2. TaskInv(w)
    BY DEF WholeInv
  <2>3. ASSUME NEW v \in Worker, v # w PROVE TaskInv(v)'
    <3> PICK r \in RunId : r = worker[v].run
      BY RunsTyped
    <3>1. worker'[v] = worker[v]
      BY <2>1, <2>3 DEF Shape
    <3>2. Has(v, r) => ~Has(w, r)
      BY <2>3 DEF TokenInv, OneToken
    <3>3. Has(v, r) => artifact'[r] = artifact[r]
      BY <3>2, WorkerArtifacts
    <3> QED BY <3>1, <3>3, TaskStays DEF WholeInv
  <2>4. ASSUME NEW r \in RunId, r < nextRun', status'[r] = "complete" PROVE Whole(r)'
    <3>1. nextRun' = nextRun /\ r < nextRun
      BY <2>1, <2>4 DEF Shape
    <3>2. CASE status[r] = "complete"
      <4>1. Free(r)
        BY <3>1, <3>2 DEF TokenInv, SettledIsFree, Settled
      <4>2. artifact'[r] = artifact[r]
        BY <4>1, WorkerArtifacts DEF Free
      <4> QED BY <3>1, <3>2, <4>2, WholeDepends DEF WholeInv
    <3>3. CASE status[r] # "complete"
      <4>1. r = worker[w].run
        BY <2>1, <2>4, <3>3 DEF Shape
      <4>2. /\ worker[w].pc \in {"settle", "exhausted"} /\ worker[w].outcome = "complete"
            /\ artifact' = artifact
        BY <2>1, <2>4, <3>3, <4>1 DEF Shape
      <4>3. Whole(r)
        BY <2>2, <4>1, <4>2 DEF TaskInv
      <4> QED BY <4>2, <4>3, WholeDepends
    <3> QED BY <3>2, <3>3
  <2>5. TaskInv(w)'
    BY <2>2, TaskMoves
  <2> QED BY <2>3, <2>4, <2>5 DEF WholeInv
<1> QED BY <1>1, <1>2, <1>3, <1>4 DEF Next

\* The invariants of one request at a time hold in every state.
LEMMA Serial ==
  ASSUME OneClient
  PROVE  Spec => [](TypeInv /\ Settling /\ CreatedInv /\ TokenInv /\ WholeInv)
<1>1. Init => WholeInv
  BY DEF Init, WholeInv, TaskInv, IdleWorker
<1>2. TypeInv /\ Settling /\ CreatedInv /\ TokenInv /\ WholeInv /\ [Next]_vars => WholeInv'
  BY OneClient, WholeInvStep
<1>3. TypeInv /\ Settling /\ CreatedInv /\ TokenInv /\ [Next]_vars => TokenInv'
  BY OneClient, TokenInvStep
<1> QED BY <1>1, <1>2, <1>3, InitToken, Reachable, NothingBeforeItsRun, PTL DEF Spec

\* A run is complete only when every lesson of its scope is, while requests come one at
\* a time: finalize_node counted them before it wrote, and nobody has touched a lesson of
\* the run between.
THEOREM CompleteRunsAreWhole ==
  ASSUME OneClient
  PROVE  Spec => []CompleteRunIsWhole
<1>1. TypeInv /\ WholeInv => CompleteRunIsWhole
  BY RunsTyped DEF WholeInv, CompleteRunIsWhole, Whole, Created
<1> QED BY <1>1, Serial, PTL

\* Completed lessons never re-enter work, across retries, crashes and resumes, while
\* requests come one at a time: the lesson a task has in work is one that was not
\* complete, and no second task of the run can have completed it meanwhile.
THEOREM CompletedLessonsAreKept ==
  ASSUME OneClient
  PROVE  Spec => CompletedLessonsStay
<1>1. TypeInv /\ Settling /\ CreatedInv /\ TokenInv /\ WholeInv /\ [Next]_vars
        => [\A r \in RunId : Completed(r) \subseteq Completed(r)']_vars
  <2> SUFFICES ASSUME TypeInv, Settling, CreatedInv, WholeInv, Next, NEW r \in RunId
               PROVE  Completed(r) \subseteq Completed(r)'
    BY DEF vars
  <2> SUFFICES ASSUME NEW l \in Lesson, artifact[r][l] = "complete"
               PROVE  artifact'[r][l] = "complete"
    BY DEF Completed
  <2>1. r < nextRun
    BY RunsTyped DEF CreatedInv
  <2>2. CASE \E p \in Project : ConfirmNext(p)
    BY <2>2, ConfirmHasShape
  <2>3. CASE \E c \in Client : ClientNext(c)
    <3>1. artifact'[r] = artifact[r] \/ r = nextRun
      BY <2>3, ClientHasShape DEF Moves, Quiet, Inserts, Dispatches, Resumes
    <3> QED BY <2>1, <3>1, RunsTyped
  <2>4. CASE \E w \in Worker : WorkStep(w) \/ WorkerCrash(w)
    BY <2>4, WorkerArtifacts, WritesSpare DEF WholeInv
  <2> QED BY <2>2, <2>3, <2>4 DEF Next
<1> QED BY <1>1, Serial, PTL DEF Spec, CompletedLessonsStay

\* A step that finds a run complete leaves it complete or superseded.
LEMMA CompleteIsLeft ==
  ASSUME TypeInv, Settling, TokenInv, Next, NEW r \in Created, status[r] = "complete"
  PROVE  status'[r] \in {"complete", "superseded"}
<1>1. r \in RunId /\ r < nextRun /\ r # nextRun
  BY RunsTyped DEF Created
<1>2. OneToken(r) /\ SettledIsFree(r) /\ Free(r)
  BY <1>1 DEF TokenInv, SettledIsFree, Settled
<1>3. CASE \E p \in Project : ConfirmNext(p)
  BY <1>1, <1>3, ConfirmHasShape
<1>4. CASE \E c \in Client : ClientNext(c)
  <2> PICK c \in Client : ClientNext(c)
    BY <1>4
  <2>1. Moves(c) \/ Inserts(c) \/ Dispatches(c) \/ Resumes(c)
    BY ClientHasShape
  <2>2. CASE Moves(c) \/ Dispatches(c)
    BY <2>2 DEF Moves, Quiet, Dispatches
  <2>3. CASE Inserts(c)
    BY <1>1, <2>3, RunsTyped DEF Inserts
  <2>4. CASE Resumes(c)
    <3>1. client[c].run # r
      BY <1>2, <2>4 DEF SettledIsFree, Resumes, Revives, Resumable
    <3> QED BY <1>1, <2>4, <3>1, RunsTyped DEF Resumes
  <2> QED BY <2>1, <2>2, <2>3, <2>4
<1>5. CASE \E w \in Worker : WorkStep(w) \/ WorkerCrash(w)
  <2> PICK w \in Worker : WorkStep(w) \/ WorkerCrash(w)
    BY <1>5
  <2>1. Shape(w)
    BY WorkHasShape
  <2>2. CASE worker[w].run # r
    BY <1>1, <2>1, <2>2 DEF Shape
  <2>3. CASE worker[w].run = r
    <3>1. worker[w].pc = "idle"
      BY <1>2, <2>3 DEF Free, Has
    <3>2. Takes(w)
      BY <2>1, <3>1 DEF Shape, Keeps, Leaves, Requeues
    <3>3. status' = status
      BY <3>2 DEF Takes, Take, runVars
    <3> QED BY <3>3
  <2> QED BY <2>2, <2>3
<1> QED BY <1>3, <1>4, <1>5 DEF Next

-----------------------------------------------------------------------------
(* The runs' progress, one request at a time.                               *)

\* A task that has paid for a call has paid for its run's, and a confirmation in
\* flight has selected runs that exist.
PaidInv ==
  /\ \A w \in Worker : worker[w].used > 0 => worker[w].pc # "idle" /\ calls[worker[w].run] > 0
  /\ \A p \in Project : \A r \in teacher[p].seen : r < nextRun

\* What is paid stays paid, whoever moves.
LEMMA PaidInvStep ==
  ASSUME TypeInv, Settling, PaidInv, [Next]_vars
  PROVE  PaidInv'
<1>1. CASE UNCHANGED vars
  BY <1>1 DEF vars, PaidInv
<1>2. CASE \E p \in Project : ConfirmNext(p)
  <2>1. /\ UNCHANGED <<nextRun, calls, worker>>
        /\ \A q \in Project : teacher'[q].seen \subseteq teacher[q].seen \union ActiveRuns
    BY <1>2, ConfirmHasShape
  <2>2. \A r \in ActiveRuns : r < nextRun
    BY DEF ActiveRuns, Created
  <2> QED BY <2>1, <2>2 DEF PaidInv
<1>3. CASE \E c \in Client : ClientNext(c)
  <2>1. UNCHANGED <<teacher, worker, calls>> /\ (nextRun' = nextRun \/ nextRun' = nextRun + 1)
    BY <1>3, ClientHasShape DEF Moves, Quiet, Inserts, Dispatches, Resumes
  <2>2. \A p \in Project : \A r \in teacher[p].seen : r \in Nat /\ r < nextRun
    BY RunsTyped DEF PaidInv, TypeInv, TypeOK
  <2>3. \A p \in Project : \A r \in teacher[p].seen : r < nextRun'
    BY <2>1, <2>2, RunsTyped
  <2> QED BY <2>1, <2>3 DEF PaidInv
<1>4. CASE \E w \in Worker : WorkStep(w) \/ WorkerCrash(w)
  <2> PICK w \in Worker : WorkStep(w) \/ WorkerCrash(w)
    BY <1>4
  <2> PICK me \in RunId : me = worker[w].run
    BY RunsTyped
  <2>1. Shape(w)
    BY WorkHasShape
  <2>2. /\ calls \in [RunId -> Nat]
        /\ \A v \in Worker : worker[v].run \in RunId /\ worker[v].used \in Nat
    BY BoundAssumption DEF TypeInv, TypeOK
  <2>3. \A r \in RunId : calls[r] > 0 => calls'[r] > 0
    <3>1. CASE LessonCall(w)
      BY <2>2, <3>1 DEF LessonCall
    <3>2. CASE Decides(w)
      BY <3>2 DEF Decides, LessonEnds
    <3> QED BY <2>1, <3>1, <3>2 DEF Shape
  <2>4. ASSUME NEW v \in Worker, v # w, worker'[v].used > 0
        PROVE  worker'[v].pc # "idle" /\ calls'[worker'[v].run] > 0
    <3>1. worker'[v] = worker[v]
      BY <2>1, <2>4 DEF Shape
    <3>2. worker[v].pc # "idle" /\ calls[worker[v].run] > 0
      BY <2>4, <3>1 DEF PaidInv
    <3> QED BY <2>2, <2>3, <3>1, <3>2
  <2>5. ASSUME worker'[w].used > 0
        PROVE  worker'[w].pc # "idle" /\ calls'[worker'[w].run] > 0
    <3>1. CASE LessonCall(w)
      <4>1. worker'[w].run = me /\ worker'[w].pc = "lesson"
        BY <3>1 DEF LessonCall, Becomes, TypeInv, TypeOK
      <4>2. calls' = [calls EXCEPT ![me] = calls[me] + 1]
        BY <3>1 DEF LessonCall
      <4>3. calls'[me] > 0
        BY <2>2, <4>2
      <4> QED BY <4>1, <4>3
    <3>2. CASE worker'[w].used = worker[w].used /\ (Keeps(w) \/ Takes(w))
      <4>1. worker[w].pc # "idle" /\ calls[me] > 0
        BY <2>5, <3>2 DEF PaidInv
      <4>2. Keeps(w)
        BY <3>2, <4>1 DEF Takes, Take
      <4> QED BY <2>3, <4>1, <4>2 DEF Keeps
    <3> QED BY <2>1, <2>5, <3>1, <3>2 DEF Shape
  <2>6. \A p \in Project : \A r \in teacher'[p].seen : r < nextRun'
    BY <2>1 DEF Shape, PaidInv
  <2> QED BY <2>4, <2>5, <2>6 DEF PaidInv
<1> QED BY <1>1, <1>2, <1>3, <1>4 DEF Next

\* Everything the progress of the runs rests on.
ProgressInv == TypeInv /\ Settling /\ CreatedInv /\ TokenInv /\ WholeInv /\ PaidInv

\* It holds while requests come one at a time.
LEMMA ProgressInvHolds ==
  ASSUME OneClient
  PROVE  Spec => []ProgressInv
<1>1. Init => PaidInv
  BY DEF Init, PaidInv, IdleWorker, IdleTeacher
<1>2. TypeInv /\ Settling /\ PaidInv /\ [Next]_vars => PaidInv'
  BY PaidInvStep
<1> QED BY <1>1, <1>2, Serial, PTL DEF Spec, ProgressInv

\* The progress of a run as its rows tell it.
StateOf(r) ==
  IF r \notin Created THEN "none"
  ELSE IF status[r] \in {"complete", "superseded"} THEN status[r] ELSE "open"

\* The states of all runs, one by one.
LEMMA StatesAre == States = [r \in RunId |-> StateOf(r)]
BY DEF States, StateOf

\* A step that leaves the artifacts leaves scopes and products.
LEMMA RowsStay ==
  ASSUME artifact' = artifact
  PROVE  UNCHANGED <<Scopes, Products>>
BY DEF Scopes, Products, Scope, Completed

\* A step that leaves the statuses leaves the states.
LEMMA StatesStay ==
  ASSUME UNCHANGED <<nextRun, status>>
  PROVE  States' = States
BY DEF States, Created

\* A step that writes the status of one run changes its state alone.
LEMMA OneStateMoves ==
  ASSUME TypeInv, NEW r \in RunId, nextRun' = nextRun,
         \A q \in RunId \ {r} : status'[q] = status[q]
  PROVE  /\ States' = [States EXCEPT ![r] = StateOf(r)']
         /\ States[r] = StateOf(r) /\ DOMAIN States = RunId
<1>1. States' = [q \in RunId |-> StateOf(q)']
  BY DEF States, StateOf
<1>2. \A q \in RunId \ {r} : StateOf(q)' = StateOf(q)
  BY DEF StateOf, Created
<1>3. States = [q \in RunId |-> StateOf(q)]
  BY StatesAre
<1> HIDE DEF StateOf
<1> QED BY <1>1, <1>2, <1>3

\* A confirmation supersedes the runs it has selected, or changes nothing.
LEMMA ConfirmProgress ==
  ASSUME ProgressInv, NEW p \in Project, ConfirmNext(p)
  PROVE  (\E runs \in SUBSET RunId : Progress!Supersede(runs)) \/ UNCHANGED Progress!vars
<1>1. UNCHANGED <<pair, calls, nextRun, artifact>>
  BY ConfirmHasShape DEF ProgressInv
<1>2. UNCHANGED <<Scopes, Products>>
  BY <1>1, RowsStay
<1>3. CASE status' = status
  BY <1>1, <1>2, <1>3, StatesStay DEF Progress!vars
<1>4. CASE Supersede(teacher[p].seen)
  <2> DEFINE runs == teacher[p].seen
  <2>1. runs \in SUBSET RunId /\ \A r \in runs : r < nextRun
    BY DEF ProgressInv, TypeInv, TypeOK, PaidInv
  <2>2. \A r \in RunId : status'[r] = IF r \in runs THEN "superseded" ELSE status[r]
    BY <1>4 DEF Supersede
  <2> HIDE DEF runs
  <2>3. \A r \in RunId : StateOf(r)' = IF r \in runs THEN "superseded" ELSE StateOf(r)
    BY <1>1, <2>1, <2>2 DEF StateOf, Created
  <2>4. States' = [r \in RunId |-> StateOf(r)']
    BY DEF States, StateOf
  <2>5. States' = [r \in RunId |-> IF r \in runs THEN "superseded" ELSE States[r]]
    BY <2>3, <2>4, StatesAre
  <2>6. \A r \in runs : States[r] # "none"
    BY <2>1 DEF States, Created
  <2>7. Progress!Supersede(runs)
    BY <1>1, <1>2, <2>5, <2>6 DEF Progress!Supersede
  <2> QED BY <2>1, <2>7
<1> QED BY <1>3, <1>4, ConfirmHasShape DEF ProgressInv

\* The scope of a run is some of the lessons, and not none.
LEMMA ScopeIsOfLessons ==
  ASSUME NEW p, NEW lessons \in ScopeChoices(p)
  PROVE  lessons \in SUBSET Lesson /\ lessons # {}
<1>1. CASE \E r \in Created : pair[r].project = p
  BY <1>1 DEF ScopeChoices
<1>2. CASE ~\E r \in Created : pair[r].project = p
  <2>1. lessons = Lesson
    BY <1>2 DEF ScopeChoices
  <2> QED BY <2>1, LessonAssumption
<1> QED BY <1>1, <1>2

\* Inserting a run starts it.
LEMMA InsertStarts ==
  ASSUME ProgressInv, NEW c \in Client, StartInsert(c)
  PROVE  \E r \in RunId, vp \in Pair, lessons \in SUBSET Lesson : Progress!Start(r, vp, lessons)
<1>1. nextRun \in RunId /\ client[c].want \in Pair
  BY DEF StartInsert, ProgressInv, TypeInv, TypeOK, RunId
<1> PICK new \in RunId : new = nextRun
  BY <1>1
<1> PICK vp \in Pair : vp = client[c].want
  BY <1>1
<1> PICK lessons \in ScopeChoices(vp.project) :
      artifact' = [artifact EXCEPT ![new] =
         [l \in Lesson |-> IF l \in lessons THEN "pending" ELSE "none"]]
  BY DEF StartInsert
<1>2. lessons \in SUBSET Lesson /\ lessons # {}
  BY ScopeIsOfLessons
<1>3. /\ artifact \in [RunId -> [Lesson -> ArtifactStatus]] /\ status \in [RunId -> Status]
      /\ nextRun \in Nat /\ RunId \subseteq Nat
  BY RunsTyped DEF ProgressInv
<1>4. /\ artifact'[new] = [l \in Lesson |-> IF l \in lessons THEN "pending" ELSE "none"]
      /\ \A q \in RunId \ {new} : artifact'[q] = artifact[q]
  BY <1>1, <1>3
<1>5. UNCHANGED calls /\ pair' = [pair EXCEPT ![new] = vp] /\ nextRun' = nextRun + 1
      /\ status' = [status EXCEPT ![new] = "queued"]
  BY DEF StartInsert
<1>6. Scopes' = [Scopes EXCEPT ![new] = lessons]
  <2>1. Scope(new)' = lessons
    BY <1>2, <1>4 DEF Scope
  <2>2. \A q \in RunId \ {new} : Scope(q)' = Scope(q)
    BY <1>4 DEF Scope
  <2>3. Scopes' = [q \in RunId |-> Scope(q)'] /\ Scopes = [q \in RunId |-> Scope(q)]
    BY DEF Scopes
  <2> HIDE DEF Scope
  <2> QED BY <1>1, <2>1, <2>2, <2>3
<1>7. Products' = Products
  <2>1. \A l \in Lesson : artifact[new][l] # "complete"
    BY <1>3 DEF ProgressInv, CreatedInv
  <2>2. \A l \in Lesson : artifact'[new][l] # "complete"
    BY <1>4
  <2>3. \A q \in RunId : Completed(q)' = Completed(q)
    BY <1>4, <2>1, <2>2 DEF Completed
  <2>4. Products' = [q \in RunId |-> Completed(q)'] /\ Products = [q \in RunId |-> Completed(q)]
    BY DEF Products
  <2> QED BY <2>3, <2>4
<1>8. States' = [States EXCEPT ![new] = "open"] /\ States[new] = "none"
  <2>1. StateOf(new) = "none" /\ StateOf(new)' = "open"
    <3>1. new \notin Created /\ new \in Created'
      BY <1>1, <1>3, <1>5 DEF Created
    <3>2. status'[new] = "queued"
      BY <1>1, <1>3, <1>5
    <3> QED BY <3>1, <3>2 DEF StateOf
  <2>2. ASSUME NEW q \in RunId \ {new} PROVE StateOf(q)' = StateOf(q)
    <3>1. q \in Created' <=> q \in Created
      <4>1. q \in Nat /\ nextRun \in Nat /\ nextRun' = nextRun + 1 /\ q # nextRun
        BY <1>3, <1>5
      <4>2. q < nextRun' <=> q < nextRun
        BY <4>1
      <4> QED BY <4>2 DEF Created
    <3>2. status'[q] = status[q]
      BY <1>3, <1>5
    <3> QED BY <3>1, <3>2 DEF StateOf
  <2>3. States' = [q \in RunId |-> StateOf(q)'] /\ States = [q \in RunId |-> StateOf(q)]
    BY DEF States, StateOf
  <2> HIDE DEF StateOf
  <2> QED BY <1>1, <2>1, <2>2, <2>3
<1>9. \A q \in RunId : States[q] # "none" => pair[q] # vp
  BY DEF States, RunsOf, StartInsert
<1>10. Progress!Start(new, vp, lessons)
  BY <1>2, <1>5, <1>6, <1>7, <1>8, <1>9 DEF Progress!Start
<1> QED BY <1>1, <1>2, <1>10

\* A request starts a run, reopens a superseded one, or is not seen.
LEMMA ClientProgress ==
  ASSUME ProgressInv, NEW c \in Client, ClientNext(c)
  PROVE  \/ \E r \in RunId, vp \in Pair, lessons \in SUBSET Lesson : Progress!Start(r, vp, lessons)
         \/ \E r \in RunId : Progress!Reopen(r)
         \/ UNCHANGED Progress!vars
<1>1. CASE StartInsert(c)
  BY <1>1, InsertStarts
<1>2. CASE ResumeCommit(c)
  <2> PICK r \in RunId : r = client[c].run
    BY RunsTyped DEF ProgressInv
  <2>1. /\ UNCHANGED <<pair, calls, nextRun, artifact>>
        /\ status' = [status EXCEPT ![r] = "queued"] /\ client[c].pc = "resume"
    BY <1>2 DEF ResumeCommit, SetStatus, rowVars
  <2>2. r \in Created
    BY <2>1 DEF ProgressInv, CreatedInv, Created
  <2>3. status[r] \in Resumable \union {"superseded"}
    BY <2>1 DEF ProgressInv, TokenInv, SettledIsFree, Revives
  <2>4. /\ status'[r] = "queued"
        /\ \A q \in RunId \ {r} : status'[q] = status[q]
    BY <2>1, RunsTyped DEF ProgressInv
  <2>5. StateOf(r)' = "open" /\ StateOf(r) \in {"open", "superseded"}
    BY <2>1, <2>2, <2>3, <2>4 DEF StateOf, Created, Resumable
  <2>6. /\ States' = [States EXCEPT ![r] = "open"]
        /\ States[r] \in {"open", "superseded"} /\ States = [States EXCEPT ![r] = States[r]]
    BY <2>1, <2>4, <2>5, OneStateMoves, StatesAre DEF ProgressInv
  <2>7. UNCHANGED <<Scopes, Products>>
    BY <2>1, RowsStay
  <2>8. CASE States[r] = "superseded"
    BY <2>1, <2>6, <2>7, <2>8 DEF Progress!Reopen
  <2>9. CASE States[r] = "open"
    BY <2>1, <2>6, <2>7, <2>9 DEF Progress!vars
  <2> QED BY <2>6, <2>8, <2>9
<1>3. CASE ~StartInsert(c) /\ ~ResumeCommit(c)
  <2>1. UNCHANGED <<nextRun, pair, calls, artifact, status>>
    BY <1>3 DEF ClientNext, RequestStep, StartRead, ResumeRead, StartAdmit, StartRefuse,
                StartDuplicate, Dispatch, DispatchLost, runVars
  <2> QED BY <2>1, RowsStay, StatesStay DEF Progress!vars
<1> QED BY <1>1, <1>2, <1>3

\* A task in a lesson has it missing in the scope of a run that exists.
LEMMA LessonIsMissing ==
  ASSUME ProgressInv, NEW w \in Worker, worker[w].pc = "lesson"
  PROVE  \E r \in RunId, k \in Lesson :
           /\ r = worker[w].run /\ k = worker[w].cursor
           /\ States[r] # "none" /\ Products[r] = Completed(r) /\ Scopes[r] = Scope(r)
           /\ k \in Scope(r) \ Completed(r)
<1> PICK r \in RunId : r = worker[w].run
  BY RunsTyped DEF ProgressInv
<1>1. worker[w].cursor \in Lesson /\ artifact[r][worker[w].cursor] \notin {"none", "complete"}
  BY DEF ProgressInv, WholeInv, TaskInv
<1>2. r \in Created
  BY DEF ProgressInv, CreatedInv, Created
<1>3. States[r] # "none"
  BY <1>2 DEF States
<1>4. Products[r] = Completed(r) /\ Scopes[r] = Scope(r)
  BY DEF Products, Scopes
<1>5. worker[w].cursor \in Scope(r) \ Completed(r)
  BY <1>1 DEF Scope, Completed
<1> QED BY <1>1, <1>3, <1>4, <1>5

\* The artifacts after a lesson k of run r is given status s.
LEMMA LessonIsWritten ==
  ASSUME TypeInv, NEW r \in RunId, NEW k \in Lesson, NEW s,
         artifact' = [artifact EXCEPT ![r][k] = s], k \in Scope(r) \ Completed(r)
  PROVE  /\ s # "none" => Scopes' = Scopes
         /\ s # "complete" => Products' = Products
         /\ s = "complete" => Products' = [Products EXCEPT ![r] = @ \union {k}]
<1>1. artifact'[r] = [artifact[r] EXCEPT ![k] = s] /\ \A q \in RunId \ {r} : artifact'[q] = artifact[q]
  BY RunsTyped
<1>2. artifact[r] \in [Lesson -> ArtifactStatus]
  BY RunsTyped
<1>3. artifact'[r][k] = s /\ \A l \in Lesson \ {k} : artifact'[r][l] = artifact[r][l]
  BY <1>1, <1>2
<1>4. artifact[r][k] # "none" /\ artifact[r][k] # "complete"
  BY DEF Scope, Completed
<1>5. \A q \in RunId \ {r} : Scope(q)' = Scope(q) /\ Completed(q)' = Completed(q)
  BY <1>1 DEF Scope, Completed
<1>6. s # "none" => Scope(r)' = Scope(r)
  BY <1>3, <1>4 DEF Scope
<1>7. s # "complete" => Completed(r)' = Completed(r)
  BY <1>3, <1>4 DEF Completed
<1>8. s = "complete" => Completed(r)' = Completed(r) \union {k}
  BY <1>3 DEF Completed
<1>9. /\ Scopes' = [q \in RunId |-> Scope(q)'] /\ Scopes = [q \in RunId |-> Scope(q)]
      /\ Products' = [q \in RunId |-> Completed(q)'] /\ Products = [q \in RunId |-> Completed(q)]
  BY DEF Scopes, Products
<1> HIDE DEF Scope, Completed
<1>10. s # "none" => Scopes' = Scopes
  BY <1>5, <1>6, <1>9
<1>11. s # "complete" => Products' = Products
  BY <1>5, <1>7, <1>9
<1>12. s = "complete" => Products' = [Products EXCEPT ![r] = @ \union {k}]
  BY <1>5, <1>8, <1>9
<1> QED BY <1>10, <1>11, <1>12

\* A call is spent on a lesson that is missing ...
LEMMA CallSpends ==
  ASSUME ProgressInv, NEW w \in Worker, LessonCall(w)
  PROVE  \E r \in RunId : Progress!Spend(r)
<1>1. worker[w].pc = "lesson"
  BY DEF LessonCall
<1> PICK r \in RunId, k \in Lesson :
      /\ r = worker[w].run /\ k = worker[w].cursor
      /\ States[r] # "none" /\ Products[r] = Completed(r) /\ Scopes[r] = Scope(r)
      /\ k \in Scope(r) \ Completed(r)
  BY <1>1, LessonIsMissing
<1>2. /\ artifact' = [artifact EXCEPT ![r][k] = "working"] /\ calls[r] < Cap
      /\ calls' = [calls EXCEPT ![r] = @ + 1] /\ UNCHANGED <<pair, nextRun, status>>
  BY DEF LessonCall, SetArtifact
<1>3. UNCHANGED <<Scopes, Products>>
  <2> PICK s : s = "working"
    OBVIOUS
  <2>1. TypeInv /\ s # "none" /\ s # "complete"
    BY DEF ProgressInv
  <2>2. artifact' = [artifact EXCEPT ![r][k] = s]
    BY <1>2
  <2>3. Scopes' = Scopes /\ Products' = Products
    BY <2>1, <2>2, LessonIsWritten
  <2> QED BY <2>3
<1>4. States' = States
  BY <1>2, StatesStay
<1>5. Products[r] # Scopes[r]
  OBVIOUS
<1> QED BY <1>2, <1>3, <1>4, <1>5 DEF Progress!Spend

\* ... which the attempt produces, or leaves missing.
LEMMA DecisionProduces ==
  ASSUME ProgressInv, NEW w \in Worker, Decides(w)
  PROVE  (\E r \in RunId, l \in Lesson : Progress!Produce(r, l)) \/ UNCHANGED Progress!vars
<1> PICK s \in {"complete", "failed"}, pc \in {"load", "retry"} : LessonEnds(w, s, pc)
  BY DEF Decides
<1>1. worker[w].pc = "lesson" /\ worker[w].used > 0
  BY DEF LessonEnds
<1> PICK r \in RunId, k \in Lesson :
      /\ r = worker[w].run /\ k = worker[w].cursor
      /\ States[r] # "none" /\ Products[r] = Completed(r) /\ Scopes[r] = Scope(r)
      /\ k \in Scope(r) \ Completed(r)
  BY <1>1, LessonIsMissing
<1>2. calls[r] > 0
  BY <1>1 DEF ProgressInv, PaidInv
<1>3. artifact' = [artifact EXCEPT ![r][k] = s] /\ UNCHANGED <<pair, calls, nextRun, status>>
  BY DEF LessonEnds, SetArtifact
<1>4. UNCHANGED <<Scopes, States>>
  <2>1. TypeInv /\ s # "none"
    BY DEF ProgressInv
  <2> QED BY <1>3, <2>1, LessonIsWritten, StatesStay
<1>5. CASE s = "complete"
  <2>1. Products' = [Products EXCEPT ![r] = @ \union {k}]
    BY <1>3, <1>5, LessonIsWritten DEF ProgressInv
  <2> QED BY <1>2, <1>3, <1>4, <2>1 DEF Progress!Produce
<1>6. CASE s = "failed"
  <2>1. Products' = Products
    BY <1>3, <1>6, LessonIsWritten DEF ProgressInv
  <2> QED BY <1>3, <1>4, <2>1 DEF Progress!vars
<1> QED BY <1>5, <1>6

\* Any other step of a worker writes the status of its run at most.
LEMMA WorkerProgress ==
  ASSUME ProgressInv, NEW w \in Worker, WorkStep(w) \/ WorkerCrash(w)
  PROVE  Progress!Next \/ UNCHANGED Progress!vars
<1> PICK me \in RunId : me = worker[w].run
  BY RunsTyped DEF ProgressInv
<1>1. Shape(w)
  BY WorkHasShape DEF ProgressInv
<1>2. CASE LessonCall(w)
  BY <1>2, CallSpends DEF Progress!Next
<1>3. CASE Decides(w)
  BY <1>3, DecisionProduces DEF Progress!Next
<1>4. CASE artifact' = artifact /\ calls' = calls
  <2>1. /\ UNCHANGED <<pair, calls, Scopes, Products>> /\ nextRun' = nextRun
        /\ \A r \in RunId \ {me} : status'[r] = status[r]
    BY <1>1, <1>4, RowsStay DEF Shape
  <2> PICK old : old = States[me]
    OBVIOUS
  <2> PICK new : new = StateOf(me)'
    OBVIOUS
  <2>2. States' = [States EXCEPT ![me] = new] /\ old = StateOf(me) /\ DOMAIN States = RunId
    BY <2>1, OneStateMoves DEF ProgressInv
  <2>3. CASE new = old
    <3>1. States' = States
      BY <2>2, <2>3, StatesAre
    <3> QED BY <2>1, <3>1 DEF Progress!vars
  <2>4. CASE new # old
    <3>1. me \in Created /\ me \in Created'
      BY <2>1, <2>2, <2>4 DEF StateOf, Created
    <3>2. /\ old = IF status[me] \in {"complete", "superseded"} THEN status[me] ELSE "open"
          /\ new = IF status'[me] \in {"complete", "superseded"} THEN status'[me] ELSE "open"
      BY <2>2, <3>1 DEF StateOf
    <3>3. CASE new = "superseded"
      <4>1. States' = [r \in RunId |-> IF r \in {me} THEN "superseded" ELSE States[r]]
        BY <2>2, <3>3
      <4>2. \A r \in {me} : States[r] # "none"
        BY <3>2
      <4>3. Progress!Supersede({me})
        BY <2>1, <4>1, <4>2 DEF Progress!Supersede
      <4>4. {me} \in SUBSET RunId
        OBVIOUS
      <4> QED BY <4>3, <4>4 DEF Progress!Next
    <3>4. CASE new = "complete"
      <4>1. status'[me] = "complete" /\ status[me] # "complete"
        BY <2>4, <3>2, <3>4
      <4>2. worker[w].pc \in {"settle", "exhausted"} /\ worker[w].outcome = "complete"
        BY <1>1, <4>1 DEF Shape
      <4>3. Completed(me) = Scope(me)
        BY <4>2 DEF ProgressInv, WholeInv, TaskInv, Whole
      <4>4. Products[me] = Scopes[me]
        BY <4>3 DEF Products, Scopes
      <4>5. States[me] \in {"open", "superseded"} /\ States' = [States EXCEPT ![me] = "complete"]
        BY <2>2, <3>2, <3>4, <4>1
      <4>6. Progress!Complete(me)
        BY <2>1, <4>4, <4>5 DEF Progress!Complete
      <4> QED BY <4>6 DEF Progress!Next
    <3>5. CASE new = "open"
      <4>1. status[me] # "complete"
        <5>1. status[me] = "complete" => status'[me] \in {"complete", "superseded"}
          BY <3>1, CompleteIsLeft DEF ProgressInv, Next
        <5> QED BY <3>2, <3>5, <5>1
      <4>2. States[me] = "superseded" /\ States' = [States EXCEPT ![me] = "open"]
        BY <2>2, <2>4, <3>2, <3>5, <4>1
      <4>3. Progress!Reopen(me)
        BY <2>1, <4>2 DEF Progress!Reopen
      <4> QED BY <4>3 DEF Progress!Next
    <3> QED BY <3>2, <3>3, <3>4, <3>5
  <2> QED BY <2>3, <2>4
<1> QED BY <1>1, <1>2, <1>3, <1>4 DEF Shape

\* While requests come one at a time, the runs make the progress RunProgress promises,
\* whatever the queue, the workers, their retries and crashes and the confirmations do:
\* the run's calls are paid for missing lessons, each lesson is produced once, and a
\* complete run is whole and never reopens (graph.py, service.py, worker.py).
THEOREM RunsKeepTheirPromise ==
  ASSUME OneClient
  PROVE  Spec => RunsProgress
<1>1. Init => Progress!Init
  <2> SUFFICES ASSUME Init PROVE Progress!Init
    OBVIOUS
  <2>1. pair \in [RunId -> Pair]
    BY InitTypeInv DEF TypeInv, TypeOK
  <2>2. Scopes = [r \in RunId |-> {}] /\ Products = [r \in RunId |-> {}]
    BY DEF Init, Scopes, Products, Scope, Completed
  <2>3. States = [r \in RunId |-> "none"]
    BY DEF Init, States, Created, RunId
  <2> QED BY <2>1, <2>2, <2>3 DEF Init, Progress!Init
<1>2. ProgressInv /\ [Next]_vars => [Progress!Next]_(Progress!vars)
  <2> SUFFICES ASSUME ProgressInv, [Next]_vars PROVE Progress!Next \/ UNCHANGED Progress!vars
    OBVIOUS
  <2>1. CASE UNCHANGED vars
    BY <2>1, RowsStay, StatesStay DEF vars, Progress!vars
  <2>2. CASE Next
    BY <2>2, ConfirmProgress, ClientProgress, WorkerProgress DEF Next, Progress!Next
  <2> QED BY <2>1, <2>2
<1> QED BY <1>1, <1>2, ProgressInvHolds, PTL DEF Spec, RunsProgress, Progress!Spec

=============================================================================
