----------------------------- MODULE Regeneration -----------------------------
(***************************************************************************)
(* What a new version pair makes of the documents of the older ones        *)
(* (run_orchestration/service.py, impact.py, transition.py) and how decks  *)
(* and exercises hang on the lesson plans (artifact_production/deck_graph.py,*)
(* exercise_graph.py).                                                     *)
(*                                                                         *)
(* A confirmation makes a new pair current.  A start reads the current     *)
(* pair, the lessons its family has to make again since the family's       *)
(* newest run, and for decks and exercises the plans that cover them, and  *)
(* inserts the run in a later statement.  A worker goes through the        *)
(* lessons of a run in their order and looks for a newer pair before each. *)
(*                                                                         *)
(* A pair is known by the intent it confirms.  Module GenerationRun has    *)
(* what lies between a checkpoint and its write, the cap, retries, crashes *)
(* and the admission of runs; LessonStage has how one document is made.    *)
(***************************************************************************)
EXTENDS Integers, Sequences, FiniteSets, FiniteSetsExt

CONSTANTS
  Lesson,     \* lesson indexes
  Derived,    \* the families written from lesson plans: "slide_deck", "exercise"
  Asker,      \* start requests that may be in flight
  MaxPairs,   \* bound: version pairs
  MaxResumes  \* bound: accepted resume requests

ASSUME RegenerationAssumption ==
  /\ Lesson \subseteq Nat \ {0} /\ IsFiniteSet(Lesson) /\ Lesson # {}
  /\ Derived \subseteq {"slide_deck", "exercise"}
  /\ MaxPairs \in Nat \ {0} /\ MaxResumes \in Nat

Family == {"lesson_plan"} \cup Derived

VARIABLES
  pairs,   \* the confirmed version pairs: what each wants of the unit and of every lesson
  runs,    \* GenerationRun rows with their artifacts, in the order of created_at
  start,   \* start[a]: a request between its reads and its insert
  resumes  \* accepted resume requests

regenerationVars == <<pairs, runs, start, resumes>>

\* The wording of a lesson by number, 0 for a lesson the unit does not have.
FirstPair == [unit |-> 1, lesson |-> [l \in Lesson |-> 1]]
NoAsk == [family |-> "none", pair |-> 0, lessons |-> {}, prerequisite |-> 0]

RegenerationInit ==
  /\ pairs = <<FirstPair>> /\ runs = <<>>
  /\ start = [a \in Asker |-> NoAsk] /\ resumes = 0

CurrentPair == Len(pairs)
LessonsOf(n) == {l \in Lesson : pairs[n].lesson[l] # 0}
RunsOf(family) == {r \in DOMAIN runs : runs[r].family = family}
RunFor(family, n) == {r \in RunsOf(family) : runs[r].pair = n}
CompleteIn(r) == {l \in Lesson : runs[r].artifact[l] = "complete"}

\* What changed between two pairs: a change of the unit touches every lesson, any other the
\* lessons it rewrites or adds.
UnitChanged(old, new) == pairs[old].unit # pairs[new].unit
Rewritten(old, new) == {l \in LessonsOf(new) : pairs[old].lesson[l] # pairs[new].lesson[l]}

\* _targeted_scope: full is the scope None.
FullScope(n) == [full |-> TRUE, lessons |-> LessonsOf(n)]
TargetedScope(family, n) ==
  IF RunsOf(family) = {} THEN FullScope(n)
  ELSE LET old == runs[Max(RunsOf(family))].pair
       IN IF old = n \/ UnitChanged(old, n) THEN FullScope(n)
          ELSE [full |-> FALSE, lessons |-> Rewritten(old, n)]

\* retained_artifacts: any complete artifact of another pair, however old.
Retained(family, n) ==
  {l \in Lesson : \E r \in RunsOf(family) \ RunFor(family, n) : l \in CompleteIn(r)}

Uncovered(n, scope) ==
  LET bound == scope.lessons \ UNION {CompleteIn(r) : r \in RunFor("lesson_plan", n)}
      plans == TargetedScope("lesson_plan", n)
  IN IF plans.full THEN bound
     ELSE bound \ (Retained("lesson_plan", n) \ plans.lessons)

\* The run whose plans the documents are written from.
PrerequisiteNewest(n) == IF RunsOf("lesson_plan") = {} THEN 0 ELSE Max(RunsOf("lesson_plan"))
Prerequisite(n) == IF RunFor("lesson_plan", n) = {} THEN 0 ELSE Max(RunFor("lesson_plan", n))

-----------------------------------------------------------------------------
\* A revision that is confirmed: nothing, the unit, or one lesson is another.  The runs that
\* are active by then are superseded in the same transaction.
Active == {"queued", "generating"}
ConfirmPair ==
  /\ CurrentPair < MaxPairs
  /\ \E new \in {pairs[CurrentPair], [pairs[CurrentPair] EXCEPT !.unit = @ + 1]}
                \cup {[pairs[CurrentPair] EXCEPT !.lesson[l] = v] :
                        l \in Lesson, v \in {0, CurrentPair + 1}} :
       pairs' = Append(pairs, new)
  /\ runs' = [r \in DOMAIN runs |-> IF runs[r].status \in Active
                                     THEN [runs[r] EXCEPT !.status = "superseded"] ELSE runs[r]]
  /\ UNCHANGED <<start, resumes>>

\* A repeated start of plans finds the run before it looks at anything else.
StartPlans(a) ==
  LET scope == TargetedScope("lesson_plan", CurrentPair)
  IN /\ start[a] = NoAsk
     /\ RunFor("lesson_plan", CurrentPair) = {} /\ scope.lessons # {}
     /\ start' = [start EXCEPT ![a] = [family |-> "lesson_plan", pair |-> CurrentPair,
                                       lessons |-> scope.lessons, prerequisite |-> 0]]
     /\ UNCHANGED <<pairs, runs, resumes>>

\* A start of decks or exercises checks the coverage first and then whether the run is there.
StartDerived(a, family) ==
  LET scope == TargetedScope(family, CurrentPair)
  IN /\ start[a] = NoAsk
     /\ scope.lessons # {} /\ Uncovered(CurrentPair, scope) = {}
     /\ RunFor(family, CurrentPair) = {}
     /\ start' = [start EXCEPT ![a] = [family |-> family, pair |-> CurrentPair,
                                       lessons |-> scope.lessons,
                                       prerequisite |-> Prerequisite(CurrentPair)]]
     /\ UNCHANGED <<pairs, runs, resumes>>

\* One run for a family and pair: the second insert finds the first and is the repeated start.
NewRun(s) ==
  [family |-> s.family, pair |-> s.pair, prerequisite |-> s.prerequisite, status |-> "queued",
   artifact |-> [l \in Lesson |-> IF l \in s.lessons THEN "pending" ELSE "none"],
   written |-> {}, from |-> 1, busy |-> FALSE]
InsertRun(a) ==
  /\ start[a] # NoAsk
  /\ runs' = IF RunFor(start[a].family, start[a].pair) # {} THEN runs
             ELSE Append(runs, NewRun(start[a]))
  /\ start' = [start EXCEPT ![a] = NoAsk]
  /\ UNCHANGED <<pairs, resumes>>

-----------------------------------------------------------------------------
Assemble(r) ==
  /\ runs[r].status = "queued" /\ ~runs[r].busy
  /\ runs' = [runs EXCEPT ![r].status = "generating", ![r].from = 1]
  /\ UNCHANGED <<pairs, start, resumes>>

Due(r) == {l \in Lesson : l >= runs[r].from /\ runs[r].artifact[l] \notin {"none", "complete"}}
AtCheckpoint(r) == runs[r].status = "generating" /\ ~runs[r].busy
Supersede(r) ==
  /\ AtCheckpoint(r) /\ runs[r].pair # CurrentPair
  /\ runs' = [runs EXCEPT ![r].status = "superseded"]
  /\ UNCHANGED <<pairs, start, resumes>>

\* lesson_plans_of_prerequisite: what a writer of the plan run answered, settled or not.
PlanOf(r) == IF runs[r].prerequisite = 0 THEN {} ELSE runs[runs[r].prerequisite].written

\* An artifact in the making: drafting, rendering or validating.
TakeLesson(r) ==
  /\ AtCheckpoint(r) /\ runs[r].pair = CurrentPair /\ Due(r) # {}
  /\ LET l == Min(Due(r))
     IN runs' = IF runs[r].family # "lesson_plan" /\ l \notin PlanOf(r)
                THEN [runs EXCEPT ![r].artifact[l] = "failed", ![r].from = l + 1]
                ELSE [runs EXCEPT ![r].artifact[l] = "working", ![r].from = l,
                                  ![r].busy = TRUE]
  /\ UNCHANGED <<pairs, start, resumes>>

\* The lesson ends whatever was confirmed meanwhile.  A failed lesson may have been written.
Ended(r, l, end, written) ==
  [runs[r] EXCEPT !.artifact[l] = end, !.from = l + 1, !.busy = FALSE,
                  !.written = IF written THEN @ \cup {l} ELSE @]
EndLesson(r) ==
  /\ runs[r].busy
  /\ \/ runs' = [runs EXCEPT ![r] = Ended(r, runs[r].from, "complete", TRUE)]
     \/ \E written \in BOOLEAN :
          runs' = [runs EXCEPT ![r] = Ended(r, runs[r].from, "failed", written)]
  /\ UNCHANGED <<pairs, start, resumes>>

\* The cap leaves the lesson as it is, and a settled run, too; the provider, gone after the
\* retries, fails the lesson and settles the run whatever its status is by then.
StopEarly(r) ==
  /\ runs[r].busy
  /\ \/ runs' = [runs EXCEPT ![r].busy = FALSE,
                             ![r].status = IF @ = "generating" THEN "capped_failure" ELSE @]
     \/ runs' = [runs EXCEPT ![r].busy = FALSE, ![r].artifact[runs[r].from] = "failed",
                             ![r].status = IF CompleteIn(r) # {} THEN "partial_failure"
                                           ELSE "terminal_failure"]
  /\ UNCHANGED <<pairs, start, resumes>>

Finalize(r) ==
  /\ AtCheckpoint(r) /\ runs[r].pair = CurrentPair /\ Due(r) = {}
  /\ LET incomplete == {l \in Lesson : runs[r].artifact[l] \notin {"none", "complete"}}
     IN runs' = [runs EXCEPT ![r].status =
                   IF incomplete = {} THEN "complete"
                   ELSE IF CompleteIn(r) # {} THEN "partial_failure" ELSE "terminal_failure"]
  /\ UNCHANGED <<pairs, start, resumes>>

\* Only the run of the current pair is found with a status that may be resumed.
ResumeRun(r) ==
  /\ resumes < MaxResumes
  /\ runs[r].pair = CurrentPair /\ runs[r].status \in {"partial_failure", "capped_failure"}
  /\ runs' = [runs EXCEPT ![r].status = "queued"]
  /\ resumes' = resumes + 1
  /\ UNCHANGED <<pairs, start>>

Works(r) ==
  Assemble(r) \/ Supersede(r) \/ TakeLesson(r) \/ EndLesson(r) \/ StopEarly(r) \/ Finalize(r)
Asks(a) == StartPlans(a) \/ (\E family \in Derived : StartDerived(a, family)) \/ InsertRun(a)

RegenerationNext ==
  \/ ConfirmPair
  \/ \E a \in Asker : Asks(a)
  \/ \E r \in DOMAIN runs : Works(r) \/ ResumeRun(r)

RegenerationSpec == RegenerationInit /\ [][RegenerationNext]_regenerationVars

-----------------------------------------------------------------------------
\* A deck or exercise that is complete was written from a plan of the pair it is shown under,
\* whatever was confirmed or started while it was made (Spec D3 in start_deck_generation).
DerivedFollowsItsPair ==
  \A r \in DOMAIN runs : runs[r].family \in Derived =>
    \A l \in CompleteIn(r) : LET plan == runs[r].prerequisite
                             IN /\ plan # 0 /\ l \in runs[plan].written
                                /\ runs[plan].pair = runs[r].pair

\* What the docstring of _plan_coverage promises: a lesson is covered that has a complete plan
\* in the plan run of the current pair, or an older complete plan of the very same intent.
SameIntent(old, n, l) == ~UnitChanged(old, n) /\ pairs[old].lesson[l] = pairs[n].lesson[l]
Promised(n) == {l \in Lesson : \E r \in RunsOf("lesson_plan") :
                                 l \in CompleteIn(r) /\ SameIntent(runs[r].pair, n, l)}
PromisedIsCovered ==
  \A family \in Derived : LET scope == TargetedScope(family, CurrentPair)
                          IN scope.lessons \subseteq Promised(CurrentPair)
                               => Uncovered(CurrentPair, scope) = {}
=============================================================================
