------------------------------ MODULE PlanningProofs ------------------------------
(***************************************************************************)
(* From the interviews to the documents of a version pair: what is ready,  *)
(* confirmed and written from a plan is what it is shown as.  Proofs of    *)
(* the invariants of modules Interview, Confirmation and Regeneration,     *)
(* which share no state.                                                   *)
(***************************************************************************)
EXTENDS Interview, Confirmation, Regeneration, FiniteSetTheorems, WellFoundedInduction, TLAPS

-----------------------------------------------------------------------------
(* Least and greatest members.                                              *)

\* A set of naturals has a least member.
LEMMA LeastIsIn ==
  ASSUME NEW S, S \subseteq Nat, S # {}
  PROVE  Min(S) \in S /\ \A y \in S : Min(S) <= y
<1> DEFINE Less == OpToRel(<, Nat)
<1>1. IsWellFoundedOn(Less, Nat)
  BY NatLessThanWellFounded
<1>2. PICK x \in S : \A y \in S : ~(<<y, x>> \in Less)
  <2> HIDE DEF Less
  <2> QED BY <1>1, WFMin
<1>3. ASSUME NEW y \in S PROVE x <= y
  <2>1. x \in Nat /\ y \in Nat /\ ~(<<y, x>> \in Less)
    BY <1>2
  <2> QED BY <2>1 DEF OpToRel
<1>4. \E m \in S : \A y \in S : m <= y
  BY <1>3
<1> QED BY <1>4 DEF Min

\* A bounded set of naturals has a greatest member.
LEMMA GreatestIsIn ==
  ASSUME NEW n \in Nat, NEW S, S \subseteq 1..n, S # {}
  PROVE  Max(S) \in S /\ \A y \in S : Max(S) >= y
<1> DEFINE Room == {n - y : y \in S}
<1>1. Room \subseteq Nat /\ Room # {}
  <2>1. \A y \in S : n - y \in Nat
    OBVIOUS
  <2> QED BY <2>1
<1>2. Min(Room) \in Room /\ \A z \in Room : Min(Room) <= z
  <2> HIDE DEF Room
  <2> QED BY <1>1, LeastIsIn
<1>3. PICK x \in S : Min(Room) = n - x
  BY <1>2
<1>4. ASSUME NEW y \in S PROVE x >= y
  <2>1. n - y \in Room
    OBVIOUS
  <2>2. n - x <= n - y
    BY <1>2, <1>3, <2>1
  <2> QED BY <2>2
<1>5. \E m \in S : \A y \in S : m >= y
  BY <1>4
<1> QED BY <1>5 DEF Max

-----------------------------------------------------------------------------
(* Regeneration: a complete deck or exercise was written from a plan of the *)
(* pair it is shown under.                                                  *)

PairNumber == Nat
RunStatus == {"queued", "generating", "superseded", "complete", "partial_failure",
              "terminal_failure", "capped_failure"}
RunState ==
  [family : Family, pair : PairNumber, prerequisite : Nat, status : RunStatus,
   artifact : [Lesson -> {"none", "pending", "working", "failed", "complete"}],
   written : SUBSET Lesson, from : Nat, busy : BOOLEAN]
AskState ==
  [family : Family \cup {"none"}, pair : PairNumber, lessons : SUBSET Lesson, prerequisite : Nat]

RegenerationTypeInv ==
  /\ pairs \in Seq([unit : Nat, lesson : [Lesson -> Nat]]) /\ pairs # <<>>
  /\ runs \in Seq(RunState)
  /\ start \in [Asker -> AskState]
  /\ \A a \in Asker : start[a] # NoAsk => start[a].family \in Family

\* The plan run p that something of the pair n is written from, 0 for none.
BoundTo(p, n) == p # 0 => p \in DOMAIN runs /\ runs[p].pair = n

\* The plan run is fixed when a request reads the pair, and a lesson is only taken, and so
\* complete, when a writer of that run has answered it.
FollowInv ==
  /\ \A a \in Asker : start[a] # NoAsk => BoundTo(start[a].prerequisite, start[a].pair)
  /\ \A r \in DOMAIN runs :
       /\ BoundTo(runs[r].prerequisite, runs[r].pair)
       /\ runs[r].busy => runs[r].from \in Lesson
       /\ runs[r].family \in Derived => /\ CompleteIn(r) \subseteq PlanOf(r)
                                        /\ runs[r].busy => runs[r].from \in PlanOf(r)

RegenerationInv == RegenerationTypeInv /\ FollowInv

\* The invariant is what the property asks.
LEMMA FollowIsEnough == RegenerationInv => DerivedFollowsItsPair
<1> SUFFICES ASSUME RegenerationInv, NEW r \in DOMAIN runs, runs[r].family \in Derived,
                    NEW l \in CompleteIn(r)
             PROVE  LET plan == runs[r].prerequisite
                    IN /\ plan # 0 /\ l \in runs[plan].written
                       /\ runs[plan].pair = runs[r].pair
  BY DEF DerivedFollowsItsPair
<1>1. l \in PlanOf(r) /\ BoundTo(runs[r].prerequisite, runs[r].pair)
  BY DEF RegenerationInv, FollowInv
<1> QED BY <1>1 DEF PlanOf, BoundTo

\* Initially there is one pair and no run.
LEMMA RegenerationInitInv == RegenerationInit => RegenerationInv
<1> SUFFICES ASSUME RegenerationInit PROVE RegenerationInv
  OBVIOUS
<1>1. pairs = <<FirstPair>> /\ runs = <<>> /\ start = [a \in Asker |-> NoAsk]
  BY DEF RegenerationInit
<1>2. FirstPair \in [unit : Nat, lesson : [Lesson -> Nat]] /\ NoAsk \in AskState
  BY DEF FirstPair, NoAsk, AskState, PairNumber
<1>3. runs \in Seq(RunState) /\ DOMAIN runs = {}
  BY <1>1
<1> QED BY <1>1, <1>2, <1>3 DEF RegenerationInv, RegenerationTypeInv, FollowInv

\* Runs by number.
LEMMA RunsTyped ==
  ASSUME RegenerationTypeInv
  PROVE  /\ Len(runs) \in Nat /\ DOMAIN runs = 1..Len(runs)
         /\ \A r \in DOMAIN runs : runs[r] \in RunState
<1>1. runs \in Seq(RunState)
  BY DEF RegenerationTypeInv
<1> QED BY <1>1

\* Runs keep their family, pair and plan run, and what a writer has answered stays.
RunsStay ==
  /\ DOMAIN runs \subseteq DOMAIN runs'
  /\ \A r \in DOMAIN runs : /\ runs'[r].pair = runs[r].pair
                            /\ runs'[r].prerequisite = runs[r].prerequisite
                            /\ runs[r].written \subseteq runs'[r].written

\* The plans a run may read do not disappear.
LEMMA PlansStay ==
  ASSUME RegenerationInv, RunsStay, NEW r \in DOMAIN runs
  PROVE  PlanOf(r) \subseteq PlanOf(r)'
<1>1. runs[r].prerequisite # 0 => runs[r].prerequisite \in DOMAIN runs
  BY DEF RegenerationInv, FollowInv, BoundTo
<1> QED BY <1>1 DEF RunsStay, PlanOf

\* A step of the worker, or of a request to resume, writes the run r.
LEMMA RunStepInv ==
  ASSUME RegenerationInv, NEW r \in DOMAIN runs, NEW s \in RunState,
         runs' = [runs EXCEPT ![r] = s], UNCHANGED <<pairs, start>>,
         s.family = runs[r].family, s.pair = runs[r].pair,
         s.prerequisite = runs[r].prerequisite, runs[r].written \subseteq s.written,
         s.busy => s.from \in Lesson,
         s.family \in Derived => \A l \in Lesson :
           s.artifact[l] = "complete" \/ (s.busy /\ s.from = l) => l \in PlanOf(r)
  PROVE  RegenerationInv'
<1>1. RegenerationTypeInv /\ FollowInv /\ runs \in Seq(RunState)
  BY DEF RegenerationInv, RegenerationTypeInv
<1>2. /\ runs' \in Seq(RunState) /\ DOMAIN runs' = DOMAIN runs
      /\ runs'[r] = s /\ \A q \in DOMAIN runs \ {r} : runs'[q] = runs[q]
  BY <1>1
<1>3. RegenerationTypeInv'
  BY <1>1, <1>2 DEF RegenerationTypeInv
<1>4. RunsStay
  BY <1>2 DEF RunsStay
<1>5. ASSUME NEW p, NEW n, BoundTo(p, n)
      PROVE  BoundTo(p, n)'
  BY <1>2, <1>5 DEF BoundTo
<1>6. \A a \in Asker : start'[a] # NoAsk => BoundTo(start[a].prerequisite, start[a].pair)'
  BY <1>1, <1>5 DEF FollowInv
<1>7. ASSUME NEW q \in DOMAIN runs
      PROVE  /\ BoundTo(runs[q].prerequisite, runs[q].pair)'
             /\ runs'[q].busy => runs'[q].from \in Lesson
             /\ runs'[q].family \in Derived => /\ CompleteIn(q)' \subseteq PlanOf(q)'
                                               /\ runs'[q].busy => runs'[q].from \in PlanOf(q)'
  <2>1. BoundTo(runs[q].prerequisite, runs[q].pair)
    BY <1>1 DEF FollowInv
  <2>2. BoundTo(runs[q].prerequisite, runs[q].pair)'
    BY <1>2, <2>1 DEF BoundTo
  <2>3. PlanOf(q) \subseteq PlanOf(q)'
    BY <1>4, PlansStay
  <2>4. CASE q = r
    BY <1>2, <2>2, <2>3, <2>4 DEF CompleteIn
  <2>5. CASE q # r
    BY <1>1, <1>2, <2>2, <2>3, <2>5 DEF CompleteIn, FollowInv
  <2> QED BY <2>4, <2>5
<1>8. FollowInv'
  BY <1>2, <1>6, <1>7 DEF FollowInv
<1> QED BY <1>3, <1>8 DEF RegenerationInv

\* The worker goes through the lessons of the run r.
LEMMA WorkInv ==
  ASSUME RegenerationInv, NEW r \in DOMAIN runs, Works(r) \/ ResumeRun(r)
  PROVE  RegenerationInv'
<1> DEFINE old == runs[r]
           new == runs'[r]
<1>1. /\ RegenerationTypeInv /\ FollowInv /\ old \in RunState /\ runs \in Seq(RunState)
      /\ DOMAIN runs = 1..Len(runs) /\ Len(runs) \in Nat
      /\ UNCHANGED <<pairs, start>>
  BY RunsTyped DEF RegenerationInv, RegenerationTypeInv, Works, Assemble, Supersede, TakeLesson,
     EndLesson, StopEarly, Finalize, ResumeRun
<1>2. /\ old.busy => old.from \in Lesson
      /\ old.family \in Derived => \A l \in Lesson :
           old.artifact[l] = "complete" \/ (old.busy /\ old.from = l) => l \in PlanOf(r)
  BY <1>1 DEF FollowInv, CompleteIn
<1> DEFINE Keeps == /\ runs' = [runs EXCEPT ![r] = new]
                    /\ new \in RunState /\ new.family = old.family /\ new.pair = old.pair
                    /\ new.prerequisite = old.prerequisite
\* The status is another, and the worker may begin anew.
<1>3. ASSUME Keeps, new.artifact = old.artifact, new.written = old.written,
             new.busy => old.busy /\ new.from = old.from
      PROVE  RegenerationInv'
  <2> HIDE DEF new
  <2> QED BY <1>1, <1>2, <1>3, RunStepInv
\* The lesson l is another.
<1>4. ASSUME Keeps, NEW l \in Lesson, NEW end \in {"working", "failed", "complete"},
             new.artifact = [old.artifact EXCEPT ![l] = end], old.written \subseteq new.written,
             new.busy => new.from = l,
             old.family \in Derived /\ (end = "complete" \/ new.busy) => l \in PlanOf(r)
      PROVE  RegenerationInv'
  <2>1. \A m \in Lesson : new.artifact[m] = IF m = l THEN end ELSE old.artifact[m]
    BY <1>1, <1>4 DEF RunState
  <2> HIDE DEF new
  <2>2. new.family \in Derived => \A m \in Lesson :
          new.artifact[m] = "complete" \/ (new.busy /\ new.from = m) => m \in PlanOf(r)
    BY <1>2, <1>4, <2>1
  <2> QED BY <1>1, <1>4, <2>2, RunStepInv
<1>5. CASE Assemble(r)
  <2>1. ~old.busy /\ runs' = [runs EXCEPT ![r].status = "generating", ![r].from = 1]
    BY <1>5 DEF Assemble
  <2>2. Keeps /\ new.artifact = old.artifact /\ new.written = old.written /\ new.busy = old.busy
    BY <1>1, <2>1 DEF RunState, RunStatus
  <2> HIDE DEF Keeps, new
  <2> QED BY <1>3, <2>1, <2>2
<1>6. CASE Supersede(r) \/ Finalize(r) \/ ResumeRun(r)
  <2>1. PICK status \in RunStatus : runs' = [runs EXCEPT ![r].status = status]
    BY <1>6 DEF Supersede, Finalize, ResumeRun, RunStatus
  <2>2. /\ Keeps /\ new.artifact = old.artifact /\ new.written = old.written
        /\ new.busy = old.busy /\ new.from = old.from
    BY <1>1, <2>1 DEF RunState
  <2> HIDE DEF Keeps, new
  <2> QED BY <1>3, <2>2
<1>7. CASE TakeLesson(r)
  <2> DEFINE l == Min(Due(r))
  <2>1. l \in Lesson /\ l \in Nat /\ l + 1 \in Nat
    <3>1. Due(r) # {} /\ Due(r) \subseteq Nat
      BY <1>7, RegenerationAssumption DEF TakeLesson, Due
    <3>2. l \in Due(r)
      BY <3>1, LeastIsIn
    <3> QED BY <3>1, <3>2 DEF Due
  <2>2. ~old.busy /\ runs' = IF old.family # "lesson_plan" /\ l \notin PlanOf(r)
                THEN [runs EXCEPT ![r].artifact[l] = "failed", ![r].from = l + 1]
                ELSE [runs EXCEPT ![r].artifact[l] = "working", ![r].from = l,
                                  ![r].busy = TRUE]
    BY <1>7 DEF TakeLesson, AtCheckpoint
  <2> HIDE DEF l
  <2>3. CASE old.family # "lesson_plan" /\ l \notin PlanOf(r)
    <3>1. /\ Keeps /\ new.artifact = [old.artifact EXCEPT ![l] = "failed"]
          /\ new.written = old.written /\ new.busy = old.busy
      BY <1>1, <2>1, <2>2, <2>3 DEF RunState
    <3> HIDE DEF Keeps, new
    <3> QED BY <1>4, <2>1, <2>2, <3>1
  <2>4. CASE ~(old.family # "lesson_plan" /\ l \notin PlanOf(r))
    <3>1. /\ Keeps /\ new.artifact = [old.artifact EXCEPT ![l] = "working"]
          /\ new.written = old.written /\ new.from = l
      BY <1>1, <2>1, <2>2, <2>4 DEF RunState
    <3>2. old.family \in Derived => l \in PlanOf(r)
      BY <2>4, RegenerationAssumption
    <3> HIDE DEF Keeps, new
    <3> QED BY <1>4, <2>1, <3>1, <3>2
  <2> QED BY <2>3, <2>4
<1>8. CASE EndLesson(r)
  <2> DEFINE l == old.from
  <2>1. old.busy /\ l \in Lesson /\ l + 1 \in Nat /\ (old.family \in Derived => l \in PlanOf(r))
    BY <1>1, <1>2, <1>8, RegenerationAssumption DEF EndLesson
  <2>2. PICK end \in {"failed", "complete"}, written \in BOOLEAN :
          runs' = [runs EXCEPT ![r] = Ended(r, l, end, written)]
    BY <1>8 DEF EndLesson
  <2>3. /\ Keeps /\ new.artifact = [old.artifact EXCEPT ![l] = end]
        /\ old.written \subseteq new.written /\ ~new.busy
    BY <1>1, <2>1, <2>2 DEF Ended, RunState
  <2> HIDE DEF Keeps, new, l
  <2> QED BY <1>4, <2>1, <2>3
<1>9. CASE StopEarly(r)
  <2> DEFINE l == old.from
  <2>1. old.busy /\ l \in Lesson
    BY <1>2, <1>9 DEF StopEarly
  <2>2. CASE runs' = [runs EXCEPT ![r].busy = FALSE,
                             ![r].status = IF @ = "generating" THEN "capped_failure" ELSE @]
    <3>1. Keeps /\ new.artifact = old.artifact /\ new.written = old.written /\ ~new.busy
      BY <1>1, <2>2 DEF RunState, RunStatus
    <3> HIDE DEF Keeps, new
    <3> QED BY <1>3, <3>1
  <2>3. CASE runs' = [runs EXCEPT ![r].busy = FALSE, ![r].artifact[l] = "failed",
                             ![r].status = IF CompleteIn(r) # {} THEN "partial_failure"
                                           ELSE "terminal_failure"]
    <3>1. /\ Keeps /\ new.artifact = [old.artifact EXCEPT ![l] = "failed"]
          /\ new.written = old.written /\ ~new.busy
      BY <1>1, <2>1, <2>3 DEF RunState, RunStatus
    <3> HIDE DEF Keeps, new, l
    <3> QED BY <1>4, <2>1, <3>1
  <2> QED BY <1>9, <2>2, <2>3 DEF StopEarly
<1> QED BY <1>5, <1>6, <1>7, <1>8, <1>9 DEF Works

\* A confirmation changes nothing but the status of runs, and adds the pair.
LEMMA ConfirmPairInv == RegenerationInv /\ ConfirmPair => RegenerationInv'
<1> SUFFICES ASSUME RegenerationInv, ConfirmPair PROVE RegenerationInv'
  OBVIOUS
<1> DEFINE PairState == [unit : Nat, lesson : [Lesson -> Nat]]
<1>1. /\ RegenerationTypeInv /\ FollowInv /\ start' = start
      /\ pairs \in Seq(PairState) /\ pairs # <<>> /\ Len(pairs) \in Nat
  BY DEF RegenerationInv, RegenerationTypeInv, ConfirmPair
<1>2. pairs' \in Seq(PairState) /\ pairs' # <<>>
  <2> DEFINE P == pairs[CurrentPair]
             Unit == [P EXCEPT !.unit = @ + 1]
             Rewrites(l, v) == [P EXCEPT !.lesson[l] = v]
  <2>1. PICK new : /\ new \in {P, Unit} \cup {Rewrites(l, v) : l \in Lesson, v \in {0, CurrentPair + 1}}
                   /\ pairs' = Append(pairs, new)
    BY DEF ConfirmPair
  <2>2. P \in PairState
    <3> HIDE DEF PairState
    <3>1. CurrentPair \in 1..Len(pairs)
      BY <1>1 DEF CurrentPair
    <3> QED BY <1>1, <3>1
  <2>3. Unit \in PairState
    BY <2>2
  <2>4. ASSUME NEW l \in Lesson, NEW v \in {0, CurrentPair + 1}
        PROVE  Rewrites(l, v) \in PairState
    <3>1. v \in Nat
      BY <1>1 DEF CurrentPair
    <3> QED BY <2>2, <3>1
  <2> HIDE DEF PairState, P, Unit, Rewrites
  <2>5. new \in PairState
    BY <2>1, <2>2, <2>3, <2>4
  <2> QED BY <1>1, <2>1, <2>5
<1>3. /\ Len(runs) \in Nat /\ DOMAIN runs = 1..Len(runs)
      /\ \A r \in DOMAIN runs : runs[r] \in RunState
  BY <1>1, RunsTyped
<1>4. runs' = [r \in DOMAIN runs |-> IF runs[r].status \in Active
                                     THEN [runs[r] EXCEPT !.status = "superseded"] ELSE runs[r]]
  BY DEF ConfirmPair
<1>5. ASSUME NEW r \in DOMAIN runs
      PROVE  /\ runs'[r] \in RunState /\ runs'[r].family = runs[r].family
             /\ runs'[r].pair = runs[r].pair /\ runs'[r].prerequisite = runs[r].prerequisite
             /\ runs'[r].artifact = runs[r].artifact /\ runs'[r].written = runs[r].written
             /\ runs'[r].from = runs[r].from /\ runs'[r].busy = runs[r].busy
  BY <1>3, <1>4 DEF RunState, RunStatus
<1>6. runs' \in Seq(RunState) /\ DOMAIN runs' = DOMAIN runs
  <2>1. runs' \in [1..Len(runs) -> RunState]
    BY <1>3, <1>4, <1>5
  <2> QED BY <1>3, <1>4, <2>1
<1>7. RegenerationTypeInv'
  BY <1>1, <1>2, <1>6 DEF RegenerationTypeInv
<1>8. ASSUME NEW r \in DOMAIN runs PROVE PlanOf(r) \subseteq PlanOf(r)'
  <2>1. RunsStay
    BY <1>5, <1>6 DEF RunsStay
  <2> QED BY <2>1, PlansStay
<1>9. ASSUME NEW a \in Asker, start'[a] # NoAsk
      PROVE  BoundTo(start[a].prerequisite, start[a].pair)'
  BY <1>1, <1>5, <1>6, <1>9 DEF FollowInv, BoundTo
<1>10. ASSUME NEW r \in DOMAIN runs
       PROVE  /\ BoundTo(runs[r].prerequisite, runs[r].pair)'
              /\ runs'[r].busy => runs'[r].from \in Lesson
              /\ runs'[r].family \in Derived => /\ CompleteIn(r)' \subseteq PlanOf(r)'
                                                /\ runs'[r].busy => runs'[r].from \in PlanOf(r)'
  <2>1. BoundTo(runs[r].prerequisite, runs[r].pair)'
    <3>1. BoundTo(runs[r].prerequisite, runs[r].pair)
      BY <1>1 DEF FollowInv
    <3> QED BY <1>5, <1>6, <3>1 DEF BoundTo
  <2> QED BY <1>1, <1>5, <1>8, <2>1 DEF FollowInv, CompleteIn
<1>11. FollowInv'
  BY <1>6, <1>9, <1>10 DEF FollowInv
<1> QED BY <1>7, <1>11 DEF RegenerationInv

\* A start reads the plan run of the pair it reads.
LEMMA StartInv ==
  ASSUME RegenerationInv, NEW a \in Asker,
         StartPlans(a) \/ \E family \in Derived : StartDerived(a, family)
  PROVE  RegenerationInv'
<1>1. RegenerationTypeInv /\ FollowInv /\ runs' = runs /\ pairs' = pairs
  BY DEF RegenerationInv, StartPlans, StartDerived
<1>2. PICK s : /\ start' = [start EXCEPT ![a] = s] /\ s \in AskState
               /\ s.family \in Family /\ BoundTo(s.prerequisite, s.pair)
  <2>1. CurrentPair \in Nat /\ Len(runs) \in Nat /\ DOMAIN runs = 1..Len(runs)
    BY <1>1, RunsTyped DEF CurrentPair, RegenerationTypeInv
  <2>2. ASSUME NEW family PROVE TargetedScope(family, CurrentPair).lessons \subseteq Lesson
    BY DEF TargetedScope, FullScope, LessonsOf, Rewritten
  <2>3. CASE StartPlans(a)
    <3> DEFINE s == [family |-> "lesson_plan", pair |-> CurrentPair,
                     lessons |-> TargetedScope("lesson_plan", CurrentPair).lessons, prerequisite |-> 0]
    <3>1. start' = [start EXCEPT ![a] = s]
      BY <2>3 DEF StartPlans
    <3>2. s \in AskState /\ s.family \in Family /\ BoundTo(s.prerequisite, s.pair)
      BY <2>1, <2>2 DEF AskState, PairNumber, Family, BoundTo
    <3> QED BY <3>1, <3>2
  <2>4. ASSUME NEW family \in Derived, StartDerived(a, family)
        PROVE  \E s : /\ start' = [start EXCEPT ![a] = s] /\ s \in AskState
                      /\ s.family \in Family /\ BoundTo(s.prerequisite, s.pair)
    <3> DEFINE p == Prerequisite(CurrentPair)
               s == [family |-> family, pair |-> CurrentPair,
                     lessons |-> TargetedScope(family, CurrentPair).lessons, prerequisite |-> p]
    <3>1. start' = [start EXCEPT ![a] = s]
      BY <2>4 DEF StartDerived
    <3>2. p # 0 => p \in DOMAIN runs /\ runs[p].pair = CurrentPair
      <4> DEFINE S == RunFor("lesson_plan", CurrentPair)
      <4>1. S \subseteq 1..Len(runs)
        BY <2>1 DEF RunFor, RunsOf
      <4>2. S # {} => Max(S) \in S
        <5> HIDE DEF S
        <5> QED BY <2>1, <4>1, GreatestIsIn
      <4>3. p # 0 => p \in S
        BY <4>2 DEF Prerequisite
      <4> QED BY <4>3 DEF RunFor, RunsOf
    <3>3. p \in Nat
      BY <2>1, <3>2
    <3>4. s \in AskState /\ s.family \in Family /\ s.prerequisite = p /\ s.pair = CurrentPair
      <4> HIDE DEF p
      <4> QED BY <2>1, <2>2, <3>3 DEF AskState, PairNumber, Family
    <3> HIDE DEF p, s
    <3> QED BY <3>1, <3>2, <3>4 DEF BoundTo
  <2> QED BY <2>3, <2>4
<1>3. /\ start' \in [Asker -> AskState] /\ start'[a] = s
      /\ \A b \in Asker \ {a} : start'[b] = start[b]
  BY <1>1, <1>2 DEF RegenerationTypeInv
<1>4. RegenerationTypeInv'
  BY <1>1, <1>2, <1>3 DEF RegenerationTypeInv
<1>5. FollowInv'
  BY <1>1, <1>2, <1>3 DEF FollowInv, BoundTo, CompleteIn, PlanOf
<1> QED BY <1>4, <1>5 DEF RegenerationInv

\* A run is inserted with the plan run its start has read, and nothing of it is made yet.
LEMMA InsertRunInv ==
  ASSUME RegenerationInv, NEW a \in Asker, InsertRun(a)
  PROVE  RegenerationInv'
<1> DEFINE s == start[a]
           new == NewRun(s)
<1>1. /\ RegenerationTypeInv /\ FollowInv /\ pairs' = pairs /\ s # NoAsk
      /\ start' = [start EXCEPT ![a] = NoAsk]
      /\ runs' \in {runs, Append(runs, new)}
  BY DEF RegenerationInv, InsertRun
<1>2. /\ s \in AskState /\ s.family \in Family /\ BoundTo(s.prerequisite, s.pair)
      /\ Len(runs) \in Nat /\ DOMAIN runs = 1..Len(runs) /\ runs \in Seq(RunState)
  BY <1>1, RunsTyped DEF RegenerationTypeInv, FollowInv
<1>3. /\ new \in RunState /\ new.prerequisite = s.prerequisite /\ new.pair = s.pair
      /\ ~new.busy /\ \A l \in Lesson : new.artifact[l] # "complete"
  BY <1>2 DEF NewRun, AskState, RunState, RunStatus
<1>4. /\ start' \in [Asker -> AskState] /\ start'[a] = NoAsk
      /\ \A b \in Asker \ {a} : start'[b] = start[b]
  <2>1. NoAsk \in AskState
    BY DEF NoAsk, AskState, PairNumber
  <2> QED BY <1>1, <2>1 DEF RegenerationTypeInv
<1> HIDE DEF new
<1>5. /\ runs' \in Seq(RunState) /\ DOMAIN runs \subseteq DOMAIN runs'
      /\ \A r \in DOMAIN runs : runs'[r] = runs[r]
      /\ \A r \in DOMAIN runs' \ DOMAIN runs : runs'[r] = new
  BY <1>1, <1>2, <1>3
<1>6. RegenerationTypeInv'
  BY <1>1, <1>4, <1>5 DEF RegenerationTypeInv
<1>7. RunsStay
  BY <1>5 DEF RunsStay
<1>8. ASSUME NEW p, NEW n, BoundTo(p, n) PROVE BoundTo(p, n)'
  BY <1>5, <1>8 DEF BoundTo
<1>9. ASSUME NEW b \in Asker, start'[b] # NoAsk
      PROVE  BoundTo(start[b].prerequisite, start[b].pair)'
  BY <1>1, <1>4, <1>5, <1>9 DEF FollowInv, BoundTo
<1>10. ASSUME NEW r \in DOMAIN runs'
       PROVE  /\ BoundTo(runs[r].prerequisite, runs[r].pair)'
              /\ runs'[r].busy => runs'[r].from \in Lesson
              /\ runs'[r].family \in Derived => /\ CompleteIn(r)' \subseteq PlanOf(r)'
                                                /\ runs'[r].busy => runs'[r].from \in PlanOf(r)'
  <2>1. CASE r \in DOMAIN runs
    <3>1. PlanOf(r) \subseteq PlanOf(r)'
      BY <1>7, <2>1, PlansStay
    <3>2. BoundTo(runs[r].prerequisite, runs[r].pair)'
      BY <1>1, <1>5, <2>1 DEF FollowInv, BoundTo
    <3> QED BY <1>1, <1>5, <2>1, <3>1, <3>2 DEF FollowInv, CompleteIn
  <2>2. CASE r \notin DOMAIN runs
    <3>1. runs'[r] = new
      BY <1>5, <2>2
    <3>2. BoundTo(runs[r].prerequisite, runs[r].pair)'
      BY <1>2, <1>3, <1>5, <3>1 DEF BoundTo
    <3> QED BY <1>3, <3>1, <3>2 DEF CompleteIn
  <2> QED BY <2>1, <2>2
<1>11. FollowInv'
  BY <1>9, <1>10 DEF FollowInv
<1> QED BY <1>6, <1>11 DEF RegenerationInv

\* Every step keeps the invariant.
LEMMA RegenerationNextInv ==
  RegenerationInv /\ [RegenerationNext]_regenerationVars => RegenerationInv'
<1> SUFFICES ASSUME RegenerationInv, [RegenerationNext]_regenerationVars PROVE RegenerationInv'
  OBVIOUS
<1>1. CASE UNCHANGED regenerationVars
  BY <1>1 DEF regenerationVars, RegenerationInv, RegenerationTypeInv, FollowInv, BoundTo,
     CompleteIn, PlanOf
<1>2. CASE RegenerationNext
  BY <1>2, ConfirmPairInv, StartInv, InsertRunInv, WorkInv DEF RegenerationNext, Asks
<1> QED BY <1>1, <1>2

\* A deck or exercise that is complete was written from a plan of the pair it is shown
\* under: whatever is confirmed, started, resumed or inserted while it is made
\* (start_deck_generation, lesson_plans_of_prerequisite).
THEOREM DerivedDocumentsFollowTheirPair == RegenerationSpec => []DerivedFollowsItsPair
<1>1. RegenerationInit => RegenerationInv
  BY RegenerationInitInv
<1>2. RegenerationInv /\ [RegenerationNext]_regenerationVars => RegenerationInv'
  BY RegenerationNextInv
<1>3. RegenerationInv => DerivedFollowsItsPair
  BY FollowIsEnough
<1> QED BY <1>1, <1>2, <1>3, PTL DEF RegenerationSpec

-----------------------------------------------------------------------------
(* Confirmation: no edit is lost, and what is confirmed fits its brief.     *)

BriefDraft == [from : Nat, lessons : Lessons]
BriefVersion == [source : Nat, lessons : Lessons]
ReadyPlan == [brief : Nat, lessons : Lessons, findings : Findings]
Draft == [from : Nat, brief : Nat, plan : Nat, lessons : Lessons, findings : Findings]
BlueprintVersion == [source : Nat, brief : Nat, stale : BOOLEAN, lessons : Lessons]
EditorState ==
  [pc : {"idle", "patchBrief", "numberBrief", "confirmBrief", "import", "require", "edit",
         "check", "confirm"},
   brief : Nat, base : Nat, plan : Nat, number : Nat]

ConfirmationTypeInv ==
  /\ briefDrafts \in Seq(BriefDraft)
  /\ briefVersions \in Seq(BriefVersion)
  /\ plans \in Seq(ReadyPlan)
  /\ drafts \in Seq(Draft)
  /\ versions \in Seq(BlueprintVersion)
  /\ editor \in [Editor -> EditorState]

\* The rows.
BriefDraftInv(i) == briefDrafts[i].from = i - 1
PlanInv(i) == plans[i].brief \in DOMAIN briefVersions
DraftInv(i) ==
  /\ drafts[i].from \in {0, i - 1}
  /\ drafts[i].plan \in DOMAIN plans /\ plans[drafts[i].plan].brief = drafts[i].brief
VersionInv(i) ==
  /\ versions[i].source \in DOMAIN drafts /\ versions[i].brief \in DOMAIN briefVersions
  /\ drafts[versions[i].source].brief = versions[i].brief
  /\ versions[i].lessons = drafts[versions[i].source].lessons
  /\ Passes(drafts[versions[i].source], versions[i].brief)

\* What a request has read is a row, and rows stay as they are.
EditorInv(c) ==
  LET j == editor[c]
  IN /\ At(c, "numberBrief") \/ At(c, "confirmBrief") => j.base \in DOMAIN briefDrafts
     /\ At(c, "import") => j.plan \in DOMAIN plans /\ plans[j.plan].brief = j.brief
     /\ At(c, "edit") \/ At(c, "check") \/ At(c, "confirm") =>
          j.base \in DOMAIN drafts /\ drafts[j.base].brief = j.brief
     /\ At(c, "confirm") => Passes(drafts[j.base], j.brief)

ConfirmationInv ==
  /\ ConfirmationTypeInv
  /\ \A i \in DOMAIN briefDrafts : BriefDraftInv(i)
  /\ \A i \in DOMAIN plans : PlanInv(i)
  /\ \A i \in DOMAIN drafts : DraftInv(i)
  /\ \A i \in DOMAIN versions : VersionInv(i)
  /\ \A c \in Editor : EditorInv(c)

\* The invariant is what the properties ask.
LEMMA ConfirmationIsEnough == ConfirmationInv => EditsAreLinear /\ ConfirmedFitsItsBrief
<1> SUFFICES ASSUME ConfirmationInv PROVE EditsAreLinear /\ ConfirmedFitsItsBrief
  OBVIOUS
<1>1. EditsAreLinear
  BY DEF ConfirmationInv, EditsAreLinear, BriefDraftInv, DraftInv
<1>2. ASSUME NEW i \in DOMAIN versions
      PROVE  LET v == versions[i]
                 draft == drafts[v.source]
             IN /\ draft.brief = v.brief /\ plans[draft.plan].brief = v.brief
                /\ v.lessons = briefVersions[v.brief].lessons /\ v.lessons = draft.lessons
                /\ draft.findings # "open"
  <2>1. VersionInv(i) /\ DraftInv(versions[i].source)
    BY DEF ConfirmationInv, VersionInv
  <2> QED BY <2>1 DEF VersionInv, DraftInv, Passes
<1> QED BY <1>1, <1>2 DEF ConfirmedFitsItsBrief

\* Tables only grow.
Grows(old, new) == DOMAIN old \subseteq DOMAIN new /\ \A i \in DOMAIN old : new[i] = old[i]

\* An appended row is the last one, and the others stay.
LEMMA Appended ==
  ASSUME NEW S, NEW s \in Seq(S), NEW x \in S, NEW t, t = Append(s, x)
  PROVE  /\ t \in Seq(S) /\ Grows(s, t) /\ Len(s) \in Nat
         /\ \A i \in DOMAIN t \ DOMAIN s : i = Len(s) + 1 /\ t[i] = x
BY DEF Grows

\* A table that stays has grown by nothing.
LEMMA SameGrows == \A s : Grows(s, s)
BY DEF Grows

\* A step that adds rows keeps what the rows and the other requests rely on.
LEMMA RowsStay ==
  ASSUME ConfirmationInv, ConfirmationTypeInv',
         Grows(briefDrafts, briefDrafts'), Grows(briefVersions, briefVersions'),
         Grows(plans, plans'), Grows(drafts, drafts'),
         DOMAIN versions \subseteq DOMAIN versions',
         \A i \in DOMAIN versions : /\ versions'[i].source = versions[i].source
                                    /\ versions'[i].brief = versions[i].brief
                                    /\ versions'[i].lessons = versions[i].lessons,
         \A i \in DOMAIN briefDrafts' \ DOMAIN briefDrafts : BriefDraftInv(i)',
         \A i \in DOMAIN plans' \ DOMAIN plans : PlanInv(i)',
         \A i \in DOMAIN drafts' \ DOMAIN drafts : DraftInv(i)',
         \A i \in DOMAIN versions' \ DOMAIN versions : VersionInv(i)',
         \A c \in Editor : editor'[c] = editor[c] \/ EditorInv(c)'
  PROVE  ConfirmationInv'
<1>1. ASSUME NEW i \in DOMAIN briefDrafts PROVE BriefDraftInv(i)'
  BY DEF ConfirmationInv, BriefDraftInv, Grows
<1>2. ASSUME NEW i \in DOMAIN plans PROVE PlanInv(i)'
  BY DEF ConfirmationInv, PlanInv, Grows
<1>3. ASSUME NEW i \in DOMAIN drafts PROVE DraftInv(i)'
  BY DEF ConfirmationInv, DraftInv, Grows
<1>4. ASSUME NEW i \in DOMAIN versions PROVE VersionInv(i)'
  <2>1. VersionInv(i)
    BY DEF ConfirmationInv
  <2> QED BY <2>1 DEF VersionInv, Passes, Grows
<1>5. ASSUME NEW c \in Editor, editor'[c] = editor[c] PROVE EditorInv(c)'
  <2>1. EditorInv(c)
    BY DEF ConfirmationInv
  <2>2. ASSUME At(c, "confirm") PROVE editor[c].brief \in DOMAIN briefVersions
    <3>1. editor[c].base \in DOMAIN drafts /\ drafts[editor[c].base].brief = editor[c].brief
      BY <2>1, <2>2 DEF EditorInv
    <3>2. DraftInv(editor[c].base)
      BY <3>1 DEF ConfirmationInv
    <3>3. PlanInv(drafts[editor[c].base].plan)
      BY <3>2 DEF ConfirmationInv, DraftInv
    <3> QED BY <3>1, <3>2, <3>3 DEF DraftInv, PlanInv
  <2> QED BY <1>5, <2>1, <2>2 DEF EditorInv, At, Passes, Grows
<1> QED BY <1>1, <1>2, <1>3, <1>4, <1>5 DEF ConfirmationInv

\* What a step of the request c leaves alone.
LEMMA GoesSets ==
  ASSUME ConfirmationTypeInv, NEW c \in Editor, NEW s \in EditorState, Goes(c, s)
  PROVE  /\ editor' \in [Editor -> EditorState] /\ editor'[c] = s
         /\ \A d \in Editor \ {c} : editor'[d] = editor[d]
BY DEF Goes, ConfirmationTypeInv

\* An answered editor is idle, and idle editors rely on nothing.
LEMMA AnsweredSets ==
  ASSUME ConfirmationTypeInv, NEW c \in Editor, Answered(c)
  PROVE  /\ editor' \in [Editor -> EditorState]
         /\ \A d \in Editor : editor'[d] = editor[d] \/ EditorInv(d)'
<1>1. NoRequest \in EditorState /\ NoRequest.pc = "idle"
  BY DEF NoRequest, EditorState
<1> HIDE DEF NoRequest
<1>2. /\ editor' \in [Editor -> EditorState] /\ editor'[c] = NoRequest
      /\ \A d \in Editor \ {c} : editor'[d] = editor[d]
  BY <1>1, GoesSets DEF Answered
<1>3. EditorInv(c)'
  BY <1>1, <1>2 DEF EditorInv, At
<1> QED BY <1>2, <1>3

\* Initially there are no drafts and no versions.
LEMMA ConfirmationInitInv == ConfirmationInit => ConfirmationInv
<1> SUFFICES ASSUME ConfirmationInit PROVE ConfirmationInv
  OBVIOUS
<1>1. NoRequest \in EditorState /\ NoRequest.pc = "idle"
  BY DEF NoRequest, EditorState
<1> HIDE DEF NoRequest
<1>2. ConfirmationTypeInv
  BY <1>1 DEF ConfirmationInit, ConfirmationTypeInv
<1>3. \A c \in Editor : EditorInv(c)
  BY <1>1 DEF ConfirmationInit, EditorInv, At
<1> QED BY <1>2, <1>3 DEF ConfirmationInit, ConfirmationInv

\* A step that reads: the tables stay, and what the request has read is there.
LEMMA ReadInv ==
  ASSUME ConfirmationInv, NEW c \in Editor, NEW s \in EditorState, Goes(c, s),
         UNCHANGED <<briefRows, blueprintRows>>,
         s.pc \in {"numberBrief", "confirmBrief"} => s.base \in DOMAIN briefDrafts,
         s.pc = "import" => s.plan \in DOMAIN plans /\ plans[s.plan].brief = s.brief,
         s.pc \in {"edit", "check", "confirm"} =>
           s.base \in DOMAIN drafts /\ drafts[s.base].brief = s.brief,
         s.pc = "confirm" => Passes(drafts[s.base], s.brief)
  PROVE  ConfirmationInv'
<1>1. ConfirmationTypeInv
  BY DEF ConfirmationInv
<1>2. /\ editor' \in [Editor -> EditorState] /\ editor'[c] = s
      /\ \A d \in Editor \ {c} : editor'[d] = editor[d]
  BY <1>1, GoesSets
<1>3. /\ briefDrafts' = briefDrafts /\ briefVersions' = briefVersions
      /\ plans' = plans /\ drafts' = drafts /\ versions' = versions
  BY DEF briefRows, blueprintRows
<1>4. ConfirmationTypeInv'
  BY <1>1, <1>2, <1>3 DEF ConfirmationTypeInv
<1>5. EditorInv(c)'
  BY <1>2, <1>3 DEF EditorInv, At, Passes
<1> QED BY <1>2, <1>3, <1>4, <1>5, SameGrows, RowsStay

\* The tables by number.
LEMMA TablesTyped ==
  ASSUME ConfirmationTypeInv
  PROVE  /\ Len(briefDrafts) \in Nat /\ DOMAIN briefDrafts = 1..Len(briefDrafts)
         /\ \A i \in DOMAIN briefDrafts : briefDrafts[i] \in BriefDraft
         /\ Len(briefVersions) \in Nat /\ DOMAIN briefVersions = 1..Len(briefVersions)
         /\ \A i \in DOMAIN briefVersions : briefVersions[i] \in BriefVersion
         /\ Len(plans) \in Nat /\ DOMAIN plans = 1..Len(plans)
         /\ \A i \in DOMAIN plans : plans[i] \in ReadyPlan
         /\ Len(drafts) \in Nat /\ DOMAIN drafts = 1..Len(drafts)
         /\ \A i \in DOMAIN drafts : drafts[i] \in Draft
         /\ Len(versions) \in Nat /\ DOMAIN versions = 1..Len(versions)
         /\ \A i \in DOMAIN versions : versions[i] \in BlueprintVersion
         /\ \A c \in Editor : editor[c] \in EditorState
BY DEF ConfirmationTypeInv

\* The steps that read the rows of the brief.
LEMMA BriefReadInv ==
  ASSUME ConfirmationInv, NEW c \in Editor,
         PatchBriefRead(c) \/ ConfirmBriefRead(c) \/ ConfirmBriefNumber(c)
  PROVE  ConfirmationInv'
<1>1. ConfirmationTypeInv /\ EditorInv(c)
  BY DEF ConfirmationInv
<1>2. NoRequest \in EditorState /\ NoRequest.pc = "idle" /\ editor[c] \in EditorState
  BY <1>1, TablesTyped DEF NoRequest, EditorState
<1> HIDE DEF NoRequest
<1>3. CASE PatchBriefRead(c)
  <2> DEFINE s == [NoRequest EXCEPT !.pc = "patchBrief", !.base = Len(briefDrafts)]
  <2>1. s \in EditorState /\ s.pc = "patchBrief"
    BY <1>1, <1>2, TablesTyped DEF EditorState
  <2>2. Goes(c, s) /\ UNCHANGED <<briefRows, blueprintRows>>
    BY <1>3 DEF PatchBriefRead
  <2> HIDE DEF s
  <2> QED BY <2>1, <2>2, ReadInv
<1>4. CASE ConfirmBriefRead(c)
  <2> DEFINE s == [NoRequest EXCEPT !.pc = "numberBrief", !.base = Len(briefDrafts)]
  <2>1. s \in EditorState /\ s.pc = "numberBrief" /\ s.base = Len(briefDrafts)
    BY <1>1, <1>2, TablesTyped DEF EditorState
  <2>2. Goes(c, s) /\ UNCHANGED <<briefRows, blueprintRows>>
    BY <1>4 DEF ConfirmBriefRead
  <2>3. Len(briefDrafts) \in DOMAIN briefDrafts
    <3>1. briefDrafts \in Seq(BriefDraft) /\ briefDrafts # <<>>
      BY <1>1, <1>4 DEF ConfirmBriefRead, ConfirmationTypeInv
    <3> QED BY <3>1
  <2> HIDE DEF s
  <2> QED BY <2>1, <2>2, <2>3, ReadInv
<1>5. CASE ConfirmBriefNumber(c)
  <2>1. UNCHANGED <<briefRows, blueprintRows>> /\ editor[c].pc = "numberBrief"
    BY <1>5 DEF ConfirmBriefNumber, At
  <2>2. CASE Goes(c, NoRequest)
    BY <1>2, <2>1, <2>2, ReadInv
  <2>3. CASE Goes(c, [editor[c] EXCEPT !.pc = "confirmBrief", !.number = Len(briefVersions) + 1])
    <3> DEFINE s == [editor[c] EXCEPT !.pc = "confirmBrief", !.number = Len(briefVersions) + 1]
    <3>1. Len(briefVersions) + 1 \in Nat
      BY <1>1, TablesTyped
    <3>2. s \in EditorState /\ s.pc = "confirmBrief" /\ s.base = editor[c].base
      BY <1>2, <3>1 DEF EditorState
    <3>3. editor[c].base \in DOMAIN briefDrafts
      BY <1>1, <2>1 DEF EditorInv, At
    <3> HIDE DEF s
    <3>4. Goes(c, s)
      BY <2>3 DEF s
    <3> QED BY <2>1, <3>2, <3>3, <3>4, ReadInv
  <2> QED BY <1>5, <2>2, <2>3 DEF ConfirmBriefNumber, Answered
<1> QED BY <1>3, <1>4, <1>5

\* The steps that read the rows of the blueprint.
LEMMA BlueprintReadInv ==
  ASSUME ConfirmationInv, NEW c \in Editor,
         ImportRead(c) \/ RequireBrief(c) \/ RequireDraft(c) \/ ConfirmNumber(c)
  PROVE  ConfirmationInv'
<1>1. ConfirmationTypeInv /\ EditorInv(c) /\ UNCHANGED <<briefRows, blueprintRows>>
  BY DEF ConfirmationInv, ImportRead, RequireBrief, RequireDraft, ConfirmNumber
<1>2. NoRequest \in EditorState /\ NoRequest.pc = "idle" /\ editor[c] \in EditorState
  BY <1>1, TablesTyped DEF NoRequest, EditorState
<1> HIDE DEF NoRequest
<1>3. CASE ImportRead(c)
  <2> DEFINE s == [NoRequest EXCEPT !.pc = "import", !.brief = NewestBrief, !.plan = Len(plans),
                                    !.base = Len(drafts)]
  <2>1. s \in EditorState /\ s.pc = "import" /\ s.plan = Len(plans) /\ s.brief = NewestBrief
    BY <1>1, <1>2, TablesTyped DEF EditorState, NewestBrief
  <2>2. Goes(c, s) /\ plans[Len(plans)].brief = NewestBrief
    BY <1>3 DEF ImportRead
  <2>3. Len(plans) \in DOMAIN plans
    <3>1. plans \in Seq(ReadyPlan) /\ plans # <<>>
      BY <1>1, <1>3 DEF ImportRead, ConfirmationTypeInv
    <3> QED BY <3>1
  <2> HIDE DEF s
  <2> QED BY <1>1, <2>1, <2>2, <2>3, ReadInv
<1>4. CASE RequireBrief(c)
  <2> DEFINE s == [NoRequest EXCEPT !.pc = "require", !.brief = NewestBrief]
  <2>1. s \in EditorState /\ s.pc = "require"
    BY <1>1, <1>2, TablesTyped DEF EditorState, NewestBrief
  <2>2. Goes(c, s)
    BY <1>4 DEF RequireBrief
  <2> HIDE DEF s
  <2> QED BY <1>1, <2>1, <2>2, ReadInv
<1>5. CASE RequireDraft(c)
  <2>1. PICK next \in {"edit", "check"} : Goes(c, [editor[c] EXCEPT !.pc = next, !.base = Len(drafts)])
    BY <1>5 DEF RequireDraft
  <2> DEFINE s == [editor[c] EXCEPT !.pc = next, !.base = Len(drafts)]
  <2>2. s \in EditorState /\ s.pc = next /\ s.base = Len(drafts) /\ s.brief = editor[c].brief
    BY <1>1, <1>2, TablesTyped DEF EditorState
  <2>3. Len(drafts) \in DOMAIN drafts /\ drafts[Len(drafts)].brief = editor[c].brief
    <3>1. drafts \in Seq(Draft) /\ drafts # <<>> /\ drafts[Len(drafts)].brief = editor[c].brief
      BY <1>1, <1>5 DEF RequireDraft, ConfirmationTypeInv
    <3> QED BY <3>1
  <2> HIDE DEF s
  <2>4. Goes(c, s)
    BY <2>1 DEF s
  <2> QED BY <1>1, <2>2, <2>3, <2>4, ReadInv
<1>6. CASE ConfirmNumber(c)
  <2>1. /\ editor[c].base \in DOMAIN drafts /\ drafts[editor[c].base].brief = editor[c].brief
    BY <1>1, <1>6 DEF ConfirmNumber, EditorInv, At
  <2>2. CASE Goes(c, NoRequest)
    BY <1>1, <1>2, <2>2, ReadInv
  <2>3. CASE /\ Passes(drafts[editor[c].base], editor[c].brief)
             /\ Goes(c, [editor[c] EXCEPT !.pc = "confirm", !.number = Len(versions) + 1])
    <3> DEFINE s == [editor[c] EXCEPT !.pc = "confirm", !.number = Len(versions) + 1]
    <3>1. Len(versions) + 1 \in Nat
      BY <1>1, TablesTyped
    <3>2. s \in EditorState /\ s.pc = "confirm" /\ s.base = editor[c].base /\ s.brief = editor[c].brief
      BY <1>2, <3>1 DEF EditorState
    <3> HIDE DEF s
    <3>3. Goes(c, s)
      BY <2>3 DEF s
    <3> QED BY <1>1, <2>1, <2>3, <3>2, <3>3, ReadInv
  <2> QED BY <1>6, <2>2, <2>3 DEF ConfirmNumber, Answered
<1> QED BY <1>3, <1>4, <1>5, <1>6

\* The first draft of the brief, and its revisions: the key admits the one that follows.
LEMMA BriefDraftInserted ==
  ASSUME ConfirmationInv, EnsureDraft \/ \E c \in Editor : PatchBriefCommit(c)
  PROVE  ConfirmationInv'
<1>1. /\ ConfirmationTypeInv /\ briefDrafts \in Seq(BriefDraft)
      /\ briefVersions' = briefVersions /\ plans' = plans /\ drafts' = drafts /\ versions' = versions
  BY DEF ConfirmationInv, ConfirmationTypeInv, EnsureDraft, PatchBriefCommit, blueprintRows
<1>2. /\ editor' \in [Editor -> EditorState]
      /\ \A d \in Editor : editor'[d] = editor[d] \/ EditorInv(d)'
  BY <1>1, AnsweredSets DEF EnsureDraft, PatchBriefCommit, ConfirmationTypeInv
<1>3. /\ briefDrafts' \in Seq(BriefDraft) /\ Grows(briefDrafts, briefDrafts')
      /\ \A i \in DOMAIN briefDrafts' \ DOMAIN briefDrafts : BriefDraftInv(i)'
  <2>1. CASE briefDrafts' = briefDrafts
    BY <1>1, <2>1, SameGrows
  <2>2. CASE \E n \in Lessons : briefDrafts' = Append(briefDrafts, [from |-> Len(briefDrafts), lessons |-> n])
    <3>1. PICK n \in Lessons : briefDrafts' = Append(briefDrafts, [from |-> Len(briefDrafts), lessons |-> n])
      BY <2>2
    <3> DEFINE row == [from |-> Len(briefDrafts), lessons |-> n]
    <3>2. row \in BriefDraft /\ row.from = Len(briefDrafts) /\ Len(briefDrafts) \in Nat
      BY <1>1, TablesTyped DEF BriefDraft
    <3> HIDE DEF row
    <3>3. briefDrafts' = Append(briefDrafts, row)
      BY <3>1 DEF row
    <3>4. /\ briefDrafts' \in Seq(BriefDraft) /\ Grows(briefDrafts, briefDrafts')
          /\ \A i \in DOMAIN briefDrafts' \ DOMAIN briefDrafts : i = Len(briefDrafts) + 1 /\ briefDrafts'[i] = row
      <4>1. briefDrafts \in Seq(BriefDraft) /\ row \in BriefDraft /\ briefDrafts' = Append(briefDrafts, row)
        BY <1>1, <3>2, <3>3
      <4> QED BY <4>1, Appended
    <3> QED BY <3>2, <3>4 DEF BriefDraftInv
  <2>3. CASE EnsureDraft
    <3>1. briefDrafts = <<>> /\ \E n \in Lessons : briefDrafts' = <<[from |-> 0, lessons |-> n]>>
      BY <2>3 DEF EnsureDraft
    <3> QED BY <2>2, <3>1
  <2>4. CASE \E c \in Editor : PatchBriefCommit(c)
    BY <2>1, <2>2, <2>4 DEF PatchBriefCommit
  <2> QED BY <2>3, <2>4
<1>4. ConfirmationTypeInv'
  BY <1>1, <1>2, <1>3 DEF ConfirmationTypeInv
<1> QED BY <1>1, <1>2, <1>3, <1>4, SameGrows, RowsStay

\* A version of the brief: it makes every version of the blueprint stale.
LEMMA BriefVersionInserted ==
  ASSUME ConfirmationInv, NEW c \in Editor, ConfirmBriefCommit(c)
  PROVE  ConfirmationInv'
<1> DEFINE base == editor[c].base
<1>1. /\ ConfirmationTypeInv /\ briefVersions \in Seq(BriefVersion)
      /\ versions \in Seq(BlueprintVersion)
      /\ briefDrafts' = briefDrafts /\ plans' = plans /\ drafts' = drafts
  BY DEF ConfirmationInv, ConfirmationTypeInv, ConfirmBriefCommit
<1>2. /\ editor' \in [Editor -> EditorState]
      /\ \A d \in Editor : editor'[d] = editor[d] \/ EditorInv(d)'
  BY <1>1, AnsweredSets DEF ConfirmBriefCommit
<1>3. /\ briefVersions' \in Seq(BriefVersion) /\ Grows(briefVersions, briefVersions')
      /\ versions' \in Seq(BlueprintVersion) /\ DOMAIN versions' = DOMAIN versions
      /\ \A i \in DOMAIN versions : /\ versions'[i].source = versions[i].source
                                    /\ versions'[i].brief = versions[i].brief
                                    /\ versions'[i].lessons = versions[i].lessons
  <2>1. CASE briefVersions' = briefVersions /\ versions' = versions
    BY <1>1, <2>1, SameGrows
  <2>2. CASE /\ briefVersions' =
                  Append(briefVersions, [source |-> base, lessons |-> briefDrafts[base].lessons])
             /\ Stale
    <3> DEFINE row == [source |-> base, lessons |-> briefDrafts[base].lessons]
    <3>1. row \in BriefVersion
      <4>1. base \in DOMAIN briefDrafts
        BY DEF ConfirmBriefCommit, ConfirmationInv, EditorInv, At
      <4> QED BY <1>1, <4>1, TablesTyped DEF BriefDraft, BriefVersion
    <3>2. briefVersions' \in Seq(BriefVersion) /\ Grows(briefVersions, briefVersions')
      <4> HIDE DEF row
      <4>1. briefVersions' = Append(briefVersions, row)
        BY <2>2 DEF row
      <4> QED BY <1>1, <3>1, <4>1, Appended
    <3>3. versions' = [i \in DOMAIN versions |-> [versions[i] EXCEPT !.stale = TRUE]]
      BY <2>2 DEF Stale
    <3>4. ASSUME NEW i \in DOMAIN versions
          PROVE  /\ versions'[i] \in BlueprintVersion /\ versions'[i].source = versions[i].source
                 /\ versions'[i].brief = versions[i].brief
                 /\ versions'[i].lessons = versions[i].lessons
      BY <1>1, <3>3, TablesTyped DEF BlueprintVersion
    <3>5. DOMAIN versions' = DOMAIN versions /\ versions' \in [1..Len(versions) -> BlueprintVersion]
      BY <1>1, <3>3, <3>4, TablesTyped
    <3>6. versions' \in Seq(BlueprintVersion)
      BY <1>1, <3>5, TablesTyped
    <3> QED BY <3>2, <3>4, <3>5, <3>6
  <2> QED BY <2>1, <2>2 DEF ConfirmBriefCommit
<1>4. ConfirmationTypeInv'
  BY <1>1, <1>2, <1>3 DEF ConfirmationTypeInv
<1> QED BY <1>1, <1>2, <1>3, <1>4, SameGrows, RowsStay

\* A planning run with a draft.
LEMMA PlanInserted == ConfirmationInv /\ PlanReady => ConfirmationInv'
<1> SUFFICES ASSUME ConfirmationInv, PlanReady PROVE ConfirmationInv'
  OBVIOUS
<1>1. /\ ConfirmationTypeInv /\ plans \in Seq(ReadyPlan) /\ editor' = editor
      /\ briefDrafts' = briefDrafts /\ briefVersions' = briefVersions
      /\ drafts' = drafts /\ versions' = versions
  BY DEF ConfirmationInv, ConfirmationTypeInv, PlanReady, briefRows
<1>2. PICK b \in 1..NewestBrief, n \in Lessons, f \in {"none", "open"} :
        plans' = Append(plans, [brief |-> b, lessons |-> n, findings |-> f])
  BY DEF PlanReady
<1> DEFINE row == [brief |-> b, lessons |-> n, findings |-> f]
<1>3. row \in ReadyPlan /\ row.brief \in DOMAIN briefVersions
  BY <1>1, TablesTyped DEF ReadyPlan, Findings, NewestBrief
<1> HIDE DEF row
<1>4. /\ plans' \in Seq(ReadyPlan) /\ Grows(plans, plans')
      /\ \A i \in DOMAIN plans' \ DOMAIN plans : i = Len(plans) + 1 /\ plans'[i] = row
  <2>1. plans' = Append(plans, row)
    BY <1>2 DEF row
  <2> QED BY <1>1, <1>3, <2>1, Appended
<1>5. ConfirmationTypeInv' /\ \A i \in DOMAIN plans' \ DOMAIN plans : PlanInv(i)'
  BY <1>1, <1>3, <1>4 DEF ConfirmationTypeInv, PlanInv
<1> QED BY <1>1, <1>4, <1>5, SameGrows, RowsStay

\* A revision of the blueprint's draft, imported or edited.
LEMMA DraftInserted ==
  ASSUME ConfirmationInv, NEW c \in Editor, ImportCommit(c) \/ EditCommit(c)
  PROVE  ConfirmationInv'
<1> DEFINE j == editor[c]
<1>1. /\ ConfirmationTypeInv /\ drafts \in Seq(Draft) /\ j \in EditorState /\ EditorInv(c)
      /\ briefDrafts' = briefDrafts /\ briefVersions' = briefVersions
      /\ plans' = plans /\ versions' = versions
  BY TablesTyped DEF ConfirmationInv, ConfirmationTypeInv, ImportCommit, EditCommit, briefRows
<1>2. /\ editor' \in [Editor -> EditorState]
      /\ \A d \in Editor : editor'[d] = editor[d] \/ EditorInv(d)'
  BY <1>1, AnsweredSets DEF ImportCommit, EditCommit
<1>3. \/ drafts' = drafts
      \/ \E row \in Draft : /\ drafts' = Append(drafts, row)
                            /\ row.from \in {0, Len(drafts)}
                            /\ row.plan \in DOMAIN plans /\ plans[row.plan].brief = row.brief
  <2>1. CASE ImportCommit(c)
    <3> DEFINE row == Revision(0, j.brief, j.plan, plans[j.plan])
    <3>1. j.plan \in DOMAIN plans /\ plans[j.plan].brief = j.brief /\ plans[j.plan] \in ReadyPlan
      BY <1>1, <2>1, TablesTyped DEF ImportCommit, EditorInv
    <3>2. row \in Draft /\ row.from = 0 /\ row.plan = j.plan /\ row.brief = j.brief
      BY <1>1, <3>1 DEF Revision, Draft, ReadyPlan, EditorState
    <3>3. drafts' = drafts \/ drafts' = Append(drafts, row)
      BY <2>1 DEF ImportCommit
    <3> HIDE DEF row
    <3> QED BY <3>1, <3>2, <3>3
  <2>2. CASE EditCommit(c)
    <3>1. CASE drafts' = drafts
      BY <3>1
    <3>2. CASE drafts' # drafts
      <4>1. PICK content \in Edited(drafts[j.base]) :
              /\ Len(drafts) = j.base
              /\ drafts' = Append(drafts, Revision(j.base, j.brief, drafts[j.base].plan, content))
        BY <2>2, <3>2 DEF EditCommit
      <4> DEFINE row == Revision(j.base, j.brief, drafts[j.base].plan, content)
      <4>2. j.base \in DOMAIN drafts /\ drafts[j.base].brief = j.brief /\ drafts[j.base] \in Draft
        BY <1>1, <2>2, TablesTyped DEF EditCommit, EditorInv
      <4>3. drafts[j.base].plan \in DOMAIN plans /\ plans[drafts[j.base].plan].brief = j.brief
        BY <4>2 DEF ConfirmationInv, DraftInv
      <4>4. content.lessons \in Lessons /\ content.findings \in Findings
        BY DEF Edited, Findings
      <4>5. /\ row \in Draft /\ row.from = j.base /\ row.plan = drafts[j.base].plan
            /\ row.brief = j.brief
        BY <1>1, <4>2, <4>4 DEF Revision, Draft, EditorState
      <4> HIDE DEF row
      <4>6. drafts' = Append(drafts, row)
        BY <4>1 DEF row
      <4> QED BY <4>1, <4>3, <4>5, <4>6
    <3> QED BY <3>1, <3>2
  <2> QED BY <2>1, <2>2
<1>4. /\ drafts' \in Seq(Draft) /\ Grows(drafts, drafts')
      /\ \A i \in DOMAIN drafts' \ DOMAIN drafts : DraftInv(i)'
  <2>1. CASE drafts' = drafts
    BY <1>1, <2>1, SameGrows
  <2>2. ASSUME NEW row \in Draft, drafts' = Append(drafts, row), row.from \in {0, Len(drafts)},
               row.plan \in DOMAIN plans, plans[row.plan].brief = row.brief
        PROVE  /\ drafts' \in Seq(Draft) /\ Grows(drafts, drafts')
               /\ \A i \in DOMAIN drafts' \ DOMAIN drafts : DraftInv(i)'
    <3>1. /\ drafts' \in Seq(Draft) /\ Grows(drafts, drafts') /\ Len(drafts) \in Nat
          /\ \A i \in DOMAIN drafts' \ DOMAIN drafts : i = Len(drafts) + 1 /\ drafts'[i] = row
      <4>1. drafts \in Seq(Draft) /\ row \in Draft /\ drafts' = Append(drafts, row)
        BY <1>1, <2>2
      <4> QED BY <4>1, Appended
    <3> QED BY <1>1, <2>2, <3>1 DEF DraftInv
  <2> QED BY <1>3, <2>1, <2>2
<1>5. ConfirmationTypeInv'
  BY <1>1, <1>2, <1>4 DEF ConfirmationTypeInv
<1> QED BY <1>1, <1>2, <1>4, <1>5, SameGrows, RowsStay

\* A version of the blueprint: the draft that has been checked.
LEMMA BlueprintVersionInserted ==
  ASSUME ConfirmationInv, NEW c \in Editor, ConfirmCommit(c)
  PROVE  ConfirmationInv'
<1> DEFINE j == editor[c]
           row == [source |-> j.base, brief |-> j.brief, stale |-> FALSE,
                   lessons |-> drafts[j.base].lessons]
<1>1. /\ ConfirmationTypeInv /\ versions \in Seq(BlueprintVersion) /\ j \in EditorState
      /\ briefDrafts' = briefDrafts /\ briefVersions' = briefVersions
      /\ plans' = plans /\ drafts' = drafts
  BY TablesTyped DEF ConfirmationInv, ConfirmationTypeInv, ConfirmCommit, briefRows
<1>2. /\ editor' \in [Editor -> EditorState]
      /\ \A d \in Editor : editor'[d] = editor[d] \/ EditorInv(d)'
  BY <1>1, AnsweredSets DEF ConfirmCommit
<1>3. /\ j.base \in DOMAIN drafts /\ drafts[j.base].brief = j.brief
      /\ Passes(drafts[j.base], j.brief) /\ drafts[j.base] \in Draft
  BY <1>1, TablesTyped DEF ConfirmationInv, ConfirmCommit, EditorInv
<1>4. j.brief \in DOMAIN briefVersions
  <2>1. DraftInv(j.base) /\ PlanInv(drafts[j.base].plan)
    BY <1>3 DEF ConfirmationInv, DraftInv
  <2> QED BY <1>3, <2>1 DEF DraftInv, PlanInv
<1>5. /\ row \in BlueprintVersion /\ row.source = j.base /\ row.brief = j.brief
      /\ row.lessons = drafts[j.base].lessons
  BY <1>1, <1>3 DEF BlueprintVersion, Draft, EditorState
<1>6. versions' = versions \/ versions' = Append(versions, row)
  BY DEF ConfirmCommit
<1> HIDE DEF row
<1>7. /\ versions' \in Seq(BlueprintVersion) /\ Grows(versions, versions')
      /\ \A i \in DOMAIN versions' \ DOMAIN versions : VersionInv(i)'
  <2>1. CASE versions' = versions
    BY <1>1, <2>1, SameGrows
  <2>2. CASE versions' = Append(versions, row)
    <3>1. /\ versions' \in Seq(BlueprintVersion) /\ Grows(versions, versions')
          /\ \A i \in DOMAIN versions' \ DOMAIN versions : i = Len(versions) + 1 /\ versions'[i] = row
      <4>1. versions \in Seq(BlueprintVersion) /\ row \in BlueprintVersion /\ versions' = Append(versions, row)
        BY <1>1, <1>5, <2>2
      <4> QED BY <4>1, Appended
    <3> QED BY <1>1, <1>3, <1>4, <1>5, <3>1 DEF VersionInv, Passes
  <2> QED BY <1>6, <2>1, <2>2
<1>8. ConfirmationTypeInv'
  BY <1>1, <1>2, <1>7 DEF ConfirmationTypeInv
<1>9. /\ DOMAIN versions \subseteq DOMAIN versions'
      /\ \A i \in DOMAIN versions : /\ versions'[i].source = versions[i].source
                                    /\ versions'[i].brief = versions[i].brief
                                    /\ versions'[i].lessons = versions[i].lessons
  BY <1>7 DEF Grows
<1> QED BY <1>1, <1>2, <1>7, <1>8, <1>9, SameGrows, RowsStay

\* Every step keeps the invariant.
LEMMA ConfirmationNextInv ==
  ConfirmationInv /\ [ConfirmationNext]_confirmationVars => ConfirmationInv'
<1> SUFFICES ASSUME ConfirmationInv, [ConfirmationNext]_confirmationVars PROVE ConfirmationInv'
  OBVIOUS
<1>1. CASE UNCHANGED confirmationVars
  BY <1>1 DEF confirmationVars, briefRows, blueprintRows, ConfirmationInv, ConfirmationTypeInv,
     BriefDraftInv, PlanInv, DraftInv, VersionInv, EditorInv, At, Passes
<1>2. CASE ConfirmationNext
  BY <1>2, BriefDraftInserted, BriefVersionInserted, PlanInserted, DraftInserted,
     BlueprintVersionInserted, BriefReadInv, BlueprintReadInv
     DEF ConfirmationNext, BriefRequest, BlueprintRequest
<1> QED BY <1>1, <1>2

\* The invariant holds in every reachable state.
LEMMA ConfirmationAlways == ConfirmationSpec => []ConfirmationInv
<1>1. ConfirmationInit => ConfirmationInv
  BY ConfirmationInitInv
<1>2. ConfirmationInv /\ [ConfirmationNext]_confirmationVars => ConfirmationInv'
  BY ConfirmationNextInv
<1> QED BY <1>1, <1>2, PTL DEF ConfirmationSpec

\* No edit of a brief or of a blueprint is lost, whoever edits at the same time: the key
\* refuses a revision that was computed from an older one (patch_draft, record_decision).
THEOREM EditsAreNeverLost == ConfirmationSpec => []EditsAreLinear
<1>1. ConfirmationInv => EditsAreLinear
  BY ConfirmationIsEnough
<1> QED BY <1>1, ConfirmationAlways, PTL

\* What generation works from was planned for the brief it is bound to, has as many lessons
\* and is the draft the teacher confirmed: rows that were read one after the other still fit
\* each other when the version is inserted, because rows never change (confirm_blueprint).
THEOREM ConfirmedVersionsFit == ConfirmationSpec => []ConfirmedFitsItsBrief
<1>1. ConfirmationInv => ConfirmedFitsItsBrief
  BY ConfirmationIsEnough
<1> QED BY <1>1, ConfirmationAlways, PTL

-----------------------------------------------------------------------------
(* Interview: what is ready has a draft, and one planning run is active.    *)

InterviewStatus ==
  {"initializing", "questioning", "drafting", "draft_ready", "provider_failed", "superseded"}
InterviewNode == {None, "analyze", "ask", "draft", "end"}
InterviewState ==
  [kind : Kind, brief : Nat, status : InterviewStatus, calls : Nat, draft : Kind \cup {None}]
ThreadState == [next : InterviewNode, round : Nat]
RequestState ==
  [pc : {"idle", "insert", "enter", "node", "call", "sync", "settle"}, r : Nat, graph : Kind,
   brief : Nat, row : InterviewStatus \cup {None}, seen : InterviewStatus \cup {None},
   at : InterviewNode \cup {"draft_ready", "questioning"}, round : Nat, calls : Nat, tools : Nat]

InterviewTypeInv ==
  /\ run \in Seq(InterviewState)
  /\ thread \in Seq(ThreadState) /\ Len(thread) = Len(run)
  /\ narrating \in Seq(Nat) /\ Len(narrating) = Len(run)
  /\ brief \in Nat /\ overlapped \in BOOLEAN
  /\ client \in [Client -> RequestState]

\* A thread that has ended has left a draft, and drafts stay.
DraftedInv(r) ==
  /\ run[r].status = "draft_ready" => run[r].draft # None
  /\ thread[r].next = "end" => run[r].draft # None
  /\ thread[r].next = "ask" => thread[r].round < MaxRounds

\* What a request knows of its run.
RequestInv(c) ==
  /\ ~(client[c].pc \in {"idle", "insert"}) => client[c].r \in Run
  /\ client[c].pc = "settle" => /\ client[c].at \in {"draft_ready", "questioning"}
                                /\ client[c].at = "draft_ready" => run[client[c].r].draft # None

\* While requests come one at a time, only the newest planning run is active, a request works
\* on that one, and nothing becomes active between the reading and the insert of a start.
NewestPlan(r) == \A q \in Plans : q <= r
SerialInv ==
  /\ \A c, d \in Client : Working(c) /\ Working(d) => c = d
  /\ \A r \in Plans : run[r].status \in ActivePlanning => NewestPlan(r)
  /\ \A c \in Client :
       /\ client[c].pc = "insert" /\ client[c].graph = "planning" => NoActivePlan
       /\ ~(client[c].pc \in {"idle", "insert"}) /\ run[client[c].r].kind = "planning" =>
            NewestPlan(client[c].r)

InterviewInv ==
  /\ InterviewTypeInv
  /\ \A r \in Run : DraftedInv(r)
  /\ \A c \in Client : RequestInv(c)
  /\ overlapped \/ SerialInv

\* The tables by number.
LEMMA InterviewsTyped ==
  ASSUME InterviewTypeInv
  PROVE  /\ Len(run) \in Nat /\ Run = 1..Len(run) /\ DOMAIN run = 1..Len(run)
         /\ DOMAIN thread = 1..Len(run) /\ DOMAIN narrating = 1..Len(run)
         /\ \A r \in Run : /\ run[r] \in InterviewState /\ thread[r] \in ThreadState
                           /\ narrating[r] \in Nat
         /\ \A c \in Client : client[c] \in RequestState
         /\ Plans \subseteq 1..Len(run)
<1>1. /\ run \in Seq(InterviewState) /\ thread \in Seq(ThreadState) /\ Len(thread) = Len(run)
      /\ narrating \in Seq(Nat) /\ Len(narrating) = Len(run)
  BY DEF InterviewTypeInv
<1>2. Len(run) \in Nat /\ DOMAIN run = 1..Len(run)
  BY <1>1
<1>3. DOMAIN thread = 1..Len(run) /\ DOMAIN narrating = 1..Len(run)
  BY <1>1
<1> QED BY <1>1, <1>2, <1>3 DEF InterviewTypeInv, Run, Plans

\* The invariant is what the properties ask.
LEMMA InterviewIsEnough == InterviewInv => ReadyHasDraft /\ OneActivePlan
<1> SUFFICES ASSUME InterviewInv PROVE ReadyHasDraft /\ OneActivePlan
  OBVIOUS
<1>1. ReadyHasDraft
  BY DEF InterviewInv, ReadyHasDraft, DraftedInv
<1>2. OneActivePlan
  <2> DEFINE active == {r \in Plans : run[r].status \in ActivePlanning}
  <2> SUFFICES ASSUME SerialInv PROVE Cardinality(active) <= 1
    BY DEF InterviewInv, OneActivePlan
  <2>1. CASE active = {}
    BY <2>1, FS_EmptySet
  <2>2. CASE active # {}
    <3>1. PICK r \in Plans : run[r].status \in ActivePlanning
      BY <2>2
    <3>2. ASSUME NEW q \in active PROVE q = r
      <4>1. q \in Nat /\ r \in Nat
        BY InterviewsTyped DEF InterviewInv
      <4>2. q <= r /\ r <= q
        BY <3>1 DEF SerialInv, NewestPlan
      <4> QED BY <4>1, <4>2
    <3>3. active = {r}
      BY <3>1, <3>2
    <3> QED BY <3>3, FS_Singleton
  <2> QED BY <2>1, <2>2
<1> QED BY <1>1, <1>2

\* Initially there are no runs.
LEMMA InterviewInitInv == InterviewInit => InterviewInv
<1> SUFFICES ASSUME InterviewInit PROVE InterviewInv
  OBVIOUS
<1>1. /\ run = <<>> /\ thread = <<>> /\ narrating = <<>> /\ brief = 0 /\ overlapped = FALSE
      /\ client = [c \in Client |-> Idle]
  BY DEF InterviewInit
<1>2. Idle \in RequestState /\ Idle.pc = "idle"
  BY DEF Idle, RequestState, Kind, InterviewNode
<1> HIDE DEF Idle
<1>3. InterviewTypeInv
  <2>1. overlapped \in BOOLEAN
    BY <1>1
  <2>2. client \in [Client -> RequestState]
    BY <1>1, <1>2
  <2>3. run \in Seq(InterviewState) /\ thread \in Seq(ThreadState) /\ narrating \in Seq(Nat)
    BY <1>1
  <2> QED BY <1>1, <2>1, <2>2, <2>3 DEF InterviewTypeInv
<1>4. \A c \in Client : RequestInv(c)
  BY <1>1, <1>2 DEF RequestInv
<1>5. SerialInv
  BY <1>1, <1>2 DEF SerialInv, Working, Plans, Run
<1> QED BY <1>1, <1>3, <1>4, <1>5 DEF InterviewInv, Run

\* What a step of the request c leaves alone.
LEMMA BecomesSets ==
  ASSUME InterviewTypeInv, NEW c \in Client, NEW k \in RequestState, Becomes(c, k)
  PROVE  /\ client' \in [Client -> RequestState] /\ client'[c] = k
         /\ \A d \in Client \ {c} : client'[d] = client[d]
BY DEF Becomes, InterviewTypeInv

\* A step of a request that works on its run.
LEMMA StepInv ==
  ASSUME InterviewInv, NEW c \in Client, NEW r \in Run,
         ~(client[c].pc \in {"idle", "insert"}), client[c].r = r,
         NEW s \in InterviewState, run' = [run EXCEPT ![r] = s],
         s.kind = run[r].kind, run[r].draft # None => s.draft # None,
         s.status = "draft_ready" => s.draft # None,
         NEW t \in ThreadState, thread' = [thread EXCEPT ![r] = t],
         t.next = "end" => s.draft # None, t.next = "ask" => t.round < MaxRounds,
         NEW k \in RequestState, Becomes(c, k), k.pc # "insert", k.pc # "idle" => k.r = r,
         k.pc = "settle" => /\ k.at \in {"draft_ready", "questioning"}
                            /\ k.at = "draft_ready" => s.draft # None,
         UNCHANGED <<narrating, brief, overlapped>>
  PROVE  InterviewInv'
<1>1. /\ InterviewTypeInv /\ Len(run) \in Nat /\ Run = 1..Len(run)
      /\ run \in Seq(InterviewState) /\ thread \in Seq(ThreadState) /\ Len(thread) = Len(run)
  BY InterviewsTyped DEF InterviewInv, InterviewTypeInv
<1>2. /\ run' \in Seq(InterviewState) /\ Len(run') = Len(run) /\ run'[r] = s
      /\ \A q \in Run \ {r} : run'[q] = run[q]
  BY <1>1
<1>3. /\ thread' \in Seq(ThreadState) /\ Len(thread') = Len(run) /\ thread'[r] = t
      /\ \A q \in Run \ {r} : thread'[q] = thread[q]
  BY <1>1
<1>4. /\ client' \in [Client -> RequestState] /\ client'[c] = k
      /\ \A d \in Client \ {c} : client'[d] = client[d]
  BY <1>1, BecomesSets
<1>5. InterviewTypeInv'
  BY <1>1, <1>2, <1>3, <1>4 DEF InterviewTypeInv
<1>6. Run' = Run /\ \A q \in Run : run'[q].kind = run[q].kind
  BY <1>1, <1>2 DEF Run
<1>7. Plans' = Plans
  BY <1>6 DEF Plans
<1>8. ASSUME NEW q \in Run PROVE DraftedInv(q)'
  BY <1>2, <1>3 DEF InterviewInv, DraftedInv
<1>9. ASSUME NEW d \in Client PROVE RequestInv(d)'
  <2>1. RequestInv(d)
    BY DEF InterviewInv
  <2> QED BY <1>2, <1>4, <1>6, <2>1 DEF RequestInv
<1>10. ASSUME SerialInv PROVE SerialInv'
  <2>1. \A q : NewestPlan(q)' <=> NewestPlan(q)
    BY <1>7 DEF NewestPlan
  <2>2. \A d \in Client : Working(d)' => Working(d)
    BY <1>4 DEF Working
  <2>3. ASSUME NEW q \in Plans, run'[q].status \in ActivePlanning PROVE NewestPlan(q)'
    BY <1>2, <1>7, <1>10, <2>3 DEF SerialInv, NewestPlan, Plans
  <2>4. ASSUME NEW d \in Client
        PROVE  /\ client'[d].pc = "insert" /\ client'[d].graph = "planning" => NoActivePlan'
               /\ ~(client'[d].pc \in {"idle", "insert"}) /\ run'[client'[d].r].kind = "planning" =>
                    NewestPlan(client[d].r)'
    <3>1. d = c \/ client'[d].pc = "idle"
      BY <1>4, <1>10 DEF SerialInv, Working
    <3> QED BY <1>2, <1>4, <1>7, <1>10, <3>1 DEF SerialInv, NewestPlan
  <2> QED BY <1>7, <1>10, <2>2, <2>3, <2>4 DEF SerialInv
<1> QED BY <1>5, <1>6, <1>8, <1>9, <1>10 DEF InterviewInv

\* A request begins: it inserts a run next, or works on the newest one.
LEMMA BeginInv ==
  ASSUME InterviewInv, NEW c \in Client, ~Working(c), NEW k \in RequestState, Begins(c, k),
         NEW r \in Run \cup {0}, k.pc \in {"insert", "node", "sync"},
         k.pc = "insert" /\ k.graph = "planning" => NoActivePlan,
         k.pc # "insert" => k.r = r /\ r \in Run /\ (run[r].kind = "planning" => NewestPlan(r)),
         UNCHANGED <<run, narrating, brief>>,
         \/ thread' = thread
         \/ \E round \in Nat : r \in Run /\ Checkpoint(r, "analyze", round)
  PROVE  InterviewInv'
<1>1. /\ InterviewTypeInv /\ Len(run) \in Nat /\ Run = 1..Len(run) /\ run' = run
      /\ thread \in Seq(ThreadState) /\ Len(thread) = Len(run)
  BY InterviewsTyped DEF InterviewInv, InterviewTypeInv
<1>2. /\ client' \in [Client -> RequestState] /\ client'[c] = k
      /\ \A d \in Client \ {c} : client'[d] = client[d]
  BY <1>1, BecomesSets DEF Begins
<1>3. /\ thread' \in Seq(ThreadState) /\ Len(thread') = Len(run)
      /\ \A q \in Run : thread'[q] = thread[q] \/ thread'[q].next = "analyze"
  <2>1. CASE thread' = thread
    BY <1>1, <2>1
  <2>2. CASE \E round \in Nat : r \in Run /\ Checkpoint(r, "analyze", round)
    <3>1. PICK round \in Nat : r \in Run /\ Checkpoint(r, "analyze", round)
      BY <2>2
    <3> DEFINE t == [next |-> "analyze", round |-> round]
    <3>2. t \in ThreadState /\ t.next = "analyze"
      BY DEF ThreadState, InterviewNode
    <3>3. thread' = [thread EXCEPT ![r] = t]
      BY <3>1 DEF Checkpoint
    <3> HIDE DEF t
    <3> QED BY <1>1, <3>1, <3>2, <3>3
  <2> QED BY <2>1, <2>2
<1>4. overlapped' \in BOOLEAN
  BY <1>1 DEF Begins, InterviewTypeInv
<1>5. InterviewTypeInv'
  BY <1>1, <1>2, <1>3, <1>4 DEF InterviewTypeInv
<1>6. Run' = Run /\ Plans' = Plans /\ NoActivePlan' = NoActivePlan
  BY <1>1 DEF Run, Plans, NoActivePlan
<1>7. ASSUME NEW q \in Run PROVE DraftedInv(q)'
  BY <1>1, <1>3 DEF InterviewInv, DraftedInv
<1>8. ASSUME NEW d \in Client PROVE RequestInv(d)'
  <2>1. RequestInv(d)
    BY DEF InterviewInv
  <2> QED BY <1>1, <1>2, <1>6, <2>1 DEF RequestInv
<1>9. ASSUME ~overlapped' PROVE SerialInv'
  <2>1. /\ \A d \in Client \ {c} : ~Working(d)
        /\ SerialInv
    BY <1>1, <1>9 DEF Begins, InterviewInv
  <2>2. \A d \in Client \ {c} : ~Working(d)'
    BY <1>2, <2>1 DEF Working
  <2>3. \A q : NewestPlan(q)' <=> NewestPlan(q)
    BY <1>6 DEF NewestPlan
  <2>4. ASSUME NEW q \in Plans, run'[q].status \in ActivePlanning PROVE NewestPlan(q)'
    BY <1>1, <2>1, <2>3, <2>4 DEF SerialInv
  <2>5. /\ k.pc = "insert" /\ k.graph = "planning" => NoActivePlan'
        /\ ~(k.pc \in {"idle", "insert"}) /\ run'[k.r].kind = "planning" => NewestPlan(k.r)'
    BY <1>1, <1>6, <2>3
  <2>6. ASSUME NEW d \in Client
        PROVE  /\ client'[d].pc = "insert" /\ client'[d].graph = "planning" => NoActivePlan'
               /\ ~(client'[d].pc \in {"idle", "insert"}) /\ run'[client'[d].r].kind = "planning" =>
                    NewestPlan(client[d].r)'
    <3>1. CASE d = c
      BY <1>2, <2>5, <3>1
    <3>2. CASE d # c
      BY <2>2, <3>2 DEF Working
    <3> QED BY <3>1, <3>2
  <2> QED BY <1>6, <2>2, <2>4, <2>6 DEF SerialInv
<1> QED BY <1>5, <1>6, <1>7, <1>8, <1>9 DEF InterviewInv

\* The newest run that a request addresses, and the newest plan when it is one.
LEMMA AddressedIsNewest ==
  ASSUME InterviewInv, NEW graph \in Kind, Addressed(graph) # {}
  PROVE  /\ Max(Addressed(graph)) \in Run
         /\ run[Max(Addressed(graph))].kind = "planning" => NewestPlan(Max(Addressed(graph)))
<1> DEFINE S == Addressed(graph)
<1>1. Len(run) \in Nat /\ Run = 1..Len(run)
  BY InterviewsTyped DEF InterviewInv
<1>2. S \subseteq 1..Len(run) /\ Plans \subseteq S /\ S \subseteq Run /\ S # {}
  BY <1>1 DEF Addressed, Plans
<1>3. Max(S) \in S /\ \A q \in S : Max(S) >= q
  <2> HIDE DEF S
  <2> QED BY <1>1, <1>2, GreatestIsIn
<1> HIDE DEF S
<1>4. \A q \in Plans : q <= Max(S)
  BY <1>1, <1>2, <1>3
<1> QED BY <1>2, <1>3, <1>4 DEF NewestPlan, S

\* An answer or a retry resumes the thread of the newest run.
LEMMA ResumeInv ==
  ASSUME InterviewInv, NEW c \in Client, NEW graph \in Kind, Answer(c, graph) \/ Retry(c, graph)
  PROVE  InterviewInv'
<1> DEFINE r == Max(Addressed(graph))
           k(at) == [Idle EXCEPT !.pc = IF at \in {"analyze", "draft"} THEN "node" ELSE "sync",
                                 !.r = r, !.graph = graph, !.row = run[r].status, !.at = at,
                                 !.round = thread[r].round]
<1>1. ~Working(c) /\ Addressed(graph) # {} /\ UNCHANGED <<run, narrating, brief>>
  BY DEF Answer, Retry
<1>2. r \in Run /\ (run[r].kind = "planning" => NewestPlan(r))
  BY <1>1, AddressedIsNewest
<1>3. r \in Nat /\ run[r] \in InterviewState /\ thread[r] \in ThreadState
  BY <1>2, InterviewsTyped DEF InterviewInv
<1>4. ASSUME NEW at \in InterviewNode
      PROVE  k(at) \in RequestState /\ k(at).pc \in {"node", "sync"} /\ k(at).r = r
  <2>1. Idle \in RequestState
    BY DEF Idle, RequestState, Kind, InterviewNode
  <2> HIDE DEF r
  <2> QED BY <1>3, <1>4, <2>1 DEF RequestState, InterviewState, ThreadState
<1>5. PICK at \in InterviewNode :
        /\ Begins(c, k(at))
        /\ thread' = thread \/ Checkpoint(r, "analyze", thread[r].round)
  <2>1. thread[r].next \in InterviewNode /\ "analyze" \in InterviewNode
    BY <1>3 DEF ThreadState, InterviewNode
  <2>2. CASE Answer(c, graph)
    BY <2>1, <2>2 DEF Answer, AskNode, Resume
  <2>3. CASE Retry(c, graph)
    BY <2>1, <2>3 DEF Retry, Resume
  <2> QED BY <2>2, <2>3
<1>6. thread[r].round \in Nat
  BY <1>3 DEF ThreadState
<1>7. k(at) \in RequestState /\ k(at).pc \in {"node", "sync"} /\ k(at).r = r
  BY <1>4
<1> HIDE DEF r, k
<1> QED BY <1>1, <1>2, <1>5, <1>6, <1>7, BeginInv

\* A start that found no active plan remembers the brief it will plan for.
LEMMA StartReadInv ==
  ASSUME InterviewInv, NEW c \in Client, NEW kind \in Kind, StartRead(c, kind)
  PROVE  InterviewInv'
<1> DEFINE k == [Idle EXCEPT !.pc = "insert", !.graph = kind,
                             !.brief = IF kind = "planning" THEN brief ELSE 0]
<1>1. /\ ~Working(c) /\ Begins(c, k) /\ UNCHANGED <<run, thread, brief, narrating>>
      /\ kind = "planning" => NoActivePlan
  BY DEF StartRead, Kind
<1>2. k \in RequestState /\ k.pc = "insert" /\ k.graph = kind
  <2>1. Idle \in RequestState /\ brief \in Nat
    BY DEF Idle, RequestState, Kind, InterviewNode, InterviewInv, InterviewTypeInv
  <2> QED BY <2>1 DEF RequestState
<1> HIDE DEF k
<1> QED BY <1>1, <1>2, BeginInv

\* A run is inserted, initializing, as the newest of all.
LEMMA StartInsertInv ==
  ASSUME InterviewInv, NEW c \in Client, StartInsert(c)
  PROVE  InterviewInv'
<1>1. /\ InterviewTypeInv /\ Len(run) \in Nat /\ Run = 1..Len(run) /\ client[c] \in RequestState
      /\ run \in Seq(InterviewState) /\ thread \in Seq(ThreadState) /\ Len(thread) = Len(run)
      /\ narrating \in Seq(Nat) /\ Len(narrating) = Len(run)
  BY InterviewsTyped DEF InterviewInv, InterviewTypeInv
<1>0. PICK n \in Nat : n = Len(run) + 1
  BY <1>1
<1> DEFINE j == client[c]
           s == [kind |-> j.graph, brief |-> j.brief, status |-> "initializing", calls |-> 0,
                 draft |-> None]
           t == [next |-> None, round |-> 0]
           k == [j EXCEPT !.pc = "enter", !.r = n, !.row = "initializing"]
<1>2. /\ run' = Append(run, s) /\ thread' = Append(thread, t)
      /\ narrating' = Append(narrating, 0) /\ Becomes(c, k)
      /\ brief' = brief /\ overlapped' = overlapped /\ j.pc = "insert"
  BY <1>0 DEF StartInsert
<1>3. s \in InterviewState /\ s.status = "initializing" /\ s.kind = j.graph
  BY <1>1 DEF InterviewState, RequestState, InterviewStatus
<1>4. t \in ThreadState /\ t.next = None
  BY DEF ThreadState, InterviewNode
<1>5. k \in RequestState /\ k.pc = "enter" /\ k.r = n
  BY <1>1 DEF RequestState, InterviewStatus
<1> HIDE DEF s, t, k
<1>6. /\ run' \in Seq(InterviewState) /\ Len(run') = n /\ run'[n] = s
      /\ \A q \in Run : run'[q] = run[q]
  BY <1>1, <1>2, <1>3, <1>0
<1>7. /\ thread' \in Seq(ThreadState) /\ Len(thread') = n /\ thread'[n] = t
      /\ \A q \in Run : thread'[q] = thread[q]
  BY <1>1, <1>2, <1>4, <1>0
<1>8. narrating' \in Seq(Nat) /\ Len(narrating') = n
  BY <1>1, <1>2, <1>0
<1>9. /\ client' \in [Client -> RequestState] /\ client'[c] = k
      /\ \A d \in Client \ {c} : client'[d] = client[d]
  BY <1>1, <1>2, <1>5, BecomesSets
<1>10. InterviewTypeInv'
  BY <1>1, <1>2, <1>6, <1>7, <1>8, <1>9 DEF InterviewTypeInv
<1>11. Run' = Run \cup {n} /\ n \notin Run
  BY <1>1, <1>6, <1>0 DEF Run
<1>12. Plans' \subseteq Plans \cup {n} /\ Plans \subseteq Plans' /\ (s.kind # "planning" => Plans' = Plans)
  BY <1>6, <1>11 DEF Plans
<1>13. ASSUME NEW q \in Run' PROVE DraftedInv(q)'
  <2>1. CASE q \in Run
    BY <1>6, <1>7, <2>1 DEF InterviewInv, DraftedInv
  <2>2. CASE q = n
    <3>1. None # "end" /\ None # "ask"
      BY DEF None
    <3> QED BY <1>3, <1>4, <1>6, <1>7, <2>2, <3>1 DEF DraftedInv
  <2> QED BY <1>11, <2>1, <2>2
<1>14. ASSUME NEW d \in Client PROVE RequestInv(d)'
  <2>1. RequestInv(d)
    BY DEF InterviewInv
  <2>2. CASE d = c
    BY <1>5, <1>9, <1>11, <2>2 DEF RequestInv
  <2>3. CASE d # c
    BY <1>6, <1>9, <1>11, <2>1, <2>3 DEF RequestInv
  <2> QED BY <2>2, <2>3
<1>15. ASSUME SerialInv PROVE SerialInv'
  <2>1. \A d \in Client \ {c} : ~Working(d) /\ client'[d].pc = "idle"
    BY <1>2, <1>9, <1>15 DEF SerialInv, Working
  <2>2. ASSUME s.kind = "planning"
        PROVE  /\ \A q \in Plans : ~(run[q].status \in ActivePlanning)
               /\ NewestPlan(n)'
    <3>1. j.graph = "planning"
      BY <1>3, <2>2
    <3>2. \A q \in Plans : ~(run[q].status \in ActivePlanning)
      BY <1>2, <1>15, <3>1 DEF SerialInv, NoActivePlan
    <3>3. \A q \in Plans' : q <= n
      BY <1>1, <1>12, <1>0 DEF Plans
    <3> QED BY <1>1, <3>2, <3>3, <1>6 DEF NewestPlan
  <2>3. ASSUME NEW q \in Plans', run'[q].status \in ActivePlanning PROVE NewestPlan(q)'
    <3>1. CASE s.kind = "planning"
      <4>1. q = n
        BY <1>6, <1>12, <2>2, <2>3, <3>1 DEF Plans
      <4> QED BY <2>2, <3>1, <4>1
    <3>2. CASE s.kind # "planning"
      <4>1. q \in Plans /\ run'[q] = run[q]
        BY <1>6, <1>12, <3>2 DEF Plans
      <4> QED BY <1>12, <1>15, <2>3, <3>2, <4>1 DEF SerialInv, NewestPlan
    <3> QED BY <3>1, <3>2
  <2>4. ASSUME NEW d \in Client
        PROVE  /\ client'[d].pc = "insert" /\ client'[d].graph = "planning" => NoActivePlan'
               /\ ~(client'[d].pc \in {"idle", "insert"}) /\ run'[client'[d].r].kind = "planning" =>
                    NewestPlan(client[d].r)'
    <3>1. CASE d = c
      BY <1>5, <1>6, <1>9, <2>2, <3>1
    <3>2. CASE d # c
      BY <2>1, <3>2
    <3> QED BY <3>1, <3>2
  <2>5. \A d, e \in Client : Working(d)' /\ Working(e)' => d = e
    BY <2>1 DEF Working
  <2> QED BY <2>3, <2>4, <2>5 DEF SerialInv
<1> QED BY <1>2, <1>10, <1>13, <1>14, <1>15 DEF InterviewInv

\* The steps of a request on its run, one after the other.
LEMMA StepsInv ==
  ASSUME InterviewInv, NEW c \in Client,
         \/ Enter(c) \/ LoadNode(c) \/ QuotaStop(c) \/ ProviderFails(c) \/ Analyze(c)
         \/ ToolRound(c) \/ BuildDraft(c) \/ SyncRead(c) \/ SyncWrite(c)
  PROVE  InterviewInv'
<1> DEFINE j == client[c]
<1>1. /\ InterviewTypeInv /\ RequestInv(c) /\ j \in RequestState /\ run \in Seq(InterviewState)
      /\ thread \in Seq(ThreadState) /\ UNCHANGED <<narrating, brief, overlapped>>
  BY InterviewsTyped DEF InterviewInv, InterviewTypeInv, Enter, LoadNode, QuotaStop, ProviderFails,
     Analyze, ToolRound, InToolLoop, BuildDraft, SyncRead, SyncWrite
<1>2. ~(j.pc \in {"idle", "insert"})
  BY DEF Enter, LoadNode, QuotaStop, ProviderFails, Analyze, ToolRound, InToolLoop, BuildDraft,
     SyncRead, SyncWrite
<1>3. PICK r \in Run : r = j.r
  BY <1>1, <1>2 DEF RequestInv
<1>4. /\ r \in DOMAIN run /\ r \in DOMAIN thread /\ run[r] \in InterviewState
      /\ thread[r] \in ThreadState /\ DraftedInv(r)
      /\ run' = [run EXCEPT ![r] = run[r]] <=> run' = run
      /\ thread' = [thread EXCEPT ![r] = thread[r]] <=> thread' = thread
  <2>1. r \in DOMAIN run /\ r \in DOMAIN thread /\ DraftedInv(r)
    BY <1>1, <1>3, InterviewsTyped DEF InterviewInv, Run
  <2> QED BY <1>1, <2>1
<1>5. Idle \in RequestState /\ Idle.pc = "idle"
  BY DEF Idle, RequestState, Kind, InterviewNode
<1> HIDE DEF Idle
\* The request ends.
<1>6. CASE QuotaStop(c)
  BY <1>1, <1>2, <1>3, <1>4, <1>5, <1>6, StepInv DEF QuotaStop, Done, DraftedInv
<1>7. CASE ProviderFails(c) \/ SyncWrite(c)
  <2>1. PICK status \in InterviewStatus :
          /\ SetStatus(r, j.row, status) /\ thread' = thread /\ Becomes(c, Idle)
          /\ status = "draft_ready" => run[r].draft # None
    <3>1. CASE ProviderFails(c)
      BY <1>3, <3>1 DEF ProviderFails, Done, InterviewStatus
    <3>2. CASE SyncWrite(c)
      BY <1>1, <1>3, <3>2 DEF SyncWrite, Done, InterviewStatus, RequestInv
    <3> QED BY <1>7, <3>1, <3>2
  <2> DEFINE s == [run[r] EXCEPT !.status = Written(r, j.row, status)]
  <2>2. /\ s \in InterviewState /\ s.kind = run[r].kind /\ s.draft = run[r].draft
        /\ s.status = "draft_ready" => s.draft # None
    BY <1>4, <2>1 DEF InterviewState, Written, DraftedInv
  <2>3. run' = [run EXCEPT ![r] = s]
    BY <1>4, <2>1 DEF SetStatus
  <2> HIDE DEF s
  <2>4. /\ run[r].draft # None => s.draft # None
        /\ thread[r].next = "end" => s.draft # None
        /\ thread[r].next = "ask" => thread[r].round < MaxRounds
        /\ thread' = [thread EXCEPT ![r] = thread[r]] /\ Becomes(c, Idle)
    BY <1>4, <2>1, <2>2 DEF DraftedInv
  <2> QED BY <1>1, <1>2, <1>3, <1>4, <1>5, <2>2, <2>3, <2>4, StepInv
\* The request goes on, and its run stays as it is.
<1>8. CASE Enter(c)
  <2> DEFINE t == [next |-> "analyze", round |-> 0]
             k == [j EXCEPT !.pc = "node", !.at = "analyze"]
  <2>1. t \in ThreadState /\ t.next = "analyze"
    BY DEF ThreadState, InterviewNode
  <2>2. k \in RequestState /\ k.pc = "node" /\ k.r = r
    BY <1>1, <1>3 DEF RequestState, InterviewNode
  <2>3. thread' = [thread EXCEPT ![r] = t] /\ Becomes(c, k) /\ run' = run
    BY <1>3, <1>8 DEF Enter, Checkpoint
  <2> HIDE DEF t, k
  <2> QED BY <1>1, <1>2, <1>3, <1>4, <2>1, <2>2, <2>3, StepInv DEF DraftedInv
<1>9. CASE LoadNode(c) \/ SyncRead(c)
  <2>1. PICK k : /\ Becomes(c, k) /\ k \in RequestState /\ k.r = r /\ k.pc \in {"call", "settle"}
                 /\ k.pc = "settle" => /\ k.at \in {"draft_ready", "questioning"}
                                       /\ k.at = "draft_ready" => run[r].draft # None
    <3>1. CASE LoadNode(c)
      <4> DEFINE k == [j EXCEPT !.pc = "call", !.tools = 0, !.seen = run[j.r].status,
                                !.calls = run[j.r].calls]
      <4>1. k \in RequestState /\ k.r = r /\ k.pc = "call"
        BY <1>1, <1>3, <1>4 DEF RequestState, InterviewState
      <4>2. Becomes(c, k)
        BY <3>1 DEF LoadNode
      <4> HIDE DEF k
      <4> QED BY <4>1, <4>2
    <3>2. CASE SyncRead(c)
      <4> DEFINE k == [j EXCEPT !.pc = "settle", !.at = Synced(j.r)]
      <4>1. /\ Synced(r) \in {"draft_ready", "questioning"}
            /\ Synced(r) = "draft_ready" => run[r].draft # None
        BY <1>4 DEF Synced, DraftedInv
      <4>2. k \in RequestState /\ k.r = r /\ k.pc = "settle" /\ k.at = Synced(r)
        BY <1>1, <1>3, <4>1 DEF RequestState
      <4>3. Becomes(c, k)
        BY <3>2 DEF SyncRead
      <4> HIDE DEF k
      <4> QED BY <4>1, <4>2, <4>3
    <3> QED BY <1>9, <3>1, <3>2
  <2>2. run' = run /\ thread' = thread
    BY <1>9 DEF LoadNode, SyncRead
  <2> QED BY <1>1, <1>2, <1>3, <1>4, <2>1, <2>2, StepInv DEF DraftedInv
\* The nodes.
<1>10. CASE Analyze(c)
  <2>1. PICK asks \in BOOLEAN :
          LET round == j.round + (IF asks THEN 1 ELSE 0)
              next == RouteAfterAnalyze(asks, round)
          IN /\ run' = [run EXCEPT ![j.r].calls = j.calls + 1,
                                   ![j.r].status = IF j.graph = "planning"
                                                     THEN Written(j.r, j.seen, "questioning") ELSE @]
             /\ Checkpoint(j.r, next, round)
             /\ Becomes(c, [Closed(j) EXCEPT !.pc = IF next = "ask" THEN "sync" ELSE "node",
                                             !.at = next, !.round = round])
    BY <1>10 DEF Analyze
  <2> DEFINE round == j.round + (IF asks THEN 1 ELSE 0)
             next == RouteAfterAnalyze(asks, round)
             t == [next |-> next, round |-> round]
             k == [Closed(j) EXCEPT !.pc = IF next = "ask" THEN "sync" ELSE "node",
                                    !.at = next, !.round = round]
  <2>2. round \in Nat /\ next \in {"ask", "draft"} /\ (next = "ask" => round < MaxRounds)
    BY <1>1 DEF RequestState, RouteAfterAnalyze
  <2>3. PICK s \in InterviewState :
          /\ run' = [run EXCEPT ![r] = s] /\ s.kind = run[r].kind /\ s.draft = run[r].draft
          /\ s.status \in {"questioning", run[r].status}
    <3> DEFINE calls == j.calls + 1
               status == IF j.graph = "planning" THEN Written(r, j.seen, "questioning")
                         ELSE run[r].status
    <3>1. status \in {"questioning", run[r].status} /\ status \in InterviewStatus
      BY <1>4 DEF Written, InterviewState, InterviewStatus
    <3>2. run' = [run EXCEPT ![r].calls = calls, ![r].status = status]
      BY <1>3, <2>1
    <3>3. calls \in Nat
      BY <1>1 DEF RequestState
    <3> HIDE DEF status, calls
    <3> DEFINE s == run'[r]
    <3>4. run' = [run EXCEPT ![r] = s]
      BY <1>1, <1>4, <3>2
    <3>5. /\ s \in InterviewState /\ s.kind = run[r].kind /\ s.draft = run[r].draft
          /\ s.status = status
      BY <1>1, <1>4, <3>1, <3>2, <3>3 DEF InterviewState
    <3> HIDE DEF s
    <3> QED BY <3>1, <3>4, <3>5
  <2> HIDE DEF round, next
  <2>4. t \in ThreadState /\ t.next = next /\ t.round = round
    BY <2>2 DEF ThreadState, InterviewNode
  <2>5. k \in RequestState /\ k.pc \in {"sync", "node"} /\ k.r = r
    BY <1>1, <1>3, <2>2 DEF RequestState, InterviewNode, Closed
  <2>6. thread' = [thread EXCEPT ![r] = t] /\ Becomes(c, k)
    BY <1>3, <2>1 DEF Checkpoint, round, next
  <2> HIDE DEF t, k
  <2>7. s.status = "draft_ready" => s.draft # None
    BY <1>4, <2>3 DEF DraftedInv
  <2> QED BY <1>1, <1>2, <1>3, <1>4, <2>2, <2>3, <2>4, <2>5, <2>6, <2>7, StepInv
<1>11. CASE ToolRound(c)
  <2> DEFINE k == [j EXCEPT !.seen = "drafting", !.calls = @ + 1, !.tools = @ + 1]
  <2>1. PICK s \in InterviewState :
          /\ run' = [run EXCEPT ![r] = s] /\ s.kind = run[r].kind /\ s.draft = run[r].draft
          /\ s.status \in {"drafting", run[r].status}
    <3> DEFINE calls == j.calls + 1
               status == Written(r, j.seen, "drafting")
    <3>1. status \in {"drafting", run[r].status} /\ status \in InterviewStatus
      BY <1>4 DEF Written, InterviewState, InterviewStatus
    <3>2. run' = [run EXCEPT ![r].calls = calls, ![r].status = status]
      BY <1>3, <1>11 DEF ToolRound, CommitsDrafting
    <3>3. calls \in Nat
      BY <1>1 DEF RequestState
    <3> HIDE DEF status, calls
    <3> DEFINE s == run'[r]
    <3>4. run' = [run EXCEPT ![r] = s]
      BY <1>1, <1>4, <3>2
    <3>5. /\ s \in InterviewState /\ s.kind = run[r].kind /\ s.draft = run[r].draft
          /\ s.status = status
      BY <1>1, <1>4, <3>1, <3>2, <3>3 DEF InterviewState
    <3> HIDE DEF s
    <3> QED BY <3>1, <3>4, <3>5
  <2>2. k \in RequestState /\ k.pc = "call" /\ k.r = r
    <3>1. j.pc = "call" /\ j.calls + 1 \in Nat /\ j.tools + 1 \in Nat
      BY <1>1, <1>11 DEF RequestState, ToolRound, InToolLoop
    <3> QED BY <1>1, <1>3, <3>1 DEF RequestState, InterviewStatus
  <2> DEFINE t == thread[r]
  <2>3. Becomes(c, k) /\ thread' = [thread EXCEPT ![r] = t]
    BY <1>4, <1>11 DEF ToolRound
  <2>4. /\ t \in ThreadState
        /\ run[r].draft # None => s.draft # None
        /\ s.status = "draft_ready" => s.draft # None
        /\ t.next = "end" => s.draft # None
        /\ t.next = "ask" => t.round < MaxRounds
    BY <1>4, <2>1 DEF DraftedInv
  <2> HIDE DEF k, t
  <2> QED BY <1>1, <1>2, <1>3, <2>1, <2>2, <2>3, <2>4, StepInv
<1>12. CASE BuildDraft(c)
  <2> DEFINE t == [next |-> "end", round |-> j.round]
             k == [Closed(j) EXCEPT !.pc = "sync", !.at = "end"]
  <2>1. run' = Drafted(j) /\ Checkpoint(r, "end", j.round) /\ Becomes(c, k)
    BY <1>3, <1>12 DEF BuildDraft
  <2>2. PICK s \in InterviewState :
          /\ run' = [run EXCEPT ![r] = s] /\ s.kind = run[r].kind /\ s.draft = j.graph
    <3> DEFINE calls == j.calls + 1
               status == Written(r, j.seen, "draft_ready")
    <3>1. status \in InterviewStatus
      BY <1>4 DEF Written, InterviewState, InterviewStatus
    <3>2. run' = [run EXCEPT ![r].calls = calls, ![r].draft = j.graph, ![r].status = status]
      BY <1>3, <2>1 DEF Drafted
    <3>3. calls \in Nat /\ j.graph \in Kind
      BY <1>1 DEF RequestState
    <3> HIDE DEF status, calls
    <3> DEFINE s == run'[r]
    <3>4. run' = [run EXCEPT ![r] = s]
      BY <1>1, <1>4, <3>2
    <3>5. s \in InterviewState /\ s.kind = run[r].kind /\ s.draft = j.graph
      BY <1>1, <1>4, <3>1, <3>2, <3>3 DEF InterviewState
    <3> HIDE DEF s
    <3> QED BY <3>4, <3>5
  <2>3. j.graph # None
    BY <1>1 DEF RequestState, Kind, None
  <2>4. t \in ThreadState /\ t.next = "end"
    BY <1>1 DEF ThreadState, InterviewNode, RequestState
  <2>5. k \in RequestState /\ k.pc = "sync" /\ k.r = r
    BY <1>1, <1>3 DEF RequestState, InterviewNode, Closed
  <2>6. thread' = [thread EXCEPT ![r] = t] /\ Becomes(c, k)
    BY <2>1 DEF Checkpoint
  <2> HIDE DEF t, k
  <2> QED BY <1>1, <1>2, <1>3, <1>4, <2>2, <2>3, <2>4, <2>5, <2>6, StepInv
<1> QED BY <1>6, <1>7, <1>8, <1>9, <1>10, <1>11, <1>12

\* A request that dies leaves what it has written.
LEMMA DieInv ==
  ASSUME InterviewInv, NEW c \in Client, Die(c)
  PROVE  InterviewInv'
<1>1. /\ InterviewTypeInv /\ UNCHANGED <<run, thread, brief, narrating, overlapped>>
      /\ Becomes(c, Idle)
  BY DEF InterviewInv, Die, Done
<1>2. Idle \in RequestState /\ Idle.pc = "idle"
  BY DEF Idle, RequestState, Kind, InterviewNode
<1> HIDE DEF Idle
<1>3. /\ client' \in [Client -> RequestState] /\ client'[c] = Idle
      /\ \A d \in Client \ {c} : client'[d] = client[d]
  BY <1>1, <1>2, BecomesSets
<1>4. InterviewTypeInv' /\ Run' = Run /\ Plans' = Plans /\ NoActivePlan' = NoActivePlan
  BY <1>1, <1>3 DEF InterviewTypeInv, Run, Plans, NoActivePlan
<1>5. \A q \in Run : DraftedInv(q)'
  BY <1>1 DEF InterviewInv, DraftedInv
<1>6. \A d \in Client : RequestInv(d)'
  BY <1>1, <1>2, <1>3, <1>4 DEF InterviewInv, RequestInv
<1>7. SerialInv => SerialInv'
  BY <1>1, <1>2, <1>3, <1>4 DEF SerialInv, NewestPlan, Working
<1> QED BY <1>1, <1>4, <1>5, <1>6, <1>7 DEF InterviewInv

\* What goes on beside the requests supersedes runs or counts calls.
LEMMA BesideInv ==
  ASSUME InterviewInv, ConfirmBrief \/ \E r \in Run : Narrate(r) \/ Narrated(r)
  PROVE  InterviewInv'
<1>1. /\ InterviewTypeInv /\ UNCHANGED <<thread, client, overlapped>>
      /\ Len(run) \in Nat /\ Run = 1..Len(run) /\ \A r \in Run : run[r] \in InterviewState
      /\ run \in Seq(InterviewState) /\ narrating \in Seq(Nat) /\ Len(narrating) = Len(run)
  BY InterviewsTyped DEF InterviewInv, InterviewTypeInv, ConfirmBrief, Narrate, Narrated
<1>2. /\ run' \in [Run -> InterviewState]
      /\ \A r \in Run : /\ run'[r].kind = run[r].kind /\ run'[r].draft = run[r].draft
                        /\ run'[r].status \in {"superseded", run[r].status}
  <2>1. CASE ConfirmBrief
    <3>1. run' = [r \in Run |-> IF r \in Plans /\ run[r].status \in ActivePlanning
                                  THEN [run[r] EXCEPT !.status = "superseded"] ELSE run[r]]
      BY <2>1 DEF ConfirmBrief
    <3> QED BY <1>1, <3>1 DEF InterviewState, InterviewStatus
  <2>2. CASE \E r \in Run : Narrate(r)
    BY <1>1, <2>2 DEF Narrate, Run
  <2>3. CASE \E r \in Run : Narrated(r)
    <3>1. PICK r \in Run : run' = [run EXCEPT ![r].calls = @ + 1]
      BY <2>3 DEF Narrated
    <3>2. run'[r] \in InterviewState /\ \A q \in Run \ {r} : run'[q] = run[q]
      <4>1. r \in DOMAIN run /\ run[r] \in InterviewState /\ run[r].calls + 1 \in Nat
        BY <1>1 DEF InterviewState, Run
      <4> QED BY <3>1, <4>1 DEF InterviewState, Run
    <3>3. /\ run'[r].kind = run[r].kind /\ run'[r].draft = run[r].draft
          /\ run'[r].status = run[r].status
      BY <1>1, <3>1 DEF InterviewState, Run
    <3> QED BY <1>1, <3>1, <3>2, <3>3 DEF Run
  <2> QED BY <2>1, <2>2, <2>3
<1>3. run' \in Seq(InterviewState) /\ Len(run') = Len(run) /\ Run' = Run /\ Plans' = Plans
  <2>1. run' \in Seq(InterviewState) /\ Len(run') = Len(run) /\ DOMAIN run' = Run
    BY <1>1, <1>2
  <2> QED BY <1>2, <2>1 DEF Run, Plans
<1>4. narrating' \in Seq(Nat) /\ Len(narrating') = Len(run)
  <2>1. CASE ConfirmBrief
    BY <1>1, <2>1 DEF ConfirmBrief
  <2>2. CASE \E r \in Run : Narrate(r) \/ Narrated(r)
    <3>1. PICK r \in Run, n \in Nat : narrating' = [narrating EXCEPT ![r] = n]
      <4>1. PICK r \in Run : \/ narrating' = [narrating EXCEPT ![r] = @ + 1]
                             \/ narrating[r] > 0 /\ narrating' = [narrating EXCEPT ![r] = @ - 1]
        BY <2>2 DEF Narrate, Narrated
      <4>2. narrating[r] \in Nat
        BY <1>1
      <4> QED BY <4>1, <4>2
    <3> QED BY <1>1, <3>1
  <2> QED BY <2>1, <2>2
<1>5. InterviewTypeInv'
  <2>1. brief' \in Nat
    BY <1>1 DEF ConfirmBrief, Narrate, Narrated, InterviewTypeInv
  <2> QED BY <1>1, <1>3, <1>4, <2>1 DEF InterviewTypeInv
<1>6. \A r \in Run : DraftedInv(r)'
  BY <1>1, <1>2 DEF InterviewInv, DraftedInv
<1>7. \A d \in Client : RequestInv(d)'
  BY <1>1, <1>2, <1>3 DEF InterviewInv, RequestInv
<1>8. ASSUME SerialInv PROVE SerialInv'
  <2>1. \A r \in Plans : run'[r].status \in ActivePlanning => run[r].status \in ActivePlanning
    BY <1>2 DEF ActivePlanning, Plans
  <2>2. NoActivePlan => NoActivePlan'
    BY <1>3, <2>1 DEF NoActivePlan
  <2>3. \A q : NewestPlan(q)' <=> NewestPlan(q)
    BY <1>3 DEF NewestPlan
  <2>4. ASSUME NEW r \in Plans, run'[r].status \in ActivePlanning PROVE NewestPlan(r)'
    BY <1>8, <2>1, <2>3, <2>4 DEF SerialInv
  <2>5. ASSUME NEW d \in Client
        PROVE  /\ client[d].pc = "insert" /\ client[d].graph = "planning" => NoActivePlan'
               /\ ~(client[d].pc \in {"idle", "insert"}) /\ run'[client[d].r].kind = "planning" =>
                    NewestPlan(client[d].r)
    <3>1. RequestInv(d)
      BY DEF InterviewInv
    <3> QED BY <1>2, <1>8, <2>2, <3>1 DEF SerialInv, RequestInv
  <2> QED BY <1>1, <1>3, <1>8, <2>4, <2>5 DEF SerialInv, Working, NewestPlan
<1> QED BY <1>1, <1>3, <1>5, <1>6, <1>7, <1>8 DEF InterviewInv

\* Every step keeps the invariant.
LEMMA InterviewNextInv == InterviewInv /\ [InterviewNext]_interviewVars => InterviewInv'
<1> SUFFICES ASSUME InterviewInv, [InterviewNext]_interviewVars PROVE InterviewInv'
  OBVIOUS
<1>1. CASE UNCHANGED interviewVars
  BY <1>1 DEF interviewVars, InterviewInv, InterviewTypeInv, DraftedInv, RequestInv, SerialInv,
     NewestPlan, Working, NoActivePlan, Plans, Run
<1>2. CASE InterviewNext
  BY <1>2, StartReadInv, ResumeInv, StartInsertInv, StepsInv, DieInv, BesideInv
     DEF InterviewNext, Request, Step
<1> QED BY <1>1, <1>2

\* The invariant holds in every reachable state.
LEMMA InterviewAlways == InterviewSpec => []InterviewInv
<1>1. InterviewInit => InterviewInv
  BY InterviewInitInv
<1>2. InterviewInv /\ [InterviewNext]_interviewVars => InterviewInv'
  BY InterviewNextInv
<1> QED BY <1>1, <1>2, PTL DEF InterviewSpec

\* A run that is shown as ready has a draft, however its requests overlap, fail and die: a
\* thread that has ended has left one, and drafts stay (_sync_status).
THEOREM ReadyRunsHaveDrafts == InterviewSpec => []ReadyHasDraft
<1>1. InterviewInv => ReadyHasDraft
  BY InterviewIsEnough
<1> QED BY <1>1, InterviewAlways, PTL

\* While requests come one at a time a project has one active planning run, although a
\* superseded run can be answered again: it is the newest one (get_latest_planning_run).
THEOREM OnePlanIsActive == InterviewSpec => []OneActivePlan
<1>1. InterviewInv => OneActivePlan
  BY InterviewIsEnough
<1> QED BY <1>1, InterviewAlways, PTL
=============================================================================
