---------------------------- MODULE LessonAttempt ----------------------------
(***************************************************************************)
(* The contract of one attempt at a lesson, as the run sees it: the calls  *)
(* it reserves from the run's budget and the status it leaves the artifact *)
(* with.  LessonStage implements it, and GenerationRun, whose runs are     *)
(* those of lesson plans, is written against it without a prerequisite.    *)
(***************************************************************************)
EXTENDS Integers

CONSTANTS
  Task,         \* executions of the run that may overlap
  Cap,          \* model_call_cap of the run
  LessonCalls,  \* most model calls of one attempt
  Prerequisite  \* the artifact is written from another run's, which may be missing

VARIABLES
  calls,     \* model_calls of the run
  artifact,  \* status of the artifact
  active,    \* tasks that are in an attempt
  used       \* used[t]: calls of the attempt of t

vars == <<calls, artifact, active, used>>

Init ==
  /\ calls \in 0..Cap
  /\ artifact = "pending"
  /\ active = {}
  /\ used = [t \in Task |-> 0]

Enter(t) ==
  /\ t \notin active
  /\ artifact # "complete"
  /\ active' = active \union {t}
  /\ used' = [used EXCEPT ![t] = 0]
  /\ UNCHANGED <<calls, artifact>>

Call(t) ==
  /\ t \in active /\ used[t] < LessonCalls
  /\ calls < Cap
  /\ calls' = calls + 1
  /\ used' = [used EXCEPT ![t] = @ + 1]
  /\ artifact' \in {artifact, "working"}
  /\ UNCHANGED active

\* The stages between two calls, and those after the last, show their own status.
Progress(t) ==
  /\ t \in active /\ used[t] > 0
  /\ artifact' = "working"
  /\ UNCHANGED <<calls, active, used>>

\* The attempt decides the lesson ...
Decide(t, s) ==
  /\ t \in active /\ used[t] > 0
  /\ artifact' \in {artifact, s}
  /\ active' = active \ {t}
  /\ UNCHANGED <<calls, used>>

\* ... or fails it before the first call, for lack of what it is written from, ...
Refuse(t) ==
  /\ Prerequisite
  /\ t \in active /\ used[t] = 0
  /\ artifact' \in {artifact, "failed"}
  /\ active' = active \ {t}
  /\ UNCHANGED <<calls, used>>

\* ... or leaves it as it is: the cap is reached, or the task ends in an error.
Leave(t) ==
  /\ t \in active
  /\ active' = active \ {t}
  /\ UNCHANGED <<calls, artifact, used>>

Next ==
  \E t \in Task :
    \/ Enter(t) \/ Call(t) \/ Progress(t) \/ Refuse(t) \/ Leave(t)
    \/ \E s \in {"complete", "failed"} : Decide(t, s)

Spec == Init /\ [][Next]_vars

=============================================================================
