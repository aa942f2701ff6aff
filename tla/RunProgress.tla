----------------------------- MODULE RunProgress -----------------------------
(***************************************************************************)
(* What a teacher may rely on of the generation runs of a workspace while  *)
(* requests come one at a time: a version pair has one run, its scope is   *)
(* fixed when it starts, a call is paid only while a lesson of the scope   *)
(* is missing, a lesson is completed once and only after a call, and a run *)
(* is complete when its last lesson is and never reopens.  Queues, workers,*)
(* crashes and retries are not mentioned.                                  *)
(***************************************************************************)
EXTENDS Integers

CONSTANTS
  RunId,    \* identities of runs
  Pair,     \* version pairs
  Lesson,   \* lesson indexes of a blueprint
  Cap       \* model_call_cap of a run

VARIABLES
  pair,    \* pair[r]: the version pair run r is bound to
  scope,   \* scope[r]: the lessons run r is to produce
  done,    \* done[r]: the lessons it has produced
  calls,   \* calls[r]: the model calls it has paid for
  state    \* state[r]: "none" before it starts, "open", "complete" or "superseded"

vars == <<pair, scope, done, calls, state>>

Init ==
  /\ pair \in [RunId -> Pair]
  /\ scope = [r \in RunId |-> {}]
  /\ done = [r \in RunId |-> {}]
  /\ calls = [r \in RunId |-> 0]
  /\ state = [r \in RunId |-> "none"]

Start(r, vp, lessons) ==
  /\ state[r] = "none"
  /\ \A s \in RunId : state[s] # "none" => pair[s] # vp
  /\ lessons # {}
  /\ pair' = [pair EXCEPT ![r] = vp]
  /\ scope' = [scope EXCEPT ![r] = lessons]
  /\ state' = [state EXCEPT ![r] = "open"]
  /\ UNCHANGED <<done, calls>>

\* A call is paid for a lesson that is missing.
Spend(r) ==
  /\ state[r] # "none" /\ done[r] # scope[r]
  /\ calls[r] < Cap
  /\ calls' = [calls EXCEPT ![r] = @ + 1]
  /\ UNCHANGED <<pair, scope, done, state>>

Produce(r, l) ==
  /\ state[r] # "none" /\ calls[r] > 0
  /\ l \in scope[r] \ done[r]
  /\ done' = [done EXCEPT ![r] = @ \union {l}]
  /\ UNCHANGED <<pair, scope, calls, state>>

Complete(r) ==
  /\ state[r] \in {"open", "superseded"}
  /\ done[r] = scope[r]
  /\ state' = [state EXCEPT ![r] = "complete"]
  /\ UNCHANGED <<pair, scope, done, calls>>

Supersede(runs) ==
  /\ \A r \in runs : state[r] # "none"
  /\ state' = [r \in RunId |-> IF r \in runs THEN "superseded" ELSE state[r]]
  /\ UNCHANGED <<pair, scope, done, calls>>

\* A task that was at work when its run was superseded may write over it.
Reopen(r) ==
  /\ state[r] = "superseded"
  /\ state' = [state EXCEPT ![r] = "open"]
  /\ UNCHANGED <<pair, scope, done, calls>>

Next ==
  \/ \E r \in RunId :
       \/ \E vp \in Pair, lessons \in SUBSET Lesson : Start(r, vp, lessons)
       \/ Spend(r) \/ Complete(r) \/ Reopen(r)
       \/ \E l \in Lesson : Produce(r, l)
  \/ \E runs \in SUBSET RunId : Supersede(runs)

Spec == Init /\ [][Next]_vars

=============================================================================
