------------------------------ MODULE MCServices ------------------------------
(* The services that share no state, one at a time: an initial state chooses *)
(* one of them and only that one moves.  The memory of a teacher comes       *)
(* twice, without a run that uses it and with one: "run memory" is one pass  *)
(* at most, and two tasks of a run.                                          *)
EXTENDS Interview, Confirmation, ProjectDeletion, TeacherMemory, ProductValidation,
        EventStream, Admission, Narration, Regeneration, TLC

VARIABLE focus

Focus == {"interview", "confirmation", "deletion", "memory", "run memory", "validation",
          "stream", "admission", "narration", "regeneration"}

\* One request a window, and one upload of two bytes.
SmallLimit == [class \in Class |-> IF class = "upload_daily" THEN 2 ELSE 1]

Init ==
  /\ focus \in Focus
  /\ InterviewInit /\ ConfirmationInit /\ DeletionInit /\ MemoryInit /\ ValidationInit
  /\ StreamInit /\ AdmissionInit /\ NarrationInit /\ RegenerationInit
  /\ focus # "narration" => flavour = "evidence"

OnePassAtMost == Cardinality({t \in Trigger : passes'[t] # "none"}) <= 1

Next ==
  /\ UNCHANGED focus
  /\ IF focus = "interview" THEN InterviewNext ELSE UNCHANGED interviewVars
  /\ IF focus = "confirmation" THEN ConfirmationNext ELSE UNCHANGED confirmationVars
  /\ IF focus = "deletion" THEN DeletionNext ELSE UNCHANGED deletionVars
  /\ CASE focus = "memory" -> MemoryNext /\ UNCHANGED memoryRun
       [] focus = "run memory" -> MemoryNext /\ OnePassAtMost
       [] OTHER -> UNCHANGED memoryVars
  /\ IF focus = "validation" THEN ValidationNext ELSE UNCHANGED validationVars
  /\ IF focus = "stream" THEN StreamNext ELSE UNCHANGED streamVars
  /\ IF focus = "admission" THEN AdmissionNext ELSE UNCHANGED admissionVars
  /\ IF focus = "narration" THEN NarrationNext ELSE UNCHANGED narrationVars
  /\ IF focus = "regeneration" THEN RegenerationNext ELSE UNCHANGED regenerationVars

Spec == Init /\ [][Next]_<<focus, interviewVars, confirmationVars, deletionVars, memoryVars,
                           validationVars, streamVars, admissionVars, narrationVars,
                           regenerationVars>>

\* The names of a kind are the same for all the services.
Symmetry == Permutations(Client) \cup Permutations(Content)
=============================================================================
