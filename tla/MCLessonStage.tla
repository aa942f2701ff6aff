---------------------------- MODULE MCLessonStage ----------------------------
(* Instances of LessonStage for TLC.                                        *)
EXTENDS LessonStage, TLC

Symmetry == Permutations(Task)
=============================================================================
