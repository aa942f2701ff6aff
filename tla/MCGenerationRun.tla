--------------------------- MODULE MCGenerationRun ---------------------------
(* Instances of GenerationRun for TLC.                                      *)
EXTENDS GenerationRun, TLC

Symmetry == Permutations(Worker) \union Permutations(Client)
=============================================================================
