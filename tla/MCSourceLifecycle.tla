--------------------------- MODULE MCSourceLifecycle ---------------------------
(* Instances of SourceLifecycle for TLC.                                    *)
EXTENDS SourceLifecycle, TLC

Symmetry == Permutations(Uploader) \union Permutations(Worker) \union Permutations(Deleter)
=============================================================================
