-------------------------- MODULE MCIndexingPipeline --------------------------
(* Three tasks for two desired states suffice for a publication that waits    *)
(* for a second and meets a third.                                            *)
EXTENDS IndexingPipeline, TLC

(* Tasks are interchangeable. *)
Symmetry == Permutations(Tasks)
==============================================================================
