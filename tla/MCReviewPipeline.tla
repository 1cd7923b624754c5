-------------------------- MODULE MCReviewPipeline --------------------------
(* The pipeline under every delivery schedule, on small instances. *)
EXTENDS ReviewPipeline, TLC

Symmetry == Permutations(Workers) \cup Permutations(PRs) \cup Permutations(Heads)
=============================================================================
