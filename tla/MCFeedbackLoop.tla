--------------------------- MODULE MCFeedbackLoop ---------------------------
(* The feedback loop of one pull request on small instances. *)
EXTENDS FeedbackLoop, TLC

Symmetry == Permutations(Workers)
=============================================================================
