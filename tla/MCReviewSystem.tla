--------------------------- MODULE MCReviewSystem ---------------------------
(* The composed review system on small instances; the bus carries the jobs *)
(* of one pull request.                                                    *)
EXTENDS ReviewSystem, TLC

Symmetry == Permutations(Workers)
=============================================================================
