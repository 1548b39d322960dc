---------------------------- MODULE MCHumanReview ----------------------------
(***************************************************************************)
(* Two option values, so that two calls can offer different ones.          *)
(***************************************************************************)
EXTENDS HumanReview, TLC

CONSTANTS approve, reject

MCValues == {approve, reject}

\* The values are interchangeable.
MCSymmetry == Permutations(MCValues)

=============================================================================
