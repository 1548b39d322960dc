--------------------------- MODULE MCReviewedGraph ---------------------------
(***************************************************************************)
(* The reviewer and an ordinary tool, which may answer with an empty       *)
(* feedback; two option values, so that two calls can offer different ones.*)
(***************************************************************************)
EXTENDS ReviewedGraph, TLC

CONSTANTS approve, reject, review, plain, unknown

MCValues == {approve, reject}
MCTools == {review, plain}
MCPausing == {review}
MCPlain == {plain}
MCNone == {}

\* The values are interchangeable.
MCSymmetry == Permutations(MCValues)

=============================================================================
