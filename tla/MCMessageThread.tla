--------------------------- MODULE MCMessageThread ---------------------------
(***************************************************************************)
(* An ordinary tool, which may answer with an empty feedback, one that     *)
(* needs a State field that is absent, and the reviewer.                   *)
(***************************************************************************)
EXTENDS MessageThread

CONSTANTS plain, injected, review, unknown

MCTools == {plain, injected, review}
MCPausing == {review}
MCPlain == {plain}
MCInjected == {injected}

=============================================================================
