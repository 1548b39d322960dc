------------------------- MODULE MCSkillsAgentGraph -------------------------
(***************************************************************************)
(* Constants for model-checking SkillsAgentGraph.  One tool stands for each*)
(* kind the code tells apart: an ordinary one (load_skill, an MCP tool),   *)
(* one that needs a State field that is absent, and the reviewer, which    *)
(* pauses the graph.  The ordinary one is where an empty feedback comes    *)
(* from.                                                                   *)
(***************************************************************************)
EXTENDS SkillsAgentGraph

CONSTANTS plain, injected, review, unknown

MCTools == {plain, injected, review}
MCPausing == {review}
MCUninjectable == {injected}
MCEmptyTools == {plain}
MCNone == {}

=============================================================================
