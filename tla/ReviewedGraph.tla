---------------------------- MODULE ReviewedGraph ----------------------------
(***************************************************************************)
(* The graph of SkillsAgentGraph with request_human_review as one of its   *)
(* tools: what HumanReview says of one call after the other happens here   *)
(* inside tool_node, in the turns, batches, budgets, pauses and failures   *)
(* of the graph.  Each action of the review that the program takes is a    *)
(* step of the loop of execute_tool_calls.                                 *)
(***************************************************************************)
EXTENDS HumanReview, Sequences

CONSTANTS
  Tools, UnknownTool, Pausing, Interrupts, Uninjectable, EmptyTools, MayOmitId,
  MAX_TOOL_CALLS, MAX_TOOL_RETRIES, max_tool_retries,
  MaxBatch, MaxTurns, MaxFailures

\* What SkillsAgentGraph assumes of them.
ASSUME GraphAssumption ==
  /\ MAX_TOOL_CALLS \in Nat /\ MAX_TOOL_RETRIES \in Nat /\ max_tool_retries \in Nat
  /\ MaxBatch \in Nat /\ MaxTurns \in Nat /\ MaxFailures \in Nat
  /\ MAX_TOOL_RETRIES <= max_tool_retries
  /\ UnknownTool \notin Tools
  /\ Pausing \subseteq Tools /\ Uninjectable \subseteq Tools /\ EmptyTools \subseteq Tools
  /\ MayOmitId \in BOOLEAN
  /\ Interrupts \subseteq Pausing

VARIABLES
  run,        \* what SkillsAgentGraph calls status
  next, last, tool_retry_attempts, tool_call_count, tool_feedback,
  tool_feedback_history, local, resumed, turn, effects, ran, rounds, failures,
  asked       \* ghost: the cards shown in this turn

Graph == INSTANCE SkillsAgentGraph WITH status <- run

graphVars == <<run, next, last, tool_retry_attempts, tool_call_count, tool_feedback,
               tool_feedback_history, local, resumed, turn, effects, ran, rounds, failures>>
reviewedVars == <<vars, graphVars, asked>>

ReviewedInit == Init /\ Graph!Init /\ asked = 0

\* The batch is one call of the tool; with siblings it is refused.
AsksForReview ==
  /\ Graph!InToolNode
  /\ \E tc \in Graph!Calls :
       last.tool_calls = << tc >> /\ Graph!Invokes(tc) /\ tc.name \in Interrupts

-----------------------------------------------------------------------------
(* tool_node with a call of the review tool *)

\* The loop comes to a new call of the tool, or to one whose body ran before the
\* node was paused or failed.
StartsReview ==
  /\ AsksForReview /\ Graph!StartToolCalls
  /\ IF status = "idle" THEN CallTool ELSE UNCHANGED vars
  /\ UNCHANGED asked

ShowsCard ==
  /\ AsksForReview /\ Graph!ToolInterrupts /\ Interrupt
  /\ asked' = asked + 1

TellsDecision ==
  /\ AsksForReview /\ Graph!ToolSucceeds /\ ReturnDecision
  /\ UNCHANGED asked

\* ValueError, which the loop makes a retryable EXECUTION_ERROR.
Rejects ==
  /\ AsksForReview /\ Graph!ToolFails /\ (RejectRequest \/ RejectDecision)
  /\ local'.attempts = Graph!AttemptsAfterError(tool_retry_attempts, TRUE)
  /\ UNCHANGED asked

EndsReview ==
  /\ AsksForReview /\ Graph!EndToolCalls /\ NodeReturns
  /\ UNCHANGED asked

\* Everything else the graph does, batches with the tool that it refuses included.
WithoutReview ==
  /\ ~AsksForReview /\ Graph!GraphStep
  /\ UNCHANGED <<vars, asked>>

-----------------------------------------------------------------------------
(* LangGraph, the host and the user *)

Answers ==
  /\ Graph!ResumeInterrupt /\ Resume
  /\ UNCHANGED asked

Fails ==
  /\ Graph!NodeFails
  /\ IF status \in {"running", "returned"} THEN Die ELSE UNCHANGED vars
  /\ UNCHANGED asked

StartsAgain ==
  /\ Graph!RetryRun
  /\ IF status = "stopped" THEN RunAgain ELSE UNCHANGED vars
  /\ UNCHANGED asked

UserWrites ==
  /\ Graph!HumanTurn
  /\ IF status \in {"paused", "stopped"} THEN Abandon ELSE UNCHANGED vars
  /\ asked' = 0

ReviewedNext ==
  \/ StartsReview \/ ShowsCard \/ TellsDecision \/ Rejects \/ EndsReview
  \/ WithoutReview \/ Answers \/ Fails \/ StartsAgain \/ UserWrites

ReviewedSpec == ReviewedInit /\ [][ReviewedNext]_reviewedVars

-----------------------------------------------------------------------------
(* Properties *)

\* A decision that is refused uses up its pause, and the model may ask again with a
\* new card.  The call budget bounds that too: a turn shows no human more cards
\* than MAX_TOOL_CALLS, whatever is answered to them and however often the process
\* dies (review.py:151-161, nodes.py:72-76).
CardsFitBudget == asked <= MAX_TOOL_CALLS

=============================================================================
