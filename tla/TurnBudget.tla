----------------------------- MODULE TurnBudget -----------------------------
(***************************************************************************)
(* What the graph promises about one human turn, without batches, tools,   *)
(* errors, pauses, crashes or restarts: batches of tool calls are let in   *)
(* one after another while both budgets have room, each of them uses up    *)
(* some of a budget, and a closed turn stays closed until the user writes. *)
(* SkillsAgentGraph is shown to implement it (ImplementsTurnBudget).       *)
(***************************************************************************)
EXTENDS Naturals

CONSTANTS
  CallBudget,     \* tool calls in one turn
  AttemptBudget,  \* attempts from which no further batch is let in
  MaxAttempts     \* the value attempts never exceed

VARIABLES
  node,      \* "agent_node", "tool_node", "error_summary_node" or "__end__"
  charged,   \* tool calls charged to the turn
  attempts   \* retries used up since the last success

vars == <<node, charged, attempts>>

Init == node = "__end__" /\ charged = 0 /\ attempts = 0

\* The user writes: both budgets are whole again, whatever happened before.
NewTurn == node' = "agent_node" /\ charged' = 0 /\ attempts' = 0

Answer ==
  /\ node = "agent_node" /\ node' = "__end__"
  /\ UNCHANGED <<charged, attempts>>

\* A batch is let in only while neither budget is used up.
LetIn ==
  /\ node = "agent_node" /\ charged < CallBudget /\ attempts < AttemptBudget
  /\ node' = "tool_node"
  /\ UNCHANGED <<charged, attempts>>

\* It uses up calls, or else attempts: success renews the attempts only at the
\* price of calls.
Spend ==
  /\ node = "tool_node" /\ node' = "agent_node"
  /\ \/ charged' \in (charged + 1)..CallBudget /\ attempts' \in 0..MaxAttempts
     \/ charged' = charged /\ attempts' \in (attempts + 1)..MaxAttempts

TurnAway ==
  /\ node = "agent_node" /\ node' = "error_summary_node"
  /\ UNCHANGED <<charged, attempts>>

Summarise ==
  /\ node = "error_summary_node" /\ node' = "__end__"
  /\ attempts' = 0 /\ charged' = charged

Next == NewTurn \/ Answer \/ LetIn \/ Spend \/ TurnAway \/ Summarise

Spec == Init /\ [][Next]_vars

=============================================================================
