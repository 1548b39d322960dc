-------------------------- MODULE SkillsAgentGraph --------------------------
(***************************************************************************)
(* The ReAct loop of the skills agent: the compiled StateGraph (agent.py,  *)
(* nodes.py, state.py) and the tool-execution loop it delegates to         *)
(* (BaseAgent.execute_tool_calls_safe / execute_tool_calls /               *)
(* _execute_single_tool).                                                  *)
(*                                                                         *)
(* A node of the graph reads the checkpointed State when it starts and     *)
(* writes one update when it returns.  tool_node therefore has locals      *)
(* (variable local) that a crash or an interrupt() throws away, while the  *)
(* effects of the tools it already ran stay.  Every call of a tool is a    *)
(* step of its own, so a run can die or pause between any two of them.     *)
(*                                                                         *)
(* Left out: message texts and the message list (only messages[-1] is      *)
(* read by the routing), the initialisation of the Context, and LangGraph's*)
(* own recursion limit, so that what is shown rests on this program's      *)
(* counters alone.                                                         *)
(***************************************************************************)
EXTENDS Naturals, Sequences, FiniteSets

CONSTANTS
  Tools,            \* names in BaseAgent.tools_by_name
  UnknownTool,      \* a name the model invents
  Pausing,          \* tools whose metadata says pauses_graph
  Interrupts,       \* tools whose body calls interrupt()
  Uninjectable,     \* tools with an InjectedState field absent from State
  EmptyTools,       \* tools that may return a ToolFeedback with no outcome
  MayOmitId,        \* whether the model may emit a tool call without an id
  MAX_TOOL_CALLS, MAX_TOOL_RETRIES,   \* nodes.py
  max_tool_retries,                   \* BaseAgent's constructor argument
  MaxBatch,         \* bound: tool calls in one AIMessage
  MaxTurns,         \* bound: human messages on the thread
  MaxFailures       \* bound: times one scheduled node may fail

ASSUME BudgetsAssumption ==
  /\ MAX_TOOL_CALLS \in Nat
  /\ MAX_TOOL_RETRIES \in Nat
  /\ max_tool_retries \in Nat
  /\ MaxBatch \in Nat
  /\ MaxTurns \in Nat
  /\ MaxFailures \in Nat

\* nodes.py asks whoever raises the agent's budget to update the router's too;
\* the router's may be the smaller of the two, never the larger.
ASSUME RetryBudgetsAgree == MAX_TOOL_RETRIES <= max_tool_retries

ASSUME ToolsAssumption ==
  /\ UnknownTool \notin Tools
  /\ Pausing \subseteq Tools
  /\ Uninjectable \subseteq Tools
  /\ EmptyTools \subseteq Tools
  /\ MayOmitId \in BOOLEAN

\* The contract of pauses_graph: whatever interrupts says so in its metadata.
ASSUME PausingIsDeclared == Interrupts \subseteq Pausing

VARIABLES
  next,                   \* the node the checkpoint schedules
  status,                 \* what the process driving the thread is doing
  last,                   \* messages[-1]
  tool_retry_attempts,    \* State, as checkpointed
  tool_call_count,
  tool_feedback,          \* 0 for None, else the turn it was produced in
  tool_feedback_history,  \* the turns the errored entries were produced in
  local,                  \* locals of execute_tool_calls while it runs
  resumed,                \* a resume value waits for the interrupted call
  turn,                   \* ghost: human messages so far
  effects,                \* ghost: times each call of last.tool_calls ran
  ran,                    \* ghost: calls of this turn's earlier batches that ran
  rounds,                 \* ghost: tool rounds completed in this turn
  failures                \* ghost: failures of the scheduled node so far

checkpoint == <<last, tool_retry_attempts, tool_call_count, tool_feedback,
                tool_feedback_history>>
ghosts == <<turn, effects, ran, rounds>>
vars == <<next, status, checkpoint, local, resumed, ghosts, failures>>

-----------------------------------------------------------------------------
(* Data *)

Calls == [name : Tools \cup {UnknownTool}, hasId : BOOLEAN]

Emitted == {c \in Calls : c.hasId \/ MayOmitId}

\* The tool_calls of a response; the empty sequence is a final answer.
Responses == UNION {[1..n -> Emitted] : n \in 0..MaxBatch}

Nodes == {"agent_node", "tool_node", "error_summary_node", "__end__"}

\* local while no execute_tool_calls is in flight.
Idle == [at |-> 0, attempts |-> 0, executed |-> 0, feedback |-> 0, errored |-> FALSE]

LessOf(a, b) == IF a <= b THEN a ELSE b

\* Does executing c reach the body of a tool (did_invoke)?
Invokes(c) == c.hasId /\ c.name \in Tools \ Uninjectable

\* The calls of the pending batch whose tool has run at least once.
Touched == {k \in DOMAIN effects : effects[k] > 0}

\* Every completed round raises this (see RoundMakesProgress); rounds is cut
\* off just above it.
RoundBound == MAX_TOOL_CALLS * (max_tool_retries + 1) + max_tool_retries

-----------------------------------------------------------------------------
(* The decisions of the code *)

\* Mutated form: routes on what has run so far, not on the projected total.
RouteOnCurrentCount(count, attempts, calls) ==
  IF calls = << >> THEN "__end__"
  ELSE IF count >= MAX_TOOL_CALLS \/ attempts >= MAX_TOOL_RETRIES
       THEN "error_summary_node"
       ELSE "tool_node"

should_continue(count, attempts, calls) ==
  IF calls = << >> THEN "__end__"
  ELSE IF count + Len(calls) > MAX_TOOL_CALLS \/ attempts >= MAX_TOOL_RETRIES
       THEN "error_summary_node"
       ELSE "tool_node"

\* Mutated forms: nothing is reset; everything is reset on every LLM call.
ResetNothing(isNew, value, reset) == value
ResetAlways(isNew, value, reset) == reset

with_turn_reset(isNew, value, reset) == IF isNew THEN reset ELSE value

\* Mutated form: batches are never refused.
RefuseNone(calls) == FALSE

\* A batch that mixes a pause-capable tool with siblings.
Refused(calls) ==
  /\ Len(calls) > 1
  /\ \E k \in DOMAIN calls : calls[k].name \in Pausing

\* Mutated form: a refused batch is free.
FreeRefusal(entry) == entry

AttemptsAfterRefusal(entry) == LessOf(entry + 1, max_tool_retries)

\* Mutated form: the error branch forgets to count.
ErrorsAreFree(entry, retryable) == entry

\* Every error of a round counts from the value at entry of the round.
AttemptsAfterError(entry, retryable) ==
  IF retryable /\ entry < max_tool_retries THEN entry + 1 ELSE max_tool_retries

\* Mutated form: the catastrophic path leaves the counter alone.
FallbackKeepsAttempts(entry) == entry

AttemptsAfterFallback(entry) == max_tool_retries

-----------------------------------------------------------------------------
(* Initial state: an empty thread *)

Init ==
  /\ next = "__end__" /\ status = "stopped"
  /\ last = [type |-> "none", tool_calls |-> << >>]
  /\ tool_retry_attempts = 0 /\ tool_call_count = 0
  /\ tool_feedback = 0 /\ tool_feedback_history = {}
  /\ local = Idle /\ resumed = FALSE
  /\ turn = 0 /\ effects = << >> /\ ran = 0 /\ rounds = 0 /\ failures = 0

-----------------------------------------------------------------------------
(* The world around the graph: the user, LangGraph's runtime, crashes *)

\* A new HumanMessage on a thread with no run in flight starts over at
\* __start__, whatever the thread was stopped or paused in.
HumanTurn ==
  /\ status # "running" /\ turn < MaxTurns
  /\ turn' = turn + 1
  /\ last' = [type |-> "human", tool_calls |-> << >>]
  /\ next' = "agent_node" /\ status' = "running"
  /\ resumed' = FALSE /\ failures' = 0
  /\ effects' = << >> /\ ran' = 0 /\ rounds' = 0
  /\ UNCHANGED <<tool_retry_attempts, tool_call_count, tool_feedback,
                 tool_feedback_history, local>>

\* Command(resume=...): the interrupted node runs again from the top.
ResumeInterrupt ==
  /\ status = "paused"
  /\ status' = "running" /\ resumed' = TRUE
  /\ UNCHANGED <<next, checkpoint, local, ghosts, failures>>

\* A run that failed is started again from its checkpoint.
RetryRun ==
  /\ status = "stopped" /\ next # "__end__"
  /\ status' = "running"
  /\ UNCHANGED <<next, checkpoint, local, resumed, ghosts, failures>>

\* The process dies, or the node raises (the LLM's retries are exhausted, the
\* Context cannot be initialised): no update of the node is kept.
NodeFails ==
  /\ status = "running" /\ failures < MaxFailures
  /\ status' = "stopped" /\ failures' = failures + 1
  /\ local' = Idle
  /\ UNCHANGED <<next, checkpoint, resumed, ghosts>>

-----------------------------------------------------------------------------
(* agent_node and error_summary_node *)

\* The model answers, with or without tool calls; the per-turn fields are reset
\* in the same update when the last persisted message is the user's.
AgentNode ==
  /\ status = "running" /\ next = "agent_node"
  /\ \E calls \in Responses :
       LET isNew == last.type = "human" IN
       /\ last' = [type |-> "ai", tool_calls |-> calls]
       /\ tool_retry_attempts' = with_turn_reset(isNew, tool_retry_attempts, 0)
       /\ tool_call_count' = with_turn_reset(isNew, tool_call_count, 0)
       /\ tool_feedback' = with_turn_reset(isNew, tool_feedback, 0)
       /\ tool_feedback_history' = with_turn_reset(isNew, tool_feedback_history, {})
       /\ next' = should_continue(tool_call_count', tool_retry_attempts', calls)
       /\ status' = IF next' = "__end__" THEN "stopped" ELSE "running"
       /\ effects' = [k \in DOMAIN calls |-> 0]
  /\ failures' = 0
  /\ UNCHANGED <<local, resumed, turn, ran, rounds>>

\* The LLM is called without tools, so its answer is final.
ErrorSummaryNode ==
  /\ status = "running" /\ next = "error_summary_node"
  /\ last' = [type |-> "ai", tool_calls |-> << >>]
  /\ tool_retry_attempts' = 0
  /\ next' = "__end__" /\ status' = "stopped"
  /\ effects' = << >> /\ failures' = 0
  /\ UNCHANGED <<tool_call_count, tool_feedback, tool_feedback_history, local,
                 resumed, turn, ran, rounds>>

-----------------------------------------------------------------------------
(* tool_node *)

InToolNode == status = "running" /\ next = "tool_node"

\* The update of tool_node is applied and agent_node is scheduled; touched is
\* the part of the batch that ran.  The last message is a ToolMessage unless no
\* call of the batch had an id.
FinishToolNode(touched) ==
  /\ last' = IF \E k \in DOMAIN last.tool_calls : last.tool_calls[k].hasId
               THEN [type |-> "tool", tool_calls |-> << >>]
               ELSE last
  /\ next' = "agent_node"
  /\ local' = Idle /\ resumed' = FALSE /\ failures' = 0
  /\ ran' = ran + Cardinality(touched)
  /\ effects' = << >>
  /\ rounds' = IF rounds > RoundBound THEN rounds ELSE rounds + 1
  /\ UNCHANGED <<status, turn>>

RefuseBatch ==
  /\ InToolNode /\ local = Idle
  /\ Refused(last.tool_calls)
  /\ tool_retry_attempts' = AttemptsAfterRefusal(tool_retry_attempts)
  /\ tool_feedback' = turn
  /\ tool_feedback_history' = tool_feedback_history \cup {turn}
  /\ FinishToolNode(Touched)
  /\ UNCHANGED tool_call_count

\* The reads at the top of execute_tool_calls.
StartToolCalls ==
  /\ InToolNode /\ local = Idle
  /\ ~Refused(last.tool_calls)
  /\ local' = [Idle EXCEPT !.at = 1, !.attempts = tool_retry_attempts]
  /\ UNCHANGED <<next, status, checkpoint, resumed, ghosts, failures>>

\* The loop is at call tc.
AtCall(tc) ==
  /\ InToolNode
  /\ local.at \in DOMAIN last.tool_calls
  /\ tc = last.tool_calls[local.at]

\* The loop variables after call local.at produced a feedback.
Record(error, attempts, didInvoke) ==
  /\ local' = [at |-> local.at + 1,
               attempts |-> attempts,
               executed |-> IF didInvoke THEN local.executed + 1 ELSE local.executed,
               feedback |-> turn,
               errored |-> local.errored \/ error]
  /\ UNCHANGED <<next, status, checkpoint, resumed, turn, ran, rounds, failures>>

RunTool == effects' = [effects EXCEPT ![local.at] = @ + 1]

SkipCallWithoutId ==
  /\ \E tc \in Calls : AtCall(tc) /\ ~tc.hasId
  /\ local' = [local EXCEPT !.at = @ + 1]
  /\ UNCHANGED <<next, status, checkpoint, resumed, ghosts, failures>>

ToolNotFound ==
  /\ \E tc \in Calls : AtCall(tc) /\ tc.hasId /\ tc.name \notin Tools
  /\ Record(TRUE, AttemptsAfterError(tool_retry_attempts, FALSE), FALSE)
  /\ UNCHANGED effects

\* _inject_state_args raises KeyError before the tool is reached.
InjectionFails ==
  /\ \E tc \in Calls : AtCall(tc) /\ tc.hasId /\ tc.name \in Uninjectable
  /\ Record(TRUE, AttemptsAfterError(tool_retry_attempts, TRUE), FALSE)
  /\ UNCHANGED effects

\* A pausing tool gets past its interrupt() only with a resume value.
MayReturn(tc) == tc.name \in Interrupts => resumed

ToolSucceeds ==
  /\ \E tc \in Calls : AtCall(tc) /\ Invokes(tc) /\ MayReturn(tc)
  /\ Record(FALSE, 0, TRUE)
  /\ RunTool

\* The tool raises (retryable EXECUTION_ERROR), or returns an error of its own.
ToolFails ==
  /\ \E tc \in Calls, retryable \in BOOLEAN :
       /\ AtCall(tc) /\ Invokes(tc)
       /\ retryable \/ MayReturn(tc)
       /\ Record(TRUE, AttemptsAfterError(tool_retry_attempts, retryable), TRUE)
  /\ RunTool

\* GraphBubbleUp propagates: the run pauses and the node's update is lost.
ToolInterrupts ==
  /\ \E tc \in Calls :
       AtCall(tc) /\ Invokes(tc) /\ tc.name \in Interrupts /\ ~resumed
  /\ status' = "paused" /\ local' = Idle
  /\ UNCHANGED <<next, checkpoint, resumed, ghosts, failures>>

\* The tool ran and returned a feedback with neither success nor error: reading
\* its results raises AttributeError out of execute_tool_calls, and the fallback
\* of execute_tool_calls_safe becomes the update of the node.
ToolReturnsEmpty ==
  /\ \E tc \in Calls :
       AtCall(tc) /\ Invokes(tc) /\ tc.name \in EmptyTools /\ MayReturn(tc)
  /\ tool_retry_attempts' = AttemptsAfterFallback(tool_retry_attempts)
  /\ FinishToolNode(Touched \cup {local.at})
  /\ UNCHANGED <<tool_call_count, tool_feedback, tool_feedback_history>>

\* Mutated form: the executed calls are not charged.
ChargeNothing(executed) == 0

Charge(executed) == executed

\* The loop is over: execute_tool_calls returns and tool_node adds its charge.
EndToolCalls ==
  /\ InToolNode
  /\ local.at = Len(last.tool_calls) + 1
  /\ tool_retry_attempts' = local.attempts
  /\ tool_call_count' = tool_call_count + Charge(local.executed)
  /\ tool_feedback' = local.feedback
  /\ tool_feedback_history' =
       tool_feedback_history \cup (IF local.errored THEN {turn} ELSE {})
  /\ FinishToolNode(Touched)

-----------------------------------------------------------------------------
(* Specification *)

ToolNode ==
  \/ RefuseBatch \/ StartToolCalls \/ SkipCallWithoutId \/ ToolNotFound
  \/ InjectionFails \/ ToolSucceeds \/ ToolFails \/ ToolInterrupts
  \/ ToolReturnsEmpty \/ EndToolCalls

GraphStep == AgentNode \/ ToolNode \/ ErrorSummaryNode

Next == HumanTurn \/ ResumeInterrupt \/ RetryRun \/ NodeFails \/ GraphStep

Spec == Init /\ [][Next]_vars

\* Only the executor of a run in flight is fair; no user has to come back.
FairSpec == Spec /\ WF_vars(GraphStep)

-----------------------------------------------------------------------------
(* Properties *)

LastMessages == [type : {"none", "human", "ai", "tool"}, tool_calls : Seq(Calls)]

Locals == [at : Nat, attempts : 0..max_tool_retries, executed : Nat,
           feedback : 0..MaxTurns, errored : BOOLEAN]

\* Types, with the budgets as bounds: neither counter of the State ever leaves
\* its budget, whatever the model asks for (nodes.py:186-195, base_agent.py:325).
TypeOK ==
  /\ next \in Nodes
  /\ status \in {"stopped", "running", "paused"}
  /\ last \in LastMessages
  /\ tool_retry_attempts \in 0..max_tool_retries
  /\ tool_call_count \in 0..MAX_TOOL_CALLS
  /\ turn \in 0..MaxTurns
  /\ tool_feedback \in 0..MaxTurns
  /\ tool_feedback_history \subseteq 0..MaxTurns
  /\ local \in Locals
  /\ resumed \in BOOLEAN
  /\ effects \in Seq(Nat)
  /\ ran \in Nat
  /\ rounds \in 0..(RoundBound + 1)
  /\ failures \in 0..MaxFailures

\* Within one human turn no more than MAX_TOOL_CALLS tool calls ever run.  The
\* catastrophic path charges nothing for calls that did run, so this rests on
\* the retry counter it snaps closing the loop instead (nodes.py:72-76 and
\* 186-195, base_agent.py:389-400).
BudgetHeld == ran + Cardinality(Touched) <= MAX_TOOL_CALLS

\* LangGraph replays tool_node from the top on resume.  A call runs at most once
\* per start of the node that was not lost to a failure: pausing for a human
\* never makes a sibling run twice (base_agent.py:202-209).
AtMostOncePerAttempt == \A k \in DOMAIN effects : effects[k] <= failures + 1

\* What tool_node may hand to a tool as previous_errors, and the feedback it
\* starts from, are of the current human turn, also when an earlier turn failed,
\* crashed or was abandoned while paused (base_agent.py:429-437).
FeedbackOfThisTurn ==
  next = "tool_node" => /\ tool_feedback \in {0, turn}
                        /\ tool_feedback_history \subseteq {turn}

\* A step that applies an update of tool_node.
RoundEnds == status = "running" /\ next = "tool_node" /\ next' = "agent_node"

\* A tool round in which any call has an id either charges the call budget or,
\* at an unchanged charge, raises the retry counter: (tool_call_count,
\* tool_retry_attempts) grows lexicographically, even through rejected batches,
\* unknown tools and the catastrophic path, which charge no call.
RoundMakesProgress ==
  [][RoundEnds /\ (\E k \in DOMAIN last.tool_calls : last.tool_calls[k].hasId)
       => \/ tool_call_count' > tool_call_count
          \/ /\ tool_call_count' = tool_call_count
             /\ tool_retry_attempts' > tool_retry_attempts]_vars

\* The consequence of it for a whole turn: when every call has an id, a human
\* turn has at most RoundBound tool rounds, counting those a rejected batch or
\* an error made free of charge (nodes.py:72-76, "prevents runaway loops").
RoundsBounded == rounds <= RoundBound

\* A thread whose earlier turn ended in exhausted budgets, a crash or an
\* abandoned pause is not wedged: on the first answer to a new human message a
\* batch within the budget goes to the tools (nodes.py:106-109, state.py:9-11).
FreshTurnNotWedged ==
  [][last.type = "human" /\ last'.type = "ai" /\ MAX_TOOL_RETRIES > 0
       /\ Len(last'.tool_calls) \in 1..MAX_TOOL_CALLS
     => next' = "tool_node"]_vars

\* When every call has an id the graph implements TurnBudget, with the counters
\* as the next node will see them, after the per-turn reset.  Pauses, crashes,
\* restarts and single tool calls are stuttering steps: none of them gives a
\* turn a call or an attempt back (nodes.py:72-82, base_agent.py:406-445).
Budget == INSTANCE TurnBudget WITH
  node <- next,
  charged <- IF last.type = "human" THEN 0 ELSE tool_call_count,
  attempts <- IF last.type = "human" THEN 0 ELSE tool_retry_attempts,
  CallBudget <- MAX_TOOL_CALLS, AttemptBudget <- MAX_TOOL_RETRIES,
  MaxAttempts <- max_tool_retries

ImplementsTurnBudget == Budget!Spec

\* A run in flight ends or pauses (agent.py:46-47, nodes.py:72-76).
TurnEnds == status = "running" ~> status # "running"

\* tool_node charges exactly the calls that ran: "tool calls that *actually*
\* ran" (nodes.py:133-135).
ChargedByRealWork ==
  [][RoundEnds => tool_call_count' + ran = tool_call_count + ran']_vars

\* A non-retryable error short-circuits further attempts: a round that met one
\* leaves the retry budget exhausted (feedback.py:43-45).
NonRetryableExhausts ==
  [][RoundEnds /\ ~Refused(last.tool_calls)
       /\ (\E k \in DOMAIN last.tool_calls :
             last.tool_calls[k].hasId /\ last.tool_calls[k].name \notin Tools)
     => tool_retry_attempts' = max_tool_retries]_vars

=============================================================================
