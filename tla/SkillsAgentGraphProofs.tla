----------------------- MODULE SkillsAgentGraphProofs -----------------------
(***************************************************************************)
(* Proofs about SkillsAgentGraph, for every value of its constants: the    *)
(* control invariant; what a human turn may cost (Replays, Spending); why  *)
(* it cannot go on for ever (every tool round advances the pair of         *)
(* counters, whose value in base max_tool_retries + 1 counts the rounds);  *)
(* what a round is charged, what a turn inherits from earlier ones, and    *)
(* that the graph implements TurnBudget.                                   *)
(***************************************************************************)
EXTENDS SkillsAgentGraph, FiniteSetTheorems, TLAPS

\* The calls of the pending AIMessage.
Batch == last.tool_calls

\* Which node may be scheduled over which checkpoint, and where the loop is.
Control ==
  /\ (next # "tool_node" \/ status # "running") => local = Idle
  /\ last.type = "human" => next = "agent_node"
  /\ next = "tool_node" =>
       /\ last.type = "ai"
       /\ Len(Batch) > 0
       /\ tool_call_count + Len(Batch) <= MAX_TOOL_CALLS
       /\ tool_retry_attempts < MAX_TOOL_RETRIES
       /\ DOMAIN effects = DOMAIN Batch
       /\ local.at <= Len(Batch) + 1
       /\ local.executed <= local.at
       /\ local.at > 0 => local.executed < local.at /\ ~Refused(Batch)
  /\ status = "paused" => next = "tool_node"

ControlInv == TypeOK /\ Control

-----------------------------------------------------------------------------

\* A response is a sequence of calls.
LEMMA ResponsesAreSequences ==
  ASSUME NEW calls \in Responses
  PROVE  /\ calls \in Seq(Calls)
         /\ calls \in Seq(Emitted)
         /\ DOMAIN calls = 1..Len(calls)
         /\ [k \in DOMAIN calls |-> 0] \in Seq(Nat)
<1>1. PICK n \in 0..MaxBatch : calls \in [1..n -> Emitted]
  BY DEF Responses
<1>2. n \in Nat
  BY BudgetsAssumption
<1>3. calls \in Seq(Emitted) /\ Len(calls) = n
  BY <1>1, <1>2
<1>4. Emitted \subseteq Calls
  BY DEF Emitted
<1>5. calls \in Seq(Calls)
  BY <1>3, <1>4
<1>6. [k \in DOMAIN calls |-> 0] \in Seq(Nat)
  BY <1>1, <1>2
<1> QED
  BY <1>1, <1>2, <1>3, <1>5, <1>6

LEMMA RoundBoundIsNat == RoundBound \in Nat
  BY BudgetsAssumption DEF RoundBound

LEMMA InitControl == Init => ControlInv
<1> SUFFICES ASSUME Init PROVE ControlInv
  OBVIOUS
<1> USE BudgetsAssumption, RoundBoundIsNat DEF Init
<1>1. last \in LastMessages
  BY DEF LastMessages
<1>2. effects \in Seq(Nat)
  OBVIOUS
<1>3. local \in Locals
  BY DEF Idle, Locals
<1>4. resumed \in BOOLEAN
  OBVIOUS
<1>5. TypeOK
  BY <1>1, <1>2, <1>3, <1>4 DEF TypeOK, Nodes
<1>6. Control
  BY DEF Control
<1> QED
  BY <1>5, <1>6 DEF ControlInv

\* The attempts a round may leave behind are within the agent's budget.
LEMMA AttemptsBounded ==
  ASSUME NEW entry \in 0..max_tool_retries, NEW retryable \in BOOLEAN
  PROVE  /\ AttemptsAfterError(entry, retryable) \in 0..max_tool_retries
         /\ AttemptsAfterRefusal(entry) \in 0..max_tool_retries
         /\ AttemptsAfterFallback(entry) \in 0..max_tool_retries
<1>1. AttemptsAfterError(entry, retryable) \in {entry + 1, max_tool_retries}
  BY DEF AttemptsAfterError
<1>2. AttemptsAfterError(entry, retryable) # max_tool_retries => entry < max_tool_retries
  BY DEF AttemptsAfterError
<1> QED
  BY <1>1, <1>2, BudgetsAssumption
     DEF AttemptsAfterRefusal, AttemptsAfterFallback, LessOf

\* The touched part of a batch is a finite set, also with one more call.
LEMMA TouchedIsFinite ==
  ASSUME effects \in Seq(Nat), NEW k \in DOMAIN effects
  PROVE  /\ IsFiniteSet(Touched \cup {k}) /\ Touched \cup {k} \subseteq DOMAIN effects
         /\ Cardinality(Touched) \in Nat /\ Cardinality(Touched \cup {k}) \in Nat
<1>1. DOMAIN effects = 1..Len(effects) /\ Len(effects) \in Nat
  OBVIOUS
<1>2. IsFiniteSet(DOMAIN effects)
  BY <1>1, FS_Interval
<1>3. Touched \subseteq DOMAIN effects /\ Touched \cup {k} \subseteq DOMAIN effects
  BY DEF Touched
<1>4. IsFiniteSet(Touched) /\ IsFiniteSet(Touched \cup {k})
  BY <1>2, <1>3, FS_Subset
<1> QED
  BY <1>3, <1>4, FS_CardinalityType

LEMMA TouchedCardinality ==
  ASSUME ControlInv, InToolNode
  PROVE  Cardinality(Touched) \in Nat
<1>1. 1 \in DOMAIN effects
  BY DEF ControlInv, TypeOK, Control, InToolNode, Batch, LastMessages
<1> QED
  BY <1>1, TouchedIsFinite DEF ControlInv, TypeOK

LEMMA RunToolEffects ==
  ASSUME ControlInv, NEW tc, AtCall(tc), RunTool
  PROVE  effects' \in Seq(Nat) /\ DOMAIN effects' = DOMAIN effects
<1>1. effects \in Seq(Nat) /\ local.at \in DOMAIN effects
  BY DEF ControlInv, TypeOK, Control, AtCall, InToolNode, Batch
<1>2. effects' = [effects EXCEPT ![local.at] = effects[local.at] + 1]
  BY DEF RunTool
<1>3. effects[local.at] + 1 \in Nat
  BY <1>1
<1> QED
  BY <1>1, <1>2, <1>3

\* Applying an update of tool_node with counters in range.
LEMMA FinishControl ==
  ASSUME ControlInv, InToolNode,
         NEW touched, FinishToolNode(touched), Cardinality(touched) \in Nat,
         tool_retry_attempts' \in 0..max_tool_retries,
         tool_call_count' \in 0..MAX_TOOL_CALLS,
         tool_feedback' \in 0..MaxTurns,
         tool_feedback_history' \subseteq 0..MaxTurns
  PROVE  ControlInv'
<1>1. last' \in LastMessages /\ last'.type # "human"
  <2>1. last'.type # "human"
    BY DEF ControlInv, Control, InToolNode, FinishToolNode
  <2>2. last' \in LastMessages
    BY DEF ControlInv, TypeOK, FinishToolNode, LastMessages
  <2> QED
    BY <2>1, <2>2
<1>2. local' = Idle /\ Idle \in Locals
  BY BudgetsAssumption DEF FinishToolNode, Idle, Locals
<1>3. effects' \in Seq(Nat)
  BY DEF FinishToolNode
<1>4. resumed' \in BOOLEAN
  BY DEF FinishToolNode
<1>5. /\ next' = "agent_node" /\ status' = "running"
      /\ turn' \in 0..MaxTurns /\ failures' \in 0..MaxFailures
      /\ ran' \in Nat /\ rounds' \in 0..(RoundBound + 1)
  BY BudgetsAssumption, RoundBoundIsNat DEF ControlInv, TypeOK, InToolNode, FinishToolNode
<1>6. TypeOK'
  BY <1>1, <1>2, <1>3, <1>4, <1>5 DEF TypeOK, Nodes
<1>7. Control'
  BY <1>1, <1>2, <1>5 DEF Control
<1> QED
  BY <1>6, <1>7 DEF ControlInv

\* One call of the loop handled, with an attempts value in range.
LEMMA RecordControl ==
  ASSUME ControlInv, NEW tc, AtCall(tc),
         NEW error \in BOOLEAN, NEW didInvoke \in BOOLEAN,
         NEW attempts \in 0..max_tool_retries,
         Record(error, attempts, didInvoke),
         effects' \in Seq(Nat), DOMAIN effects' = DOMAIN effects
  PROVE  ControlInv'
<1>1. /\ local.at \in 1..Len(Batch) /\ local.at \in Nat /\ local.executed \in Nat
      /\ Len(Batch) \in Nat
  BY DEF ControlInv, TypeOK, AtCall, Locals, LastMessages, Batch
<1>2. local.errored \/ error \in BOOLEAN
  BY DEF ControlInv, TypeOK, Locals
<1>3. local' \in Locals
  BY <1>1, <1>2, SMTT(30) DEF ControlInv, TypeOK, Record, Locals
<1>4. /\ local'.at = local.at + 1
      /\ local'.executed \in {local.executed, local.executed + 1}
  BY DEF Record
<1>5. TypeOK'
  BY <1>3 DEF ControlInv, TypeOK, Record, checkpoint
<1>6. Control'
  <2>1. /\ next = "tool_node" /\ status = "running" /\ UNCHANGED <<next, status, last>>
        /\ UNCHANGED <<tool_call_count, tool_retry_attempts>>
    BY DEF Record, checkpoint, AtCall, InToolNode
  <2>2. Batch' = Batch /\ Refused(Batch') = Refused(Batch)
    BY <2>1 DEF Batch
  <2>3. /\ last.type = "ai" /\ Len(Batch) > 0
        /\ tool_call_count + Len(Batch) <= MAX_TOOL_CALLS
        /\ tool_retry_attempts < MAX_TOOL_RETRIES
        /\ DOMAIN effects' = DOMAIN Batch
        /\ local.executed < local.at /\ ~Refused(Batch)
    BY <1>1, <2>1 DEF ControlInv, Control
  <2>4. /\ local'.at <= Len(Batch) + 1 /\ local'.executed < local'.at
    BY <1>1, <1>4, <2>3
  <2>5. local'.executed <= local'.at
    BY <1>1, <1>4, <2>4
  <2>6. DOMAIN effects' = DOMAIN Batch' /\ ~Refused(Batch)'
    BY <2>1, <2>2, <2>3 DEF Refused, Batch
  <2> QED
    BY <2>1, <2>2, <2>3, <2>4, <2>5, <2>6 DEF Control, Batch
<1> QED
  BY <1>5, <1>6 DEF ControlInv

LEMMA NextControl == ControlInv /\ [Next]_vars => ControlInv'
<1> SUFFICES ASSUME ControlInv, [Next]_vars PROVE ControlInv'
  OBVIOUS
<1> USE BudgetsAssumption, RoundBoundIsNat DEF ControlInv
<1>0. Idle \in Locals
  BY DEF Idle, Locals
<1>1. CASE HumanTurn
  <2>1. last' \in LastMessages
    BY <1>1 DEF HumanTurn, LastMessages
  <2>2. effects' \in Seq(Nat)
    BY <1>1 DEF HumanTurn
  <2>3. resumed' \in BOOLEAN
    BY <1>1 DEF HumanTurn
  <2>4. TypeOK'
    BY <1>1, <2>1, <2>2, <2>3 DEF HumanTurn, TypeOK, Nodes
  <2>5. Control'
    BY <1>1 DEF HumanTurn, TypeOK, Control
  <2> QED
    BY <2>4, <2>5
<1>2. CASE ResumeInterrupt
  <2>1. TypeOK'
    BY <1>2 DEF ResumeInterrupt, checkpoint, ghosts, TypeOK
  <2>2. Control'
    BY <1>2 DEF ResumeInterrupt, checkpoint, ghosts, Control, Batch, Refused
  <2> QED
    BY <2>1, <2>2
<1>3. CASE RetryRun
  <2>1. TypeOK'
    BY <1>3 DEF RetryRun, checkpoint, ghosts, TypeOK
  <2>2. Control'
    BY <1>3 DEF RetryRun, checkpoint, ghosts, Control, Batch, Refused
  <2> QED
    BY <2>1, <2>2
<1>4. CASE NodeFails
  <2>1. TypeOK'
    BY <1>0, <1>4 DEF NodeFails, checkpoint, ghosts, TypeOK
  <2>2. Control'
    BY <1>4 DEF NodeFails, checkpoint, ghosts, TypeOK, Control, Batch, Refused, Idle
  <2> QED
    BY <2>1, <2>2
<1>5. CASE AgentNode
  <2> DEFINE isNew == last.type = "human"
  <2>1. PICK calls \in Responses :
        /\ last' = [type |-> "ai", tool_calls |-> calls]
        /\ tool_retry_attempts' = with_turn_reset(isNew, tool_retry_attempts, 0)
        /\ tool_call_count' = with_turn_reset(isNew, tool_call_count, 0)
        /\ tool_feedback' = with_turn_reset(isNew, tool_feedback, 0)
        /\ tool_feedback_history' = with_turn_reset(isNew, tool_feedback_history, {})
        /\ next' = should_continue(tool_call_count', tool_retry_attempts', calls)
        /\ status' = IF next' = "__end__" THEN "stopped" ELSE "running"
        /\ effects' = [k \in DOMAIN calls |-> 0]
    BY <1>5 DEF AgentNode
  <2>2. /\ status = "running" /\ next = "agent_node" /\ failures' = 0
        /\ local' = local /\ resumed' = resumed /\ turn' = turn
        /\ ran' = ran /\ rounds' = rounds
        /\ last'.type = "ai" /\ Batch' = calls
        /\ status' \in {"stopped", "running"}
    BY <1>5, <2>1 DEF AgentNode, Batch
  <2>3. last' \in LastMessages
    BY <2>1, ResponsesAreSequences DEF LastMessages
  <2>4. effects' \in Seq(Nat) /\ DOMAIN effects' = DOMAIN calls
    BY <2>1, ResponsesAreSequences
  <2>5. Len(calls) \in Nat /\ (calls # << >> => Len(calls) > 0)
    BY <2>1, ResponsesAreSequences
  <2>6. /\ next' \in Nodes
        /\ next' = "tool_node" => /\ calls # << >>
                                 /\ ~(tool_call_count' + Len(calls) > MAX_TOOL_CALLS)
                                 /\ ~(tool_retry_attempts' >= MAX_TOOL_RETRIES)
    BY <2>1 DEF should_continue, Nodes
  <2>7. /\ tool_retry_attempts' \in {tool_retry_attempts, 0}
        /\ tool_call_count' \in {tool_call_count, 0}
        /\ tool_feedback' \in {tool_feedback, 0}
        /\ tool_feedback_history' \in {tool_feedback_history, {}}
    BY <2>1, Zenon DEF with_turn_reset
  <2>8. TypeOK'
    BY <2>2, <2>3, <2>4, <2>6, <2>7 DEF TypeOK
  <2>9. local = Idle
    BY <2>2 DEF Control
  <2>99. next' # "__end__" => status' = "running"
    BY <2>1
  <2>10. CASE next' = "tool_node"
    <3>1. /\ tool_call_count' + Len(calls) <= MAX_TOOL_CALLS
          /\ tool_retry_attempts' < MAX_TOOL_RETRIES
      BY <2>5, <2>6, <2>8, <2>10, SMTT(30) DEF TypeOK
    <3> QED
      BY <2>2, <2>4, <2>5, <2>6, <2>8, <2>9, <2>10, <2>99, <3>1 DEF Control, Idle
  <2>11. CASE next' # "tool_node"
    BY <2>2, <2>8, <2>9, <2>11, <2>99 DEF Control
  <2> QED
    BY <2>10, <2>11
<1>6. CASE ErrorSummaryNode
  <2>1. last' \in LastMessages
    BY <1>6 DEF ErrorSummaryNode, LastMessages
  <2>2. effects' \in Seq(Nat) /\ next' \in Nodes
    BY <1>6 DEF ErrorSummaryNode, Nodes
  <2>3. TypeOK'
    BY <1>6, <2>1, <2>2 DEF ErrorSummaryNode, TypeOK
  <2>4. Control'
    BY <1>6 DEF ErrorSummaryNode, Control
  <2> QED
    BY <2>3, <2>4
<1>7. CASE RefuseBatch
  <2>1. /\ InToolNode /\ FinishToolNode(Touched)
        /\ tool_retry_attempts' = AttemptsAfterRefusal(tool_retry_attempts)
        /\ tool_feedback' = turn
        /\ tool_feedback_history' = tool_feedback_history \cup {turn}
        /\ tool_call_count' = tool_call_count
    BY <1>7 DEF RefuseBatch
  <2>2. Cardinality(Touched) \in Nat
    BY <2>1, TouchedCardinality
  <2>3. tool_retry_attempts' \in 0..max_tool_retries
    BY <2>1, AttemptsBounded DEF TypeOK
  <2>4. tool_feedback' \in 0..MaxTurns /\ tool_feedback_history' \subseteq 0..MaxTurns
    BY <2>1 DEF TypeOK
  <2>5. tool_call_count' \in 0..MAX_TOOL_CALLS
    BY <2>1 DEF TypeOK
  <2> QED
    BY <2>1, <2>2, <2>3, <2>4, <2>5, FinishControl
<1>8. CASE StartToolCalls
  <2>1. local' = [Idle EXCEPT !.at = 1, !.attempts = tool_retry_attempts]
    BY <1>8 DEF StartToolCalls
  <2>2. local' \in Locals /\ local'.at = 1 /\ local'.executed = 0
    BY <1>0, <2>1 DEF Locals, Idle, TypeOK
  <2>3. TypeOK'
    BY <1>8, <2>2 DEF StartToolCalls, checkpoint, ghosts, TypeOK
  <2>4. Len(Batch) \in Nat
    BY DEF TypeOK, LastMessages, Batch
  <2>5. Control'
    BY <1>8, <2>2, <2>4 DEF StartToolCalls, InToolNode, checkpoint, ghosts, Control, Batch, Refused
  <2> QED
    BY <2>3, <2>5
<1>9. CASE SkipCallWithoutId
  <2>1. PICK tc \in Calls : AtCall(tc)
    BY <1>9 DEF SkipCallWithoutId
  <2>2. /\ InToolNode /\ local.at \in Nat /\ local.at \in 1..Len(Batch)
        /\ Len(Batch) \in Nat /\ local.executed \in Nat
    BY <2>1 DEF TypeOK, AtCall, Locals, LastMessages, Batch
  <2>3. local' = [local EXCEPT !.at = local.at + 1]
    BY <1>9 DEF SkipCallWithoutId
  <2>4. local \in Locals
    BY DEF TypeOK
  <2>5. local' \in Locals /\ local'.at = local.at + 1 /\ local'.executed = local.executed
    BY <2>2, <2>3, <2>4, SMTT(30) DEF Locals
  <2>6. TypeOK'
    BY <1>9, <2>5 DEF SkipCallWithoutId, checkpoint, ghosts, TypeOK
  <2>7. Control'
    BY <1>9, <2>2, <2>5, SMTT(30)
       DEF SkipCallWithoutId, InToolNode, checkpoint, ghosts, Control, Batch, Refused
  <2> QED
    BY <2>6, <2>7
<1>10. CASE ToolNotFound
  <2>1. PICK tc \in Calls : AtCall(tc)
    BY <1>10 DEF ToolNotFound
  <2>2. /\ Record(TRUE, AttemptsAfterError(tool_retry_attempts, FALSE), FALSE)
        /\ effects' = effects
    BY <1>10 DEF ToolNotFound
  <2>3. AttemptsAfterError(tool_retry_attempts, FALSE) \in 0..max_tool_retries
    BY AttemptsBounded DEF TypeOK
  <2> QED
    BY <2>1, <2>2, <2>3, RecordControl DEF TypeOK
<1>11. CASE InjectionFails
  <2>1. PICK tc \in Calls : AtCall(tc)
    BY <1>11 DEF InjectionFails
  <2>2. /\ Record(TRUE, AttemptsAfterError(tool_retry_attempts, TRUE), FALSE)
        /\ effects' = effects
    BY <1>11 DEF InjectionFails
  <2>3. AttemptsAfterError(tool_retry_attempts, TRUE) \in 0..max_tool_retries
    BY AttemptsBounded DEF TypeOK
  <2> QED
    BY <2>1, <2>2, <2>3, RecordControl DEF TypeOK
<1>12. CASE ToolSucceeds
  <2>1. PICK tc \in Calls : AtCall(tc)
    BY <1>12 DEF ToolSucceeds
  <2>2. Record(FALSE, 0, TRUE) /\ RunTool
    BY <1>12 DEF ToolSucceeds
  <2>3. effects' \in Seq(Nat) /\ DOMAIN effects' = DOMAIN effects
    BY <2>1, <2>2, RunToolEffects
  <2>4. 0 \in 0..max_tool_retries
    OBVIOUS
  <2> QED
    BY <2>1, <2>2, <2>3, <2>4, RecordControl
<1>13. CASE ToolFails
  <2>1. PICK tc \in Calls, retryable \in BOOLEAN :
          /\ AtCall(tc)
          /\ Record(TRUE, AttemptsAfterError(tool_retry_attempts, retryable), TRUE)
    BY <1>13 DEF ToolFails
  <2>2. effects' \in Seq(Nat) /\ DOMAIN effects' = DOMAIN effects
    BY <1>13, <2>1, RunToolEffects DEF ToolFails
  <2>3. AttemptsAfterError(tool_retry_attempts, retryable) \in 0..max_tool_retries
    BY AttemptsBounded DEF TypeOK
  <2> QED
    BY <2>1, <2>2, <2>3, RecordControl
<1>14. CASE ToolInterrupts
  <2>1. /\ InToolNode /\ status' = "paused" /\ local' = Idle
        /\ UNCHANGED <<next, checkpoint, resumed, ghosts, failures>>
    BY <1>14 DEF ToolInterrupts, AtCall
  <2>2. TypeOK'
    BY <1>0, <2>1 DEF checkpoint, ghosts, TypeOK
  <2>3. Control'
    BY <2>1 DEF checkpoint, ghosts, InToolNode, TypeOK, Control, Batch, Refused, Idle
  <2> QED
    BY <2>2, <2>3
<1>15. CASE ToolReturnsEmpty
  <2>1. PICK tc \in Calls : AtCall(tc)
    BY <1>15 DEF ToolReturnsEmpty
  <2>2. /\ FinishToolNode(Touched \cup {local.at})
        /\ tool_retry_attempts' = AttemptsAfterFallback(tool_retry_attempts)
        /\ UNCHANGED <<tool_call_count, tool_feedback, tool_feedback_history>>
    BY <1>15 DEF ToolReturnsEmpty
  <2>3. Cardinality(Touched \cup {local.at}) \in Nat
    BY <2>1, TouchedIsFinite DEF AtCall, InToolNode, TypeOK, Control, Batch
  <2>4. tool_retry_attempts' \in 0..max_tool_retries
    BY <2>2, AttemptsBounded DEF TypeOK
  <2> QED
    BY <2>1, <2>2, <2>3, <2>4, FinishControl DEF AtCall, TypeOK
<1>16. CASE EndToolCalls
  <2>1. /\ InToolNode /\ local.at = Len(Batch) + 1 /\ FinishToolNode(Touched)
        /\ tool_retry_attempts' = local.attempts
        /\ tool_call_count' = tool_call_count + local.executed
        /\ tool_feedback' = local.feedback
        /\ tool_feedback_history' =
             tool_feedback_history \cup (IF local.errored THEN {turn} ELSE {})
    BY <1>16 DEF EndToolCalls, Charge, Batch
  <2>2. Cardinality(Touched) \in Nat
    BY <2>1, TouchedCardinality
  <2>3. tool_retry_attempts' \in 0..max_tool_retries /\ tool_feedback' \in 0..MaxTurns
    BY <2>1 DEF TypeOK, Locals
  <2>4. tool_feedback_history' \subseteq 0..MaxTurns
    BY <2>1 DEF TypeOK
  <2>5. tool_call_count' \in 0..MAX_TOOL_CALLS
    <3>1. Len(Batch) \in Nat /\ local.executed \in Nat /\ tool_call_count \in Nat
      BY DEF TypeOK, LastMessages, Locals, Batch
    <3>2. local.executed <= Len(Batch) /\ tool_call_count + Len(Batch) <= MAX_TOOL_CALLS
      BY <2>1, <3>1 DEF Control, InToolNode
    <3> QED
      BY <2>1, <3>1, <3>2
  <2> QED
    BY <2>1, <2>2, <2>3, <2>4, <2>5, FinishControl
<1>17. CASE UNCHANGED vars
  BY <1>17 DEF vars, checkpoint, ghosts, TypeOK, Control, Batch, Refused
<1> QED
  BY <1>1, <1>2, <1>3, <1>4, <1>5, <1>6, <1>7, <1>8, <1>9, <1>10, <1>11, <1>12, <1>13,
     <1>14, <1>15, <1>16, <1>17 DEF Next, GraphStep, ToolNode

\* The State of the graph keeps its types and both counters their budgets, and a
\* node is only ever scheduled over a checkpoint it can run from: the early
\* return of tool_node (nodes.py:141-143) is never taken.
THEOREM TypeCorrect == Spec => []TypeOK
<1>1. Init => ControlInv
  BY InitControl
<1>2. ControlInv /\ [Next]_vars => ControlInv'
  BY NextControl
<1>3. ControlInv => TypeOK
  BY DEF ControlInv
<1> QED
  BY <1>1, <1>2, <1>3, PTL DEF Spec

-----------------------------------------------------------------------------
(* Replays: how often a call of the pending batch may have run *)

\* A call the loop has not reached since the node started has run at most once
\* per failure.  A batch that is refused was never started.
Replays ==
  /\ next # "tool_node" => \A k \in DOMAIN effects : effects[k] = 0
  /\ \A k \in DOMAIN effects : effects[k] <= failures + 1
  /\ \A k \in DOMAIN effects : k >= local.at => effects[k] <= failures
  /\ next = "tool_node" => \A k \in DOMAIN effects :
       effects[k] > 0 => Invokes(Batch[k]) /\ ~Refused(Batch)

\* Types of the variables the following proofs compute with.
LEMMA TypesInToolNode ==
  ASSUME ControlInv
  PROVE  /\ effects \in Seq(Nat) /\ DOMAIN effects = 1..Len(effects)
         /\ \A k \in DOMAIN effects : effects[k] \in Nat
         /\ Batch \in Seq(Calls) /\ DOMAIN Batch = 1..Len(Batch) /\ Len(Batch) \in Nat
         /\ local.at \in Nat /\ local.executed \in Nat
         /\ local.attempts \in 0..max_tool_retries
         /\ tool_retry_attempts \in 0..max_tool_retries
         /\ tool_call_count \in Nat /\ failures \in Nat /\ ran \in Nat /\ rounds \in Nat
  BY RoundBoundIsNat, BudgetsAssumption
     DEF ControlInv, TypeOK, LastMessages, Locals, Batch

LEMMA FinishReplays ==
  ASSUME NEW touched, FinishToolNode(touched)
  PROVE  Replays'
  BY DEF FinishToolNode, Replays

\* A call handled without running a tool.
LEMMA RecordReplays ==
  ASSUME ControlInv, Replays, NEW tc, AtCall(tc), NEW error, NEW attempts, NEW didInvoke,
         Record(error, attempts, didInvoke), effects' = effects
  PROVE  Replays'
<1>1. local'.at = local.at + 1 /\ local.at \in Nat
  BY TypesInToolNode DEF Record
<1>2. UNCHANGED <<next, last, failures>>
  BY DEF Record, checkpoint
<1> QED
  BY <1>1, <1>2, TypesInToolNode, SMTT(30) DEF Replays, Batch, Refused

\* A call handled by running a tool.
LEMMA InvokeReplays ==
  ASSUME ControlInv, Replays, NEW tc, AtCall(tc), Invokes(tc),
         NEW error, NEW attempts, NEW didInvoke,
         Record(error, attempts, didInvoke), RunTool
  PROVE  Replays'
<1>1. local'.at = local.at + 1 /\ local.at \in Nat
  BY TypesInToolNode DEF Record
<1>2. UNCHANGED <<next, last, failures>>
  BY DEF Record, checkpoint
<1>3. /\ next = "tool_node" /\ tc = Batch[local.at] /\ local.at > 0 /\ ~Refused(Batch)
      /\ local.at \in DOMAIN effects
  BY TypesInToolNode, SMTT(30) DEF AtCall, InToolNode, Batch, ControlInv, Control
<1>4. effects' = [effects EXCEPT ![local.at] = effects[local.at] + 1]
  BY DEF RunTool
<1>5. ASSUME NEW k \in DOMAIN effects'
      PROVE  effects'[k] <= failures + 1 /\ (k >= local.at + 1 => effects'[k] <= failures)
  <2>1. k \in DOMAIN effects /\ k \in Nat /\ effects[k] \in Nat
    BY <1>4, TypesInToolNode
  <2>2. CASE k = local.at
    <3>1. effects'[k] = effects[k] + 1 /\ effects[k] <= failures
      BY <1>1, <1>4, <2>1, <2>2 DEF Replays
    <3>2. effects'[k] <= failures + 1
      BY <2>1, <3>1, TypesInToolNode
    <3>3. ~(k >= local.at + 1)
      BY <1>1, <2>2
    <3> QED
      BY <3>2, <3>3
  <2>3. CASE k # local.at
    <3>1. effects'[k] = effects[k]
      BY <1>4, <2>1, <2>3
    <3> QED
      BY <1>1, <2>1, <2>3, <3>1, TypesInToolNode, SMTT(30) DEF Replays
  <2> QED
    BY <2>2, <2>3
<1>6. ASSUME NEW k \in DOMAIN effects', effects'[k] > 0
      PROVE  Invokes(Batch[k])
  <2>1. CASE k = local.at
    BY <1>3, <2>1
  <2>2. CASE k # local.at
    BY <1>3, <1>4, <1>6, <2>2 DEF Replays
  <2> QED
    BY <2>1, <2>2
<1> QED
  BY <1>1, <1>2, <1>3, <1>5, <1>6 DEF Replays, Batch, Refused

LEMMA InitReplays == Init => Replays
  BY DEF Init, Replays, Idle

LEMMA NextReplays == ControlInv /\ Replays /\ [Next]_vars => Replays'
<1> SUFFICES ASSUME ControlInv, Replays, [Next]_vars PROVE Replays'
  OBVIOUS
<1>1. CASE HumanTurn
  BY <1>1 DEF HumanTurn, Replays
<1>2. CASE ResumeInterrupt
  BY <1>2 DEF ResumeInterrupt, checkpoint, ghosts, Replays, Batch, Refused
<1>3. CASE RetryRun
  BY <1>3 DEF RetryRun, checkpoint, ghosts, Replays, Batch, Refused
<1>4. CASE NodeFails
  <2>1. /\ failures' = failures + 1 /\ UNCHANGED <<next, last, effects>>
    BY <1>4 DEF NodeFails, checkpoint, ghosts
  <2>2. \A k \in DOMAIN effects : effects[k] <= failures' /\ effects[k] <= failures' + 1
    BY <2>1, TypesInToolNode DEF Replays
  <2> QED
    BY <2>1, <2>2 DEF Replays, Batch, Refused
<1>5. CASE AgentNode
  <2>1. \A k \in DOMAIN effects' : effects'[k] = 0
    BY <1>5 DEF AgentNode
  <2>2. failures' = 0
    BY <1>5 DEF AgentNode
  <2> QED
    BY <2>1, <2>2 DEF Replays
<1>6. CASE ErrorSummaryNode
  BY <1>6 DEF ErrorSummaryNode, Replays
<1>7. CASE RefuseBatch
  BY <1>7, FinishReplays DEF RefuseBatch
<1>8. CASE StartToolCalls
  <2>1. local = Idle /\ local'.at = 1
    BY <1>8 DEF StartToolCalls, Idle
  <2>2. \A k \in DOMAIN effects : effects[k] <= failures
    BY <2>1, TypesInToolNode DEF Replays, Idle
  <2> QED
    BY <1>8, <2>1, <2>2 DEF StartToolCalls, checkpoint, ghosts, Replays, Batch, Refused
<1>9. CASE SkipCallWithoutId
  <2>1. local'.at = local.at + 1
    BY <1>9 DEF SkipCallWithoutId, ControlInv, TypeOK, Locals
  <2> QED
    BY <1>9, <2>1, TypesInToolNode
       DEF SkipCallWithoutId, checkpoint, ghosts, Replays, Batch, Refused
<1>10. CASE ToolNotFound
  BY <1>10, RecordReplays DEF ToolNotFound
<1>11. CASE InjectionFails
  BY <1>11, RecordReplays DEF InjectionFails
<1>12. CASE ToolSucceeds
  BY <1>12, InvokeReplays DEF ToolSucceeds
<1>13. CASE ToolFails
  BY <1>13, InvokeReplays DEF ToolFails
<1>14. CASE ToolInterrupts
  <2>1. PICK tc \in Calls : AtCall(tc) /\ tc.name \in Interrupts
    BY <1>14 DEF ToolInterrupts
  <2>2. /\ InToolNode /\ local.at \in DOMAIN Batch /\ Batch[local.at] = tc
    BY <2>1 DEF AtCall, Batch
  <2>3. Batch[local.at].name \in Pausing
    BY <2>1, <2>2, PausingIsDeclared
  <2>4. ~Refused(Batch) /\ DOMAIN effects = DOMAIN Batch
    BY <2>2, TypesInToolNode, SMTT(30) DEF InToolNode, ControlInv, Control
  <2>5. Len(Batch) = 1 /\ local.at = 1
    BY <2>2, <2>3, <2>4, TypesInToolNode, SMTT(30) DEF Refused
  <2>6. \A k \in DOMAIN effects : effects[k] <= failures
    BY <2>4, <2>5, TypesInToolNode DEF Replays
  <2> QED
    BY <1>14, <2>6 DEF ToolInterrupts, checkpoint, ghosts, Replays, Batch, Refused
<1>15. CASE ToolReturnsEmpty
  BY <1>15, FinishReplays DEF ToolReturnsEmpty
<1>16. CASE EndToolCalls
  BY <1>16, FinishReplays DEF EndToolCalls
<1>17. CASE UNCHANGED vars
  BY <1>17 DEF vars, checkpoint, ghosts, Replays, Batch, Refused
<1> QED
  BY <1>1, <1>2, <1>3, <1>4, <1>5, <1>6, <1>7, <1>8, <1>9, <1>10, <1>11, <1>12, <1>13,
     <1>14, <1>15, <1>16, <1>17 DEF Next, GraphStep, ToolNode

\* No call of a batch runs more often than the node was started and lost: a
\* pause for a human duplicates nothing, because the interrupting call, being
\* declared as pausing, is alone in its batch.
THEOREM NothingRunsTwice == Spec => []AtMostOncePerAttempt
<1>1. Init => ControlInv /\ Replays
  BY InitControl, InitReplays
<1>2. ControlInv /\ Replays /\ [Next]_vars => (ControlInv /\ Replays)'
  BY NextControl, NextReplays
<1>3. Replays => AtMostOncePerAttempt
  BY DEF Replays, AtMostOncePerAttempt
<1> QED
  BY <1>1, <1>2, <1>3, PTL DEF Spec

-----------------------------------------------------------------------------
(* Spending: what the charged budget says about the calls that ran *)

\* The calls among the first n of the batch that reach a tool.
InvokedUpTo(n) == {k \in 1..n : Invokes(Batch[k])}

\* Outside a human turn's first step, what ran is charged, or the retry counter
\* is exhausted and no further batch reaches the tools.
Spending ==
  /\ ran <= MAX_TOOL_CALLS
  /\ last.type = "human" => ran = 0
  /\ next = "tool_node" => ran <= tool_call_count
  /\ next = "agent_node" /\ last.type # "human" =>
       ran <= tool_call_count \/ tool_retry_attempts >= MAX_TOOL_RETRIES
  /\ next = "tool_node" /\ local.at > 0 =>
       /\ local.executed = Cardinality(InvokedUpTo(local.at - 1))
       /\ \A k \in InvokedUpTo(local.at - 1) : effects[k] > 0

LEMMA InvokedUpToNext ==
  ASSUME NEW n \in Nat
  PROVE  /\ IsFiniteSet(InvokedUpTo(n)) /\ Cardinality(InvokedUpTo(n)) \in Nat
         /\ Invokes(Batch[n + 1]) =>
              /\ InvokedUpTo(n + 1) = InvokedUpTo(n) \cup {n + 1}
              /\ Cardinality(InvokedUpTo(n + 1)) = Cardinality(InvokedUpTo(n)) + 1
         /\ ~Invokes(Batch[n + 1]) => InvokedUpTo(n + 1) = InvokedUpTo(n)
<1>1. IsFiniteSet(InvokedUpTo(n))
  <2>1. IsFiniteSet(1..n)
    BY FS_Interval
  <2>2. InvokedUpTo(n) \subseteq 1..n
    BY DEF InvokedUpTo
  <2> QED
    BY <2>1, <2>2, FS_Subset
<1>2. n + 1 \notin InvokedUpTo(n)
  BY DEF InvokedUpTo
<1>3. 1..(n + 1) = 1..n \cup {n + 1}
  OBVIOUS
<1>4. Invokes(Batch[n + 1]) => InvokedUpTo(n + 1) = InvokedUpTo(n) \cup {n + 1}
  BY <1>3, Zenon DEF InvokedUpTo
<1>5. ~Invokes(Batch[n + 1]) => InvokedUpTo(n + 1) = InvokedUpTo(n)
  BY <1>3, Zenon DEF InvokedUpTo
<1>6. Cardinality(InvokedUpTo(n) \cup {n + 1}) = Cardinality(InvokedUpTo(n)) + 1
  BY <1>1, <1>2, FS_AddElement
<1> QED
  BY <1>1, <1>4, <1>5, <1>6, FS_CardinalityType

\* The touched calls of a pending batch are no more than the batch has calls.
LEMMA TouchedFitsBatch ==
  ASSUME ControlInv, next = "tool_node", NEW k \in DOMAIN Batch
  PROVE  /\ Cardinality(Touched \cup {k}) <= Len(Batch) /\ Cardinality(Touched) <= Len(Batch)
         /\ Cardinality(Touched \cup {k}) \in Nat /\ Cardinality(Touched) \in Nat
<1>1. DOMAIN effects = 1..Len(Batch) /\ Len(Batch) \in Nat
  BY TypesInToolNode DEF ControlInv, Control
<1>2. IsFiniteSet(1..Len(Batch)) /\ Cardinality(1..Len(Batch)) = Len(Batch)
  <2>1. Cardinality(1..Len(Batch)) = IF 1 > Len(Batch) THEN 0 ELSE Len(Batch) - 1 + 1
    BY <1>1, FS_Interval
  <2>2. IsFiniteSet(1..Len(Batch))
    BY <1>1, FS_Interval
  <2> QED
    BY <1>1, <2>1, <2>2
<1>3. Touched \subseteq 1..Len(Batch) /\ Touched \cup {k} \subseteq 1..Len(Batch)
  BY <1>1, TypesInToolNode DEF Touched
<1>4. /\ IsFiniteSet(Touched) /\ Cardinality(Touched) <= Len(Batch)
      /\ IsFiniteSet(Touched \cup {k}) /\ Cardinality(Touched \cup {k}) <= Len(Batch)
  BY <1>2, <1>3, FS_Subset
<1> QED
  BY <1>4, FS_CardinalityType

LEMMA TouchedFitsPending ==
  ASSUME ControlInv, next = "tool_node"
  PROVE  Cardinality(Touched) <= Len(Batch) /\ Cardinality(Touched) \in Nat
<1>1. 1 \in DOMAIN Batch
  BY TypesInToolNode DEF ControlInv, Control
<1> QED
  BY <1>1, TouchedFitsBatch

\* At the end of the loop every touched call is among the executed ones.
LEMMA ChargedByExecuted ==
  ASSUME ControlInv, Replays, Spending, next = "tool_node", local.at = Len(Batch) + 1
  PROVE  /\ Touched = InvokedUpTo(Len(Batch))
         /\ local.executed = Cardinality(Touched) /\ Cardinality(Touched) \in Nat
<1>1. /\ Len(Batch) \in Nat /\ local.at > 0 /\ local.at - 1 = Len(Batch)
      /\ DOMAIN effects = 1..Len(Batch)
  BY TypesInToolNode DEF ControlInv, Control
<1>2. /\ local.executed = Cardinality(InvokedUpTo(Len(Batch)))
      /\ \A k \in InvokedUpTo(Len(Batch)) : effects[k] > 0
  BY <1>1 DEF Spending
<1>3. Touched = InvokedUpTo(Len(Batch))
  BY <1>1, <1>2 DEF Touched, InvokedUpTo, Replays
<1> QED
  BY <1>1, <1>2, <1>3, InvokedUpToNext

\* One call of the loop handled.
LEMMA LoopSpending ==
  ASSUME ControlInv, Spending, NEW tc, AtCall(tc),
         next' = next, last' = last, tool_call_count' = tool_call_count, ran' = ran,
         tool_retry_attempts' = tool_retry_attempts,
         local'.at = local.at + 1,
         Invokes(tc) => /\ local'.executed = local.executed + 1
                        /\ effects' = [effects EXCEPT ![local.at] = @ + 1],
         ~Invokes(tc) => local'.executed = local.executed /\ effects' = effects
  PROVE  Spending'
<1>1. /\ InToolNode /\ next = "tool_node" /\ tc = Batch[local.at]
      /\ local.at \in 1..Len(Batch) /\ DOMAIN effects = DOMAIN Batch
  BY TypesInToolNode DEF AtCall, InToolNode, Batch, ControlInv, Control
<1>2. PICK n \in Nat : local.at = n + 1
  <2>1. local.at \in Nat /\ local.at > 0
    BY <1>1, TypesInToolNode
  <2>2. local.at - 1 \in Nat /\ local.at = (local.at - 1) + 1
    BY <2>1
  <2> QED
    BY <2>2
<1>3. /\ local.executed = Cardinality(InvokedUpTo(n))
      /\ \A k \in InvokedUpTo(n) : effects[k] > 0
  <2>1. local.at - 1 = n /\ local.at > 0
    BY <1>2
  <2> QED
    BY <1>1, <2>1 DEF Spending
<1>4. local'.at - 1 = n + 1 /\ local.at - 1 = n
  BY <1>2
<1>5. local'.executed = Cardinality(InvokedUpTo(n + 1))
  <2>1. CASE Invokes(tc)
    BY <1>1, <1>2, <1>3, <2>1, InvokedUpToNext
  <2>2. CASE ~Invokes(tc)
    BY <1>1, <1>2, <1>3, <2>2, InvokedUpToNext
  <2> QED
    BY <2>1, <2>2
<1>6. ASSUME NEW k \in InvokedUpTo(n + 1) PROVE effects'[k] > 0
  <2>1. k \in DOMAIN effects /\ k \in 1..(n + 1) /\ Invokes(Batch[k])
    BY <1>1, <1>2, TypesInToolNode DEF InvokedUpTo
  <2>2. CASE k = local.at
    <3>1. effects'[k] = effects[k] + 1
      BY <1>1, <2>1, <2>2
    <3> QED
      BY <2>1, <3>1, TypesInToolNode
  <2>3. CASE k # local.at
    <3>1. k \in InvokedUpTo(n)
      BY <1>2, <2>1, <2>3 DEF InvokedUpTo
    <3>2. effects'[k] = effects[k]
      BY <2>1, <2>3
    <3> QED
      BY <1>3, <3>1, <3>2
  <2> QED
    BY <2>2, <2>3
<1>7. InvokedUpTo(local.at - 1)' = InvokedUpTo(n + 1)
  BY <1>4 DEF InvokedUpTo, Batch
<1>8. /\ local'.executed = Cardinality(InvokedUpTo(local.at - 1)')
      /\ \A k \in InvokedUpTo(local.at - 1)' : effects'[k] > 0
  BY <1>5, <1>6, <1>7
<1> QED
  BY <1>1, <1>8 DEF Spending

LEMMA InitSpending == Init => Spending
  BY BudgetsAssumption DEF Init, Spending

LEMMA NextSpending == ControlInv /\ Replays /\ Spending /\ [Next]_vars => Spending'
<1> SUFFICES ASSUME ControlInv, Replays, Spending, [Next]_vars PROVE Spending'
  OBVIOUS
<1>1. CASE HumanTurn
  BY <1>1, BudgetsAssumption DEF HumanTurn, Spending
<1>2. CASE ResumeInterrupt
  BY <1>2 DEF ResumeInterrupt, checkpoint, ghosts, Spending, InvokedUpTo, Batch
<1>3. CASE RetryRun
  BY <1>3 DEF RetryRun, checkpoint, ghosts, Spending, InvokedUpTo, Batch
<1>4. CASE NodeFails
  BY <1>4 DEF NodeFails, Idle, checkpoint, ghosts, Spending
<1>5. CASE AgentNode
  <2>1. /\ next = "agent_node" /\ last'.type = "ai" /\ ran' = ran /\ local' = local
        /\ status = "running"
    BY <1>5 DEF AgentNode
  <2>2. next' = "tool_node" => ~(tool_retry_attempts' >= MAX_TOOL_RETRIES)
    BY <1>5 DEF AgentNode, should_continue
  <2>3. next' # "agent_node"
    BY <1>5 DEF AgentNode, should_continue
  <2>4. local'.at = 0
    BY <2>1 DEF ControlInv, Control, Idle
  <2>5. last.type # "human" =>
          tool_call_count' = tool_call_count /\ tool_retry_attempts' = tool_retry_attempts
    BY <1>5, Zenon DEF AgentNode, with_turn_reset
  <2>6. last.type = "human" => ran = 0
    BY DEF Spending
  <2>7. tool_call_count' \in Nat /\ tool_retry_attempts' \in Nat
    BY <1>5, NextControl, BudgetsAssumption DEF Next, GraphStep, ControlInv, TypeOK
  <2>8. next' = "tool_node" => ran' <= tool_call_count'
    BY <2>1, <2>2, <2>5, <2>6, <2>7 DEF Spending
  <2> QED
    BY <2>1, <2>3, <2>4, <2>8 DEF Spending
<1>6. CASE ErrorSummaryNode
  BY <1>6 DEF ErrorSummaryNode, Spending
<1>7. CASE RefuseBatch
  <2>1. InToolNode /\ next = "tool_node" /\ Refused(Batch) /\ FinishToolNode(Touched)
    BY <1>7 DEF RefuseBatch, InToolNode, Batch
  <2>2. Touched = {}
    BY <2>1 DEF Replays, Touched
  <2>3. ran' = ran /\ tool_call_count' = tool_call_count /\ next' = "agent_node"
    BY <1>7, <2>2, FS_EmptySet, TypesInToolNode DEF RefuseBatch, FinishToolNode
  <2>4. last'.type # "human"
    BY <2>1 DEF FinishToolNode, ControlInv, Control
  <2> QED
    BY <2>1, <2>3, <2>4 DEF Spending
<1>8. CASE StartToolCalls
  <2>1. InvokedUpTo(0) = {}
    BY DEF InvokedUpTo
  <2>2. local'.at = 1 /\ local'.executed = 0 /\ Batch' = Batch
    BY <1>8 DEF StartToolCalls, Idle, checkpoint, Batch
  <2>3. (InvokedUpTo(local.at - 1))' = {}
    BY <2>1, <2>2 DEF InvokedUpTo
  <2> QED
    BY <1>8, <2>2, <2>3, FS_EmptySet DEF StartToolCalls, checkpoint, ghosts, Spending
<1>9. CASE SkipCallWithoutId
  <2>1. PICK tc \in Calls : AtCall(tc) /\ ~tc.hasId
    BY <1>9 DEF SkipCallWithoutId
  <2>2. local'.at = local.at + 1 /\ local'.executed = local.executed
    BY <1>9 DEF SkipCallWithoutId, ControlInv, TypeOK, Locals
  <2> QED
    BY <1>9, <2>1, <2>2, LoopSpending DEF SkipCallWithoutId, checkpoint, ghosts, Invokes
<1>10. CASE ToolNotFound
  <2>1. PICK tc \in Calls : AtCall(tc) /\ tc.name \notin Tools
    BY <1>10 DEF ToolNotFound
  <2> QED
    BY <1>10, <2>1, LoopSpending DEF ToolNotFound, Record, checkpoint, Invokes
<1>11. CASE InjectionFails
  <2>1. PICK tc \in Calls : AtCall(tc) /\ tc.name \in Uninjectable
    BY <1>11 DEF InjectionFails
  <2> QED
    BY <1>11, <2>1, LoopSpending DEF InjectionFails, Record, checkpoint, Invokes
<1>12. CASE ToolSucceeds
  <2>1. PICK tc \in Calls : AtCall(tc) /\ Invokes(tc)
    BY <1>12 DEF ToolSucceeds
  <2> QED
    BY <1>12, <2>1, LoopSpending DEF ToolSucceeds, Record, RunTool, checkpoint
<1>13. CASE ToolFails
  <2>1. PICK tc \in Calls, retryable \in BOOLEAN :
          /\ AtCall(tc) /\ Invokes(tc)
          /\ Record(TRUE, AttemptsAfterError(tool_retry_attempts, retryable), TRUE)
    BY <1>13 DEF ToolFails
  <2>2. RunTool
    BY <1>13 DEF ToolFails
  <2> QED
    BY <2>1, <2>2, LoopSpending DEF Record, RunTool, checkpoint
<1>14. CASE ToolInterrupts
  BY <1>14 DEF ToolInterrupts, Idle, checkpoint, ghosts, Spending
<1>15. CASE ToolReturnsEmpty
  <2>1. PICK tc \in Calls : AtCall(tc)
    BY <1>15 DEF ToolReturnsEmpty
  <2>2. InToolNode /\ next = "tool_node" /\ local.at \in DOMAIN Batch
    BY <2>1 DEF AtCall, InToolNode, Batch
  <2>3. /\ FinishToolNode(Touched \cup {local.at})
        /\ tool_retry_attempts' = max_tool_retries
        /\ tool_call_count' = tool_call_count
    BY <1>15 DEF ToolReturnsEmpty, AttemptsAfterFallback
  <2>4. next' = "agent_node" /\ ran' = ran + Cardinality(Touched \cup {local.at})
    BY <2>3 DEF FinishToolNode
  <2>5. ran' <= MAX_TOOL_CALLS
    <3>1. /\ Cardinality(Touched \cup {local.at}) \in Nat
          /\ Cardinality(Touched \cup {local.at}) <= Len(Batch)
      BY <2>2, TouchedFitsBatch
    <3>2. ran <= tool_call_count /\ tool_call_count + Len(Batch) <= MAX_TOOL_CALLS
      BY <2>2 DEF Spending, ControlInv, Control
    <3> QED
      BY <2>4, <3>1, <3>2, TypesInToolNode, BudgetsAssumption
  <2>6. tool_retry_attempts' >= MAX_TOOL_RETRIES
    BY <2>3, RetryBudgetsAgree, BudgetsAssumption
  <2>7. last'.type # "human"
    BY <2>2, <2>3 DEF FinishToolNode, ControlInv, Control
  <2> QED
    BY <2>4, <2>5, <2>6, <2>7 DEF Spending
<1>16. CASE EndToolCalls
  <2>1. /\ InToolNode /\ next = "tool_node" /\ local.at = Len(Batch) + 1
        /\ FinishToolNode(Touched)
        /\ tool_call_count' = tool_call_count + local.executed
    BY <1>16 DEF EndToolCalls, Charge, InToolNode, Batch
  <2>2. Cardinality(Touched) <= local.executed /\ Cardinality(Touched) \in Nat
    BY <2>1, ChargedByExecuted, TypesInToolNode
  <2>3. ran' = ran + Cardinality(Touched) /\ next' = "agent_node" /\ last'.type # "human"
    BY <2>1 DEF FinishToolNode, ControlInv, Control
  <2>4. ran' <= tool_call_count'
    BY <2>1, <2>2, <2>3, TypesInToolNode, SMTT(30) DEF Spending
  <2>5. tool_call_count' <= MAX_TOOL_CALLS /\ tool_call_count' \in Nat /\ ran' \in Nat
    BY <1>16, NextControl, BudgetsAssumption DEF Next, GraphStep, ToolNode, ControlInv, TypeOK
  <2>6. ran' <= MAX_TOOL_CALLS
    BY <2>4, <2>5, BudgetsAssumption
  <2> QED
    BY <2>3, <2>4, <2>6 DEF Spending
<1>17. CASE UNCHANGED vars
  BY <1>17 DEF vars, checkpoint, ghosts, Spending, InvokedUpTo, Batch
<1> QED
  BY <1>1, <1>2, <1>3, <1>4, <1>5, <1>6, <1>7, <1>8, <1>9, <1>10, <1>11, <1>12, <1>13,
     <1>14, <1>15, <1>16, <1>17 DEF Next, GraphStep, ToolNode

\* However the tools and the model behave, and whatever is lost and replayed, a
\* human turn runs at most MAX_TOOL_CALLS distinct tool calls.
THEOREM BudgetIsHeld == Spec => []BudgetHeld
<1>1. Init => ControlInv /\ Replays /\ Spending
  BY InitControl, InitReplays, InitSpending
<1>2. ControlInv /\ Replays /\ Spending /\ [Next]_vars => (ControlInv /\ Replays /\ Spending)'
  BY NextControl, NextReplays, NextSpending
<1>3. ControlInv /\ Replays /\ Spending => BudgetHeld
  <2> SUFFICES ASSUME ControlInv, Replays, Spending PROVE BudgetHeld
    OBVIOUS
  <2>1. CASE next = "tool_node"
    <3>1. Cardinality(Touched) <= Len(Batch) /\ Cardinality(Touched) \in Nat
      BY <2>1, TouchedFitsPending
    <3> QED
      BY <2>1, <3>1, TypesInToolNode, BudgetsAssumption
         DEF BudgetHeld, Spending, ControlInv, Control
  <2>2. CASE next # "tool_node"
    <3>1. Touched = {}
      BY <2>2 DEF Replays, Touched
    <3> QED
      BY <3>1, FS_EmptySet, TypesInToolNode DEF BudgetHeld, Spending
  <2> QED
    BY <2>1, <2>2
<1> QED
  BY <1>1, <1>2, <1>3, PTL DEF Spec

-----------------------------------------------------------------------------
(* Progress of one round *)

\* Once the loop has handled a call with an id, the round is charged for a tool
\* it ran or ends with more attempts than it started from.
LoopProgress ==
  next = "tool_node" /\ (\E k \in DOMAIN Batch : k < local.at /\ Batch[k].hasId) =>
    local.executed > 0 \/ local.attempts > tool_retry_attempts

\* Below the budget of the router every error raises the counter.
LEMMA ErrorsAdvance ==
  ASSUME ControlInv, next = "tool_node", NEW retryable \in BOOLEAN
  PROVE  /\ AttemptsAfterError(tool_retry_attempts, retryable) > tool_retry_attempts
         /\ AttemptsAfterRefusal(tool_retry_attempts) > tool_retry_attempts
         /\ AttemptsAfterFallback(tool_retry_attempts) > tool_retry_attempts
<1>1. tool_retry_attempts \in Nat /\ tool_retry_attempts < max_tool_retries
  BY TypesInToolNode, BudgetsAssumption, RetryBudgetsAgree DEF ControlInv, Control
<1>2. AttemptsAfterError(tool_retry_attempts, retryable)
        \in {tool_retry_attempts + 1, max_tool_retries}
  BY DEF AttemptsAfterError
<1> QED
  BY <1>1, <1>2, BudgetsAssumption DEF AttemptsAfterRefusal, AttemptsAfterFallback, LessOf

\* A call with an id handled: a tool ran, or the attempts went up.
LEMMA RecordProgress ==
  ASSUME ControlInv, LoopProgress, NEW tc, AtCall(tc),
         NEW error, NEW attempts, NEW didInvoke \in BOOLEAN,
         Record(error, attempts, didInvoke),
         didInvoke \/ attempts > tool_retry_attempts
  PROVE  LoopProgress'
<1>1. tool_retry_attempts' = tool_retry_attempts /\ local'.attempts = attempts
  BY DEF Record, checkpoint
<1>2. local'.executed = IF didInvoke THEN local.executed + 1 ELSE local.executed
  BY DEF Record
<1>3. local.executed \in Nat
  BY TypesInToolNode
<1>4. local'.executed > 0 \/ local'.attempts > tool_retry_attempts'
  BY <1>1, <1>2, <1>3
<1> QED
  BY <1>4 DEF LoopProgress

LEMMA NextLoopProgress == ControlInv /\ LoopProgress /\ [Next]_vars => LoopProgress'
<1> SUFFICES ASSUME ControlInv, LoopProgress, [Next]_vars PROVE LoopProgress'
  OBVIOUS
<1>0. ASSUME local'.at = 0 PROVE LoopProgress'
  <2>1. Batch' \in Seq(Calls)
    BY NextControl DEF ControlInv, TypeOK, LastMessages, Batch
  <2>2. \A k \in DOMAIN Batch' : ~(k < local'.at)
    BY <1>0, <2>1
  <2> QED
    BY <2>2 DEF LoopProgress
<1>1. CASE HumanTurn
  BY <1>1 DEF HumanTurn, LoopProgress
<1>2. CASE ResumeInterrupt
  BY <1>2 DEF ResumeInterrupt, checkpoint, LoopProgress, Batch
<1>3. CASE RetryRun
  BY <1>3 DEF RetryRun, checkpoint, LoopProgress, Batch
<1>4. CASE NodeFails
  BY <1>0, <1>4 DEF NodeFails, Idle
<1>5. CASE AgentNode
  <2>1. local' = local /\ local = Idle
    BY <1>5 DEF AgentNode, ControlInv, Control
  <2> QED
    BY <1>0, <2>1 DEF Idle
<1>6. CASE ErrorSummaryNode
  BY <1>6 DEF ErrorSummaryNode, LoopProgress
<1>7. CASE RefuseBatch
  BY <1>7 DEF RefuseBatch, FinishToolNode, LoopProgress
<1>8. CASE StartToolCalls
  <2>1. local'.at = 1 /\ Batch' = Batch
    BY <1>8 DEF StartToolCalls, Idle, checkpoint, Batch
  <2>2. \A k \in DOMAIN Batch' : ~(k < local'.at)
    BY <2>1, TypesInToolNode
  <2> QED
    BY <2>2 DEF LoopProgress
<1>9. CASE SkipCallWithoutId
  <2>1. PICK tc \in Calls : AtCall(tc) /\ ~tc.hasId
    BY <1>9 DEF SkipCallWithoutId
  <2>2. local \in Locals /\ local' = [local EXCEPT !.at = local.at + 1]
    BY <1>9 DEF SkipCallWithoutId, ControlInv, TypeOK
  <2>3. /\ local'.at = local.at + 1 /\ local'.executed = local.executed
        /\ local'.attempts = local.attempts
    BY <2>2 DEF Locals
  <2>4. UNCHANGED <<next, Batch, tool_retry_attempts>>
    BY <1>9 DEF SkipCallWithoutId, checkpoint, Batch
  <2>5. ASSUME NEW k \in DOMAIN Batch, k < local.at + 1, Batch[k].hasId
        PROVE  k < local.at
    <3>1. k # local.at
      BY <2>1, <2>5 DEF AtCall, Batch
    <3> QED
      BY <2>5, <3>1, TypesInToolNode
  <2> QED
    BY <2>3, <2>4, <2>5 DEF LoopProgress
<1>10. CASE ToolNotFound
  <2>1. PICK tc \in Calls : AtCall(tc)
    BY <1>10 DEF ToolNotFound
  <2>2. AttemptsAfterError(tool_retry_attempts, FALSE) > tool_retry_attempts
    BY <2>1, ErrorsAdvance DEF AtCall, InToolNode
  <2> QED
    BY <1>10, <2>1, <2>2, RecordProgress DEF ToolNotFound
<1>11. CASE InjectionFails
  <2>1. PICK tc \in Calls : AtCall(tc)
    BY <1>11 DEF InjectionFails
  <2>2. AttemptsAfterError(tool_retry_attempts, TRUE) > tool_retry_attempts
    BY <2>1, ErrorsAdvance DEF AtCall, InToolNode
  <2> QED
    BY <1>11, <2>1, <2>2, RecordProgress DEF InjectionFails
<1>12. CASE ToolSucceeds
  BY <1>12, RecordProgress DEF ToolSucceeds
<1>13. CASE ToolFails
  BY <1>13, RecordProgress DEF ToolFails
<1>14. CASE ToolInterrupts
  BY <1>0, <1>14 DEF ToolInterrupts, Idle
<1>15. CASE ToolReturnsEmpty
  BY <1>15 DEF ToolReturnsEmpty, FinishToolNode, LoopProgress
<1>16. CASE EndToolCalls
  BY <1>16 DEF EndToolCalls, FinishToolNode, LoopProgress
<1>17. CASE UNCHANGED vars
  BY <1>17 DEF vars, checkpoint, LoopProgress, Batch
<1> QED
  BY <1>1, <1>2, <1>3, <1>4, <1>5, <1>6, <1>7, <1>8, <1>9, <1>10, <1>11, <1>12, <1>13,
     <1>14, <1>15, <1>16, <1>17 DEF Next, GraphStep, ToolNode

\* The steps that apply an update of tool_node.
LEMMA RoundEndSteps ==
  ASSUME [Next]_vars, RoundEnds
  PROVE  RefuseBatch \/ ToolReturnsEmpty \/ EndToolCalls
  BY DEF RoundEnds, Next, GraphStep, ToolNode, vars, HumanTurn, ResumeInterrupt, RetryRun,
         NodeFails, AgentNode, ErrorSummaryNode, StartToolCalls, SkipCallWithoutId,
         ToolNotFound, InjectionFails, ToolSucceeds, ToolFails, ToolInterrupts, Record

SomeCallHasId == \E k \in DOMAIN Batch : Batch[k].hasId

RoundAdvances ==
  \/ tool_call_count' > tool_call_count
  \/ tool_call_count' = tool_call_count /\ tool_retry_attempts' > tool_retry_attempts

LEMMA RoundsAdvance ==
  ASSUME ControlInv, LoopProgress, [Next]_vars, RoundEnds, SomeCallHasId
  PROVE  RoundAdvances
<1>0. next = "tool_node"
  BY DEF RoundEnds
<1>1. CASE RefuseBatch
  BY <1>0, <1>1, ErrorsAdvance DEF RefuseBatch, RoundAdvances
<1>2. CASE ToolReturnsEmpty
  BY <1>0, <1>2, ErrorsAdvance DEF ToolReturnsEmpty, RoundAdvances
<1>3. CASE EndToolCalls
  <2>1. /\ local.at = Len(Batch) + 1 /\ tool_retry_attempts' = local.attempts
        /\ tool_call_count' = tool_call_count + local.executed
    BY <1>3 DEF EndToolCalls, Charge, Batch
  <2>2. \E k \in DOMAIN Batch : k < local.at /\ Batch[k].hasId
    BY <2>1, TypesInToolNode DEF SomeCallHasId
  <2>3. local.executed > 0 \/ local.attempts > tool_retry_attempts
    BY <1>0, <2>2 DEF LoopProgress
  <2> QED
    BY <2>1, <2>3, TypesInToolNode DEF RoundAdvances
<1> QED
  BY <1>1, <1>2, <1>3, RoundEndSteps

LEMMA InitLoopProgress == Init => LoopProgress
  BY DEF Init, LoopProgress

\* Rejected batches, unknown tools and the catastrophic path charge no call, but
\* then they cost an attempt: no round with an identified call is free.
THEOREM RoundsMakeProgress == Spec => RoundMakesProgress
<1>1. Init => ControlInv /\ LoopProgress
  BY InitControl, InitLoopProgress
<1>2. ControlInv /\ LoopProgress /\ [Next]_vars => (ControlInv /\ LoopProgress)'
  BY NextControl, NextLoopProgress
<1>3. ControlInv /\ LoopProgress /\ [Next]_vars =>
        [RoundEnds /\ (\E k \in DOMAIN last.tool_calls : last.tool_calls[k].hasId)
           => \/ tool_call_count' > tool_call_count
              \/ /\ tool_call_count' = tool_call_count
                 /\ tool_retry_attempts' > tool_retry_attempts]_vars
  BY RoundsAdvance DEF SomeCallHasId, RoundAdvances, Batch
<1> QED
  BY <1>1, <1>2, <1>3, PTL DEF Spec, RoundMakesProgress

-----------------------------------------------------------------------------
(* Rounds of a turn *)

\* The two counters as one number in base max_tool_retries + 1.
Rank == tool_call_count * (max_tool_retries + 1) + tool_retry_attempts

InTurn == next = "tool_node" \/ (next = "agent_node" /\ last.type # "human")

RoundsCounted ==
  /\ rounds <= RoundBound
  /\ last.type = "human" => rounds = 0
  /\ InTurn => rounds <= Rank
  /\ \A k \in DOMAIN Batch : Batch[k].hasId

LEMMA RankIsNat ==
  ASSUME NEW c \in Nat, NEW a \in Nat, NEW m \in Nat
  PROVE  c * (m + 1) + a \in Nat
<1>1. c * (m + 1) \in Nat
  OBVIOUS
<1> QED
  BY <1>1

LEMMA RankGrows ==
  ASSUME NEW c \in Nat, NEW a \in Nat, NEW d \in Nat, NEW b \in Nat, NEW m \in Nat,
         a <= m, d > c \/ (d = c /\ b > a)
  PROVE  c * (m + 1) + a + 1 <= d * (m + 1) + b
<1>1. CASE d = c /\ b > a
  BY <1>1
<1>2. CASE d > c
  <2>1. PICK e \in Nat : d = c + 1 + e
    <3>1. d - c - 1 \in Nat /\ d = c + 1 + (d - c - 1)
      BY <1>2
    <3> QED
      BY <3>1
  <2>2. d * (m + 1) = c * (m + 1) + (m + 1) + e * (m + 1)
    BY <2>1
  <2>3. e * (m + 1) \in Nat /\ c * (m + 1) \in Nat
    BY <2>1
  <2> QED
    BY <2>2, <2>3
<1> QED
  BY <1>1, <1>2

LEMMA RankIsBounded ==
  ASSUME NEW c \in Nat, NEW n \in Nat, NEW m \in Nat, NEW a \in Nat, c <= n, a <= m
  PROVE  c * (m + 1) + a <= n * (m + 1) + m
<1>1. PICK e \in Nat : n = c + e
  <2>1. n - c \in Nat /\ n = c + (n - c)
    OBVIOUS
  <2> QED
    BY <2>1
<1>2. n * (m + 1) = c * (m + 1) + e * (m + 1)
  BY <1>1
<1>3. e * (m + 1) \in Nat /\ c * (m + 1) \in Nat
  BY <1>1
<1> QED
  BY <1>2, <1>3

\* A completed round is paid for by the rank.
LEMMA RoundIsCounted ==
  ASSUME ControlInv, LoopProgress, RoundsCounted, [Next]_vars, NEW touched,
         InToolNode, FinishToolNode(touched)
  PROVE  RoundsCounted'
<1>1. /\ next = "tool_node" /\ next' = "agent_node" /\ last.type = "ai"
      /\ last'.type # "human" /\ rounds' \in {rounds, rounds + 1}
  BY DEF InToolNode, FinishToolNode, ControlInv, Control
<1>2. SomeCallHasId
  <2>1. 1 \in DOMAIN Batch
    BY <1>1, TypesInToolNode DEF ControlInv, Control
  <2> QED
    BY <2>1 DEF SomeCallHasId, RoundsCounted
<1>3. RoundAdvances
  BY <1>1, <1>2, RoundsAdvance DEF RoundEnds, InToolNode
<1>4. /\ tool_call_count \in Nat /\ tool_retry_attempts \in Nat
      /\ tool_retry_attempts <= max_tool_retries /\ rounds \in Nat
  BY TypesInToolNode, BudgetsAssumption
<1>5. /\ tool_call_count' \in Nat /\ tool_retry_attempts' \in Nat
      /\ tool_call_count' <= MAX_TOOL_CALLS /\ tool_retry_attempts' <= max_tool_retries
  BY NextControl, BudgetsAssumption DEF ControlInv, TypeOK
<1>6. Rank + 1 <= Rank'
  BY <1>3, <1>4, <1>5, RankGrows, BudgetsAssumption DEF RoundAdvances, Rank
<1>7. Rank' <= RoundBound
  BY <1>5, RankIsBounded, BudgetsAssumption DEF Rank, RoundBound
<1>8. rounds <= Rank
  BY <1>1 DEF RoundsCounted, InTurn
<1>9. Rank \in Nat /\ Rank' \in Nat /\ RoundBound \in Nat
  BY <1>4, <1>5, RankIsNat, RoundBoundIsNat, BudgetsAssumption DEF Rank
<1>10. rounds' <= Rank' /\ rounds' <= RoundBound
  BY <1>1, <1>4, <1>6, <1>7, <1>8, <1>9
<1>11. \A k \in DOMAIN Batch' : Batch'[k].hasId
  <2>1. Batch' \in {<< >>, Batch}
    BY DEF FinishToolNode, Batch
  <2> QED
    BY <2>1 DEF RoundsCounted
<1> QED
  BY <1>1, <1>10, <1>11 DEF RoundsCounted

LEMMA InitRoundsCounted == Init => RoundsCounted
  BY RoundBoundIsNat DEF Init, RoundsCounted, InTurn, Batch

LEMMA NextRoundsCounted ==
  ASSUME ~MayOmitId, ControlInv, LoopProgress, RoundsCounted, [Next]_vars
  PROVE  RoundsCounted'
<1>1. CASE HumanTurn
  <2>1. rounds' = 0 /\ next' = "agent_node" /\ last'.type = "human" /\ Batch' = << >>
    BY <1>1 DEF HumanTurn, Batch
  <2> QED
    BY <2>1, RoundBoundIsNat DEF RoundsCounted, InTurn
<1>2. CASE ResumeInterrupt
  BY <1>2 DEF ResumeInterrupt, checkpoint, ghosts, RoundsCounted, InTurn, Rank, Batch
<1>3. CASE RetryRun
  BY <1>3 DEF RetryRun, checkpoint, ghosts, RoundsCounted, InTurn, Rank, Batch
<1>4. CASE NodeFails
  BY <1>4 DEF NodeFails, checkpoint, ghosts, RoundsCounted, InTurn, Rank, Batch
<1>5. CASE AgentNode
  <2>1. PICK calls \in Responses : Batch' = calls
    BY <1>5 DEF AgentNode, Batch
  <2>2. \A k \in DOMAIN calls : calls[k].hasId
    <3>1. calls \in Seq(Emitted)
      BY ResponsesAreSequences
    <3> QED
      BY <3>1 DEF Emitted
  <2>3. next = "agent_node" /\ last'.type = "ai" /\ rounds' = rounds
    BY <1>5 DEF AgentNode
  <2>4. last.type # "human" =>
          tool_call_count' = tool_call_count /\ tool_retry_attempts' = tool_retry_attempts
    BY <1>5, Zenon DEF AgentNode, with_turn_reset
  <2>5. tool_call_count' \in Nat /\ tool_retry_attempts' \in Nat
    BY NextControl, BudgetsAssumption DEF ControlInv, TypeOK
  <2>6. rounds' <= Rank'
    <3>1. CASE last.type = "human"
      <4>1. rounds' = 0 /\ Rank' \in Nat
        BY <2>3, <2>5, <3>1, RankIsNat, BudgetsAssumption DEF RoundsCounted, Rank
      <4> QED
        BY <4>1
    <3>2. CASE last.type # "human"
      BY <2>3, <2>4, <3>2 DEF RoundsCounted, InTurn, Rank
    <3> QED
      BY <3>1, <3>2
  <2> QED
    BY <2>1, <2>2, <2>3, <2>6 DEF RoundsCounted
<1>6. CASE ErrorSummaryNode
  <2>1. rounds' = rounds /\ next' = "__end__" /\ last'.type = "ai" /\ Batch' = << >>
    BY <1>6 DEF ErrorSummaryNode, Batch
  <2> QED
    BY <2>1 DEF RoundsCounted, InTurn
<1>7. CASE RefuseBatch
  BY <1>7, RoundIsCounted DEF RefuseBatch
<1>8. CASE StartToolCalls
  BY <1>8 DEF StartToolCalls, checkpoint, ghosts, RoundsCounted, InTurn, Rank, Batch
<1>9. CASE SkipCallWithoutId
  BY <1>9 DEF SkipCallWithoutId, checkpoint, ghosts, RoundsCounted, InTurn, Rank, Batch
<1>10. CASE ToolNotFound
  BY <1>10 DEF ToolNotFound, Record, checkpoint, RoundsCounted, InTurn, Rank, Batch
<1>11. CASE InjectionFails
  BY <1>11 DEF InjectionFails, Record, checkpoint, RoundsCounted, InTurn, Rank, Batch
<1>12. CASE ToolSucceeds
  BY <1>12 DEF ToolSucceeds, Record, checkpoint, RoundsCounted, InTurn, Rank, Batch
<1>13. CASE ToolFails
  BY <1>13 DEF ToolFails, Record, checkpoint, RoundsCounted, InTurn, Rank, Batch
<1>14. CASE ToolInterrupts
  BY <1>14 DEF ToolInterrupts, checkpoint, ghosts, RoundsCounted, InTurn, Rank, Batch
<1>15. CASE ToolReturnsEmpty
  BY <1>15, RoundIsCounted DEF ToolReturnsEmpty, AtCall
<1>16. CASE EndToolCalls
  BY <1>16, RoundIsCounted DEF EndToolCalls
<1>17. CASE UNCHANGED vars
  BY <1>17 DEF vars, checkpoint, ghosts, RoundsCounted, InTurn, Rank, Batch
<1> QED
  BY <1>1, <1>2, <1>3, <1>4, <1>5, <1>6, <1>7, <1>8, <1>9, <1>10, <1>11, <1>12, <1>13,
     <1>14, <1>15, <1>16, <1>17 DEF Next, GraphStep, ToolNode

\* The cap the comment at nodes.py:72-76 promises: a turn whose calls all have
\* an id has at most RoundBound tool rounds.
THEOREM TurnsAreBounded ==
  ASSUME ~MayOmitId
  PROVE  Spec => []RoundsBounded
<1>1. Init => ControlInv /\ LoopProgress /\ RoundsCounted
  BY InitControl, InitLoopProgress, InitRoundsCounted
<1>2. ControlInv /\ LoopProgress /\ RoundsCounted /\ [Next]_vars
        => (ControlInv /\ LoopProgress /\ RoundsCounted)'
  BY NextControl, NextLoopProgress, NextRoundsCounted
<1>3. RoundsCounted => RoundsBounded
  BY DEF RoundsCounted, RoundsBounded
<1> QED
  BY <1>1, <1>2, <1>3, PTL DEF Spec

-----------------------------------------------------------------------------
(* The charge of a round *)

\* Without tools that return an empty feedback, tool_node charges what ran.
THEOREM ChargesAreExact ==
  ASSUME EmptyTools = {}
  PROVE  Spec => ChargedByRealWork
<1>1. Init => ControlInv /\ Replays /\ Spending
  BY InitControl, InitReplays, InitSpending
<1>2. ControlInv /\ Replays /\ Spending /\ [Next]_vars => (ControlInv /\ Replays /\ Spending)'
  BY NextControl, NextReplays, NextSpending
<1>3. ControlInv /\ Replays /\ Spending /\ [Next]_vars =>
        [RoundEnds => tool_call_count' + ran = tool_call_count + ran']_vars
  <2> SUFFICES ASSUME ControlInv, Replays, Spending, [Next]_vars, RoundEnds
               PROVE  tool_call_count' + ran = tool_call_count + ran'
    OBVIOUS
  <2>0. next = "tool_node"
    BY DEF RoundEnds
  <2>1. CASE RefuseBatch
    <3>1. Touched = {}
      BY <2>0, <2>1 DEF RefuseBatch, Replays, Touched, Batch
    <3> QED
      BY <2>1, <3>1, FS_EmptySet, TypesInToolNode DEF RefuseBatch, FinishToolNode
  <2>2. CASE ToolReturnsEmpty
    BY <2>2 DEF ToolReturnsEmpty
  <2>3. CASE EndToolCalls
    <3>1. local.executed = Cardinality(Touched)
      BY <2>0, <2>3, ChargedByExecuted DEF EndToolCalls, Batch
    <3> QED
      BY <2>3, <3>1, TypesInToolNode DEF EndToolCalls, Charge, FinishToolNode
  <2> QED
    BY <2>1, <2>2, <2>3, RoundEndSteps
<1> QED
  BY <1>1, <1>2, <1>3, PTL DEF Spec, ChargedByRealWork

-----------------------------------------------------------------------------
(* What a turn inherits from earlier ones *)

Fresh ==
  InTurn => /\ tool_feedback \in {0, turn} /\ local.feedback \in {0, turn}
            /\ tool_feedback_history \subseteq {turn}

LEMMA NextFresh == ControlInv /\ Fresh /\ [Next]_vars => Fresh'
<1> SUFFICES ASSUME ControlInv, Fresh, [Next]_vars PROVE Fresh'
  OBVIOUS
<1>1. CASE HumanTurn
  BY <1>1 DEF HumanTurn, Fresh, InTurn
<1>2. CASE ResumeInterrupt
  BY <1>2 DEF ResumeInterrupt, checkpoint, ghosts, Fresh, InTurn
<1>3. CASE RetryRun
  BY <1>3 DEF RetryRun, checkpoint, ghosts, Fresh, InTurn
<1>4. CASE NodeFails
  BY <1>4 DEF NodeFails, checkpoint, ghosts, Fresh, InTurn, Idle
<1>5. CASE AgentNode
  <2>1. /\ next = "agent_node" /\ turn' = turn /\ local' = local /\ local = Idle
        /\ last'.type = "ai"
    BY <1>5 DEF AgentNode, ControlInv, Control
  <2>2. CASE last.type = "human"
    BY <1>5, <2>1, <2>2 DEF AgentNode, with_turn_reset, Fresh, Idle
  <2>3. CASE last.type # "human"
    <3>1. tool_feedback' = tool_feedback /\ tool_feedback_history' = tool_feedback_history
      BY <1>5, <2>3, Zenon DEF AgentNode, with_turn_reset
    <3> QED
      BY <2>1, <2>3, <3>1 DEF Fresh, InTurn
  <2> QED
    BY <2>2, <2>3
<1>6. CASE ErrorSummaryNode
  BY <1>6 DEF ErrorSummaryNode, Fresh, InTurn
<1>7. CASE RefuseBatch
  BY <1>7 DEF RefuseBatch, FinishToolNode, InToolNode, Fresh, InTurn, Idle
<1>8. CASE StartToolCalls
  BY <1>8 DEF StartToolCalls, checkpoint, ghosts, Fresh, InTurn, Idle
<1>9. CASE SkipCallWithoutId
  BY <1>9 DEF SkipCallWithoutId, checkpoint, ghosts, Fresh, InTurn, ControlInv, TypeOK, Locals
<1>10. CASE ToolNotFound
  BY <1>10 DEF ToolNotFound, Record, checkpoint, Fresh, InTurn
<1>11. CASE InjectionFails
  BY <1>11 DEF InjectionFails, Record, checkpoint, Fresh, InTurn
<1>12. CASE ToolSucceeds
  BY <1>12 DEF ToolSucceeds, Record, checkpoint, Fresh, InTurn
<1>13. CASE ToolFails
  BY <1>13 DEF ToolFails, Record, checkpoint, Fresh, InTurn
<1>14. CASE ToolInterrupts
  BY <1>14 DEF ToolInterrupts, checkpoint, ghosts, Fresh, InTurn, Idle
<1>15. CASE ToolReturnsEmpty
  BY <1>15 DEF ToolReturnsEmpty, FinishToolNode, AtCall, InToolNode, Fresh, InTurn, Idle
<1>16. CASE EndToolCalls
  BY <1>16 DEF EndToolCalls, FinishToolNode, InToolNode, Fresh, InTurn, Idle
<1>17. CASE UNCHANGED vars
  BY <1>17 DEF vars, checkpoint, ghosts, Fresh, InTurn
<1> QED
  BY <1>1, <1>2, <1>3, <1>4, <1>5, <1>6, <1>7, <1>8, <1>9, <1>10, <1>11, <1>12, <1>13,
     <1>14, <1>15, <1>16, <1>17 DEF Next, GraphStep, ToolNode

\* No error of an earlier turn is ever handed to a tool as previous_errors.
THEOREM FeedbackIsOfThisTurn == Spec => []FeedbackOfThisTurn
<1>1. Init => ControlInv /\ Fresh
  BY InitControl DEF Init, Fresh, InTurn
<1>2. ControlInv /\ Fresh /\ [Next]_vars => (ControlInv /\ Fresh)'
  BY NextControl, NextFresh
<1>3. Fresh => FeedbackOfThisTurn
  BY DEF Fresh, InTurn, FeedbackOfThisTurn
<1> QED
  BY <1>1, <1>2, <1>3, PTL DEF Spec

\* The first answer to a new human message reaches the tools whatever the
\* previous turns left in the counters.
THEOREM FreshTurnsAreNotWedged == Spec => FreshTurnNotWedged
<1>1. ControlInv /\ [Next]_vars =>
        [last.type = "human" /\ last'.type = "ai" /\ MAX_TOOL_RETRIES > 0
           /\ Len(last'.tool_calls) \in 1..MAX_TOOL_CALLS
         => next' = "tool_node"]_vars
  <2> SUFFICES ASSUME ControlInv, [Next]_vars, last.type = "human", last'.type = "ai",
                      MAX_TOOL_RETRIES > 0, Len(last'.tool_calls) \in 1..MAX_TOOL_CALLS
               PROVE  next' = "tool_node"
    OBVIOUS
  <2>1. next = "agent_node"
    BY DEF ControlInv, Control
  <2>2. AgentNode
    BY <2>1 DEF Next, GraphStep, ToolNode, vars, checkpoint, HumanTurn, ResumeInterrupt,
       RetryRun, NodeFails, ErrorSummaryNode, RefuseBatch, StartToolCalls,
       SkipCallWithoutId, ToolNotFound, InjectionFails, ToolSucceeds, ToolFails,
       ToolInterrupts, ToolReturnsEmpty, EndToolCalls, AtCall, InToolNode
  <2>3. PICK calls \in Responses :
          /\ last'.tool_calls = calls
          /\ next' = should_continue(tool_call_count', tool_retry_attempts', calls)
    BY <2>2 DEF AgentNode
  <2>4. tool_call_count' = 0 /\ tool_retry_attempts' = 0
    BY <2>2 DEF AgentNode, with_turn_reset
  <2>5. calls # << >> /\ ~(0 + Len(calls) > MAX_TOOL_CALLS) /\ ~(0 >= MAX_TOOL_RETRIES)
    BY <2>3, BudgetsAssumption
  <2> QED
    BY <2>3, <2>4, <2>5 DEF should_continue
<1> QED
  BY <1>1, InitControl, NextControl, PTL DEF Spec, FreshTurnNotWedged

-----------------------------------------------------------------------------
(* The graph implements TurnBudget: its initial state maps to the initial    *)
(* state of the abstract turn, the three ends of tool_node to Spend, the     *)
(* decision of the router to Answer, LetIn or TurnAway, and all else to a    *)
(* stuttering step.                                                          *)

\* The counters as TurnBudget sees them.
Charged == IF last.type = "human" THEN 0 ELSE tool_call_count
Attempts == IF last.type = "human" THEN 0 ELSE tool_retry_attempts

AbstractStep ==
  \/ Budget!Next
  \/ next' = next /\ Charged' = Charged /\ Attempts' = Attempts

LEMMA InitTurn == Init => Budget!Init
  BY DEF Init, Budget!Init

\* An end of tool_node spends calls or attempts.
LEMMA RoundSpends ==
  ASSUME ControlInv, ControlInv', LoopProgress, RoundsCounted, [Next]_vars,
         NEW touched, InToolNode, FinishToolNode(touched)
  PROVE  Budget!Spend
<1>1. /\ next = "tool_node" /\ next' = "agent_node" /\ last.type = "ai"
      /\ last'.type # "human"
  BY DEF InToolNode, FinishToolNode, ControlInv, Control
<1>2. SomeCallHasId
  <2>1. 1 \in DOMAIN Batch
    BY <1>1, TypesInToolNode DEF ControlInv, Control
  <2> QED
    BY <2>1 DEF SomeCallHasId, RoundsCounted
<1>3. RoundAdvances
  BY <1>1, <1>2, RoundsAdvance DEF RoundEnds, InToolNode
<1>4. /\ tool_call_count \in 0..MAX_TOOL_CALLS /\ tool_call_count' \in 0..MAX_TOOL_CALLS
      /\ tool_retry_attempts \in 0..max_tool_retries
      /\ tool_retry_attempts' \in 0..max_tool_retries
  BY DEF ControlInv, TypeOK
<1>5. \/ /\ tool_call_count' \in (tool_call_count + 1)..MAX_TOOL_CALLS
         /\ tool_retry_attempts' \in 0..max_tool_retries
      \/ /\ tool_call_count' = tool_call_count
         /\ tool_retry_attempts' \in (tool_retry_attempts + 1)..max_tool_retries
  BY <1>3, <1>4, BudgetsAssumption DEF RoundAdvances
<1> QED
  BY <1>1, <1>5 DEF Budget!Spend

\* The answer of the model: final, let in or turned away.
LEMMA ModelAnswers ==
  ASSUME ControlInv, ControlInv', AgentNode
  PROVE  Budget!Answer \/ Budget!LetIn \/ Budget!TurnAway
<1>1. PICK calls \in Responses :
        /\ last' = [type |-> "ai", tool_calls |-> calls]
        /\ tool_retry_attempts' = with_turn_reset(last.type = "human", tool_retry_attempts, 0)
        /\ tool_call_count' = with_turn_reset(last.type = "human", tool_call_count, 0)
        /\ next' = should_continue(tool_call_count', tool_retry_attempts', calls)
  BY DEF AgentNode
<1>2. /\ next = "agent_node" /\ last'.type = "ai"
      /\ tool_call_count' = Charged /\ tool_retry_attempts' = Attempts
  BY <1>1, Zenon DEF AgentNode, with_turn_reset, Charged, Attempts
<1>3. Charged' = Charged /\ Attempts' = Attempts
  BY <1>2 DEF Charged, Attempts
<1>4. tool_call_count' \in Nat /\ tool_retry_attempts' \in Nat
  BY BudgetsAssumption DEF ControlInv, TypeOK
<1>5. CASE next' = "__end__"
  BY <1>2, <1>3, <1>5 DEF Budget!Answer, Charged, Attempts
<1>6. CASE next' = "error_summary_node"
  BY <1>2, <1>3, <1>6 DEF Budget!TurnAway, Charged, Attempts
<1>7. CASE next' = "tool_node"
  <2>1. /\ calls # << >> /\ ~(tool_call_count' + Len(calls) > MAX_TOOL_CALLS)
        /\ ~(tool_retry_attempts' >= MAX_TOOL_RETRIES)
    BY <1>1, <1>7 DEF should_continue
  <2>2. Len(calls) \in Nat /\ Len(calls) > 0
    BY <2>1, ResponsesAreSequences
  <2>3. tool_call_count' < MAX_TOOL_CALLS /\ tool_retry_attempts' < MAX_TOOL_RETRIES
    BY <1>4, <2>1, <2>2, BudgetsAssumption
  <2> QED
    BY <1>2, <1>3, <1>7, <2>3 DEF Budget!LetIn, Charged, Attempts
<1>8. next' \in {"__end__", "error_summary_node", "tool_node"}
  BY <1>1 DEF should_continue
<1> QED
  BY <1>5, <1>6, <1>7, <1>8

LEMMA StepRefines ==
  ASSUME ControlInv, ControlInv', LoopProgress, RoundsCounted, [Next]_vars
  PROVE  AbstractStep
<1>1. CASE HumanTurn
  <2>1. next' = "agent_node" /\ last'.type = "human"
    BY <1>1 DEF HumanTurn
  <2> QED
    BY <2>1 DEF AbstractStep, Budget!Next, Budget!NewTurn
<1>2. CASE AgentNode
  BY <1>2, ModelAnswers DEF AbstractStep, Budget!Next
<1>3. CASE ErrorSummaryNode
  <2>1. /\ next = "error_summary_node" /\ next' = "__end__" /\ last'.type = "ai"
        /\ tool_retry_attempts' = 0 /\ tool_call_count' = tool_call_count
    BY <1>3 DEF ErrorSummaryNode
  <2>2. last.type # "human"
    BY <2>1 DEF ControlInv, Control
  <2> QED
    BY <2>1, <2>2 DEF AbstractStep, Budget!Next, Budget!Summarise
<1>4. CASE RefuseBatch
  BY <1>4, RoundSpends DEF RefuseBatch, AbstractStep, Budget!Next
<1>5. CASE ToolReturnsEmpty
  BY <1>5, RoundSpends DEF ToolReturnsEmpty, AtCall, AbstractStep, Budget!Next
<1>6. CASE EndToolCalls
  BY <1>6, RoundSpends DEF EndToolCalls, AbstractStep, Budget!Next
<1>7. CASE ResumeInterrupt \/ RetryRun \/ NodeFails
  BY <1>7 DEF ResumeInterrupt, RetryRun, NodeFails, checkpoint, AbstractStep, Charged, Attempts
<1>8. CASE StartToolCalls \/ SkipCallWithoutId \/ ToolInterrupts
  BY <1>8 DEF StartToolCalls, SkipCallWithoutId, ToolInterrupts, checkpoint, AbstractStep,
     Charged, Attempts
<1>9. CASE ToolNotFound \/ InjectionFails \/ ToolSucceeds \/ ToolFails
  BY <1>9 DEF ToolNotFound, InjectionFails, ToolSucceeds, ToolFails, Record, checkpoint,
     AbstractStep, Charged, Attempts
<1>10. CASE UNCHANGED vars
  BY <1>10 DEF vars, checkpoint, AbstractStep, Charged, Attempts
<1> QED
  BY <1>1, <1>2, <1>3, <1>4, <1>5, <1>6, <1>7, <1>8, <1>9, <1>10
     DEF Next, GraphStep, ToolNode

\* When the model never omits an id, every execution of the graph, with its
\* pauses, crashes and replays, is an execution of the abstract turn budget.
THEOREM GraphImplementsTurnBudget ==
  ASSUME ~MayOmitId
  PROVE  Spec => ImplementsTurnBudget
<1>1. Init => ControlInv /\ LoopProgress /\ RoundsCounted
  BY InitControl, InitLoopProgress, InitRoundsCounted
<1>2. ControlInv /\ LoopProgress /\ RoundsCounted /\ [Next]_vars
        => (ControlInv /\ LoopProgress /\ RoundsCounted)'
  BY NextControl, NextLoopProgress, NextRoundsCounted
<1>3. ControlInv /\ LoopProgress /\ RoundsCounted /\ [Next]_vars
        => [Budget!Next]_(Budget!vars)
  BY <1>2, StepRefines DEF AbstractStep, Budget!vars, Charged, Attempts
<1> QED
  BY <1>1, <1>2, <1>3, InitTurn, PTL DEF Spec, ImplementsTurnBudget, Budget!Spec

=============================================================================
