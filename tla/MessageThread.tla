---------------------------- MODULE MessageThread ----------------------------
(***************************************************************************)
(* The graph of SkillsAgentGraph together with the list State.messages     *)
(* that its nodes append to, and the repair (ToolCallPairs) that every     *)
(* call of the LLM applies to it.  SkillsAgentGraph only keeps the last    *)
(* message; here the whole thread is kept, so that what is sent to the     *)
(* provider can be looked at after crashes, abandoned pauses, refused      *)
(* batches and exhausted budgets.                                          *)
(*                                                                         *)
(* The k-th call of a batch has id k: ids are used again by later batches, *)
(* which is the harder case for the repair.                                *)
(***************************************************************************)
EXTENDS SkillsAgentGraph

CONSTANT MaxMessages    \* bound: messages on the thread when the LLM is called

INSTANCE ToolCallPairs WITH Ids <- Nat \ {0}, NoId <- 0

VARIABLES
  messages,        \* State.messages
  tool_messages,   \* the list execute_tool_calls is building
  invoked,         \* ghost: the calls whose tool ran, and the positions of their batches
  lost             \* ghost: positions of batches a failure of tool_node hit

log == <<messages, tool_messages, invoked, lost>>

IdsOf(calls) == [k \in DOMAIN calls |-> IF calls[k].hasId THEN k ELSE 0]

AsMessage(calls) ==
  IF calls = << >> THEN OtherMessage ELSE AiMessage(IdsOf(calls))

\* Mutated form: the refusing and the catastrophic path answer no call.
AnswerNone(calls) == << >>

\* The numbers of S, the smallest first.
Ascending(S) ==
  [j \in 1..Cardinality(S) |-> CHOOSE k \in S : Cardinality({i \in S : i <= k}) = j]

WithId(calls) == {k \in DOMAIN calls : calls[k].hasId}

\* One ToolMessage for each call of the batch that has an id.
AnswersTo(calls) ==
  [j \in DOMAIN Ascending(WithId(calls)) |-> ToolMessage(Ascending(WithId(calls))[j])]

ThreadInit ==
  /\ Init
  /\ messages = << >> /\ tool_messages = << >>
  /\ invoked = {} /\ lost = {}

\* The reducer add_messages appends what a node returned.
add_messages(new) == messages' = messages \o new

-----------------------------------------------------------------------------

UserWrites ==
  /\ HumanTurn
  /\ add_messages(<< OtherMessage >>)
  /\ UNCHANGED <<tool_messages, invoked, lost>>

Restart ==
  /\ ResumeInterrupt \/ RetryRun
  /\ UNCHANGED log

Fails ==
  /\ NodeFails
  /\ tool_messages' = << >>
  /\ lost' = IF next = "tool_node" THEN lost \cup {Len(messages)} ELSE lost
  /\ UNCHANGED <<messages, invoked>>

CallsLlm ==
  /\ Len(messages) < MaxMessages
  /\ AgentNode
  /\ add_messages(<< AsMessage(last'.tool_calls) >>)
  /\ UNCHANGED <<tool_messages, invoked, lost>>

Summarises ==
  /\ ErrorSummaryNode
  /\ add_messages(<< OtherMessage >>)
  /\ UNCHANGED <<tool_messages, invoked, lost>>

Refuses ==
  /\ RefuseBatch
  /\ add_messages(AnswersTo(last.tool_calls))
  /\ UNCHANGED <<tool_messages, invoked, lost>>

\* A step of the loop that answers no call.
PassesOver ==
  /\ StartToolCalls \/ SkipCallWithoutId
  /\ UNCHANGED log

\* Mutated form: the ToolMessage of a call replaces the earlier ones.
OnlyLatest(answers, k) == << ToolMessage(k) >>

WithAnswer(answers, k) == Append(answers, ToolMessage(k))

AnswersWithoutRunning ==
  /\ ToolNotFound \/ InjectionFails
  /\ tool_messages' = WithAnswer(tool_messages, local.at)
  /\ UNCHANGED <<messages, invoked, lost>>

\* The AIMessage of the running batch is the last of the thread.
Invoked == invoked' = invoked \cup {[batch |-> Len(messages), call |-> local.at]}

RunsAndAnswers ==
  /\ ToolSucceeds \/ ToolFails
  /\ tool_messages' = WithAnswer(tool_messages, local.at)
  /\ Invoked
  /\ UNCHANGED <<messages, lost>>

Pauses ==
  /\ ToolInterrupts
  /\ tool_messages' = << >>
  /\ UNCHANGED <<messages, invoked, lost>>

\* _create_fallback_error_messages: the answers built so far are dropped.
FallsBack ==
  /\ ToolReturnsEmpty
  /\ add_messages(AnswersTo(last.tool_calls))
  /\ tool_messages' = << >>
  /\ Invoked
  /\ UNCHANGED lost

Returns ==
  /\ EndToolCalls
  /\ add_messages(tool_messages)
  /\ tool_messages' = << >>
  /\ UNCHANGED <<invoked, lost>>

ThreadNext ==
  \/ UserWrites \/ Restart \/ Fails \/ CallsLlm \/ Summarises \/ Refuses
  \/ PassesOver \/ AnswersWithoutRunning \/ RunsAndAnswers \/ Pauses
  \/ FallsBack \/ Returns

ThreadSpec == ThreadInit /\ [][ThreadNext]_<<vars, log>>

-----------------------------------------------------------------------------
(* Properties *)

\* messages[-1], which the nodes and the router read, is what SkillsAgentGraph
\* keeps of the thread in last (nodes.py:113, 141 and 179).
LastIsLast ==
  LET m == messages[Len(messages)] IN
  CASE messages = << >> -> last.type = "none"
    [] messages # << >> ->
         /\ m.kind = "ai" <=> last.tool_calls # << >>
         /\ m.kind = "ai" => m = AsMessage(last.tool_calls)
         /\ m.kind = "tool" <=> last.type = "tool"

AboutToCallLlm ==
  status = "running" /\ next \in {"agent_node", "error_summary_node"}

\* Whatever crashed, was abandoned, refused or cut off by a budget, each request
\* has exactly one answer per call with an id, before the next assistant or user
\* message, and no answer without a call (base_agent.py:90-92 and 166-170).
RequestsAreWellFormed ==
  AboutToCallLlm =>
    LET sent == _ensure_tool_call_pairs(messages)
        AnswersOf(p, i) == {q \in Block(sent, p) : sent[q].id = i}
    IN /\ \A p \in DOMAIN sent : sent[p].kind = "ai" =>
            /\ \A i \in Range(sent[p].calls) \ {0} : Cardinality(AnswersOf(p, i)) = 1
            /\ \A q \in Block(sent, p) : sent[q].id \in Range(sent[p].calls)
       /\ \A q \in DOMAIN sent : sent[q].kind = "tool" =>
            \E p \in DOMAIN sent : sent[p].kind = "ai" /\ q \in Block(sent, p)

\* Every update of tool_node answers each call that has an id once, in the order
\* of the calls, on the normal, the refusing and the catastrophic path alike
\* (nodes.py:131-133).
RoundAnswersEveryCall ==
  [][RoundEnds =>
       LET answers == SubSeq(messages', Len(messages) + 1, Len(messages'))
       IN /\ \A k \in DOMAIN answers : answers[k].kind = "tool"
          /\ \A j, k \in DOMAIN answers : j < k => answers[j].id < answers[k].id
          /\ {answers[k].id : k \in DOMAIN answers} = WithId(last.tool_calls)]_<<vars, log>>

\* A call whose tool ran is answered by what tool_node persisted, unless the run
\* died inside tool_node: no pause, refusal, fallback or new user message makes
\* the repair tell the LLM that a tool did not run when it did.
OnlyFailuresHideWork ==
  AboutToCallLlm =>
    \A c \in invoked : c.batch \in lost \/ Answered(messages, c.batch, c.call)

\* What the synthetic answer says: "The prior run was terminated before the tool
\* could execute" (base_agent.py:921).
OrphansNeverRan ==
  AboutToCallLlm => \A c \in invoked : Answered(messages, c.batch, c.call)

=============================================================================
