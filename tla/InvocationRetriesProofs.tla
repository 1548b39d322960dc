---------------------- MODULE InvocationRetriesProofs ----------------------
(***************************************************************************)
(* The retries behind one call: they implement the one-step calls of the   *)
(* graph, so that all that is proved of the graph holds of it with its     *)
(* retries, and they run the body of a tool a bounded number of times.     *)
(***************************************************************************)
EXTENDS InvocationRetries, SkillsAgentGraphProofs

-----------------------------------------------------------------------------
(* What becomes of a return value *)

\* A feedback has an outcome and a flag.
LEMMA WrappedIsFeedback ==
  ASSUME NEW raw \in RawResults
  PROVE  _wrap_as_tool_feedback(raw).retryable \in BOOLEAN
<1>1. \A data : Success(data).retryable \in BOOLEAN
  BY DEF Success, Feedback
<1>2. \A value : Parsed(value).retryable \in BOOLEAN
  <2> SUFFICES ASSUME NEW value PROVE Parsed(value).retryable \in BOOLEAN
    OBVIOUS
  <2>1. CASE "success" \in Given(value.entries)
    BY <1>1, <2>1 DEF Parsed
  <2>2. CASE "success" \notin Given(value.entries) /\ "error" \in Given(value.entries)
    <3>1. Parsed(value) = Feedback("error", "retryable" \in value.entries["error"], Kept(value))
      BY <2>2 DEF Parsed
    <3>2. \A flag : Feedback("error", flag, Kept(value)).retryable = flag
      BY DEF Feedback
    <3>3. ("retryable" \in value.entries["error"]) \in BOOLEAN
      OBVIOUS
    <3>4. Parsed(value).retryable = ("retryable" \in value.entries["error"])
      BY <3>1, <3>2, Zenon
    <3> QED
      BY <3>3, <3>4, Zenon
  <2>3. CASE "success" \notin Given(value.entries) /\ "error" \notin Given(value.entries)
    BY <2>3 DEF Parsed, Feedback
  <2> QED
    BY <2>1, <2>2, <2>3
<1>3. \A value : Plain(value).retryable \in BOOLEAN
  BY <1>1, <1>2 DEF Plain
<1> QED
  BY <1>1, <1>2, <1>3 DEF _wrap_as_tool_feedback

\* A success shows all of its data.
LEMMA SuccessIsShown ==
  ASSUME NEW data
  PROVE  Success(data).outcome = "success" /\ Content(Success(data)) = data
  BY DEF Success, Feedback, Content

\* What a text block has beside its text is plumbing.
LEMMA TextBlockData ==
  ASSUME NEW b, _is_mcp_text_block(b), NEW datum \in StrOne(b), datum[1] \notin Plumbing
  PROVE  datum \in AsText(b.entries["text"])
<1>1. b.kind = "dict" /\ datum \in Entries(b)
  BY DEF _is_mcp_text_block, StrOne
<1>2. PICK key \in DOMAIN b.entries : datum \in Data(key, b.entries[key])
  BY <1>1 DEF Entries
<1>3. datum[1] = key
  BY <1>2 DEF Data
<1>4. key = "text"
  BY <1>2, <1>3 DEF _is_mcp_text_block, Plumbing
<1> QED
  BY <1>2, <1>4 DEF AsText

\* Of a list only the plumbing of text blocks is not shown.
LEMMA ListIsShown ==
  ASSUME NEW raw, Reply(raw).kind = "list", NEW datum \in Str(Reply(raw)),
         datum \notin Content(Plain(Reply(raw)))
  PROVE  PlumbingOfText(raw, datum)
<1> DEFINE reply == Reply(raw)
<1>1. PICK b \in Range(reply.items) : datum \in StrOne(b)
  BY DEF Str
<1>2. CASE /\ reply.items # << >>
           /\ \A block \in Range(reply.items) : _is_mcp_text_block(block)
  <2>1. Plain(reply) = Success(UNION {AsText(block.entries["text"]) : block \in Range(reply.items)})
    BY <1>2 DEF Plain
  <2>2. Content(Plain(reply)) = UNION {AsText(block.entries["text"]) : block \in Range(reply.items)}
    BY <2>1, SuccessIsShown
  <2>3. datum \notin AsText(b.entries["text"])
    BY <2>2
  <2>4. datum[1] \in Plumbing
    BY <1>1, <1>2, <2>3, TextBlockData
  <2> QED
    BY <1>2, <2>4 DEF PlumbingOfText, _is_mcp_text_block
<1>3. CASE ~(/\ reply.items # << >>
             /\ \A block \in Range(reply.items) : _is_mcp_text_block(block))
  <2>1. Plain(reply) = Success(Str(reply))
    BY <1>3 DEF Plain
  <2> QED
    BY <2>1, SuccessIsShown
<1> QED
  BY <1>2, <1>3

\* Of a ToolFeedback with an outcome only what is no field, and the query of an
\* error, is not shown.
LEMMA FeedbackIsShown ==
  ASSUME NEW d, Parses(d.entries), Parsed(d).outcome # "neither",
         NEW datum \in Entries(d), datum \notin Content(Parsed(d))
  PROVE  \/ datum[1] \in {"success", "error"} /\ datum[2] \notin Fields[datum[1]]
         \/ datum[1] = "query" /\ "error" \in Given(d.entries)
<1>1. PICK key \in DOMAIN d.entries : datum \in Data(key, d.entries[key])
  BY DEF Entries
<1>2. datum[1] = key /\ datum[2] \in d.entries[key] /\ datum[2] # ""
  BY <1>1 DEF Data
<1>3. key \in {"success", "error", "query"} /\ Fits(key, d.entries[key])
  BY DEF Parses, Fields
<1>4. d.entries[key] # None
  BY <1>2 DEF None
<1>5. key = "query" => datum[2] = "text" /\ datum[2] \in Fields["query"]
  BY <1>2, <1>3, <1>4 DEF Fits, Texts, Fields
<1>6. CASE datum \notin Kept(d)
  <2>1. datum[2] \notin Fields[key]
    BY <1>2, <1>6 DEF Kept
  <2> QED
    BY <1>2, <1>3, <1>5, <2>1
<1>7. CASE datum \in Kept(d)
  <2>1. "success" \notin Given(d.entries)
    BY <1>7, SuccessIsShown DEF Parsed
  <2>2. "error" \in Given(d.entries)
    BY <2>1 DEF Parsed, Feedback
  <2>3. Content(Parsed(d)) = {kept \in Kept(d) : kept[1] = "error"}
    BY <2>1, <2>2 DEF Parsed, Feedback, Content
  <2>4. key \in {"success", "query"}
    BY <1>2, <1>3, <1>7, <2>3
  <2>5. key # "success"
    BY <1>4, <2>1 DEF Given
  <2> QED
    BY <1>2, <2>2, <2>4, <2>5
<1> QED
  BY <1>6, <1>7

\* A content that counts as none has no datum.
LEMMA EmptyContent ==
  ASSUME NEW content, Falsy(content)
  PROVE  Str(content) = {}
<1>1. CASE content = [kind |-> "str", text |-> {""}]
  BY <1>1 DEF Str, StrOne, AsText, Data
<1>2. CASE content = [kind |-> "list", items |-> << >>]
  <2>1. Range(content.items) = {}
    BY <1>2 DEF Range
  <2> QED
    BY <1>2, <2>1 DEF Str
<1> QED
  BY <1>1, <1>2 DEF Falsy

\* Nothing but the named data is lost of a return value with an outcome.
LEMMA NothingTruncated == Truncated = {}
<1> SUFFICES ASSUME NEW raw \in RawResults,
                    _wrap_as_tool_feedback(raw).outcome # "neither",
                    NEW datum \in Lost(raw)
             PROVE  KnownLoss(raw, datum)
  BY DEF Truncated
<1> DEFINE wrapped == _wrap_as_tool_feedback(raw)
           reply == Reply(raw)
<1>1. datum \in Str(reply) \cup Structured(raw) /\ datum \notin Content(wrapped)
  BY DEF Lost, Payload
<1>2. CASE raw.kind = "ToolFeedback"
  <2>1. wrapped = Parsed(raw) /\ Parses(raw.entries)
    BY <1>2, RawResultsAssumption DEF _wrap_as_tool_feedback
  <2>2. datum \in Entries(raw)
    BY <1>1, <1>2 DEF Reply, Str, StrOne, Structured
  <2> QED
    BY <1>1, <1>2, <2>1, <2>2, FeedbackIsShown DEF KnownLoss, NoFieldOfIts, Parses
<1>3. CASE raw.kind = "ToolMessage" /\ Falsy(raw.content)
  <2>1. Str(reply) = {}
    BY <1>3, EmptyContent DEF Reply
  <2>2. CASE raw.structured # None
    <3>1. wrapped = Success(Structured(raw))
      BY <1>3, <2>2 DEF _wrap_as_tool_feedback, HasOnlyStructured
    <3> QED
      BY <1>1, <2>1, <3>1, SuccessIsShown
  <2>3. CASE raw.structured = None
    BY <1>1, <2>1, <2>3 DEF Structured, Data, None
  <2> QED
    BY <2>2, <2>3
<1>4. CASE raw.kind # "ToolFeedback" /\ ~(raw.kind = "ToolMessage" /\ Falsy(raw.content))
  <2>1. wrapped = Plain(reply)
    BY <1>4 DEF _wrap_as_tool_feedback, HasOnlyStructured
  <2>2. CASE datum \in Structured(raw)
    BY <1>4, <2>2 DEF Structured, BesideContent, KnownLoss
  <2>3. CASE datum \in Str(reply) /\ reply.kind = "list"
    BY <1>1, <2>1, <2>3, ListIsShown DEF KnownLoss
  <2>4. CASE datum \in Str(reply) /\ reply.kind = "dict" /\ Parses(reply.entries)
    <3>1. raw.kind = "dict" /\ reply = raw
      BY <2>4, RawResultsAssumption DEF Reply
    <3>2. wrapped = Parsed(raw) /\ datum \in Entries(raw)
      BY <2>1, <2>4, <3>1 DEF Plain, Str, StrOne
    <3>3. \/ datum[1] \in {"success", "error"} /\ datum[2] \notin Fields[datum[1]]
          \/ datum[1] = "query" /\ "error" \in Given(raw.entries)
      BY <1>1, <2>4, <3>1, <3>2, FeedbackIsShown
    <3> QED
      BY <2>4, <3>1, <3>3 DEF KnownLoss, NoFieldOfIts, Parses
  <2>5. CASE /\ datum \in Str(reply) /\ reply.kind # "list"
             /\ ~(reply.kind = "dict" /\ Parses(reply.entries))
    <3>1. wrapped = Success(Str(reply))
      BY <2>1, <2>5 DEF Plain
    <3> QED
      BY <1>1, <2>5, <3>1, SuccessIsShown
  <2> QED
    BY <1>1, <2>2, <2>3, <2>4, <2>5
<1> QED
  BY <1>2, <1>3, <1>4

\* Whatever the tools return, nested dicts and blocks with keys of their own
\* included, the LLM misses no more of it than the plumbing of text blocks,
\* structured content beside other content, nested keys that are no field of the
\* feedback, and the query of an error (base_agent.py:329-341, 682-720,
\* feedback.py:34-60).
THEOREM OnlyKnownDataIsLost == RetrySpec => []OnlyKnownLosses
<1>1. OnlyKnownLosses
  BY NothingTruncated DEF OnlyKnownLosses
<1> QED
  BY <1>1, PTL

-----------------------------------------------------------------------------
(* One step of the retries is a step of the graph, or none *)

LEMMA AnswersAreCalls == ToolAnswers => ToolSucceeds \/ ToolFails \/ ToolReturnsEmpty
<1> SUFFICES ASSUME ToolAnswers PROVE ToolSucceeds \/ ToolFails \/ ToolReturnsEmpty
  OBVIOUS
<1>1. PICK answer \in Outcomes :
        \/ ToolSucceeds \/ ToolReports(answer.retryable) \/ ToolReturnsEmpty
  BY DEF ToolAnswers, Answers
<1>2. answer.retryable \in BOOLEAN
  BY WrappedIsFeedback DEF Outcomes, OutcomeOf
<1>3. ToolReports(answer.retryable) => ToolFails
  BY <1>2 DEF ToolReports, ToolFails, AttemptsTool
<1> QED
  BY <1>1, <1>3

LEMMA StepsAreSteps == [RetryNext]_retryVars => [Next]_vars
<1> SUFFICES ASSUME [RetryNext]_retryVars PROVE [Next]_vars
  OBVIOUS
<1>1. CASE Wake \/ LlmBacksOff \/ ToolBacksOff
  BY <1>1 DEF Wake, LlmBacksOff, ToolBacksOff, BackOff
<1>2. CASE LlmReturns
  BY <1>2 DEF LlmReturns, Next, GraphStep
<1>3. CASE LlmRaises \/ Dies
  BY <1>3 DEF LlmRaises, Dies, Next
<1>4. CASE ToolRaises
  <2>1. ToolFails
    BY <1>4 DEF ToolRaises, ToolFails, AttemptsTool
  <2> QED
    BY <2>1 DEF Next, GraphStep, ToolNode
<1>5. CASE ToolPauses
  BY <1>5 DEF ToolPauses, Next, GraphStep, ToolNode
<1>6. CASE ToolAnswers
  BY <1>6, AnswersAreCalls DEF Next, GraphStep, ToolNode
<1>7. CASE Uninvoked
  BY <1>7 DEF Uninvoked, Next, GraphStep, ToolNode
<1>8. CASE FromOutside
  BY <1>8 DEF FromOutside, Next
<1>9. CASE UNCHANGED retryVars
  BY <1>9 DEF retryVars
<1> QED
  BY <1>1, <1>2, <1>3, <1>4, <1>5, <1>6, <1>7, <1>8, <1>9 DEF RetryNext, AttemptStep

\* With its retries, backoffs and cancellations the agent is an execution of the
\* graph of one-step calls: a call is answered, fails or pauses once, and is
\* charged once, however often it was made (base_agent.py:568-642).
THEOREM RetriesImplementGraph == RetrySpec => ImplementsGraph
<1>1. RetryInit => Init
  BY DEF RetryInit
<1> QED
  BY <1>1, StepsAreSteps, PTL DEF RetrySpec, Spec, ImplementsGraph

\* What is proved of the graph's budget therefore holds with retries as well: no
\* human turn runs more than MAX_TOOL_CALLS tool calls (nodes.py:72-76).
THEOREM RetriesKeepBudget == RetrySpec => []BudgetHeld
  BY RetriesImplementGraph, BudgetIsHeld, PTL DEF ImplementsGraph

\* Retries add no tool rounds to a turn, and nothing but the two budgets of
\* TurnBudget decides how many there are, if the model never omits an id.
THEOREM RetriesKeepTurns ==
  ASSUME ~MayOmitId
  PROVE  RetrySpec => []RoundsBounded /\ ImplementsTurnBudget
<1>1. Spec => []RoundsBounded
  BY TurnsAreBounded
<1>2. Spec => ImplementsTurnBudget
  BY GraphImplementsTurnBudget
<1> QED
  BY <1>1, <1>2, RetriesImplementGraph, PTL DEF ImplementsGraph

\* A call is charged once however often its body ran, and no call is charged that
\* never ran (nodes.py:133-149), unless a tool answers with an empty feedback.
THEOREM RetriesAreNotCharged ==
  ASSUME EmptyTools = {}
  PROVE  RetrySpec => ChargedByRealWork
<1>1. Spec => ChargedByRealWork
  BY ChargesAreExact
<1> QED
  BY <1>1, RetriesImplementGraph, PTL DEF ImplementsGraph

-----------------------------------------------------------------------------
(* Where an invocation may be while it is between two attempts *)

\* Is the call the loop is at the one that is being attempted?
Attempted ==
  /\ local.at \in DOMAIN Batch
  /\ Invokes(Batch[local.at])

\* An invocation that failed before is still in flight, its error was worth
\* another attempt, and one is left.
Retrying ==
  /\ attempt \in Nat
  /\ attempt = 0 => delay = 0 /\ last_error = NoError /\ waited = 0
  /\ attempt > 0 =>
       /\ status = "running" /\ next \in {"agent_node", "error_summary_node", "tool_node"}
       /\ last_error \in Exceptions
       /\ attempt < AttemptLimit(InFlight)
       /\ next = "tool_node" => Attempted /\ _is_retryable_error[last_error]
       /\ next # "tool_node" =>
            last_error.class \in TRANSIENT_LLM_ERRORS \ PERMANENT_LLM_ERRORS

LEMMA InitRetrying == RetryInit => Retrying
  BY DEF RetryInit, Retrying

\* The steps of the graph that invoke nothing, and those from outside, are not
\* enabled between two attempts.
LEMMA NothingElseBetweenAttempts ==
  ASSUME ControlInv, Retrying, Uninvoked \/ FromOutside
  PROVE  attempt = 0
<1>1. local.at \in Nat /\ (attempt > 0 /\ next = "tool_node" => local.at > 0)
  BY TypesInToolNode DEF Retrying, Attempted
<1>2. attempt > 0 => status = "running"
  BY DEF Retrying
<1>3. CASE FromOutside
  BY <1>2, <1>3 DEF FromOutside, HumanTurn, ResumeInterrupt, RetryRun, Retrying
<1>4. InToolNode /\ local = Idle => attempt = 0
  BY <1>1 DEF InToolNode, Idle, Retrying
<1>5. CASE RefuseBatch \/ StartToolCalls
  BY <1>4, <1>5 DEF RefuseBatch, StartToolCalls
<1>6. CASE SkipCallWithoutId \/ ToolNotFound \/ InjectionFails
  <2>1. PICK tc \in Calls : AtCall(tc) /\ ~Invokes(tc)
    BY <1>6 DEF SkipCallWithoutId, ToolNotFound, InjectionFails, Invokes
  <2> QED
    BY <2>1 DEF AtCall, InToolNode, Retrying, Attempted, Batch
<1>7. CASE EndToolCalls
  <2>1. InToolNode /\ local.at = Len(Batch) + 1
    BY <1>7 DEF EndToolCalls, Batch
  <2>2. local.at \notin DOMAIN Batch
    BY <2>1, TypesInToolNode
  <2> QED
    BY <2>1, <2>2 DEF InToolNode, Retrying, Attempted
<1> QED
  BY <1>3, <1>5, <1>6, <1>7 DEF Uninvoked

LEMMA OverRetrying == Over => Retrying'
  BY DEF Over, Retrying

LEMMA NextRetrying == ControlInv /\ Retrying /\ [RetryNext]_retryVars => Retrying'
<1> SUFFICES ASSUME ControlInv, Retrying, [RetryNext]_retryVars PROVE Retrying'
  OBVIOUS
<1>1. CASE Wake
  BY <1>1 DEF Wake, vars, checkpoint, Retrying, Attempted, Batch, AttemptLimit, InFlight
<1>2. CASE LlmBacksOff
  <2>1. PICK e \in Exceptions : RetriesLlm(e) /\ BackOff(e)
    BY <1>2 DEF LlmBacksOff
  <2>2. /\ attempt' = attempt + 1 /\ last_error' = e /\ UNCHANGED vars
        /\ attempt' # llm_retry_max_attempts
        /\ e.class \in TRANSIENT_LLM_ERRORS \ PERMANENT_LLM_ERRORS
    BY <2>1 DEF BackOff, RetriesLlm
  <2>3. /\ status = "running" /\ next \in {"agent_node", "error_summary_node"}
        /\ attempt < llm_retry_max_attempts
    BY <1>2 DEF LlmBacksOff, AttemptsLlm
  <2>4. attempt \in Nat /\ attempt' \in Nat /\ attempt' > 0
        /\ attempt' < llm_retry_max_attempts
    BY <2>2, <2>3, RetriesAssumption DEF Retrying
  <2> QED
    BY <2>2, <2>3, <2>4 DEF vars, Retrying, AttemptLimit, InFlight
<1>3. CASE ToolBacksOff
  <2>1. PICK e \in Exceptions : RetriesTool(e) /\ BackOff(e)
    BY <1>3 DEF ToolBacksOff
  <2>2. /\ attempt' = attempt + 1 /\ last_error' = e /\ UNCHANGED vars
        /\ attempt < max_invoke_retries /\ _is_retryable_error[e]
    BY <2>1 DEF BackOff, RetriesTool
  <2>3. status = "running" /\ next = "tool_node" /\ Attempted
    BY <1>3 DEF ToolBacksOff, AttemptsTool, AtCall, InToolNode, Attempted, Batch
  <2>4. attempt \in Nat /\ attempt' \in Nat /\ attempt' > 0
        /\ attempt' < max_invoke_retries + 1
    BY <2>2, RetriesAssumption DEF Retrying
  <2>5. Attempted'
    BY <2>2, <2>3 DEF vars, checkpoint, Attempted, Batch
  <2> QED
    BY <2>2, <2>3, <2>4, <2>5 DEF vars, Retrying, AttemptLimit, InFlight
<1>4. CASE LlmReturns \/ LlmRaises \/ ToolRaises \/ ToolPauses \/ ToolAnswers \/ Dies
  BY <1>4, OverRetrying
     DEF LlmReturns, LlmRaises, ToolRaises, ToolPauses, ToolAnswers, Answers, Dies, GiveUp
<1>5. CASE Uninvoked \/ FromOutside
  <2>1. attempt = 0 /\ UNCHANGED invocation
    BY <1>5, NothingElseBetweenAttempts DEF Uninvoked, FromOutside
  <2> QED
    BY <2>1 DEF invocation, Retrying
<1>6. CASE UNCHANGED retryVars
  BY <1>6 DEF retryVars, invocation, vars, checkpoint, Retrying, Attempted, Batch,
              AttemptLimit, InFlight
<1> QED
  BY <1>1, <1>2, <1>3, <1>4, <1>5, <1>6 DEF RetryNext, AttemptStep

-----------------------------------------------------------------------------
(* Who gives up *)

\* An invocation that was given up had no attempt left, or an error that gets no
\* other one.
GivenUp ==
  /\ gaveUp.error \in Exceptions \cup {NoError}
  /\ gaveUp # Nothing =>
       /\ gaveUp.tries <= AttemptLimit(gaveUp.who)
       /\ gaveUp.who \in {"llm", "tool"} /\ gaveUp.error \in Exceptions
       /\ gaveUp.who = "llm" =>
            \/ gaveUp.tries = llm_retry_max_attempts
            \/ gaveUp.error.class \notin TRANSIENT_LLM_ERRORS \ PERMANENT_LLM_ERRORS
       /\ gaveUp.who = "tool" =>
            \/ gaveUp.tries = max_invoke_retries + 1
            \/ ~_is_retryable_error[gaveUp.error]

LEMMA NothingGivenUp == gaveUp = Nothing => GivenUp
  BY DEF Nothing, GivenUp

LEMMA NextGivenUp == Retrying /\ GivenUp /\ [RetryNext]_retryVars => GivenUp'
<1> SUFFICES ASSUME Retrying, GivenUp, [RetryNext]_retryVars PROVE GivenUp'
  OBVIOUS
<1>1. CASE gaveUp' = Nothing
  BY <1>1 DEF Nothing, GivenUp
<1>2. CASE LlmRaises
  <2>1. PICK e \in Exceptions : ~RetriesLlm(e) /\ GiveUp("llm", e)
    BY <1>2 DEF LlmRaises
  <2>2. gaveUp' = [who |-> "llm", tries |-> attempt + 1, error |-> e, waited |-> waited]
    BY <2>1 DEF GiveUp
  <2>3. attempt \in Nat /\ attempt < llm_retry_max_attempts
    BY <1>2 DEF LlmRaises, AttemptsLlm, Retrying
  <2>4. attempt + 1 <= llm_retry_max_attempts
    BY <2>3, RetriesAssumption
  <2>5. \/ attempt + 1 = llm_retry_max_attempts
        \/ e.class \notin TRANSIENT_LLM_ERRORS \ PERMANENT_LLM_ERRORS
    BY <2>1 DEF RetriesLlm
  <2> QED
    BY <2>2, <2>4, <2>5 DEF GivenUp, AttemptLimit
<1>3. CASE ToolRaises
  <2>1. PICK e \in Exceptions : ~RetriesTool(e) /\ GiveUp("tool", e)
    BY <1>3 DEF ToolRaises
  <2>2. gaveUp' = [who |-> "tool", tries |-> attempt + 1, error |-> e, waited |-> waited]
    BY <2>1 DEF GiveUp
  <2>3. next = "tool_node"
    BY <1>3 DEF ToolRaises, AttemptsTool, AtCall, InToolNode
  <2>4. attempt \in Nat /\ attempt <= max_invoke_retries
    BY <2>3, RetriesAssumption DEF Retrying, AttemptLimit, InFlight
  <2>5. attempt = max_invoke_retries \/ ~_is_retryable_error[e]
    BY <2>1, <2>4, RetriesAssumption DEF RetriesTool
  <2>6. attempt + 1 <= max_invoke_retries + 1
    BY <2>4, RetriesAssumption
  <2> QED
    BY <2>2, <2>5, <2>6 DEF GivenUp, AttemptLimit
<1>4. CASE UNCHANGED retryVars
  BY <1>4 DEF retryVars, GivenUp
<1> QED
  BY <1>1, <1>2, <1>3, <1>4
     DEF RetryNext, AttemptStep, Wake, LlmBacksOff, LlmReturns, ToolBacksOff, ToolPauses,
         ToolAnswers, Answers, Uninvoked, Dies, FromOutside, BackOff

-----------------------------------------------------------------------------
(* How often the body of a tool runs *)

\* The attempts that n starts of the node can make of one call.
AttemptsIn(n) == (max_invoke_retries + 1) * n

\* Starts of the node that are over: those that failed, and the one that paused.
Ended == failures + (IF resumed THEN 1 ELSE 0)

\* As Replays, with every start making up to max_invoke_retries + 1 attempts.
BodiesCounted ==
  /\ bodies \in Seq(Nat) /\ DOMAIN bodies = DOMAIN effects
  /\ next # "tool_node" => \A k \in DOMAIN bodies : bodies[k] = 0
  /\ status = "paused" => ~resumed
  /\ \A k \in DOMAIN bodies : bodies[k] <= AttemptsIn(Ended + 1)
  /\ status # "paused" =>
       \A k \in DOMAIN bodies : /\ k > local.at => bodies[k] <= AttemptsIn(Ended)
                                /\ k = local.at => bodies[k] <= AttemptsIn(Ended) + attempt

LEMMA OneMoreStart ==
  ASSUME NEW n \in Nat
  PROVE  /\ AttemptsIn(n) \in Nat /\ AttemptsIn(n + 1) \in Nat
         /\ AttemptsIn(n + 1) = AttemptsIn(n) + max_invoke_retries + 1
  BY RetriesAssumption DEF AttemptsIn

\* Types of the variables the following proofs compute with.
LEMMA BodyTypes ==
  ASSUME ControlInv, Retrying, BodiesCounted
  PROVE  /\ Ended \in Nat /\ local.at \in Nat /\ attempt \in Nat
         /\ AttemptsIn(Ended) \in Nat /\ AttemptsIn(Ended + 1) \in Nat
         /\ AttemptsIn(Ended + 1) = AttemptsIn(Ended) + max_invoke_retries + 1
         /\ max_invoke_retries \in Nat
         /\ \A k \in DOMAIN bodies : k \in Nat /\ k > 0 /\ bodies[k] \in Nat
         /\ next = "tool_node" => attempt <= max_invoke_retries
<1>1. Ended \in Nat /\ local.at \in Nat /\ attempt \in Nat
  BY TypesInToolNode DEF Retrying, Ended
<1>2. \A k \in DOMAIN bodies : k \in Nat /\ k > 0 /\ bodies[k] \in Nat
  BY DEF BodiesCounted
<1>3. next = "tool_node" => attempt <= max_invoke_retries
  BY <1>1, RetriesAssumption DEF Retrying, AttemptLimit, InFlight
<1> QED
  BY <1>1, <1>2, <1>3, OneMoreStart, RetriesAssumption

LEMMA InitBodies == RetryInit => BodiesCounted
<1> SUFFICES ASSUME RetryInit PROVE BodiesCounted
  OBVIOUS
<1>1. bodies = << >> /\ effects = << >> /\ ~resumed
  BY DEF RetryInit, Init
<1> QED
  BY <1>1 DEF BodiesCounted

\* An attempt at the call the loop is at, which moves on behind it or stays.
LEMMA AttemptBodies ==
  ASSUME ControlInv, Retrying, BodiesCounted, InToolNode, local.at \in DOMAIN bodies,
         BodyRuns, DOMAIN effects' = DOMAIN effects, UNCHANGED <<next, status, resumed, failures>>,
         \/ local'.at = local.at + 1 /\ attempt' = 0
         \/ local' = local /\ attempt' = attempt + 1 /\ attempt < max_invoke_retries
  PROVE  BodiesCounted'
<1>1. bodies' = [bodies EXCEPT ![local.at] = bodies[local.at] + 1]
  BY DEF BodyRuns
<1>2. bodies[local.at] + 1 \in Nat /\ DOMAIN bodies' = DOMAIN bodies
  BY <1>1, BodyTypes
<1>3. bodies' \in Seq(Nat)
  BY <1>1, <1>2 DEF BodiesCounted
<1>4. next = "tool_node" /\ next' = "tool_node" /\ status = "running" /\ status' = "running"
  BY DEF InToolNode
<1>5. ASSUME NEW k \in DOMAIN bodies'
      PROVE  /\ bodies'[k] <= AttemptsIn(Ended + 1)
             /\ k > local'.at => bodies'[k] <= AttemptsIn(Ended)
             /\ k = local'.at => bodies'[k] <= AttemptsIn(Ended) + attempt'
  <2>1. k \in DOMAIN bodies /\ k \in Nat /\ bodies[k] \in Nat
    BY <1>2, <1>5, BodyTypes
  <2>2. CASE k = local.at
    <3>1. bodies'[k] = bodies[k] + 1 /\ bodies[k] <= AttemptsIn(Ended) + attempt
      BY <1>1, <1>4, <2>1, <2>2 DEF BodiesCounted
    <3>2. bodies'[k] <= AttemptsIn(Ended) + attempt + 1
      BY <2>1, <3>1, BodyTypes
    <3>3. attempt <= max_invoke_retries
      BY <1>4, BodyTypes
    <3>4. bodies'[k] <= AttemptsIn(Ended + 1)
      BY <2>1, <3>1, <3>2, <3>3, BodyTypes
    <3> QED
      BY <2>1, <2>2, <3>2, <3>4, BodyTypes
  <2>3. CASE k # local.at
    <3>1. bodies'[k] = bodies[k] /\ bodies[k] <= AttemptsIn(Ended + 1)
          /\ (k > local.at => bodies[k] <= AttemptsIn(Ended))
      BY <1>1, <1>4, <2>1, <2>3 DEF BodiesCounted
    <3> QED
      BY <2>1, <2>3, <3>1, BodyTypes
  <2> QED
    BY <2>2, <2>3
<1>6. Ended' = Ended
  BY DEF Ended
<1> QED
  BY <1>2, <1>3, <1>4, <1>5, <1>6 DEF BodiesCounted, AttemptsIn

\* A step that keeps the counts, at a loop that has not moved back.
LEMMA KeepsBodies ==
  ASSUME ControlInv, Retrying, BodiesCounted, UNCHANGED bodies,
         DOMAIN effects' = DOMAIN effects, UNCHANGED <<next, resumed, failures>>,
         (status = "paused") <=> (status' = "paused"),
         \/ local'.at \in Nat /\ local'.at > local.at
         \/ local'.at = local.at /\ attempt' \in Nat /\ attempt' >= attempt,
         attempt' \in Nat
  PROVE  BodiesCounted'
<1>1. ASSUME NEW k \in DOMAIN bodies, status # "paused"
      PROVE  /\ k > local'.at => bodies[k] <= AttemptsIn(Ended)
             /\ k = local'.at => bodies[k] <= AttemptsIn(Ended) + attempt'
  <2>1. k \in Nat /\ bodies[k] \in Nat /\ local.at \in Nat /\ attempt \in Nat
        /\ AttemptsIn(Ended) \in Nat
    BY <1>1, BodyTypes
  <2>2. /\ k > local.at => bodies[k] <= AttemptsIn(Ended)
        /\ k = local.at => bodies[k] <= AttemptsIn(Ended) + attempt
    BY <1>1 DEF BodiesCounted
  <2> QED
    BY <2>1, <2>2
<1>2. Ended' = Ended
  BY DEF Ended
<1> QED
  BY <1>1, <1>2 DEF BodiesCounted, AttemptsIn

\* The node starts over, or another one does.
LEMMA NoBodies == bodies' = << >> /\ effects' = << >> /\ ~resumed' => BodiesCounted'
<1> SUFFICES ASSUME bodies' = << >>, effects' = << >>, ~resumed' PROVE BodiesCounted'
  OBVIOUS
<1>1. bodies' \in Seq(Nat) /\ DOMAIN bodies' = {} /\ DOMAIN effects' = {}
  OBVIOUS
<1> QED
  BY <1>1 DEF BodiesCounted

LEMMA RecordMovesOn ==
  ASSUME NEW error, NEW tries, NEW didInvoke, Record(error, tries, didInvoke)
  PROVE  local'.at = local.at + 1
  BY DEF Record

LEMMA NextBodies ==
  ControlInv /\ Retrying /\ BodiesCounted /\ [RetryNext]_retryVars => BodiesCounted'
<1> SUFFICES ASSUME ControlInv, Retrying, BodiesCounted, [RetryNext]_retryVars
             PROVE  BodiesCounted'
  OBVIOUS
<1>1. attempt \in Nat /\ attempt + 1 \in Nat /\ local.at \in Nat
  BY BodyTypes
<1>2. Retrying'
  BY NextRetrying
<1>3. attempt' \in Nat
  BY <1>2 DEF Retrying
<1>4. CASE Wake \/ LlmBacksOff
  <2>1. UNCHANGED <<vars, bodies>> /\ attempt' >= attempt
    BY <1>1, <1>4 DEF Wake, LlmBacksOff, BackOff
  <2> QED
    BY <1>1, <1>3, <2>1, KeepsBodies DEF vars, ghosts
<1>5. CASE LlmReturns
  <2>2. effects' \in Seq(Nat)
    BY <1>5, NextControl DEF LlmReturns, Next, GraphStep, ControlInv, TypeOK
  <2>3. bodies' = effects' /\ failures' = 0 /\ \A k \in DOMAIN effects' : effects'[k] = 0
    BY <1>5 DEF LlmReturns, AgentNode, ErrorSummaryNode
  <2>4. Ended' \in Nat /\ status' # "paused"
    BY <1>5, <2>3 DEF LlmReturns, AgentNode, ErrorSummaryNode, Ended
  <2>5. AttemptsIn(Ended') >= 0 /\ AttemptsIn(Ended' + 1) >= 0
        /\ AttemptsIn(Ended') + attempt' >= 0
    BY <1>3, <2>4, OneMoreStart
  <2> QED
    BY <2>2, <2>3, <2>4, <2>5 DEF BodiesCounted, AttemptsIn
<1>6. CASE ToolBacksOff
  <2>1. PICK e \in Exceptions : RetriesTool(e) /\ BackOff(e)
    BY <1>6 DEF ToolBacksOff
  <2>2. UNCHANGED vars /\ attempt' = attempt + 1 /\ attempt < max_invoke_retries /\ BodyRuns
    BY <1>6, <2>1 DEF ToolBacksOff, RetriesTool, BackOff
  <2>3. InToolNode /\ local.at \in DOMAIN bodies
    BY <1>6 DEF ToolBacksOff, AttemptsTool, AtCall, BodiesCounted, ControlInv, Control,
                InToolNode, Batch
  <2> QED
    BY <2>2, <2>3, AttemptBodies DEF vars, ghosts
<1>7. CASE \/ ToolRaises
           \/ /\ ToolSucceeds \/ \E retryable \in BOOLEAN : ToolReports(retryable)
              /\ BodyRuns /\ Over
  <2>1. PICK tc \in Calls, error \in BOOLEAN, tries \in Nat :
          AtCall(tc) /\ Record(error, tries, TRUE) /\ RunTool /\ BodyRuns /\ Over
    <3>1. \A retryable \in BOOLEAN :
            AttemptsAfterError(tool_retry_attempts, retryable) \in Nat
      BY TypesInToolNode, AttemptsBounded, BudgetsAssumption
    <3> QED
      BY <1>7, <3>1 DEF ToolRaises, AttemptsTool, GiveUp, ToolSucceeds, ToolReports
  <2>2. local'.at = local.at + 1 /\ attempt' = 0 /\ UNCHANGED <<next, status, resumed, failures>>
    BY <2>1 DEF Record, Over
  <2>3. InToolNode /\ local.at \in DOMAIN bodies
    BY <2>1 DEF AtCall, BodiesCounted, ControlInv, Control, InToolNode, Batch
  <2>4. DOMAIN effects' = DOMAIN effects
    BY <2>1, RunToolEffects
  <2> QED
    BY <2>1, <2>2, <2>3, <2>4, AttemptBodies
<1>8. CASE (ToolReturnsEmpty \/ EndToolCalls \/ RefuseBatch \/ HumanTurn) /\ bodies' = << >>
  BY <1>8, NoBodies DEF ToolReturnsEmpty, EndToolCalls, RefuseBatch, FinishToolNode, HumanTurn
<1>9. CASE ToolPauses
  <2>1. /\ InToolNode /\ local.at \in DOMAIN bodies /\ ~resumed
        /\ status' = "paused" /\ UNCHANGED <<next, resumed, failures, effects>> /\ BodyRuns
    BY <1>9 DEF ToolPauses, ToolInterrupts, AtCall, BodiesCounted, ControlInv, Control,
                InToolNode, Batch, ghosts
  <2>2. bodies' = [bodies EXCEPT ![local.at] = bodies[local.at] + 1]
    BY <2>1 DEF BodyRuns
  <2>3. bodies' \in Seq(Nat) /\ DOMAIN bodies' = DOMAIN bodies
    BY <2>1, <2>2, BodyTypes DEF BodiesCounted
  <2>4. status = "running" /\ next = "tool_node"
    BY <2>1 DEF InToolNode
  <2>5. \A k \in DOMAIN bodies' : bodies'[k] <= AttemptsIn(Ended + 1)
    <3> SUFFICES ASSUME NEW k \in DOMAIN bodies' PROVE bodies'[k] <= AttemptsIn(Ended + 1)
      OBVIOUS
    <3>1. CASE k = local.at
      <4>1. bodies'[k] = bodies[k] + 1 /\ bodies[k] <= AttemptsIn(Ended) + attempt
        BY <2>2, <2>3, <2>4, <3>1 DEF BodiesCounted
      <4> QED
        BY <2>3, <2>4, <4>1, BodyTypes
    <3>2. CASE k # local.at
      BY <2>2, <2>3, <3>2 DEF BodiesCounted
    <3> QED
      BY <3>1, <3>2
  <2>6. Ended' = Ended
    BY <2>1 DEF Ended
  <2> QED
    BY <2>1, <2>3, <2>4, <2>5, <2>6 DEF BodiesCounted, AttemptsIn
<1>10. CASE Dies \/ LlmRaises
  <2>1. NodeFails /\ UNCHANGED bodies /\ attempt' = 0
    BY <1>10 DEF Dies, LlmRaises, GiveUp, Over
  <2>2. /\ failures' = failures + 1 /\ local' = Idle /\ UNCHANGED <<next, effects, resumed>>
        /\ status' = "stopped"
    BY <2>1 DEF NodeFails, ghosts
  <2>3. Ended' = Ended + 1
    BY <2>2, TypesInToolNode DEF Ended
  <2>4. \A k \in DOMAIN bodies : bodies[k] \in Nat /\ bodies[k] <= AttemptsIn(Ended + 1)
    BY BodyTypes DEF BodiesCounted
  <2>5. /\ AttemptsIn(Ended + 1) \in Nat /\ AttemptsIn(Ended + 1 + 1) \in Nat
        /\ AttemptsIn(Ended + 1 + 1) >= AttemptsIn(Ended + 1)
    BY BodyTypes, OneMoreStart
  <2>6. \A k \in DOMAIN bodies : /\ bodies[k] <= AttemptsIn(Ended + 1) + 0
                                 /\ bodies[k] <= AttemptsIn(Ended + 1 + 1)
    BY <2>4, <2>5
  <2> QED
    BY <2>1, <2>2, <2>3, <2>4, <2>6 DEF BodiesCounted, AttemptsIn
<1>11. CASE /\ StartToolCalls \/ SkipCallWithoutId \/ ToolNotFound \/ InjectionFails
            /\ UNCHANGED <<bodies, attempt>>
  <2>1. local'.at = local.at + 1
    <3>1. StartToolCalls => local'.at = local.at + 1
      BY DEF StartToolCalls, Idle
    <3>2. SkipCallWithoutId => local'.at = local.at + 1
      <4>1. local \in Locals
        BY DEF ControlInv, TypeOK
      <4> QED
        BY <4>1 DEF SkipCallWithoutId, Locals
    <3>3. ToolNotFound \/ InjectionFails => local'.at = local.at + 1
      BY RecordMovesOn DEF ToolNotFound, InjectionFails
    <3> QED
      BY <1>11, <3>1, <3>2, <3>3
  <2>2. UNCHANGED <<next, status, resumed, failures, effects>>
    BY <1>11 DEF StartToolCalls, SkipCallWithoutId, ToolNotFound, InjectionFails, Record, ghosts
  <2>3. local'.at \in Nat /\ local'.at > local.at
    BY <1>1, <2>1
  <2> QED
    BY <1>1, <1>11, <2>2, <2>3, KeepsBodies
<1>12. CASE (ResumeInterrupt \/ RetryRun) /\ UNCHANGED <<bodies, attempt>>
  <2>1. CASE ResumeInterrupt
    <3>1. /\ status = "paused" /\ status' = "running" /\ resumed'
          /\ UNCHANGED <<next, failures, effects, bodies, attempt, local>>
      BY <1>12, <2>1 DEF ResumeInterrupt, ghosts
    <3>2. Ended' = Ended + 1
      BY <3>1, TypesInToolNode DEF Ended, BodiesCounted
    <3>3. \A k \in DOMAIN bodies : bodies[k] \in Nat /\ bodies[k] <= AttemptsIn(Ended + 1)
      BY BodyTypes DEF BodiesCounted
    <3>4. /\ AttemptsIn(Ended + 1) \in Nat /\ AttemptsIn(Ended + 1 + 1) \in Nat
          /\ AttemptsIn(Ended + 1 + 1) >= AttemptsIn(Ended + 1)
      BY BodyTypes, OneMoreStart
    <3>5. \A k \in DOMAIN bodies : /\ bodies[k] <= AttemptsIn(Ended + 1) + attempt
                                   /\ bodies[k] <= AttemptsIn(Ended + 1 + 1)
      BY <1>1, <3>3, <3>4
    <3> QED
      BY <3>1, <3>2, <3>3, <3>5 DEF BodiesCounted, AttemptsIn
  <2>2. CASE RetryRun
    BY <1>1, <1>12, <2>2, KeepsBodies DEF RetryRun, ghosts
  <2> QED
    BY <1>12, <2>1, <2>2
<1>13. CASE ToolAnswers
  <2>1. PICK answer \in Outcomes :
          \/ ToolSucceeds /\ BodyRuns
          \/ ToolReports(answer.retryable) /\ BodyRuns
          \/ ToolReturnsEmpty /\ bodies' = << >>
    BY <1>13 DEF ToolAnswers, Answers
  <2>2. answer.retryable \in BOOLEAN
    BY WrappedIsFeedback DEF Outcomes, OutcomeOf
  <2> QED
    BY <1>7, <1>8, <1>13, <2>1, <2>2 DEF ToolAnswers, Answers
<1>14. CASE Uninvoked
  <2>1. UNCHANGED attempt
    BY <1>14 DEF Uninvoked, invocation
  <2>2. RefuseBatch \/ EndToolCalls => next' # next
    BY DEF RefuseBatch, EndToolCalls, InToolNode, FinishToolNode
  <2>3. StartToolCalls \/ SkipCallWithoutId \/ ToolNotFound \/ InjectionFails => next' = next
    BY DEF StartToolCalls, SkipCallWithoutId, ToolNotFound, InjectionFails, Record
  <2> QED
    BY <1>8, <1>11, <1>14, <2>1, <2>2, <2>3 DEF Uninvoked
<1>15. CASE FromOutside
  <2>1. UNCHANGED attempt
    BY <1>15 DEF FromOutside, invocation
  <2>2. HumanTurn => turn' # turn
    BY BudgetsAssumption DEF HumanTurn, ControlInv, TypeOK
  <2>3. ResumeInterrupt \/ RetryRun => turn' = turn
    BY DEF ResumeInterrupt, RetryRun, ghosts
  <2> QED
    BY <1>8, <1>12, <1>15, <2>1, <2>2, <2>3 DEF FromOutside
<1>16. CASE UNCHANGED retryVars
  BY <1>1, <1>16, KeepsBodies DEF retryVars, vars, ghosts, invocation
<1> QED
  BY <1>4, <1>5, <1>6, <1>7, <1>9, <1>10, <1>13, <1>14, <1>15, <1>16
     DEF RetryNext, AttemptStep

-----------------------------------------------------------------------------
(* Theorems of the retries *)

RetryInv == ControlInv /\ Retrying /\ GivenUp /\ BodiesCounted

LEMMA RetryInvariant == RetrySpec => []RetryInv
<1>1. RetryInit => RetryInv
  BY InitControl, InitRetrying, NothingGivenUp, InitBodies DEF RetryInit, RetryInv
<1>2. RetryInv /\ [RetryNext]_retryVars => RetryInv'
  BY StepsAreSteps, NextControl, NextRetrying, NextGivenUp, NextBodies DEF RetryInv
<1> QED
  BY <1>1, <1>2, PTL DEF RetrySpec

\* However often an answer is lost, the side effects of one tool call are bounded:
\* max_invoke_retries + 1 runs for each start of the node, the starts being the
\* first, one for each failure and one for the pause (base_agent.py:799-815, 568-642).
THEOREM RepeatsAreBounded == RetrySpec => []RepeatsBounded
<1>1. RetryInv => RepeatsBounded
  <2> SUFFICES ASSUME RetryInv PROVE RepeatsBounded
    OBVIOUS
  <2>1. Ended + 1 = Starts
    BY TypesInToolNode DEF RetryInv, Ended, Starts
  <2> QED
    BY <2>1 DEF RetryInv, BodiesCounted, AttemptsIn, RepeatsBounded
<1> QED
  BY <1>1, RetryInvariant, PTL

LEMMA DelayTypes == RetrySpec => [](delay \in {0} \cup {Delay(n) : n \in 0..attempt})
<1>1. RetryInit => delay \in {0} \cup {Delay(n) : n \in 0..attempt}
  BY DEF RetryInit
<1>2. RetryInv /\ delay \in {0} \cup {Delay(n) : n \in 0..attempt} /\ [RetryNext]_retryVars
        => (delay \in {0} \cup {Delay(n) : n \in 0..attempt})'
  <2> SUFFICES ASSUME RetryInv, delay \in {0} \cup {Delay(n) : n \in 0..attempt},
                      [RetryNext]_retryVars
               PROVE  delay' \in {0} \cup {Delay(n) : n \in 0..attempt'}
    OBVIOUS
  <2>1. attempt \in Nat
    BY DEF RetryInv, Retrying
  <2>2. CASE \E e \in Exceptions : BackOff(e)
    <3>1. attempt' = attempt + 1 /\ delay' = Delay(attempt)
      BY <2>2 DEF BackOff
    <3>2. attempt \in 0..attempt'
      BY <2>1, <3>1
    <3> QED
      BY <3>1, <3>2
  <2>3. CASE delay' = 0
    BY <2>3
  <2>4. CASE UNCHANGED invocation
    BY <2>4 DEF invocation
  <2> QED
    BY <2>2, <2>3, <2>4
       DEF RetryNext, AttemptStep, Wake, LlmBacksOff, LlmReturns, LlmRaises, ToolBacksOff,
           ToolRaises, ToolPauses, ToolAnswers, Answers, Uninvoked, Dies, FromOutside,
           GiveUp, Over,
           retryVars, invocation
<1> QED
  BY <1>1, <1>2, RetryInvariant, PTL DEF RetrySpec

\* Neither retry loop ever falls through to the assertion behind it, or forgets an
\* error between two attempts (base_agent.py:787-788, 820-821).
THEOREM RetryTypesHold == RetrySpec => []RetryTypeOK
<1>1. RetryInv /\ delay \in {0} \cup {Delay(n) : n \in 0..attempt} => RetryTypeOK
  <2> SUFFICES ASSUME RetryInv, delay \in {0} \cup {Delay(n) : n \in 0..attempt}
               PROVE  RetryTypeOK
    OBVIOUS
  <2>1. attempt \in Nat /\ (attempt = 0 => delay = 0)
    BY DEF RetryInv, Retrying
  <2>2. delay > 0 => attempt > 0
    BY <2>1
  <2>3. /\ attempt = 0 \/ attempt < AttemptLimit(InFlight)
        /\ last_error \in Exceptions \cup {NoError}
        /\ last_error = NoError <=> attempt = 0
    BY <2>1, ExceptionsAssumption DEF RetryInv, Retrying
  <2> QED
    BY <2>2, <2>3 DEF RetryInv, GivenUp, BodiesCounted, RetryTypeOK
<1> QED
  BY <1>1, RetryInvariant, DelayTypes, PTL

-----------------------------------------------------------------------------
(* How long the sleeps are *)

\* Powers are not folds, but induction is the same for all.
Induction == INSTANCE Folding WITH op <- LAMBDA x, y : x

\* The first n doublings.
Doubling(r, n) == r[0] = 1 /\ \A k \in 1..n : r[k] = 2 * r[k - 1]

\* There is such a list of any length, and only one.
LEMMA DoublingExists ==
  ASSUME NEW n \in Nat
  PROVE  \E r : Doubling(r, n)
<1> DEFINE H == {m \in Nat : \E r : Doubling(r, m)}
<1>1. 0 \in H
  <2>1. Doubling([k \in {0} |-> 1], 0)
    BY DEF Doubling
  <2> QED
    BY <2>1
<1>2. ASSUME NEW m \in H PROVE m + 1 \in H
  <2>1. PICK r : Doubling(r, m)
    OBVIOUS
  <2> DEFINE s == [k \in 0..(m + 1) |-> IF k = m + 1 THEN 2 * r[m] ELSE r[k]]
  <2>2. s[0] = 1
    BY <2>1 DEF Doubling
  <2>3. ASSUME NEW k \in 1..(m + 1) PROVE s[k] = 2 * s[k - 1]
    <3>1. k - 1 \in 0..m /\ k - 1 # m + 1 /\ k - 1 \in 0..(m + 1)
      OBVIOUS
    <3>2. s[k - 1] = r[k - 1]
      BY <3>1
    <3>3. CASE k = m + 1
      BY <3>2, <3>3
    <3>4. CASE k # m + 1
      BY <2>1, <3>2, <3>4 DEF Doubling
    <3> QED
      BY <3>3, <3>4
  <2> HIDE DEF s
  <2>4. Doubling(s, m + 1)
    BY <2>2, <2>3 DEF Doubling
  <2> QED
    BY <2>4
<1>3. H = Nat
  <2>1. H \in SUBSET Nat
    OBVIOUS
  <2> HIDE DEF H
  <2> QED
    BY <1>1, <1>2, <2>1, Induction!NatInductionOnSets
<1> QED
  BY <1>3

LEMMA DoublingUnique ==
  ASSUME NEW n \in Nat, NEW r, NEW s, Doubling(r, n), Doubling(s, n)
  PROVE  r[n] = s[n]
<1> DEFINE H == {k \in Nat : r[k] = s[k]}
<1>1. 0 \in H
  BY DEF Doubling
<1>2. \A k \in 0..(n - 1) : k \in H => k + 1 \in H
  <2> SUFFICES ASSUME NEW k \in 0..(n - 1), r[k] = s[k] PROVE r[k + 1] = s[k + 1]
    OBVIOUS
  <2>1. k + 1 \in 1..n /\ (k + 1) - 1 = k
    OBVIOUS
  <2> QED
    BY <2>1 DEF Doubling
<1>3. 0..n \subseteq H
  <2> HIDE DEF H
  <2> QED
    BY <1>1, <1>2, Induction!IntervalInduction
<1> QED
  BY <1>3

\* 2 ** n doubles with each n.
LEMMA DoubledDoubles ==
  /\ Doubled[0] = 1
  /\ \A n \in Nat : Doubled[n] \in Nat /\ Doubled[n] > 0 /\ Doubled[n + 1] = 2 * Doubled[n]
<1> DEFINE f == [n \in Nat |-> (CHOOSE r : Doubling(r, n))[n]]
           IsDoubled(g) == g = [n \in Nat |-> IF n = 0 THEN 1 ELSE 2 * g[n - 1]]
<1>1. ASSUME NEW n \in Nat PROVE f[n] = IF n = 0 THEN 1 ELSE 2 * f[n - 1]
  <2> DEFINE r == CHOOSE r : Doubling(r, n)
  <2>1. Doubling(r, n) /\ f[n] = r[n]
    BY DoublingExists
  <2> HIDE DEF r
  <2>2. CASE n = 0
    BY <2>1, <2>2 DEF Doubling
  <2>3. CASE n # 0
    <3>1. PICK m \in Nat : m = n - 1
      BY <2>3
    <3> DEFINE s == CHOOSE s : Doubling(s, m)
    <3>2. Doubling(s, m) /\ f[m] = s[m]
      BY DoublingExists
    <3> HIDE DEF s, f
    <3>3. Doubling(r, m)
      <4>1. \A k \in 1..m : k \in 1..n
        BY <3>1
      <4> QED
        BY <2>1, <4>1 DEF Doubling
    <3>4. r[m] = s[m]
      BY <3>2, <3>3, DoublingUnique
    <3>5. r[n] = 2 * r[n - 1]
      BY <2>1, <2>3 DEF Doubling
    <3> QED
      BY <2>1, <2>3, <3>1, <3>2, <3>4, <3>5
  <2> QED
    BY <2>2, <2>3
<1>2. IsDoubled(f)
  <2>1. f = [n \in Nat |-> f[n]]
    OBVIOUS
  <2> HIDE DEF f
  <2> QED
    BY <1>1, <2>1
<1>3. IsDoubled(Doubled)
  <2> HIDE DEF IsDoubled
  <2>1. IsDoubled(CHOOSE g : IsDoubled(g))
    BY <1>2
  <2> QED
    BY <2>1 DEF Doubled, IsDoubled
<1>4. Doubled[0] = 1
  BY <1>3
<1>5. ASSUME NEW n \in Nat PROVE Doubled[n + 1] = 2 * Doubled[n]
  <2>1. n + 1 \in Nat /\ n + 1 # 0 /\ (n + 1) - 1 = n
    OBVIOUS
  <2> QED
    BY <1>3, <2>1
<1> HIDE DEF IsDoubled
<1> DEFINE H == {n \in Nat : Doubled[n] \in Nat /\ Doubled[n] > 0}
<1>6. H \in SUBSET Nat /\ 0 \in H
  BY <1>4
<1>7. ASSUME NEW n \in H PROVE n + 1 \in H
  <2>1. PICK d \in Nat : d = Doubled[n] /\ d > 0
    OBVIOUS
  <2> QED
    BY <1>5, <2>1
<1>8. H = Nat
  <2> HIDE DEF H
  <2> QED
    BY <1>6, <1>7, Induction!NatInductionOnSets
<1> QED
  BY <1>4, <1>5, <1>8

\* The sleeps of an invocation so far, with the one it is in, are 1 + 2 + 4 + ...
Slept == delay \in Nat /\ waited \in Nat /\ waited + delay + 1 = Doubled[attempt]

SleptBetween ==
  gaveUp # Nothing => gaveUp.tries - 1 \in Nat /\ gaveUp.waited + 1 = Doubled[gaveUp.tries - 1]

\* A sleep adds as much as all attempts before it, and one unit.
LEMMA SleptStep ==
  ASSUME Retrying, Slept, SleptBetween, [RetryNext]_retryVars
  PROVE  Slept' /\ SleptBetween'
<1>1. CASE UNCHANGED invocation /\ (gaveUp' = Nothing \/ UNCHANGED gaveUp)
  BY <1>1 DEF invocation, Slept, SleptBetween, Nothing
<1>2. CASE Over /\ gaveUp' = Nothing
  BY <1>2, DoubledDoubles DEF Over, Slept, SleptBetween
<1>3. CASE delay = 0 /\ \E e \in Exceptions : BackOff(e)
  <2>1. /\ attempt' = attempt + 1 /\ delay' = Doubled[attempt] /\ waited' = waited
        /\ gaveUp' = Nothing
    BY <1>3 DEF BackOff, Delay
  <2>2. PICK d \in Nat : d = Doubled[attempt] /\ Doubled[attempt + 1] = 2 * d
    BY DoubledDoubles DEF Retrying
  <2>3. waited \in Nat /\ waited + 1 = d
    BY <1>3, <2>2 DEF Slept
  <2>4. waited + d + 1 = 2 * d
    BY <2>3
  <2> QED
    BY <2>1, <2>2, <2>3, <2>4 DEF Slept, SleptBetween
<1>4. CASE Wake
  <2>1. waited' = waited + delay /\ delay' = 0 /\ attempt' = attempt /\ gaveUp' = Nothing
    BY <1>4 DEF Wake
  <2> QED
    BY <2>1 DEF Slept, SleptBetween
<1>5. CASE delay = 0 /\ \E e \in Exceptions, whose \in {"llm", "tool"} : GiveUp(whose, e)
  <2>1. Over /\ gaveUp'.tries = attempt + 1 /\ gaveUp'.waited = waited
    BY <1>5 DEF GiveUp
  <2>2. gaveUp'.tries - 1 = attempt /\ attempt \in Nat
    BY <2>1 DEF Retrying
  <2>3. waited + 1 = Doubled[attempt]
    BY <1>5 DEF Slept
  <2> QED
    BY <2>1, <2>2, <2>3, DoubledDoubles DEF Over, Slept, SleptBetween
<1> QED
  BY <1>1, <1>2, <1>3, <1>4, <1>5
     DEF RetryNext, AttemptStep, LlmBacksOff, LlmReturns, LlmRaises, AttemptsLlm, ToolBacksOff,
         ToolRaises, AttemptsTool, ToolPauses, ToolAnswers, Answers, Uninvoked, Dies,
         FromOutside, retryVars

\* Nobody waits behind the last attempt, and between n attempts everybody waits
\* 2 ** (n - 1) - 1 units in all (base_agent.py:775-786, 806-817).
THEOREM SleepsAreBetweenAttempts == RetrySpec => []SleepsBetweenAttempts
<1>1. RetryInit => Slept /\ SleptBetween
  BY DoubledDoubles DEF RetryInit, Slept, SleptBetween
<1>2. RetryInv /\ Slept /\ SleptBetween /\ [RetryNext]_retryVars => (Slept /\ SleptBetween)'
  BY SleptStep DEF RetryInv
<1>3. SleptBetween => SleepsBetweenAttempts
  BY DEF SleptBetween, SleepsBetweenAttempts
<1> QED
  BY <1>1, <1>2, <1>3, RetryInvariant, PTL DEF RetrySpec

-----------------------------------------------------------------------------
(* Which errors are tried again *)

\* Both functions on nested groups are least fixed points, and as exceptions nest
\* there is only one.  The walk through the groups finds a transient error.
Walks(f) ==
  f = [e \in Exceptions |-> IF e.class = ExceptionGroup THEN \E sub \in e.exceptions : f[sub]
                            ELSE e.class \in TRANSIENT_LLM_ERRORS]

\* The least set of errors in which a transient one, and a group of one of the set, are.
LEMMA WalkExists == \E f : Walks(f)
<1> DEFINE Found(T, e) == IF e.class = ExceptionGroup THEN e.exceptions \cap T # {}
                          ELSE e.class \in TRANSIENT_LLM_ERRORS
           Closed(T) == T \subseteq Exceptions /\ \A e \in Exceptions : Found(T, e) => e \in T
           Least == {e \in Exceptions : \A T \in SUBSET Exceptions : Closed(T) => e \in T}
           f == [e \in Exceptions |-> IF e \in Least THEN TRUE ELSE FALSE]
<1>1. ASSUME NEW T \in SUBSET Exceptions, Closed(T) PROVE Least \subseteq T
  BY <1>1
<1>2. Closed(Least)
  <2> SUFFICES ASSUME NEW e \in Exceptions, Found(Least, e),
                      NEW T \in SUBSET Exceptions, Closed(T)
               PROVE  e \in T
    OBVIOUS
  <2>1. Least \subseteq T
    BY <1>1
  <2> HIDE DEF Least
  <2>2. Found(T, e)
    BY <2>1
  <2> QED
    BY <2>2
<1>3. \A e \in Least : Found(Least, e)
  <2> SUFFICES ASSUME NEW e \in Least, ~Found(Least, e) PROVE FALSE
    OBVIOUS
  <2> DEFINE T == Least \ {e}
  <2>1. Closed(T)
    <3> SUFFICES ASSUME NEW d \in Exceptions, Found(T, d) PROVE d \in T
      OBVIOUS
    <3>1. Found(Least, d)
      <4> HIDE DEF Least
      <4> QED
        OBVIOUS
    <3> QED
      BY <1>2, <3>1
  <2>2. T \in SUBSET Exceptions
    OBVIOUS
  <2> HIDE DEF T
  <2>3. Least \subseteq T
    BY <1>1, <2>1, <2>2
  <2> QED
    BY <2>3 DEF T
<1>4. Least \subseteq Exceptions
  OBVIOUS
<1> HIDE DEF Least
<1>5. ASSUME NEW e \in Exceptions
      PROVE  f[e] = IF e.class = ExceptionGroup THEN \E sub \in e.exceptions : f[sub]
                    ELSE e.class \in TRANSIENT_LLM_ERRORS
  <2>1. e.exceptions \subseteq Exceptions
    BY ExceptionsAssumption
  <2>2. e \in Least <=> Found(Least, e)
    BY <1>2, <1>3
  <2>3. \A d \in Exceptions : (d \in Least => f[d] = TRUE) /\ (d \notin Least => f[d] = FALSE)
    OBVIOUS
  <2> HIDE DEF f
  <2>4. e.exceptions \cap Least # {} <=> \E sub \in e.exceptions : f[sub]
    BY <2>1, <2>3
  <2>5. CASE e.class = ExceptionGroup
    <3>1. Found(Least, e) <=> e.exceptions \cap Least # {}
      BY <2>5
    <3>2. e \in Least <=> \E sub \in e.exceptions : f[sub]
      <4> HIDE DEF Found
      <4> QED
        BY <2>2, <2>4, <3>1, Zenon
    <3>3. f[e] = \E sub \in e.exceptions : f[sub]
      <4>1. CASE e \in Least
        <5>1. f[e] = TRUE /\ (\E sub \in e.exceptions : f[sub]) = TRUE
          BY <2>3, <3>2, <4>1
        <5> QED
          BY <5>1
      <4>2. CASE e \notin Least
        <5>1. f[e] = FALSE
          BY <2>3, <4>2
        <5>2. ~ \E sub \in e.exceptions : f[sub]
          BY <3>2, <4>2
        <5>3. (\E sub \in e.exceptions : f[sub]) = FALSE
          BY <5>2, Zenon
        <5> QED
          BY <5>1, <5>3, Zenon
      <4> QED
        BY <4>1, <4>2
    <3> QED
      BY <2>5, <3>3, Zenon
  <2>6. CASE e.class # ExceptionGroup
    <3>1. e \in Least <=> e.class \in TRANSIENT_LLM_ERRORS
      BY <2>2, <2>6
    <3>2. CASE e.class \in TRANSIENT_LLM_ERRORS
      <4>1. f[e] = TRUE /\ (e.class \in TRANSIENT_LLM_ERRORS) = TRUE
        BY <2>3, <3>1, <3>2
      <4> QED
        BY <2>6, <4>1
    <3>3. CASE e.class \notin TRANSIENT_LLM_ERRORS
      <4>1. f[e] = FALSE /\ (e.class \in TRANSIENT_LLM_ERRORS) = FALSE
        BY <2>3, <3>1, <3>3
      <4> QED
        BY <2>6, <4>1
    <3> QED
      BY <3>2, <3>3
  <2> QED
    BY <2>5, <2>6
<1>6. f = [e \in Exceptions |-> f[e]]
  OBVIOUS
<1> HIDE DEF f
<1>7. Walks(f)
  BY <1>5, <1>6 DEF Walks
<1> QED
  BY <1>7

LEMMA WalkIsWalk == Walks(_is_retryable_error)
<1>1. Walks(CHOOSE f : Walks(f))
  BY WalkExists
<1> QED
  BY <1>1 DEF _is_retryable_error, Walks

\* The causes of an exception.
Collects(f) ==
  f = [e \in Exceptions |-> IF e.exceptions = {} THEN {e.class}
                            ELSE UNION {f[sub] : sub \in e.exceptions}]

\* The least relation of errors and causes that hands up what is in a group.
LEMMA CausesExist == \E f : Collects(f)
<1> DEFINE Classes == {e.class : e \in Exceptions}
           Pairs == Exceptions \X Classes
           Found(T, e, c) == IF e.exceptions = {} THEN c = e.class
                             ELSE \E sub \in e.exceptions : <<sub, c>> \in T
           Closed(T) == \A e \in Exceptions, c \in Classes : Found(T, e, c) => <<e, c>> \in T
           Least == {p \in Pairs : \A T \in SUBSET Pairs : Closed(T) => p \in T}
           f == [e \in Exceptions |-> {c \in Classes : <<e, c>> \in Least}]
<1>1. ASSUME NEW T \in SUBSET Pairs, Closed(T) PROVE Least \subseteq T
  BY <1>1
<1>2. Closed(Least)
  <2> SUFFICES ASSUME NEW e \in Exceptions, NEW c \in Classes, Found(Least, e, c),
                      NEW T \in SUBSET Pairs, Closed(T)
               PROVE  <<e, c>> \in T
    OBVIOUS
  <2>1. Least \subseteq T
    BY <1>1
  <2> HIDE DEF Least
  <2>2. Found(T, e, c)
    BY <2>1
  <2> QED
    BY <2>2
<1>3. \A e \in Exceptions, c \in Classes : <<e, c>> \in Least => Found(Least, e, c)
  <2> SUFFICES ASSUME NEW e \in Exceptions, NEW c \in Classes, <<e, c>> \in Least,
                      ~Found(Least, e, c)
               PROVE  FALSE
    OBVIOUS
  <2> DEFINE T == Least \ {<<e, c>>}
  <2>1. Closed(T)
    <3> SUFFICES ASSUME NEW d \in Exceptions, NEW b \in Classes, Found(T, d, b)
                 PROVE  <<d, b>> \in T
      OBVIOUS
    <3>1. Found(Least, d, b)
      <4> HIDE DEF Least
      <4> QED
        OBVIOUS
    <3>2. <<d, b>> \in Least
      BY <1>2, <3>1
    <3>3. <<d, b>> # <<e, c>>
      <4> HIDE DEF Found, Least
      <4> QED
        BY <3>1
    <3> QED
      BY <3>2, <3>3
  <2>2. T \in SUBSET Pairs
    OBVIOUS
  <2> HIDE DEF T
  <2>3. Least \subseteq T
    BY <1>1, <2>1, <2>2
  <2> QED
    BY <2>3 DEF T
<1> HIDE DEF Least, Closed
<1>4. ASSUME NEW e \in Exceptions
      PROVE  f[e] = IF e.exceptions = {} THEN {e.class} ELSE UNION {f[sub] : sub \in e.exceptions}
  <2>1. e.exceptions \subseteq Exceptions /\ e.class \in Classes
    BY ExceptionsAssumption
  <2>2. \A d \in Exceptions : f[d] = {c \in Classes : <<d, c>> \in Least}
    OBVIOUS
  <2> HIDE DEF f
  <2>3. \A c \in Classes : <<e, c>> \in Least <=> Found(Least, e, c)
    BY <1>2, <1>3 DEF Closed
  <2> HIDE DEF Classes
  <2>4. CASE e.exceptions = {}
    BY <2>1, <2>2, <2>3, <2>4
  <2>5. CASE e.exceptions # {}
    <3>1. ASSUME NEW c \in f[e] PROVE c \in UNION {f[sub] : sub \in e.exceptions}
      <4>1. c \in Classes /\ <<e, c>> \in Least
        BY <2>2
      <4>2. PICK sub \in e.exceptions : <<sub, c>> \in Least
        BY <2>3, <2>5, <4>1
      <4>3. c \in f[sub]
        BY <2>1, <2>2, <4>1, <4>2
      <4> QED
        BY <4>3
    <3>2. ASSUME NEW sub \in e.exceptions, NEW c \in f[sub] PROVE c \in f[e]
      <4>1. c \in Classes /\ <<sub, c>> \in Least
        BY <2>1, <2>2
      <4>2. Found(Least, e, c)
        BY <2>5, <4>1
      <4> QED
        BY <2>2, <2>3, <4>1, <4>2
    <3>3. f[e] = UNION {f[sub] : sub \in e.exceptions}
      BY <3>1, <3>2
    <3> QED
      BY <2>5, <3>3
  <2> QED
    BY <2>4, <2>5
<1>5. f = [e \in Exceptions |-> f[e]]
  OBVIOUS
<1> HIDE DEF f
<1>6. Collects(f)
  BY <1>4, <1>5 DEF Collects
<1> QED
  BY <1>6

LEMMA CausesCollect == Collects(Causes)
<1>1. Collects(CHOOSE f : Collects(f))
  BY CausesExist
<1> QED
  BY <1>1 DEF Causes, Collects

\* An error is retried if and only if it has a transient cause, however deep.  Of
\* the errors of which this is false one would hold no other.
LEMMA Agree ==
  \A e \in Exceptions : _is_retryable_error[e] <=> Causes[e] \cap TRANSIENT_LLM_ERRORS # {}
<1> DEFINE Right(e) == _is_retryable_error[e] <=> Causes[e] \cap TRANSIENT_LLM_ERRORS # {}
           wrong == {e \in Exceptions : ~Right(e)}
<1> SUFFICES ASSUME wrong # {} PROVE FALSE
  OBVIOUS
<1>1. PICK e \in wrong : e.exceptions \cap wrong = {}
  <2>1. wrong \in (SUBSET Exceptions) \ {{}}
    OBVIOUS
  <2> HIDE DEF wrong
  <2> QED
    BY <2>1, ExceptionsNest
<1>2. /\ e \in Exceptions /\ e.exceptions \subseteq Exceptions
      /\ e.class = ExceptionGroup <=> e.exceptions # {}
  BY ExceptionsAssumption
<1>3. \A sub \in e.exceptions : Right(sub)
  BY <1>1, <1>2
<1>4. /\ _is_retryable_error[e] = IF e.class = ExceptionGroup
                                  THEN \E sub \in e.exceptions : _is_retryable_error[sub]
                                  ELSE e.class \in TRANSIENT_LLM_ERRORS
      /\ Causes[e] = IF e.exceptions = {} THEN {e.class}
                     ELSE UNION {Causes[sub] : sub \in e.exceptions}
  BY <1>2, WalkIsWalk, CausesCollect DEF Walks, Collects
<1>5. CASE e.exceptions = {}
  <2>1. _is_retryable_error[e] = (e.class \in TRANSIENT_LLM_ERRORS) /\ Causes[e] = {e.class}
    BY <1>2, <1>4, <1>5
  <2>2. Right(e)
    BY <2>1
  <2> QED
    BY <2>2
<1>6. CASE e.exceptions # {}
  <2>1. /\ _is_retryable_error[e] = \E sub \in e.exceptions : _is_retryable_error[sub]
        /\ Causes[e] = UNION {Causes[sub] : sub \in e.exceptions}
    BY <1>2, <1>4, <1>6
  <2>2. Causes[e] \cap TRANSIENT_LLM_ERRORS # {} <=>
          \E sub \in e.exceptions : Causes[sub] \cap TRANSIENT_LLM_ERRORS # {}
    BY <2>1
  <2>3. Right(e)
    BY <1>3, <2>1, <2>2
  <2> QED
    BY <2>3
<1> QED
  BY <1>5, <1>6

\* An attempt is followed by another one only for a transient cause
\* (base_agent.py:772-775, 804-806).
THEOREM OnlyTransientIsRepeated == RetrySpec => []OnlyTransientRepeats
<1>1. RetryInv => OnlyTransientRepeats
  BY Agree DEF RetryInv, Retrying, OnlyTransientRepeats, WorthRetrying, InFlight
<1> QED
  BY <1>1, RetryInvariant, PTL

\* Who gives up had no attempt left or an error that no attempt can cure
\* (base_agent.py:763-788, 799-821).
THEOREM CurableIsNotGivenUpEarly == RetrySpec => []CurableUsesAllAttempts
<1>1. RetryInv => CurableUsesAllAttempts
  BY Agree DEF RetryInv, GivenUp, CurableUsesAllAttempts, WorthRetrying, AttemptLimit
<1> QED
  BY <1>1, RetryInvariant, PTL

=============================================================================
