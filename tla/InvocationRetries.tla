------------------------- MODULE InvocationRetries -------------------------
(***************************************************************************)
(* SkillsAgentGraph with every call of the LLM and of a tool spelled out as*)
(* the attempts it is made of (_ainvoke_with_llm_retry,                    *)
(* _ainvoke_tool_with_retry, _is_retryable_error, llm_errors.py).  In the  *)
(* graph a call is one step; here it may fail, wait and be made again, and *)
(* the process may die or be cancelled in each of these moments.           *)
(*                                                                         *)
(* One invocation is in flight at a time: execute_tool_calls awaits them   *)
(* one after another.  Delays count in units of the first one              *)
(* (llm_retry_base_delay_seconds for the LLM, a second for a tool).        *)
(***************************************************************************)
EXTENDS SkillsAgentGraph, ToolResults

CONSTANTS
  TRANSIENT_LLM_ERRORS, PERMANENT_LLM_ERRORS,   \* classes, empty without SDK
  ExceptionGroup,          \* the class of exception groups
  Exceptions,              \* what an attempt may raise, as [class, exceptions]
  llm_retry_max_attempts,  \* BaseAgent's constructor arguments
  max_invoke_retries

ASSUME RetriesAssumption ==
  /\ llm_retry_max_attempts \in Nat
  /\ max_invoke_retries \in Nat

NoError == [class |-> "none", exceptions |-> {}]

\* Only a group holds other exceptions, and at least one.
ASSUME ExceptionsAssumption ==
  /\ NoError \notin Exceptions
  /\ ExceptionGroup \notin TRANSIENT_LLM_ERRORS \cup PERMANENT_LLM_ERRORS
  /\ \A e \in Exceptions : /\ e.exceptions \subseteq Exceptions
                           /\ e.class = ExceptionGroup <=> e.exceptions # {}

\* An exception is raised before a group can be made of it: no group, at whatever
\* depth, holds itself, so that the walk over nested groups ends.
ASSUME ExceptionsNest ==
  \A some \in (SUBSET Exceptions) \ {{}} : \E e \in some : e.exceptions \cap some = {}

VARIABLES
  attempt,     \* attempts of the invocation in flight that have failed
  delay,       \* the sleep it is in, 0 for none
  last_error,  \* what its latest attempt raised
  waited,      \* ghost: the sleeps it has finished, summed up
  bodies,      \* ghost: times each call of last.tool_calls was attempted
  gaveUp       \* ghost: the invocation the last step gave up, if it did

invocation == <<attempt, delay, last_error, waited>>
retryVars == <<vars, invocation, bodies, gaveUp>>

Nothing == [who |-> "nobody", tries |-> 0, error |-> NoError, waited |-> 0]

-----------------------------------------------------------------------------
(* Which errors are worth another attempt *)

_is_retryable_error[e \in Exceptions] ==
  IF e.class = ExceptionGroup
  THEN \E sub \in e.exceptions : _is_retryable_error[sub]
  ELSE e.class \in TRANSIENT_LLM_ERRORS

\* Mutated forms: every error is retried; an attempt too few, one too many.
RetriesAnyError(e) == attempt < max_invoke_retries
RetriesOnceLess(e) == attempt + 1 < max_invoke_retries /\ _is_retryable_error[e]
RetriesOnceMore(e) == attempt <= max_invoke_retries /\ _is_retryable_error[e]

RetriesTool(e) == attempt < max_invoke_retries /\ _is_retryable_error[e]

\* Mutated form: the loop sleeps and goes round behind its last attempt too.
RetriesLastLlm(e) ==
  e.class \in TRANSIENT_LLM_ERRORS /\ attempt + 1 <= llm_retry_max_attempts

\* Permanent errors are caught first; a group is neither.
RetriesLlm(e) ==
  /\ e.class \notin PERMANENT_LLM_ERRORS
  /\ e.class \in TRANSIENT_LLM_ERRORS
  /\ attempt + 1 # llm_retry_max_attempts

\* 2 ** n
Doubled[n \in Nat] == IF n = 0 THEN 1 ELSE 2 * Doubled[n - 1]

\* Mutated form: the first delay is doubled already.
DelayOfNext(n) == Doubled[n + 1]

Delay(n) == Doubled[n]

-----------------------------------------------------------------------------
(* One invocation *)

RetryInit ==
  /\ Init
  /\ attempt = 0 /\ delay = 0 /\ last_error = NoError /\ waited = 0
  /\ bodies = << >> /\ gaveUp = Nothing

\* The invocation in flight is over, or there is none.
Over ==
  /\ attempt' = 0 /\ delay' = 0 /\ last_error' = NoError /\ waited' = 0

BackOff(e) ==
  /\ attempt' = attempt + 1 /\ delay' = Delay(attempt) /\ last_error' = e
  /\ gaveUp' = Nothing
  /\ UNCHANGED <<vars, waited>>

GiveUp(whose, e) ==
  /\ gaveUp' = [who |-> whose, tries |-> attempt + 1, error |-> e, waited |-> waited]
  /\ Over

\* asyncio.sleep returns.
Wake ==
  /\ status = "running" /\ delay > 0
  /\ waited' = waited + delay /\ delay' = 0
  /\ gaveUp' = Nothing
  /\ UNCHANGED <<vars, attempt, last_error, bodies>>

-----------------------------------------------------------------------------
(* The LLM's attempts *)

\* The loop body of _ainvoke_with_llm_retry; with no attempts there is none.
AttemptsLlm ==
  /\ status = "running" /\ next \in {"agent_node", "error_summary_node"}
  /\ delay = 0 /\ attempt < llm_retry_max_attempts

LlmBacksOff ==
  /\ AttemptsLlm
  /\ \E e \in Exceptions : RetriesLlm(e) /\ BackOff(e)
  /\ UNCHANGED bodies

LlmReturns ==
  /\ AttemptsLlm
  /\ AgentNode \/ ErrorSummaryNode
  /\ Over /\ bodies' = effects' /\ gaveUp' = Nothing

LlmRaises ==
  /\ AttemptsLlm
  /\ \E e \in Exceptions : ~RetriesLlm(e) /\ GiveUp("llm", e)
  /\ NodeFails
  /\ UNCHANGED bodies

-----------------------------------------------------------------------------
(* A tool's attempts *)

AttemptsTool(tc) == AtCall(tc) /\ Invokes(tc) /\ delay = 0

BodyRuns == bodies' = [bodies EXCEPT ![local.at] = @ + 1]

\* The tool may have done its work before the error reached us.
ToolBacksOff ==
  /\ \E tc \in Calls : AttemptsTool(tc)
  /\ \E e \in Exceptions : RetriesTool(e) /\ BackOff(e)
  /\ BodyRuns

\* Mutated form: a call that raised is not charged.
ToolRaisesUncharged ==
  /\ \E tc \in Calls : AttemptsTool(tc)
  /\ \E e \in Exceptions : ~RetriesTool(e) /\ GiveUp("tool", e)
  /\ Record(TRUE, AttemptsAfterError(tool_retry_attempts, TRUE), FALSE)
  /\ RunTool /\ BodyRuns

\* _execute_single_tool makes an EXECUTION_ERROR of it, and charges one call.
ToolRaises ==
  /\ \E tc \in Calls : AttemptsTool(tc)
  /\ \E e \in Exceptions : ~RetriesTool(e) /\ GiveUp("tool", e)
  /\ Record(TRUE, AttemptsAfterError(tool_retry_attempts, TRUE), TRUE)
  /\ RunTool /\ BodyRuns

\* GraphBubbleUp is raised again at once, in whatever attempt: the body ran up to
\* its interrupt(), and runs again from the top when the run is resumed.
ToolPauses ==
  /\ delay = 0 /\ ToolInterrupts
  /\ Over /\ gaveUp' = Nothing /\ BodyRuns

\* The tool reports an error in its feedback: no exception, so no retry.
ToolReports(retryable) ==
  /\ \E tc \in Calls : AttemptsTool(tc) /\ MayReturn(tc)
  /\ Record(TRUE, AttemptsAfterError(tool_retry_attempts, retryable), TRUE)
  /\ RunTool

OutcomeOf(raw) ==
  LET feedback == _wrap_as_tool_feedback(raw)
  IN  [outcome |-> feedback.outcome, retryable |-> feedback.retryable]

Outcomes == {OutcomeOf(raw) : raw \in RawResults}

\* What the tool returns decides on the branch of the loop.
Answers(answer) ==
  /\ delay = 0
  /\ \/ answer.outcome = "success" /\ ToolSucceeds /\ BodyRuns
     \/ answer.outcome = "error" /\ ToolReports(answer.retryable) /\ BodyRuns
     \/ answer.outcome = "neither" /\ ToolReturnsEmpty /\ bodies' = << >>
  /\ Over /\ gaveUp' = Nothing

ToolAnswers == \E answer \in Outcomes : Answers(answer)

-----------------------------------------------------------------------------
(* The steps of the graph that invoke nothing *)

Uninvoked ==
  /\ \/ StartToolCalls \/ SkipCallWithoutId \/ ToolNotFound \/ InjectionFails
     \/ RefuseBatch \/ EndToolCalls
  /\ bodies' = IF next' = next THEN bodies ELSE << >>
  /\ gaveUp' = Nothing /\ UNCHANGED invocation

\* The process dies, the run is cancelled (no Exception: nothing on the way catches
\* it), or the node raises outside the LLM's attempts.
Dies == NodeFails /\ Over /\ gaveUp' = Nothing /\ UNCHANGED bodies

FromOutside ==
  /\ HumanTurn \/ ResumeInterrupt \/ RetryRun
  /\ bodies' = IF turn' = turn THEN bodies ELSE << >>
  /\ gaveUp' = Nothing /\ UNCHANGED invocation

AttemptStep ==
  \/ Wake \/ LlmBacksOff \/ LlmReturns \/ ToolBacksOff \/ ToolRaises
  \/ ToolPauses \/ ToolAnswers \/ Uninvoked

RetryNext == AttemptStep \/ LlmRaises \/ Dies \/ FromOutside

RetrySpec == RetryInit /\ [][RetryNext]_retryVars

\* The executor, and the timers it sleeps on.
FairRetrySpec == RetrySpec /\ WF_retryVars(AttemptStep)

-----------------------------------------------------------------------------
(* Properties *)

\* The most attempts an invocation may take.
AttemptLimit(whose) ==
  IF whose = "llm" THEN llm_retry_max_attempts ELSE max_invoke_retries + 1

InFlight == IF next = "tool_node" THEN "tool" ELSE "llm"

\* The classes of what went wrong, however deep they are wrapped in groups.
Causes[e \in Exceptions] ==
  IF e.exceptions = {} THEN {e.class} ELSE UNION {Causes[sub] : sub \in e.exceptions}

\* Is e an error that the documented rule gives another attempt: any transient
\* cause for a tool, the exception itself for the LLM?
WorthRetrying(whose, e) ==
  IF whose = "llm" THEN e.class \in TRANSIENT_LLM_ERRORS \ PERMANENT_LLM_ERRORS
  ELSE Causes[e] \cap TRANSIENT_LLM_ERRORS # {}

\* Types.  That attempt stays below the limit means that neither loop falls
\* through to its "assert last_error is not None" (base_agent.py:787-788,
\* 820-821), nor is an error forgotten while an invocation is between attempts.
RetryTypeOK ==
  /\ attempt = 0 \/ attempt < AttemptLimit(InFlight)
  /\ delay \in {0} \cup {Delay(n) : n \in 0..attempt}
  /\ delay > 0 => attempt > 0
  /\ last_error \in Exceptions \cup {NoError}
  /\ last_error = NoError <=> attempt = 0
  /\ bodies \in Seq(Nat) /\ DOMAIN bodies = DOMAIN effects
  /\ gaveUp.error \in Exceptions \cup {NoError}

\* Only an error with a transient cause is followed by another attempt: neither
\* a permanent error, nor one of a tool's own, nor an interrupt, in whatever
\* group it comes (base_agent.py:772-775, 804-806, 823-831).
OnlyTransientRepeats == attempt > 0 => WorthRetrying(InFlight, last_error)

\* Who gives up has either met an error that no attempt can cure or used all
\* attempts: neither too few nor one too many (base_agent.py:763-788, 799-821).
CurableUsesAllAttempts ==
  gaveUp # Nothing =>
    /\ gaveUp.tries <= AttemptLimit(gaveUp.who)
    /\ WorthRetrying(gaveUp.who, gaveUp.error)
         => gaveUp.tries = AttemptLimit(gaveUp.who)

\* Who gives up has slept between its attempts only, 1 + 2 + 4 + ... units: nobody
\* waits behind the last attempt for an error that is raised all the same
\* (base_agent.py:775-786, 806-817).
SleepsBetweenAttempts ==
  gaveUp # Nothing => gaveUp.waited + 1 = Doubled[gaveUp.tries - 1]

\* Starts of tool_node for the batch it is at, the running one included; a run
\* that is paused has not started it again.
Starts == failures + (IF resumed THEN 2 ELSE 1)

\* A tool call that is charged once may have run its body, and its side effects,
\* several times: when an answer was lost, when the run paused inside it, when the
\* node was started again after a failure.  Together they run it no more than
\* max_invoke_retries + 1 times for each start of the node
\* (base_agent.py:799-815, 568-642).
RepeatsBounded ==
  \A k \in DOMAIN bodies : bodies[k] <= (max_invoke_retries + 1) * Starts

AnswerAwaited == \E tc \in Calls : AttemptsTool(tc)

\* Of what a tool answers the LLM is shown everything, in whichever of the shapes of
\* MCP or of a plain tool it comes, but for: the plumbing of text blocks
\* (base_agent.py:738-752), structured content beside other content (682-696), and,
\* in a ToolFeedback or a dict with no key but its own, nested keys that are no
\* field (feedback.py:34-51) and the query of an error (base_agent.py:329-335).  A
\* key of the tool's own among the blocks or beside the outcome, an empty content,
\* a field of the wrong type or two outcomes at once cost nothing.
OnlyKnownLosses == AnswerAwaited => Truncated = {}

\* The attempts implement the calls of the graph: seen from outside an invocation
\* returns, fails or pauses once, and is charged once, in however many attempts
\* (base_agent.py:568-642).
ImplementsGraph == Spec

=============================================================================
