# A TLA+ model of the skills agent

This directory specifies and verifies the agent in `src/graphs/`: a ReAct loop
on LangGraph (`agent_node` -> `tool_node` -> `agent_node` ...), with a tool
execution loop that has budgets and retries, a repair of the message list before
every LLM call, retries around every call of the LLM and of a tool, a human-review tool that
pauses the graph, and a context with its tools and a store of skills. The modules are checked with TLC on small instances, and the
properties that matter most are proved with TLAPS for every value of the
constants.

File names below are short for `src/graphs/core/base_agent.py`, `feedback.py` and
`llm_errors.py` beside it, and `src/graphs/skills_agent/*.py`; a bare line number
is one of `base_agent.py`.

## 1. The system

| part | state | operations | module |
| --- | --- | --- | --- |
| **Graph**: three nodes, router, per-turn reset (`agent.py`, `nodes.py`, `state.py`) | the checkpointed `State`: messages, `tool_retry_attempts`, `tool_call_count`, `tool_feedback`, `tool_feedback_history` | `agent_node`, `tool_node`, `error_summary_node`, `should_continue`, `with_turn_reset` | `SkillsAgentGraph` |
| **Tool loop** (`base_agent.py:181-400`, `482-642`) | locals of `execute_tool_calls`, thrown away when the node pauses or fails | batch refusal, id-less calls, unknown tools, injection failures, success, errors, interrupt, the catastrophic fallback | `SkillsAgentGraph` |
| **Repair** (`base_agent.py:854-924`) | `repaired`, `open_pairs` | one iteration per message, one per tool call | `ToolCallPairs`, `RepairLoop` |
| **Thread**: what the nodes append to `State.messages` | the message list | one action per action of the graph | `MessageThread` |
| **Human review** (`review.py`) | the pause and the resume value in the checkpoint, the cards on the UI, decisions on their way | ask, interrupt, answer, resume, replay | `HumanReview`, `ReviewedGraph` |
| **Retry helpers** (`base_agent.py:753-831`, `llm_errors.py`) | attempt number, last error, the sleep it is in | attempt, back off, give up | `InvocationRetries` |
| **Result wrapping** (`base_agent.py:644-747`, `feedback.py`) | none | `_wrap_as_tool_feedback`, validation of `ToolFeedback` | `ToolResults` |
| **Context** (`config.py:60-120`, `238-357`, `nodes.py:55-115`, `base_agent.py:82-154`) | `provider`, `_skill_store`, `_tools`, `_agent` | `with_context_init`, `initialize`, the MCP servers' tools and their prefixes, the prompt's catalog, the model and the strict schemas of a call | `RequestContext` |
| **Skill store** (`skills.py`, `tools.py`) | `_scanned`, metadata cache, content cache | `scan`, `load`, `get_skill_catalog`, `get_skill_names`, `invalidate` | `SkillStore` |
| **Prompts, Langfuse, logging, skill documents** | none the program reads | text and I/O | not modelled |

How they interact. LangGraph drives the graph: it starts a node with the
checkpointed `State`, applies the update the node returns, and checkpoints. A
node that raises, pauses (`interrupt()`) or dies leaves no update, but the
effects of the tools it ran remain; the node later runs again **from its top**.
`agent_node` and `error_summary_node` send a repaired copy of the messages to the
LLM; the repair is never persisted. `tool_node` calls the tools one after another;
the review tool is one of them, and skill tools read the `SkillStore` of the
run's `Context`, which the first node that a run enters has to initialize.

What is hard here:

- a replay of `tool_node` from the top after a pause or a crash (side effects twice,
  a new `request_id` each time, a half-answered batch on the thread);
- counters that guard against a model that never stops, on paths that charge
  nothing: refused batches, unknown tools, the catastrophic fallback;
- threads abandoned in any of these states and continued with a new message;
- answers of humans that come late, twice, or for another request, and processes
  that die behind an answer;
- retries inside a call that is itself run again by the graph: attempts, replays
  and restarts multiply, and a tool may have done its work before it failed;
- an initialization that fails half way, runs that enter at any node, a provider
  that changes while a run awaits something.

`PROJECT.json` lists each such hazard with its line and the properties aimed at it.

## 2. The modules

```
                              ToolResults (what a tool's return value becomes)
                                   ^ extends
TurnBudget <--implemented by--  InvocationRetries
     ^                             | extends, and implements
     +-------implemented by--  SkillsAgentGraph  <--extended by--  MessageThread
                                   ^ instance                          | instance
HumanReview  <--extended by--  ReviewedGraph                      ToolCallPairs
(the review tool and its host)                                         ^ instance
                                                                  RepairLoop
SkillStore  <--extended by--  RequestContext
```

`<module>Proofs` holds the theorems about a module; `Folding` is what they use about folds.
A module `MC...` goes with each that is run, with the values of its constants where a `.cfg` cannot
write them. Definitions keep the names of the source where there is one
(`should_continue`, `with_turn_reset`, `_flush_orphans`, `load`, ...); variables
that stand for nothing in the code are marked *ghost*. Operators marked *Mutated
form* are plausible bugs of the definition that follows them. They are used by
no action; `PROJECT.json` pairs each property with the one that breaks it.

**SkillsAgentGraph.** `next` is the node the checkpoint schedules, `status` says
whether a process drives the thread, `last` is `messages[-1]`, the only message
the routing reads, and the next four variables are the fields of `State`.
`local` is the frame of `execute_tool_calls`: the call it is at, the running
attempts, the executed count, the feedback. Every tool call is a step of its own, so a pause
or failure can come between any two. `RefuseBatch` is the guard against a pausing
tool with siblings (202-273); `SkipCallWithoutId`, `ToolNotFound`,
`InjectionFails`, `ToolSucceeds`, `ToolFails`, `ToolInterrupts` are the branches of
one iteration; `ToolReturnsEmpty` is a tool that answers with a `ToolFeedback`
that has neither outcome, which makes line 339 raise and the fallback (369-400)
become the node's update; `EndToolCalls` is the normal return. `HumanTurn`,
`ResumeInterrupt`, `RetryRun` and `NodeFails` are LangGraph and the user. Feedback
is abstracted to the human turn it was produced in, which is all that its
staleness depends on. Left out are message texts, and LangGraph's own
`recursion_limit`: it would end any loop, so every claim about ending a turn
is made without it and rests on this program's counters.

**TurnBudget.** What the graph promises about one turn without batches, tools,
errors, pauses or crashes: batches are let in while both budgets have room, every
batch uses up some of one of them, a new message makes both whole.

**ToolCallPairs, RepairLoop.** `_ensure_tool_call_pairs` as operators (one per
branch, folded over the list, used by `MessageThread`), and as the loop that runs
them message by message and call by call (checked and proved). A message is its kind, its
ids and whether it is synthetic.

**MessageThread.** Every action of the graph together with what it does to
`State.messages`; ids are used again by later batches, the harder case for the
repair.

**InvocationRetries, ToolResults.** The graph again, with each call of the LLM and
of a tool as the attempts it is made of. `attempt`, `delay` and `last_error` are the
locals of the two loops (753-821), which count differently: the LLM's from 1 to
`llm_retry_max_attempts`, the tool's from 0 to `max_invoke_retries` included. An
exception is its class and, if it is a group, the exceptions in it. `Dies` is the
process dying, a cancellation in the middle of a sleep, or a node that raises
outside its attempts; with `llm_retry_max_attempts = 0` the assertion behind the
LLM's loop is such an error. What an attempt returns goes through
`_wrap_as_tool_feedback`, whose outcome is the branch the loop takes. `bodies`
(*ghost*) counts how often the body of each call was begun over all runs of its node:
by every attempt, by the one that pauses in `interrupt()`, and again by the resume.
`ToolResults` keeps the case distinction of the wrapper in its order. A return value
is the keys it has and, for each, the set of leaves of its value, so that it can be
told which of them reach the text of the `ToolMessage` (329-341): `Parses` is the
constructor of `ToolFeedback`, which forbids extra keys; `Kept` is what pydantic's
default leaves of the nested `SuccessResponse` and `ErrorResponse`, which ignore them;
`Content` is the text, where an error has no place for its query.

**HumanReview.** `request_human_review` between the model, the UI and a host that
may post decisions late, twice, for an older card or without an id. `ids` counts
the `request_id`s that left the body, as a card or in a decision; `options` are the
values the current call offers; `resume` is the resume value of the checkpoint. An id is
new in each run of the body. In "returned" the body is over and the node is not: a
process that dies there runs the body once more, with the same `resume`.

**ReviewedGraph.** The review tool as one of the tools of `SkillsAgentGraph`: each
action of the body is at the same time a step of the tool loop (a card is
`ToolInterrupts`, a decision `ToolSucceeds`, a refusal `ToolFails`), the kept update
is `EndToolCalls`, and deaths, restarts, resumes and new messages are the graph's. `asked` (*ghost*) counts
the cards of a turn.

**SkillStore, RequestContext.** The two caches over a directory that is edited,
and `initialize` in the steps between its awaits, each of which may fail; then the
node body: the catalog goes into the prompt ("prompted"), a model and tools are
bound ("calling"), skill tools read the store. The text
of a skill is the number of the edit that wrote it, which is what freshness
depends on; the file itself may lose or change the name, so that `Described` are the
skills whose file still is what the store took it for. `told` (*ghost*) is what any
prompt so far listed: the messages of a thread outlive the Context of a run, so a new
one does not empty it; only an edit that takes a file of the skill away does. A walk
that raises leaves the flag `_scanned` as it was (`MarkedByRaise`), so that the next
call that needs a scan makes one. `NamesSkills` stands for the calls of
`get_skill_names` behind the scan of `initialize`. A store call is one step: the class is "designed for single-threaded
async use". MCP servers offer sequences of named tools, prefixed if there is
more than one server, and merged behind the built-in ones. The host may set `provider` at any
await. Contexts are not shared by runs at the same time ("each worker gets
its own Context and store instance"), but a host may pass an initialized Context
to run after run, as the integration tests do; with `ReusesFailed` also one whose
initialization failed.

## 3. What the runs check

| run | question | result |
| --- | --- | --- |
| `core_safety` | do the budgets, the replay rule, the turn-locality of feedback, progress and un-wedging hold with every failure, pause, restart, id-less call and empty feedback? | hold |
| `core_progress` | with ids on all calls and every call as its attempts: do retries stop, sleep and repeat as they should, is of a reply nothing lost but what the code drops by design, does the whole still implement the one-step graph and `TurnBudget`, stay within `RoundBound` rounds, charge what it ran, and end? | hold |
| `message_repair` | over all lists of up to 4 messages with up to 2 calls each and 2 ids, missing and repeated ones included: is the repaired list well paired, order-keeping, minimal and stable? | hold |
| `message_thread` | is each request that the graph sends well formed, is each call answered, and is work hidden only by failures inside `tool_node`? | hold |
| `human_review` | inside the graph: does every returned decision have a displayed id and an offered value, does it stand when its node is replayed, and do the cards of a turn fit its budget? | hold |
| `request_context` | does each node body find an initialized context, are skills that a model was ever told of and that are still there found, is no stale text served, does no tool shadow another or hide behind a prefix, do schemas fit the model they are sent to? | hold |
| `calls_without_id`, `uncharged_work`, `fatal_error_masked`, `synthetic_claims_not_run`, `stale_decision`, `reused_context` | statements of comments and messages in the repository that the code does not keep (section 6) | violated |

The less obvious properties:

- *BudgetHeld* counts tools that **ran**, not tools that were charged. The
  catastrophic path charges nothing for what ran; the property holds all the same
  because that path snaps the retry counter, which closes the loop.
- *RoundMakesProgress* is the ranking argument of the loop as an action property:
  (`tool_call_count`, `tool_retry_attempts`) grows lexicographically in every tool
  round in which any call has an id. A success resets the attempts, but only at the
  price of a charge.
- *AtMostOncePerAttempt* relates runs of a tool to failures: a pause alone never
  makes a sibling run twice.
- *RequestsAreWellFormed* speaks of the list as it is sent, after any history.
- *AddsOnlyWhatIsMissing* and *RepairIsStable* matter because the repair is not
  persisted: it is applied again, in full, at every later call.
- *OnlyFailuresHideWork* bounds how wrong the synthetic "did not execute" may be.
- *OnlyOfferedValues* holds although ids are not compared, as the value is
  checked against the options of the running call.
- *OneDecisionPerCall*: the process dies behind the decision, the body runs again
  and returns again, each time with an id of its own at hand. The model still hears one decision.
- *CardsFitBudget* adds up cards over refused answers, pauses, deaths and restarts
  of one turn. It rests on a call being charged also when its answer is refused.
- *CurableUsesAllAttempts* and *OnlyTransientRepeats* are the two sides of the
  classification: a failure with a transient cause anywhere in its groups is not
  given up early, and no other is repeated.
- *RepeatsBounded* is what a tool that is not idempotent can count on: at most
  `max_invoke_retries + 1` runs for each start of its node. A node starts again when it
  is resumed behind a pause and when a failed run is started again, so even with
  `max_invoke_retries = 0` the body of a call that pauses once begins twice.
- *OnlyKnownLosses* names all that the LLM is not shown of an answer with an outcome:
  the plumbing of text blocks (738-752), structured content beside other content
  (682-696), nested keys that are no field of `SuccessResponse` or `ErrorResponse`
  (`feedback.py:34-51`), and the query of an error (329-335). A key of the tool's own
  among blocks or beside the outcome, an empty content, a field of the wrong type or
  two outcomes at once must cost nothing.
- *ToldSkillsAreFound* spans runs, pauses and Contexts: a skill that an earlier run
  listed in its prompt, and none of whose files was renamed, broken or removed since, is
  known to the store of whatever Context the skill tools run in, and the file it would
  read is still that skill's. Until somebody calls `invalidate()` the tools that never
  scan (`skills.py:337`, `375`) find it too. A skill that was renamed or removed
  during a pause is answered as not found, which is all the code promises.
- *StrictFitsModel* relates the tools bound at a call, built long before, to the
  provider at that call.

### Bounds

The code has no other unbounded counters than those named here; each is a
constant whose comment starts with "bound".

- `MaxBatch = 2`: refusal, and a first call whose outcome a second one hides, need
  two calls and no more; the loop treats calls one at a time.
- `MAX_TOOL_CALLS` 2 to 4 and retries 2 or 3: a turn can end on either budget, on
  both at once, and reach the boundary by a batch of one or two. In `core_safety`
  `MAX_TOOL_RETRIES < max_tool_retries`: the two constants are kept equal by hand
  (`nodes.py:78-82`), and the router's may lag behind. The other direction, in which
  the counter never reaches the router's constant, is assumed away
  (`RetryBudgetsAgree`): the comment there asks whoever changes one to change the other.
- `core_progress` has a budget of 3 calls, 2 retries of a tool (3 attempts) and
  3 attempts of the LLM: a first, a middle and a last one, of which only the last
  does not sleep. Exceptions are nested two groups deep. Return values are every dict
  on the keys of a `ToolFeedback` and one more with eight kinds of value, every list of
  up to two of seven kinds of block, and messages around lists and texts with and without
  structured content. `uncharged_work` needs one turn and no
  failure, and a tool that answers with dicts without outcome only.
- `MaxTurns = 2`: what one turn leaves behind for the next. `MaxFailures = 1` per
  scheduled node: the batch then runs at most twice, once more than without.
- `MaxMessages = 4` with `MaxCalls = 2` in `message_repair`: a batch, an answer, a
  second batch with the same id, and something that closes it. `message_thread`
  calls the LLM on threads of at most 4 messages; the requests of 5 and more
  messages that its rounds lead to are checked too.
- `MaxCalls = 3` in `human_review`: one request abandoned, one current, one later,
  with a budget of 2 calls, so that a turn can come to its end by asking;
  2 in `stale_decision`, as two calls suffice.
- `request_context`: two paths, two names, two edits: a rename, a removal, two files with one
  name and a stale text need no more. Two MCP servers, of which any may be
  configured, since a clash needs two; three providers, one that allows strict
  schemas and two that do not.

The proofs below do not depend on these values.

### Fairness

`FairSpec` is `Spec /\ WF_vars(GraphStep)`: while a process drives the thread, the
next step of the graph is taken in the end, since every LLM and tool call returns,
raises or pauses. `FairRetrySpec` says the same of the attempts below: one attempt
ends in the end (clients have timeouts), and a sleep is a timer. That the retries
themselves end is not assumed there but follows. Nothing is assumed
of the user: no one has to resume, retry or write. So *TurnEnds* says that a run
which is in flight ends or pauses; `NodeFails` is bounded by `MaxFailures` per
scheduled node and is not fair. `CHECK_DEADLOCK FALSE` is used because
these systems really stop: at the end of a turn, when the repair has returned, or
when a bound is reached.

## 4. What is proved

Every safety invariant and action property that a passing run checks is also a
theorem, for all values of the constants, under the `ASSUME`s of the modules:

- the budgets and bounds are naturals, the sets of tools are related as their names
  say; `RetryBudgetsAgree`: the router's retry budget is at most the agent's
  (`nodes.py:78-82`); `PausingIsDeclared`: a tool that interrupts has `pauses_graph` in
  its metadata (the code logs a breach, 600-613);
- `ExceptionsAssumption`, `ExceptionsNest`: only groups hold exceptions, and no group
  holds itself at whatever depth, as an exception is raised before it is put into a
  group; otherwise `_is_retryable_error` (823-831) would not return;
- `ContextAssumption`, `BuiltInNamesDiffer`: finitely many MCP servers, each with a
  sequence of tools, and built-in tools with names of their own (`tools.py`, `review.py`);
- `RawResultsAssumption`: the content of a `ToolMessage` is a text or a list, and a
  `ToolFeedback` that a tool returns went through its own constructor;
- `NoneIsNoSkill`: the name that stands for "no skill here" is no skill's.

| module | theorems | argument |
| --- | --- | --- |
| `SkillsAgentGraphProofs` | `TypeCorrect` | `ControlInv`: types, and where in the loop which local may have which value (`Control`). `TypeOK` alone is not inductive: that the charge fits the budget needs that `tool_node` is only scheduled when charge + batch fits it. |
| | `NothingRunsTwice`, `BudgetIsHeld` | `Replays`: a call behind the loop's position has run at most once per start; `Spending`: what ran and was not charged is covered by attempts that closed the loop. |
| | `RoundsMakeProgress`, `TurnsAreBounded`, `ChargesAreExact`, `FeedbackIsOfThisTurn`, `FreshTurnsAreNotWedged`, `GraphImplementsTurnBudget` | `LoopProgress` inside a round; `RoundsCounted`: the rounds of a turn are at most `Rank`, the pair of counters read as a number in base `max_tool_retries + 1`; `Fresh` for what a turn inherits. From these, every step is a step of `TurnBudget` or leaves its variables alone. |
| `InvocationRetriesProofs` | `RetriesImplementGraph`, `RetriesKeepBudget`, `RetriesKeepTurns`, `RetriesAreNotCharged`, `RetryTypesHold`, `RepeatsAreBounded` | `RetryInv`: where an invocation can be in flight at all and with how many attempts (`Retrying`), why one was given up (`GivenUp`), and `BodiesCounted`: a full set of attempts for each start of the node that ended in a failure or a pause (`Ended`), and the attempts of the one that runs. |
| | `OnlyTransientIsRepeated`, `CurableIsNotGivenUpEarly` | `RetryInv`, and `Agree`: the walk over nested groups finds what the direct definition of a transient cause says, by induction along `ExceptionsNest`. |
| | `SleepsAreBetweenAttempts` | `Slept`: the sleeps behind an invocation and the one it is in sum up to 2 ** attempt - 1. |
| | `OnlyKnownDataIsLost` | the cases of `_wrap_as_tool_feedback`, for dicts with any keys and replies of any length: each names what its text leaves out. |
| `Folding` | `FoldRuns` | a left fold is the end of a run that takes one entry at a time, so that what is invariant along runs holds of the fold. |
| `ToolCallPairsProofs` | `SatisfiedIsKept`, `RepairTwice`, `OrderlyIsWellFormed` | invariants of the run of `_ensure_tool_call_pairs`: each message has its place, and the ids open are what the block at hand asks for and lacks, as often as it lacks them. |
| `RepairLoopProofs` | `RepairTypes`, `RepairPairs`, `RepairKeepsMessages`, `RepairAnswersCalls` | `IInv`: all blocks but the last are paired, what the last one lacks is exactly `open_pairs`, and every message has its place. |
| | `RepairAddsOnlyWhatIsMissing`, `RepairTwiceIsOnce` | `FollowsRuns`: behind each message, and inside a batch behind each call, the loop has in hand what the run of the fold has. So the loop computes `_ensure_tool_call_pairs`, of which `ToolCallPairsProofs` speaks. |
| `MessageThreadProofs` | `ThreadImplementsGraph`, `ThreadKeepsBudget`, `LastMessageIsKept`, `WorkIsAnswered`, `RoundsAnswer` | `ThreadInv`: the end of the list is what `last` says (`LastIsLast`), the answers so far are those of the calls passed so far (`Answering`), and what ran in finished batches is answered (`Kept`). |
| | `EveryRequestIsWellFormed` | `Tidy`: what is persisted is no synthetic message, and at any time each batch on the thread has at most one answer to each of its calls, and no stranger. `OrderlyIsWellFormed` says what the repair makes of such a list. |
| `HumanReviewProofs` | `ReviewTypes`, `DecisionsWereDisplayed`, `DecisionsWereOffered`, `DecisionsStand`, `ReviewedImplementsReview`, `ReviewedImplementsGraph`, `CardsStayInBudget` | `IInv`: a call has at most one card (`IdsCounted`, `CallIsShown`, `ResumedIdsAreShown`), and what was told came from the resume value still held (`DecisionStands`). For the budget, `AskedInv`: all cards but the pending one belong to calls that ran; the rest is `ControlInv` and `Spending` of the graph, used through the composition. |
| `RequestContextProofs` | `ContextTypesHold`, `BodiesAreInitialized`, `ServesCurrentText`, `ToldSkillsStayKnown` | `StoreTypeOK`: what is in the caches agrees with each other; `Initializing`: only a run that is still initializing has a store without an agent (needs `~ReusesFailed`); `Remembered`: what the caches hold was on disk since they were emptied; `Told`: a store that has scanned has every skill any catalog named and no edit took a file from, under a path that still describes it; whether it scanned before or behind the edit. |
| | `NoToolIsShadowed`, `CommonNamesDoCoexist`, `StrictSchemasFit` | `Merged`: an agent has the tools of the servers it was connected to, merged in some order; `Keeps` along the run of the merge: the built-in tools stay in front, no name twice, and of each name read one is kept. `BoundAsBuilt`: what a model was given is what the tools and the provider at its call say. |

The theorems compose. `FoldRuns` is used for both loops of the repair and for the
merging of tools; the fold of the repair is instantiated with the ids of the
thread (`Repair` in `MessageThreadProofs`); the three modules that extend or
instantiate the graph use its invariants through refinement.

*Induction over data.* The library's induction theorems have an operator as
parameter, which the installed provers cannot instantiate. `Folding` takes the
operator of the fold as a constant of the module and uses a set in the place of the
predicate: `NatInductionOnSets` follows from the well-foundedness of `<` on the naturals,
and a module with a fold instantiates `Folding` with its own operator. In the same way
`Agree` is an induction over sets of exceptions, by `ExceptionsNest`.

Some theorems carry a hypothesis that a violation run shows to be necessary:
`TurnsAreBounded`, `RetriesKeepTurns` and the refinement of `TurnBudget` need `~MayOmitId` (run `calls_without_id`),
`ChargesAreExact` and `RetriesAreNotCharged` need `EmptyTools = {}` (run `uncharged_work`),
`BodiesAreInitialized` and `ToldSkillsStayKnown` need `~ReusesFailed` (run `reused_context`).

What the attempts at proofs found. `Payload`, the data of a reply stated without the code's
cases, had a `CASE` of which two guards can hold at once (a message with an empty list), so
that it had no definite value: it is now the union of all a reply has. `ToldSkillsAreFound`
needs that the name of a file which does not parse is no skill's
(`NoneIsNoSkill`). That no tool is shadowed
needs the built-in tools to have distinct names, which the model had left unsaid.
The delays were `2 ^ n`, which the provers know nothing of: `Doubled` is the same function
in recursive form, and TLC compares the two in `MCInvocationRetries`.

Only model-checked: *TurnEnds*, and that retries end. Liveness is out of the
prover's reach; the safety halves are `TurnsAreBounded` and `RepeatsAreBounded`.

## 5. Not modelled

- *Texts*: prompts, message contents, feedback formatting, catalog layout. No
  property speaks of them.
- *JSON schemas*: the conversion to strict ones is LangChain's; which tools get one
  is modelled.
- *Langfuse* (`langfuse_prompts.py`): a fetch with a fallback that no node calls; its
  file says it is not wired in. *Logging*, tool events: no state that the program reads.
- *How a Context is configured*: the constructor, the environment and their
  precedence choose a provider before the first step; the model starts with any.
- *Concurrent use of one Context or one thread*: LangGraph runs one run per thread,
  and the code gives each worker a Context.
- *Supporting files of skills*: read from disk each time, no state; that their
  reader finds the skill is *ToldSkillsAreFound*. A supporting file removed meanwhile
  is an error text of the tool.
- *Which of two files with one name wins*: the last that `rglob` comes to
  (`skills.py:257-264`), which the model leaves open at each scan.

## 6. Where code and text disagree

- `calls_without_id`: a call without an id is skipped without message, charge or
  retry (276). A model that repeats it is called for ever, though the cap is said
  to prevent "runaway loops" (`nodes.py:74`).
- `uncharged_work`: the fallback charges nothing as "Tools didn't run" (394), but the
  tool with the empty feedback has, and any before it in the batch, and
  `nodes.py:134` promises to count them. The run has a tool that answers only with dicts
  without an outcome, which refutes a test's statement too: a "dict without 'success'/'error'
  keys must NOT silently produce an empty ToolFeedback"
  (`tests/unit/test_core_execute_tool_calls.py:131`). Forbidding extra keys
  (`feedback.py:69`) turns most of them into plain successes, but `{}` and a dict with
  only a `query` still parse into one.
- `fatal_error_masked`: the retry counter after a batch is that of its last call,
  so a success hides an earlier non-retryable error (337), which is said to
  short-circuit (`feedback.py:44`).
- `synthetic_claims_not_run`: after a crash behind a finished tool and a new user
  message, the repair says that the tool could not execute (921).
- `stale_decision`: the id of a decision is only checked to be a string (151), so a
  button of an abandoned card decides the next request, which may ask about
  something else; the text asks for the id "echoed from the original interrupt
  payload".
- `reused_context`: `with_context_init` tests `_skill_store`, which `initialize` sets
  before the steps that can fail. A Context that failed to initialize once is never
  initialized again, though `initialize` itself would go on where it stopped.

## 7. Plan

Done, in this order, as the most important behaviour comes first: the graph and
tool loop; the proofs about a turn; the repair and the thread; the abstract budget;
the review; the context and store; the retries and the wrapping of results, as a
refinement of the graph; the tools of the MCP servers, strict schemas and
supporting files; the proofs about the thread; the review inside the graph; folds
as runs, and with them the repair as a function, the requests of the thread and the
merging of tools; the classification of nested errors and the sums of the sleeps.

What is left: an exact count of the tool rounds of a turn, of which `RoundBound` is
an upper bound; and the theorems about turns and requests for the thread with the
review tool and the retries in it at once, of which each is composed with the graph alone.
