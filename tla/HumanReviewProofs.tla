-------------------------- MODULE HumanReviewProofs --------------------------
(***************************************************************************)
(* What a decision of request_human_review may be, for any number of calls *)
(* and values and any order of late and doubled answers, also inside the   *)
(* graph that calls the tool.                                              *)
(***************************************************************************)
EXTENDS ReviewedGraph, FiniteSetTheorems, TLAPS

\* A call shows at most one card.
IdsCounted ==
  /\ status = "idle" => resume = {}
  /\ status = "paused" => resume = {} /\ options # {}
  /\ resume # {} => options # {}
  /\ status \notin {"idle", "paused"} /\ resume = {} => ids + 1 <= call
  /\ ids <= call

\* Whatever waits for an answer, or has one, is on the screen with its options.
CallIsShown ==
  status = "paused" \/ resume # {} =>
    \E card \in cards : card.call = call /\ card.options = options

\* The UI posts only ids it was given, or none.
ResumedIdsAreShown ==
  \A d \in resume : d.request_id = NoId \/ \E card \in cards : card.request_id = d.request_id

\* What the current call was told is what the resume value says, which stays until
\* the node returns.
DecisionStands ==
  \A d \in decisions : d.call = call /\ status # "idle" =>
    \E r \in resume : d.request_id = r.request_id /\ d.value = r.value

IInv ==
  /\ TypeOK /\ IdsCounted /\ CallIsShown /\ ResumedIdsAreShown /\ DecisionStands
  /\ OnlyDisplayedIds /\ OnlyOfferedValues /\ OneDecisionPerCall

LEMMA InitIInv == Init => IInv
  BY ReviewBounds DEF Init, IInv, TypeOK, IdsCounted, CallIsShown, ResumedIdsAreShown,
     DecisionStands, OnlyDisplayedIds, OnlyOfferedValues, OneDecisionPerCall

LEMMA CallToolKeeps == IInv /\ CallTool => IInv'
<1> SUFFICES ASSUME IInv, CallTool
             PROVE  IInv'
  OBVIOUS
<1>1. TypeOK'
  BY ReviewBounds DEF CallTool, IInv, TypeOK, IdsCounted
<1>2. IdsCounted' /\ DecisionStands'
  BY ReviewBounds DEF CallTool, IInv, TypeOK, IdsCounted, DecisionStands
<1>3. /\ CallIsShown' /\ ResumedIdsAreShown'
      /\ OnlyDisplayedIds' /\ OnlyOfferedValues' /\ OneDecisionPerCall'
  BY DEF CallTool, IInv, IdsCounted, CallIsShown, ResumedIdsAreShown, OnlyDisplayedIds,
     OnlyOfferedValues, OneDecisionPerCall
<1> QED
  BY <1>1, <1>2, <1>3 DEF IInv

LEMMA InterruptKeeps == IInv /\ Interrupt => IInv'
<1> SUFFICES ASSUME IInv, Interrupt
             PROVE  IInv'
  OBVIOUS
<1> DEFINE card == [request_id |-> ids + 1, call |-> call, options |-> options]
<1>1. /\ call \in 0..MaxCalls /\ call \in Nat /\ ids \in Nat /\ ids + 1 <= call
      /\ resume = {} /\ options # {} /\ status = "running"
  BY ReviewBounds DEF Interrupt, IInv, TypeOK, IdsCounted
<1>2. /\ ids' = ids + 1 /\ cards' = cards \cup {card} /\ status' = "paused"
      /\ call' = call /\ options' = options /\ resume' = resume
      /\ decisions' = decisions
  BY DEF Interrupt
<1>3. card \in [request_id : 1..ids', call : 1..call', options : SUBSET Values]
  BY <1>1, <1>2 DEF IInv, TypeOK
<1>4. TypeOK'
  <2>1. cards' \subseteq [request_id : 1..ids', call : 1..call', options : SUBSET Values]
    BY <1>1, <1>2, <1>3 DEF IInv, TypeOK
  <2>2. decisions' \subseteq [call : 1..call', request_id : 1..ids', value : Values]
    BY <1>1, <1>2 DEF IInv, TypeOK
  <2> QED
    BY <1>1, <1>2, <2>1, <2>2, ReviewBounds DEF IInv, TypeOK
<1>5. IdsCounted' /\ DecisionStands'
  BY <1>1, <1>2 DEF IInv, IdsCounted, DecisionStands
<1>6. CallIsShown'
  <2>1. card \in cards' /\ card.call = call' /\ card.options = options'
    BY <1>2
  <2> QED
    BY <2>1 DEF CallIsShown
<1>7. ResumedIdsAreShown' /\ OnlyDisplayedIds' /\ OnlyOfferedValues' /\ OneDecisionPerCall'
  BY <1>2 DEF IInv, ResumedIdsAreShown, OnlyDisplayedIds, OnlyOfferedValues,
     OneDecisionPerCall
<1> QED
  BY <1>4, <1>5, <1>6, <1>7 DEF IInv

\* The decision the tool returns echoes an id of a card and a value of the call.
LEMMA ReturnDecisionKeeps == IInv /\ ReturnDecision => IInv'
<1> SUFFICES ASSUME IInv, ReturnDecision
             PROVE  IInv'
  OBVIOUS
<1>1. PICK d \in resume :
        /\ d.request_id # NoId /\ d.value \in options
        /\ decisions' = decisions \cup
             {[call |-> call, request_id |-> d.request_id, value |-> d.value]}
        /\ ids' = IF d.request_id > ids THEN d.request_id ELSE ids
  BY DEF ReturnDecision, EchoedId, IsEchoed, AllowedValue
<1> DEFINE told == [call |-> call, request_id |-> d.request_id, value |-> d.value]
<1>2. /\ status' = "returned" /\ status = "running"
      /\ UNCHANGED <<call, options, resume, cards>>
  BY DEF ReturnDecision
<1>3. /\ call \in 0..MaxCalls /\ call \in Nat /\ ids \in Nat /\ ids <= call
  BY ReviewBounds DEF IInv, TypeOK, IdsCounted
<1>4. PICK shown \in cards : shown.request_id = d.request_id
  BY <1>1 DEF IInv, ResumedIdsAreShown
<1>5. PICK mine \in cards : mine.call = call /\ mine.options = options
  BY <1>1 DEF IInv, CallIsShown
<1>6. /\ shown.request_id \in 1..ids /\ mine.call \in 1..call
  BY <1>4, <1>5 DEF IInv, TypeOK
<1>7. ids' = ids
  BY <1>1, <1>3, <1>4, <1>6
<1>8. TypeOK'
  <2>1. told \in [call : 1..call', request_id : 1..ids', value : Values]
    BY <1>1, <1>2, <1>3, <1>4, <1>5, <1>6, <1>7 DEF IInv, TypeOK
  <2>2. decisions' \subseteq [call : 1..call', request_id : 1..ids', value : Values]
    BY <1>1, <1>2, <1>7, <2>1 DEF IInv, TypeOK
  <2>3. UNCHANGED <<cards, ids, call, options, resume>> /\ status' = "returned"
    BY <1>2, <1>7
  <2> QED
    BY <2>2, <2>3 DEF IInv, TypeOK
<1>9. IdsCounted' /\ CallIsShown' /\ ResumedIdsAreShown'
  BY <1>1, <1>2, <1>3, <1>7 DEF IInv, IdsCounted, CallIsShown, ResumedIdsAreShown
<1>10. \A e \in decisions : e.call = call => e.request_id = d.request_id /\ e.value = d.value
  BY <1>1, <1>2 DEF IInv, DecisionStands, TypeOK
<1>11. DecisionStands'
  BY <1>1, <1>2, <1>10 DEF DecisionStands
<1>12. OnlyDisplayedIds' /\ OnlyOfferedValues'
  BY <1>1, <1>2, <1>4, <1>5 DEF IInv, OnlyDisplayedIds, OnlyOfferedValues
<1>13. OneDecisionPerCall'
  <2>1. \A e \in decisions : e.call = call => e = told
    <3> SUFFICES ASSUME NEW e \in decisions, e.call = call
                 PROVE  e = told
      OBVIOUS
    <3>1. e \in [call : 1..call, request_id : 1..ids, value : Values]
      BY DEF IInv, TypeOK
    <3> QED
      BY <1>10, <3>1
  <2>2. decisions' = decisions \cup {told} /\ told.call = call
    BY <1>1
  <2> HIDE DEF told
  <2> QED
    BY <2>1, <2>2 DEF IInv, OneDecisionPerCall
<1> QED
  BY <1>8, <1>9, <1>11, <1>12, <1>13 DEF IInv

LEMMA ResumeKeeps == IInv /\ Resume => IInv'
<1> SUFFICES ASSUME IInv, Resume
             PROVE  IInv'
  OBVIOUS
<1>1. PICK d \in PressedButtons \cup PostedWithoutId : resume' = {d}
  BY DEF Resume
<1>2. /\ status = "paused" /\ status' = "running"
      /\ UNCHANGED <<call, options, ids, cards, decisions>>
  BY DEF Resume
<1>3. /\ d \in Decisions
      /\ d.request_id = NoId \/ \E card \in cards : card.request_id = d.request_id
  <2>1. CASE d \in PressedButtons
    <3>1. PICK card \in cards : \E value \in card.options :
                                  d = [request_id |-> card.request_id, value |-> value]
      BY <2>1 DEF PressedButtons
    <3>2. card.request_id \in Nat /\ card.options \subseteq Values
      BY DEF IInv, TypeOK
    <3> QED
      BY <3>1, <3>2 DEF Decisions
  <2>2. CASE d \in PostedWithoutId
    BY <2>2 DEF PostedWithoutId, Decisions, NoId
  <2> QED
    BY <2>1, <2>2
<1>4. TypeOK' /\ IdsCounted' /\ CallIsShown' /\ ResumedIdsAreShown' /\ DecisionStands'
  BY <1>1, <1>2, <1>3 DEF IInv, TypeOK, IdsCounted, CallIsShown, ResumedIdsAreShown,
     DecisionStands
<1> QED
  BY <1>2, <1>4 DEF IInv, OnlyDisplayedIds, OnlyOfferedValues, OneDecisionPerCall

LEMMA OthersKeep ==
  IInv /\ (RejectRequest \/ RejectDecision \/ NodeReturns \/ Die \/ RunAgain \/ Abandon) => IInv'
<1> SUFFICES ASSUME IInv,
                    RejectRequest \/ RejectDecision \/ NodeReturns \/ Die \/ RunAgain \/ Abandon
             PROVE  IInv'
  OBVIOUS
<1>1. UNCHANGED <<call, options, ids, cards, decisions>>
  BY DEF RejectRequest, RejectDecision, NodeReturns, Die, RunAgain, Abandon
<1>2. \/ /\ status \in {"running", "returned", "stopped"}
         /\ status' \in {"running", "returned", "stopped"} /\ resume' = resume
      \/ status' = "idle" /\ resume' = {}
  BY DEF RejectRequest, RejectDecision, NodeReturns, Die, RunAgain, Abandon
<1>3. TypeOK' /\ DecisionStands'
  BY <1>1, <1>2 DEF IInv, TypeOK, DecisionStands
<1>4. IdsCounted'
  BY <1>1, <1>2 DEF IInv, IdsCounted
<1>5. CallIsShown' /\ ResumedIdsAreShown'
  BY <1>1, <1>2 DEF IInv, IdsCounted, CallIsShown, ResumedIdsAreShown
<1>6. OnlyDisplayedIds' /\ OnlyOfferedValues' /\ OneDecisionPerCall'
  BY <1>1 DEF IInv, OnlyDisplayedIds, OnlyOfferedValues, OneDecisionPerCall
<1> QED
  BY <1>3, <1>4, <1>5, <1>6 DEF IInv

LEMMA NextKeeps == IInv /\ [Next]_vars => IInv'
<1> SUFFICES ASSUME IInv, [Next]_vars
             PROVE  IInv'
  OBVIOUS
<1>1. CASE Next
  BY <1>1, CallToolKeeps, InterruptKeeps, ReturnDecisionKeeps, ResumeKeeps, OthersKeep
     DEF Next
<1>2. CASE UNCHANGED vars
  BY <1>2 DEF vars, IInv, TypeOK, IdsCounted, CallIsShown, ResumedIdsAreShown,
     DecisionStands, 
     OnlyDisplayedIds, OnlyOfferedValues, OneDecisionPerCall
<1> QED
  BY <1>1, <1>2

LEMMA ReviewInvariant == Spec => []IInv
  BY InitIInv, NextKeeps, PTL DEF Spec

-----------------------------------------------------------------------------

\* The state keeps its types; each call puts at most one id in front of a human,
\* however often its body is started again (review.py:129-140).
THEOREM ReviewTypes == Spec => []TypeOK
  BY ReviewInvariant, PTL DEF IInv

\* No decision reaches the model with an id that no human saw.
THEOREM DecisionsWereDisplayed == Spec => []OnlyDisplayedIds
  BY ReviewInvariant, PTL DEF IInv

\* No decision reaches the model with a value its own call did not offer, also
\* when the answer was given on a card of another call.
THEOREM DecisionsWereOffered == Spec => []OnlyOfferedValues
  BY ReviewInvariant, PTL DEF IInv

\* The body may run again behind a decision, but it does not change it.
THEOREM DecisionsStand == Spec => []OneDecisionPerCall
  BY ReviewInvariant, PTL DEF IInv

-----------------------------------------------------------------------------
(* The review inside the graph *)

LEMMA ReviewedStep ==
  ASSUME [ReviewedNext]_reviewedVars
  PROVE  [Next]_vars
<1>1. CASE StartsReview \/ ShowsCard \/ TellsDecision \/ Rejects \/ EndsReview
  BY <1>1 DEF StartsReview, ShowsCard, TellsDecision, Rejects, EndsReview, Next
<1>2. CASE WithoutReview \/ UNCHANGED reviewedVars
  BY <1>2 DEF WithoutReview, reviewedVars
<1>3. CASE Answers \/ Fails \/ StartsAgain \/ UserWrites
  BY <1>3 DEF Answers, Fails, StartsAgain, UserWrites, Next
<1> QED
  BY <1>1, <1>2, <1>3 DEF ReviewedNext

\* What is proved of the review holds inside the graph, with all its turns, batches
\* and failures (base_agent.py:552-642, review.py:65-167).
THEOREM ReviewedImplementsReview == ReviewedSpec => Spec
<1>1. ReviewedInit => Init
  BY DEF ReviewedInit
<1>2. [ReviewedNext]_reviewedVars => [Next]_vars
  BY ReviewedStep
<1> QED
  BY <1>1, <1>2, PTL DEF ReviewedSpec, Spec

-----------------------------------------------------------------------------
(* The turns of the graph, of which SkillsAgentGraphProofs speaks *)

Turn == INSTANCE SkillsAgentGraphProofs WITH status <- run

\* Turn's definitions are those of Graph, read again.
LEMMA StepsOfTurn == Graph!Next => Turn!Next
<1>a. Graph!Touched = Turn!Touched
  BY DEF Graph!Touched, Turn!Touched
<1>b. ASSUME NEW touched, Graph!FinishToolNode(touched)
      PROVE  Turn!FinishToolNode(touched)
  <2>1. Graph!RoundBound = Turn!RoundBound /\ Graph!Idle = Turn!Idle
    BY DEF Graph!RoundBound, Turn!RoundBound, Graph!Idle, Turn!Idle
  <2>2. Graph!Cardinality(touched) = Turn!Cardinality(touched)
    BY DEF Graph!Cardinality, Turn!Cardinality
  <2> QED
    BY <1>b, <2>1, <2>2 DEF Graph!FinishToolNode, Turn!FinishToolNode
<1>1. Graph!HumanTurn => Turn!HumanTurn
  BY DEF Graph!HumanTurn, Turn!HumanTurn
<1>2. Graph!ResumeInterrupt => Turn!ResumeInterrupt
  BY DEF Graph!ResumeInterrupt, Turn!ResumeInterrupt, Graph!checkpoint, Turn!checkpoint,
     Graph!ghosts, Turn!ghosts
<1>3. Graph!RetryRun => Turn!RetryRun
  BY DEF Graph!RetryRun, Turn!RetryRun, Graph!checkpoint, Turn!checkpoint, Graph!ghosts,
     Turn!ghosts
<1>4. Graph!NodeFails => Turn!NodeFails
  BY DEF Graph!NodeFails, Turn!NodeFails, Graph!Idle, Turn!Idle, Graph!checkpoint,
     Turn!checkpoint, Graph!ghosts, Turn!ghosts
<1>5. Graph!AgentNode => Turn!AgentNode
  BY DEF Graph!AgentNode, Turn!AgentNode, Graph!Responses, Turn!Responses, Graph!Emitted,
     Turn!Emitted, Graph!Calls, Turn!Calls, Graph!with_turn_reset, Turn!with_turn_reset,
     Graph!should_continue, Turn!should_continue
<1>6. Graph!ErrorSummaryNode => Turn!ErrorSummaryNode
  BY DEF Graph!ErrorSummaryNode, Turn!ErrorSummaryNode
<1>7. Graph!RefuseBatch => Turn!RefuseBatch
  BY <1>a, <1>b DEF Graph!RefuseBatch, Turn!RefuseBatch, Graph!InToolNode, Turn!InToolNode,
     Graph!Idle, Turn!Idle, Graph!Refused, Turn!Refused, Graph!AttemptsAfterRefusal,
     Turn!AttemptsAfterRefusal, Graph!LessOf, Turn!LessOf
<1>8. Graph!StartToolCalls => Turn!StartToolCalls
  BY DEF Graph!StartToolCalls, Turn!StartToolCalls, Graph!InToolNode, Turn!InToolNode,
     Graph!Idle, Turn!Idle, Graph!Refused, Turn!Refused, Graph!checkpoint, Turn!checkpoint,
     Graph!ghosts, Turn!ghosts
<1>9. Graph!SkipCallWithoutId => Turn!SkipCallWithoutId
  BY DEF Graph!SkipCallWithoutId, Turn!SkipCallWithoutId, Graph!Calls, Turn!Calls,
     Graph!AtCall, Turn!AtCall, Graph!InToolNode, Turn!InToolNode, Graph!checkpoint,
     Turn!checkpoint, Graph!ghosts, Turn!ghosts
<1>10. Graph!ToolNotFound => Turn!ToolNotFound
  BY DEF Graph!ToolNotFound, Turn!ToolNotFound, Graph!Calls, Turn!Calls, Graph!AtCall,
     Turn!AtCall, Graph!InToolNode, Turn!InToolNode, Graph!Record, Turn!Record,
     Graph!checkpoint, Turn!checkpoint, Graph!AttemptsAfterError, Turn!AttemptsAfterError
<1>11. Graph!InjectionFails => Turn!InjectionFails
  BY DEF Graph!InjectionFails, Turn!InjectionFails, Graph!Calls, Turn!Calls, Graph!AtCall,
     Turn!AtCall, Graph!InToolNode, Turn!InToolNode, Graph!Record, Turn!Record,
     Graph!checkpoint, Turn!checkpoint, Graph!AttemptsAfterError, Turn!AttemptsAfterError
<1>12. Graph!ToolSucceeds => Turn!ToolSucceeds
  BY DEF Graph!ToolSucceeds, Turn!ToolSucceeds, Graph!Calls, Turn!Calls, Graph!AtCall,
     Turn!AtCall, Graph!InToolNode, Turn!InToolNode, Graph!Invokes, Turn!Invokes,
     Graph!MayReturn, Turn!MayReturn, Graph!Record, Turn!Record, Graph!checkpoint,
     Turn!checkpoint, Graph!RunTool, Turn!RunTool
<1>13. Graph!ToolFails => Turn!ToolFails
  BY DEF Graph!ToolFails, Turn!ToolFails, Graph!Calls, Turn!Calls, Graph!AtCall,
     Turn!AtCall, Graph!InToolNode, Turn!InToolNode, Graph!Invokes, Turn!Invokes,
     Graph!MayReturn, Turn!MayReturn, Graph!Record, Turn!Record, Graph!checkpoint,
     Turn!checkpoint, Graph!AttemptsAfterError, Turn!AttemptsAfterError, Graph!RunTool,
     Turn!RunTool
<1>14. Graph!ToolInterrupts => Turn!ToolInterrupts
  BY DEF Graph!ToolInterrupts, Turn!ToolInterrupts, Graph!Calls, Turn!Calls, Graph!AtCall,
     Turn!AtCall, Graph!InToolNode, Turn!InToolNode, Graph!Invokes, Turn!Invokes,
     Graph!Idle, Turn!Idle, Graph!checkpoint, Turn!checkpoint, Graph!ghosts, Turn!ghosts
<1>15. Graph!ToolReturnsEmpty => Turn!ToolReturnsEmpty
  BY <1>a, <1>b DEF Graph!ToolReturnsEmpty, Turn!ToolReturnsEmpty, Graph!Calls, Turn!Calls,
     Graph!AtCall, Turn!AtCall, Graph!InToolNode, Turn!InToolNode, Graph!Invokes,
     Turn!Invokes, Graph!MayReturn, Turn!MayReturn, Graph!AttemptsAfterFallback,
     Turn!AttemptsAfterFallback, Graph!Idle, Turn!Idle
<1>16. Graph!EndToolCalls => Turn!EndToolCalls
  BY <1>a, <1>b DEF Graph!EndToolCalls, Turn!EndToolCalls, Graph!InToolNode,
     Turn!InToolNode, Graph!Charge, Turn!Charge, Graph!Idle, Turn!Idle
<1> QED
  BY <1>1, <1>2, <1>3, <1>4, <1>5, <1>6, <1>7, <1>8, <1>9, <1>10, <1>11, <1>12, <1>13, <1>14, <1>15, <1>16
     DEF Graph!Next, Turn!Next, Graph!GraphStep, Turn!GraphStep, Graph!ToolNode,
     Turn!ToolNode
LEMMA StartOfTurn == Graph!Init => Turn!Init
  BY DEF Graph!Init, Turn!Init, Graph!Idle, Turn!Idle

-----------------------------------------------------------------------------
(* CardsFitBudget *)

\* A card is out that no call answers for yet.
Pending == status = "paused" \/ resume # {}

\* While a review is under way the graph is at its call.
InHand ==
  status # "idle" =>
    /\ next = "tool_node"
    /\ \E tc \in Graph!Calls :
         last.tool_calls = << tc >> /\ Graph!Invokes(tc) /\ tc.name \in Interrupts

\* All cards but the pending one belong to calls that ran.
AskedInv ==
  /\ InHand
  /\ status \in {"running", "returned"} => run = "running"
  /\ status = "returned" => effects[1] > 0
  /\ status = "idle" => resume = {}
  /\ asked \in Nat /\ asked <= IF Pending THEN ran + 1 ELSE ran

\* What is proved of every turn of the graph.
TurnInv == Turn!ControlInv /\ Turn!Replays /\ Turn!Spending

\* Each instance has its own copy of FiniteSets.
LEMMA SameCardinality == \A S : Graph!Cardinality(S) = Cardinality(S)
  BY DEF Graph!Cardinality, Cardinality

\* The composition takes only steps of the graph.
LEMMA GraphSteps ==
  ASSUME [ReviewedNext]_reviewedVars
  PROVE  [Graph!Next]_Graph!vars
<1>1. CASE UNCHANGED reviewedVars
  BY <1>1 DEF reviewedVars, graphVars, Graph!vars, Graph!checkpoint, Graph!ghosts
<1>2. CASE ReviewedNext
  BY <1>2 DEF ReviewedNext, StartsReview, ShowsCard, TellsDecision, Rejects, EndsReview,
     WithoutReview, Answers, Fails, StartsAgain, UserWrites,
     Graph!Next, Graph!GraphStep, Graph!ToolNode
<1> QED
  BY <1>1, <1>2

\* The review tool is one of the tools the graph was verified with: nothing it does
\* leaves the behaviours of SkillsAgentGraph.
THEOREM ReviewedImplementsGraph == ReviewedSpec => Graph!Spec
<1>1. ReviewedInit => Graph!Init
  BY DEF ReviewedInit
<1>2. [ReviewedNext]_reviewedVars => [Graph!Next]_Graph!vars
  BY GraphSteps
<1> QED
  BY <1>1, <1>2, PTL DEF ReviewedSpec, Graph!Spec

LEMMA TurnSteps ==
  ASSUME [ReviewedNext]_reviewedVars
  PROVE  [Turn!Next]_Turn!vars
<1>1. [Graph!Next]_Graph!vars
  BY GraphSteps
<1>2. Graph!vars = Turn!vars
  BY DEF Graph!vars, Graph!checkpoint, Graph!ghosts, Turn!vars, Turn!checkpoint, Turn!ghosts
<1> QED
  BY <1>1, <1>2, StepsOfTurn
     DEF Graph!vars, Graph!checkpoint, Graph!ghosts, Turn!vars, Turn!checkpoint, Turn!ghosts

LEMMA TurnKept == ReviewedSpec => []TurnInv
<1>1. ReviewedInit => TurnInv
  BY StartOfTurn, GraphAssumption, Turn!InitControl, Turn!InitReplays, Turn!InitSpending
     DEF ReviewedInit, TurnInv
<1>2. TurnInv /\ [ReviewedNext]_reviewedVars => TurnInv'
  BY TurnSteps, GraphAssumption, Turn!NextControl, Turn!NextReplays, Turn!NextSpending
     DEF TurnInv
<1> QED
  BY <1>1, <1>2, PTL DEF ReviewedSpec

\* What the lemmas below need of it.
LEMMA RoomForOneCall ==
  ASSUME TurnInv
  PROVE  /\ ran \in Nat /\ effects \in Seq(Nat) /\ ran <= MAX_TOOL_CALLS
         /\ next = "tool_node" => /\ DOMAIN effects = DOMAIN last.tool_calls
                                 /\ ran + Len(last.tool_calls) <= MAX_TOOL_CALLS
<1>1. /\ ran \in Nat /\ effects \in Seq(Nat) /\ ran <= MAX_TOOL_CALLS
      /\ tool_call_count \in Nat /\ last.tool_calls \in Seq(Turn!Calls)
  BY GraphAssumption DEF TurnInv, Turn!ControlInv, Turn!TypeOK, Turn!LastMessages,
     Turn!Spending
<1>2. CASE next = "tool_node"
  <2>1. /\ DOMAIN effects = DOMAIN last.tool_calls
        /\ tool_call_count + Len(last.tool_calls) <= MAX_TOOL_CALLS
        /\ ran <= tool_call_count
    BY <1>2 DEF TurnInv, Turn!ControlInv, Turn!Control, Turn!Spending, Turn!Batch
  <2>2. Len(last.tool_calls) \in Nat
    BY <1>1
  <2> QED
    BY <1>1, <2>1, <2>2, GraphAssumption
<1> QED
  BY <1>1, <1>2

\* A pending card is covered by the call that is still to be charged.
LEMMA CardsAreBounded ==
  ASSUME TurnInv, AskedInv
  PROVE  CardsFitBudget
<1>1. CASE Pending
  <2>1. status # "idle"
    BY <1>1 DEF AskedInv, Pending
  <2>2. PICK tc \in Graph!Calls : last.tool_calls = << tc >>
    BY <2>1 DEF AskedInv, InHand
  <2>3. next = "tool_node"
    BY <2>1 DEF AskedInv, InHand
  <2>4. ran + 1 <= MAX_TOOL_CALLS
    BY <2>2, <2>3, RoomForOneCall
  <2> QED
    BY <1>1, <2>4, RoomForOneCall, GraphAssumption DEF AskedInv, CardsFitBudget
<1>2. CASE ~Pending
  BY <1>2, RoomForOneCall, GraphAssumption DEF AskedInv, CardsFitBudget
<1> QED
  BY <1>1, <1>2

\* A step of the graph never uncounts what ran.
LEMMA RanGrows ==
  ASSUME TurnInv, Graph!GraphStep
  PROVE  ran' >= ran /\ ran' \in Nat
<1>1. DOMAIN effects = 1..Len(effects) /\ Len(effects) \in Nat /\ ran \in Nat
  BY RoomForOneCall
<1>2. ASSUME NEW touched, touched \subseteq DOMAIN effects, Graph!FinishToolNode(touched)
      PROVE  ran' >= ran /\ ran' \in Nat
  <2>0. IsFiniteSet(DOMAIN effects)
    BY <1>1, FS_Interval
  <2>1. IsFiniteSet(touched)
    BY <1>2, <2>0, FS_Subset
  <2>2. Cardinality(touched) \in Nat
    BY <2>1, FS_CardinalityType
  <2>3. ran' = ran + Cardinality(touched)
    BY <1>2, SameCardinality DEF Graph!FinishToolNode
  <2> QED
    BY <1>1, <2>2, <2>3
<1>3. Graph!Touched \subseteq DOMAIN effects
  BY DEF Graph!Touched
<1>4. CASE Graph!RefuseBatch \/ Graph!EndToolCalls
  BY <1>2, <1>3, <1>4 DEF Graph!RefuseBatch, Graph!EndToolCalls
<1>5. CASE Graph!ToolReturnsEmpty
  <2>1. local.at \in DOMAIN effects
    BY <1>5, RoomForOneCall DEF Graph!ToolReturnsEmpty, Graph!AtCall, Graph!InToolNode
  <2>2. Graph!Touched \cup {local.at} \subseteq DOMAIN effects
    BY <1>3, <2>1
  <2> QED
    BY <1>2, <1>5, <2>2 DEF Graph!ToolReturnsEmpty
<1>6. CASE ~(Graph!RefuseBatch \/ Graph!EndToolCalls \/ Graph!ToolReturnsEmpty)
  <2>1. ran' = ran
    BY <1>6 DEF Graph!GraphStep, Graph!ToolNode, Graph!AgentNode, Graph!ErrorSummaryNode,
       Graph!StartToolCalls, Graph!SkipCallWithoutId, Graph!ToolNotFound, Graph!InjectionFails,
       Graph!ToolSucceeds, Graph!ToolFails, Graph!ToolInterrupts, Graph!Record, Graph!ghosts
  <2> QED
    BY <1>1, <2>1
<1> QED
  BY <1>4, <1>5, <1>6

LEMMA StartsReviewKeeps ==
  ASSUME AskedInv, StartsReview
  PROVE  AskedInv'
<1>1. UNCHANGED <<next, run, last, effects, ran, asked, resume>>
  BY DEF StartsReview, Graph!StartToolCalls, Graph!checkpoint, Graph!ghosts, CallTool, vars
<1>2. status' = status \/ (status = "idle" /\ status' = "running")
  BY DEF StartsReview, CallTool, vars
<1>3. /\ run = "running" /\ next = "tool_node"
      /\ \E tc \in Graph!Calls :
           last.tool_calls = << tc >> /\ Graph!Invokes(tc) /\ tc.name \in Interrupts
  BY DEF StartsReview, AsksForReview, Graph!InToolNode
<1>4. InHand'
  BY <1>1, <1>3 DEF InHand
<1>5. Pending' = Pending
  BY <1>1, <1>2 DEF Pending
<1> QED
  BY <1>1, <1>2, <1>3, <1>4, <1>5 DEF AskedInv

LEMMA ShowsCardKeeps ==
  ASSUME TurnInv, AskedInv, ShowsCard
  PROVE  AskedInv'
<1>1. UNCHANGED <<next, last, effects, ran>>
  BY DEF ShowsCard, Graph!ToolInterrupts, Graph!checkpoint, Graph!ghosts
<1>2. status = "running" /\ status' = "paused" /\ resume = {} /\ asked' = asked + 1
  BY DEF ShowsCard, Interrupt
<1>3. InHand'
  BY <1>1, <1>2 DEF AskedInv, InHand
<1>4. ~Pending /\ Pending'
  BY <1>2 DEF Pending
<1> QED
  BY <1>1, <1>2, <1>3, <1>4, RoomForOneCall DEF AskedInv

\* The body is over, with a decision or an error: its call has run.
LEMMA BodyReturnsKeeps ==
  ASSUME TurnInv, AskedInv, TellsDecision \/ Rejects
  PROVE  AskedInv'
<1>1. /\ next' = next /\ run' = run /\ last' = last /\ ran' = ran
      /\ asked' = asked /\ resume' = resume
      /\ status = "running" /\ status' = "returned"
  BY DEF TellsDecision, Rejects, Graph!ToolSucceeds, Graph!ToolFails, Graph!Record,
     Graph!checkpoint, ReturnDecision, RejectRequest, RejectDecision
<1>2. /\ effects' = [effects EXCEPT ![local.at] = @ + 1]
      /\ local.at \in DOMAIN last.tool_calls /\ next = "tool_node"
      /\ \E tc \in Graph!Calls : last.tool_calls = << tc >>
  BY DEF TellsDecision, Rejects, Graph!ToolSucceeds, Graph!ToolFails, Graph!RunTool,
     Graph!AtCall, Graph!InToolNode, AsksForReview
<1>3. local.at = 1
  BY <1>2
<1>4. effects'[1] > 0
  <2>1. 1 \in DOMAIN effects /\ effects \in Seq(Nat)
    BY <1>2, <1>3, RoomForOneCall
  <2>2. effects[1] \in Nat
    BY <2>1
  <2>3. effects'[1] = effects[1] + 1
    BY <1>2, <1>3, <2>1
  <2> QED
    BY <2>2, <2>3
<1>5. InHand'
  BY <1>1 DEF AskedInv, InHand
<1>6. Pending' = Pending
  BY <1>1 DEF Pending
<1> QED
  BY <1>1, <1>4, <1>5, <1>6 DEF AskedInv

\* The call that showed a card is among those that ran when its node returns.
LEMMA EndsReviewKeeps ==
  ASSUME TurnInv, AskedInv, EndsReview
  PROVE  AskedInv'
<1>1. /\ status = "returned" /\ status' = "idle" /\ resume' = {} /\ asked' = asked
      /\ ran' = ran + Cardinality(Graph!Touched)
  BY SameCardinality DEF EndsReview, NodeReturns, Graph!EndToolCalls, Graph!FinishToolNode
<1>2. DOMAIN effects = {1} /\ effects[1] > 0
  <2>1. PICK tc \in Graph!Calls : last.tool_calls = << tc >>
    BY DEF EndsReview, AsksForReview
  <2>2. next = "tool_node"
    BY DEF EndsReview, AsksForReview, Graph!InToolNode
  <2>3. DOMAIN effects = DOMAIN last.tool_calls
    BY <2>2, RoomForOneCall
  <2> QED
    BY <1>1, <2>1, <2>3 DEF AskedInv
<1>3. Graph!Touched = {1}
  BY <1>2 DEF Graph!Touched
<1>4. ran' = ran + 1
  BY <1>1, <1>3, FS_Singleton
<1>5. InHand' /\ ~Pending'
  BY <1>1 DEF InHand, Pending
<1>6. asked \in Nat /\ ran \in Nat /\ asked <= ran + 1
  BY RoomForOneCall DEF AskedInv
<1> QED
  BY <1>1, <1>4, <1>5, <1>6 DEF AskedInv

\* Nothing else happens in the graph while a review is under way.
LEMMA WithoutReviewKeeps ==
  ASSUME TurnInv, AskedInv, WithoutReview
  PROVE  AskedInv'
<1>1. /\ status' = status /\ resume' = resume /\ asked' = asked
  BY DEF WithoutReview, vars
<1>2. status = "idle"
  <2>1. run = "running" /\ (next = "tool_node" => Graph!InToolNode)
    BY DEF WithoutReview, Graph!GraphStep, Graph!AgentNode, Graph!ErrorSummaryNode,
       Graph!ToolNode, 
       Graph!RefuseBatch, Graph!StartToolCalls, Graph!SkipCallWithoutId, Graph!ToolNotFound,
       Graph!InjectionFails, Graph!ToolSucceeds, Graph!ToolFails, Graph!ToolInterrupts,
       Graph!ToolReturnsEmpty, Graph!EndToolCalls, Graph!AtCall, Graph!InToolNode
  <2> QED
    BY <2>1 DEF AskedInv, InHand, WithoutReview, AsksForReview
<1>3. ran' >= ran /\ ran' \in Nat /\ ran \in Nat
  BY RanGrows, RoomForOneCall DEF WithoutReview
<1>4. InHand' /\ ~Pending /\ ~Pending'
  BY <1>1, <1>2 DEF AskedInv, InHand, Pending
<1> QED
  BY <1>1, <1>2, <1>3, <1>4 DEF AskedInv

\* Only a new message of the user forgets what was asked.
LEMMA WorldKeeps ==
  ASSUME TurnInv, TypeOK, AskedInv, Answers \/ Fails \/ StartsAgain \/ UserWrites
  PROVE  AskedInv'
<1>1. CASE Answers
  <2>1. /\ UNCHANGED <<next, last, effects, ran, asked>> /\ run' = "running"
        /\ status = "paused" /\ status' = "running"
    BY <1>1 DEF Answers, Graph!ResumeInterrupt, Graph!checkpoint, Graph!ghosts, Resume
  <2>2. InHand' /\ Pending
    BY <2>1 DEF AskedInv, InHand, Pending
  <2>3. Pending'
    BY <1>1 DEF Answers, Resume, Pending
  <2> QED
    BY <2>1, <2>2, <2>3 DEF AskedInv
<1>2. CASE Fails
  <2>1. /\ UNCHANGED <<next, last, effects, ran, asked, resume>>
        /\ status' = IF status \in {"running", "returned"} THEN "stopped" ELSE status
    BY <1>2 DEF Fails, Graph!NodeFails, Graph!checkpoint, Graph!ghosts, Die, vars
  <2>2. InHand' /\ Pending' = Pending
    BY <2>1 DEF AskedInv, InHand, Pending
  <2> QED
    BY <2>1, <2>2 DEF AskedInv
<1>3. CASE StartsAgain
  <2>1. /\ UNCHANGED <<next, last, effects, ran, asked, resume>> /\ run' = "running"
        /\ status' = IF status = "stopped" THEN "running" ELSE status
    BY <1>3 DEF StartsAgain, Graph!RetryRun, Graph!checkpoint, Graph!ghosts, RunAgain, vars
  <2>2. InHand' /\ Pending' = Pending
    BY <2>1 DEF AskedInv, InHand, Pending
  <2> QED
    BY <2>1, <2>2 DEF AskedInv
<1>4. CASE UserWrites
  <2>1. run # "running" /\ ran' = 0 /\ asked' = 0
    BY <1>4 DEF UserWrites, Graph!HumanTurn
  <2>2. status' = "idle" /\ resume' = {}
    BY <1>4, <2>1 DEF UserWrites, Abandon, AskedInv, vars, TypeOK
  <2> QED
    BY <2>1, <2>2 DEF AskedInv, InHand, Pending
<1> QED
  BY <1>1, <1>2, <1>3, <1>4

LEMMA AskedKept ==
  ASSUME TurnInv, AskedInv, TypeOK, [ReviewedNext]_reviewedVars
  PROVE  AskedInv'
<1>1. CASE ReviewedNext
  BY <1>1, StartsReviewKeeps, ShowsCardKeeps, BodyReturnsKeeps, EndsReviewKeeps,
     WithoutReviewKeeps, WorldKeeps DEF ReviewedNext
<1>2. CASE UNCHANGED reviewedVars
  BY <1>2 DEF reviewedVars, graphVars, vars, AskedInv, InHand, Pending
<1> QED
  BY <1>1, <1>2

-----------------------------------------------------------------------------

\* A turn shows no human more cards than MAX_TOOL_CALLS, whatever is answered to
\* them and however often the process dies (nodes.py:72-76, review.py:151-161).
THEOREM CardsStayInBudget == ReviewedSpec => []CardsFitBudget
<1>1. ReviewedInit => AskedInv
  BY DEF ReviewedInit, Init, Graph!Init, AskedInv, InHand, Pending
<1>2. TurnInv /\ TypeOK /\ AskedInv /\ [ReviewedNext]_reviewedVars => AskedInv'
  BY AskedKept
<1>3. TurnInv /\ AskedInv => CardsFitBudget
  BY CardsAreBounded
<1> QED
  BY <1>1, <1>2, <1>3, TurnKept, ReviewedImplementsReview, ReviewTypes, PTL DEF ReviewedSpec

=============================================================================
