----------------------------- MODULE HumanReview -----------------------------
(***************************************************************************)
(* request_human_review (review.py) between the model that asks, the cards *)
(* the UI shows and the decisions it posts.                                *)
(*                                                                         *)
(* The body of the tool runs from the top whenever its node is started, so *)
(* each run makes a new request_id; the id a human sees is the one of the  *)
(* run that paused, the run that returns has another.  A resume goes to    *)
(* whatever call the thread is paused in, and the checkpoint holds it until*)
(* the node's update is kept: when the process dies behind the body, the   *)
(* next run of the body gets it again.  Cards stay on the screen when    *)
(* their call is over, so a decision may arrive late, twice, or be one that*)
(* was meant for another call.                                             *)
(***************************************************************************)
EXTENDS Naturals

CONSTANTS
  Values,      \* option values a request can offer
  MaxCalls     \* bound: calls of the tool on one thread

ASSUME ReviewBounds == MaxCalls \in Nat

VARIABLES
  status,      \* "idle" (the model is to act), "running" (the body), "returned" (the body
               \* is over, its node is not), "paused", "stopped"
  call,        \* ghost: number of the current call of the tool
  options,     \* values its options_json offers; {} when its arguments are invalid
  resume,      \* set with the resume value the checkpoint holds, if any
  ids,         \* request_ids that left the body: 1..ids
  cards,       \* what the UI has shown
  decisions    \* ghost: what the tool returned to the model

vars == <<status, call, options, resume, ids, cards, decisions>>

NoId == 0

\* What the code reads of a decision: request_id and value.
Decisions == [request_id : Nat, value : Values]

Init ==
  /\ status = "idle" /\ call = 0 /\ options = {} /\ resume = {}
  /\ ids = 0 /\ cards = {} /\ decisions = {}

-----------------------------------------------------------------------------
(* The body of the tool *)

\* The model calls the tool, alone in its batch.
CallTool ==
  /\ status = "idle" /\ call < MaxCalls
  /\ call' = call + 1 /\ options' \in SUBSET Values
  /\ status' = "running"
  /\ UNCHANGED <<resume, ids, cards, decisions>>

\* ValueError: the tool loop turns it into an EXECUTION_ERROR for the model.
RejectRequest ==
  /\ status = "running" /\ options = {}
  /\ status' = "returned"
  /\ UNCHANGED <<call, options, resume, ids, cards, decisions>>

\* interrupt() without a resume value: the request goes to the UI.
Interrupt ==
  /\ status = "running" /\ options # {} /\ resume = {}
  /\ ids' = ids + 1
  /\ cards' = cards \cup {[request_id |-> ids', call |-> call, options |-> options]}
  /\ status' = "paused"
  /\ UNCHANGED <<call, options, resume, decisions>>

\* Mutated form: a missing id is replaced by the one of this run.
TakeAnyId(id, local) == IF id = NoId THEN local ELSE id

\* The id that is returned, of the decision's and that of this run.
EchoedId(id, local) == id

\* Mutated form: an answer without an id will do.
AcceptMissingId(id) == TRUE

IsEchoed(id) == id # NoId

\* Mutated form: the value is not compared with the options.
AllowAnyValue(value) == TRUE

AllowedValue(value) == value \in options

\* interrupt() hands the resume value to the body, whose own id is ids + 1.
ReturnDecision ==
  /\ status = "running" /\ options # {}
  /\ \E d \in resume :
       LET id == EchoedId(d.request_id, ids + 1) IN
       /\ IsEchoed(id) /\ AllowedValue(d.value)
       /\ decisions' = decisions \cup
            {[call |-> call, request_id |-> id, value |-> d.value]}
       /\ ids' = IF id > ids THEN id ELSE ids
  /\ status' = "returned"
  /\ UNCHANGED <<call, options, resume, cards>>

\* ValueError again; the pause is used up.
RejectDecision ==
  /\ status = "running" /\ options # {}
  /\ \E d \in resume :
       ~IsEchoed(EchoedId(d.request_id, ids + 1)) \/ ~AllowedValue(d.value)
  /\ status' = "returned"
  /\ UNCHANGED <<call, options, resume, ids, cards, decisions>>

\* The update of tool_node is kept, and with it the resume value is used up.
NodeReturns ==
  /\ status = "returned"
  /\ status' = "idle" /\ resume' = {}
  /\ UNCHANGED <<call, options, ids, cards, decisions>>

-----------------------------------------------------------------------------
(* The host: UI, human and runtime *)

\* A human presses a button of a card on the screen.
PressedButtons ==
  UNION {{[request_id |-> card.request_id, value |-> value] : value \in card.options} :
           card \in cards}

\* A host that does not echo the id, or posts no JSON object at all.
PostedWithoutId == [request_id : {NoId}, value : Values]

\* Command(resume=...): a decision arrives, in time, late or again.
Resume ==
  /\ status = "paused"
  /\ \E d \in PressedButtons \cup PostedWithoutId : resume' = {d}
  /\ status' = "running"
  /\ UNCHANGED <<call, options, ids, cards, decisions>>

\* The process dies in the body or behind it, and the node is started again.
Die ==
  /\ status \in {"running", "returned"} /\ status' = "stopped"
  /\ UNCHANGED <<call, options, resume, ids, cards, decisions>>

RunAgain ==
  /\ status = "stopped" /\ status' = "running"
  /\ UNCHANGED <<call, options, resume, ids, cards, decisions>>

\* The user writes instead of answering.
Abandon ==
  /\ status \in {"paused", "stopped"}
  /\ status' = "idle" /\ resume' = {}
  /\ UNCHANGED <<call, options, ids, cards, decisions>>

Next ==
  \/ CallTool \/ RejectRequest \/ Interrupt \/ ReturnDecision \/ RejectDecision
  \/ NodeReturns \/ Resume \/ Die \/ RunAgain \/ Abandon

Spec == Init /\ [][Next]_vars

-----------------------------------------------------------------------------
(* Properties *)

TypeOK ==
  /\ status \in {"idle", "running", "returned", "paused", "stopped"}
  /\ call \in 0..MaxCalls
  /\ options \subseteq Values
  /\ resume \subseteq Decisions /\ \A d, e \in resume : d = e
  /\ ids \in 0..MaxCalls
  /\ cards \subseteq [request_id : 1..ids, call : 1..call, options : SUBSET Values]
  /\ decisions \subseteq [call : 1..call, request_id : 1..ids, value : Values]

\* The id in a decision was in front of a human, although every replay of the
\* node makes a new one (review.py:144-149).
OnlyDisplayedIds ==
  \A d \in decisions : \E card \in cards : card.request_id = d.request_id

\* The value in a decision is one the request of that very call offered, also
\* when the answer was meant for another card (review.py:100-101).
OnlyOfferedValues ==
  \A d \in decisions : \E card \in cards : card.call = d.call /\ d.value \in card.options

\* What a human decided about a request stands: however often the body is run again
\* behind the decision, because the process died before tool_node's update was
\* kept, the model is never told two different decisions (review.py:143-149).
OneDecisionPerCall == \A d, e \in decisions : d.call = e.call => d = e

\* The decision echoes the id "from the original interrupt payload"
\* (review.py:153).
DecisionIsForItsRequest ==
  \A d \in decisions : \E card \in cards :
    card.call = d.call /\ card.request_id = d.request_id

=============================================================================
