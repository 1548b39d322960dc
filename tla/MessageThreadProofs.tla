------------------------- MODULE MessageThreadProofs -------------------------
(***************************************************************************)
(* What is on the thread: the list of messages follows the graph, each     *)
(* update of tool_node answers its batch, a tool that ran is answered      *)
(* unless tool_node failed, and every request that is sent is well formed  *)
(* once it is repaired.  For every value of the constants.                 *)
(***************************************************************************)
EXTENDS MessageThread, SkillsAgentGraphProofs, SequenceTheorems

-----------------------------------------------------------------------------
(* The thread is the graph with a list *)

LEMMA ThreadStep ==
  ASSUME [ThreadNext]_<<vars, log>>
  PROVE  [Next]_vars
<1>1. CASE UNCHANGED <<vars, log>>
  BY <1>1
<1>2. CASE UserWrites \/ Restart \/ Fails
  BY <1>2 DEF UserWrites, Restart, Fails, Next
<1>3. CASE CallsLlm \/ Summarises
  BY <1>3 DEF CallsLlm, Summarises, Next, GraphStep
<1>4. CASE Refuses \/ PassesOver \/ AnswersWithoutRunning
  BY <1>4 DEF Refuses, PassesOver, AnswersWithoutRunning, Next, GraphStep, ToolNode
<1>5. CASE RunsAndAnswers \/ Pauses \/ FallsBack \/ Returns
  BY <1>5 DEF RunsAndAnswers, Pauses, FallsBack, Returns, Next, GraphStep, ToolNode
<1> QED
  BY <1>1, <1>2, <1>3, <1>4, <1>5 DEF ThreadNext

\* Keeping the messages takes nothing from what is proved of the graph.
THEOREM ThreadImplementsGraph == ThreadSpec => Spec
<1>1. ThreadInit => Init
  BY DEF ThreadInit
<1>2. [ThreadNext]_<<vars, log>> => [Next]_vars
  BY ThreadStep
<1> QED
  BY <1>1, <1>2, PTL DEF ThreadSpec, Spec

-----------------------------------------------------------------------------
(* Listing a finite set in order *)

LEMMA RanksGrow ==
  ASSUME NEW n \in Nat, NEW S \in SUBSET (1..n), NEW a \in S, NEW b \in S, a < b
  PROVE  Cardinality({i \in S : i <= a}) < Cardinality({i \in S : i <= b})
<1> DEFINE A == {i \in S : i <= a}
           B == {i \in S : i <= b}
<1>1. IsFiniteSet(1..n)
  BY FS_Interval
<1>2. \A i \in S : i \in Nat
  OBVIOUS
<1>3. A \in SUBSET B
  <2>1. \A i \in S : i <= a => i <= b
    <3> SUFFICES ASSUME NEW i \in S, i <= a PROVE i <= b
      OBVIOUS
    <3>1. i \in Nat /\ a \in Nat /\ b \in Nat
      BY <1>2
    <3> QED
      BY <3>1
  <2> QED
    BY <2>1, Zenon
<1>4. b \in B /\ b \notin A
  BY <1>2
<1>5. B \in SUBSET (1..n)
  OBVIOUS
<1>6. IsFiniteSet(B)
  BY <1>1, <1>5, FS_Subset
<1> HIDE DEF A, B
<1>7. Cardinality(A) \in Nat /\ Cardinality(B) \in Nat
  BY <1>3, <1>6, FS_Subset, FS_CardinalityType
<1>8. Cardinality(A) <= Cardinality(B) /\ Cardinality(A) # Cardinality(B)
  BY <1>3, <1>4, <1>6, FS_Subset
<1> QED
  BY <1>7, <1>8 DEF A, B

\* Ascending lists exactly the members of the set, each once, in order.
LEMMA AscendingLists ==
  ASSUME NEW n \in Nat, NEW S \in SUBSET (1..n)
  PROVE  /\ Cardinality(S) \in Nat
         /\ Ascending(S) \in Seq(S) /\ Len(Ascending(S)) = Cardinality(S)
         /\ \A k \in S : \E j \in DOMAIN Ascending(S) : Ascending(S)[j] = k
         /\ \A i, j \in DOMAIN Ascending(S) : i < j => Ascending(S)[i] < Ascending(S)[j]
<1> DEFINE UpTo(k) == Cardinality({i \in S : i <= k})
           card == Cardinality(S)
<1>1. IsFiniteSet(S) /\ card \in Nat
  <2>1. IsFiniteSet(1..n)
    BY FS_Interval
  <2> QED
    BY <2>1, FS_Subset, FS_CardinalityType
<1>2. \A k \in S : UpTo(k) \in 1..card
  <2> SUFFICES ASSUME NEW k \in S PROVE UpTo(k) \in 1..card
    OBVIOUS
  <2>1. {i \in S : i <= k} \in SUBSET S /\ k \in {i \in S : i <= k}
    OBVIOUS
  <2>2. UpTo(k) <= card /\ UpTo(k) \in Nat
    BY <1>1, <2>1, FS_Subset, FS_CardinalityType
  <2>3. UpTo(k) # 0
    BY <1>1, <2>1, FS_Subset, FS_EmptySet
  <2> QED
    BY <1>1, <2>2, <2>3
<1>3. \A a, b \in S : a < b => UpTo(a) < UpTo(b)
  BY RanksGrow
<1>4. \A a, b \in S : UpTo(a) = UpTo(b) => a = b
  <2> SUFFICES ASSUME NEW a \in S, NEW b \in S, UpTo(a) = UpTo(b) PROVE a = b
    OBVIOUS
  <2>1. a \in Nat /\ b \in Nat /\ UpTo(a) \in Nat /\ UpTo(b) \in Nat
    BY <1>1, <1>2
  <2> HIDE DEF UpTo
  <2> QED
    BY <1>3, <2>1
<1>5. \A j \in 1..card : \E k \in S : UpTo(k) = j
  <2> DEFINE Reached == {UpTo(k) : k \in S}
             r == [k \in S |-> UpTo(k)]
  <2>1. Reached \subseteq 1..card
    BY <1>2
  <2>2. r \in Bijection(S, Reached)
    <3> HIDE DEF UpTo
    <3> QED
      BY <1>4 DEF Bijection, Injection, Surjection, IsInjective
  <2>3. IsFiniteSet(Reached) /\ Cardinality(Reached) = card
    <3> HIDE DEF UpTo, r, Reached
    <3>1. ExistsBijection(S, Reached)
      BY <2>2 DEF ExistsBijection
    <3> QED
      BY <1>1, <3>1, FS_Bijection
  <2>4. Cardinality(1..card) = card /\ IsFiniteSet(1..card)
    BY <1>1, FS_Interval
  <2>5. Reached = 1..card
    BY <2>1, <2>3, <2>4, FS_Subset
  <2> QED
    BY <2>5
<1>6. /\ DOMAIN Ascending(S) = 1..card
      /\ \A j \in 1..card : Ascending(S)[j] \in S /\ UpTo(Ascending(S)[j]) = j
  <2> SUFFICES ASSUME NEW j \in 1..card
               PROVE  Ascending(S)[j] \in S /\ UpTo(Ascending(S)[j]) = j
    BY DEF Ascending
  <2>1. Ascending(S)[j] = CHOOSE k \in S : UpTo(k) = j
    BY DEF Ascending
  <2> HIDE DEF UpTo
  <2> QED
    BY <1>5, <2>1
<1>7. Ascending(S) \in Seq(S) /\ Len(Ascending(S)) = card
  <2>1. Ascending(S) \in [1..card -> S]
    BY <1>6 DEF Ascending
  <2> HIDE DEF card
  <2> QED
    BY <1>1, <2>1
<1>8. \A k \in S : \E j \in DOMAIN Ascending(S) : Ascending(S)[j] = k
  <2> HIDE DEF UpTo
  <2> QED
    BY <1>2, <1>4, <1>6
<1>9. \A i, j \in DOMAIN Ascending(S) : i < j => Ascending(S)[i] < Ascending(S)[j]
  <2> SUFFICES ASSUME NEW i \in 1..card, NEW j \in 1..card, i < j
               PROVE  Ascending(S)[i] < Ascending(S)[j]
    BY <1>6
  <2> DEFINE a == Ascending(S)[i]
             b == Ascending(S)[j]
  <2>1. a \in S /\ b \in S /\ UpTo(a) = i /\ UpTo(b) = j
    BY <1>6
  <2> HIDE DEF a, b, UpTo
  <2>2. a \in Nat /\ b \in Nat
    BY <2>1
  <2>3. ~(a = b) /\ ~(b < a)
    BY <1>1, <1>3, <2>1
  <2> QED
    BY <2>2, <2>3 DEF a, b
<1> QED
  BY <1>1, <1>7, <1>8, <1>9

-----------------------------------------------------------------------------
(* Lists of answers *)

\* One ToolMessage for each call of the batch that has an id, in order.
AnswersBatch(answers, calls) ==
  /\ answers \in Seq(Messages)
  /\ \A j \in DOMAIN answers : answers[j].kind = "tool" /\ answers[j].id \in WithId(calls)
  /\ \A k \in WithId(calls) : \E j \in DOMAIN answers : answers[j].id = k
  /\ \A i, j \in DOMAIN answers : i < j => answers[i].id < answers[j].id

LEMMA ToolMessageTypes ==
  ASSUME NEW k \in Nat
  PROVE  ToolMessage(k) \in Messages /\ ToolMessage(k).kind = "tool" /\ ToolMessage(k).id = k
  BY DEF ToolMessage, Messages

LEMMA OtherMessageTypes == OtherMessage \in Messages /\ OtherMessage.kind = "other"
  BY DEF OtherMessage, Messages

LEMMA AsMessageTypes ==
  ASSUME NEW calls \in Seq(Calls)
  PROVE  /\ AsMessage(calls) \in Messages
         /\ AsMessage(calls).kind = IF calls = << >> THEN "other" ELSE "ai"
<1>1. OtherMessage \in Messages /\ OtherMessage.kind = "other"
  BY OtherMessageTypes
<1>2. IdsOf(calls) \in Seq(Nat)
  <2>1. IdsOf(calls) \in [1..Len(calls) -> Nat] /\ Len(calls) \in Nat
    BY DEF IdsOf
  <2> QED
    BY <2>1
<1>3. AiMessage(IdsOf(calls)) \in Messages /\ AiMessage(IdsOf(calls)).kind = "ai"
  <2>1. (Nat \ {0}) \cup {0} = Nat
    OBVIOUS
  <2> QED
    BY <1>2, <2>1 DEF AiMessage, Messages
<1> QED
  BY <1>1, <1>3 DEF AsMessage

\* The list of the refusing and the catastrophic path.
LEMMA AnswersToBatch ==
  ASSUME NEW calls \in Seq(Calls)
  PROVE  AnswersBatch(AnswersTo(calls), calls)
<1> DEFINE S == WithId(calls)
           ids == Ascending(S)
<1>1. Len(calls) \in Nat /\ S \in SUBSET (1..Len(calls))
  BY DEF WithId
<1>2. /\ Cardinality(S) \in Nat /\ ids \in Seq(S) /\ Len(ids) = Cardinality(S)
      /\ \A k \in S : \E j \in DOMAIN ids : ids[j] = k
      /\ \A i, j \in DOMAIN ids : i < j => ids[i] < ids[j]
  BY <1>1, AscendingLists
<1>3. AnswersTo(calls) = [j \in DOMAIN ids |-> ToolMessage(ids[j])]
  BY DEF AnswersTo
<1>4. \A j \in DOMAIN ids : ids[j] \in S /\ ids[j] \in Nat
  <2> HIDE DEF S, ids
  <2>1. \A k \in S : k \in Nat
    BY <1>1
  <2> QED
    BY <1>2, <2>1
<1> HIDE DEF S, ids
<1>5. \A j \in DOMAIN ids : /\ ToolMessage(ids[j]) \in Messages
                           /\ ToolMessage(ids[j]).kind = "tool"
                           /\ ToolMessage(ids[j]).id = ids[j]
  BY <1>4, ToolMessageTypes
<1>6. DOMAIN ids = 1..Cardinality(S)
  BY <1>2
<1>7. AnswersTo(calls) \in Seq(Messages)
  BY <1>2, <1>3, <1>5, <1>6, SMTT(30)
<1>8. DOMAIN AnswersTo(calls) = DOMAIN ids
  BY <1>3
<1>9. \A j \in DOMAIN AnswersTo(calls) :
        AnswersTo(calls)[j].kind = "tool" /\ AnswersTo(calls)[j].id = ids[j]
  BY <1>3, <1>5
<1>10. \A j \in DOMAIN AnswersTo(calls) : AnswersTo(calls)[j].id \in WithId(calls)
  BY <1>4, <1>8, <1>9 DEF S
<1>11. \A k \in WithId(calls) : \E j \in DOMAIN AnswersTo(calls) : AnswersTo(calls)[j].id = k
  BY <1>2, <1>8, <1>9 DEF S
<1>12. \A i, j \in DOMAIN AnswersTo(calls) :
         i < j => AnswersTo(calls)[i].id < AnswersTo(calls)[j].id
  BY <1>2, <1>8, <1>9
<1> QED
  BY <1>7, <1>9, <1>10, <1>11, <1>12 DEF AnswersBatch

\* What is answered stays answered when messages are appended.
LEMMA StaysAnswered ==
  ASSUME NEW log1 \in Seq(Messages), NEW new \in Seq(Messages),
         NEW p \in 1..Len(log1), NEW k, Answered(log1, p, k)
  PROVE  Answered(log1 \o new, p, k)
<1>1. PICK q \in Block(log1, p) : log1[q].id = k
  BY DEF Answered
<1>2. q \in (p+1)..Len(log1) /\ \A r \in (p+1)..q : log1[r].kind = "tool"
  BY <1>1 DEF Block
<1>3. /\ Len(log1 \o new) = Len(log1) + Len(new) /\ Len(log1) \in Nat /\ Len(new) \in Nat
      /\ \A r \in 1..Len(log1) : (log1 \o new)[r] = log1[r]
  OBVIOUS
<1>4. q \in (p+1)..Len(log1 \o new)
  BY <1>2, <1>3
<1>5. \A r \in (p+1)..q : (log1 \o new)[r].kind = "tool"
  BY <1>2, <1>3
<1>6. (log1 \o new)[q].id = k
  BY <1>1, <1>2, <1>3
<1> QED
  BY <1>4, <1>5, <1>6 DEF Answered, Block

\* The answers of a batch that is the last message answer its calls.
LEMMA BatchIsAnswered ==
  ASSUME NEW log1 \in Seq(Messages), NEW calls, NEW answers, AnswersBatch(answers, calls),
         NEW k \in WithId(calls)
  PROVE  Answered(log1 \o answers, Len(log1), k)
<1>1. PICK j \in DOMAIN answers : answers[j].id = k
  BY DEF AnswersBatch
<1>2. answers \in Seq(Messages) /\ \A i \in DOMAIN answers : answers[i].kind = "tool"
  BY DEF AnswersBatch
<1> DEFINE n == Len(log1)
<1>3. /\ n \in Nat /\ Len(answers) \in Nat /\ j \in 1..Len(answers)
      /\ Len(log1 \o answers) = n + Len(answers)
      /\ \A i \in 1..Len(answers) : (log1 \o answers)[n + i] = answers[i]
  BY <1>1, <1>2
<1>4. n + j \in (n+1)..Len(log1 \o answers)
  BY <1>3
<1>5. \A r \in (n+1)..(n+j) : (log1 \o answers)[r].kind = "tool"
  <2> SUFFICES ASSUME NEW r \in (n+1)..(n+j) PROVE (log1 \o answers)[r].kind = "tool"
    OBVIOUS
  <2>1. r - n \in 1..Len(answers) /\ r = n + (r - n)
    BY <1>3
  <2> QED
    BY <1>2, <1>3, <2>1
<1>6. (log1 \o answers)[n + j].id = k
  BY <1>1, <1>3
<1> QED
  BY <1>4, <1>5, <1>6 DEF Answered, Block

-----------------------------------------------------------------------------
(* The invariant *)

\* tool_messages answers the calls with an id that the loop is behind.
Answering ==
  /\ tool_messages \in Seq(Messages)
  /\ \A j \in DOMAIN tool_messages :
       /\ tool_messages[j].kind = "tool"
       /\ tool_messages[j].id \in WithId(Batch) /\ tool_messages[j].id < local.at
  /\ \A k \in WithId(Batch) : k < local.at => \E j \in DOMAIN tool_messages : tool_messages[j].id = k
  /\ \A i, j \in DOMAIN tool_messages : i < j => tool_messages[i].id < tool_messages[j].id

\* A call whose tool ran belongs to a batch a failure hit, is answered, or is one
\* the loop is behind.
Kept ==
  \A c \in invoked :
    /\ c.batch \in 1..Len(messages)
    /\ \/ c.batch \in lost \/ Answered(messages, c.batch, c.call)
       \/ /\ InToolNode /\ c.batch = Len(messages)
          /\ c.call \in WithId(Batch) /\ c.call < local.at

ThreadInv ==
  /\ ControlInv /\ messages \in Seq(Messages)
  /\ LastIsLast /\ Answering /\ Kept

\* The types the steps below need.
LEMMA BatchTypes ==
  ASSUME ThreadInv
  PROVE  /\ Batch \in Seq(Calls) /\ Len(Batch) \in Nat /\ DOMAIN Batch = 1..Len(Batch)
         /\ WithId(Batch) \subseteq 1..Len(Batch)
         /\ local.at \in Nat /\ Len(messages) \in Nat
         /\ next = "tool_node" => Len(messages) > 0
<1>1. Batch \in Seq(Calls) /\ local.at \in Nat /\ last.type \in {"none", "human", "ai", "tool"}
  BY DEF ThreadInv, ControlInv, TypeOK, LastMessages, Locals, Batch
<1>2. DOMAIN Batch = 1..Len(Batch) /\ Len(Batch) \in Nat
  BY <1>1
<1>3. WithId(Batch) \subseteq DOMAIN Batch
  BY DEF WithId
<1>4. Len(messages) \in Nat /\ (messages # << >> => Len(messages) > 0)
  BY DEF ThreadInv
<1>5. next = "tool_node" => messages # << >>
  BY DEF ThreadInv, ControlInv, Control, LastIsLast
<1> QED
  BY <1>1, <1>2, <1>3, <1>4, <1>5

LEMMA InitThread == ThreadInit => ThreadInv
<1> SUFFICES ASSUME ThreadInit PROVE ThreadInv
  OBVIOUS
<1>1. ControlInv
  BY InitControl DEF ThreadInit
<1>2. messages = << >> /\ tool_messages = << >> /\ invoked = {} /\ last.type = "none"
      /\ local.at = 0 /\ Batch = << >>
  BY DEF ThreadInit, Init, Idle, Batch
<1>3. messages \in Seq(Messages) /\ tool_messages \in Seq(Messages)
  BY <1>2
<1>4. LastIsLast
  BY <1>2 DEF LastIsLast
<1>5. WithId(Batch) = {}
  BY <1>2 DEF WithId
<1>6. Answering
  BY <1>2, <1>3, <1>5 DEF Answering
<1> QED
  BY <1>1, <1>2, <1>3, <1>4, <1>6 DEF ThreadInv, Kept

\* A loop that is not at any call has answered nothing.
LEMMA NothingAnswered ==
  ASSUME ThreadInv, local = Idle
  PROVE  tool_messages = << >>
<1>1. local.at = 0
  BY DEF Idle
<1>2. tool_messages \in Seq(Messages)
  BY DEF ThreadInv, Answering
<1>3. DOMAIN tool_messages = {}
  BY <1>1, BatchTypes DEF ThreadInv, Answering
<1> QED
  BY <1>2, <1>3

\* No batch in the loop is met outside tool_node.
LEMMA NotInTheLoop ==
  ASSUME ThreadInv, ~InToolNode \/ local = Idle
  PROVE  \A c \in invoked : /\ c.batch \in 1..Len(messages)
                            /\ c.batch \in lost \/ Answered(messages, c.batch, c.call)
<1>1. local = Idle => \A c \in invoked : ~(c.call \in WithId(Batch) /\ c.call < local.at)
  BY BatchTypes DEF Idle
<1> QED
  BY <1>1 DEF ThreadInv, Kept

\* A message that is no batch is appended outside the loop, or the batch that
\* the next round starts with.
LEMMA AppendKeeps ==
  ASSUME ThreadInv, ControlInv', ~InToolNode, NEW m \in Messages,
         add_messages(<< m >>), UNCHANGED <<tool_messages, invoked, lost, local>>
  PROVE  /\ messages' \in Seq(Messages) /\ messages' # << >>
         /\ messages'[Len(messages')] = m
         /\ Answering' /\ Kept'
<1>1. messages \in Seq(Messages) /\ << m >> \in Seq(Messages)
  BY DEF ThreadInv
<1>2. /\ messages' = messages \o << m >> /\ Len(messages') = Len(messages) + 1
      /\ Len(messages) \in Nat /\ messages' \in Seq(Messages)
      /\ messages'[Len(messages')] = m
  BY <1>1 DEF add_messages
<1>3. local = Idle
  BY DEF ThreadInv, ControlInv, Control, InToolNode
<1>4. tool_messages' = << >> /\ local'.at = 0
  BY <1>3, NothingAnswered DEF Idle
<1>5. Answering'
  <2>1. tool_messages' \in Seq(Messages) /\ DOMAIN tool_messages' = {}
    BY <1>4
  <2>2. last'.tool_calls \in Seq(Calls)
    BY DEF ControlInv, TypeOK, LastMessages
  <2>3. \A k \in WithId(last'.tool_calls) : k \in Nat
    BY <2>2 DEF WithId
  <2>4. \A k \in WithId(last'.tool_calls) : ~(k < local'.at)
    BY <1>4, <2>3
  <2> QED
    BY <2>1, <2>4 DEF Answering, Batch
<1>6. \A c \in invoked : /\ c.batch \in 1..Len(messages)
                         /\ c.batch \in lost \/ Answered(messages, c.batch, c.call)
  BY NotInTheLoop
<1>7. \A c \in invoked : Answered(messages, c.batch, c.call) => Answered(messages', c.batch, c.call)
  BY <1>1, <1>2, <1>6, StaysAnswered
<1>8. \A c \in invoked' : /\ c.batch \in 1..Len(messages')
                          /\ c.batch \in lost' \/ Answered(messages', c.batch, c.call)
  BY <1>2, <1>6, <1>7
<1> QED
  BY <1>2, <1>5, <1>8 DEF Kept

\* A step of the loop that handles the call it is at, with an answer or without.
LEMMA LoopKeeps ==
  ASSUME ThreadInv, ControlInv', NEW tc, AtCall(tc), InToolNode', UNCHANGED <<last, messages, lost>>,
         local'.at = local.at + 1,
         \/ tc.hasId /\ tool_messages' = WithAnswer(tool_messages, local.at)
         \/ ~tc.hasId /\ tool_messages' = tool_messages,
         invoked' = invoked \/ (tc.hasId /\ Invoked)
  PROVE  Answering' /\ Kept'
<1> DEFINE at == local.at
<1>1. /\ InToolNode /\ at \in 1..Len(Batch) /\ tc = Batch[at] /\ at \in Nat
      /\ Len(messages) \in Nat /\ Len(messages) > 0 /\ WithId(Batch) \subseteq 1..Len(Batch)
      /\ Len(Batch) \in Nat
  BY BatchTypes DEF AtCall, InToolNode, Batch
<1>2. Batch' = Batch
  BY DEF Batch
<1>3. tc.hasId <=> at \in WithId(Batch)
  BY <1>1, BatchTypes DEF WithId
<1>4. /\ tool_messages \in Seq(Messages)
      /\ \A j \in DOMAIN tool_messages :
           /\ tool_messages[j].kind = "tool"
           /\ tool_messages[j].id \in WithId(Batch) /\ tool_messages[j].id < at
      /\ \A k \in WithId(Batch) : k < at => \E j \in DOMAIN tool_messages : tool_messages[j].id = k
      /\ \A i, j \in DOMAIN tool_messages : i < j => tool_messages[i].id < tool_messages[j].id
  BY DEF ThreadInv, Answering
<1>5. \A k \in WithId(Batch) : k < at + 1 <=> k < at \/ k = at
  BY <1>1
<1>6. Answering'
  <2>1. CASE ~tc.hasId /\ tool_messages' = tool_messages
    <3>1. \A k \in WithId(Batch) : k # at
      BY <1>3, <2>1
    <3> QED
      BY <1>2, <1>4, <1>5, <2>1, <3>1 DEF Answering
  <2>2. CASE tc.hasId /\ tool_messages' = WithAnswer(tool_messages, at)
    <3> DEFINE n == Len(tool_messages)
    <3>1. ToolMessage(at) \in Messages /\ ToolMessage(at).kind = "tool" /\ ToolMessage(at).id = at
      BY <1>1, ToolMessageTypes
    <3>2. /\ n \in Nat /\ DOMAIN tool_messages = 1..n
          /\ tool_messages' = Append(tool_messages, ToolMessage(at))
          /\ tool_messages' \in Seq(Messages) /\ DOMAIN tool_messages' = 1..(n+1)
          /\ \A j \in 1..n : tool_messages'[j] = tool_messages[j]
          /\ tool_messages'[n+1] = ToolMessage(at)
      BY <1>4, <2>2, <3>1 DEF WithAnswer
    <3> HIDE DEF n, at
    <3>3. \A j \in 1..(n+1) : j \in 1..n \/ j = n + 1
      BY <3>2
    <3>4. \A j \in DOMAIN tool_messages' :
            /\ tool_messages'[j].kind = "tool"
            /\ tool_messages'[j].id \in WithId(Batch) /\ tool_messages'[j].id < at + 1
      <4>1. at \in WithId(Batch) /\ at < at + 1
        BY <1>1, <1>3, <2>2
      <4> QED
        BY <1>4, <1>5, <3>1, <3>2, <3>3, <4>1
    <3>5. \A k \in WithId(Batch) : k < at + 1 =>
            \E j \in DOMAIN tool_messages' : tool_messages'[j].id = k
      <4> SUFFICES ASSUME NEW k \in WithId(Batch), k < at + 1
                   PROVE  \E j \in 1..(n+1) : tool_messages'[j].id = k
        BY <3>2
      <4>1. CASE k = at
        <5>1. n + 1 \in 1..(n+1) /\ tool_messages'[n+1].id = k
          BY <3>1, <3>2, <4>1
        <5> QED
          BY <5>1
      <4>2. CASE k < at
        <5>1. PICK j \in 1..n : tool_messages[j].id = k
          BY <1>4, <3>2, <4>2
        <5>2. j \in 1..(n+1) /\ tool_messages'[j] = tool_messages[j]
          BY <3>2
        <5> QED
          BY <5>1, <5>2
      <4> QED
        BY <1>5, <4>1, <4>2
    <3>6. \A i, j \in DOMAIN tool_messages' : i < j => tool_messages'[i].id < tool_messages'[j].id
      <4> SUFFICES ASSUME NEW i \in 1..(n+1), NEW j \in 1..(n+1), i < j
                   PROVE  tool_messages'[i].id < tool_messages'[j].id
        BY <3>2
      <4>1. i \in DOMAIN tool_messages /\ tool_messages'[i] = tool_messages[i]
        BY <3>2
      <4>2. CASE j = n + 1
        <5>1. tool_messages[i].id < at
          BY <1>4, <4>1
        <5> QED
          BY <3>1, <3>2, <4>1, <4>2, <5>1
      <4>3. CASE j \in 1..n
        <5>1. j \in DOMAIN tool_messages /\ tool_messages'[j] = tool_messages[j]
          BY <3>2, <4>3
        <5> QED
          BY <1>4, <4>1, <5>1
      <4> QED
        BY <3>3, <4>2, <4>3
    <3> QED
      BY <1>2, <3>2, <3>4, <3>5, <3>6 DEF Answering, at
  <2> QED
    BY <2>1, <2>2
<1>7. Kept'
  <2> SUFFICES ASSUME NEW c \in invoked'
               PROVE  /\ c.batch \in 1..Len(messages)
                      /\ \/ c.batch \in lost \/ Answered(messages, c.batch, c.call)
                         \/ c.batch = Len(messages) /\ c.call \in WithId(Batch) /\ c.call < at + 1
    BY <1>2 DEF Kept
  <2>1. CASE c \in invoked
    BY <1>5, <2>1 DEF ThreadInv, Kept
  <2>2. CASE tc.hasId /\ c = [batch |-> Len(messages), call |-> at]
    <3>1. c.batch = Len(messages) /\ c.call = at /\ at < at + 1 /\ Len(messages) \in 1..Len(messages)
      BY <1>1, <2>2
    <3> QED
      BY <1>3, <2>2, <3>1
  <2> QED
    BY <2>1, <2>2 DEF Invoked
<1> QED
  BY <1>6, <1>7

\* An update of tool_node that answers the batch.
LEMMA RoundKeeps ==
  ASSUME ThreadInv, ControlInv', InToolNode, NEW touched, FinishToolNode(touched),
         NEW answers, AnswersBatch(answers, Batch), add_messages(answers),
         tool_messages' = << >>, lost' = lost,
         invoked' = invoked \/ (local.at \in WithId(Batch) /\ Invoked)
  PROVE  /\ ThreadInv'
         /\ messages' = messages \o answers
<1>1. messages' = messages \o answers
  BY DEF add_messages
<1>2. /\ messages \in Seq(Messages) /\ answers \in Seq(Messages)
      /\ \A j \in DOMAIN answers : answers[j].kind = "tool" /\ answers[j].id \in WithId(Batch)
      /\ \A k \in WithId(Batch) : \E j \in DOMAIN answers : answers[j].id = k
  BY DEF ThreadInv, AnswersBatch
<1>3. /\ messages' \in Seq(Messages) /\ Len(messages') = Len(messages) + Len(answers)
      /\ Len(messages) \in Nat /\ Len(answers) \in Nat /\ Len(messages) > 0
      /\ DOMAIN answers = 1..Len(answers)
  BY <1>1, <1>2, BatchTypes DEF InToolNode
<1>4. next' = "agent_node" /\ local' = Idle /\ local'.at = 0
  BY DEF FinishToolNode, Idle
<1>5. LastIsLast'
  <2>1. WithId(Batch) # {} <=> \E k \in DOMAIN last.tool_calls : last.tool_calls[k].hasId
    BY DEF WithId, Batch
  <2>2. CASE WithId(Batch) = {}
    <3>1. DOMAIN answers = {}
      BY <1>2, <2>2
    <3>2. answers = << >>
      BY <1>2, <3>1
    <3>3. messages' = messages /\ last' = last
      BY <1>1, <1>2, <2>1, <2>2, <3>2 DEF FinishToolNode
    <3> QED
      BY <3>3 DEF ThreadInv, LastIsLast
  <2>3. CASE WithId(Batch) # {}
    <3>1. Len(answers) > 0
      BY <1>2, <1>3, <2>3
    <3>2. messages'[Len(messages')] = answers[Len(answers)] /\ Len(answers) \in DOMAIN answers
      BY <1>1, <1>2, <1>3, <3>1
    <3>3. messages'[Len(messages')].kind = "tool" /\ messages' # << >>
      BY <1>2, <1>3, <3>1, <3>2
    <3>4. last' = [type |-> "tool", tool_calls |-> << >>]
      BY <2>1, <2>3 DEF FinishToolNode
    <3> QED
      BY <3>3, <3>4 DEF LastIsLast
  <2> QED
    BY <2>2, <2>3
<1>6. Answering'
  <2>1. tool_messages' \in Seq(Messages) /\ DOMAIN tool_messages' = {}
    OBVIOUS
  <2>2. last'.tool_calls \in Seq(Calls)
    BY DEF ControlInv, TypeOK, LastMessages
  <2>3. \A k \in WithId(last'.tool_calls) : k \in Nat
    BY <2>2 DEF WithId
  <2>4. \A k \in WithId(last'.tool_calls) : ~(k < local'.at)
    BY <1>4, <2>3
  <2> QED
    BY <2>1, <2>4 DEF Answering, Batch
<1>7. Kept'
  <2> SUFFICES ASSUME NEW c \in invoked'
               PROVE  /\ c.batch \in 1..Len(messages')
                      /\ c.batch \in lost \/ Answered(messages', c.batch, c.call)
    BY DEF Kept
  <2>1. CASE c.batch = Len(messages) /\ c.call \in WithId(Batch)
    <3>1. Answered(messages', c.batch, c.call)
      BY <1>1, <1>2, <2>1, BatchIsAnswered
    <3> QED
      BY <1>3, <2>1, <3>1
  <2>2. CASE /\ c \in invoked /\ c.batch \in 1..Len(messages)
             /\ c.batch \in lost \/ Answered(messages, c.batch, c.call)
    <3>1. c.batch \in 1..Len(messages')
      BY <1>3, <2>2
    <3>2. Answered(messages, c.batch, c.call) => Answered(messages', c.batch, c.call)
      BY <1>1, <1>2, <2>2, StaysAnswered
    <3> QED
      BY <2>2, <3>1, <3>2
  <2>3. c \in invoked \/ (c.batch = Len(messages) /\ c.call \in WithId(Batch))
    BY DEF Invoked
  <2> QED
    BY <2>1, <2>2, <2>3 DEF ThreadInv, Kept
<1> QED
  BY <1>1, <1>3, <1>5, <1>6, <1>7 DEF ThreadInv

\* When the loop is behind the last call, tool_messages answers the batch.
LEMMA LoopIsOver ==
  ASSUME ThreadInv, local.at = Len(Batch) + 1
  PROVE  AnswersBatch(tool_messages, Batch)
<1>1. \A k \in WithId(Batch) : k < local.at
  BY BatchTypes
<1> QED
  BY <1>1 DEF ThreadInv, Answering, AnswersBatch

-----------------------------------------------------------------------------
(* The steps *)

LEMMA ThreadInvStep ==
  ASSUME ThreadInv, [ThreadNext]_<<vars, log>>
  PROVE  ThreadInv'
<1>0. ControlInv'
  BY ThreadStep, NextControl DEF ThreadInv
<1> USE <1>0
<1>1. CASE UNCHANGED <<vars, log>>
  BY <1>1 DEF vars, checkpoint, log, ThreadInv, LastIsLast, Answering, Kept, InToolNode, Batch
<1>2. CASE UserWrites
  <2>1. /\ status # "running" /\ last' = [type |-> "human", tool_calls |-> << >>]
        /\ UNCHANGED <<local, tool_messages, invoked, lost>> /\ add_messages(<< OtherMessage >>)
    BY <1>2 DEF UserWrites, HumanTurn
  <2>2. OtherMessage \in Messages /\ OtherMessage.kind = "other"
    BY OtherMessageTypes
  <2>3. /\ messages' \in Seq(Messages) /\ messages' # << >>
        /\ messages'[Len(messages')] = OtherMessage /\ Answering' /\ Kept'
    BY <2>1, <2>2, AppendKeeps DEF InToolNode
  <2> QED
    BY <2>1, <2>2, <2>3 DEF ThreadInv, LastIsLast
<1>3. CASE Restart
  <2>1. /\ UNCHANGED <<last, local, messages, tool_messages, invoked, lost>>
        /\ status # "running"
    BY <1>3 DEF Restart, ResumeInterrupt, RetryRun, log, checkpoint
  <2> QED
    BY <2>1 DEF ThreadInv, LastIsLast, Answering, Kept, InToolNode, Batch
<1>4. CASE Fails
  <2>1. /\ UNCHANGED <<last, messages, invoked, next>> /\ local' = Idle /\ tool_messages' = << >>
        /\ lost' = IF next = "tool_node" THEN lost \cup {Len(messages)} ELSE lost
    BY <1>4 DEF Fails, NodeFails, checkpoint
  <2>2. Answering'
    BY <2>1, BatchTypes DEF Answering, Idle, Batch
  <2>3. Kept'
    BY <2>1 DEF ThreadInv, Kept, InToolNode
  <2> QED
    BY <2>1, <2>2, <2>3 DEF ThreadInv, LastIsLast
<1>5. CASE CallsLlm
  <2>1. PICK calls \in Responses : last' = [type |-> "ai", tool_calls |-> calls]
    BY <1>5 DEF CallsLlm, AgentNode
  <2>2. /\ next = "agent_node" /\ UNCHANGED <<local, tool_messages, invoked, lost>>
        /\ add_messages(<< AsMessage(calls) >>)
    BY <1>5, <2>1 DEF CallsLlm, AgentNode
  <2>3. /\ AsMessage(calls) \in Messages
        /\ AsMessage(calls).kind = IF calls = << >> THEN "other" ELSE "ai"
    BY <2>1, ResponsesAreSequences, AsMessageTypes
  <2>4. /\ messages' \in Seq(Messages) /\ messages' # << >>
        /\ messages'[Len(messages')] = AsMessage(calls) /\ Answering' /\ Kept'
    BY <2>2, <2>3, AppendKeeps DEF InToolNode
  <2>5. LastIsLast'
    BY <2>1, <2>3, <2>4 DEF LastIsLast
  <2> QED
    BY <2>4, <2>5 DEF ThreadInv
<1>6. CASE Summarises
  <2>1. /\ next = "error_summary_node" /\ last' = [type |-> "ai", tool_calls |-> << >>]
        /\ UNCHANGED <<local, tool_messages, invoked, lost>> /\ add_messages(<< OtherMessage >>)
    BY <1>6 DEF Summarises, ErrorSummaryNode
  <2>2. OtherMessage \in Messages /\ OtherMessage.kind = "other"
    BY OtherMessageTypes
  <2>3. /\ messages' \in Seq(Messages) /\ messages' # << >>
        /\ messages'[Len(messages')] = OtherMessage /\ Answering' /\ Kept'
    BY <2>1, <2>2, AppendKeeps DEF InToolNode
  <2> QED
    BY <2>1, <2>2, <2>3 DEF ThreadInv, LastIsLast
<1>7. CASE Refuses
  <2>1. /\ InToolNode /\ local = Idle /\ FinishToolNode(Touched)
        /\ add_messages(AnswersTo(Batch)) /\ UNCHANGED <<tool_messages, invoked, lost>>
    BY <1>7 DEF Refuses, RefuseBatch, Batch
  <2>2. tool_messages' = << >>
    BY <2>1, NothingAnswered
  <2>3. AnswersBatch(AnswersTo(Batch), Batch)
    BY BatchTypes, AnswersToBatch
  <2> QED
    BY <2>1, <2>2, <2>3, RoundKeeps
<1>8. CASE PassesOver /\ StartToolCalls
  <2>1. /\ InToolNode /\ local = Idle /\ local'.at = 1
        /\ UNCHANGED <<next, status, last, messages, tool_messages, invoked, lost>>
    BY <1>8 DEF PassesOver, StartToolCalls, log, checkpoint, Idle
  <2>2. tool_messages' = << >>
    BY <2>1, NothingAnswered
  <2>3. Answering'
    BY <2>1, <2>2, BatchTypes DEF Answering, Batch
  <2>4. Kept'
    BY <2>1, NotInTheLoop DEF Kept
  <2> QED
    BY <2>1, <2>3, <2>4 DEF ThreadInv, LastIsLast
<1>9. CASE PassesOver /\ SkipCallWithoutId
  <2>1. PICK tc \in Calls : AtCall(tc) /\ ~tc.hasId
    BY <1>9 DEF SkipCallWithoutId
  <2>2. /\ UNCHANGED <<next, status, last, messages, tool_messages, invoked, lost>>
        /\ local' = [local EXCEPT !.at = @ + 1] /\ local \in Locals
    BY <1>9 DEF PassesOver, SkipCallWithoutId, log, checkpoint, ThreadInv, ControlInv, TypeOK
  <2>3. local'.at = local.at + 1
    BY <2>2 DEF Locals
  <2>4. InToolNode'
    BY <2>1, <2>2 DEF AtCall, InToolNode
  <2> QED
    BY <2>1, <2>2, <2>3, <2>4, LoopKeeps DEF ThreadInv, LastIsLast
<1>10. CASE AnswersWithoutRunning
  <2>1. PICK tc \in Calls : AtCall(tc) /\ tc.hasId
    BY <1>10 DEF AnswersWithoutRunning, ToolNotFound, InjectionFails
  <2>2. /\ UNCHANGED <<next, status, last, messages, invoked, lost>>
        /\ local'.at = local.at + 1 /\ tool_messages' = WithAnswer(tool_messages, local.at)
    <3>1. PICK attempts : Record(TRUE, attempts, FALSE)
      BY <1>10 DEF AnswersWithoutRunning, ToolNotFound, InjectionFails
    <3>2. UNCHANGED <<next, status, last>> /\ local'.at = local.at + 1
      BY <3>1 DEF Record, checkpoint
    <3> QED
      BY <1>10, <3>2 DEF AnswersWithoutRunning
  <2>3. InToolNode'
    BY <2>1, <2>2 DEF AtCall, InToolNode
  <2> QED
    BY <2>1, <2>2, <2>3, LoopKeeps DEF ThreadInv, LastIsLast
<1>11. CASE RunsAndAnswers
  <2>1. PICK tc \in Calls : AtCall(tc) /\ tc.hasId
    BY <1>11 DEF RunsAndAnswers, ToolSucceeds, ToolFails, Invokes
  <2>2. /\ UNCHANGED <<next, status, last, messages, lost>> /\ Invoked
        /\ local'.at = local.at + 1 /\ tool_messages' = WithAnswer(tool_messages, local.at)
    BY <1>11 DEF RunsAndAnswers, ToolSucceeds, ToolFails, Record, checkpoint
  <2>3. InToolNode'
    BY <2>1, <2>2 DEF AtCall, InToolNode
  <2> QED
    BY <2>1, <2>2, <2>3, LoopKeeps DEF ThreadInv, LastIsLast
<1>12. CASE Pauses
  <2>1. PICK tc \in Calls : AtCall(tc) /\ tc.name \in Interrupts
    BY <1>12 DEF Pauses, ToolInterrupts
  <2>2. /\ local' = Idle /\ tool_messages' = << >> /\ status' = "paused"
        /\ UNCHANGED <<next, last, messages, invoked, lost>>
    BY <1>12 DEF Pauses, ToolInterrupts, checkpoint
  <2>3. local.at = 1
    <3>1. /\ InToolNode /\ local.at \in 1..Len(Batch) /\ Len(Batch) \in Nat
          /\ Batch[local.at].name \in Pausing /\ local.at \in DOMAIN Batch
      BY <2>1, BatchTypes, PausingIsDeclared DEF AtCall, Batch
    <3>2. ~Refused(Batch)
      BY <3>1 DEF ThreadInv, ControlInv, Control, InToolNode
    <3>3. ~(Len(Batch) > 1)
      BY <3>1, <3>2 DEF Refused
    <3> QED
      BY <3>1, <3>3
  <2>4. Answering'
    BY <2>2, BatchTypes DEF Answering, Idle, Batch
  <2>5. Kept'
    <3>1. \A k \in WithId(Batch) : ~(k < local.at)
      BY <2>3, BatchTypes
    <3> QED
      BY <2>2, <3>1 DEF ThreadInv, Kept
  <2> QED
    BY <2>2, <2>4, <2>5 DEF ThreadInv, LastIsLast
<1>13. CASE FallsBack
  <2>1. PICK tc \in Calls : AtCall(tc) /\ tc.hasId
    BY <1>13 DEF FallsBack, ToolReturnsEmpty, Invokes
  <2>2. /\ InToolNode /\ FinishToolNode(Touched \cup {local.at}) /\ Invoked
        /\ add_messages(AnswersTo(Batch)) /\ tool_messages' = << >> /\ lost' = lost
    BY <1>13, <2>1 DEF FallsBack, ToolReturnsEmpty, AtCall, Batch
  <2>3. local.at \in WithId(Batch)
    BY <2>1 DEF AtCall, WithId, Batch
  <2>4. AnswersBatch(AnswersTo(Batch), Batch)
    BY BatchTypes, AnswersToBatch
  <2> QED
    BY <2>2, <2>3, <2>4, RoundKeeps
<1>14. CASE Returns
  <2>1. /\ InToolNode /\ local.at = Len(Batch) + 1 /\ FinishToolNode(Touched)
        /\ add_messages(tool_messages) /\ tool_messages' = << >>
        /\ UNCHANGED <<invoked, lost>>
    BY <1>14 DEF Returns, EndToolCalls, Batch
  <2> QED
    BY <2>1, LoopIsOver, RoundKeeps
<1> QED
  BY <1>1, <1>2, <1>3, <1>4, <1>5, <1>6, <1>7, <1>8, <1>9, <1>10, <1>11, <1>12, <1>13, <1>14
  DEF ThreadNext, PassesOver

LEMMA ThreadInvHolds == ThreadSpec => []ThreadInv
<1>1. ThreadInit => ThreadInv
  BY InitThread
<1>2. ThreadInv /\ [ThreadNext]_<<vars, log>> => ThreadInv'
  BY ThreadInvStep
<1> QED
  BY <1>1, <1>2, PTL DEF ThreadSpec

\* What add_messages appended is what is behind the messages there were.
LEMMA AppendedPart ==
  ASSUME NEW s \in Seq(Messages), NEW t \in Seq(Messages)
  PROVE  SubSeq(s \o t, Len(s) + 1, Len(s \o t)) = t
<1> DEFINE u == s \o t
           w == SubSeq(u, Len(s) + 1, Len(u))
<1>1. /\ u \in Seq(Messages) /\ Len(u) = Len(s) + Len(t) /\ Len(s) \in Nat /\ Len(t) \in Nat
      /\ \A i \in 1..Len(t) : u[Len(s) + i] = t[i]
  OBVIOUS
<1>2. /\ w \in Seq(Messages)
      /\ Len(w) = IF Len(s) + 1 <= Len(u) THEN Len(u) - (Len(s) + 1) + 1 ELSE 0
      /\ \A i \in 1..(Len(u) - (Len(s) + 1) + 1) : w[i] = u[Len(s) + 1 + i - 1]
  <2> HIDE DEF u
  <2>1. \A i \in (Len(s) + 1)..Len(u) : u[i] \in Messages
    BY <1>1
  <2> QED
    BY <1>1, <2>1, SubSeqProperties
<1>3. Len(w) = Len(t)
  <2> HIDE DEF u, w
  <2> QED BY <1>1, <1>2
<1>4. ASSUME NEW i \in 1..Len(t) PROVE w[i] = t[i]
  <2> HIDE DEF u, w
  <2>1. /\ Len(u) - (Len(s) + 1) + 1 = Len(t)
        /\ Len(s) + 1 + i - 1 = Len(s) + i
    BY <1>1
  <2>2. w[i] = u[Len(s) + 1 + i - 1]
    BY <1>2, <2>1
  <2> QED
    BY <1>1, <2>1, <2>2
<1> HIDE DEF w, u
<1>5. w = t
  BY <1>2, <1>3, <1>4, SeqEqual
<1> QED
  BY <1>5 DEF w, u

LEMMA RoundAppends ==
  ASSUME ThreadInv, [ThreadNext]_<<vars, log>>, RoundEnds
  PROVE  \E answers : AnswersBatch(answers, Batch) /\ messages' = messages \o answers
<1>1. CASE Refuses
  <2>1. AnswersBatch(AnswersTo(Batch), Batch)
    BY BatchTypes, AnswersToBatch
  <2> QED
    BY <1>1, <2>1 DEF Refuses, add_messages, Batch
<1>2. CASE FallsBack
  <2>1. AnswersBatch(AnswersTo(Batch), Batch)
    BY BatchTypes, AnswersToBatch
  <2> QED
    BY <1>2, <2>1 DEF FallsBack, add_messages, Batch
<1>3. CASE Returns
  <2>1. AnswersBatch(tool_messages, Batch)
    BY <1>3, LoopIsOver DEF Returns, EndToolCalls, Batch
  <2> QED
    BY <1>3, <2>1 DEF Returns, add_messages
<1>4. ~(UNCHANGED <<vars, log>>)
  BY DEF RoundEnds, vars
<1>5. ~(UserWrites \/ Restart \/ Fails)
  BY DEF RoundEnds, UserWrites, HumanTurn, Restart, ResumeInterrupt, RetryRun, Fails, NodeFails
<1>6. ~(CallsLlm \/ Summarises)
  BY DEF RoundEnds, CallsLlm, AgentNode, Summarises, ErrorSummaryNode
<1>7. ~PassesOver
  BY DEF RoundEnds, PassesOver, StartToolCalls, SkipCallWithoutId
<1>8. ~(AnswersWithoutRunning \/ RunsAndAnswers)
  <2>1. SUFFICES ASSUME AnswersWithoutRunning \/ RunsAndAnswers
                 PROVE  UNCHANGED next
    BY DEF RoundEnds
  <2>2. PICK error, attempts, ranIt : Record(error, attempts, ranIt)
    BY <2>1 DEF AnswersWithoutRunning, ToolNotFound, InjectionFails, RunsAndAnswers, ToolSucceeds, ToolFails
  <2> QED
    BY <2>2 DEF Record
<1>9. ~Pauses
  BY DEF RoundEnds, Pauses, ToolInterrupts
<1> QED
  BY <1>1, <1>2, <1>3, <1>4, <1>5, <1>6, <1>7, <1>8, <1>9 DEF ThreadNext

-----------------------------------------------------------------------------
(* Theorems *)

\* The call budget of a turn bounds the tools that run on the thread too, across
\* crashes, replays and abandoned pauses (nodes.py:186-195).
THEOREM ThreadKeepsBudget == ThreadSpec => []BudgetHeld
  BY ThreadImplementsGraph, BudgetIsHeld, PTL

\* messages[-1] is what the graph keeps of the thread (nodes.py:113, 141 and 179).
THEOREM LastMessageIsKept == ThreadSpec => []LastIsLast
<1>1. ThreadInv => LastIsLast
  BY DEF ThreadInv
<1> QED
  BY <1>1, ThreadInvHolds, PTL

\* A call whose tool ran is answered by what tool_node persisted, unless the run
\* died inside tool_node (base_agent.py:90-92, nodes.py:131-133).
THEOREM WorkIsAnswered == ThreadSpec => []OnlyFailuresHideWork
<1>1. ThreadInv => OnlyFailuresHideWork
  BY DEF ThreadInv, Kept, OnlyFailuresHideWork, AboutToCallLlm, InToolNode
<1> QED
  BY <1>1, ThreadInvHolds, PTL

\* Every update of tool_node answers each call that has an id once, in the order
\* of the calls (nodes.py:131-133, base_agent.py:234-250).
THEOREM RoundsAnswer == ThreadSpec => RoundAnswersEveryCall
<1> DEFINE Answers == SubSeq(messages', Len(messages) + 1, Len(messages'))
<1>1. ASSUME ThreadInv, [ThreadNext]_<<vars, log>>, RoundEnds
      PROVE  /\ \A k \in DOMAIN Answers : Answers[k].kind = "tool"
             /\ \A j, k \in DOMAIN Answers : j < k => Answers[j].id < Answers[k].id
             /\ {Answers[k].id : k \in DOMAIN Answers} = WithId(last.tool_calls)
  <2>1. PICK answers : AnswersBatch(answers, Batch) /\ messages' = messages \o answers
    BY <1>1, RoundAppends
  <2>2. Answers = answers
    BY <1>1, <2>1, AppendedPart DEF ThreadInv, AnswersBatch
  <2> HIDE DEF Answers
  <2>3. AnswersBatch(Answers, last.tool_calls)
    BY <2>1, <2>2 DEF Batch
  <2> QED
    BY <2>3 DEF AnswersBatch
<1>2. ThreadInv /\ [ThreadNext]_<<vars, log>>
        => [RoundEnds =>
             LET answers == SubSeq(messages', Len(messages) + 1, Len(messages'))
             IN /\ \A k \in DOMAIN answers : answers[k].kind = "tool"
                /\ \A j, k \in DOMAIN answers : j < k => answers[j].id < answers[k].id
                /\ {answers[k].id : k \in DOMAIN answers} = WithId(last.tool_calls)]_<<vars, log>>
  BY <1>1
<1> QED
  BY <1>2, ThreadInvHolds, PTL DEF ThreadSpec, RoundAnswersEveryCall

-----------------------------------------------------------------------------
(* The requests *)

\* The repair of the thread is the one ToolCallPairsProofs is about.
Repair == INSTANCE ToolCallPairsProofs WITH Ids <- Nat \ {0}, NoId <- 0

LEMMA SameMessages == Messages = Repair!Messages
  BY DEF Messages, Repair!Messages

LEMMA SameBlock == \A l, p : Block(l, p) = Repair!Block(l, p)
  BY DEF Block, Repair!Block

\* Its definitions are those of this module, with ids for Ids and 0 for NoId.
LEMMA SameRepair ==
  ASSUME NEW l
  PROVE  _ensure_tool_call_pairs(l) = Repair!_ensure_tool_call_pairs(l)
  BY DEF _ensure_tool_call_pairs, Repair!_ensure_tool_call_pairs,
    _flush_orphans, Repair!_flush_orphans, _make_synthetic_tool_message, Repair!_make_synthetic_tool_message,
    NothingYet, Repair!NothingYet, FoldLeft, Repair!FoldLeft, MapThenFoldSet, Repair!MapThenFoldSet,
    OnMessage, Repair!OnMessage, OnAi, Repair!OnAi, OnTool, Repair!OnTool, OnOther, Repair!OnOther,
    OpenPair, Repair!OpenPair, HasId, Repair!HasId, RemoveFirst, Repair!RemoveFirst,
    RemoveAt, Repair!RemoveAt, SelectInSeq, Repair!SelectInSeq, Max, Repair!Max, Min, Repair!Min

LEMMA SameCardinality ==
  ASSUME NEW S
  PROVE  Cardinality(S) = Repair!Cardinality(S)
  BY DEF Cardinality, Repair!Cardinality

\* Positions that hold an id at most once.
LEMMA AtMostOne ==
  ASSUME NEW S, NEW x, S \subseteq {x}
  PROVE  Repair!Cardinality(S) <= 1
<1>1. CASE S = {}
  <2>1. Cardinality(S) = 0
    BY <1>1, FS_EmptySet, SameCardinality
  <2> QED
    BY <2>1, SameCardinality
<1>2. CASE S = {x}
  <2>1. Cardinality(S) = 1
    BY <1>2, FS_Singleton, SameCardinality
  <2> QED
    BY <2>1, SameCardinality
<1> QED
  BY <1>1, <1>2

\* The ids of a batch are distinct: the k-th call has id k or none.
LEMMA BatchIdsDistinct ==
  ASSUME NEW calls \in Seq(Calls), NEW i \in Nat \ {0}
  PROVE  Repair!Times(AsMessage(calls).calls, i) <= 1
<1> DEFINE ids == AsMessage(calls).calls
           S == {k \in DOMAIN ids : ids[k] = i}
<1>0. S \subseteq {i} => Repair!Cardinality(S) <= 1
  <2> HIDE DEF S
  <2> QED
    BY AtMostOne
<1>1. CASE calls = << >>
  <2>1. ids = << >>
    BY <1>1 DEF AsMessage, OtherMessage
  <2> QED
    BY <1>0, <2>1 DEF Repair!Times
<1>2. CASE calls # << >>
  <2>1. ids = IdsOf(calls)
    BY <1>2 DEF AsMessage, AiMessage
  <2>2. S \subseteq {i}
    BY <2>1 DEF IdsOf
  <2> QED
    BY <1>0, <2>2 DEF Repair!Times
<1> QED
  BY <1>1, <1>2

\* A call with an id is among the ids of its message.
LEMMA BatchHasItsIds ==
  ASSUME NEW calls \in Seq(Calls), NEW k \in WithId(calls)
  PROVE  /\ AsMessage(calls).kind = "ai"
         /\ k \in Repair!Range(AsMessage(calls).calls)
<1>1. k \in DOMAIN calls /\ calls[k].hasId
  BY DEF WithId
<1>2. calls # << >>
  BY <1>1
<1>3. AsMessage(calls).kind = "ai" /\ AsMessage(calls).calls = IdsOf(calls)
  BY <1>2 DEF AsMessage, AiMessage
<1>4. k \in DOMAIN IdsOf(calls) /\ IdsOf(calls)[k] = k
  BY <1>1 DEF IdsOf
<1> QED
  BY <1>3, <1>4 DEF Repair!Range

\* The blocks of a list that grows, but for the last message's.
LEMMA EarlierBlocks ==
  ASSUME NEW list \in Seq(Messages), NEW new \in Seq(Messages),
         NEW p \in 1..Len(list), NEW n, n = Len(list),
         (p < n /\ list[n].kind # "tool") \/ (Len(new) > 0 /\ new[1].kind # "tool") \/ new = << >>
  PROVE  /\ Repair!Block(list \o new, p) = Repair!Block(list, p)
         /\ \A q \in Repair!Block(list, p) : q \in 1..n /\ (list \o new)[q] = list[q]
<1>1. /\ Len(list \o new) = n + Len(new) /\ n \in Nat /\ Len(new) \in Nat /\ p \in Nat
      /\ \A q \in 1..n : (list \o new)[q] = list[q]
      /\ \A q \in 1..Len(new) : (list \o new)[n + q] = new[q]
  OBVIOUS
<1> DEFINE all == list \o new
<1> HIDE DEF all
<1>2. /\ Len(all) = n + Len(new)
      /\ \A q \in 1..n : all[q] = list[q]
      /\ \A q \in 1..Len(new) : all[n + q] = new[q]
  BY <1>1 DEF all
<1>3. ASSUME NEW q \in (p + 1)..Len(all), \A r \in (p + 1)..q : all[r].kind = "tool"
      PROVE  q <= n
  <2> SUFFICES ASSUME ~(q <= n) PROVE FALSE
    OBVIOUS
  <2>1. q \in Nat /\ q > n
    BY <1>1, <1>2
  <2>2. CASE p < n /\ list[n].kind # "tool"
    <3>1. n \in (p + 1)..q /\ n \in 1..n
      BY <1>1, <2>1, <2>2
    <3> QED
      BY <1>2, <1>3, <2>2, <3>1
  <2>3. CASE Len(new) > 0 /\ new[1].kind # "tool"
    <3>1. n + 1 \in (p + 1)..q /\ 1 \in 1..Len(new)
      BY <1>1, <2>1, <2>3
    <3> QED
      BY <1>2, <1>3, <2>3, <3>1
  <2>4. CASE new = << >>
    BY <1>1, <1>2, <2>1, <2>4
  <2> QED
    BY <2>2, <2>3, <2>4
<1>4. \A q \in (p + 1)..n : \A r \in (p + 1)..q : r \in 1..n /\ all[r] = list[r]
  BY <1>1, <1>2
<1>5. ASSUME NEW q
      PROVE  q \in Repair!Block(all, p) <=> q \in Repair!Block(list, p)
  <2>1. q \in Repair!Block(all, p) => q \in Repair!Block(list, p)
    <3> SUFFICES ASSUME q \in Repair!Block(all, p) PROVE q \in Repair!Block(list, p)
      OBVIOUS
    <3>1. q \in (p + 1)..Len(all) /\ \A r \in (p + 1)..q : all[r].kind = "tool"
      BY DEF Repair!Block
    <3>2. q <= n
      BY <1>3, <3>1
    <3>3. q \in (p + 1)..n
      BY <1>1, <1>2, <3>1, <3>2
    <3>4. \A r \in (p + 1)..q : list[r].kind = "tool"
      BY <1>4, <3>1, <3>3
    <3> QED
      BY <3>3, <3>4 DEF Repair!Block
  <2>2. q \in Repair!Block(list, p) => q \in Repair!Block(all, p)
    <3> SUFFICES ASSUME q \in Repair!Block(list, p) PROVE q \in Repair!Block(all, p)
      OBVIOUS
    <3>1. q \in (p + 1)..n /\ \A r \in (p + 1)..q : list[r].kind = "tool"
      BY DEF Repair!Block
    <3>2. q \in (p + 1)..Len(all)
      BY <1>1, <1>2, <3>1
    <3>3. \A r \in (p + 1)..q : all[r].kind = "tool"
      BY <1>4, <3>1
    <3> QED
      BY <3>2, <3>3 DEF Repair!Block
  <2> QED
    BY <2>1, <2>2
<1>6. \A q \in Repair!Block(list, p) : q \in 1..n /\ all[q] = list[q]
  BY <1>1, <1>2 DEF Repair!Block
<1>7. Repair!Block(all, p) = Repair!Block(list, p)
  BY <1>5
<1> QED
  BY <1>6, <1>7 DEF all

\* A list on which calls and answers belong together stays one when a message that
\* is no answer is appended,
LEMMA OrderlyWithMessage ==
  ASSUME NEW list \in Seq(Messages), Repair!Orderly(list), NEW m \in Messages,
         m.kind # "tool",
         \A i \in Nat \ {0} : Repair!Times(m.calls, i) <= 1
  PROVE  Repair!Orderly(list \o << m >>)
<1> DEFINE n == Len(list)
           all == list \o << m >>
<1>1. /\ n \in Nat /\ Len(all) = n + 1 /\ all[n + 1] = m
      /\ \A q \in 1..n : all[q] = list[q]
      /\ << m >> \in Seq(Messages) /\ Len(<< m >>) > 0 /\ << m >>[1] = m
  OBVIOUS
<1>2. \A p \in 1..n : /\ Repair!Block(all, p) = Repair!Block(list, p)
                      /\ \A q \in Repair!Block(list, p) : q \in 1..n /\ all[q] = list[q]
  BY <1>1, EarlierBlocks
<1> HIDE DEF n, all
<1>3. Repair!Block(all, n + 1) = {}
  BY <1>1 DEF Repair!Block
<1>4. \A p \in 1..Len(all) : p \in 1..n \/ p = n + 1
  BY <1>1
<1>5. ASSUME NEW p \in 1..Len(all), all[p].kind = "ai"
      PROVE  /\ \A i \in Nat \ {0} : /\ Repair!Times(all[p].calls, i) <= 1
                                     /\ Repair!AnswersTo(all, Repair!Block(all, p), i) <= 1
             /\ \A q \in Repair!Block(all, p) : all[q].id \in Repair!Range(all[p].calls)
  <2>1. CASE p \in 1..n
    <3>1. list[p].kind = "ai" /\ all[p] = list[p]
      BY <1>1, <1>5, <2>1
    <3>2. ASSUME NEW i \in Nat \ {0}
          PROVE  Repair!AnswersTo(all, Repair!Block(all, p), i)
                   = Repair!AnswersTo(list, Repair!Block(list, p), i)
      <4>1. {q \in Repair!Block(all, p) : all[q].id = i} = {q \in Repair!Block(list, p) : list[q].id = i}
        BY <1>2, <2>1
      <4> QED
        BY <4>1 DEF Repair!AnswersTo
    <3>3. p \in 1..Len(list)
      BY <2>1 DEF n
    <3>4. /\ \A i \in Nat \ {0} : /\ Repair!Times(list[p].calls, i) <= 1
                                  /\ Repair!AnswersTo(list, Repair!Block(list, p), i) <= 1
          /\ \A q \in Repair!Block(list, p) : list[q].id \in Repair!Range(list[p].calls)
      BY <3>1, <3>3 DEF Repair!Orderly
    <3> QED
      BY <1>2, <2>1, <3>1, <3>2, <3>4
  <2>2. CASE p = n + 1
    <3>1. ASSUME NEW i
          PROVE  Repair!AnswersTo(all, Repair!Block(all, p), i) <= 1
      <4>1. {q \in Repair!Block(all, p) : all[q].id = i} \subseteq {0}
        BY <1>3, <2>2
      <4> QED
        BY <4>1, AtMostOne DEF Repair!AnswersTo
    <3> QED
      BY <1>1, <1>3, <2>2, <3>1
  <2> QED
    BY <1>4, <2>1, <2>2
<1>6. ASSUME NEW q \in 1..Len(all), all[q].kind = "tool"
      PROVE  \E p \in 1..Len(all) : all[p].kind = "ai" /\ q \in Repair!Block(all, p)
  <2>1. q \in 1..n
    BY <1>1, <1>4, <1>6
  <2>2. q \in 1..Len(list) /\ list[q].kind = "tool"
    BY <1>1, <1>6, <2>1 DEF n
  <2>3. PICK p \in 1..Len(list) : list[p].kind = "ai" /\ q \in Repair!Block(list, p)
    BY <2>2 DEF Repair!Orderly
  <2>4. p \in 1..n /\ p \in 1..Len(all)
    BY <1>1, <2>3 DEF n
  <2> QED
    BY <1>1, <1>2, <2>3, <2>4
<1>7. Repair!Orderly(all)
  BY <1>5, <1>6 DEF Repair!Orderly
<1> QED
  BY <1>7 DEF all

\* and when a batch at its end is answered.
LEMMA OrderlyWithAnswers ==
  ASSUME NEW list \in Seq(Messages), Repair!Orderly(list), NEW calls \in Seq(Calls),
         NEW n, n = Len(list), n > 0, list[n].kind = "ai",
         list[n] = AsMessage(calls), NEW answers, AnswersBatch(answers, calls)
  PROVE  Repair!Orderly(list \o answers)
<1> DEFINE all == list \o answers
           c == Len(answers)
<1>1. /\ answers \in Seq(Messages)
      /\ \A j \in DOMAIN answers : answers[j].kind = "tool" /\ answers[j].id \in WithId(calls)
      /\ \A i, j \in DOMAIN answers : i < j => answers[i].id < answers[j].id
  BY DEF AnswersBatch
<1>2. /\ n \in Nat /\ c \in Nat /\ Len(all) = n + c /\ DOMAIN answers = 1..c
      /\ \A q \in 1..n : all[q] = list[q]
      /\ \A j \in 1..c : all[n + j] = answers[j]
      /\ n \in 1..n
  BY <1>1
<1>3. \A p \in 1..n : p < n =>
        /\ Repair!Block(all, p) = Repair!Block(list, p)
        /\ \A q \in Repair!Block(list, p) : q \in 1..n /\ all[q] = list[q]
  BY <1>1, EarlierBlocks
<1> HIDE DEF all, c
<1>4. \A q \in (n + 1)..(n + c) : \E j \in 1..c : q = n + j /\ all[q] = answers[j]
  <2> SUFFICES ASSUME NEW q \in (n + 1)..(n + c)
               PROVE  \E j \in 1..c : q = n + j /\ all[q] = answers[j]
    OBVIOUS
  <2>1. q - n \in 1..c /\ q = n + (q - n)
    BY <1>2
  <2> QED
    BY <1>2, <2>1
<1>5. Repair!Block(all, n) = (n + 1)..(n + c)
  <2>1. \A q \in (n + 1)..(n + c) : \A r \in (n + 1)..q : r \in (n + 1)..(n + c)
    BY <1>2
  <2>2. \A q \in (n + 1)..(n + c) : all[q].kind = "tool"
    <3> SUFFICES ASSUME NEW q \in (n + 1)..(n + c) PROVE all[q].kind = "tool"
      OBVIOUS
    <3>1. PICK j \in 1..c : all[q] = answers[j]
      BY <1>4
    <3> QED
      BY <1>1, <1>2, <3>1
  <2> QED
    BY <1>2, <2>1, <2>2 DEF Repair!Block
<1>6. ASSUME NEW p \in 1..Len(all), all[p].kind = "ai"
      PROVE  p \in 1..n
  <2> SUFFICES ASSUME p \in (n + 1)..(n + c) PROVE FALSE
    BY <1>2
  <2> QED
    BY <1>1, <1>2, <1>4, <1>6
<1>7. ASSUME NEW p \in 1..Len(all), all[p].kind = "ai"
      PROVE  /\ \A i \in Nat \ {0} : /\ Repair!Times(all[p].calls, i) <= 1
                                     /\ Repair!AnswersTo(all, Repair!Block(all, p), i) <= 1
             /\ \A q \in Repair!Block(all, p) : all[q].id \in Repair!Range(all[p].calls)
  <2>0. p \in 1..n /\ p \in 1..Len(list)
    BY <1>6, <1>7
  <2>1. CASE p < n
    <3>1. list[p].kind = "ai" /\ all[p] = list[p]
      BY <1>2, <1>7, <2>0
    <3>2. ASSUME NEW i \in Nat \ {0}
          PROVE  Repair!AnswersTo(all, Repair!Block(all, p), i)
                   = Repair!AnswersTo(list, Repair!Block(list, p), i)
      <4>1. {q \in Repair!Block(all, p) : all[q].id = i} = {q \in Repair!Block(list, p) : list[q].id = i}
        BY <1>3, <2>0, <2>1
      <4> QED
        BY <4>1 DEF Repair!AnswersTo
    <3>4. /\ \A i \in Nat \ {0} : /\ Repair!Times(list[p].calls, i) <= 1
                                  /\ Repair!AnswersTo(list, Repair!Block(list, p), i) <= 1
          /\ \A q \in Repair!Block(list, p) : list[q].id \in Repair!Range(list[p].calls)
      BY <2>0, <3>1 DEF Repair!Orderly
    <3> QED
      BY <1>3, <2>0, <2>1, <3>1, <3>2, <3>4
  <2>2. CASE p = n
    <3>1. all[p] = AsMessage(calls)
      BY <1>2, <2>2
    <3>2. ASSUME NEW i
          PROVE  Repair!AnswersTo(all, Repair!Block(all, p), i) <= 1
      <4> DEFINE S == {q \in Repair!Block(all, p) : all[q].id = i}
      <4>1. ASSUME NEW a \in S, NEW b \in S, a < b PROVE FALSE
        <5>1. PICK j \in 1..c : a = n + j /\ all[a] = answers[j]
          BY <1>4, <1>5, <2>2
        <5>2. PICK k \in 1..c : b = n + k /\ all[b] = answers[k]
          BY <1>4, <1>5, <2>2
        <5>3. j < k
          BY <1>2, <4>1, <5>1, <5>2
        <5>4. answers[j].id < answers[k].id /\ answers[j].id = answers[k].id
          BY <1>1, <1>2, <4>1, <5>1, <5>2, <5>3
        <5>5. answers[j].id \in Nat
          <6>1. answers[j].id \in WithId(calls)
            BY <1>1, <1>2
          <6>2. DOMAIN calls = 1..Len(calls) /\ WithId(calls) \subseteq DOMAIN calls
            BY DEF WithId
          <6> QED
            BY <6>1, <6>2
        <5> QED
          BY <5>4, <5>5
      <4>2. \A a \in S : a \in Int
        BY <1>2, <1>5, <2>2
      <4>3. \A a, b \in S : a = b
        <5> HIDE DEF S
        <5> QED
          BY <4>1, <4>2
      <4> HIDE DEF S
      <4>4. \E x : S \subseteq {x}
        <5>1. CASE S = {}
          BY <5>1
        <5>2. CASE S # {}
          BY <4>3, <5>2
        <5> QED
          BY <5>1, <5>2
      <4>5. Repair!Cardinality(S) <= 1
        BY <4>4, AtMostOne
      <4> QED
        BY <4>5 DEF S, Repair!AnswersTo
    <3>3. ASSUME NEW q \in Repair!Block(all, p)
          PROVE  all[q].id \in Repair!Range(AsMessage(calls).calls)
      <4>1. PICK j \in 1..c : all[q] = answers[j]
        BY <1>4, <1>5, <2>2
      <4>2. answers[j].id \in WithId(calls)
        BY <1>1, <1>2
      <4> QED
        BY <4>1, <4>2, BatchHasItsIds
    <3> QED
      BY <3>1, <3>2, <3>3, BatchIdsDistinct
  <2>3. p < n \/ p = n
    BY <1>2, <2>0
  <2> QED
    BY <2>1, <2>2, <2>3
<1>8. ASSUME NEW q \in 1..Len(all), all[q].kind = "tool"
      PROVE  \E p \in 1..Len(all) : all[p].kind = "ai" /\ q \in Repair!Block(all, p)
  <2>1. CASE q \in 1..n
    <3>1. list[q].kind = "tool" /\ q \in 1..Len(list)
      BY <1>2, <1>8, <2>1
    <3>2. PICK p \in 1..Len(list) : list[p].kind = "ai" /\ q \in Repair!Block(list, p)
      BY <3>1 DEF Repair!Orderly
    <3>3. p \in 1..n /\ p \in 1..Len(all) /\ p < n
      <4>1. p + 1 <= q /\ q <= n /\ p \in 1..n
        BY <1>2, <3>1, <3>2 DEF Repair!Block
      <4> QED
        BY <1>2, <2>1, <4>1
    <3> QED
      BY <1>2, <1>3, <3>2, <3>3
  <2>2. CASE q \in (n + 1)..(n + c)
    <3>1. n \in 1..Len(all) /\ all[n].kind = "ai"
      BY <1>2
    <3> QED
      BY <1>5, <2>2, <3>1
  <2> QED
    BY <1>2, <2>1, <2>2
<1>9. Repair!Orderly(all)
  BY <1>7, <1>8 DEF Repair!Orderly
<1> QED
  BY <1>9 DEF all

\* No message of the list is one of the repair's own.
Persisted(list) == \A k \in 1..Len(list) : ~list[k].synthetic

\* What nodes append is no synthetic answer.
LEMMA PersistedTogether ==
  ASSUME NEW a \in Seq(Messages), NEW b \in Seq(Messages), Persisted(a), Persisted(b)
  PROVE  Persisted(a \o b)
<1> SUFFICES ASSUME NEW k \in 1..Len(a \o b) PROVE ~(a \o b)[k].synthetic
  BY DEF Persisted
<1>1. Len(a \o b) = Len(a) + Len(b) /\ Len(a) \in Nat /\ Len(b) \in Nat
  OBVIOUS
<1>2. CASE k \in 1..Len(a)
  <2>1. (a \o b)[k] = a[k]
    BY <1>2
  <2> QED
    BY <1>2, <2>1 DEF Persisted
<1>3. CASE k \in (Len(a) + 1)..(Len(a) + Len(b))
  <2>1. PICK j \in Int : j = k - Len(a)
    BY <1>1
  <2>2. j \in 1..Len(b) /\ (a \o b)[k] = b[j]
    BY <1>1, <1>3, <2>1
  <2> QED
    BY <2>2 DEF Persisted
<1> QED
  BY <1>1, <1>2, <1>3

LEMMA OnePersisted ==
  ASSUME NEW m \in Messages, ~m.synthetic
  PROVE  << m >> \in Seq(Messages) /\ Persisted(<< m >>)
  BY DEF Persisted

LEMMA AnswersArePersisted ==
  ASSUME NEW calls \in Seq(Calls)
  PROVE  Persisted(AnswersTo(calls))
<1>1. AnswersTo(calls) \in Seq(Messages)
  BY AnswersToBatch DEF AnswersBatch
<1>2. \A j \in DOMAIN AnswersTo(calls) : ~AnswersTo(calls)[j].synthetic
  BY DEF AnswersTo, ToolMessage
<1> HIDE DEF AnswersTo
<1> QED
  BY <1>1, <1>2 DEF Persisted

\* Calls and answers belong together on the thread and in the repair's view.
Tidy ==
  /\ Persisted(messages) /\ Persisted(tool_messages)
  /\ Repair!Orderly(messages)

LEMMA InitTidy == ThreadInit => Tidy
<1> SUFFICES ASSUME ThreadInit PROVE Tidy
  OBVIOUS
<1>1. messages = << >> /\ tool_messages = << >>
  BY DEF ThreadInit
<1>2. 1..Len(messages) = {} /\ 1..Len(tool_messages) = {}
  BY <1>1
<1>3. Repair!Orderly(messages)
  BY <1>2 DEF Repair!Orderly
<1> QED
  BY <1>2, <1>3 DEF Tidy, Persisted

\* The list on the thread, and the one tool_node is making, stay in order.
LEMMA TidyWithMessage ==
  ASSUME ThreadInv, Tidy, NEW calls \in Seq(Calls),
         add_messages(<< AsMessage(calls) >>), UNCHANGED tool_messages
  PROVE  Tidy'
<1>1. AsMessage(calls) \in Messages /\ AsMessage(calls).kind # "tool" /\ ~AsMessage(calls).synthetic
  BY AsMessageTypes DEF AsMessage, OtherMessage, AiMessage
<1>2. messages' = messages \o << AsMessage(calls) >> /\ messages \in Seq(Messages)
  BY DEF add_messages, ThreadInv
<1>3. \A i \in Nat \ {0} : Repair!Times(AsMessage(calls).calls, i) <= 1
  BY BatchIdsDistinct
<1>4. Repair!Orderly(messages')
  BY <1>1, <1>2, <1>3, OrderlyWithMessage DEF Tidy
<1>5. Persisted(messages')
  BY <1>1, <1>2, OnePersisted, PersistedTogether DEF Tidy
<1> QED
  BY <1>4, <1>5 DEF Tidy

LEMMA TidyWithRound ==
  ASSUME ThreadInv, Tidy, InToolNode, NEW answers, AnswersBatch(answers, Batch),
         Persisted(answers), add_messages(answers), tool_messages' = << >>
  PROVE  Tidy'
<1>1. messages \in Seq(Messages) /\ answers \in Seq(Messages) /\ messages' = messages \o answers
  BY DEF add_messages, ThreadInv, AnswersBatch
<1>2. Batch \in Seq(Calls) /\ Len(messages) > 0
  BY BatchTypes DEF InToolNode
<1>3. Persisted(messages') /\ Persisted(tool_messages')
  BY <1>1, PersistedTogether DEF Tidy, Persisted
<1>4. Repair!Orderly(messages')
  <2>1. CASE WithId(Batch) = {}
    <3>1. DOMAIN answers = {}
      BY <2>1 DEF AnswersBatch
    <3>2. answers = << >>
      BY <1>1, <3>1
    <3>3. messages' = messages
      BY <1>1, <3>2
    <3> QED
      BY <3>3 DEF Tidy
  <2>2. CASE WithId(Batch) # {}
    <3>1. Batch # << >>
      BY <2>2 DEF WithId
    <3>2. messages # << >>
      BY <1>1, <1>2
    <3>3. messages[Len(messages)].kind = "ai" /\ messages[Len(messages)] = AsMessage(Batch)
      BY <3>1, <3>2 DEF ThreadInv, LastIsLast, Batch
    <3> QED
      BY <1>1, <1>2, <3>3, OrderlyWithAnswers DEF Tidy
  <2> QED
    BY <2>1, <2>2
<1> QED
  BY <1>3, <1>4 DEF Tidy

LEMMA TidyStep ==
  ASSUME ThreadInv, Tidy, [ThreadNext]_<<vars, log>>
  PROVE  Tidy'
<1>1. OtherMessage = AsMessage(<< >>) /\ << >> \in Seq(Calls)
  BY DEF AsMessage
<1>2. << >> \in Seq(Messages) /\ Persisted(<< >>)
  BY DEF Persisted
<1>3. CASE UNCHANGED <<messages, tool_messages>>
  BY <1>3 DEF Tidy
<1>4. CASE UserWrites \/ Summarises
  BY <1>1, <1>4, TidyWithMessage DEF UserWrites, Summarises
<1>5. CASE Fails \/ Pauses
  <2>1. messages' = messages /\ tool_messages' = << >>
    BY <1>5 DEF Fails, Pauses
  <2> QED
    BY <1>2, <2>1 DEF Tidy
<1>6. CASE CallsLlm
  <2>1. PICK calls \in Responses : last' = [type |-> "ai", tool_calls |-> calls]
    BY <1>6 DEF CallsLlm, AgentNode
  <2>2. add_messages(<< AsMessage(calls) >>) /\ UNCHANGED tool_messages
    BY <1>6, <2>1 DEF CallsLlm
  <2> QED
    BY <2>1, <2>2, ResponsesAreSequences, TidyWithMessage
<1>7. CASE Refuses
  <2>1. InToolNode /\ local = Idle /\ add_messages(AnswersTo(Batch)) /\ UNCHANGED tool_messages
    BY <1>7 DEF Refuses, RefuseBatch, Batch
  <2>2. tool_messages' = << >>
    BY <2>1, NothingAnswered
  <2> QED
    BY <2>1, <2>2, BatchTypes, AnswersToBatch, AnswersArePersisted, TidyWithRound
<1>8. CASE FallsBack
  <2>1. InToolNode /\ add_messages(AnswersTo(Batch)) /\ tool_messages' = << >>
    BY <1>8 DEF FallsBack, ToolReturnsEmpty, Invokes, AtCall, Batch
  <2> QED
    BY <2>1, BatchTypes, AnswersToBatch, AnswersArePersisted, TidyWithRound
<1>9. CASE Returns
  <2>1. /\ InToolNode /\ local.at = Len(Batch) + 1
        /\ add_messages(tool_messages) /\ tool_messages' = << >>
    BY <1>9 DEF Returns, EndToolCalls, Batch
  <2> QED
    BY <2>1, LoopIsOver, TidyWithRound DEF Tidy
<1>10. CASE AnswersWithoutRunning \/ RunsAndAnswers
  <2>1. tool_messages' = Append(tool_messages, ToolMessage(local.at)) /\ messages' = messages
    BY <1>10 DEF AnswersWithoutRunning, RunsAndAnswers, WithAnswer
  <2>2. ToolMessage(local.at) \in Messages /\ ~ToolMessage(local.at).synthetic
    BY BatchTypes, ToolMessageTypes DEF ToolMessage
  <2>3. tool_messages \in Seq(Messages)
    BY DEF ThreadInv, Answering
  <2>4. tool_messages' = tool_messages \o << ToolMessage(local.at) >>
    BY <2>1, <2>2, <2>3
  <2>5. Persisted(tool_messages')
    BY <2>2, <2>3, <2>4, OnePersisted, PersistedTogether DEF Tidy
  <2> QED
    BY <2>1, <2>5 DEF Tidy
<1>11. CASE Restart \/ PassesOver \/ UNCHANGED <<vars, log>>
  BY <1>3, <1>11 DEF Restart, PassesOver, log
<1> QED
  BY <1>4, <1>5, <1>6, <1>7, <1>8, <1>9, <1>10, <1>11 DEF ThreadNext

\* Whatever crashed, was abandoned, refused or cut off by a budget, each request has
\* exactly one answer per call with an id (base_agent.py:90-92 and 166-170).
THEOREM EveryRequestIsWellFormed == ThreadSpec => []RequestsAreWellFormed
<1>1. ThreadInit => ThreadInv /\ Tidy
  BY InitThread, InitTidy
<1>2. ThreadInv /\ Tidy /\ [ThreadNext]_<<vars, log>> => (ThreadInv /\ Tidy)'
  BY ThreadInvStep, TidyStep
<1>3. ThreadInv /\ Tidy => RequestsAreWellFormed
  <2> SUFFICES ASSUME ThreadInv, Tidy PROVE RequestsAreWellFormed
    OBVIOUS
  <2>1. messages \in Seq(Repair!Messages)
    BY SameMessages DEF ThreadInv
  <2> DEFINE sent == _ensure_tool_call_pairs(messages)
  <2>2. Repair!WellFormed(Repair!_ensure_tool_call_pairs(messages))
    BY <2>1, Repair!OrderlyIsWellFormed DEF Tidy, Persisted
  <2>3. Repair!WellFormed(sent)
    BY <2>2, SameRepair
  <2> HIDE DEF sent
  <2>4. \A s : Range(s) = Repair!Range(s)
    BY DEF Range, Repair!Range
  <2>5. /\ \A p \in DOMAIN sent : sent[p].kind = "ai" =>
            /\ \A i \in Range(sent[p].calls) \ {0} :
                 Cardinality({q \in Block(sent, p) : sent[q].id = i}) = 1
            /\ \A q \in Block(sent, p) : sent[q].id \in Range(sent[p].calls)
        /\ \A q \in DOMAIN sent : sent[q].kind = "tool" =>
             \E p \in DOMAIN sent : sent[p].kind = "ai" /\ q \in Block(sent, p)
    BY <2>3, <2>4, SameBlock, SameCardinality DEF Repair!WellFormed, Repair!AnswersTo
  <2> QED
    BY <2>5 DEF sent, RequestsAreWellFormed
<1> QED
  BY <1>1, <1>2, <1>3, PTL DEF ThreadSpec

=============================================================================
