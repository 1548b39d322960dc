-------------------------- MODULE RepairLoopProofs --------------------------
(***************************************************************************)
(* The repair of the messages is right for every list of messages of any   *)
(* length: the invariant of the loop, and what the list it returns has.    *)
(***************************************************************************)
EXTENDS RepairLoop, ToolCallPairsProofs

-----------------------------------------------------------------------------
(* The inductive invariant.  Between two messages the open pairs are exactly *)
(* what is missing; inside an AIMessage and at the end nothing is missing.   *)

Current == messages[index + 1]

PositionOK ==
  /\ call > 0 => /\ index < Len(messages) /\ Current.kind = "ai"
                 /\ call <= Len(Current.calls) + 1
  /\ returned => call = 0 /\ index = Len(messages)

BetweenMessages ==
  call = 0 /\ ~returned => /\ Paired(out.repaired, out.open)
                           /\ Asked(out.repaired, out.open)

InsideAi ==
  call > 0 =>
    /\ WellPaired(out.repaired)
    /\ \A k \in 1..(call - 1) :
         HasId(Current.calls[k]) => Current.calls[k] \in Range(out.open)
    /\ Range(out.open) \subseteq Range(Current.calls)

IInv ==
  /\ TypeOK /\ PositionOK /\ BetweenMessages /\ InsideAi
  /\ RepairedIsPaired
  /\ Synthetics(out.repaired)
  /\ Kept(messages, out.repaired, place, index)

LEMMA PersistableFacts ==
  ASSUME NEW m \in Persistable
  PROVE  /\ m \in Messages /\ ~m.synthetic
         /\ m.kind \in {"ai", "tool", "other"}
         /\ m.calls \in Seq(Ids \cup {NoId})
         /\ DOMAIN m.calls = 1..Len(m.calls) /\ Len(m.calls) \in Nat
<1>1. << >> \in Seq(Ids \cup {NoId})
  BY EmptySeq, Zenon
<1>2. CASE \E calls \in Batches : m = AiMessage(calls)
  <2>1. PICK calls \in Batches : m = AiMessage(calls)
    BY <1>2
  <2>2. PICK n \in 1..MaxCalls : calls \in [1..n -> Ids \cup {NoId}]
    BY <2>1 DEF Batches
  <2>3. calls \in Seq(Ids \cup {NoId})
    BY <2>2, BoundsAssumption
  <2> QED
    BY <2>1, <2>3 DEF AiMessage, Messages
<1>3. CASE \E id \in Ids : m = ToolMessage(id)
  BY <1>1, <1>3 DEF ToolMessage, Messages
<1>4. CASE m = OtherMessage
  BY <1>1, <1>4 DEF OtherMessage, Messages
<1> QED
  BY <1>2, <1>3, <1>4 DEF Persistable

LEMMA GivenFacts ==
  ASSUME TypeOK
  PROVE  /\ messages \in Seq(Messages) /\ Len(messages) \in Nat
         /\ index \in Nat /\ index <= Len(messages)
         /\ out \in Outs /\ place \in Seq(Nat)
         /\ index < Len(messages) => Current \in Persistable /\ index + 1 \in 1..Len(messages)
<1>1. Persistable \subseteq Messages
  BY PersistableFacts
<1>2. messages \in Seq(Persistable) /\ Len(messages) \in Nat /\ index \in 0..Len(messages)
  BY DEF TypeOK
<1>3. messages \in Seq(Messages)
  <2> HIDE DEF Persistable
  <2> QED BY <1>1, <1>2
<1> QED
  BY <1>2, <1>3 DEF TypeOK, Outs, Current

LEMMA InitIInv == Init => IInv
<1> SUFFICES ASSUME Init
             PROVE  IInv
  OBVIOUS
<1>1. PICK n \in 0..MaxMessages : messages \in [1..n -> Persistable]
  BY DEF Init
<1>2. messages \in Seq(Persistable) /\ Len(messages) \in Nat
  <2> HIDE DEF Persistable
  <2> QED BY <1>1, BoundsAssumption
<1>3. /\ index = 0 /\ call = 0 /\ returned = FALSE /\ place = << >>
      /\ out = [repaired |-> << >>, open |-> << >>]
  BY DEF Init, NothingYet
<1>4. << >> \in Seq(Messages) /\ << >> \in Seq(Ids) /\ << >> \in Seq(Nat)
  BY EmptySeq, Zenon
<1>5. TypeOK
  <2>1. out \in [repaired : Seq(Messages), open : Seq(Ids)]
    BY <1>3, <1>4
  <2>2. index \in 0..Len(messages) /\ call \in Nat
    BY <1>2, <1>3
  <2>3. returned \in BOOLEAN
    BY <1>3, Zenon
  <2>4. place \in Seq(Nat)
    BY <1>3, <1>4, Zenon
  <2> QED
    BY <1>2, <2>1, <2>2, <2>3, <2>4, Zenon DEF TypeOK
<1>6. Paired(<< >>, << >>) /\ Asked(<< >>, << >>) /\ Synthetics(<< >>)
  BY DEF Paired, Asked, Synthetics, Range
<1>7. Kept(messages, << >>, << >>, 0)
  BY DEF Kept
<1> QED
  BY <1>3, <1>5, <1>6, <1>7
     DEF IInv, PositionOK, BetweenMessages, InsideAi, RepairedIsPaired

\* What every way of taking a message keeps.
LEMMA TakeKeeps ==
  ASSUME TypeOK, ~returned, index < Len(messages),
         NEW rep \in Seq(Messages), Kept(messages, rep, place, index), Synthetics(rep),
         NEW newOut \in Outs, newOut.repaired = Append(rep, Current), Take(newOut)
  PROVE  /\ TypeOK' /\ PositionOK' /\ InsideAi' /\ RepairedIsPaired'
         /\ Synthetics(out'.repaired)
         /\ Kept(messages', out'.repaired, place', index')
<1>1. /\ Current \in Messages /\ ~Current.synthetic
      /\ messages \in Seq(Messages) /\ Len(messages) \in Nat /\ index \in Nat
      /\ index + 1 \in 1..Len(messages) /\ place \in Seq(Nat)
  BY GivenFacts, PersistableFacts
<1>2. /\ Len(newOut.repaired) = Len(rep) + 1 /\ Len(rep) \in Nat
  BY <1>1, AppendFacts
<1>3. /\ out' = newOut /\ index' = index + 1 /\ call' = 0
      /\ place' = Append(place, Len(rep) + 1)
      /\ messages' = messages /\ returned' = returned
  BY <1>2 DEF Take
<1>4. place' \in Seq(Nat)
  BY <1>1, <1>2, <1>3, AppendProperties
<1>5. TypeOK'
  BY <1>1, <1>3, <1>4 DEF TypeOK, Outs
<1>6. Synthetics(newOut.repaired)
  BY <1>1, AppendSynthetics
<1>7. Kept(messages, newOut.repaired, place', index + 1)
  BY <1>1, <1>3, AppendKeeps DEF Current
<1>8. PositionOK' /\ InsideAi' /\ RepairedIsPaired'
  BY <1>3 DEF PositionOK, InsideAi, RepairedIsPaired
<1>9. Synthetics(out'.repaired)
  BY <1>3, <1>6
<1>10. Kept(messages', out'.repaired, place', index')
  BY <1>3, <1>7
<1> QED
  BY <1>5, <1>8, <1>9, <1>10

LEMMA StartAiKeeps == IInv /\ StartAi => IInv'
<1> SUFFICES ASSUME IInv, StartAi
             PROVE  IInv'
  OBVIOUS
<1>1. /\ call = 0 /\ ~returned /\ index < Len(messages) /\ Current.kind = "ai"
      /\ out' = _flush_orphans(out) /\ call' = 1
      /\ messages' = messages /\ index' = index /\ returned' = returned /\ place' = place
  BY DEF StartAi, At, Current
<1>2. out \in Outs /\ index \in Nat /\ Current \in Persistable
  BY <1>1, GivenFacts DEF IInv
<1>3. out' \in Outs /\ out'.open = << >>
  BY <1>1, <1>2, FlushFacts
<1>4. WellPaired(out'.repaired)
  BY <1>1, <1>2, FlushPairs DEF IInv, BetweenMessages
<1>5. Synthetics(out'.repaired)
  BY <1>1, <1>2, FlushAnswersCalls DEF IInv, BetweenMessages
<1>6. Kept(messages, out'.repaired, place, index)
  BY <1>1, <1>2, FlushKeeps DEF IInv
<1>7. TypeOK'
  BY <1>1, <1>3 DEF IInv, TypeOK, Outs
<1>8. Current' = Current /\ Len(Current.calls) \in Nat
  BY <1>1, <1>2, PersistableFacts DEF Current
<1>9. InsideAi'
  <2>1. Range(out'.open) = {}
    BY <1>3 DEF Range
  <2> QED
    BY <1>1, <1>4, <2>1 DEF InsideAi
<1>10. PositionOK' /\ BetweenMessages' /\ RepairedIsPaired'
  BY <1>1, <1>8 DEF PositionOK, BetweenMessages, RepairedIsPaired
<1> QED
  BY <1>1, <1>5, <1>6, <1>7, <1>9, <1>10 DEF IInv

LEMMA NextCallKeeps == IInv /\ NextCall => IInv'
<1> SUFFICES ASSUME IInv, NextCall
             PROVE  IInv'
  OBVIOUS
<1>1. /\ ~returned /\ index < Len(messages) /\ call \in DOMAIN Current.calls
      /\ out' = [out EXCEPT !.open = OpenPair(@, Current.calls[call])] /\ call' = call + 1
      /\ messages' = messages /\ index' = index /\ returned' = returned /\ place' = place
  BY DEF NextCall, At, Current
<1> DEFINE i == Current.calls[call]
           open == out.open
<1>2. /\ out \in Outs /\ Current \in Persistable /\ Len(messages) \in Nat
  BY <1>1, GivenFacts DEF IInv
<1>3. /\ call \in 1..Len(Current.calls) /\ Len(Current.calls) \in Nat
      /\ i \in Ids \cup {NoId} /\ i \in Range(Current.calls)
  BY <1>1, <1>2, PersistableFacts DEF Range
<1>4. /\ open \in Seq(Ids) /\ out.repaired \in Seq(Messages)
  BY <1>2 DEF Outs
<1>5. Current' = Current
  BY <1>1 DEF Current
<1>6. /\ out'.repaired = out.repaired /\ out'.open = OpenPair(open, i)
  BY <1>1, <1>2 DEF Outs
<1> HIDE DEF i, open
<1>7. /\ OpenPair(open, i) \in Seq(Ids)
      /\ Range(open) \subseteq Range(OpenPair(open, i))
      /\ Range(OpenPair(open, i)) \subseteq Range(open) \cup {i}
      /\ HasId(i) => i \in Range(OpenPair(open, i))
  <2>1. CASE HasId(i)
    <3>1. i \in Ids /\ OpenPair(open, i) = Append(open, i)
      BY <2>1, <1>3 DEF HasId, OpenPair
    <3>2. /\ Append(open, i) \in Seq(Ids) /\ Len(Append(open, i)) = Len(open) + 1
          /\ \A k \in 1..Len(open) : Append(open, i)[k] = open[k]
          /\ Append(open, i)[Len(open) + 1] = i
      BY <3>1, <1>4, AppendProperties
    <3>3. DOMAIN open = 1..Len(open) /\ Len(open) \in Nat
          /\ DOMAIN Append(open, i) = 1..(Len(open) + 1)
      BY <3>2, <1>4
    <3> HIDE DEF i
    <3> QED
      BY <3>1, <3>2, <3>3 DEF Range
  <2>2. CASE ~HasId(i)
    BY <2>2, <1>4 DEF OpenPair
  <2> QED
    BY <2>1, <2>2
<1>8. TypeOK'
  <2>1. out' \in Outs
    BY <1>1, <1>2, <1>6, <1>7 DEF Outs, open, i
  <2> QED
    BY <2>1, <1>1, <1>3 DEF IInv, TypeOK, Outs
<1>9. PositionOK /\ InsideAi /\ call > 0
  BY <1>3 DEF IInv
<1>10. InsideAi'
  <2>1. /\ WellPaired(out.repaired)
        /\ \A k \in 1..(call - 1) : HasId(Current.calls[k]) => Current.calls[k] \in Range(open)
        /\ Range(open) \subseteq Range(Current.calls)
    BY <1>9 DEF InsideAi, open
  <2>2. ASSUME NEW k \in 1..call, HasId(Current.calls[k])
        PROVE  Current.calls[k] \in Range(OpenPair(open, i))
    <3>1. CASE k = call
      BY <3>1, <2>2, <1>7 DEF i
    <3>2. CASE k # call
      <4>1. k \in 1..(call - 1)
        BY <3>2, <1>3
      <4> QED
        BY <4>1, <2>1, <2>2, <1>7
    <3> QED
      BY <3>1, <3>2
  <2>3. Range(OpenPair(open, i)) \subseteq Range(Current.calls)
    BY <2>1, <1>3, <1>7
  <2>4. call' - 1 = call
    BY <1>1, <1>3
  <2> QED
    BY <2>1, <2>2, <2>3, <2>4, <1>5, <1>6 DEF InsideAi
<1>11. PositionOK' /\ BetweenMessages' /\ RepairedIsPaired'
  BY <1>1, <1>3, <1>5, <1>9 DEF PositionOK, BetweenMessages, RepairedIsPaired
<1> QED
  BY <1>1, <1>6, <1>8, <1>10, <1>11 DEF IInv

LEMMA EndAiKeeps == IInv /\ EndAi => IInv'
<1> SUFFICES ASSUME IInv, EndAi
             PROVE  IInv'
  OBVIOUS
<1> DEFINE newOut == [out EXCEPT !.repaired = Append(@, Current)]
<1>1. /\ ~returned /\ index < Len(messages) /\ call > 0 /\ call = Len(Current.calls) + 1
      /\ Take(newOut)
  BY DEF EndAi, At, Current
<1>2. /\ out \in Outs /\ Current \in Persistable /\ Current \in Messages
      /\ Len(Current.calls) \in Nat /\ DOMAIN Current.calls = 1..Len(Current.calls)
  BY <1>1, GivenFacts, PersistableFacts DEF IInv
<1>3. out.repaired \in Seq(Messages) /\ out.open \in Seq(Ids)
  BY <1>2 DEF Outs
<1>4. /\ newOut.repaired = Append(out.repaired, Current) /\ newOut.open = out.open
      /\ newOut \in Outs
  <2>1. Append(out.repaired, Current) \in Seq(Messages)
    BY <1>2, <1>3, AppendFacts
  <2> QED
    BY <2>1, <1>2 DEF Outs
<1>5. Paired(newOut.repaired, newOut.open) /\ Asked(newOut.repaired, newOut.open)
  <2>1. /\ Current.kind = "ai" /\ WellPaired(out.repaired)
        /\ \A k \in 1..(call - 1) :
             HasId(Current.calls[k]) => Current.calls[k] \in Range(out.open)
        /\ Range(out.open) \subseteq Range(Current.calls)
    BY <1>1 DEF IInv, PositionOK, InsideAi
  <2>2. call - 1 = Len(Current.calls)
    BY <1>1, <1>2
  <2> QED
    BY <2>1, <2>2, <1>2, <1>3, <1>4, AppendAi
<1> HIDE DEF newOut
<1>6. /\ TypeOK' /\ PositionOK' /\ InsideAi' /\ RepairedIsPaired'
      /\ Synthetics(out'.repaired) /\ Kept(messages', out'.repaired, place', index')
  BY <1>1, <1>3, <1>4, TakeKeeps DEF IInv
<1>7. BetweenMessages'
  BY <1>1, <1>5 DEF BetweenMessages, Take
<1> QED
  BY <1>6, <1>7 DEF IInv

LEMMA AtToolKeeps == IInv /\ AtTool => IInv'
<1> SUFFICES ASSUME IInv, AtTool
             PROVE  IInv'
  OBVIOUS
<1>1. /\ ~returned /\ index < Len(messages) /\ Current.kind = "tool"
      /\ Take(OnTool(out, Current))
  BY DEF AtTool, At, Current
<1>2. out \in Outs /\ Current \in Messages
  BY <1>1, GivenFacts, PersistableFacts DEF IInv
<1>3. call = 0
  BY <1>1 DEF IInv, PositionOK, TypeOK
<1> DEFINE newOut == OnTool(out, Current)
<1>4. newOut.repaired = Append(out.repaired, Current) /\ out.repaired \in Seq(Messages)
  BY <1>2 DEF OnTool, Outs
<1>5. Paired(out.repaired, out.open) /\ Asked(out.repaired, out.open)
  BY <1>1, <1>3 DEF IInv, BetweenMessages
<1>6. /\ newOut \in Outs /\ Paired(newOut.repaired, newOut.open)
      /\ Asked(newOut.repaired, newOut.open)
  BY <1>1, <1>2, <1>5, AppendAnswer
<1>7. Take(newOut)
  BY <1>1
<1> HIDE DEF newOut
<1>8. /\ TypeOK' /\ PositionOK' /\ InsideAi' /\ RepairedIsPaired'
      /\ Synthetics(out'.repaired) /\ Kept(messages', out'.repaired, place', index')
  BY <1>1, <1>4, <1>6, <1>7, TakeKeeps DEF IInv
<1>9. BetweenMessages'
  BY <1>6, <1>7 DEF BetweenMessages, Take
<1> QED
  BY <1>8, <1>9 DEF IInv

LEMMA AtOtherKeeps == IInv /\ AtOther => IInv'
<1> SUFFICES ASSUME IInv, AtOther
             PROVE  IInv'
  OBVIOUS
<1>1. /\ ~returned /\ index < Len(messages) /\ Current.kind = "other"
      /\ Take(OnOther(out, Current))
  BY DEF AtOther, At, Current
<1>2. out \in Outs /\ Current \in Messages /\ index \in Nat
  BY <1>1, GivenFacts, PersistableFacts DEF IInv
<1>3. call = 0
  BY <1>1 DEF IInv, PositionOK, TypeOK
<1>4. Paired(out.repaired, out.open) /\ Asked(out.repaired, out.open)
  BY <1>1, <1>3 DEF IInv, BetweenMessages
<1> DEFINE flushed == _flush_orphans(out)
           newOut == OnOther(out, Current)
<1>5. flushed \in Outs /\ flushed.open = << >>
  BY <1>2, FlushFacts
<1>6. WellPaired(flushed.repaired)
  BY <1>2, <1>4, FlushPairs
<1>7. Synthetics(flushed.repaired)
  BY <1>2, <1>4, FlushAnswersCalls DEF IInv
<1>8. Kept(messages, flushed.repaired, place, index)
  BY <1>2, FlushKeeps DEF IInv
<1>9. newOut = [flushed EXCEPT !.repaired = Append(@, Current)]
  BY DEF OnOther
<1>10. Take(newOut)
  BY <1>1
<1> HIDE DEF flushed, newOut
<1>11. /\ newOut.repaired = Append(flushed.repaired, Current) /\ newOut.open = << >>
       /\ newOut \in Outs /\ flushed.repaired \in Seq(Messages)
  <2>1. flushed.repaired \in Seq(Messages)
    BY <1>5 DEF Outs
  <2>2. Append(flushed.repaired, Current) \in Seq(Messages)
    BY <2>1, <1>2, AppendFacts
  <2> QED
    BY <2>1, <2>2, <1>5, <1>9 DEF Outs
<1>12. WellPaired(newOut.repaired)
  BY <1>1, <1>2, <1>6, <1>11, AppendOther
<1>13. Paired(newOut.repaired, newOut.open) /\ Asked(newOut.repaired, newOut.open)
  <2>1. Range(newOut.open) = {}
    BY <1>11 DEF Range
  <2> QED
    BY <2>1, <1>12 DEF Paired, Asked, WellPaired
<1>14. /\ TypeOK' /\ PositionOK' /\ InsideAi' /\ RepairedIsPaired'
       /\ Synthetics(out'.repaired) /\ Kept(messages', out'.repaired, place', index')
  BY <1>1, <1>7, <1>8, <1>10, <1>11, TakeKeeps DEF IInv
<1>15. BetweenMessages'
  BY <1>10, <1>13 DEF BetweenMessages, Take
<1> QED
  BY <1>14, <1>15 DEF IInv

LEMMA FlushTailKeeps == IInv /\ FlushTail => IInv'
<1> SUFFICES ASSUME IInv, FlushTail
             PROVE  IInv'
  OBVIOUS
<1>1. /\ ~returned /\ index = Len(messages)
      /\ out' = _flush_orphans(out) /\ returned' = TRUE
      /\ messages' = messages /\ index' = index /\ call' = call /\ place' = place
  BY DEF FlushTail
<1>2. out \in Outs /\ index \in Nat /\ Len(messages) \in Nat
  BY GivenFacts DEF IInv
<1>3. call = 0
  BY <1>1, <1>2 DEF IInv, PositionOK, TypeOK
<1>4. Paired(out.repaired, out.open) /\ Asked(out.repaired, out.open)
  BY <1>1, <1>3 DEF IInv, BetweenMessages
<1>5. out' \in Outs
  BY <1>1, <1>2, FlushFacts
<1>6. WellPaired(out'.repaired)
  BY <1>1, <1>2, <1>4, FlushPairs
<1>7. Synthetics(out'.repaired)
  BY <1>1, <1>2, <1>4, FlushAnswersCalls DEF IInv
<1>8. Kept(messages, out'.repaired, place, index)
  BY <1>1, <1>2, FlushKeeps DEF IInv
<1>9. TypeOK'
  BY <1>1, <1>5 DEF IInv, TypeOK, Outs
<1>10. PositionOK' /\ BetweenMessages' /\ InsideAi' /\ RepairedIsPaired'
  BY <1>1, <1>3, <1>6
     DEF PositionOK, BetweenMessages, InsideAi, RepairedIsPaired
<1> QED
  BY <1>1, <1>7, <1>8, <1>9, <1>10 DEF IInv

LEMMA NextKeeps == IInv /\ [Next]_vars => IInv'
<1> SUFFICES ASSUME IInv, [Next]_vars
             PROVE  IInv'
  OBVIOUS
<1>1. CASE Next
  BY <1>1, StartAiKeeps, NextCallKeeps, EndAiKeeps, AtToolKeeps, AtOtherKeeps,
     FlushTailKeeps DEF Next
<1>2. CASE UNCHANGED vars
  BY <1>2 DEF vars, IInv, TypeOK, PositionOK, BetweenMessages, InsideAi,
     RepairedIsPaired, Current
<1> QED
  BY <1>1, <1>2

LEMMA RepairInvariant == Spec => []IInv
<1> QED
  BY InitIInv, NextKeeps, PTL DEF Spec

-----------------------------------------------------------------------------
(* The theorems *)

\* The locals of _ensure_tool_call_pairs have their types at every step.
THEOREM RepairTypes == Spec => []TypeOK
<1>1. IInv => TypeOK
  BY DEF IInv
<1> QED
  BY <1>1, RepairInvariant, PTL

\* Whatever list of messages was persisted, the list that goes to the provider
\* answers every call that has an id before the next assistant or user message.
THEOREM RepairPairs == Spec => []RepairedIsPaired
<1>1. IInv => RepairedIsPaired
  BY DEF IInv
<1> QED
  BY <1>1, RepairInvariant, PTL

\* The repair loses, changes and reorders nothing, and adds only synthetic answers.
THEOREM RepairKeepsMessages == Spec => []KeepsMessages
<1>1. IInv => KeepsMessages
  BY DEF IInv, Kept, KeepsMessages
<1> QED
  BY <1>1, RepairInvariant, PTL

\* Every synthetic answer stands in the block of a batch that asked for its id.
THEOREM RepairAnswersCalls == Spec => []SyntheticAnswersACall
<1>1. IInv => SyntheticAnswersACall
  BY DEF IInv, Synthetics, SyntheticAnswersACall
<1> QED
  BY <1>1, RepairInvariant, PTL

-----------------------------------------------------------------------------
(* Step by step the loop computes what the function is *)

\* The locals are those of the run r.
AsRun(r) ==
  /\ \A k \in 1..index : place[k] = Len(r[k].repaired)
  /\ call = 0 /\ ~returned => out = r[index]
  /\ returned => out = _flush_orphans(r[Len(messages)])
  /\ call > 0 =>
       /\ out.repaired = _flush_orphans(r[index]).repaired
       /\ \A o : Opening!Runs(o, Current.calls, << >>) => out.open = o[call - 1]

FollowsRuns == \A r : IsRun(r, messages) => AsRun(r)

\* A step of the loop is a step of the fold.
LEMMA TakeFollows ==
  ASSUME IInv, ~returned, index < Len(messages), NEW r, IsRun(r, messages), AsRun(r),
         NEW newOut \in Outs, newOut = OnMessage(r[index], Current), Take(newOut)
  PROVE  AsRun(r)'
<1>1. /\ index \in Nat /\ place \in Seq(Nat) /\ index + 1 \in 1..Len(messages)
      /\ Len(place) = index /\ newOut.repaired \in Seq(Messages)
  BY GivenFacts DEF IInv, Kept, Outs
<1>2. /\ out' = newOut /\ index' = index + 1 /\ call' = 0 /\ messages' = messages
      /\ returned' = returned /\ place' = Append(place, Len(newOut.repaired))
  BY DEF Take
<1>3. newOut = r[index + 1]
  <2>1. (index + 1) - 1 = index
    BY <1>1
  <2> QED
    BY <1>1, <2>1 DEF IsRun, Loop!Runs, Current
<1>4. \A k \in 1..index' : place'[k] = Len(r[k].repaired)
  <2>1. Len(newOut.repaired) \in Nat
    BY <1>1
  <2>2. /\ \A k \in 1..index : place'[k] = place[k]
        /\ place'[index + 1] = Len(newOut.repaired)
    BY <1>1, <1>2, <2>1, AppendProperties
  <2>3. \A k \in 1..index : place[k] = Len(r[k].repaired)
    BY DEF AsRun
  <2>4. \A k \in 1..(index + 1) : k \in 1..index \/ k = index + 1
    BY <1>1
  <2> QED
    BY <1>2, <1>3, <2>2, <2>3, <2>4
<1>5. out' = r[index'] /\ ~returned' /\ ~(call' > 0)
  BY <1>2, <1>3
<1> QED
  BY <1>4, <1>5 DEF AsRun

LEMMA StepFollows ==
  ASSUME IInv, NEW r, IsRun(r, messages), AsRun(r), Next
  PROVE  AsRun(r)'
<1>0. /\ out \in Outs /\ index \in Nat /\ index <= Len(messages) /\ call \in Nat
      /\ \A k \in 0..Len(messages) : r[k] \in Outs
  BY GivenFacts, RunTypes DEF IInv, TypeOK
<1>1. CASE StartAi
  <2>1. /\ call = 0 /\ ~returned /\ out' = _flush_orphans(out) /\ call' = 1
        /\ messages' = messages /\ index' = index /\ returned' = returned /\ place' = place
    BY <1>1 DEF StartAi, At
  <2>2. out = r[index]
    BY <2>1 DEF AsRun
  <2>3. out'.repaired = _flush_orphans(r[index]).repaired /\ out'.open = << >>
    BY <2>1, <2>2 DEF _flush_orphans
  <2>4. \A o : Opening!Runs(o, Current'.calls, << >>) => out'.open = o[call' - 1]
    BY <2>1, <2>3 DEF Opening!Runs
  <2> QED
    BY <2>1, <2>3, <2>4 DEF AsRun
<1>2. CASE NextCall
  <2>1. /\ ~returned /\ call \in DOMAIN Current.calls /\ index < Len(messages)
        /\ out' = [out EXCEPT !.open = OpenPair(@, Current.calls[call])]
        /\ call' = call + 1 /\ messages' = messages /\ index' = index
        /\ returned' = returned /\ place' = place
    BY <1>2 DEF NextCall, At, Current
  <2>2. Current' = Current /\ call \in 1..Len(Current.calls)
    <3>1. Current \in Persistable
      BY <2>1, GivenFacts DEF IInv
    <3> QED
      BY <2>1, <3>1, PersistableFacts DEF Current
  <2>3. out'.repaired = out.repaired /\ out'.open = OpenPair(out.open, Current.calls[call])
    BY <1>0, <2>1 DEF Outs
  <2>4. ASSUME NEW o, Opening!Runs(o, Current.calls, << >>)
        PROVE  out'.open = o[call' - 1]
    <3>1. out.open = o[call - 1]
      BY <2>2, <2>4 DEF AsRun
    <3>2. o[call] = OpenPair(o[call - 1], Current.calls[call])
      BY <2>2, <2>4 DEF Opening!Runs
    <3>3. call' - 1 = call
      BY <1>0, <2>1
    <3> QED
      BY <2>3, <3>1, <3>2, <3>3
  <2>5. out'.repaired = _flush_orphans(r[index]).repaired
    BY <2>2, <2>3 DEF AsRun
  <2>6. call' > 0 /\ ~returned' /\ \A k \in 1..index' : place'[k] = Len(r[k].repaired)
    BY <1>0, <2>1 DEF AsRun
  <2>7. \A o : Opening!Runs(o, Current'.calls, << >>) => out'.open = o[call' - 1]
    BY <2>2, <2>4
  <2> QED
    BY <2>1, <2>5, <2>6, <2>7 DEF AsRun
<1>3. CASE EndAi
  <2> DEFINE newOut == [out EXCEPT !.repaired = Append(@, Current)]
  <2>1. /\ ~returned /\ index < Len(messages) /\ call > 0 /\ call = Len(Current.calls) + 1
        /\ Take(newOut)
    BY <1>3 DEF EndAi, At, Current
  <2>2. /\ Current \in Messages /\ Current.calls \in Seq(Ids \cup {NoId})
        /\ Current.kind = "ai"
    <3>1. Current \in Persistable
      BY <2>1, GivenFacts DEF IInv
    <3> QED
      BY <2>1, <3>1, PersistableFacts DEF IInv, PositionOK
  <2>3. out.repaired = _flush_orphans(r[index]).repaired
    BY <2>1 DEF AsRun
  <2>4. out.open = FoldLeft(OpenPair, << >>, Current.calls)
    <3>1. PICK o : /\ Opening!Runs(o, Current.calls, << >>)
                   /\ FoldLeft(OpenPair, << >>, Current.calls) = o[Len(Current.calls)]
      BY <2>2, CallsRun
    <3>2. out.open = o[call - 1]
      BY <2>1, <3>1 DEF AsRun
    <3>3. call - 1 = Len(Current.calls)
      BY <2>1, <2>2
    <3> QED
      BY <3>1, <3>2, <3>3
  <2>5. /\ newOut.repaired = Append(out.repaired, Current) /\ newOut.open = out.open
        /\ newOut \in Outs
    <3>1. Append(out.repaired, Current) \in Seq(Messages)
      BY <1>0, <2>2, AppendFacts DEF Outs
    <3> QED
      BY <3>1, <1>0 DEF Outs
  <2>6. newOut = OnMessage(r[index], Current)
    <3> DEFINE new == OnMessage(r[index], Current)
    <3>1. new = [repaired |-> Append(_flush_orphans(r[index]).repaired, Current),
                 open |-> FoldLeft(OpenPair, << >>, Current.calls)]
      BY <2>2 DEF OnMessage, OnAi
    <3> HIDE DEF newOut
    <3>2. newOut = [repaired |-> newOut.repaired, open |-> newOut.open]
      BY <2>5 DEF Outs
    <3> QED
      BY <2>3, <2>4, <2>5, <3>1, <3>2
  <2> HIDE DEF newOut
  <2> QED
    BY <2>1, <2>5, <2>6, TakeFollows
<1>4. ASSUME NEW newOut, newOut = OnMessage(out, Current), Take(newOut),
             ~returned, index < Len(messages), call = 0
      PROVE  AsRun(r)'
  <2>1. out = r[index]
    BY <1>4 DEF AsRun
  <2>2. index + 1 \in 1..Len(messages) /\ index \in 0..Len(messages)
        /\ messages \in Seq(Messages)
    BY <1>0, <1>4, GivenFacts DEF IInv
  <2>3. newOut = r[index + 1]
    <3>1. (index + 1) - 1 = index
      BY <1>0
    <3> QED
      BY <1>4, <2>1, <2>2, <3>1 DEF IsRun, Loop!Runs, Current
  <2>4. newOut \in Outs
    <3>1. index + 1 \in 0..Len(messages)
      BY <2>2
    <3> QED
      BY <1>0, <2>3, <3>1
  <2> QED
    BY <1>4, <2>1, <2>4, TakeFollows
<1>5. CASE AtTool
  <2>1. /\ ~returned /\ index < Len(messages) /\ Current.kind = "tool"
        /\ Take(OnTool(out, Current))
    BY <1>5 DEF AtTool, At, Current
  <2>2. call = 0
    BY <1>0, <2>1 DEF IInv, PositionOK
  <2>3. OnTool(out, Current) = OnMessage(out, Current)
    BY <2>1 DEF OnMessage
  <2> QED
    BY <1>4, <2>1, <2>2, <2>3
<1>6. CASE AtOther
  <2>1. /\ ~returned /\ index < Len(messages) /\ Current.kind = "other"
        /\ Take(OnOther(out, Current))
    BY <1>6 DEF AtOther, At, Current
  <2>2. call = 0
    BY <1>0, <2>1 DEF IInv, PositionOK
  <2>3. OnOther(out, Current) = OnMessage(out, Current)
    BY <2>1 DEF OnMessage
  <2> QED
    BY <1>4, <2>1, <2>2, <2>3
<1>7. CASE FlushTail
  <2>1. /\ ~returned /\ index = Len(messages)
        /\ out' = _flush_orphans(out) /\ returned' = TRUE
        /\ messages' = messages /\ index' = index /\ call' = call /\ place' = place
    BY <1>7 DEF FlushTail
  <2>2. call = 0
    BY <1>0, <2>1 DEF IInv, PositionOK
  <2> QED
    BY <2>1, <2>2 DEF AsRun
<1> QED
  BY <1>1, <1>2, <1>3, <1>5, <1>6, <1>7 DEF Next

\* So at any time the locals of the loop are those of the run of the fold.
LEMMA RunsAreFollowed == Spec => []FollowsRuns
<1>1. Init => FollowsRuns
  BY DEF Init, FollowsRuns, AsRun, IsRun, Loop!Runs
<1>2. IInv /\ FollowsRuns /\ [Next]_vars => FollowsRuns'
  <2> SUFFICES ASSUME IInv, FollowsRuns, [Next]_vars,
                      NEW r, IsRun(r, messages')
               PROVE  AsRun(r)'
    BY DEF FollowsRuns
  <2>1. messages' = messages
    BY DEF Next, StartAi, NextCall, EndAi, AtTool, AtOther, FlushTail, Take, vars
  <2>2. AsRun(r) /\ IsRun(r, messages)
    BY <2>1 DEF FollowsRuns
  <2>3. CASE Next
    BY <2>2, <2>3, StepFollows
  <2>4. CASE UNCHANGED vars
    BY <2>2, <2>4 DEF vars, AsRun, Current
  <2> QED
    BY <2>3, <2>4
<1> QED
  BY <1>1, <1>2, RepairInvariant, PTL DEF Spec

\* What the loop returns.
LEMMA ReturnedList ==
  ASSUME IInv, FollowsRuns, returned
  PROVE  /\ messages \in Seq(Messages)
         /\ \A k \in 1..Len(messages) : ~messages[k].synthetic
         /\ \E r : /\ IsRun(r, messages)
                   /\ out.repaired = _flush_orphans(r[Len(messages)]).repaired
                   /\ out.repaired = _ensure_tool_call_pairs(messages)
                   /\ \A k \in 1..Len(messages) : place[k] = Len(r[k].repaired)
<1>1. messages \in Seq(Messages) /\ index = Len(messages)
  BY GivenFacts DEF IInv, PositionOK
<1>2. \A k \in 1..Len(messages) : ~messages[k].synthetic
  <2>1. messages \in Seq(Persistable)
    BY DEF IInv, TypeOK
  <2>2. \A k \in 1..Len(messages) : messages[k] \in Persistable
    <3> HIDE DEF Persistable
    <3> QED BY <2>1
  <2> QED
    BY <2>2, PersistableFacts
<1>3. PICK r : IsRun(r, messages)
               /\ _ensure_tool_call_pairs(messages) = _flush_orphans(r[Len(messages)]).repaired
  BY <1>1, MessagesRun
<1>4. AsRun(r)
  BY <1>3 DEF FollowsRuns
<1> QED
  BY <1>1, <1>2, <1>3, <1>4 DEF AsRun

\* Of each id a block ends up with as many answers as it had or as its batch has
\* calls, whichever is more: the loop adds no answer that is not missing.
THEOREM RepairAddsOnlyWhatIsMissing == Spec => []AddsOnlyWhatIsMissing
<1>1. IInv /\ FollowsRuns => AddsOnlyWhatIsMissing
  <2> SUFFICES ASSUME IInv, FollowsRuns, returned,
                      NEW p \in DOMAIN messages, NEW i \in Ids, messages[p].kind = "ai"
               PROVE  LET asked == Times(messages[p].calls, i)
                          had == AnswersTo(messages, Block(messages, p), i)
                          has == AnswersTo(out.repaired, Block(out.repaired, place[p]), i)
                      IN has = IF asked > had THEN asked ELSE had
    BY DEF AddsOnlyWhatIsMissing, Occurrences, AnswersTo, Times
  <2>1. messages \in Seq(Messages)
    BY ReturnedList
  <2>2. p \in 1..Len(messages)
    BY <2>1
  <2>3. PICK r : /\ IsRun(r, messages)
                 /\ out.repaired = _flush_orphans(r[Len(messages)]).repaired
                 /\ \A k \in 1..Len(messages) : place[k] = Len(r[k].repaired)
    BY ReturnedList
  <2>4. place[p] = Len(r[p].repaired)
    BY <2>2, <2>3
  <2> QED
    BY <2>1, <2>2, <2>3, <2>4, RunAnswers
<1> QED
  BY <1>1, RepairInvariant, RunsAreFollowed, PTL

\* The loop computes _ensure_tool_call_pairs, and repairing what it returned, as
\* the next call of the LLM does, adds nothing.
THEOREM RepairTwiceIsOnce == Spec => []RepairIsStable
<1>1. IInv /\ FollowsRuns => RepairIsStable
  <2> SUFFICES ASSUME IInv, FollowsRuns, returned
               PROVE  /\ out.repaired = _ensure_tool_call_pairs(messages)
                      /\ out.repaired = _ensure_tool_call_pairs(out.repaired)
    BY DEF RepairIsStable
  <2>1. /\ messages \in Seq(Messages) /\ out.repaired = _ensure_tool_call_pairs(messages)
        /\ \A k \in 1..Len(messages) : ~messages[k].synthetic
    BY ReturnedList
  <2>2. _ensure_tool_call_pairs(_ensure_tool_call_pairs(messages))
          = _ensure_tool_call_pairs(messages)
    BY <2>1, RepairTwice
  <2> QED
    BY <2>1, <2>2
<1> QED
  BY <1>1, RepairInvariant, RunsAreFollowed, PTL

=============================================================================
