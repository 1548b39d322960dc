----------------------------- MODULE RepairLoop -----------------------------
(***************************************************************************)
(* The loop of _ensure_tool_call_pairs step by step, one iteration of      *)
(* "for m in messages" at a time, over every list of messages: what can be *)
(* persisted (MessageThread) is a small part of them.                      *)
(***************************************************************************)
EXTENDS ToolCallPairs, FiniteSets

CONSTANTS MaxMessages, MaxCalls   \* bounds: messages in a list, calls in one

ASSUME BoundsAssumption == MaxMessages \in Nat /\ MaxCalls \in Nat

VARIABLES
  messages,     \* the argument
  index,        \* messages done
  call,         \* in the inner loop: the tool call it is at, else 0
  out,          \* [repaired, open]: the code's repaired and open_pairs
  returned,
  place         \* ghost: where in repaired each message of the list went

vars == <<messages, index, call, out, returned, place>>

Batches == UNION {[1..n -> Ids \cup {NoId}] : n \in 1..MaxCalls}

Persistable == {AiMessage(calls) : calls \in Batches}
               \cup {ToolMessage(id) : id \in Ids} \cup {OtherMessage}

Init ==
  /\ messages \in UNION {[1..n -> Persistable] : n \in 0..MaxMessages}
  /\ index = 0 /\ call = 0 /\ out = NothingYet /\ returned = FALSE
  /\ place = << >>

At(m) == ~returned /\ index < Len(messages) /\ m = messages[index + 1]

\* The message goes to repaired and the loop goes on to the next one.
Take(newOut) ==
  /\ out' = newOut
  /\ index' = index + 1 /\ call' = 0
  /\ place' = Append(place, Len(newOut.repaired))
  /\ UNCHANGED <<messages, returned>>

\* What the batch before it left open is answered first.
StartAi ==
  /\ call = 0 /\ \E m \in Persistable : At(m) /\ m.kind = "ai"
  /\ out' = _flush_orphans(out) /\ call' = 1
  /\ UNCHANGED <<messages, index, returned, place>>

NextCall ==
  \E m \in Persistable :
    /\ At(m) /\ call \in DOMAIN m.calls
    /\ out' = [out EXCEPT !.open = OpenPair(@, m.calls[call])]
    /\ call' = call + 1
    /\ UNCHANGED <<messages, index, returned, place>>

EndAi ==
  \E m \in Persistable :
    /\ At(m) /\ call > 0 /\ call = Len(m.calls) + 1
    /\ Take([out EXCEPT !.repaired = Append(@, m)])

AtTool ==
  \E m \in Persistable : At(m) /\ m.kind = "tool" /\ Take(OnTool(out, m))

AtOther ==
  \E m \in Persistable : At(m) /\ m.kind = "other" /\ Take(OnOther(out, m))

FlushTail ==
  /\ ~returned /\ index = Len(messages)
  /\ out' = _flush_orphans(out) /\ returned' = TRUE
  /\ UNCHANGED <<messages, index, call, place>>

Next == StartAi \/ NextCall \/ EndAi \/ AtTool \/ AtOther \/ FlushTail

Spec == Init /\ [][Next]_vars

-----------------------------------------------------------------------------
(* Properties *)

TypeOK ==
  /\ messages \in Seq(Persistable)
  /\ index \in 0..Len(messages)
  /\ call \in Nat
  /\ out \in [repaired : Seq(Messages), open : Seq(Ids)]
  /\ returned \in BOOLEAN
  /\ place \in Seq(Nat)

\* What is sent answers every call that has an id before the next assistant or
\* user message, whatever was persisted (base_agent.py:857-863).
RepairedIsPaired == returned => WellPaired(out.repaired)

\* Nothing that was persisted is lost, changed or moved against the rest, and
\* nothing but synthetic answers is added.
KeepsMessages ==
  /\ Len(place) = index
  /\ \A k \in 1..index : /\ place[k] \in 1..Len(out.repaired)
                         /\ out.repaired[place[k]] = messages[k]
  /\ \A j, k \in 1..index : j < k => place[j] < place[k]
  /\ \A q \in 1..Len(out.repaired) :
       out.repaired[q].synthetic \/ \E k \in 1..index : place[k] = q

\* A synthetic answer stands in the block of a batch that asked for its id.
SyntheticAnswersACall ==
  \A q \in 1..Len(out.repaired) : out.repaired[q].synthetic =>
    \E p \in 1..Len(out.repaired) :
      /\ out.repaired[p].kind = "ai"
      /\ out.repaired[q].id \in Range(out.repaired[p].calls)
      /\ q \in Block(out.repaired, p)

Occurrences(log, positions, i) == Cardinality({q \in positions : log[q].id = i})

\* No more is added than is missing: of each id a block ends up with as many
\* answers as it had or as the batch has calls, whichever is more.
AddsOnlyWhatIsMissing ==
  returned => \A p \in DOMAIN messages, i \in Ids :
    messages[p].kind = "ai" =>
      LET asked == Cardinality({k \in DOMAIN messages[p].calls : messages[p].calls[k] = i})
          had == Occurrences(messages, Block(messages, p), i)
          has == Occurrences(out.repaired, Block(out.repaired, place[p]), i)
      IN has = IF asked > had THEN asked ELSE had

\* The repair is not persisted and runs again on every call: a second one over
\* its own result adds nothing (base_agent.py:861-863).
RepairIsStable ==
  returned => /\ out.repaired = _ensure_tool_call_pairs(messages)
              /\ out.repaired = _ensure_tool_call_pairs(out.repaired)

=============================================================================
