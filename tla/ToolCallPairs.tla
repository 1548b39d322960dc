---------------------------- MODULE ToolCallPairs ----------------------------
(***************************************************************************)
(* BaseAgent._ensure_tool_call_pairs, which repairs the persisted messages *)
(* just before each call of the LLM: providers refuse a request in which a *)
(* tool call is not answered before the next assistant or user message.    *)
(*                                                                         *)
(* A message is what the loop looks at: whether it is an AIMessage with    *)
(* tool calls (and their ids), a ToolMessage (and the id it answers) or    *)
(* anything else.  NoId stands for the falsy ids the loop leaves out.      *)
(***************************************************************************)
EXTENDS Naturals, SequencesExt

CONSTANTS Ids, NoId

ASSUME NoIdIsNoId == NoId \notin Ids

Messages == [kind : {"ai", "tool", "other"},
             calls : Seq(Ids \cup {NoId}),
             id : Ids \cup {NoId},
             synthetic : BOOLEAN]

AiMessage(calls) == [kind |-> "ai", calls |-> calls, id |-> NoId, synthetic |-> FALSE]
ToolMessage(id) == [kind |-> "tool", calls |-> << >>, id |-> id, synthetic |-> FALSE]
OtherMessage == [kind |-> "other", calls |-> << >>, id |-> NoId, synthetic |-> FALSE]

_make_synthetic_tool_message(id) ==
  [kind |-> "tool", calls |-> << >>, id |-> id, synthetic |-> TRUE]

HasId(id) == id # NoId

-----------------------------------------------------------------------------
(* The loop body: out is [repaired, open], the two locals of the code *)

NothingYet == [repaired |-> << >>, open |-> << >>]

\* Mutated forms: a batch left open is forgotten; it is answered but stays open.
ForgetOrphans(out) == [out EXCEPT !.open = << >>]
AnswerAndKeepOrphans(out) ==
  [out EXCEPT !.repaired = @ \o
     [k \in DOMAIN out.open |-> _make_synthetic_tool_message(out.open[k])]]

_flush_orphans(out) ==
  [repaired |-> out.repaired \o
     [k \in DOMAIN out.open |-> _make_synthetic_tool_message(out.open[k])],
   open |-> << >>]

\* Mutated form: falsy ids get a pair too.
OpenAnyPair(open, id) == Append(open, id)

\* Only calls with an id get a pair.
OpenPair(open, id) == IF HasId(id) THEN Append(open, id) ELSE open

OnAi(out, m) ==
  [repaired |-> Append(_flush_orphans(out).repaired, m),
   open |-> FoldLeft(OpenPair, << >>, m.calls)]

\* Mutated form: a ToolMessage closes nothing.
OnToolClosingNothing(out, m) == [out EXCEPT !.repaired = Append(@, m)]

\* A ToolMessage closes the first open pair with its id.
OnTool(out, m) ==
  [repaired |-> Append(out.repaired, m), open |-> RemoveFirst(out.open, m.id)]

\* Mutated form: the orphans come after the message that ends their block.
OnOtherFirst(out, m) ==
  _flush_orphans([out EXCEPT !.repaired = Append(@, m)])

OnOther(out, m) ==
  [_flush_orphans(out) EXCEPT !.repaired = Append(@, m)]

OnMessage(out, m) ==
  CASE m.kind = "ai" -> OnAi(out, m)
    [] m.kind = "tool" -> OnTool(out, m)
    [] m.kind = "other" -> OnOther(out, m)

\* The whole function.
_ensure_tool_call_pairs(messages) ==
  _flush_orphans(FoldLeft(OnMessage, NothingYet, messages)).repaired

-----------------------------------------------------------------------------
(* What it is for *)

\* The ToolMessages that directly follow position p of log.
Block(log, p) ==
  {q \in (p+1)..Len(log) : \A r \in (p+1)..q : log[r].kind = "tool"}

\* The provider's rule: each call with an id is answered before the next
\* message that is no ToolMessage.
Answered(log, p, i) == \E q \in Block(log, p) : log[q].id = i

WellPaired(log) ==
  \A p \in DOMAIN log : log[p].kind = "ai" =>
    \A k \in DOMAIN log[p].calls :
      HasId(log[p].calls[k]) => Answered(log, p, log[p].calls[k])

=============================================================================
