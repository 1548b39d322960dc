---------------------------- MODULE ToolResults ----------------------------
(***************************************************************************)
(* What _wrap_as_tool_feedback makes of a tool's return value: the         *)
(* ToolFeedback that decides between TOOL_SUCCESS and TOOL_ERROR, and what *)
(* of the reply the ToolMessage shows the LLM.                             *)
(*                                                                         *)
(* A return value is [kind |-> "ToolFeedback" or "dict", entries |-> <a    *)
(* function on keys>], [kind |-> "ToolMessage", content |-> ...,           *)
(* structured |-> ...], [kind |-> "list", items |-> <a sequence of dicts   *)
(* and texts>] or [kind |-> "str", text |-> ...].                          *)
(*                                                                         *)
(* The value of a key is the set of its leaves: none for None, one for a   *)
(* text, the nested keys of a dict, where "message" stands for the texts   *)
(* error_type and message, "retryable" and "final" for the flag, "misfit"  *)
(* for a field of the wrong type and any other leaf for a key of its own.  *)
(***************************************************************************)
EXTENDS Naturals, Sequences, Functions

CONSTANTS RawResults   \* what tool.ainvoke may return

None == {}
Texts == {{"text"}, {""}}

\* A datum is a key and a leaf of its value; an empty text is none.
Data(key, value) == {key} \X (value \ {""})

Entries(d) == UNION {Data(key, d.entries[key]) : key \in DOMAIN d.entries}
AsText(text) == Data("text", text)

-----------------------------------------------------------------------------
(* The constructor of ToolFeedback, with the entries of a dict *)

\* The fields of ToolFeedback, SuccessResponse and ErrorResponse.
Fields == [success |-> {"results"},
           error   |-> {"message", "retryable", "final", "context"},
           query   |-> {"text"}]

Given(entries) == {key \in DOMAIN entries : entries[key] # None}

Fits(key, value) ==
  value # None =>
    /\ "misfit" \notin value
    /\ key = "success" => "results" \in value
    /\ key = "error" => "message" \in value /\ value \cap {"retryable", "final"} # {}
    /\ key = "query" => value \in Texts

\* Mutated form: pydantic's default, which ignores unknown keys.
ParsesLoosely(entries) ==
  /\ \A key \in DOMAIN entries : key \in DOMAIN Fields => Fits(key, entries[key])
  /\ ~({"success", "error"} \subseteq Given(entries))

\* extra="forbid", the types of the fields, _exactly_one_outcome_or_neither.
Parses(entries) ==
  /\ DOMAIN entries \subseteq DOMAIN Fields
  /\ \A key \in DOMAIN entries : Fits(key, entries[key])
  /\ ~({"success", "error"} \subseteq Given(entries))

Feedback(outcome, retryable, data) ==
  [outcome |-> outcome, retryable |-> retryable, data |-> data]

Success(data) == Feedback("success", FALSE, data)

\* SuccessResponse and ErrorResponse ignore what is no field of theirs.
Kept(d) == {datum \in Entries(d) :
              datum[1] \in DOMAIN Fields => datum[2] \in Fields[datum[1]]}

Parsed(d) ==
  IF "success" \in Given(d.entries) THEN Success(Kept(d))
  ELSE IF "error" \in Given(d.entries)
       THEN Feedback("error", "retryable" \in d.entries["error"], Kept(d))
       ELSE Feedback("neither", FALSE, Kept(d))

\* A tool's own ToolFeedback went through the same constructor; the content of a
\* message is a text or a list, never a dict.
ASSUME RawResultsAssumption ==
  \A raw \in RawResults :
    /\ raw.kind = "ToolFeedback" => Parses(raw.entries)
    /\ raw.kind = "ToolMessage" => raw.content.kind \in {"str", "list"}

-----------------------------------------------------------------------------
(* The cases of _wrap_as_tool_feedback *)

\* Mutated form: keys beside the known ones do not matter.
is_loose_text_block(b) ==
  /\ b.kind = "dict" /\ {"type", "text"} \subseteq DOMAIN b.entries
  /\ b.entries["type"] = {"text"} /\ b.entries["text"] \in Texts

_is_mcp_text_block(b) ==
  /\ b.kind = "dict" /\ {"type", "text"} \subseteq DOMAIN b.entries
  /\ b.entries["type"] = {"text"} /\ b.entries["text"] \in Texts
  /\ DOMAIN b.entries \subseteq
       {"type", "text", "annotations", "_meta", "id", "index", "extras"}

\* str(raw)
StrOne(raw) == IF raw.kind = "str" THEN AsText(raw.text) ELSE Entries(raw)

Str(raw) ==
  IF raw.kind = "list" THEN UNION {StrOne(b) : b \in Range(raw.items)} ELSE StrOne(raw)

Falsy(content) ==
  content \in {[kind |-> "str", text |-> {""}], [kind |-> "list", items |-> << >>]}

Plain(raw) ==
  IF raw.kind = "dict" /\ Parses(raw.entries) THEN Parsed(raw)
  ELSE IF /\ raw.kind = "list" /\ raw.items # << >>
          /\ \A b \in Range(raw.items) : _is_mcp_text_block(b)
       THEN Success(UNION {AsText(b.entries["text"]) : b \in Range(raw.items)})
       ELSE Success(Str(raw))

\* The content of a message, as if the tool had returned it.
Reply(raw) == IF raw.kind = "ToolMessage" THEN raw.content ELSE raw

\* structured_content of the artifact of a message.
Structured(raw) ==
  IF raw.kind = "ToolMessage" THEN Data("structured_content", raw.structured) ELSE {}

HasOnlyStructured(raw) ==
  raw.kind = "ToolMessage" /\ Falsy(raw.content) /\ raw.structured # None

_wrap_as_tool_feedback(raw) ==
  IF raw.kind = "ToolFeedback" THEN Parsed(raw)
  ELSE IF HasOnlyStructured(raw) THEN Success(Structured(raw))
  ELSE Plain(Reply(raw))

\* The text of the ToolMessage: an error without the query, a success with it.
Content(feedback) ==
  IF feedback.outcome = "error"
  THEN {datum \in feedback.data : datum[1] = "error"}
  ELSE feedback.data

-----------------------------------------------------------------------------
(* What is lost of a return value *)

\* All a tool answered.
Payload(raw) == Str(Reply(raw)) \cup Structured(raw)

Lost(raw) == Payload(raw) \ Content(_wrap_as_tool_feedback(raw))

\* Keys of a text block that carry no payload.
Plumbing == {"type", "annotations", "_meta", "id", "index", "extras"}

PlumbingOfText(raw, datum) ==
  /\ Reply(raw).kind = "list" /\ datum[1] \in Plumbing
  /\ \A b \in Range(Reply(raw).items) : b.kind = "dict" /\ "text" \in DOMAIN b.entries

BesideContent(raw, datum) ==
  raw.kind = "ToolMessage" /\ ~Falsy(raw.content) /\ datum \in Structured(raw)

\* In a ToolFeedback, or a dict with its keys and no other.
NoFieldOfIts(raw, datum) ==
  /\ raw.kind \in {"ToolFeedback", "dict"} /\ DOMAIN raw.entries \subseteq DOMAIN Fields
  /\ \/ datum[1] \in {"success", "error"} /\ datum[2] \notin Fields[datum[1]]
     \/ datum[1] = "query" /\ "error" \in Given(raw.entries)

KnownLoss(raw, datum) ==
  PlumbingOfText(raw, datum) \/ BesideContent(raw, datum) \/ NoFieldOfIts(raw, datum)

\* Return values with an outcome of which the LLM misses something else.
Truncated ==
  {raw \in RawResults : /\ _wrap_as_tool_feedback(raw).outcome # "neither"
                        /\ \E datum \in Lost(raw) : ~KnownLoss(raw, datum)}

=============================================================================
