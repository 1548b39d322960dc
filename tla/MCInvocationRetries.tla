------------------------ MODULE MCInvocationRetries ------------------------
(***************************************************************************)
(* Constants for model-checking InvocationRetries: the tools of            *)
(* MCSkillsAgentGraph, and exceptions of each kind, alone, in a group with *)
(* another, and in a group inside a group.                                 *)
(***************************************************************************)
EXTENDS InvocationRetries

CONSTANTS plain, injected, review, unknown, rateLimit, badRequest, ownError, group

MCTools == {plain, injected, review}
MCPausing == {review}
MCUninjectable == {injected}
MCNone == {}

MCTransient == {rateLimit}
MCPermanent == {badRequest}

Alone(c) == [class |-> c, exceptions |-> {}]
Grouped(es) == [class |-> group, exceptions |-> es]

Singles == {Alone(rateLimit), Alone(badRequest), Alone(ownError)}
Mixed == Grouped({Alone(rateLimit), Alone(ownError)})
Hopeless == Grouped({Alone(badRequest), Alone(ownError)})
MCExceptions == Singles \cup {Mixed, Hopeless, Grouped({Mixed})}

\* Return values: every dict on the keys of a ToolFeedback and one more, every
\* list of up to two blocks with and without keys of their own, and an MCP
\* message around each of the lists and texts.
Text(t) == [kind |-> "str", text |-> {t}]
Dict(entries) == [kind |-> "dict", entries |-> entries]
List(items) == [kind |-> "list", items |-> items]
Message(content, s) == [kind |-> "ToolMessage", content |-> content, structured |-> s]

Values == {None, {"text"}, {"results"}, {"results", "extra"}, {"misfit"},
           {"message", "retryable"}, {"message", "final", "context", "extra"},
           {"message", "final", "misfit"}}
DictsOn(keySets) == {Dict(f) : f \in UNION {[keys -> Values] : keys \in keySets}}
Dicts == DictsOn(SUBSET {"success", "error", "query", "rows"})

Block(more) == Dict([key \in {"type", "text"} \cup more |->
                       IF key = "type" THEN {"text"} ELSE {key}])
Blocks == {Block({}), Block({"id"}), Block({"rogue"}), Block({"id", "rogue"}),
           Dict([key \in {"type"} |-> {"image"}]), Text("text"), Text("")}
Lists == {List(items) : items \in UNION {[1..n -> Blocks] : n \in 0..2}}

Contents == Lists \cup {Text(""), Text("text")}
Messages == {Message(c, s) : c \in Contents, s \in {None, {"rows"}}}

Own == {[kind |-> "ToolFeedback", entries |-> d.entries] :
          d \in {d \in Dicts : Parses(d.entries)}}

MCRawResults == Dicts \cup Contents \cup Messages \cup Own

\* Dicts without an outcome: a tool that answers with rows, the query it ran, or
\* with nothing.
MCOutcomeless == DictsOn(SUBSET {"query", "rows"})
MCPlain == {plain}

ASSUME DoubledIsPower == \A n \in 0..12 : Doubled[n] = 2^n

=============================================================================
