---------------------------- MODULE RequestContext ----------------------------
(***************************************************************************)
(* The Context (config.py) a run of the graph works with, and the wrapper  *)
(* with_context_init (nodes.py) that has the first node of a run fill it:  *)
(* skill store, tools, agent; then what the nodes do with it, up to the    *)
(* model and the tools a call of the LLM is bound to.  A step ends where   *)
(* the code awaits, and there the awaited work may raise, the run may die, *)
(* or the host may switch the provider.  One run at a time: "each worker   *)
(* gets its own Context and store instance".                               *)
(***************************************************************************)
EXTENDS SkillStore, SequencesExt

CONSTANTS
  BuiltIns,       \* skill and review tools: a sequence of tools
  Servers,        \* MCP servers that may be configured
  Offers,         \* the sequence of tools each of them offers
  Providers,      \* what Context.provider may be set to
  ReusesFailed    \* whether a host may reuse a Context that failed to initialize

\* A tool has a name, the one it gets behind a server's prefix, and the level of
\* its metadata, if any, at which its author allows strict schemas.
IsTool(tool) ==
  /\ tool = [name |-> tool.name, prefixed |-> tool.prefixed, strict |-> tool.strict]
  /\ tool.strict \in {"no", "metadata", "_meta"}

ASSUME ContextAssumption ==
  /\ ReusesFailed \in BOOLEAN /\ IsFiniteSet(Servers)
  /\ \A tools \in {BuiltIns} \cup {Offers[s] : s \in Servers} :
       tools \in Seq(Range(tools)) /\ \A tool \in Range(tools) : IsTool(tool)

\* The skill tools and the review tool have names of their own.
ASSUME BuiltInNamesDiffer ==
  \A i, j \in DOMAIN BuiltIns : BuiltIns[i].name = BuiltIns[j].name => i = j

VARIABLES
  at,             \* "host", or where the run is: "entering" a node, "scanning",
                  \* "naming" the skills, "connecting" to the MCP servers, in the
                  \* "body" of the node, "prompted" with the catalog, "calling"
                  \* the LLM
  node,           \* the node of the graph it is about
  provider,       \* Context.provider
  _skill_store,   \* not None
  _tools,         \* << >> for None
  _agent,         \* not None
  connected,      \* ghost: the MCP servers _tools was built from
  told,           \* ghost: the skills of the catalogs any run put into a prompt,
                  \* but for those that have lost a SKILL.md since
  bound           \* ghost: what the LLM being called was given

context == <<provider, _skill_store, _tools, _agent, connected>>
store == <<disk, edits, caches, since, invalidated>>
vars == <<at, node, context, told, bound, store>>

Nodes == {"agent_node", "tool_node", "error_summary_node"}

NotBound == [model |-> "none", tools |-> {}, strict |-> {}]

Init ==
  /\ StoreInit
  /\ at = "host" /\ node = "agent_node" /\ provider \in Providers
  /\ _skill_store = FALSE /\ _tools = << >> /\ _agent = FALSE
  /\ connected = {} /\ told = {} /\ bound = NotBound

-----------------------------------------------------------------------------
(* with_context_init and Context.initialize *)

\* Mutated form: only the node that starts a turn initializes.
NeedsInitAtStart(n) == ~_skill_store /\ n = "agent_node"

NeedsInit(n) == ~_skill_store

EnterNode ==
  /\ at = "entering"
  /\ \/ NeedsInit(node) /\ _skill_store' = TRUE /\ at' = "scanning"
     \/ ~NeedsInit(node) /\ UNCHANGED _skill_store /\ at' = "body"
  /\ UNCHANGED <<node, provider, _tools, _agent, connected, told, bound, store>>

\* scan() in its thread.
Scans ==
  /\ at = "scanning" /\ scan
  /\ at' = "naming"
  /\ UNCHANGED <<node, context, told, bound>>

ScanFails ==
  /\ at = "scanning" /\ ScanRaises
  /\ at' = "host"
  /\ UNCHANGED <<node, context, told, bound>>

\* The names of the skills for the log and for the skill tools.
NamesSkills ==
  /\ at = "naming" /\ get_skill_names
  /\ at' = "connecting"
  /\ UNCHANGED <<node, context, told, bound>>

\* Mutated form: servers never get a prefix.
BareName(tool, many) == tool.name

\* MultiServerMCPClient's tool_name_prefix, set when there is more than one server.
ToolName(tool, many) == IF many THEN tool.prefixed ELSE tool.name

\* The tools of the servers, in the order of the configuration.
_load_external_mcp_tools(order) ==
  FlattenSeq([i \in DOMAIN order |->
    [k \in DOMAIN Offers[order[i]] |->
      [Offers[order[i]][k] EXCEPT !.name = ToolName(Offers[order[i]][k], Len(order) > 1)]]])

NamesOf(tools) == {tools[i].name : i \in DOMAIN tools}

\* Mutated form: an external tool is compared with the built-in ones only.
UnlessBuiltIn(kept, ext) ==
  IF ext.name \in NamesOf(BuiltIns) THEN kept ELSE Append(kept, ext)

UnlessSeen(kept, ext) ==
  IF ext.name \in NamesOf(kept) THEN kept ELSE Append(kept, ext)

MergedTools(externals) == FoldLeft(UnlessSeen, BuiltIns, externals)

\* No server where the configuration is missing or cannot be read.
Connects ==
  /\ at = "connecting"
  /\ \E order \in SetToAllKPermutations(Servers) :
       /\ connected' = Range(order)
       /\ _tools' = MergedTools(_load_external_mcp_tools(order))
  /\ _agent' = TRUE
  /\ at' = "body"
  /\ UNCHANGED <<node, provider, _skill_store, told, bound, store>>

\* One MCP server that cannot be reached, or the run dies.
ConnectFails ==
  /\ at \in {"naming", "connecting"} /\ at' = "host"
  /\ UNCHANGED <<node, context, told, bound, store>>

-----------------------------------------------------------------------------
(* The nodes, as far as they use the Context *)

\* agent_node renders the catalog, in a thread.
RendersCatalog ==
  /\ at = "body" /\ _agent /\ node = "agent_node"
  /\ get_skill_catalog
  /\ told' = told \cup Described'
  /\ at' = "prompted"
  /\ UNCHANGED <<node, context, bound>>

CatalogFails ==
  /\ at = "body" /\ _agent /\ node = "agent_node"
  /\ ~_scanned /\ ScanRaises
  /\ at' = "host"
  /\ UNCHANGED <<node, context, told, bound>>

\* Mutated form: the flag is a bool, as when it was passed to the constructor.
AlwaysStrict(p) == TRUE

_resolve_strict_tool_schema(p) == p = "openai"

\* Mutated form: the level that langchain-mcp-adapters uses is not looked at.
AllowsAtTop(tool) == tool.strict = "metadata"

AllowsStrict(tool) == tool.strict \in {"metadata", "_meta"}

_build_strict_tool_dicts == {tool.name : tool \in {t \in Range(_tools) : AllowsStrict(t)}}

\* Ollama's and OpenAI's are the only models that can be built.
CallsLlm ==
  /\ \/ at = "prompted"
     \/ at = "body" /\ _agent /\ node = "error_summary_node"
  /\ provider \in {"ollama", "openai"}
  /\ bound' = IF node = "error_summary_node" THEN [NotBound EXCEPT !.model = provider]
              ELSE [model |-> provider, tools |-> NamesOf(_tools),
                    strict |-> IF _resolve_strict_tool_schema(provider)
                               THEN _build_strict_tool_dicts ELSE {}]
  /\ at' = "calling"
  /\ UNCHANGED <<node, context, told, store>>

\* A tool that raises is answered with an error, and the node goes on.
RunsSkillTool ==
  /\ at = "body" /\ _agent /\ node = "tool_node"
  /\ \/ \E name \in Skills : load(name)
     \/ ~_scanned /\ ScanRaises
  /\ UNCHANGED <<at, node, context, told, bound>>

NextNode ==
  /\ \/ at = "calling" /\ node = "agent_node" /\ node' \in {"tool_node", "error_summary_node"}
     \/ at = "body" /\ _agent /\ node = "tool_node" /\ node' = "agent_node"
  /\ at' = "entering" /\ bound' = NotBound
  /\ UNCHANGED <<context, told, store>>

-----------------------------------------------------------------------------
(* The host, and the authors of the skills *)

\* The answer, a pause, a node that raises, or the end of the process.
RunEnds ==
  /\ at \in {"body", "prompted", "calling"}
  /\ at' = "host" /\ bound' = NotBound
  /\ UNCHANGED <<node, context, told, store>>

\* A run with a Context of its own starts, resumes or replays at some node; what
\* the constructor or the environment configures is its provider.
StartRun ==
  /\ at = "host" /\ at' = "entering" /\ node' \in Nodes /\ provider' \in Providers
  /\ _skill_store' = FALSE /\ _tools' = << >> /\ _agent' = FALSE
  /\ connected' = {}
  /\ EmptyStore /\ invalidated' = FALSE /\ UNCHANGED <<told, bound, disk, edits>>

\* The host passes the Context of the run before.
StartRunAgain ==
  /\ _agent \/ ReusesFailed
  /\ at = "host" /\ at' = "entering" /\ node' \in Nodes
  /\ UNCHANGED <<context, told, bound, store>>

\* ctx.provider = ..., while the run awaits something.
SwitchesProvider ==
  /\ at # "host" /\ provider' \in Providers
  /\ UNCHANGED <<at, node, _skill_store, _tools, _agent, connected, told, bound, store>>

Invalidates ==
  /\ at \in {"body", "prompted", "calling"} /\ _skill_store /\ invalidate
  /\ UNCHANGED <<at, node, context, told, bound>>

EditsDirectory ==
  /\ Edit /\ told' = told \ Deprived
  /\ UNCHANGED <<at, node, context, bound>>

Next ==
  \/ EnterNode \/ Scans \/ ScanFails \/ NamesSkills \/ Connects \/ ConnectFails
  \/ RendersCatalog \/ CatalogFails \/ CallsLlm \/ RunsSkillTool \/ NextNode
  \/ RunEnds \/ StartRun \/ StartRunAgain \/ SwitchesProvider
  \/ Invalidates \/ EditsDirectory

Spec == Init /\ [][Next]_vars

-----------------------------------------------------------------------------
(* Properties *)

TypeOK ==
  /\ StoreTypeOK
  /\ at \in {"host", "entering", "scanning", "naming", "connecting",
             "body", "prompted", "calling"}
  /\ node \in Nodes /\ provider \in Providers
  /\ _skill_store \in BOOLEAN /\ _agent \in BOOLEAN
  /\ connected \subseteq Servers /\ told \subseteq Skills

\* "no entry path (start, resume, replay) can land on a fresh Context"
\* (nodes.py:60): the body of a node finds the agent and the store.
InitializedInBody == at \in {"body", "prompted", "calling"} => _skill_store /\ _agent

\* Neither path can "silently shadow another" tool in tools_by_name
\* (config.py:294-298), and no built-in one gives way to an MCP server's.
NoToolShadowed ==
  _agent =>
    /\ IsPrefix(BuiltIns, _tools)
    /\ \A i, j \in DOMAIN _tools : _tools[i].name = _tools[j].name => i = j

\* Two servers that expose a common name can coexist (config.py:99-103): of several
\* servers a tool is dropped only if another one has its name with the prefix.
CommonNamesCoexist ==
  _agent /\ Cardinality(connected) > 1 =>
    \A s \in connected : \A k \in DOMAIN Offers[s] :
      LET Clashes == {t \in connected : \E j \in DOMAIN Offers[t] :
                        <<t, j>> # <<s, k>> /\ Offers[t][j].prefixed = Offers[s][k].prefixed}
      IN \/ Offers[s][k].prefixed \in NamesOf(BuiltIns) \/ Clashes # {}
         \/ \E i \in DOMAIN _tools :
              _tools[i] = [Offers[s][k] EXCEPT !.name = Offers[s][k].prefixed]

\* Whatever provider the host switches to and when, a model that is not OpenAI's
\* gets no strict schema, and one that is gets it for exactly the tools whose
\* author allowed it, built in or of a server (config.py:342-349, base_agent.py:65-76
\* and 125-137).
StrictFitsModel ==
  at = "calling" =>
    /\ bound.model # "openai" => bound.strict = {}
    /\ bound.model = "openai" /\ node = "agent_node" =>
         \A tool \in Range(_tools) : tool.name \in bound.strict <=> tool.strict # "no"

\* A skill that some model was told of, in this run or before it was paused, and
\* none of whose files was renamed, broken or removed since, is found when the model
\* asks for it: the node that runs the tools may be the first one of its Context,
\* after a resume, a failed scan or an invalidate().  load() reads the file the
\* store has for it, and read_supporting_file and list_supporting_files, which never
\* scan, find its directory unless somebody called invalidate() (skills.py:310-332,
\* 337 and 375).
ToldSkillsAreFound ==
  at = "body" =>
    /\ ~invalidated => _scanned
    /\ _scanned => told \subseteq Described

=============================================================================
