-------------------------- MODULE MCConversation ---------------------------
(***************************************************************************)
(* Conversation for TLC.  A scenario fixes the declared tools and the items *)
(* a conversation may take, so that each exercises one way of losing or     *)
(* pairing items.                                                           *)
(***************************************************************************)
EXTENDS Conversation

Says(role) == MessageItem(role, "history", <<<<"hi">>>>)
Shows == MessageItem("user", "history", <<<<"look">>, Image>>)
Notes == MessageItem("developer", "history", <<<<"note">>>>)
Thinks(dialect) == ReasoningItem(<<<<"hm">>>>, dialect)

Function(name) == Tool("function", name)
Plain(tool) == Declaration(tool, "plain")
Calls(tool) == ToolCallItem(tool, "none", <<<<"{}">>>>)
Search == Tool("search", "none")
Searches(parts) == ToolCallItem(Search, "none", parts)
Returns(parts, error) == ToolResultItem("none", parts, error)

Directive == MessageItem("system", "request", <<<<"be kind">>>>)
Offers(tools) == ToolDeclarationsItem("request", tools)
Scenario(length, policy, prelude, turns, calls, results) ==
    [length |-> length, policy |-> policy, prelude |-> prelude, turns |-> turns, calls |-> calls, results |-> results]

(* Functions and custom tools, one of them not declared, batches of calls,  *)
(* results with images.                                                     *)
ClientTools ==
    Scenario(4, Policy("specific", Tool("custom", "c")), <<Directive, Offers(<<Plain(Function("f")), Plain(Tool("custom", "c"))>>)>>,
             {Says("user"), Says("assistant"), Thinks("messages")},
             {Calls(Function("f")), Calls(Function("g")), Calls(Tool("custom", "c"))},
             {Returns(<<<<"ok">>>>, FALSE), Returns(<<<<"see">>, Image, <<"more">>>>, TRUE)})

(* Searches of each provider, declared or not, with one or two queries.     *)
Query == <<"q">>
HostedSearch(length, offered) ==
    Scenario(length, NoPolicy, <<Offers(offered)>>,
             {Says("user"), Says("assistant"), Thinks("interactions"), Thinks("responses")},
             {Searches(<<Query, Opaque("interactions")>>), Searches(<<Query, Opaque("responses")>>), Searches(<<Query, <<"r">>>>), Calls(Function("f"))},
             {WebSearchResultItem("none", <<Opaque("interactions")>>), WebSearchResultItem("none", <<<<"source">>>>), Returns(<<<<"ok">>>>, FALSE)})

(* Discoveries of the client and of the provider that load a function, or   *)
(* fail, and tools declared in the history.                                 *)
Found(executor, error) == DiscoveryResultItem(executor, "none", IF error THEN <<>> ELSE <<Plain(Function("g"))>>, error)
Discovery(offered, kind) ==
    Scenario(4, Policy("required", NoTool), <<Offers(offered), Directive>>,
             {Says("user"), Notes, ToolDeclarationsItem("history", <<Plain(Tool("custom", "c"))>>)},
             {Calls(Tool(kind, "find")), Calls(Function("g")), Calls(Tool("custom", "c"))},
             {Found(kind, FALSE), Found(kind, TRUE), Returns(<<<<"ok">>>>, FALSE)})
Finds(kind, variant) == <<Declaration(Tool(kind, "find"), variant)>>

MCScenarios ==
    [clientTools |-> ClientTools,
     search |-> HostedSearch(4, <<Declaration(Search, "plain"), Plain(Function("f"))>>),
     restrictedSearch |-> HostedSearch(2, <<Declaration(Search, "restricted"), Plain(Function("f"))>>),
     formerSearch |-> HostedSearch(3, <<Plain(Function("f"))>>),
     clientDiscovery |-> Discovery(Finds("discovery", "plain"), "discovery"),
     nativeDiscovery |-> Discovery(Finds("providerDiscovery", "native"), "providerDiscovery"),
     foreignDiscovery |-> Discovery(Finds("providerDiscovery", "plain"), "providerDiscovery"),
     formerDiscovery |-> Discovery(<<Plain(Function("f"))>>, "discovery")]
CONSTANTS a, b
MCCallIds == {a, b}
MCSymmetry == Permutations(MCCallIds)
=============================================================================
