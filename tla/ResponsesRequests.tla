------------------------- MODULE ResponsesRequests --------------------------
(***************************************************************************)
(* Responses requests: a client's document decoded into canonical items,    *)
(* and canonical items compiled into a provider's document, with or without *)
(* a previous response that stands for part of the history.                 *)
(*                                                                         *)
(* An input item holds a type, a mark (the role of a message, the status of *)
(* a search, who executes a discovery), a tool name, a call id and parts.   *)
(* A target accepts hosted search or not, and images in function outputs or *)
(* not.                                                                     *)
(***************************************************************************)
EXTENDS CanonicalRequest

InputItem(type, mark, name, id, parts) == [type |-> type, mark |-> mark, name |-> name, id |-> id, parts |-> parts]
ResponsesTarget(hosted, arrays) == [hosted |-> hosted, arrays |-> arrays]

-----------------------------------------------------------------------------
(* compileResponsesToolProjection over DefaultToolLowering, with the search *)
(* slot replaced by HostedSearchWithAccessProjection on a hosted target.    *)

ResponsesFragments(declarations, target) ==
    SelectSeq(declarations, LAMBDA d : d.tool.kind # "search" \/ target.hosted)
ResponsesToolsRefused(declarations, target) ==
    ~target.hosted /\ \E d \in ToSet(declarations) : d.tool.kind = "search" /\ d.variant = "restricted"

(* encodeToolChoice                                                         *)
ResponsesToolChoice(policy, declarations, target) ==
    LET fragments == ResponsesFragments(declarations, target)
    IN IF fragments = <<>> \/ (policy.mode = "specific" /\ ~Declared(policy.tool, fragments)) THEN NoPolicy
       ELSE policy

(* historicalProjection: what carries a call of history and its result.     *)
(* Custom tools and discoveries that are not declared are not carried.      *)
Projection(kind, name) == [kind |-> kind, name |-> name]
HistoricalProjection(tool, declarations) ==
    LET kind == Key(tool).kind
    IN IF kind \in {"custom", "discovery"} /\ ~Declared(tool, declarations) THEN Projection("none", "none")
       ELSE Projection(kind, tool.name)

-----------------------------------------------------------------------------
(* projectedResponsesEffects, callQueues and resultQueues: the projections  *)
(* of the calls of one id, and of those that have a result, in call order.  *)

Records(items, declarations, id, settled) ==
    LET effects == SelectSeq(Matched(items).effects, LAMBDA e : e.id = id /\ (settled => e.result > 0))
    IN [k \in 1 .. Len(effects) |-> HistoricalProjection(effects[k].tool, declarations)]
CallQueues(items, declarations) == [id \in {e.id : e \in ToolEffects(items)} |-> Records(items, declarations, id, FALSE)]
ResultQueues(items, declarations) == [id \in {e.id : e \in ToolEffects(items)} |-> Records(items, declarations, id, TRUE)]

Emit(s, item) == [s EXCEPT !.out = Append(@, item)]
Fail(s, class) == [s EXCEPT !.error = class]

(* The call case of encodeConversation with ProjectCall of the projection   *)
(* that was popped: the input of the call has to be of its kind.            *)
ResponsesEncodeCall(s, item) ==
    LET records == s.calls[item.id]
        kind == Head(records).kind
        popped == [s EXCEPT !.calls = [@ EXCEPT ![item.id] = Tail(@)]]
        same == kind = Key(item.tool).kind
    IN CASE records = <<>> -> Fail(s, "internal")
         [] kind = "none" -> popped
         [] kind = "function" /\ item.tool.kind \in {"function", "discovery", "providerDiscovery"} ->
              Emit(popped, InputItem("function_call", "none", Head(records).name, item.id, item.parts))
         [] kind = "custom" /\ same ->
              Emit(popped, InputItem("custom_tool_call", "none", Head(records).name, item.id, item.parts))
         [] kind = "search" /\ same ->
              [Emit(popped, InputItem("web_search_call", "in_progress", "none",
                                      IF Opaque("responses") \in ToSet(item.parts) THEN item.id ELSE "none",
                                      SelectSeq(item.parts, LAMBDA part : part[1] # "opaque")))
                 EXCEPT !.searches = @ \cup {<<item.id, Len(s.out) + 1>>}]
         [] kind = "discovery" /\ same ->
              Emit(popped, InputItem("tool_search_call", IF item.tool.kind = "discovery" THEN "client" ELSE "server", "none", item.id, item.parts))
         [] kind = "discovery" /\ item.tool.kind = "function" -> Fail(s, "internal")
         [] OTHER -> Fail(s, "bad_request")

(* A search result completes the item of its call, and pops no queue.       *)
ResponsesEncodeSearchResult(s, item) ==
    LET pending == {p \in s.searches : p[1] = item.id}
        at == (CHOOSE p \in pending : TRUE)[2]
    IN IF pending = {} THEN Fail(s, "bad_request")
       ELSE [s EXCEPT !.searches = @ \ pending, !.out = [@ EXCEPT ![at].mark = "completed"]]

(* encodeResponsesToolResultContent: images a target does not accept follow *)
(* in a user message.  The text is gathered up to the first of them.        *)
IsImage(part) == part = Image
LeadingTexts(parts) ==
    LET first == SelectInSeq(parts, IsImage) IN IF first = 0 THEN parts ELSE SubSeq(parts, 1, first - 1)
ResultItems(s, type, item) ==
    LET images == SelectSeq(item.parts, IsImage)
        text == <<FlattenSeq(LeadingTexts(item.parts))>>
    IN CASE type = "function_call_output" /\ s.target.arrays -> <<InputItem(type, "none", "none", item.id, item.parts)>>
         [] images = <<>> -> <<InputItem(type, "none", "none", item.id, text)>>
         [] OTHER -> <<InputItem(type, "none", "none", item.id, text), InputItem("message", "user", "none", "none", images)>>

ResultType(kind) ==
    CASE kind = "function" -> "function_call_output"
      [] kind = "custom" -> "custom_tool_call_output"
      [] kind = "search" -> "web_search_call"
      [] kind = "discovery" -> "tool_search_output"

(* Mutant: results take the projection of the last call of their id.        *)
ResponsesEncodeResultLast(s, item) ==
    LET records == s.results[item.id]
    IN CASE records = <<>> -> Fail(s, "internal")
         [] Last(records).kind = "none" -> s
         [] OTHER -> [s EXCEPT !.out = @ \o ResultItems(s, ResultType(Last(records).kind), item)]

ResponsesEncodeResult(s, item) ==
    LET records == s.results[item.id]
        popped == [s EXCEPT !.results = [@ EXCEPT ![item.id] = Tail(@)]]
    IN CASE records = <<>> -> Fail(s, "internal")
         [] Head(records).kind = "none" -> popped
         [] OTHER -> [popped EXCEPT !.out = @ \o ResultItems(s, ResultType(Head(records).kind), item)]

(* A failed discovery has no item of this wire.                             *)
ResponsesEncodeDiscovery(s, item) ==
    LET records == s.results[item.id]
        popped == [s EXCEPT !.results = [@ EXCEPT ![item.id] = Tail(@)]]
    IN CASE records = <<>> -> s
         [] Head(records).kind = "none" -> popped
         [] item.error -> Fail(s, "internal")
         [] OTHER -> Emit(popped, InputItem(ResultType(Head(records).kind), IF item.tool.kind = "discovery" THEN "client" ELSE "server",
                                            "none", item.id, ResponsesFragments(item.parts, s.target)))

(* encodeConversation: the rest of the cases.                               *)
ResponsesEncodeItem(s, item) ==
    CASE s.error # "none" \/ RequestScoped(item) -> s
      [] item.kind = "message" -> Emit(s, InputItem("message", item.role, "none", "none", item.parts))
      [] item.kind = "tools" ->
           Emit(s, InputItem("additional_tools", "developer", "none", "none", ResponsesFragments(item.parts, s.target)))
      [] item.kind = "reasoning" ->
           IF item.parts = <<>> /\ item.tool.name # "responses" THEN s
           ELSE Emit(s, InputItem("reasoning", IF item.tool.name = "responses" THEN "encrypted" ELSE "none", "none", "none", item.parts))
      [] item.kind = "call" -> ResponsesEncodeCall(s, item)
      [] item.tool.kind = "search" -> ResponsesEncodeSearchResult(s, item)
      [] item.tool.kind = "content" -> ResponsesEncodeResult(s, item)
      [] OTHER -> ResponsesEncodeDiscovery(s, item)

(* Mutant: the last item the previous response stands for is sent again.    *)
AfterPreviousResponseInclusive(items, omitEnd) ==
    IF omitEnd = 0 THEN items ELSE Prelude(items) \o SubSeq(items, omitEnd, Len(items))

(* The items that remain when a previous response stands for those between  *)
(* the prelude and omitEnd; zero omits nothing.                             *)
AfterPreviousResponse(items, omitEnd) ==
    IF omitEnd = 0 THEN items ELSE Prelude(items) \o SubSeq(items, omitEnd + 1, Len(items))

(* CompileProviderRequestDocument: tools and queues are those of the whole  *)
(* history.                                                                 *)
EncodeResponses(request, target, omitEnd) ==
    LET items == request.items
        declarations == EffectiveTools(items)
        start == [target |-> target, out |-> <<>>, searches |-> {}, error |-> "none",
                  calls |-> CallQueues(items, declarations), results |-> ResultQueues(items, declarations)]
        s == FoldLeft(ResponsesEncodeItem, start, AfterPreviousResponse(items, omitEnd))
        directives == SelectSeq(Prelude(items), LAMBDA item : item.kind = "message")
    IN [error |-> IF ResponsesToolsRefused(declarations, target) THEN "not_implemented" ELSE s.error,
        input |-> s.out,
        instructions |-> [k \in 1 .. Len(directives) |-> directives[k].parts],
        tools |-> ResponsesFragments(EffectiveTools(Prelude(items)), target),
        choice |-> ResponsesToolChoice(EffectiveToolPolicy(request), declarations, target)]

-----------------------------------------------------------------------------
(* decodeResponsesInput of a client that is not Lite: item k of the input.  *)

GeneratedId(k) == "toolu_" \o ToString(k)
HostedId(k) == "hosted_" \o ToString(k)
Executor(mark) == IF mark = "client" THEN "discovery" ELSE "providerDiscovery"
Take(s, items) == [s EXCEPT !.items = @ \o items]

(* function_call and custom_tool_call                                       *)
DecodeResponsesCall(s, k, item) ==
    LET id == IF item.id = "none" THEN GeneratedId(k) ELSE item.id
    IN CASE item.name = "none" \/ (item.type = "custom_tool_call" /\ item.id = "none") -> Fail(s, "bad_request")
         [] item.type = "function_call" -> Take(s, <<ToolCallItem(Tool("function", item.name), id, item.parts)>>)
         [] OTHER -> Take(s, <<ToolCallItem(Tool("custom", item.name), id, item.parts)>>)

(* tool_search_call and tool_search_output: hosted ones may have no id, and *)
(* are then paired in order.                                                *)
DecodeToolSearchCall(s, k, item) ==
    LET hosted == item.id = "none"
        id == IF hosted THEN HostedId(k) ELSE item.id
        taken == Take(s, <<ToolCallItem(Tool(Executor(item.mark), "find"), id, item.parts)>>)
    IN CASE hosted /\ item.mark = "client" -> Fail(s, "bad_request")
         [] hosted -> [taken EXCEPT !.hosted = Append(@, id)]
         [] OTHER -> taken

DecodeToolSearchOutput(s, item) ==
    CASE item.id # "none" -> Take(s, <<DiscoveryResultItem(Executor(item.mark), item.id, item.parts, FALSE)>>)
      [] item.mark = "client" \/ s.hosted = <<>> -> Fail(s, "bad_request")
      [] OTHER -> [Take(s, <<DiscoveryResultItem(Executor(item.mark), Head(s.hosted), item.parts, FALSE)>>) EXCEPT !.hosted = Tail(@)]

(* web_search_call: a completed search is a call and a result.  Its queries *)
(* are its parts; a search without any was a marker of history.             *)
DecodeWebSearch(s, k, item) ==
    LET id == IF item.id = "none" THEN GeneratedId(k) ELSE item.id
        queries == item.parts \o IF item.id = "none" THEN <<>> ELSE <<Opaque("responses")>>
        call == ToolCallItem(Tool("search", "none"), id, queries)
    IN CASE item.parts = <<>> -> IF item.mark = "completed" THEN s ELSE Fail(s, "bad_request")
         [] item.mark = "completed" -> Take(s, <<call, WebSearchResultItem(id, <<>>)>>)
         [] OTHER -> Take(s, <<call>>)

(* Reasoning without parts and without encrypted content is absent.         *)
DecodeResponsesReasoning(item) ==
    CASE item.mark = "encrypted" -> <<ReasoningItem(item.parts, "responses")>>
      [] item.parts # <<>> -> <<ReasoningItem(item.parts, "none")>>
      [] OTHER -> <<>>

DecodeResponsesItem(s, k, item) ==
    CASE s.error # "none" -> s
      [] item.type = "message" ->
           CASE item.mark \notin {"none", "user"} /\ Image \in ToSet(item.parts) -> Fail(s, "bad_request")
             [] item.parts = <<>> -> s
             [] OTHER -> Take(s, <<MessageItem(IF item.mark = "none" THEN "user" ELSE item.mark, "history", item.parts)>>)
      [] item.type = "additional_tools" -> Take(s, <<ToolDeclarationsItem("history", item.parts)>>)
      [] item.type \in {"function_call", "custom_tool_call"} -> DecodeResponsesCall(s, k, item)
      [] item.type \in {"function_call_output", "custom_tool_call_output"} ->
           IF item.id = "none" THEN Fail(s, "bad_request") ELSE Take(s, <<ToolResultItem(item.id, item.parts, FALSE)>>)
      [] item.type = "tool_search_call" -> DecodeToolSearchCall(s, k, item)
      [] item.type = "tool_search_output" -> DecodeToolSearchOutput(s, item)
      [] item.type = "web_search_call" -> DecodeWebSearch(s, k, item)
      [] item.type = "reasoning" -> Take(s, DecodeResponsesReasoning(item))
      [] OTHER -> s

(* decodeClientRequestDTOWithChanges: instructions, tools, conversation.    *)
DecodeResponses(input, instructions, tools) ==
    LET step(s, k) == DecodeResponsesItem(s, k, input[k])
        s == FoldLeft(step, [items |-> <<>>, hosted |-> <<>>, error |-> "none"], [k \in 1 .. Len(input) |-> k])
        items == [k \in 1 .. Len(instructions) |-> MessageItem("system", "request", instructions[k])]
                   \o (IF tools = <<>> THEN <<>> ELSE <<ToolDeclarationsItem("request", tools)>>)
                   \o s.items
    IN [error |-> IF Ambiguous(items) \/ input = <<>> THEN "bad_request" ELSE s.error, items |-> items]

=============================================================================
