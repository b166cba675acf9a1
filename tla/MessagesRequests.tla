-------------------------- MODULE MessagesRequests --------------------------
(***************************************************************************)
(* Messages requests: a client's document decoded into canonical items, and *)
(* canonical items compiled into a provider's document.                     *)
(*                                                                         *)
(* A message holds a role and content blocks; a block a type, an id, a tool *)
(* name, parts and whether a result is an error.  The variant of a provider *)
(* discovery is "native" when its query kind is one of this wire.           *)
(***************************************************************************)
EXTENDS CanonicalRequest

Block(type, id, name, parts, error) == [type |-> type, id |-> id, name |-> name, parts |-> parts, error |-> error]
Body(role, blocks) == [role |-> role, blocks |-> blocks]
Queries(item) == SelectSeq(item.parts, LAMBDA part : part[1] # "opaque")

-----------------------------------------------------------------------------
(* removeEagerProviderDiscovery and compileMessagesTools over               *)
(* DefaultToolLowering: functions, client discoveries and native provider   *)
(* discoveries are sent; custom tools are omitted, and search has no        *)
(* fragment but keeps its history.                                          *)

EagerDiscovery(d) == d.tool.kind = "providerDiscovery" /\ d.variant # "native"
MessagesLowered(declarations) == SelectSeq(declarations, LAMBDA d : ~EagerDiscovery(d))
MessagesFragments(declarations) ==
    SelectSeq(MessagesLowered(declarations), LAMBDA d : d.tool.kind \notin {"custom", "search"})
MessagesToolsRefused(declarations) == \E d \in ToSet(declarations) : d.tool.kind = "search" /\ d.variant = "restricted"

(* messagesDeferredToolKeys: what a discovery loaded stays deferred, unless *)
(* a discovery that is not native makes every tool eager.  The first tool   *)
(* is not deferred when all would be.                                       *)
MessagesDeferred(items, declarations) ==
    LET loaded == {item \in ToSet(items) : item.kind = "result" /\ Declares(item)}
        keys == {d \in UNION {ToSet(item.parts) : item \in loaded} : d.tool.kind \in {"function", "search"}}
        fragments == MessagesFragments(declarations)
        deferred == IF \E d \in ToSet(declarations) : EagerDiscovery(d) THEN {} ELSE keys \cap ToSet(fragments)
    IN IF fragments # <<>> /\ deferred = ToSet(fragments) THEN deferred \ {fragments[1]} ELSE deferred

(* encodeMessagesToolChoice                                                 *)
MessagesToolChoice(policy, declarations) ==
    LET fragments == MessagesFragments(declarations)
    IN IF fragments = <<>> \/ (policy.mode = "specific" /\ ~Declared(policy.tool, fragments)) THEN NoPolicy
       ELSE policy

-----------------------------------------------------------------------------
(* projectMessagesWebSearchLifecycles: a search of one query stays.         *)

MessagesSearchHistory(items) ==
    WithoutEffects(items, {e \in ToolEffects(items) : e.tool.kind = "search" /\ Len(Queries(items[e.call])) # 1})

(* projectMessagesUnloweredToolHistory                                      *)
MessagesLoweredHistory(items, declarations) ==
    WithoutEffects(items, {e \in ToolEffects(items) : e.tool.kind # "search" /\ ~Declared(e.tool, MessagesFragments(declarations))})

(* lowerMessagesContextPrefix: directives and declarations are carried      *)
(* outside the conversation.                                                *)
MessagesConversation(items) == SelectSeq(items, LAMBDA item : Owner(item) # "none")

(* messagesResultProjectionQueues: the projection that was compiled for the *)
(* tool of each settled call of an id.  The declared discovery stands for   *)
(* calls of either executor.                                                *)
CompiledKind(tool, declarations) ==
    LET found == {d \in ToSet(MessagesFragments(declarations)) : Key(d.tool) = Key(tool)}
    IN IF found = {} THEN tool.kind ELSE (CHOOSE d \in found : TRUE).tool.kind
MessagesQueues(items, declarations) ==
    LET of(id) == SelectSeq(Matched(items).effects, LAMBDA e : e.id = id /\ e.result > 0)
    IN [id \in {e.id : e \in ToolEffects(items)} |->
          [k \in 1 .. Len(of(id)) |-> CompiledKind(of(id)[k].tool, declarations)]]

CallBlock(s, item) ==
    LET kind == CompiledKind(item.tool, s.tools)
    IN CASE kind = "search" -> Block("server_tool_use", item.id, "web_search", Queries(item), FALSE)
         [] kind = "providerDiscovery" -> Block("server_tool_use", item.id, "tool_search", item.parts, FALSE)
         [] OTHER -> Block("tool_use", item.id, item.tool.name, item.parts, FALSE)

ResultCarrier(kind) ==
    CASE kind = "search" -> "web_search_tool_result"
      [] kind = "providerDiscovery" -> "tool_search_tool_result"
      [] OTHER -> "tool_result"

References(item) == [k \in 1 .. Len(item.parts) |-> <<"reference", item.parts[k].tool.name>>]

(* encodeMessagesWebSearchResult: the sources, in the replay of this wire   *)
(* where they have one; the replay of another wire is not looked at.        *)
Sources(item) == SelectSeq(item.parts, LAMBDA part : part[1] # "opaque" \/ part = Opaque("messages"))

(* The result cases of appendMessagesItemBlocks: the carrier that was       *)
(* popped has to be one of the result's kind.                               *)
ResultBlock(item, carrier) ==
    LET content == CASE item.tool.kind = "content" -> item.parts
                     [] item.tool.kind = "search" -> Sources(item)
                     [] OTHER -> IF item.error THEN <<<<"failed">>>> ELSE References(item)
    IN Block(carrier, item.id, "none", content, item.error)
CarrierFits(item, carrier) ==
    CASE item.tool.kind = "content" -> carrier = "tool_result"
      [] item.tool.kind = "search" -> carrier = "web_search_tool_result"
      [] OTHER -> carrier \in {"tool_result", "tool_search_tool_result"}

PutBlocks(s, item, blocks) ==
    LET joins == s.owner = Owner(item) /\ s.open
    IN CASE blocks = <<>> -> [s EXCEPT !.owner = Owner(item), !.open = joins]
         [] joins -> [s EXCEPT !.out = Append(Front(@), [Last(@) EXCEPT !.blocks = @ \o blocks])]
         [] OTHER -> [s EXCEPT !.owner = Owner(item), !.open = TRUE, !.out = Append(@, Body(Owner(item), blocks))]

(* encodeItems and appendMessagesItemBlocks: adjacent items of one owner    *)
(* are one message, reasoning is sent when it is this wire's own.           *)
MessagesEncodeItem(s, item) ==
    LET queue == s.queues[item.id]
        carrier == IF queue = <<>> THEN "tool_result" ELSE ResultCarrier(Head(queue))
        popped == IF queue = <<>> THEN s ELSE [s EXCEPT !.queues = [@ EXCEPT ![item.id] = Tail(@)]]
        text(part) == Block(IF part = Image THEN "image" ELSE "text", "none", "none", <<part>>, FALSE)
    IN CASE s.error # "none" -> s
         [] item.kind = "message" -> PutBlocks(s, item, [k \in 1 .. Len(item.parts) |-> text(item.parts[k])])
         [] item.kind = "reasoning" ->
              PutBlocks(s, item, IF item.tool.name = "messages" THEN <<Block("thinking", "none", "none", item.parts, FALSE)>> ELSE <<>>)
         [] item.kind = "call" -> PutBlocks(s, item, <<CallBlock(s, item)>>)
         [] ~CarrierFits(item, carrier) -> [s EXCEPT !.error = "internal"]
         [] OTHER -> PutBlocks(popped, item, <<ResultBlock(item, carrier)>>)

(* CompileProviderRequestDocument                                           *)
EncodeMessages(request) ==
    LET declarations == EffectiveTools(request.items)
        searched == MessagesSearchHistory(request.items)
        items == MessagesLoweredHistory(searched, declarations)
        conversation == MessagesConversation(items)
        directives == SelectSeq(items, LAMBDA item : item.kind = "message" /\ Owner(item) = "none")
        start == [tools |-> declarations, queues |-> MessagesQueues(conversation, declarations), out |-> <<>>,
                  owner |-> "none", open |-> FALSE, error |-> "none"]
        s == FoldLeft(MessagesEncodeItem, start, conversation)
    IN [error |-> CASE MessagesToolsRefused(declarations) -> "not_implemented"
                    [] conversation = <<>> -> "bad_request"
                    [] OTHER -> s.error,
        messages |-> s.out,
        system |-> [k \in 1 .. Len(directives) |-> directives[k].parts],
        tools |-> MessagesFragments(declarations),
        deferred |-> MessagesDeferred(searched, declarations),
        choice |-> MessagesToolChoice(EffectiveToolPolicy(request), declarations)]

-----------------------------------------------------------------------------
(* decodeMessagesItems: block p of message m.  Texts and images wait and    *)
(* are flushed in front of every other block and at the end of the message. *)

MessagesGeneratedId(m, p) == "toolu_" \o ToString(m) \o "_" \o ToString(p)
Flush(s) == IF s.parts = <<>> THEN s ELSE [s EXCEPT !.items = Append(@, MessageItem(s.role, "history", s.parts)), !.parts = <<>>]
Admit(s, item) == [Flush(s) EXCEPT !.items = Append(@, item)]
Refuse(s) == [s EXCEPT !.error = "bad_request"]

(* server_tool_use: a discovery has to be declared, other server tools are  *)
(* omitted.                                                                 *)
DecodeServerToolUse(s, block) ==
    CASE block.name \notin {"tool_search", "web_search"} -> s
      [] s.role # "assistant" \/ block.id = "none" -> Refuse(s)
      [] block.name = "web_search" ->
           IF block.parts = <<>> THEN Refuse(s) ELSE Admit(s, ToolCallItem(Tool("search", "none"), block.id, block.parts))
      [] ~(\E d \in ToSet(s.tools) : d.tool.kind = "providerDiscovery") -> Refuse(s)
      [] OTHER -> Admit(s, ToolCallItem(Tool("providerDiscovery", "find"), block.id, block.parts))

(* decodeMessagesClientDiscoveryResult: references are resolved among the   *)
(* declarations of the request.                                             *)
DecodeSearchedTools(s, block) ==
    LET referenced == [k \in 1 .. Len(block.parts) |->
                         SelectSeq(s.tools, LAMBDA d : d.tool.kind \in {"function", "search"} /\ d.tool.name = block.parts[k][2])]
    IN CASE block.id = "none" -> Refuse(s)
         [] block.error -> Admit(s, DiscoveryResultItem("providerDiscovery", block.id, <<>>, TRUE))
         [] \E k \in DOMAIN referenced : referenced[k] = <<>> -> Refuse(s)
         [] OTHER -> Admit(s, DiscoveryResultItem("providerDiscovery", block.id, FlattenSeq(referenced), FALSE))

(* decodeToolResultContent: other parts are omitted, and one has to remain. *)
DecodeToolResult(s, block) ==
    LET kept == SelectSeq(block.parts, LAMBDA part : part = <<>> \/ part[1] # "reference")
    IN IF block.id = "none" \/ (block.parts # <<>> /\ kept = <<>>) THEN Refuse(s)
       ELSE Admit(s, ToolResultItem(block.id, kept, block.error))

DecodeBlock(s, m, p, block) ==
    CASE s.error # "none" -> s
      [] block.type = "text" -> IF block.parts = <<<<>>>> THEN Refuse(s) ELSE [s EXCEPT !.parts = @ \o block.parts]
      [] block.type = "image" -> IF s.role # "user" THEN Refuse(s) ELSE [s EXCEPT !.parts = @ \o block.parts]
      [] block.type = "tool_use" ->
           IF block.name = "none" THEN Refuse(s)
           ELSE Admit(s, ToolCallItem(Tool("function", block.name),
                                      IF block.id = "none" THEN MessagesGeneratedId(m, p) ELSE block.id, block.parts))
      [] block.type = "server_tool_use" -> DecodeServerToolUse(s, block)
      [] block.type = "tool_result" -> DecodeToolResult(s, block)
      [] block.type = "web_search_tool_result" ->
           IF block.id = "none" THEN Refuse(s) ELSE Admit(s, WebSearchResultItem(block.id, block.parts))
      [] block.type = "tool_search_tool_result" -> DecodeSearchedTools(s, block)
      [] block.type \in {"thinking", "redacted_thinking"} ->
           IF s.role # "assistant" THEN Refuse(s) ELSE Admit(s, ReasoningItem(block.parts, "messages"))
      [] OTHER -> s

(* AuthorForRole: an unknown role is the user's.                            *)
AuthorForRole(role) == IF role \in {"assistant", "system", "developer"} THEN role ELSE "user"

DecodeMessagesItems(s, m, body) ==
    LET step(t, p) == DecodeBlock(t, m, p, body.blocks[p])
        decoded == FoldLeft(step, [s EXCEPT !.role = AuthorForRole(body.role)], [p \in 1 .. Len(body.blocks) |-> p])
    IN CASE s.error # "none" -> s
         [] body.blocks = <<>> -> Refuse(s)
         [] OTHER -> Flush(decoded)

(* decodeClientRequestDTOWithChanges: the system text, the declarations and *)
(* the conversation.                                                        *)
DecodeMessages(messages, system, tools) ==
    LET step(s, m) == DecodeMessagesItems(s, m, messages[m])
        s == FoldLeft(step, [items |-> <<>>, parts |-> <<>>, role |-> "user", tools |-> tools, error |-> "none"],
                      [m \in 1 .. Len(messages) |-> m])
    IN [error |-> IF messages = <<>> THEN "bad_request" ELSE s.error,
        items |-> (IF system = <<>> THEN <<>> ELSE <<MessageItem("system", "request", <<FlattenSeq(system)>>)>>)
                    \o (IF tools = <<>> THEN <<>> ELSE <<ToolDeclarationsItem("request", tools)>>)
                    \o s.items]

=============================================================================
