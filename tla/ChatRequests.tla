--------------------------- MODULE ChatRequests ----------------------------
(***************************************************************************)
(* Chat Completions requests: a client's document decoded into canonical    *)
(* items, and canonical items compiled into a provider's document.          *)
(*                                                                         *)
(* A document is a record of messages, tools and tool choice, or the class  *)
(* of the error that refused it.  A message holds a role, content parts,    *)
(* the id a tool message answers and the tool calls of an assistant.        *)
(***************************************************************************)
EXTENDS CanonicalRequest

ChatCall(type, id, name, parts) == [type |-> type, id |-> id, name |-> name, parts |-> parts]
ChatMessage(role, id, parts, calls) == [role |-> role, id |-> id, parts |-> parts, calls |-> calls]

-----------------------------------------------------------------------------
(* DefaultToolLowering: functions and client discoveries are functions of   *)
(* the wire, custom tools their own kind.  Web search has no fragment, and  *)
(* an access mode it cannot keep refuses the request.                       *)

ChatType(tool) ==
    CASE tool.kind \in {"function", "discovery"} -> "function"
      [] tool.kind = "custom" -> "custom"
      [] OTHER -> "none"

(* compileChatCompletionsTools, after removeProviderDiscovery               *)
ChatLowered(declarations) == SelectSeq(declarations, LAMBDA d : d.tool.kind # "providerDiscovery")
ChatToolsRefused(declarations) == \E d \in ToSet(ChatLowered(declarations)) : d.tool.kind = "search" /\ d.variant = "restricted"
ChatFragments(declarations) == SelectSeq(ChatLowered(declarations), LAMBDA d : ChatType(d.tool) # "none")

(* encodeChatCompletionsToolChoice: nothing is said about no tools, nor     *)
(* about a specific tool that was not sent.                                 *)
ChatToolChoice(policy, declarations) ==
    LET fragments == ChatFragments(declarations)
    IN IF fragments = <<>> \/ (policy.mode = "specific" /\ ~Declared(policy.tool, fragments)) THEN NoPolicy
       ELSE policy

-----------------------------------------------------------------------------
(* projectChatCompletionsRequestWebSearchLifecycles: what the provider did  *)
(* itself is dropped, calls with their results.                             *)

ProviderOwned(e) == e.tool.kind \in {"search", "providerDiscovery"}
ChatHistory(items) == WithoutEffects(items, {e \in ToolEffects(items) : ProviderOwned(e)})

(* Declarations are carried by the tools of the document.                   *)
ChatConversation(items) == SelectSeq(ChatHistory(items), LAMBDA item : item.kind # "tools")

IsContentResult(item) == item.kind = "result" /\ item.tool.kind = "content"

(* encodeChatToolCall: the tool of a call in history has to be one of the   *)
(* tools that are sent.                                                     *)
ChatToolCall(s, call) ==
    IF Declared(call.tool, ChatFragments(s.tools))
    THEN ChatCall(ChatType(call.tool), call.id, call.tool.name, call.parts)
    ELSE ChatCall("lost", call.id, call.tool.name, call.parts)

(* A call joins the assistant message or the call right before it, and      *)
(* otherwise opens a message and a batch of its own: the batch before it    *)
(* has to be closed.                                                        *)
ChatEncodeCall(s, k, item) ==
    LET call == ChatToolCall(s, item)
        joins == k > 1 /\ s.items[k - 1].role = "assistant" /\ s.items[k - 1].kind \in {"message", "call"}
        first == ~joins \/ s.items[k - 1].kind # "call"
        last == s.out[Len(s.out)]
    IN IF call.type = "lost" \/ (first /\ s.batch # {}) THEN [s EXCEPT !.error = "internal"]
       ELSE [s EXCEPT !.batch = @ \cup {item.id},
                      !.out = IF joins THEN Append(Front(@), [last EXCEPT !.calls = Append(@, call)])
                              ELSE Append(@, ChatMessage("assistant", "none", <<>>, <<call>>))]

(* encodeChatToolResultContent: one text, with a marker for every image.    *)
ChatResultText(parts) ==
    FlattenSeq([k \in 1 .. Len(parts) |-> IF parts[k] = Image THEN <<"ref">> ELSE parts[k]])
Images(parts) == SelectSeq(parts, LAMBDA part : part = Image)
Rehomed(images) == FlattenSeq([k \in 1 .. Len(images) |-> <<<<"marker">>, images[k]>>])

(* encodeChatToolResultRun: tool messages first, and the images of the run  *)
(* in one user message after them, which must not split an open batch.      *)
ChatEncodeResult(s, k, item) ==
    LET message == ChatMessage("tool", item.id, <<ChatResultText(item.parts)>>, <<>>)
        matches == s.matches /\ item.id \in s.batch
        images == s.images \o Images(item.parts)
        open == s.batch \ {item.id}
        ends == k = Len(s.items) \/ ~IsContentResult(s.items[k + 1])
        next == [s EXCEPT !.batch = open, !.out = Append(@, message)]
    IN IF ~ends THEN [next EXCEPT !.images = images, !.matches = matches]
       ELSE IF images = <<>> THEN [next EXCEPT !.matches = TRUE]
       ELSE IF ~matches \/ open # {} THEN [s EXCEPT !.error = "internal"]
       ELSE [next EXCEPT !.images = <<>>, !.matches = TRUE, !.out = Append(@, ChatMessage("user", "none", Rehomed(images), <<>>))]

(* encodeChatDiscoveryResult                                                *)
ChatDiscoveryText(item) == IF item.error THEN <<"failed">> ELSE <<"loaded">> \o [k \in 1 .. Len(item.parts) |-> item.parts[k].tool.name]
ChatEncodeDiscovery(s, item) ==
    IF item.id \notin s.batch THEN [s EXCEPT !.error = "internal"]
    ELSE [s EXCEPT !.batch = @ \ {item.id}, !.out = Append(@, ChatMessage("tool", item.id, <<ChatDiscoveryText(item)>>, <<>>))]

(* encodeItems: reasoning is not sent.                                      *)
ChatEncodeItem(s, k) ==
    LET item == s.items[k] IN
    CASE s.error # "none" \/ item.kind = "reasoning" -> s
      [] item.kind = "message" -> [s EXCEPT !.out = Append(@, ChatMessage(item.role, "none", item.parts, <<>>))]
      [] item.kind = "call" -> ChatEncodeCall(s, k, item)
      [] IsContentResult(item) -> ChatEncodeResult(s, k, item)
      [] OTHER -> ChatEncodeDiscovery(s, item)

EncodeChatItems(items, declarations) ==
    FoldLeft(ChatEncodeItem,
             [items |-> items, tools |-> declarations, out |-> <<>>, batch |-> {}, images |-> <<>>, matches |-> TRUE, error |-> "none"],
             [k \in 1 .. Len(items) |-> k])

(* CompileProviderRequestDocument: the tools are those of the whole history,*)
(* what a dropped discovery loaded included.                                *)
EncodeChat(request) ==
    LET declarations == EffectiveTools(request.items)
        s == EncodeChatItems(ChatConversation(request.items), declarations)
    IN [error |-> IF ChatToolsRefused(declarations) THEN "not_implemented" ELSE s.error,
        messages |-> s.out,
        tools |-> ChatFragments(declarations),
        choice |-> ChatToolChoice(EffectiveToolPolicy(request), declarations)]

-----------------------------------------------------------------------------
(* DecodeTextContentItems: no content is no item.  A text that is empty is  *)
(* no content.                                                              *)

ContentItem(role, parts) == IF parts \in {<<>>, <<<<>>>>} THEN <<>> ELSE <<MessageItem(role, "history", parts)>>

(* GeneratedToolUseID                                                       *)
GeneratedToolUseID(m, p) == "toolu_" \o ToString(m) \o "_" \o ToString(p)

(* Mutant: calls of custom tools are left out.                              *)
DecodeChatCallFunction(s, m, p, call) ==
    LET id == IF call.id = "none" THEN GeneratedToolUseID(m, p) ELSE call.id
    IN CASE s.error # "none" \/ call.type # "function" -> s
         [] call.name = "none" -> [s EXCEPT !.error = "bad_request"]
         [] OTHER -> [s EXCEPT !.items = Append(@, ToolCallItem(Tool(call.type, call.name), id, call.parts))]

(* A call of another type is left out, one without an id gets one, and one  *)
(* without a name is refused.                                               *)
DecodeChatCall(s, m, p, call) ==
    LET id == IF call.id = "none" THEN GeneratedToolUseID(m, p) ELSE call.id
    IN CASE s.error # "none" \/ call.type \notin {"function", "custom"} -> s
         [] call.name = "none" -> [s EXCEPT !.error = "bad_request"]
         [] OTHER -> [s EXCEPT !.items = Append(@, ToolCallItem(Tool(call.type, call.name), id, call.parts))]

(* decodeChatConversation and decodeChatCompletionsItems: instructions in   *)
(* front of the conversation are request-scoped, with their texts joined.   *)
(* A tool message has an id and text only.                                  *)
DecodeChatMessage(s, m, message) ==
    LET calls(t, p) == DecodeChatCall(t, m, p, message.calls[p])
        directive == message.role \in {"system", "developer"}
        kept == SelectSeq(message.parts, LAMBDA part : part # <<>>)
    IN CASE s.error # "none" -> s
         [] s.leading /\ directive ->
              [s EXCEPT !.instructions = Append(@, MessageItem(message.role, "request", <<FlattenSeq(message.parts)>>))]
         [] message.role = "tool" ->
              IF message.id = "none" \/ Images(kept) # <<>> THEN [s EXCEPT !.error = "bad_request"]
              ELSE [s EXCEPT !.leading = FALSE, !.items = Append(@, ToolResultItem(message.id, kept, FALSE))]
         [] message.role # "user" /\ Images(message.parts) # <<>> -> [s EXCEPT !.error = "bad_request"]
         [] OTHER -> FoldLeft(calls, [s EXCEPT !.leading = FALSE, !.items = @ \o ContentItem(message.role, message.parts)],
                              [p \in 1 .. Len(message.calls) |-> p])

(* decodeClientRequestDTOWithChanges: instructions, then the declarations,  *)
(* then the conversation.  Tools of other types are left out.               *)
DecodeChat(messages, tools) ==
    LET step(s, m) == DecodeChatMessage(s, m, messages[m])
        s == FoldLeft(step, [instructions |-> <<>>, items |-> <<>>, leading |-> TRUE, error |-> "none"], [m \in 1 .. Len(messages) |-> m])
        declared == SelectSeq(tools, LAMBDA d : d.tool.kind \in {"function", "custom"})
    IN [error |-> IF messages = <<>> THEN "bad_request" ELSE s.error,
        items |-> s.instructions
                    \o (IF declared = <<>> THEN <<>> ELSE <<ToolDeclarationsItem("request", declared)>>)
                    \o s.items]

=============================================================================
