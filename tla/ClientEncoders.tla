--------------------------- MODULE ClientEncoders ---------------------------
(***************************************************************************)
(* What a client of each protocol receives: from a canonical stream, event  *)
(* by event, or from the whole response as one document.                    *)
(*                                                                         *)
(* A stream encoder is a record.  It keeps what the client has assembled    *)
(* from the frames written so far, not the frames, and beside it the items  *)
(* of which the exchange keeps a fingerprint.  A fingerprint is the         *)
(* normalised value that is hashed: two are equal when the values are.      *)
(* Wire ids, citations, images and usage are left out.                      *)
(*                                                                         *)
(* "disclosure" is the request's reasoning disclosure: "unset", "none" or   *)
(* "summary".                                                               *)
(***************************************************************************)
EXTENDS CanonicalStream, SequencesExt

Wire(type, id, parts) == [type |-> type, id |-> id, parts |-> parts]

SearchQuery == <<"q">>
Status(value) == << <<value>> >>

Sorted(set) == SetToSortSeq(set, LAMBDA i, j : i < j)
Extend(f, k, value) == [j \in DOMAIN f \cup {k} |-> IF j = k THEN value ELSE f[j]]
Summaries(item, disclosure) ==
    SelectSeq(item.parts, LAMBDA part : part[1] # "opaque" /\ (part[1] = "thought" => disclosure = "summary"))
HasOpaque(item, dialect) == \E k \in DOMAIN item.parts : item.parts[k] = Opaque(dialect)

(* The outcome of a delivery: an error, or what the client holds, how the   *)
(* response ended for it, and the fingerprint the exchange keeps.           *)
Delivered(view, finish, print) == [fail |-> FALSE, view |-> view, finish |-> finish, print |-> print]
Undelivered == [fail |-> TRUE, view |-> <<>>, finish |-> "none", print |-> <<>>]

-----------------------------------------------------------------------------
(* Responses.                                                               *)

(* responsesResponseHistoryState.appendItem, on [items, fail].  A search is *)
(* its status alone: its id and action are not part of the fingerprint.     *)
ReasoningView(item, disclosure) ==
    (IF disclosure = "none" THEN <<>> ELSE Summaries(item, disclosure))
    \o (IF HasOpaque(item, "responses") THEN <<Opaque("responses")>> ELSE <<>>)

ResponsesItem(item, disclosure) ==
    CASE item.kind = "message" -> Wire("message", NoId, item.parts)
      [] item.kind = "reasoning" -> Wire("reasoning", NoId, ReasoningView(item, disclosure))
      [] item.kind = "result" -> Wire("tool_search_output", item.id, <<>>)
      [] item.kind = "call" ->
            CASE item.tool = "function" -> Wire("function_call", item.id, item.parts)
              [] item.tool = "custom" -> Wire("custom_tool_call", item.id, item.parts)
              [] item.tool = "search" -> Wire("web_search_call", item.id, Status("open"))
              [] OTHER -> Wire("tool_search_call", item.id, item.parts)

AppendResponses(h, item, disclosure) ==
    LET calls == {k \in DOMAIN h.items : h.items[k].type = "web_search_call" /\ h.items[k].id = item.id} IN
    CASE item.kind = "result" /\ item.tool = "search" ->
            IF calls = {} THEN [h EXCEPT !.fail = TRUE] ELSE [h EXCEPT !.items[Max(calls)].parts = Status("completed")]
      [] item.kind = "reasoning" /\ ReasoningView(item, disclosure) = <<>> -> h
      [] OTHER -> [h EXCEPT !.items = Append(@, ResponsesItem(item, disclosure))]

ResponsesStatus(class) == IF class = "completed" THEN "completed" ELSE "incomplete"

(* A search still open takes the status of the response.                    *)
NormalizeResponses(items, class) ==
    [k \in DOMAIN items |->
        IF items[k].type # "web_search_call" THEN items[k]
        ELSE Wire("web_search_call", NoId, IF items[k].parts = Status("open") THEN Status(ResponsesStatus(class)) ELSE items[k].parts)]

NewResponsesClient == [open |-> FALSE, ord |-> 0, parts |-> <<>>, tools |-> <<>>, output |-> <<>>,
                       items |-> <<>>, class |-> "none", finish |-> "none", fail |-> FALSE]

(* flushOpenTextItem *)
FlushText(r) ==
    IF ~r.open THEN r
    ELSE LET order == Sorted(DOMAIN r.parts) IN
         [r EXCEPT !.open = FALSE, !.parts = <<>>,
                   !.output = Append(@, Wire("message", NoId, [k \in DOMAIN order |-> r.parts[order[k]]]))]

(* ensureTextItem: one text item is open at a time.                         *)
EnsureText(r, n) ==
    IF r.open /\ r.ord = n THEN r ELSE [FlushText(r) EXCEPT !.open = TRUE, !.ord = n]

OpenPart(r, p) == IF p \in DOMAIN r.parts THEN r ELSE [r EXCEPT !.parts = Extend(@, p, <<>>)]

(* closeToolItem and closeWebSearchItem: a discovery call is written as a   *)
(* function call.                                                           *)
CloseTool(r, n) ==
    LET tool == r.tools[n]
        type == CASE tool.tool = "search" -> "web_search_call" [] tool.tool = "custom" -> "custom_tool_call" [] OTHER -> "function_call"
    IN IF tool.tool = "search" /\ ~tool.action THEN [r EXCEPT !.fail = TRUE]
       ELSE [r EXCEPT !.tools = Restrict(@, DOMAIN @ \ {n}),
                      !.output = Append(@, Wire(type, tool.id, IF tool.tool = "search" THEN Status("completed") ELSE <<tool.args>>))]

FlushOpenItems(r) == FoldLeft(CloseTool, FlushText(r), Sorted(DOMAIN r.tools))

(* completeWebSearchResult *)
CompleteSearchResult(r, id) ==
    LET calls == {n \in DOMAIN r.tools : r.tools[n].tool = "search" /\ r.tools[n].id = id} IN
    IF calls = {} THEN [r EXCEPT !.fail = TRUE] ELSE CloseTool(r, Min(calls))

(* encodeItemCompleted *)
CompleteResponsesItem(r, n, item, disclosure) ==
    CASE item.kind = "message" -> IF r.open /\ r.ord = n THEN FlushText(r) ELSE r
      [] item.kind = "call" /\ item.tool = "search" -> [r EXCEPT !.tools[n].action = TRUE]
      [] item.kind = "call" /\ item.tool # "search" -> CloseTool(r, n)
      [] item.kind = "result" -> IF item.tool = "search" THEN CompleteSearchResult(r, item.id) ELSE r
      [] item.kind = "reasoning" ->
            IF ReasoningView(item, disclosure) = <<>> THEN r
            ELSE [r EXCEPT !.output = Append(@, ResponsesItem(item, disclosure))]

(* A completion without output items fails when it gives no reason either.  *)
EndResponses(r) ==
    [r EXCEPT !.finish = IF r.output = <<>> /\ r.class = "none" THEN "failed" ELSE ResponsesStatus(r.class)]

(* Encode, behind the adapter that turns canonical events into its own.     *)
EncodeResponses(r, e, disclosure) ==
    CASE r.fail \/ r.finish # "none" -> r
      [] e.kind = "itemStart" ->
            IF e.item.kind = "message" THEN EnsureText(r, e.ord)
            ELSE [r EXCEPT !.tools = Extend(@, e.ord, [tool |-> e.item.tool, id |-> e.item.id, args |-> <<>>, action |-> FALSE])]
      [] e.kind = "contentStart" -> OpenPart(EnsureText(r, e.ord), e.part)
      [] e.kind = "text" -> [OpenPart(EnsureText(r, e.ord), e.part) EXCEPT !.parts[e.part] = @ \o e.text]
      [] e.kind = "args" ->
            IF r.tools[e.ord].tool = "search" THEN [r EXCEPT !.fail = TRUE]
            ELSE [r EXCEPT !.tools[e.ord].args = @ \o e.text]
      [] e.kind = "itemCompleted" ->
            [CompleteResponsesItem(r, e.ord, e.item, disclosure) EXCEPT !.items = Append(@, e.item)]
      [] e.kind = "finish" -> [r EXCEPT !.class = e.class]
      [] e.kind = "error" -> [r EXCEPT !.finish = "failed"]
      [] e.kind = "end" -> EndResponses(FlushOpenItems(r))
      [] OTHER -> r

ResponsesHistory(items, disclosure) ==
    FoldLeft(LAMBDA h, item : IF h.fail THEN h ELSE AppendResponses(h, item, disclosure), [items |-> <<>>, fail |-> FALSE], items)

(* responsesFingerprintingEncoder: the fingerprint is of the items in the   *)
(* order in which they completed.                                           *)
StreamToResponses(log, disclosure) ==
    LET deliver(r, h) ==
          IF r.fail \/ h.fail \/ r.finish = "failed" THEN Undelivered
          ELSE Delivered(NormalizeResponses(r.output, r.class), r.finish, NormalizeResponses(h.items, r.class))
        settle(r) == deliver(r, ResponsesHistory(r.items, disclosure))
    IN settle(FoldLeft(LAMBDA s, e : EncodeResponses(s, e, disclosure), NewResponsesClient, log))

(* encodeResponsesOutput *)
DocumentToResponses(items, class, disclosure) ==
    LET shown(view) == Delivered(view, ResponsesStatus(class), view)
        settle(h) == IF h.fail THEN Undelivered ELSE shown(NormalizeResponses(h.items, class))
    IN settle(ResponsesHistory(items, disclosure))

-----------------------------------------------------------------------------
(* Messages.                                                                *)

(* projectMessagesWebSearchLifecycles: a search the protocol cannot express *)
(* is dropped with its result.  Only search effects are matched here.       *)
Searches(items) == SelectSeq(items, LAMBDA item : item.tool = "search")
DroppedSearches(items) ==
    LET unexpressed == {k \in DOMAIN items : items[k].tool = "search" /\ items[k].kind = "call" /\ items[k].parts # <<SearchQuery>>}
        callOf(k) == {j \in 1 .. k : items[j].tool = "search" /\ items[j].kind = "call" /\ items[j].id = items[k].id}
    IN {k \in DOMAIN items : items[k].tool = "search" /\ callOf(k) # {} /\ Max(callOf(k)) \in unexpressed}
Without(items, dropped) == LET kept == Sorted(DOMAIN items \ dropped) IN [k \in DOMAIN kept |-> items[kept[k]]]

(* messagesResponseHistoryState.appendItem *)
Thinking(item, disclosure) ==
    CASE ~HasOpaque(item, "messages") -> <<>>
      [] HasOpaque(item, "messages") /\ Len(item.parts) = 1 -> <<Wire("redacted_thinking", NoId, <<>>)>>
      [] OTHER -> <<Wire("thinking", NoId, IF disclosure = "none" THEN <<>> ELSE <<item.parts[1]>>)>>

MessagesBlocks(item, disclosure) ==
    CASE item.kind = "message" -> [k \in DOMAIN item.parts |-> Wire("text", NoId, <<item.parts[k]>>)]
      [] item.kind = "call" -> <<Wire(IF item.tool = "search" THEN "server_tool_use" ELSE "tool_use", item.id, item.parts)>>
      [] item.kind = "result" -> <<Wire("web_search_tool_result", item.id, <<>>)>>
      [] item.kind = "reasoning" -> Thinking(item, disclosure)

(* The assistant content of items: an error when an item has no block.      *)
MessagesContent(items, disclosure) ==
    LET kept == Without(items, DroppedSearches(items))
        expressible(item) == item.kind \in {"call", "result"} => item.tool \in {"function", "search"}
    IN [fail |-> ~EffectsOf(Searches(items), <<>>).valid \/ \E k \in DOMAIN kept : ~expressible(kept[k]),
        blocks |-> FlattenSeq([k \in DOMAIN kept |-> MessagesBlocks(kept[k], disclosure)])]

(* messagesStopReasonForCompletion; "failed" is an error.                   *)
StopReason(class, toolUse) ==
    CASE class = "completed" -> IF toolUse THEN "tool_use" ELSE "end_turn"
      [] class = "incomplete" -> "max_tokens"
      [] class = "declined" -> "refusal"
      [] OTHER -> "failed"

(* messagesEnvelopeStreamEncoder: the blocks in start order, and the index  *)
(* of each open one under its item and part (a tool call is part 0).        *)
NewMessagesClient == [blocks |-> <<>>, open |-> <<>>, unresolved |-> {}, toolUse |-> FALSE,
                      items |-> <<>>, class |-> "none", finish |-> "none", fail |-> FALSE]

StartBlock(m, key, block) ==
    IF key \in DOMAIN m.open THEN m
    ELSE [m EXCEPT !.blocks = Append(@, block), !.open = Extend(@, key, Len(m.blocks) + 1)]

AddDelta(m, key, text) == [m EXCEPT !.blocks[m.open[key]].parts[1] = @ \o text]

(* stopCompletedItem *)
StopItem(m, n) == [m EXCEPT !.open = Restrict(@, {key \in DOMAIN @ : key[1] # n})]

(* Mutant: the result of a search that was not written is written.          *)
CompleteMessagesItemAlways(m, n, item, disclosure) ==
    CASE item.kind = "reasoning" -> [m EXCEPT !.blocks = @ \o Thinking(item, disclosure)]
      [] item.kind = "call" /\ item.tool = "search" /\ item.parts # <<SearchQuery>> -> m
      [] item.tool = "search" /\ (item.kind = "result" \/ item.parts = <<SearchQuery>>) ->
            [m EXCEPT !.blocks = @ \o MessagesBlocks(item, disclosure), !.toolUse = TRUE]
      [] OTHER -> StopItem(m, n)

(* completeWebSearchCall and encodeCompletedWebSearchResult *)
CompleteMessagesItem(m, n, item, disclosure) ==
    CASE item.kind = "reasoning" -> [m EXCEPT !.blocks = @ \o Thinking(item, disclosure)]
      [] item.kind = "call" /\ item.tool = "search" ->
            IF item.parts = <<SearchQuery>>
            THEN [m EXCEPT !.blocks = @ \o MessagesBlocks(item, disclosure), !.toolUse = TRUE]
            ELSE [m EXCEPT !.unresolved = @ \cup {item.id}]
      [] item.kind = "result" /\ item.tool = "search" ->
            IF item.id \in m.unresolved THEN [m EXCEPT !.unresolved = @ \ {item.id}]
            ELSE [m EXCEPT !.blocks = @ \o MessagesBlocks(item, disclosure)]
      [] OTHER -> StopItem(m, n)

EncodeMessages(m, e, disclosure) ==
    CASE m.fail \/ m.finish # "none" -> m
      [] e.kind = "itemStart" /\ e.item.kind = "call" /\ e.item.tool # "search" ->
            [StartBlock(m, <<e.ord, 0>>, Wire("tool_use", e.item.id, << <<>> >>)) EXCEPT !.toolUse = TRUE]
      [] e.kind = "contentStart" -> StartBlock(m, <<e.ord, e.part + 1>>, Wire("text", NoId, << <<>> >>))
      [] e.kind = "text" -> AddDelta(m, <<e.ord, e.part + 1>>, e.text)
      [] e.kind = "args" -> AddDelta(m, <<e.ord, 0>>, e.text)
      [] e.kind = "itemCompleted" -> [CompleteMessagesItem(m, e.ord, e.item, disclosure) EXCEPT !.items = Append(@, e.item)]
      [] e.kind = "finish" -> [m EXCEPT !.class = e.class]
      [] e.kind = "error" -> [m EXCEPT !.finish = "failed"]
      [] e.kind = "end" -> [m EXCEPT !.open = <<>>, !.finish = StopReason(m.class, m.toolUse)]
      [] OTHER -> m

(* messagesFingerprintingEncoder *)
StreamToMessages(log, disclosure) ==
    LET deliver(m, content) ==
          IF m.fail \/ m.finish = "failed" \/ content.fail THEN Undelivered
          ELSE Delivered(m.blocks, m.finish, content.blocks)
        settle(m) == deliver(m, MessagesContent(m.items, disclosure))
    IN settle(FoldLeft(LAMBDA s, e : EncodeMessages(s, e, disclosure), NewMessagesClient, log))

(* Mutant: only calls the client executes stop a document for tool use.     *)
DocumentToMessagesOwnCalls(items, class, disclosure) ==
    LET deliver(content, finish) ==
          IF content.fail \/ finish = "failed" THEN Undelivered ELSE Delivered(content.blocks, finish, content.blocks)
        settle(content) == deliver(content, StopReason(class, \E k \in DOMAIN content.blocks : content.blocks[k].type = "tool_use"))
    IN settle(MessagesContent(items, disclosure))

(* messagesResponseContent and EncodeResponseDocument *)
DocumentToMessages(items, class, disclosure) ==
    LET deliver(content, finish) ==
          IF content.fail \/ finish = "failed" THEN Undelivered ELSE Delivered(content.blocks, finish, content.blocks)
    IN deliver(MessagesContent(items, disclosure), StopReason(class, \E k \in DOMAIN items : items[k].kind = "call"))

-----------------------------------------------------------------------------
(* Chat Completions.                                                        *)

(* projectChatCompletionsWebSearchLifecycles: every search is dropped, and  *)
(* one without a result is an error; then chatMessageFromItems.             *)
ChatMessage(items) ==
    LET searches == Searches(items)
        kept == SelectSeq(items, LAMBDA item : item.tool # "search")
        calls == SelectSeq(kept, LAMBDA item : item.kind = "call")
        texts == SelectSeq(kept, LAMBDA item : item.kind = "message")
        effects == EffectsOf(items, <<>>)
    IN [fail |-> \/ ~effects.valid \/ "search" \in Range(effects.pending)
                 \/ searches # <<>> /\ kept = <<>>
                 \/ \E k \in DOMAIN kept : kept[k].kind = "result" \/ kept[k].tool \in {"discovery", "providerDiscovery"},
        view |-> [text |-> FlattenSeq([k \in DOMAIN texts |-> FlattenSeq(texts[k].parts)]),
                  calls |-> [k \in DOMAIN calls |-> Wire(calls[k].tool, calls[k].id, calls[k].parts)]]]

Visible(message) == message.text # <<>> \/ message.calls # <<>>

(* chatClientFinishReason and finalizeChatClientProjection: a response that *)
(* shows nothing is an error unless it was filtered.                        *)
FinishReason(class, message) ==
    CASE class = "declined" -> "content_filter"
      [] class # "declined" /\ ~Visible(message) -> "failed"
      [] class = "incomplete" /\ Visible(message) -> "length"
      [] class = "completed" /\ Visible(message) -> IF message.calls # <<>> THEN "tool_calls" ELSE "stop"
      [] OTHER -> "failed"

NewChatClient == [message |-> [text |-> <<>>, calls |-> <<>>], tools |-> <<>>, searches |-> {},
                  items |-> <<>>, class |-> "none", finish |-> "none", fail |-> FALSE]

(* chatCompletionsEnvelopeStreamEncoder.Encode: a call takes the next index *)
(* when it starts.                                                          *)
EncodeChat(c, e) ==
    CASE c.fail \/ c.finish # "none" -> c
      [] e.kind = "itemStart" /\ e.item.kind = "call" ->
            CASE e.item.tool = "search" -> [c EXCEPT !.searches = @ \cup {e.item.id}]
              [] e.item.tool \in {"function", "custom"} ->
                    [c EXCEPT !.message.calls = Append(@, Wire(e.item.tool, e.item.id, << <<>> >>)),
                              !.tools = Extend(@, e.ord, Len(c.message.calls) + 1)]
              [] OTHER -> [c EXCEPT !.fail = TRUE]
      [] e.kind = "text" -> [c EXCEPT !.message.text = @ \o e.text]
      [] e.kind = "args" -> [c EXCEPT !.message.calls[c.tools[e.ord]].parts[1] = @ \o e.text]
      [] e.kind = "itemCompleted" ->
            LET orphan == e.item.kind = "result" /\ e.item.tool = "search" /\ e.item.id \notin c.searches IN
            [c EXCEPT !.items = Append(@, e.item), !.fail = orphan,
                      !.searches = IF e.item.kind = "result" THEN @ \ {e.item.id} ELSE @]
      [] e.kind = "finish" -> [c EXCEPT !.class = e.class]
      [] e.kind = "error" -> [c EXCEPT !.finish = "failed"]
      [] e.kind = "end" -> [c EXCEPT !.fail = c.searches # {}, !.finish = FinishReason(c.class, c.message)]
      [] OTHER -> c

(* chatCompletionsFingerprintingEncoder *)
StreamToChat(log) ==
    LET deliver(c, kept) == IF c.fail \/ c.finish = "failed" \/ kept.fail THEN Undelivered ELSE Delivered(c.message, c.finish, kept.view)
        settle(c) == deliver(c, ChatMessage(c.items))
    IN settle(FoldLeft(EncodeChat, NewChatClient, log))

DocumentToChat(items, class) ==
    LET deliver(message, finish) == IF message.fail \/ finish = "failed" THEN Undelivered ELSE Delivered(message.view, finish, message.view)
        settle(message) == deliver(message, FinishReason(class, message.view))
    IN settle(ChatMessage(items))

-----------------------------------------------------------------------------
(* GenerateContent.                                                         *)

(* projectResponseHistory: the parts of items, on [parts, afterMessage,     *)
(* fail].  Two messages with nothing shown between them are an error.       *)
AppendContent(h, item, disclosure) ==
    LET summaries == Summaries(item, disclosure)
        bad == [h EXCEPT !.fail = TRUE]
    IN CASE item.kind = "message" ->
               IF h.afterMessage THEN bad
               ELSE [h EXCEPT !.afterMessage = TRUE,
                              !.parts = @ \o [k \in DOMAIN item.parts |-> Wire("text", NoId, <<item.parts[k]>>)]]
         [] item.kind \in {"call", "result"} /\ item.tool = "search" -> h
         [] item.kind = "call" /\ item.tool = "function" ->
               [h EXCEPT !.afterMessage = FALSE, !.parts = Append(@, Wire("functionCall", item.id, item.parts))]
         [] item.kind = "reasoning" ->
               IF disclosure # "summary" \/ summaries = <<>> THEN h
               ELSE IF Len(summaries) > 1 THEN bad
               ELSE [h EXCEPT !.afterMessage = FALSE, !.parts = Append(@, Wire("thought", NoId, summaries))]
         [] OTHER -> bad

Content(items, disclosure) ==
    FoldLeft(LAMBDA h, item : IF h.fail THEN h ELSE AppendContent(h, item, disclosure),
             [parts |-> <<>>, afterMessage |-> FALSE, fail |-> FALSE], items)

(* finishReason; "failed" is an error.                                      *)
ContentFinish(class) ==
    CASE class = "completed" -> "STOP" [] class = "incomplete" -> "MAX_TOKENS" [] class = "declined" -> "SAFETY" [] OTHER -> "failed"

NewContentClient == [next |-> 0, frames |-> <<>>, pending |-> <<>>, items |-> <<>>, parts |-> <<>>,
                     class |-> "none", finish |-> "none", fail |-> FALSE]

(* A client joins text that arrives in consecutive frames.                  *)
AddParts(parts, added) ==
    FoldLeft(LAMBDA acc, part :
                IF part.type = "text" /\ acc # <<>> /\ acc[Len(acc)].type = "text"
                THEN [acc EXCEPT ![Len(acc)].parts[1] = @ \o part.parts[1]] ELSE Append(acc, part),
             parts, added)

(* drainReady and emitCompletedItem: text frames and completed items leave  *)
(* in ordinal order.                                                        *)
RECURSIVE DrainReady(_, _)
DrainReady(g, disclosure) ==
    LET n == g.next
        queued == n \in DOMAIN g.frames
        texted == IF ~queued THEN g
                  ELSE [g EXCEPT !.parts = AddParts(@, g.frames[n]), !.frames = Restrict(@, DOMAIN @ \ {n})]
        item == g.pending[n]
        emitted == Content(IF item.kind = "message" THEN <<>> ELSE <<item>>, disclosure)
    IN IF queued /\ g.items # <<>> /\ Last(g.items).kind = "message" THEN [g EXCEPT !.fail = TRUE]
       ELSE IF n \notin DOMAIN g.pending THEN texted
       ELSE IF emitted.fail THEN [g EXCEPT !.fail = TRUE]
       ELSE DrainReady([texted EXCEPT !.pending = Restrict(@, DOMAIN @ \ {n}), !.items = Append(@, item),
                                      !.parts = AddParts(@, emitted.parts), !.next = n + 1], disclosure)

(* generateContentStreamEncoder.encode *)
EncodeContent(g, e, disclosure) ==
    LET frame == Wire("text", NoId, <<e.text>>)
        bad == [g EXCEPT !.fail = TRUE]
    IN CASE g.fail \/ g.finish # "none" -> g
         [] e.kind = "text" ->
               IF e.ord < g.next THEN bad
               ELSE DrainReady([g EXCEPT !.frames = Extend(@, e.ord, IF e.ord \in DOMAIN @ THEN Append(@[e.ord], frame) ELSE <<frame>>)],
                               disclosure)
         [] e.kind = "itemCompleted" ->
               IF e.ord < g.next \/ e.ord \in DOMAIN g.pending THEN bad
               ELSE DrainReady([g EXCEPT !.pending = Extend(@, e.ord, e.item)], disclosure)
         [] e.kind = "finish" -> [g EXCEPT !.class = e.class]
         [] e.kind = "error" -> bad
         [] e.kind = "end" -> IF g.pending # <<>> \/ g.frames # <<>> THEN bad ELSE [g EXCEPT !.finish = ContentFinish(g.class)]
         [] OTHER -> g

StreamToContent(log, disclosure) ==
    LET deliver(g, content) == IF g.fail \/ g.finish = "failed" \/ content.fail THEN Undelivered ELSE Delivered(g.parts, g.finish, content.parts)
        settle(g) == deliver(g, Content(g.items, disclosure))
    IN settle(FoldLeft(LAMBDA s, e : EncodeContent(s, e, disclosure), NewContentClient, log))

DocumentToContent(items, class, disclosure) ==
    LET content == Content(items, disclosure)
    IN IF content.fail \/ ContentFinish(class) = "failed" THEN Undelivered
       ELSE Delivered(content.parts, ContentFinish(class), content.parts)
=============================================================================
