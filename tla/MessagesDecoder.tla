-------------------------- MODULE MessagesDecoder --------------------------
(***************************************************************************)
(* The decoder of a Messages provider.  Content blocks start in index       *)
(* order, each taking the next canonical ordinal, and may then stream and   *)
(* stop in any order.  A block of an unknown kind is erased: it takes no    *)
(* ordinal and its deltas are ignored until it stops.                       *)
(*                                                                         *)
(* A block has a wire type, an id (NoId when omitted or unresolvable), and  *)
(* an input: the text of a text or thinking block, the arguments of a call. *)
(* Citations, signatures and usage are left out.                            *)
(***************************************************************************)
EXTENDS CanonicalStream

Query == <<"q">>

CallBlocks == {"tool_use", "web_search", "tool_search"}
ResultBlocks == {"web_search_tool_result", "tool_search_tool_result"}
ThinkingBlocks == {"thinking", "redacted_thinking"}
KnownBlocks == {"text"} \cup CallBlocks \cup ResultBlocks \cup ThinkingBlocks

MessagesTool(type) ==
    CASE type = "tool_use" -> "function"
      [] type \in {"web_search", "web_search_tool_result"} -> "search"
      [] OTHER -> "providerDiscovery"

NewMessagesDecoder == [lifecycle |-> "unseen", blocks |-> <<>>, nextIndex |-> 0, nextOrdinal |-> 0, erased |-> FALSE,
                       items |-> 0, calls |-> 0, finish |-> "none", out |-> <<>>, fail |-> FALSE]

(* A frame other than message_start, ping or error needs an open message.   *)
InMessage(d) == d.lifecycle = "started"

(* messagesCompletion *)
MessagesCompletion(reason) ==
    CASE reason \in {"max_tokens", "pause_turn"} -> "incomplete"
      [] reason = "refusal" -> "declined"
      [] reason \in {"end_turn", "tool_use", "completed"} -> "completed"
      [] OTHER -> "failed"

(* handleMessageStart *)
MessageStart(d) ==
    IF d.lifecycle # "unseen" THEN Fail(d)
    ELSE Emit([d EXCEPT !.lifecycle = "started"], <<EnvelopeStart, Identity>>)

(* handleContentBlockStart *)
ContentBlockStart(d, i, type, id, input) ==
    LET block == [type |-> type, ord |-> d.nextOrdinal, id |-> id, initial |-> input,
                  text |-> IF type = "thinking" THEN input ELSE <<>>]
        events == CASE type = "text" -> <<ItemStart(block.ord, Message(<<>>)), ContentStart(block.ord, 0)>>
                    [] type \in CallBlocks -> <<ItemStart(block.ord, Call(MessagesTool(type), id, <<>>))>>
                    [] OTHER -> <<>>
    IN IF \/ ~InMessage(d)
          \/ i # d.nextIndex
          \/ type \in CallBlocks \cup ResultBlocks /\ id = NoId
       THEN Fail(d)
       ELSE Emit([d EXCEPT !.blocks = [j \in DOMAIN d.blocks \cup {i} |-> IF j = i THEN block ELSE d.blocks[j]],
                           !.nextIndex = @ + 1,
                           !.nextOrdinal = IF type \in KnownBlocks THEN @ + 1 ELSE @,
                           !.erased = @ \/ type \notin KnownBlocks], events)

(* messagesBlockAdmitsDelta *)
AdmitsDelta(type, delta) ==
    CASE type = "text" -> delta = "text_delta"
      [] type \in CallBlocks -> delta = "input_json_delta"
      [] type = "thinking" -> delta = "thinking_delta"
      [] OTHER -> FALSE

KnownDeltas == {"text_delta", "input_json_delta", "thinking_delta"}

(* handleContentBlockDelta *)
ContentBlockDelta(d, i, delta, text) ==
    LET block == d.blocks[i]
        events == CASE delta = "text_delta" -> <<TextDelta(block.ord, 0, text)>>
                    [] delta = "input_json_delta" /\ block.type # "web_search" -> <<ArgsDelta(block.ord, text)>>
                    [] OTHER -> <<>>
    IN CASE ~InMessage(d) \/ i \notin DOMAIN d.blocks -> Fail(d)
         [] OTHER ->
               IF block.type \notin KnownBlocks THEN d
               ELSE IF delta \notin KnownDeltas THEN d
               ELSE IF \/ ~AdmitsDelta(block.type, delta)
                       \/ delta = "input_json_delta" /\ block.initial \notin {<<>>, EmptyObject}
               THEN Fail(d)
               ELSE Emit([d EXCEPT !.blocks[i].text = @ \o text], events)

(* The input of a call: streamed, given at the start, or an empty object.   *)
CallInput(block) ==
    IF block.text # <<>> THEN block.text ELSE IF block.initial # <<>> THEN block.initial ELSE EmptyObject

(* A call parses when its input is an object, a search when it is a query.  *)
ValidInput(block) == CallInput(block) \in IF block.type = "web_search" THEN {Query} ELSE Objects

BlockItem(block) ==
    CASE block.type = "text" -> Message(<<block.text>>)
      [] block.type \in CallBlocks -> Call(MessagesTool(block.type), block.id, CallInput(block))
      [] block.type \in ResultBlocks -> Result(MessagesTool(block.type), block.id)
      [] block.type = "thinking" /\ block.text # <<>> -> Reasoning(<<Thought(block.text), Opaque("messages")>>)
      [] OTHER -> Reasoning(<<Opaque("messages")>>)

(* handleContentBlockStop                                                   *)
ContentBlockStop(d, i) ==
    LET block == d.blocks[i]
        closed == [d EXCEPT !.blocks = Restrict(@, DOMAIN @ \ {i})]
        item == BlockItem(block)
        late == IF block.type \in {"tool_use", "tool_search"} /\ block.text = <<>>
                THEN <<ArgsDelta(block.ord, CallInput(block))>> ELSE <<>>
    IN CASE ~InMessage(d) \/ i \notin DOMAIN d.blocks -> Fail(d)
         [] OTHER ->
               IF block.type \notin KnownBlocks THEN closed
               ELSE IF block.type \in CallBlocks /\ ~ValidInput(block) THEN Fail(d)
               ELSE Emit([closed EXCEPT !.items = @ + 1, !.calls = IF item.kind = "call" THEN @ + 1 ELSE @],
                         late \o <<ItemCompleted(block.ord, item)>>)

(* handleMessageDelta *)
MessageDelta(d, reason) == IF ~InMessage(d) THEN Fail(d) ELSE [d EXCEPT !.finish = reason]

(* handleMessageStop *)
MessageStop(d) ==
    IF \/ ~InMessage(d)
       \/ DOMAIN d.blocks # {}
       \/ d.erased /\ d.items = 0
       \/ d.finish = "tool_use" /\ d.calls = 0
    THEN Fail(d)
    ELSE Emit([d EXCEPT !.lifecycle = "stopped"],
              <<Usage, Finish(IF d.finish = "none" THEN "completed" ELSE MessagesCompletion(d.finish)), EnvelopeEnd("completed")>>)

(* The reader's end, with and without a message.                            *)
MessagesEOF(d) ==
    IF ~InMessage(d) THEN Fail(d)
    ELSE Emit([d EXCEPT !.lifecycle = "stopped", !.blocks = <<>>], <<ErrorEvent, EnvelopeEnd("error")>>)

-----------------------------------------------------------------------------
(* decodeResponseBuffered.  Text blocks next to each other, or with only    *)
(* erased blocks between them, become one message.                          *)

WireBlock(type, id, text) == [type |-> type, ord |-> 0, id |-> id, initial |-> text, text |-> text]

RECURSIVE BlockItems(_, _)
BlockItems(blocks, parts) ==
    LET message == IF parts = <<>> THEN <<>> ELSE <<Message(parts)>> IN
    IF blocks = <<>> THEN message
    ELSE CASE blocks[1].type = "text" -> BlockItems(Tail(blocks), Append(parts, blocks[1].text))
           [] blocks[1].type \notin KnownBlocks -> BlockItems(Tail(blocks), parts)
           [] OTHER -> message \o <<BlockItem(blocks[1])>> \o BlockItems(Tail(blocks), <<>>)

DecodeMessagesBuffered(blocks, reason) ==
    LET items == BlockItems(blocks, <<>>) IN
    IF \/ \E k \in DOMAIN blocks : \/ blocks[k].type \in CallBlocks \cup ResultBlocks /\ blocks[k].id = NoId
                                   \/ blocks[k].type \in CallBlocks /\ (blocks[k].text = <<>> \/ ~ValidInput(blocks[k]))
       \/ blocks # <<>> /\ items = <<>>
       \/ reason = "tool_use" /\ \A k \in DOMAIN items : items[k].kind # "call"
    THEN <<>>
    ELSE Synthesize(items, MessagesCompletion(reason))
=============================================================================
