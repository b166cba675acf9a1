---------------------------- MODULE Translation ----------------------------
(***************************************************************************)
(* A provider's response stream on its way to a client: frames of one of    *)
(* four provider protocols go through that protocol's decoder, its events   *)
(* through the validator, and what the validator lets through to the client *)
(* and to the projector that keeps the response.  The provider may send any *)
(* frame at any time; Budget bounds the frames of a stream.                 *)
(*                                                                         *)
(* The client encoders and the projector are functions of the events let    *)
(* through, so they are evaluated on the log and have no state here.        *)
(***************************************************************************)
EXTENDS CanonicalStream, SequencesExt

CONSTANTS Protocols,     \* provider protocols of this instance
          Budget,        \* [protocol -> frames of one stream]
          Indexes,       \* output, block, tool and step indexes
          CallIds,       \* call ids a provider may send
          Texts,         \* texts of a delta
          ArgumentChunks, \* arguments of a delta
          BlockTypes,    \* block types of a Messages provider
          OutputItems,   \* wire items of a Responses provider
          Terminals,     \* terminal frames of a Responses provider
          ChunkFragments \* tool call fragments of a Chat chunk

VARIABLES protocol,      \* the provider's protocol
          decoder,       \* the protocol's decoder
          validator,     \* ValidatedResponseStream
          log,           \* events let through
          source,        \* the response as the provider completed it
          ended          \* "no", "end", "refused" (validator) or "failed" (decoder)

vars == <<protocol, decoder, validator, log, source, ended>>

R == INSTANCE ResponsesDecoder
M == INSTANCE MessagesDecoder
C == INSTANCE ChatDecoder
I == INSTANCE InteractionsDecoder

E == INSTANCE ClientEncoders

(* The client decoders of a request that continues the response.            *)
RQ == INSTANCE ResponsesRequests
MQ == INSTANCE MessagesRequests
CQ == INSTANCE ChatRequests
GQ == INSTANCE ContentRequests

NewDecoder(p) ==
    CASE p = "responses" -> R!NewResponsesDecoder
      [] p = "messages" -> M!NewMessagesDecoder
      [] p = "chat" -> C!NewChatDecoder
      [] p = "interactions" -> I!NewInteractionsDecoder

NoSource == [items |-> <<>>, text |-> <<>>, reason |-> "none", filter |-> "none", frames |-> 0]

Init ==
    /\ protocol \in Protocols
    /\ decoder = NewDecoder(protocol)
    /\ validator = NewValidator
    /\ log = <<>>
    /\ source = NoSource
    /\ ended = "no"

-----------------------------------------------------------------------------
(* Next of the validated stream: the events of a frame are let through one  *)
(* by one, up to the first that is refused or that ends the envelope.       *)

Deliver(s, e) ==
    IF s.refused \/ s.validator.done THEN s
    ELSE IF Validates(s.validator, e)
    THEN [s EXCEPT !.validator = Validate(@, e), !.log = Append(@, e)]
    ELSE [s EXCEPT !.refused = TRUE]

(* A frame arrives, the decoder becomes d and the source src.  A stream     *)
(* that ends in an error is closed and nothing of it is kept.               *)
Receive(p, d, src, s, outcome) ==
    /\ decoder' = IF outcome = "no" THEN [d EXCEPT !.out = <<>>] ELSE NewDecoder(p)
    /\ validator' = IF outcome = "no" THEN s.validator ELSE NewValidator
    /\ log' = s.log
    /\ source' = IF outcome \in {"failed", "refused"} THEN NoSource ELSE [src EXCEPT !.frames = @ + 1]
    /\ ended' = outcome
    /\ UNCHANGED protocol

Outcome(d, s) == CASE d.fail -> "failed" [] s.refused -> "refused" [] s.validator.done -> "end" [] OTHER -> "no"

Frame(p, d, src) ==
    /\ protocol = p /\ ended = "no" /\ source.frames < Budget[p]
    /\ \E s \in {FoldLeft(Deliver, [validator |-> validator, log |-> log, refused |-> FALSE], d.out)} :
          Receive(p, d, src, s, Outcome(d, s))

-----------------------------------------------------------------------------
(* Frames of a Responses provider.  The source keeps, by output index, the  *)
(* first wire item that completed it, under the identity of its slot.       *)

Identified(d, i, item) == [item EXCEPT !.id = IF @ = NoId THEN R!At(d, i).id ELSE @]
Complete(src, d, i, item) ==
    IF i \in DOMAIN src.items THEN src ELSE [src EXCEPT !.items = E!Extend(@, i, Identified(d, i, item))]

ResponseCreated == \E hasID \in BOOLEAN : Frame("responses", R!Created(decoder, hasID), source)

ResponseTextDelta ==
    \E i \in Indexes, k \in {0, 1}, text \in Texts : Frame("responses", R!OutputTextDelta(decoder, i, NoId, k, text), source)

ResponseReasoningDelta ==
    \E i \in Indexes, text \in Texts : Frame("responses", R!ReasoningDelta(decoder, i, NoId, 0, text), source)

ResponseArgumentsDelta ==
    \E i \in Indexes, id \in CallIds \cup {NoId}, text \in ArgumentChunks :
        Frame("responses", R!ToolArgumentsDelta(decoder, i, "function_call", id, text), source)

ResponseArgumentsDone ==
    \E i \in Indexes, text \in Objects : Frame("responses", R!ToolArgumentsDone(decoder, i, "function_call", NoId, text), source)

ResponseItemAdded ==
    \E i \in Indexes, item \in OutputItems : Frame("responses", R!OutputItemAdded(decoder, i, item), source)

ResponseItemDone ==
    \E i \in Indexes, item \in OutputItems :
        LET done(d) == Frame("responses", d, Complete(source, d, i, item)) IN done(R!OutputItemDone(decoder, i, item))

ResponseTerminal ==
    \E t \in Terminals :
        LET src(d) == FoldLeft(LAMBDA acc, k : Complete(acc, d, k - 1, t.output[k]), source, [k \in DOMAIN t.output |-> k])
            terminal(d) == Frame("responses", d, [src(d) EXCEPT !.reason = t.status, !.filter = t.filter, !.text = t.text])
        IN terminal(R!Terminal(decoder, TRUE, t.status, t.output, t.text, t.filter))

ResponseDone == Frame("responses", R!StreamDone(decoder), [source EXCEPT !.reason = "completed"])
ResponseEOF == Frame("responses", R!StreamEOF(decoder), source)

(* response.failed, and an error event.                                     *)
ResponseFailed == Frame("responses", Fail(decoder), source)

ResponsesNext ==
    \/ ResponseCreated \/ ResponseTextDelta \/ ResponseReasoningDelta
    \/ ResponseArgumentsDelta \/ ResponseArgumentsDone
    \/ ResponseItemAdded \/ ResponseItemDone
    \/ ResponseTerminal \/ ResponseDone \/ ResponseEOF \/ ResponseFailed

-----------------------------------------------------------------------------
(* Frames of a Messages provider.  The source keeps the blocks that stopped.*)

MessageStart == Frame("messages", M!MessageStart(decoder), source)

BlockInputs(type) ==
    CASE type = "text" -> {<<>>}
      [] type = "tool_use" -> {<<>>, EmptyObject}
      [] type = "web_search" -> {<<>>, M!Query}
      [] OTHER -> {<<>>}

MessageBlockStart ==
    \E i \in Indexes, type \in BlockTypes, id \in CallIds \cup {NoId} :
        /\ type \notin M!CallBlocks \cup M!ResultBlocks => id = NoId
        /\ \E input \in BlockInputs(type) :
              Frame("messages", M!ContentBlockStart(decoder, i, type, id, input), source)

MessageBlockDelta ==
    \E i \in Indexes, delta \in M!KnownDeltas, text \in Texts \cup ArgumentChunks :
        /\ delta = "input_json_delta" <=> text \in ArgumentChunks
        /\ Frame("messages", M!ContentBlockDelta(decoder, i, delta, text), source)

MessageBlockStop ==
    \E i \in Indexes :
        LET block == decoder.blocks[i]
            wire == M!WireBlock(block.type, block.id, IF block.type \in M!CallBlocks THEN M!CallInput(block) ELSE block.text)
        IN Frame("messages", M!ContentBlockStop(decoder, i),
                 IF i \in DOMAIN decoder.blocks THEN [source EXCEPT !.items = E!Extend(@, i, wire)] ELSE source)

MessageDelta ==
    \E reason \in {"end_turn", "tool_use", "max_tokens", "refusal", "unknown"} :
        Frame("messages", M!MessageDelta(decoder, reason), [source EXCEPT !.reason = reason])

MessageStop == Frame("messages", M!MessageStop(decoder), source)
MessageEOF == Frame("messages", M!MessagesEOF(decoder), source)
MessageError == Frame("messages", Fail(decoder), source)

MessagesNext ==
    \/ MessageStart \/ MessageBlockStart \/ MessageBlockDelta \/ MessageBlockStop
    \/ MessageDelta \/ MessageStop \/ MessageEOF \/ MessageError

-----------------------------------------------------------------------------
(* Frames of a Chat Completions provider.  The source keeps the text and    *)
(* the calls gathered up to the finish.                                     *)

ChatChunk ==
    \E id \in {NoId, "chat"}, text \in Texts \cup {<<>>}, fragments \in ChunkFragments,
       reason \in {"none", "stop", "tool_calls", "length", "content_filter"} :
        LET call(t) == [kind |-> t.kind, id |-> t.id, text |-> t.args]
            calls(tools, order) == [k \in DOMAIN order |-> call(tools[order[k]])]
            gathered(open) == [source EXCEPT !.items = calls(open.tools, E!Sorted(DOMAIN open.tools)), !.text = open.text, !.reason = reason]
            chunk(d) == Frame("chat", d, IF reason = "none" \/ d.fail \/ decoder.finished THEN source
                                         ELSE gathered(C!Chunk(decoder, id, TRUE, text, fragments, "none")))
        IN chunk(C!Chunk(decoder, id, TRUE, text, fragments, reason))

ChatUsageChunk == Frame("chat", C!Chunk(decoder, "chat", FALSE, <<>>, <<>>, "none"), source)
ChatDone == Frame("chat", C!ChatDone(decoder), source)
ChatEOF == Frame("chat", C!ChatEOF(decoder), source)

ChatNext == ChatChunk \/ ChatUsageChunk \/ ChatDone \/ ChatEOF

-----------------------------------------------------------------------------
(* Frames of a Gemini Interactions provider, which has no buffered form.    *)

InteractionCreated == Frame("interactions", I!InteractionCreated(decoder), source)

StepStart ==
    \E i \in Indexes, type \in I!StepTypes, id \in CallIds \cup {NoId}, signed \in BOOLEAN :
        /\ type \in {"model_output", "thought"} => id = NoId
        /\ type \notin {"google_search_call", "google_search_result"} => ~signed
        /\ \E args \in CASE type = "function_call" -> {<<>>, EmptyObject, Object}
                         [] type = "google_search_call" -> {<<>>, I!WebQuery}
                         [] OTHER -> {<<>>} :
              Frame("interactions", I!StepStart(decoder, i, type, id, args, signed), source)

(* The content of a delta of each kind.                                     *)
StepDeltas ==
    {<<"text", <<"x">> >>, <<"thought_summary", <<"x">> >>, <<"thought_signature", <<>> >>,
     <<"arguments_delta", Object>>, <<"function_call", Object>>, <<"google_search_call", I!WebQuery>>, <<"google_search_result", <<"suggestions">> >>}

StepDelta ==
    \E i \in Indexes, delta \in StepDeltas, id \in CallIds \cup {NoId} :
        /\ delta[1] = "function_call" <=> id # NoId
        /\ Frame("interactions", I!StepDelta(decoder, i, delta[1], id, delta[2], TRUE), source)

StepStop == \E i \in Indexes : Frame("interactions", I!StepStop(decoder, i), source)

InteractionCompleted ==
    \E status \in {"completed", "incomplete", "failed", "requires_action"} :
        Frame("interactions", I!InteractionCompleted(decoder, TRUE, status), source)

InteractionStatus == \E sameID \in BOOLEAN : Frame("interactions", I!StatusUpdate(decoder, sameID, "in_progress"), source)
InteractionError == Frame("interactions", I!InteractionError(decoder), source)
InteractionEOF == Frame("interactions", I!InteractionsEOF(decoder), source)

InteractionsNext ==
    \/ InteractionCreated \/ StepStart \/ StepDelta \/ StepStop
    \/ InteractionCompleted \/ InteractionStatus \/ InteractionError \/ InteractionEOF

Next == ResponsesNext \/ MessagesNext \/ ChatNext \/ InteractionsNext

Spec == Init /\ [][Next]_vars

-----------------------------------------------------------------------------
(* What the exchange keeps of a stream.                                     *)

Kept(events) ==
    LET settle(p) == [kept |-> Projects(p), class |-> p.class, items |-> IF Projects(p) THEN CompletedItems(p.asm) ELSE <<>>]
    IN settle(FoldLeft(Project, NewProjector, events))

Accepted == ended = "end" /\ log[Len(log)] = EnvelopeEnd("completed")

ItemEventsOf(events) == SelectSeq(events, LAMBDA e : e.kind \in ItemEventKinds)
InOrdinalOrder(events) ==
    LET items == ItemEventsOf(events) IN \A k \in 1 .. Len(items) - 1 : items[k].ord <= items[k + 1].ord

Completions == SelectSeq(log, LAMBDA e : e.kind = "itemCompleted")

(* By ordinal, every result follows the call it answers and every call of   *)
(* an id used again follows the result before it.                           *)
EffectsInTurn ==
    LET effects == {e \in ToSet(Completions) : e.item.kind \in {"call", "result"}}
        earlier(e) == {f \in effects : f.item.id = e.item.id /\ f.ord < e.ord}
        last(e) == CHOOSE f \in earlier(e) : \A g \in earlier(e) : g.ord <= f.ord
    IN \A e \in effects :
          IF e.item.kind = "call" THEN earlier(e) # {} => last(e).item.kind = "result"
          ELSE earlier(e) # {} /\ last(e).item.kind = "call" /\ last(e).item.tool = e.item.tool

SourceItems == [k \in 1 .. Cardinality(DOMAIN source.items) |-> source.items[k - 1]]

(* The provider stated the whole response and why it ended.  A filtered     *)
(* Chat choice is closed without its output.                                *)
Stated ==
    /\ protocol # "interactions"
    /\ source.reason \notin {"none", "content_filter"}
    /\ protocol # "chat" => DOMAIN source.items = 0 .. Cardinality(DOMAIN source.items) - 1

Buffered ==
    CASE protocol = "responses" -> R!DecodeBuffered(source.reason, SourceItems, source.text, source.filter)
      [] protocol = "messages" -> M!DecodeMessagesBuffered(SourceItems, source.reason)
      [] protocol = "chat" -> C!DecodeChatBuffered(source.text, source.items, source.reason)

(* Messages decodes adjacent text blocks into one message when buffered.    *)
Split(items) ==
    FlattenSeq([k \in DOMAIN items |->
        IF items[k].kind # "message" THEN <<items[k]>>
        ELSE [p \in DOMAIN items[k].parts |-> Message(<<items[k].parts[p]>>)]])

(* A Responses item with a content array that holds no parts.               *)
StatedEmpty == protocol = "responses" /\ \E item \in ToSet(SourceItems) : item.extra = "empty"

(* A provider's response means the same streamed and buffered: an accepted  *)
(* stream whose items the provider also stated whole projects to what the   *)
(* buffered decoder makes of that statement (decodeResponseBuffered), item  *)
(* for item and with the same completion.  They differ in one case and in   *)
(* every instance of it: of a response whose only content is an empty array *)
(* the stream keeps a response without items (completeMessageItem counts    *)
(* the parts), and the buffered decoder, for which any content that is not  *)
(* null is output that was lost, refuses it.                                *)
StreamedEqualsBuffered ==
    Accepted /\ Stated =>
        \A k \in {Kept(log)} : k.kept =>
            \A b \in {Kept(Buffered)} :
                IF k.items = <<>> /\ StatedEmpty THEN ~b.kept
                ELSE b.kept /\ b.class = k.class /\ Split(b.items) = Split(k.items)

(* Decoders that gather an item before they publish it emit the items in    *)
(* ordinal order (publishReadyOutputs, applyChoiceFinish).                  *)
SerialProviders == protocol \in {"responses", "chat"} => InOrdinalOrder(log)

(* A stream the validator accepts to its completed end projects to a        *)
(* response that may be kept (ResponseProjector), with one exception that   *)
(* the statement makes exact.  The validator matches effects in the order   *)
(* of completion and the projector in the order of the ordinals: a Messages *)
(* provider may open the block of a result before the block of its call and *)
(* stop them the other way round, and what was accepted is then refused by  *)
(* the projector after its content went to the client.                      *)
AcceptedIsKept ==
    /\ SerialProviders
    /\ Accepted => (Kept(log).kept <=> EffectsInTurn)

-----------------------------------------------------------------------------
(* What a client of each protocol gets of the stream, as frames and as one  *)
(* document of the response that was kept.                                  *)

Clients == {"responses", "messages", "chat", "content"}
Disclosures == {"unset", "none", "summary"}

Streamed(client, disclosure) ==
    CASE client = "responses" -> E!StreamToResponses(log, disclosure)
      [] client = "messages" -> E!StreamToMessages(log, disclosure)
      [] client = "chat" -> E!StreamToChat(log)
      [] client = "content" -> E!StreamToContent(log, disclosure)

Document(client, disclosure, k) ==
    CASE client = "responses" -> E!DocumentToResponses(k.items, k.class, disclosure)
      [] client = "messages" -> E!DocumentToMessages(k.items, k.class, disclosure)
      [] client = "chat" -> E!DocumentToChat(k.items, k.class)
      [] client = "content" -> E!DocumentToContent(k.items, k.class, disclosure)

(* A streamed GenerateContent part has no end: text up to its boundaries.   *)
Seen(client, view) == IF client = "content" THEN E!AddParts(<<>>, SelectSeq(view, LAMBDA part : part.parts # << <<>> >>)) ELSE view

(* The Responses stream writes a search when its result arrives, always as  *)
(* completed, and a discovery as a function call without its output.        *)
PlainTools ==
    \A k \in DOMAIN Completions :
        LET item == Completions[k].item IN
        /\ item.tool \notin {"discovery", "providerDiscovery"}
        /\ item.tool = "search" /\ item.kind = "call" =>
              k < Len(Completions) /\ Completions[k + 1].item = Result("search", item.id)

Comparable(client, k) ==
    /\ k.kept
    /\ client # "content" => InOrdinalOrder(log)
    /\ client = "responses" => PlainTools

(* A search the Messages protocol cannot express counts as a tool use in a  *)
(* document only.                                                           *)
SameStop(client, k, streamed, document) ==
    streamed.finish = document.finish \/ (client = "messages" /\ E!DroppedSearches(k.items) # {})

(* A client that sends back what it was streamed is recognised: what it     *)
(* assembled equals the history whose fingerprint the exchange keeps        *)
(* (responsesFingerprintingEncoder and its siblings).                       *)
ReplayRecognised ==
    Accepted => \A k \in {Kept(log)} : \A client \in Clients : Comparable(client, k) =>
        \A disclosure \in Disclosures :
            \A d \in {Streamed(client, disclosure)} : ~d.fail => Seen(client, d.view) = Seen(client, d.print)

(* The client gets the same content and the same reason to stop whether it  *)
(* asked for a stream or a document, and one fails only if the other does.  *)
DeliveryIndependent ==
    Accepted => \A k \in {Kept(log)} : \A client \in Clients : Comparable(client, k) =>
        \A disclosure \in Disclosures :
            \A streamed \in {Streamed(client, disclosure)}, document \in {Document(client, disclosure, k)} :
                /\ streamed.fail = document.fail
                /\ SameStop(client, k, streamed, document)
                /\ Seen(client, streamed.view) = Seen(client, document.view)

-----------------------------------------------------------------------------
(* The next request of a client that sends the response back: a user's      *)
(* words, and then what it was given as the turn of the assistant.  Every   *)
(* tool is called "f".                                                      *)

Asks == << <<"hi">> >>
WithoutOpaque(parts) == SelectSeq(parts, LAMBDA part : part = <<>> \/ part[1] # "opaque")
ResponsesReplay(view) ==
    LET item(w) ==
          CASE w.type = "message" -> RQ!InputItem("message", "assistant", "none", "none", w.parts)
            [] w.type = "reasoning" ->
                 RQ!InputItem("reasoning", IF Opaque("responses") \in ToSet(w.parts) THEN "encrypted" ELSE "none", "none", "none", WithoutOpaque(w.parts))
            [] w.type = "web_search_call" -> RQ!InputItem(w.type, w.parts[1][1], "none", "none", <<E!SearchQuery>>)
            [] w.type \in {"tool_search_call", "tool_search_output"} -> RQ!InputItem(w.type, "server", "none", w.id, w.parts)
            [] OTHER -> RQ!InputItem(w.type, "none", "f", w.id, w.parts)
        asked == RQ!InputItem("message", "user", "none", "none", Asks)
    IN RQ!DecodeResponses(<<asked>> \o [k \in DOMAIN view |-> item(view[k])], <<>>, <<>>)

MessagesReplay(view) ==
    LET name(w) == CASE w.type = "tool_use" -> "f" [] w.type = "server_tool_use" -> "web_search" [] OTHER -> "none"
        block(w) == MQ!Block(w.type, w.id, name(w), w.parts, FALSE)
        asked == MQ!Body("user", <<MQ!Block("text", NoId, "none", Asks, FALSE)>>)
    IN MQ!DecodeMessages(<<asked>> \o IF view = <<>> THEN <<>> ELSE <<MQ!Body("assistant", [k \in DOMAIN view |-> block(view[k])])>>, <<>>, <<>>)

ChatReplay(view) ==
    LET call(w) == CQ!ChatCall(w.type, w.id, "f", w.parts)
        asked == CQ!ChatMessage("user", "none", Asks, <<>>)
        answer == CQ!ChatMessage("assistant", "none", <<view.text>>, [k \in DOMAIN view.calls |-> call(view.calls[k])])
    IN CQ!DecodeChat(<<asked, answer>>, <<>>)

ContentReplay(view) ==
    LET part(w) == GQ!ContentPart(w.type, w.id, IF w.type = "functionCall" THEN "f" ELSE "none", w.parts, FALSE)
        asked == GQ!Content("user", <<GQ!ContentPart("text", NoId, "none", Asks, FALSE)>>)
    IN GQ!DecodeContents(<<asked>> \o IF view = <<>> THEN <<>> ELSE <<GQ!Content("model", [k \in DOMAIN view |-> part(view[k])])>>, <<>>, <<>>, TRUE)

Replayed(client, view) ==
    CASE client = "responses" -> ResponsesReplay(view)
      [] client = "messages" -> MessagesReplay(view)
      [] client = "chat" -> ChatReplay(view)
      [] client = "content" -> ContentReplay(view)

(* The calls the client has to answer: of the response, and of the request  *)
(* that sends it back.                                                      *)
ToAnswer(items) == {item.id : item \in {i \in ToSet(items) : i.kind = "call" /\ i.tool \in {"function", "custom"}}}
LeftToAnswer(items) == {e.id : e \in {f \in RQ!ToolEffects(items) : f.tool.kind \in {"function", "custom"} /\ f.result = 0}}

(* A Messages client may not send an empty text back, although it may be    *)
(* given one, and a Responses stream shows a discovery as a function call.  *)
Replayable(client, view, items) ==
    /\ client = "messages" => \A k \in DOMAIN view : view[k].type = "text" => view[k].parts # << <<>> >>
    /\ client = "responses" => \A item \in ToSet(items) : item.tool \notin {"discovery", "providerDiscovery"}

(* A client can go on from any response it was given: the request that      *)
(* sends back what it was streamed, or given as a document, is decoded (by  *)
(* decodeResponsesInput, decodeMessagesItems, decodeChatConversation and    *)
(* decodeItemsView), its calls pair with their results, and the calls left  *)
(* to answer are those of the response, under their ids.                    *)
ReplayDecodes ==
    Accepted => \A k \in {Kept(log)} : k.kept =>
        \A client \in Clients, disclosure \in Disclosures :
            \A d \in {Streamed(client, disclosure), Document(client, disclosure, k)} : ~d.fail /\ Replayable(client, d.view, k.items) =>
                \A request \in {Replayed(client, d.view)} :
                    /\ request.error = "none"
                    /\ ~RQ!Matched(request.items).failed
                    /\ LeftToAnswer(request.items) = ToAnswer(k.items)
=============================================================================
