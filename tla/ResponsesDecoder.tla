-------------------------- MODULE ResponsesDecoder --------------------------
(***************************************************************************)
(* The decoder of a Responses provider: a stream of frames, each about one  *)
(* output index, turned into canonical events in provider order.  Every     *)
(* output index owns a slot.  A slot publishes its events when all earlier  *)
(* slots are done, so an item's canonical ordinal depends on how many items *)
(* the earlier indexes turned into.                                         *)
(*                                                                         *)
(* Each operator is one frame: it takes the decoder and returns it with the *)
(* events of the frame in "out", or with "fail" set when the code returns   *)
(* an error and the events of the frame never leave the decoder.            *)
(*                                                                         *)
(* A wire item is a record [type, id, status, content, extra].  The id      *)
(* stands for item id, call id and tool name together, which the code       *)
(* merges by one rule; NoId is an omitted identity.  Status "none" is an    *)
(* omitted status.  Content is a sequence of parts [known, text]: the parts *)
(* of a message or a reasoning item, the arguments of a call, the action of *)
(* a search.  Extra is "opaque" (encrypted reasoning), "sources" (disclosed *)
(* search sources), "client" (client discovery), "empty" (a content array   *)
(* that is there and has no parts) or "none".                               *)
(***************************************************************************)
EXTENDS CanonicalStream, SequencesExt

WireItem(type, id, status, content, extra) ==
    [type |-> type, id |-> id, status |-> status, content |-> content, extra |-> extra]
NoItem == WireItem("none", NoId, "none", <<>>, "none")
Known(text) == [known |-> TRUE, text |-> text]
Hosted == <<"hosted0", "hosted1", "hosted2">>

NewSlot == [kind |-> "none", id |-> NoId, phase |-> "accumulating", published |-> FALSE, base |-> 0, span |-> 0,
            events |-> <<>>, open |-> "none", parts |-> <<>>, input |-> <<>>, ignored |-> FALSE, pending |-> NoItem]

NewResponsesDecoder == [started |-> FALSE, completed |-> FALSE, items |-> 0, erased |-> FALSE, frontier |-> 0,
                        next |-> 0, slots |-> <<>>, out |-> <<>>, fail |-> FALSE]

At(d, i) == IF i \in DOMAIN d.slots THEN d.slots[i] ELSE NewSlot
Put(d, i, slot) == [d EXCEPT !.slots = [j \in DOMAIN d.slots \cup {i} |-> IF j = i THEN slot ELSE d.slots[j]]]

-----------------------------------------------------------------------------
(* The output frontier.                                                     *)

Rebase(events, base) == [k \in DOMAIN events |-> [events[k] EXCEPT !.ord = @ + base]]

RECURSIVE Publish(_)
Publish(d) ==
    LET i == d.frontier
        s == At(d, i)
        p == IF s.published THEN d
             ELSE Emit(Put(d, i, [s EXCEPT !.published = TRUE, !.base = d.next, !.events = <<>>]),
                       Rebase(s.events, d.next))
    IN IF i \notin DOMAIN d.slots THEN d
       ELSE IF s.phase # "done" THEN p
       ELSE Publish([p EXCEPT !.next = At(p, i).base + s.span, !.frontier = i + 1])

(* stageOutputEvent: a slot that is done stages nothing more.               *)
Stage(d, i, events) ==
    LET s == At(d, i)
        t == [s EXCEPT !.span = Max({s.span} \cup {events[k].ord + 1 : k \in DOMAIN events})]
    IN CASE s.phase = "done" -> d
         [] s.phase # "done" /\ s.published -> Emit(Put(d, i, t), Rebase(events, s.base))
         [] OTHER -> Put(d, i, [t EXCEPT !.events = @ \o events])

MarkDone(d, i) == Publish(Put(d, i, [At(d, i) EXCEPT !.phase = "done"]))
Drop(d, i) == Put(d, i, [At(d, i) EXCEPT !.span = 0, !.events = <<>>])
(* Mutant: nobody learns that output was erased.                            *)
EraseSilently(d, i) == Drop(d, i)

Erase(d, i) == Drop([d EXCEPT !.erased = TRUE], i)
Open(d, i, kind) == Put(d, i, [At(d, i) EXCEPT !.open = kind])
Close(d, i) == Put(d, i, [At(d, i) EXCEPT !.open = "none", !.parts = <<>>, !.input = <<>>])

(* commitOutputItem                                                         *)
Commit(d, i, n, item) == [Stage(d, i, <<ItemCompleted(n, item)>>) EXCEPT !.items = @ + 1]

(* enqueueCompletedOutputItems: items of one output index, all at once.     *)
RECURSIVE EnqueueItems(_, _, _, _)
EnqueueItems(d, i, n, items) ==
    IF items = <<>> THEN d
    ELSE EnqueueItems(Commit(Stage(d, i, ItemEvents(n, items[1])), i, n, items[1]), i, n + 1, Tail(items))

-----------------------------------------------------------------------------
(* Admission of an output frame to its slot.                                *)

MergesIdentity(s, kind, id) ==
    /\ kind = "none" \/ s.kind \in {"none", kind}
    /\ id = NoId \/ s.id \in {NoId, id}

Frozen(s, kind, id) == (kind = "none" \/ s.kind = kind) /\ (id = NoId \/ s.id = id)

MergeIdentity(s, kind, id) ==
    [s EXCEPT !.kind = IF kind = "none" THEN @ ELSE kind, !.id = IF id = NoId THEN @ ELSE id]

(* acceptOutputFrame: a later frame may omit identity but never change it.  *)
Accepts(d, i, kind, id) ==
    LET s == At(d, i) IN
    /\ s.phase = "accumulating"
    /\ ~(s.ignored /\ s.kind = "none" /\ kind # "none")
    /\ MergesIdentity(s, kind, id)

Accept(d, i, kind, id) == Publish(Put(d, i, MergeIdentity(At(d, i), kind, id)))

FrozenDuplicate(d, i, item) == At(d, i).phase # "accumulating" /\ Frozen(At(d, i), item.type, item.id)

RecognizedKinds == {"reasoning", "function_call", "custom_tool_call", "message", "web_search_call",
                    "tool_search_call", "tool_search_output", "mcp_call"}

(* admitCompletedResponsesOutputItem; enclosing "none" is an item completed *)
(* before the response is.                                                  *)
Admit(item, enclosing) ==
    LET status == IF item.status = "none" THEN "completed" ELSE item.status
        partial == CASE enclosing = "none" -> "defer"
                     [] enclosing = "incomplete" -> "project"
                     [] OTHER -> "error"
    IN CASE item.type = "none" -> "error"
         [] item.type # "none" /\ item.type \notin RecognizedKinds -> "erase"
         [] item.type = "mcp_call" -> "error"
         [] item.type \in {"message", "reasoning"} ->
               IF status = "completed" THEN "project" ELSE IF status = "incomplete" THEN partial ELSE "error"
         [] item.type = "web_search_call" -> IF status = "incomplete" THEN partial ELSE "project"
         [] OTHER -> IF status = "completed" THEN "project" ELSE "error"

-----------------------------------------------------------------------------
(* Completed wire items as canonical items (decodeCompletedResponsesItemSet,*)
(* used by the buffered decoder for a whole response, by the stream for one *)
(* item).  "hosted" holds the hosted discoveries without a wire call id.    *)

KnownParts(content) ==
    LET known == SelectSeq(content, LAMBDA part : part.known) IN [k \in DOMAIN known |-> known[k].text]

ReasoningParts(item) == KnownParts(item.content) \o (IF item.extra = "opaque" THEN <<Opaque("responses")>> ELSE <<>>)

(* The raw content is there and not null; the stream counts its parts.      *)
ContentGiven(item) == item.content # <<>> \/ item.extra = "empty"

Arguments(item) == IF item.content = <<>> THEN <<>> ELSE item.content[1].text

(* decodeResponsesWebSearchLifecycle: an omitted status is pending here.    *)
SearchItems(item) ==
    <<Call("search", item.id, item.content[1].text)>> \o
    (IF \/ item.status \in {"completed", "failed"}
        \/ item.status \in {"none", "in_progress", "incomplete"} /\ item.extra = "sources"
     THEN <<Result("search", item.id)>> ELSE <<>>)

Discoverer(item) == IF item.extra = "client" THEN "discovery" ELSE "providerDiscovery"

NewItemSet == [items |-> <<>>, hosted |-> <<>>, erased |-> FALSE, fail |-> FALSE]

DecodeItem(set, item, index, status) ==
    LET bad == [set EXCEPT !.fail = TRUE]
        add(items) == [set EXCEPT !.items = @ \o items]
        hostedCall == item.id = NoId
    IN CASE Admit(item, status) = "error" -> bad
         [] Admit(item, status) = "erase" -> [set EXCEPT !.erased = TRUE]
         [] item.type = "message" ->
               IF KnownParts(item.content) # <<>> THEN add(<<Message(KnownParts(item.content))>>)
               ELSE [set EXCEPT !.erased = @ \/ ContentGiven(item)]
         [] item.type = "reasoning" ->
               IF ReasoningParts(item) # <<>> THEN add(<<Reasoning(ReasoningParts(item))>>)
               ELSE [set EXCEPT !.erased = @ \/ ContentGiven(item)]
         [] item.type = "function_call" ->
               IF item.id = NoId \/ Arguments(item) \notin Objects THEN bad ELSE add(<<Call("function", item.id, Arguments(item))>>)
         [] item.type = "custom_tool_call" ->
               IF item.id = NoId THEN bad ELSE add(<<Call("custom", item.id, Arguments(item))>>)
         [] item.type = "web_search_call" ->
               IF item.content = <<>> THEN IF item.status = "completed" THEN set ELSE bad
               ELSE IF item.id = NoId THEN bad ELSE add(SearchItems(item))
         [] item.type = "tool_search_call" ->
               IF (hostedCall /\ item.extra = "client") \/ Arguments(item) \notin Objects THEN bad
               ELSE IF hostedCall
               THEN [add(<<Call("providerDiscovery", Hosted[index + 1], Arguments(item))>>) EXCEPT !.hosted = Append(@, Hosted[index + 1])]
               ELSE add(<<Call(Discoverer(item), item.id, Arguments(item))>>)
         [] item.type = "tool_search_output" ->
               IF KnownParts(item.content) = <<>> \/ (hostedCall /\ (item.extra = "client" \/ set.hosted = <<>>)) THEN bad
               ELSE IF hostedCall
               THEN [add(<<Result("providerDiscovery", set.hosted[1])>>) EXCEPT !.hosted = Tail(@)]
               ELSE add(<<Result(Discoverer(item), item.id)>>)

RECURSIVE DecodeItems(_, _, _, _)
DecodeItems(set, items, index, status) ==
    IF set.fail \/ items = <<>> THEN set
    ELSE DecodeItems(DecodeItem(set, items[1], index, status), Tail(items), index + 1, status)

(* responsesCompletion                                                      *)
ResponsesCompletion(status, filter) == IF filter = "completion" THEN "declined" ELSE status

(* decodeResponseBuffered: the events of a response that was not streamed;  *)
(* no events is an error.                                                   *)
DecodeBuffered(status, output, text, filter) ==
    LET set == DecodeItems(NewItemSet, output, 0, status)
        items == IF set.items = <<>> /\ text # <<>> THEN <<Message(<<text>>)>> ELSE set.items
    IN IF \/ filter = "prompt" \/ status \notin {"completed", "incomplete"}
          \/ set.fail
          \/ set.erased /\ items = <<>>
       THEN <<>>
       ELSE Synthesize(items, ResponsesCompletion(status, filter))

-----------------------------------------------------------------------------
(* Progressive state of one slot against the item that completes it.        *)

(* responsesTerminalSuffix: the completed text extends the streamed one.    *)
Extends(final, streamed) == IsPrefix(streamed, final)
Suffix(final, streamed) == SubSeq(final, Len(streamed) + 1, Len(final))

(* Streamed message parts, by content index.  The contiguous prefix has     *)
(* been started and sent; parts beyond a gap are held.                      *)
PartFrontier(parts) == CHOOSE n \in 0 .. Cardinality(DOMAIN parts) : n \notin DOMAIN parts /\ 0 .. n - 1 \subseteq DOMAIN parts
PartText(parts, k) == IF k \in DOMAIN parts THEN parts[k] ELSE <<>>
AddText(parts, k, text) == [j \in DOMAIN parts \cup {k} |-> PartText(parts, j) \o (IF j = k THEN text ELSE <<>>)]
TextEvents(k, text) == IF text = <<>> THEN <<>> ELSE <<TextDelta(0, k, text)>>
StartPart(k, text) == <<ContentStart(0, k)>> \o TextEvents(k, text)
FlushParts(parts, from, to) == FlattenSeq([j \in 1 .. to - from |-> StartPart(from + j - 1, parts[from + j - 1])])

(* reconcileMessageParts                                                    *)
ReconcilesMessage(parts, content) ==
    \A k \in DOMAIN parts : k < Len(content) /\ content[k + 1].known /\ Extends(content[k + 1].text, parts[k])

ReconcileEvents(parts, content) ==
    LET sent == PartFrontier(parts)
        rest == KnownParts(SubSeq(content, sent + 1, Len(content)))
    IN FlattenSeq([j \in 1 .. sent |-> TextEvents(j - 1, Suffix(content[j].text, parts[j - 1]))])
       \o FlattenSeq([j \in DOMAIN rest |-> StartPart(sent + j - 1, rest[j])])

(* completeMessageItem *)
CompleteMessage(d, i, item) ==
    LET s == At(d, i)
        message == Message(KnownParts(item.content))
    IN IF message.parts = <<>>
       THEN IF s.open = "message" THEN Fail(d) ELSE IF item.content # <<>> THEN Erase(d, i) ELSE d
       ELSE IF s.open # "message" THEN EnqueueItems(d, i, 0, <<message>>)
       ELSE IF ~ReconcilesMessage(s.parts, item.content) THEN Fail(d)
       ELSE Commit(Stage(Close(d, i), i, ReconcileEvents(s.parts, item.content)), i, 0, message)

(* completeReasoningState: streamed parts are checked, never emitted.       *)
CompleteReasoning(d, i, item) ==
    LET s == At(d, i) IN
    IF s.open = "reasoning" /\ ~ReconcilesMessage(s.parts, item.content) THEN Fail(d)
    ELSE IF ReasoningParts(item) # <<>> THEN Commit(Close(d, i), i, 0, Reasoning(ReasoningParts(item)))
    ELSE IF item.content # <<>> THEN Erase(Close(d, i), i) ELSE Drop(Close(d, i), i)

ToolOf(kind) == IF kind = "custom_tool_call" THEN "custom" ELSE "function"

(* ensureToolState: an unnamed or unknown tool call cannot be opened.       *)
EnsureTool(d, i, kind, id) ==
    IF At(d, i).open = "call" THEN d
    ELSE IF id = NoId THEN Fail(d)
    ELSE Stage(Open(d, i, "call"), i, <<ItemStart(0, Call(ToolOf(kind), id, <<>>))>>)

ToolInput(d, i, input) ==
    LET suffix == Suffix(input, At(d, i).input) IN
    IF suffix = <<>> THEN d
    ELSE Stage(Put(d, i, [At(d, i) EXCEPT !.input = input]), i, <<ArgsDelta(0, suffix)>>)

(* completeToolState: the arguments are final, and with last the call is.   *)
CompleteTool(d, i, kind, id, input, last) ==
    LET fill(opened) ==
          IF opened.fail \/ ~Extends(input, At(opened, i).input) THEN Fail(d)
          ELSE IF last /\ ToolOf(kind) = "function" /\ input \notin Objects THEN Fail(d)
          ELSE ToolInput(opened, i, input)
        finish(filled) ==
          IF filled.fail \/ ~last THEN filled ELSE Commit(Close(filled, i), i, 0, Call(ToolOf(kind), At(d, i).id, input))
    IN finish(fill(EnsureTool(d, i, kind, id)))

(* One completed item that had no progressive state.                        *)
CompleteDecoded(d, i, item, status) ==
    LET enqueue(set) ==
          IF set.fail THEN Fail(d)
          ELSE IF set.items = <<>> THEN Drop(d, i) ELSE EnqueueItems(d, i, 0, set.items)
    IN enqueue(DecodeItem(NewItemSet, item, i, status))

-----------------------------------------------------------------------------
(* Frames.                                                                  *)

(* handleResponseCreated *)
Created(d, hasID) ==
    IF d.started THEN d
    ELSE IF ~hasID THEN Fail([d EXCEPT !.started = TRUE])
    ELSE Emit([d EXCEPT !.started = TRUE], <<EnvelopeStart, Identity>>)

(* handleOutputTextDelta *)
OutputTextDelta(d, i, id, k, text) ==
    LET started(s) == IF s.open = "message" THEN <<>> ELSE <<ItemStart(0, Message(<<>>))>>
        events(parts, sent) == IF k < sent THEN TextEvents(k, text) ELSE FlushParts(parts, sent, PartFrontier(parts))
        add(a, s, parts) ==
          Stage(Put(a, i, [s EXCEPT !.open = "message", !.parts = parts]), i, started(s) \o events(parts, PartFrontier(s.parts)))
        accepted(a) == add(a, At(a, i), AddText(At(a, i).parts, k, text))
    IN IF ~Accepts(d, i, "message", id) THEN Fail(d) ELSE accepted(Accept(d, i, "message", id))

(* handleReasoningDelta *)
ReasoningDelta(d, i, id, k, text) ==
    LET a == Accept(d, i, "reasoning", id)
        s == At(a, i)
    IN IF ~Accepts(d, i, "reasoning", id) THEN Fail(d)
       ELSE Put(a, i, [s EXCEPT !.open = "reasoning", !.parts = AddText(@, k, text)])

(* handleToolArgumentsDelta *)
ToolArgumentsDelta(d, i, kind, id, text) ==
    LET add(opened) == IF opened.fail THEN Fail(d) ELSE ToolInput(opened, i, At(opened, i).input \o text)
    IN IF ~Accepts(d, i, kind, id) THEN Fail(d) ELSE add(EnsureTool(Accept(d, i, kind, id), i, kind, id))

(* handleToolArgumentsDone *)
ToolArgumentsDone(d, i, kind, id, text) ==
    IF ~Accepts(d, i, kind, id) THEN Fail(d)
    ELSE CompleteTool(Accept(d, i, kind, id), i, kind, id, text, FALSE)

(* handleOutputItemAdded *)
OutputItemAdded(d, i, item) ==
    LET open(tool) == IF tool.fail THEN Fail(d) ELSE ToolInput(tool, i, Arguments(item))
        add(a) ==
          CASE item.type = "reasoning" -> Open(a, i, "reasoning")
            [] item.type \in {"function_call", "custom_tool_call"} ->
                  IF At(a, i).open = "call" THEN a ELSE open(EnsureTool(a, i, item.type, item.id))
            [] item.type \in RecognizedKinds \ {"reasoning", "function_call", "custom_tool_call"} -> a
            [] OTHER -> Put(a, i, [At(a, i) EXCEPT !.ignored = TRUE])
    IN IF ~Accepts(d, i, item.type, item.id) \/ item.type \in {"none", "mcp_call"} THEN Fail(d)
       ELSE add(Accept(d, i, item.type, item.id))

(* handleOutputItemDone, with the kinds that carry progressive state.       *)
CompleteItem(d, i, item, status) ==
    CASE item.type = "message" -> CompleteMessage(d, i, item)
      [] item.type = "reasoning" -> CompleteReasoning(d, i, item)
      [] item.type \in {"function_call", "custom_tool_call"} ->
            CompleteTool(d, i, item.type, item.id, Arguments(item), TRUE)
      [] OTHER -> CompleteDecoded(d, i, item, status)

OutputItemDone(d, i, item) ==
    LET settle(completed) == IF completed.fail THEN Fail(d) ELSE MarkDone(completed, i)
        done(a, admitted) ==
          CASE admitted = "error" -> Fail(d)
            [] admitted = "erase" -> MarkDone(Erase(a, i), i)
            [] admitted = "defer" -> Put(a, i, [At(a, i) EXCEPT !.pending = item, !.phase = "awaitingTerminal"])
            [] OTHER -> settle(CompleteItem(a, i, item, "none"))
    IN CASE FrozenDuplicate(d, i, item) -> d
         [] ~FrozenDuplicate(d, i, item) /\ ~Accepts(d, i, item.type, item.id) -> Fail(d)
         [] OTHER -> done(Accept(d, i, item.type, item.id), Admit(item, "none"))

-----------------------------------------------------------------------------
(* The terminal frame: response.completed or response.incomplete.           *)

(* completeObservedOutput, with the slot's identity restored.               *)
CompleteObserved(d, i, item, status) ==
    LET open == At(d, i).open
        progressive == CASE item.type \in {"message", "reasoning"} -> open = item.type
                         [] item.type \in {"function_call", "custom_tool_call"} -> open = "call"
                         [] OTHER -> FALSE
        enqueue(set) == CASE set.fail -> Fail(d)
                          [] ~set.fail /\ set.items = <<>> -> Erase(d, i)
                          [] OTHER -> EnqueueItems(d, i, 0, set.items)
        complete(full) == IF progressive THEN CompleteItem(d, i, full, status) ELSE enqueue(DecodeItem(NewItemSet, full, i, status))
        settle(completed) == IF completed.fail THEN Fail(d) ELSE MarkDone(completed, i)
    IN IF Admit(item, status) = "error" THEN Fail(d)
       ELSE settle(complete([item EXCEPT !.id = IF @ = NoId THEN At(d, i).id ELSE @]))

(* observeTerminalOutput: one item of the terminal snapshot.                *)
ObserveTerminal(d, i, item, status) ==
    LET s == At(d, i)
        merged == Put(d, i, MergeIdentity(s, item.type, item.id))
    IN CASE s.phase = "done" -> IF Frozen(s, item.type, item.id) THEN d ELSE Fail(d)
         [] s.phase # "done" /\ ~MergesIdentity(s, item.type, item.id) -> Fail(d)
         [] s.phase = "awaitingTerminal" /\ MergesIdentity(s, item.type, item.id) ->
               CompleteObserved(merged, i, s.pending, status)
         [] OTHER -> CompleteObserved(merged, i, item, status)

RECURSIVE ObserveOutput(_, _, _, _)
ObserveOutput(d, i, output, status) ==
    IF d.fail \/ output = <<>> THEN d
    ELSE ObserveOutput(ObserveTerminal(d, i, output[1], status), i + 1, Tail(output), status)

(* settleTerminalOmissions: deferred items the snapshot left out, in order. *)
RECURSIVE SettleOmissions(_, _, _)
SettleOmissions(d, observed, status) ==
    LET waiting == {i \in DOMAIN d.slots : i >= observed /\ d.slots[i].phase = "awaitingTerminal"} IN
    IF d.fail \/ waiting = {} THEN d
    ELSE SettleOmissions(CompleteObserved(d, Min(waiting), d.slots[Min(waiting)].pending, status), observed, status)

OpenTexts(d) == {i \in DOMAIN d.slots : d.slots[i].open = "message"}

(* completeOpenTextFromTerminal: output_text completes the only open text.  *)
CompleteOpenText(d, text) ==
    LET i == CHOOSE j \in OpenTexts(d) : TRUE
        parts == At(d, i).parts
    IN IF Cardinality(OpenTexts(d)) # 1 THEN d
       ELSE IF DOMAIN parts # {0} THEN Fail(d)
       ELSE IF ~Extends(text, parts[0]) THEN Fail(d)
       ELSE MarkDone(Commit(Stage(Close(d, i), i, TextEvents(0, Suffix(text, parts[0]))), i, 0, Message(<<text>>)), i)

(* hasOpenKnownOutput *)
HasOpenOutput(d) ==
    \E i \in DOMAIN d.slots : LET s == d.slots[i] IN
        s.open # "none" \/ s.phase # "done" \/ ~s.published \/ s.events # <<>>

DiscardOpen(d) == [d EXCEPT !.slots = [i \in DOMAIN @ |-> IF @[i].open \in {"message", "call"}
                                                         THEN [@[i] EXCEPT !.open = "none"] ELSE @[i]]]
EndInError(d) == Emit([DiscardOpen(d) EXCEPT !.completed = TRUE], <<ErrorEvent, EnvelopeEnd("error")>>)
EndCompleted(d, class) == Emit([d EXCEPT !.completed = TRUE], <<Usage, Finish(class), EnvelopeEnd("completed")>>)

(* handleResponseTerminal *)
Terminal(d, hasID, status, output, text, filter) ==
    LET texted(observed) == IF OpenTexts(observed) # {} /\ observed.items = 0 /\ text # <<>>
                            THEN CompleteOpenText(observed, text) ELSE observed
        last(t) == IF t.items = 0 /\ OpenTexts(t) = {} /\ text # <<>>
                   THEN [Emit(t, SynthesizeFrom(0, <<Message(<<text>>)>>)) EXCEPT !.items = 1] ELSE t
        finish(l) == IF HasOpenOutput(l) \/ (l.items = 0 /\ l.erased) THEN Fail(d)
                     ELSE EndCompleted(l, ResponsesCompletion(status, filter))
        settle(t) == IF t.fail THEN Fail(d) ELSE finish(last(t))
        observe(observed) == IF observed.fail THEN Fail(d) ELSE settle(texted(observed))
        terminal(c) ==
          CASE c.fail -> Fail(d)
            [] ~c.fail /\ filter = "prompt" -> EndInError(c)
            [] OTHER -> IF status \notin {"completed", "incomplete"} THEN Fail(d)
                        ELSE observe(SettleOmissions(ObserveOutput(c, 0, output, status), Len(output), status))
    IN IF d.completed THEN d ELSE terminal(Created(d, hasID))

(* handleStreamDone: [DONE] without a terminal frame.                       *)
StreamDone(d) ==
    CASE ~d.started \/ d.completed -> d
      [] d.started /\ ~d.completed /\ HasOpenOutput(d) -> EndInError(d)
      [] OTHER -> IF d.items = 0 /\ d.erased THEN Fail(d) ELSE EndCompleted(d, "completed")

(* handleUnexpectedEOF; the reader's end is an error elsewhere.             *)
StreamEOF(d) == IF d.started /\ ~d.completed THEN EndInError(d) ELSE Fail(d)
=============================================================================
