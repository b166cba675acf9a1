---------------------------- MODULE ChatDecoder ----------------------------
(***************************************************************************)
(* The decoder of a Chat Completions provider.  Text streams as ordinal 0.  *)
(* Fragments of tool calls are gathered by tool index and become items only *)
(* when the choice finishes, in index order after the text.                 *)
(*                                                                         *)
(* A fragment is a record [index, kind, id, text]: kind "none" when it has  *)
(* neither a type nor a body, id the call id with the tool name (NoId when  *)
(* omitted; a fragment without a kind omits it).                            *)
(***************************************************************************)
EXTENDS CanonicalStream, SequencesExt

NewChatDecoder == [started |-> FALSE, finished |-> FALSE, completed |-> FALSE, id |-> NoId, reason |-> "none",
                   open |-> FALSE, text |-> <<>>, tools |-> <<>>, out |-> <<>>, fail |-> FALSE]

NewTool == [kind |-> "none", id |-> NoId, args |-> <<>>]

(* admitChatToolCallUnion: a type that is neither function nor custom.      *)
ErasedKind(kind) == kind \notin {"none", "function", "custom"}
Live(d) == {i \in DOMAIN d.tools : ~ErasedKind(d.tools[i].kind)}

(* chatCompletion *)
ChatCompletion(reason) ==
    CASE reason = "length" -> "incomplete"
      [] reason = "content_filter" -> "declined"
      [] reason \in {"stop", "tool_calls"} -> "completed"
      [] OTHER -> "failed"

(* applyChoiceDelta and queueToolCallDelta, for one fragment.               *)
ApplyFragment(d, f) ==
    LET s == IF f.index \in DOMAIN d.tools THEN d.tools[f.index] ELSE NewTool
        kind == IF s.kind = "none" THEN f.kind ELSE s.kind
        t == IF ErasedKind(kind) THEN [NewTool EXCEPT !.kind = kind]
             ELSE [kind |-> kind, id |-> IF s.id = NoId THEN f.id ELSE s.id, args |-> s.args \o f.text]
    IN IF \/ f.kind # "none" /\ kind # f.kind
          \/ ~ErasedKind(kind) /\ NoId \notin {s.id, f.id} /\ s.id # f.id
       THEN Fail(d)
       ELSE [d EXCEPT !.tools = [i \in DOMAIN d.tools \cup {f.index} |-> IF i = f.index THEN t ELSE d.tools[i]]]

RECURSIVE ApplyFragments(_, _)
ApplyFragments(d, fragments) ==
    IF d.fail \/ fragments = <<>> THEN d ELSE ApplyFragments(ApplyFragment(d, fragments[1]), Tail(fragments))

ApplyText(d, text) ==
    IF text = <<>> THEN d
    ELSE Emit([d EXCEPT !.open = TRUE, !.text = @ \o text],
              (IF d.open THEN <<>> ELSE <<ItemStart(0, Message(<<>>)), ContentStart(0, 0)>>) \o <<TextDelta(0, 0, text)>>)

(* validateToolOccurrenceFrontier and the other conditions of a finish.     *)
Finishable(d, reason) ==
    /\ \A i \in DOMAIN d.tools : d.tools[i].kind # "none"
    /\ DOMAIN d.tools = 0 .. Cardinality(DOMAIN d.tools) - 1
    /\ reason = "tool_calls" => Live(d) # {}
    /\ Live(d) # DOMAIN d.tools => d.open \/ Live(d) # {}
    /\ \A i \in Live(d) : d.tools[i].id # NoId /\ (d.tools[i].kind = "function" => d.tools[i].args \in Objects)

(* applyChoiceFinish                                                        *)
ApplyFinish(d, reason) ==
    LET live == SetToSortSeq(Live(d), LAMBDA i, j : i < j)
        base == IF d.open THEN 1 ELSE 0
        call(k) == LET t == d.tools[live[k]] IN Call(t.kind, t.id, t.args)
        calls == [k \in DOMAIN live |-> ItemEvents(base + k - 1, call(k)) \o <<ItemCompleted(base + k - 1, call(k))>>]
        text == IF d.open THEN <<ItemCompleted(0, Message(<<d.text>>))>> ELSE <<>>
    IN IF ~Finishable(d, reason) THEN Fail(d)
       ELSE Emit([d EXCEPT !.finished = TRUE, !.reason = reason, !.open = FALSE, !.tools = <<>>], text \o FlattenSeq(calls))

(* handleChoiceContentFilter: open output is closed without being completed.*)
ContentFilter(d) ==
    [d EXCEPT !.finished = TRUE, !.reason = "content_filter", !.open = FALSE, !.tools = <<>>]

(* One chunk: Next, admitResponseIdentity and isIdempotentTerminalRepeat.   *)
(* choices FALSE is a chunk without a choice.                               *)
Chunk(d, id, choices, text, fragments, reason) ==
    LET finish(applied) == IF applied.fail \/ reason = "none" THEN applied ELSE ApplyFinish(applied, reason)
        settle(finished) == IF finished.fail THEN Fail(d) ELSE finished
        admitted(s) ==
          CASE ~choices -> s
            [] choices /\ d.finished -> IF reason = d.reason /\ text = <<>> /\ fragments = <<>> THEN s ELSE Fail(d)
            [] OTHER -> IF reason = "content_filter" THEN ContentFilter(s)
                        ELSE settle(finish(ApplyFragments(ApplyText(s, text), fragments)))
    IN IF NoId \notin {d.id, id} /\ d.id # id THEN Fail(d)
       ELSE admitted(Emit([d EXCEPT !.started = TRUE, !.id = IF @ = NoId THEN id ELSE @],
                          IF d.started THEN <<>> ELSE <<EnvelopeStart, Identity>>))

(* settleCompletedResponse on [DONE].                                       *)
ChatDone(d) ==
    IF ~d.finished \/ d.completed THEN d
    ELSE Emit([d EXCEPT !.completed = TRUE], <<Usage, Finish(ChatCompletion(d.reason)), EnvelopeEnd("completed")>>)

(* The reader's end.                                                        *)
ChatEOF(d) ==
    IF d.finished /\ ~d.completed
    THEN Emit([d EXCEPT !.completed = TRUE, !.open = FALSE, !.tools = <<>>], <<ErrorEvent, EnvelopeEnd("error")>>)
    ELSE Fail(d)

-----------------------------------------------------------------------------
(* decodeResponseBuffered, of a message's text and its calls; no events is  *)
(* an error.                                                                *)
DecodeChatBuffered(text, calls, reason) ==
    LET live == SelectSeq(calls, LAMBDA call : ~ErasedKind(call.kind))
        items == (IF text = <<>> THEN <<>> ELSE <<Message(<<text>>)>>)
                 \o [k \in DOMAIN live |-> Call(live[k].kind, live[k].id, live[k].text)]
    IN IF \/ \E k \in DOMAIN live : \/ live[k].kind = "none"
                                    \/ live[k].id = NoId
                                    \/ live[k].kind = "function" /\ live[k].text \notin Objects
          \/ reason # "content_filter" /\ items = <<>> /\ calls # <<>>
          \/ reason = "tool_calls" /\ live = <<>>
       THEN <<>>
       ELSE Synthesize(items, ChatCompletion(reason))
=============================================================================
