-------------------------- MODULE CanonicalStream --------------------------
(***************************************************************************)
(* The canonical response stream every provider decoder writes and every   *)
(* client encoder reads: items and events, the assembler that checks        *)
(* progressive facts against the completed item, the matcher that pairs     *)
(* tool calls with their results, the validator in front of the exchange,   *)
(* and the projector that folds the stream into the response that is kept.  *)
(*                                                                         *)
(* A text is a sequence of chunks.  The arguments of a call parse as a JSON *)
(* object exactly when they are one of Objects.  A search call's only part  *)
(* is its typed action.  The parts of a reasoning item are its summaries,   *)
(* and last the opaque replay in the dialect of its provider, when it has   *)
(* one.  A Thought is a summary when the request asked for summaries, and a *)
(* trace otherwise.                                                         *)
(***************************************************************************)
EXTENDS Naturals, Sequences, FiniteSets, FiniteSetsExt, Functions

EmptyObject == <<"{}">>
Object == <<"{", "}">>
Objects == {EmptyObject, Object}
NoId == "none"
Opaque(dialect) == <<"opaque", dialect>>
Thought(text) == <<"thought">> \o text

Item(kind, tool, id, parts) == [kind |-> kind, tool |-> tool, id |-> id, parts |-> parts]
Message(parts) == Item("message", "none", NoId, parts)
Reasoning(parts) == Item("reasoning", "none", NoId, parts)
Call(tool, id, input) == Item("call", tool, id, <<input>>)
Result(tool, id) == Item("result", tool, id, <<>>)

EnvelopeStart == [kind |-> "start"]
Identity == [kind |-> "identity"]
ItemStart(n, item) == [kind |-> "itemStart", ord |-> n, item |-> [item EXCEPT !.parts = <<>>]]
ContentStart(n, p) == [kind |-> "contentStart", ord |-> n, part |-> p]
TextDelta(n, p, text) == [kind |-> "text", ord |-> n, part |-> p, text |-> text]
ArgsDelta(n, text) == [kind |-> "args", ord |-> n, text |-> text]
ItemCompleted(n, item) == [kind |-> "itemCompleted", ord |-> n, item |-> item]
Usage == [kind |-> "usage"]
Finish(class) == [kind |-> "finish", class |-> class]
ErrorEvent == [kind |-> "error"]
EnvelopeEnd(status) == [kind |-> "end", status |-> status]

(* A provider decoder is a record with the events of the frame at hand in   *)
(* "out", and "fail" when the frame made it return an error: the reader     *)
(* stops there, and events the frame had queued are never read.             *)
Emit(d, events) == [d EXCEPT !.out = @ \o events]
Fail(d) == [d EXCEPT !.fail = TRUE, !.out = <<>>]

ItemEventKinds == {"itemStart", "contentStart", "text", "args", "itemCompleted"}

-----------------------------------------------------------------------------
(* itemStreamAssembler: by ordinal, what was started and streamed, and the  *)
(* completed item once it is there.                                         *)

NewAssembler == <<>>
Unstarted == Item("none", "none", NoId, <<>>)
Started(item) == [start |-> item, args |-> <<>>, parts |-> <<>>, completed |-> FALSE, item |-> Unstarted]
State(a, n) == IF n \in DOMAIN a THEN a[n] ELSE Started(Unstarted)

CompletesWithoutStart(item) == item.kind \in {"result", "reasoning"}

(* validateCompletedItem: the completed item says what was streamed.        *)
ValidCompletion(s, item) ==
    IF s.start.kind = "none" THEN CompletesWithoutStart(item)
    ELSE /\ item.kind = s.start.kind
         /\ \/ item.kind = "message" /\ item.parts = s.parts
            \/ /\ item.kind = "call"
               /\ <<item.id, item.tool>> = <<s.start.id, s.start.tool>>
               /\ CASE item.tool = "search" -> s.args = <<>>
                    [] item.tool = "custom" -> s.args = item.parts[1]
                    [] OTHER -> s.args \in Objects /\ item.parts = <<s.args>>

Assembles(a, e) ==
    LET s == State(a, e.ord) IN
    CASE e.kind = "itemStart" -> e.ord \notin DOMAIN a
      [] e.kind = "args" -> s.start.kind = "call" /\ ~s.completed
      [] e.kind = "contentStart" -> s.start.kind = "message" /\ ~s.completed /\ e.part = Len(s.parts)
      [] e.kind = "text" -> s.start.kind = "message" /\ ~s.completed /\ e.part < Len(s.parts)
      [] e.kind = "itemCompleted" -> ~s.completed /\ ValidCompletion(s, e.item)

Assemble(a, e) ==
    LET s == State(a, e.ord)
        t == CASE e.kind = "itemStart" -> Started(e.item)
               [] e.kind = "args" -> [s EXCEPT !.args = @ \o e.text]
               [] e.kind = "contentStart" -> [s EXCEPT !.parts = Append(@, <<>>)]
               [] e.kind = "text" -> [s EXCEPT !.parts[e.part + 1] = @ \o e.text]
               [] e.kind = "itemCompleted" -> [s EXCEPT !.completed = TRUE, !.item = e.item]
    IN [n \in DOMAIN a \cup {e.ord} |-> IF n = e.ord THEN t ELSE a[n]]

(* completedItems: every ordinal completed, and the ordinals contiguous.    *)
AllCompleted(a) ==
    /\ \A n \in DOMAIN a : a[n].completed
    /\ DOMAIN a = 0 .. Cardinality(DOMAIN a) - 1

CompletedItems(a) == [k \in 1 .. Cardinality(DOMAIN a) |-> a[k - 1].item]

-----------------------------------------------------------------------------
(* ToolEffectMatcher: the pending calls, from call id to the tool's kind.   *)
(* A "discovery" call is executed by the caller, a "providerDiscovery" call *)
(* by the provider.  A content result answers function and custom calls.    *)

Answers(result, tool) ==
    \/ result = tool /\ tool \in {"search", "discovery", "providerDiscovery"}
    \/ result = "content" /\ tool \in {"function", "custom"}

AcceptsEffect(pending, item) ==
    /\ item.kind = "call" => item.id \notin DOMAIN pending
    /\ item.kind = "result" => item.id \in DOMAIN pending /\ Answers(item.tool, pending[item.id])

AcceptEffect(pending, item) ==
    CASE item.kind = "call" -> [i \in DOMAIN pending \cup {item.id} |-> IF i = item.id THEN item.tool ELSE pending[i]]
      [] item.kind = "result" -> Restrict(pending, DOMAIN pending \ {item.id})
      [] OTHER -> pending

(* responseEffectGuard.RequireSettled                                       *)
Settled(pending) == Range(pending) \cap {"search", "providerDiscovery"} = {}

(* validateResponseItem: content results and client discoveries belong to   *)
(* requests.                                                                *)
ResponseItem(item) == item.kind = "result" => item.tool \in {"search", "providerDiscovery"}

RECURSIVE EffectsOf(_, _)
EffectsOf(items, pending) ==
    IF items = <<>> THEN [valid |-> TRUE, pending |-> pending]
    ELSE IF ~(ResponseItem(items[1]) /\ AcceptsEffect(pending, items[1]))
    THEN [valid |-> FALSE, pending |-> pending]
    ELSE EffectsOf(Tail(items), AcceptEffect(pending, items[1]))

(* NewCanonicalResponse: items in ordinal order, settled when it completed. *)
ValidResponse(items, class) ==
    LET effects == EffectsOf(items, <<>>)
    IN effects.valid /\ (class = "completed" => Settled(effects.pending))

-----------------------------------------------------------------------------
(* ValidatedResponseStream.  Event sequence numbers are left out: each      *)
(* decoder counts its own events up from one.                               *)

NewValidator == [open |-> FALSE, identity |-> FALSE, items |-> FALSE, usage |-> FALSE, error |-> FALSE,
                 finish |-> "none", done |-> FALSE, asm |-> NewAssembler, pending |-> <<>>]

(* Mutant: completed items are not matched with pending calls.              *)
ValidatesUnmatched(v, e) ==
    LET ready == v.open /\ v.identity IN
    /\ ~v.done
    /\ CASE e.kind = "start" -> ~v.open
         [] e.kind = "identity" -> v.open /\ ~v.identity
         [] e.kind \in ItemEventKinds -> ready /\ v.finish = "none" /\ Assembles(v.asm, e)
         [] e.kind = "end" /\ e.status = "completed" -> AllCompleted(v.asm) /\ v.finish # "none"
         [] OTHER -> ready

Validates(v, e) ==
    LET ready == v.open /\ v.identity IN
    /\ ~v.done
    /\ CASE e.kind = "start" -> ~v.open
         [] e.kind = "identity" -> v.open /\ ~v.identity /\ ~v.items
         [] e.kind \in ItemEventKinds ->
               /\ ready /\ v.finish = "none" /\ ~v.error
               /\ e.kind = "itemCompleted" => ResponseItem(e.item)
               /\ Assembles(v.asm, e)
               /\ e.kind = "itemCompleted" => AcceptsEffect(v.pending, e.item)
         [] e.kind = "usage" -> ready /\ ~v.usage /\ ~v.error
         [] e.kind = "finish" -> ready /\ v.finish = "none" /\ ~v.error
         [] e.kind = "error" -> ready /\ ~v.error /\ v.finish = "none"
         [] e.kind = "end" /\ e.status = "completed" ->
               /\ ready /\ AllCompleted(v.asm) /\ ~v.error /\ v.finish # "none"
               /\ v.finish = "completed" => Settled(v.pending)
         [] e.kind = "end" /\ e.status = "error" -> v.open /\ v.error

Validate(v, e) ==
    CASE e.kind = "start" -> [v EXCEPT !.open = TRUE]
      [] e.kind = "identity" -> [v EXCEPT !.identity = TRUE]
      [] e.kind \in ItemEventKinds ->
            [v EXCEPT !.items = TRUE, !.asm = Assemble(@, e),
                      !.pending = IF e.kind = "itemCompleted" THEN AcceptEffect(@, e.item) ELSE @]
      [] e.kind = "usage" -> [v EXCEPT !.usage = TRUE]
      [] e.kind = "finish" -> [v EXCEPT !.finish = e.class]
      [] e.kind = "error" -> [v EXCEPT !.error = TRUE]
      [] e.kind = "end" -> [v EXCEPT !.open = FALSE, !.done = TRUE]

-----------------------------------------------------------------------------
(* ResponseProjector: what the checkpoint keeps of the stream.              *)

NewProjector == [started |-> FALSE, ended |-> FALSE, failed |-> FALSE, class |-> "none", asm |-> NewAssembler]

Project(p, e) ==
    CASE p.failed -> p
      [] p.ended -> [p EXCEPT !.failed = TRUE]
      [] e.kind = "start" -> [p EXCEPT !.started = TRUE, !.failed = p.started]
      [] e.kind \in ItemEventKinds ->
            IF Assembles(p.asm, e) THEN [p EXCEPT !.asm = Assemble(@, e)] ELSE [p EXCEPT !.failed = TRUE]
      [] e.kind = "finish" -> [p EXCEPT !.class = e.class]
      [] e.kind = "error" -> [p EXCEPT !.failed = TRUE]
      [] e.kind = "end" -> [p EXCEPT !.ended = TRUE, !.failed = ~p.started \/ e.status # "completed"]
      [] OTHER -> p

(* Done: the stream projects to a response that may be kept.                *)
Projects(p) ==
    /\ ~p.failed /\ p.ended
    /\ AllCompleted(p.asm)
    /\ ValidResponse(CompletedItems(p.asm), p.class)

-----------------------------------------------------------------------------
(* SynthesizeResponseEnvelopeEvents: a buffered response as a stream.       *)

RECURSIVE PartEvents(_, _, _)
PartEvents(n, p, parts) ==
    IF p = Len(parts) THEN <<>>
    ELSE <<ContentStart(n, p), TextDelta(n, p, parts[p + 1])>> \o PartEvents(n, p + 1, parts)

ItemEvents(n, item) ==
    CASE item.kind = "message" -> <<ItemStart(n, item)>> \o PartEvents(n, 0, item.parts)
      [] item.kind = "call" /\ item.tool # "search" -> <<ItemStart(n, item), ArgsDelta(n, item.parts[1])>>
      [] item.kind = "call" /\ item.tool = "search" -> <<ItemStart(n, item)>>
      [] OTHER -> <<>>

RECURSIVE SynthesizeFrom(_, _)
SynthesizeFrom(n, items) ==
    IF items = <<>> THEN <<>>
    ELSE ItemEvents(n, items[1]) \o <<ItemCompleted(n, items[1])>> \o SynthesizeFrom(n + 1, Tail(items))

Synthesize(items, class) ==
    <<EnvelopeStart, Identity>> \o SynthesizeFrom(0, items) \o <<Usage, Finish(class), EnvelopeEnd("completed")>>
=============================================================================
