------------------------ MODULE InteractionsDecoder ------------------------
(***************************************************************************)
(* The decoder of a Gemini Interactions provider.  Steps start in index     *)
(* order and may then run and stop in any order.  A step takes its          *)
(* canonical ordinal when it starts, a thought when it stops, and a thought *)
(* with nothing in it takes none.                                           *)
(*                                                                         *)
(* A step has a type, an id (NoId when omitted or unresolvable), arguments  *)
(* (of a call or a search; empty when omitted), and a text: what its deltas *)
(* accumulate.  Citations and usage are left out, and the interaction id is *)
(* a Boolean: it is the one of interaction.created.                         *)
(***************************************************************************)
EXTENDS CanonicalStream

WebQuery == <<"q">>
StepTypes == {"model_output", "thought", "function_call", "google_search_call", "google_search_result"}

NewInteractionsDecoder == [started |-> FALSE, finished |-> FALSE, steps |-> <<>>, nextStep |-> 0, nextItem |-> 0,
                           calls |-> 0, searches |-> {}, out |-> <<>>, fail |-> FALSE]

(* Next and handle: a frame needs an open interaction.                      *)
InInteraction(d) == d.started /\ ~d.finished

(* handleCreated *)
InteractionCreated(d) ==
    IF d.started THEN Fail(d) ELSE Emit([d EXCEPT !.started = TRUE], <<EnvelopeStart, Identity>>)

(* newGoogleSearchResultStep: the call is open or was completed.            *)
Correlated(d, id) ==
    \/ id \in d.searches
    \/ \E i \in DOMAIN d.steps : d.steps[i].type = "google_search_call" /\ d.steps[i].id = id

(* handleStepStart, installFunctionCall and the search constructors.  An    *)
(* empty object at the start of a call is a placeholder, never streamed.    *)
StepStart(d, i, type, id, args, signed) ==
    LET step == [type |-> type, ord |-> d.nextItem, id |-> id, args |-> args, text |-> <<>>,
                 signed |-> signed, result |-> "none"]
        events == CASE type = "model_output" -> <<ItemStart(step.ord, Message(<<>>)), ContentStart(step.ord, 0)>>
                    [] type = "function_call" ->
                          <<ItemStart(step.ord, Call("function", id, <<>>))>>
                          \o (IF args \in {<<>>, EmptyObject} THEN <<>> ELSE <<ArgsDelta(step.ord, args)>>)
                    [] type = "google_search_call" -> <<ItemStart(step.ord, Call("search", id, <<>>))>>
                    [] OTHER -> <<>>
    IN IF \/ ~InInteraction(d)
          \/ i # d.nextStep
          \/ type \notin StepTypes
          \/ type \notin {"model_output", "thought"} /\ id = NoId
          \/ type = "function_call" /\ args \notin Objects \cup {<<>>}
          \/ type = "google_search_result" /\ ~Correlated(d, id)
       THEN Fail(d)
       ELSE Emit([d EXCEPT !.steps = [j \in DOMAIN d.steps \cup {i} |-> IF j = i THEN step ELSE d.steps[j]],
                           !.nextStep = @ + 1,
                           !.nextItem = IF type = "thought" THEN @ ELSE @ + 1], events)

(* handleStepDelta.  The content of a delta is a text, the arguments of a   *)
(* call or the result of a search ("error", "suggestions"); a repeated      *)
(* function_call must repeat the start.                                     *)
StepDelta(d, i, delta, id, content, signed) ==
    LET step == d.steps[i] IN
    CASE ~InInteraction(d) \/ i \notin DOMAIN d.steps -> Fail(d)
      [] OTHER ->
            CASE step.type = "model_output" /\ delta = "text" ->
                    Emit([d EXCEPT !.steps[i].text = @ \o content], <<TextDelta(step.ord, 0, content)>>)
              [] step.type = "thought" /\ delta = "thought_summary" -> [d EXCEPT !.steps[i].text = @ \o content]
              [] step.type = "thought" /\ delta = "thought_signature" -> [d EXCEPT !.steps[i].signed = TRUE]
              [] step.type = "function_call" /\ delta = "function_call" ->
                    IF <<id, content>> = <<step.id, step.args>> THEN d ELSE Fail(d)
              [] step.type = "function_call" /\ delta = "arguments_delta" /\ content # <<>> ->
                    Emit([d EXCEPT !.steps[i].text = @ \o content], <<ArgsDelta(step.ord, content)>>)
              [] step.type = "google_search_call" /\ delta = "google_search_call" ->
                    [d EXCEPT !.steps[i].args = IF content = <<>> THEN @ ELSE content, !.steps[i].signed = @ \/ signed]
              [] step.type = "google_search_result" /\ delta = "google_search_result" ->
                    [d EXCEPT !.steps[i].result = IF content = <<>> THEN "none" ELSE content[1],
                              !.steps[i].signed = @ \/ signed]
              [] OTHER -> Fail(d)

(* The arguments of a call at its stop.                                     *)
StepArgs(step) == IF step.text = <<>> THEN step.args ELSE step.text

StepComplete(step) ==
    CASE step.type = "function_call" ->
            /\ StepArgs(step) \in Objects
            /\ step.text # <<>> => step.args \in {<<>>, EmptyObject, step.text}
      [] step.type = "google_search_call" -> step.signed /\ step.args = WebQuery
      [] step.type = "google_search_result" -> step.signed /\ step.result \in {"error", "suggestions"}
      [] OTHER -> TRUE

StepItem(step) ==
    CASE step.type = "model_output" -> Message(<<step.text>>)
      [] step.type = "thought" ->
            Reasoning((IF step.text = <<>> THEN <<>> ELSE <<step.text>>)
                      \o (IF step.signed THEN <<Opaque("interactions")>> ELSE <<>>))
      [] step.type = "function_call" -> Call("function", step.id, StepArgs(step))
      [] step.type = "google_search_call" -> Call("search", step.id, step.args)
      [] OTHER -> Result("search", step.id)

(* handleStepStop *)
StepStop(d, i) ==
    LET step == d.steps[i]
        closed == [d EXCEPT !.steps = Restrict(@, DOMAIN @ \ {i})]
        thought == step.type = "thought"
        ord == IF thought THEN d.nextItem ELSE step.ord
    IN CASE ~InInteraction(d) \/ i \notin DOMAIN d.steps -> Fail(d)
         [] OTHER ->
               IF ~StepComplete(step) THEN Fail(d)
               ELSE IF thought /\ step.text = <<>> /\ ~step.signed THEN closed
               ELSE Emit([closed EXCEPT !.nextItem = IF thought THEN @ + 1 ELSE @,
                                        !.calls = IF step.type = "function_call" THEN @ + 1 ELSE @,
                                        !.searches = IF step.type = "google_search_call" THEN @ \cup {step.id} ELSE @],
                         <<ItemCompleted(ord, StepItem(step))>>)

(* handleCompleted *)
InteractionCompleted(d, sameID, status) ==
    IF \/ ~InInteraction(d)
       \/ DOMAIN d.steps # {}
       \/ ~sameID
       \/ status = "requires_action" /\ d.calls = 0
       \/ status \notin {"completed", "incomplete", "failed", "cancelled", "requires_action"}
    THEN Fail(d)
    ELSE Emit([d EXCEPT !.finished = TRUE],
              IF status \in {"failed", "cancelled"} THEN <<ErrorEvent, EnvelopeEnd("error")>>
              ELSE <<Usage, Finish(IF status = "incomplete" THEN "incomplete" ELSE "completed"), EnvelopeEnd("completed")>>)

(* handleStatusUpdate *)
StatusUpdate(d, sameID, status) ==
    IF InInteraction(d) /\ sameID /\ status \in {"in_progress", "requires_action"} THEN d ELSE Fail(d)

(* handleError: an error is part of the stream only while a step is open.   *)
InteractionError(d) ==
    IF d.finished \/ DOMAIN d.steps = {} THEN Fail(d)
    ELSE Emit([d EXCEPT !.finished = TRUE], <<ErrorEvent, EnvelopeEnd("error")>>)

(* The reader's end.                                                        *)
InteractionsEOF(d) ==
    IF ~InInteraction(d) THEN Fail(d)
    ELSE Emit([d EXCEPT !.finished = TRUE], <<ErrorEvent, EnvelopeEnd("error")>>)
=============================================================================
