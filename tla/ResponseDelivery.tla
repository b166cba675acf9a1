-------------------------- MODULE ResponseDelivery --------------------------
(***************************************************************************)
(* One provider response on its way to the client: the validated provider  *)
(* stream, the handoff prefetch, the terminal stream, checkpoint capture,  *)
(* the checkpoint gate, the client encoder with its write-once completion  *)
(* cell, and the HTTP or websocket writer that pulls all of them.  The     *)
(* writer is one process; the disconnect watcher that closes the body is   *)
(* another.                                                                *)
(*                                                                         *)
(* An event is its kind; the kind of a response end includes its status.   *)
(* Everything a payload decides (an item the assembler refuses, a fold or  *)
(* an encoding that fails) is a choice of the step that meets it.          *)
(***************************************************************************)
EXTENDS Naturals, Sequences

CONSTANTS
    Mode,       \* deliveries: subset of Modes
    MaxItems   \* bound: item events pulled from the provider

Modes == {"sse", "generateContent", "websocket", "buffered"}
Kinds == {"start", "identity", "item", "usage", "finish", "error", "endCompleted", "endError"}

ASSUME DeliveryAssumption == Mode \subseteq Modes /\ MaxItems \in Nat

VARIABLES
    mode,       \* how the client asked to be answered
    at,         \* where the response is: prefetch, refused, read, pull, gate, encode, done
    ev,         \* the event between two stages
    pulled,     \* number of item events pulled from the provider
    validated,  \* ValidatedResponseStream
    prefix,     \* responseHandoffStream.prefix
    terminal,   \* terminalResponseStream: terminated and its pending events
    capture,    \* checkpointCaptureState
    gate,       \* checkpointTerminalGate: held, pending, terminal error set
    put,        \* the store's answer to the checkpoint: none, ok, failed
    shown,      \* what the encoder emitted for the client
    projected,  \* EnvelopeEventAdapter.completed
    completion, \* ResponseCompletion state
    refused,    \* an encoding of this response failed
    gone,       \* the client disconnected
    ctxDone,    \* the request context is cancelled
    bodyClosed, \* the client body was closed
    released,   \* the provider stream was closed
    result      \* delivery.Result kind, "none" while delivering

streams == <<pulled, validated, prefix, terminal>>
checkpoint == <<capture, gate, put>>
client == <<shown, projected, completion, refused>>
connection == <<gone, ctxDone, bodyClosed, released>>
vars == <<mode, at, ev, streams, checkpoint, client, connection, result>>

SSE == mode \in {"sse", "generateContent"}

NewValidator == [open |-> FALSE, identity |-> FALSE, items |-> FALSE, finish |-> FALSE,
                 error |-> FALSE, usage |-> FALSE, done |-> FALSE]

(* The lifecycle rules of one event.  The payload's own checks (item        *)
(* assembly, completion, settled effects) are a choice of ProviderFails.    *)
Accepts(v, k) ==
    /\ ~v.done
    /\ CASE k = "start" -> ~v.open
         [] k = "identity" -> v.open /\ ~v.identity /\ ~v.items
         [] k = "item" -> v.open /\ v.identity /\ ~v.finish /\ ~v.error
         [] k = "usage" -> v.open /\ v.identity /\ ~v.usage /\ ~v.error
         [] k = "finish" -> v.open /\ v.identity /\ ~v.finish /\ ~v.error
         [] k = "error" -> v.open /\ v.identity /\ ~v.error /\ ~v.finish
         [] k = "endCompleted" -> v.open /\ v.identity /\ v.finish /\ ~v.error
         [] k = "endError" -> v.open /\ v.error

Apply(v, k) ==
    CASE k = "start" -> [v EXCEPT !.open = TRUE]
      [] k = "identity" -> [v EXCEPT !.identity = TRUE]
      [] k = "item" -> [v EXCEPT !.items = TRUE]
      [] k = "usage" -> [v EXCEPT !.usage = TRUE]
      [] k = "finish" -> [v EXCEPT !.finish = TRUE]
      [] k = "error" -> [v EXCEPT !.error = TRUE]
      [] OTHER -> [v EXCEPT !.open = FALSE, !.done = TRUE]

(* What a provider decoder can queue next: usage, finish and the completed  *)
(* end together, and likewise an error and the failed end.                  *)
Queued(k) ==
    IF validated.error THEN k = "endError"
    ELSE IF validated.finish THEN k = "endCompleted"
    ELSE IF validated.usage THEN k = "finish"
    ELSE k \notin {"finish", "endCompleted", "endError"}

(* A read can fail, or an event be refused, but not between queued events   *)
(* that are always lawful.                                                  *)
CanFail == ~validated.error /\ (validated.usage => validated.finish)

Init ==
    /\ mode \in Mode
    /\ at = "prefetch" /\ ev = "none" /\ pulled = 0
    /\ validated = NewValidator /\ prefix = <<>>
    /\ terminal = [terminated |-> FALSE, pending |-> <<>>]
    /\ capture = "pending" /\ put = "none"
    /\ gate = [held |-> <<>>, pending |-> <<>>, terminal |-> FALSE]
    /\ shown = <<>> /\ projected = FALSE /\ completion = "pending" /\ refused = FALSE
    /\ gone = FALSE /\ ctxDone = FALSE /\ bodyClosed = FALSE /\ released = FALSE
    /\ result = "none"
-----------------------------------------------------------------------------
(* Handing the response to the client.                                     *)

responseHandoffEvent(k) ==
    k \notin (IF mode = "buffered" THEN {"start", "identity"} ELSE {"start"})

(* prefetchResponseHandoff: the attempt still belongs to fallback.          *)
Prefetch(k) ==
    /\ at = "prefetch" /\ (k = "item" => pulled < MaxItems)
    /\ Queued(k) /\ Accepts(validated, k)
    /\ pulled' = IF k = "item" THEN pulled + 1 ELSE pulled
    /\ validated' = Apply(validated, k)
    /\ prefix' = Append(prefix, k)
    /\ at' = IF responseHandoffEvent(k) THEN "read" ELSE "prefetch"
    /\ UNCHANGED <<mode, ev, terminal, checkpoint, client, connection, result>>

\* Mutant: a refused attempt leaves its provider stream open.
PrefetchFailsOpen ==
    /\ at = "prefetch"
    /\ at' = "refused"
    /\ UNCHANGED <<mode, ev, streams, checkpoint, client, connection, result>>

(* The provider fails, ends or breaks the lifecycle before the handoff.     *)
PrefetchFails ==
    /\ at = "prefetch"
    /\ at' = "refused"
    /\ released' = TRUE
    /\ UNCHANGED <<mode, ev, streams, checkpoint, client, gone, ctxDone, bodyClosed,
                   result>>
-----------------------------------------------------------------------------
(* The end of a delivery.                                                  *)

(* ResponseCompletion.fail and complete: the first call wins.               *)
Fail(c) == IF c = "pending" THEN "failed" ELSE c
Complete(c) == IF c = "pending" THEN "completed" ELSE c

streamDownstreamClosed == ctxDone \/ (SSE /\ bodyClosed)

classifyClientWriteFailure ==
    IF ctxDone \/ SSE THEN "client_cancelled" ELSE "client_write_failed"

classifyDeliveryFailure(err) ==
    IF streamDownstreamClosed \/ err = "canceled" THEN "client_cancelled"
    ELSE IF err = "checkpoint" THEN "checkpoint_commit_failed"
    ELSE "provider_stream_failed"

(* The writer returns: its deferred Close settles the completion cell and   *)
(* closes the provider stream.  c is the cell as the last call left it.     *)
Return(kind, c) ==
    /\ result' = kind
    /\ at' = "done"
    /\ completion' = Fail(c)
    /\ bodyClosed' = TRUE /\ released' = TRUE
    /\ UNCHANGED <<gone, ctxDone>>

(* Read or Next returned err.  EncodedResponseBody.TerminalError returns a  *)
(* field that is never assigned, so a streamed body that reached its end    *)
(* always counts as delivered.                                              *)
ReadError(err) ==
    Return(IF err = "eof" THEN "succeeded" ELSE classifyDeliveryFailure(err), Fail(completion))
-----------------------------------------------------------------------------
(* Pulling one event out of the terminal stream.                           *)

untouched == <<mode, checkpoint, shown, projected, refused>>

(* A streaming body looks at its context before each pull.                  *)
BeginPull ==
    /\ at = "read" /\ (mode # "buffered" => ~ctxDone)
    /\ at' = "pull"
    /\ UNCHANGED <<mode, ev, streams, checkpoint, client, connection, result>>

ReadCancelled ==
    /\ at = "read" /\ mode # "buffered" /\ ctxDone
    /\ ReadError("canceled")
    /\ UNCHANGED <<untouched, ev, streams>>

(* The gate replays what it withheld, then reports a failed commit.         *)
GateReplay ==
    /\ at = "pull" /\ gate.pending # <<>>
    /\ ev' = Head(gate.pending)
    /\ gate' = [gate EXCEPT !.pending = Tail(@)]
    /\ at' = "encode"
    /\ UNCHANGED <<mode, streams, capture, put, client, connection, result>>

GateReports ==
    /\ at = "pull" /\ gate.pending = <<>> /\ gate.terminal
    /\ ReadError("checkpoint")
    /\ UNCHANGED <<untouched, ev, streams>>

GatePulls == at = "pull" /\ gate.pending = <<>> /\ ~gate.terminal

Terminates(k) == k \in {"endCompleted", "endError"}

Received(k) ==
    /\ ev' = k
    /\ at' = "gate"
    /\ UNCHANGED <<mode, checkpoint, client, connection, result>>

TerminalReplay ==
    /\ GatePulls /\ terminal.pending # <<>>
    /\ Received(Head(terminal.pending))
    /\ terminal' = [terminal EXCEPT !.pending = Tail(@)]
    /\ UNCHANGED <<pulled, validated, prefix>>

TerminalEnded ==
    /\ GatePulls /\ terminal = [terminated |-> TRUE, pending |-> <<>>]
    /\ ReadError("eof")
    /\ UNCHANGED <<untouched, ev, streams>>

PrefixReplay ==
    /\ GatePulls /\ ~terminal.terminated /\ prefix # <<>>
    /\ Received(Head(prefix))
    /\ prefix' = Tail(prefix)
    /\ UNCHANGED <<pulled, validated, terminal>>

ProviderPulled == GatePulls /\ ~terminal.terminated /\ prefix = <<>>

ProviderEvent(k) ==
    /\ ProviderPulled /\ (k = "item" => pulled < MaxItems)
    /\ Queued(k) /\ Accepts(validated, k)
    /\ Received(k)
    /\ pulled' = IF k = "item" THEN pulled + 1 ELSE pulled
    /\ validated' = Apply(validated, k)
    /\ terminal' = [terminal EXCEPT !.terminated = Terminates(k)]
    /\ UNCHANGED prefix

(* A read failure, an early end or a refused event after the response       *)
(* started becomes one error event and one failed end.                      *)
ProviderFails ==
    /\ ProviderPulled /\ CanFail
    /\ terminal' = [terminated |-> TRUE, pending |-> <<"error", "endError">>]
    /\ UNCHANGED <<mode, at, ev, pulled, validated, prefix, checkpoint, client, connection,
                   result>>

(* Cancellation is passed on as it is; capture fails with it.               *)
ProviderCanceled ==
    /\ ProviderPulled /\ CanFail /\ (ctxDone \/ released)
    /\ capture' = "failed"
    /\ ReadError("canceled")
    /\ UNCHANGED <<mode, ev, streams, gate, put, shown, projected, refused>>
-----------------------------------------------------------------------------
(* Capture and the checkpoint gate.                                        *)

(* The capture after event k; folds: the projector (at the end also the     *)
(* projection, its transformation and binding) accepted it.  The identity   *)
(* is never one that capture refuses: BoundResponseIdentityStream has       *)
(* written into it the binding that capture compares it with.               *)
Captured(k, folds) ==
    IF capture # "pending" THEN capture
    ELSE IF ~folds \/ k = "endError" THEN "failed"
    ELSE IF k = "endCompleted" THEN "completed" ELSE "pending"

GateHolds(folds) ==
    /\ at = "gate" /\ ev = "finish"
    /\ capture' = Captured(ev, folds)
    /\ gate' = [gate EXCEPT !.held = Append(@, ev)]
    /\ at' = "pull"
    /\ UNCHANGED <<mode, ev, streams, put, client, connection, result>>

GatePasses(folds) ==
    /\ at = "gate" /\ ev # "finish" /\ ~Terminates(ev)
    /\ capture' = Captured(ev, folds)
    /\ at' = "encode"
    /\ UNCHANGED <<mode, ev, streams, gate, put, client, connection, result>>

GateReleasesFailure ==
    /\ at = "gate" /\ ev = "endError"
    /\ capture' = Captured(ev, TRUE)
    /\ gate' = [gate EXCEPT !.pending = Append(gate.held, ev), !.held = <<>>]
    /\ at' = "pull"
    /\ UNCHANGED <<mode, ev, streams, put, client, connection, result>>

GateUncaptured(folds) ==
    /\ at = "gate" /\ ev = "endCompleted"
    /\ Captured(ev, folds) # "completed"
    /\ capture' = Captured(ev, folds)
    /\ ReadError("checkpoint")
    /\ UNCHANGED <<mode, ev, streams, gate, put, shown, projected, refused>>

\* Mutant: the withheld success is released whatever the store answered.
CommittedAnyway(stored) ==
    [held |-> <<>>, pending |-> Append(gate.held, ev), terminal |-> ~stored]

(* What the gate replays once the store answered.                           *)
Committed(stored) ==
    [held |-> <<>>,
     pending |-> IF stored THEN Append(gate.held, ev) ELSE <<"error", "endError">>,
     terminal |-> ~stored]

Commit(folds, stored) ==
    /\ at = "gate" /\ ev = "endCompleted"
    /\ Captured(ev, folds) = "completed"
    /\ capture' = "completed"
    /\ put' = IF stored THEN "ok" ELSE "failed"
    /\ gate' = Committed(stored)
    /\ at' = "pull"
    /\ UNCHANGED <<mode, ev, streams, client, connection, result>>
-----------------------------------------------------------------------------
(* The client encoder and the writer.                                      *)

(* What EnvelopeEventAdapter emits for the client: one terminal at most.    *)
Tokens(k) ==
    CASE k \in {"error", "endError"} /\ ~projected -> <<"failed">>
      [] k = "endCompleted" /\ ~projected -> <<"completed">>
      [] k \in {"identity", "item"} -> <<k>>
      [] OTHER -> <<>>

\* Mutant: every end of a response completes the cell.
SettledCompleted(k, fingerprinted) ==
    IF Terminates(k) THEN Complete(completion) ELSE completion

(* The cell after the encoder saw k; at a completed end the response's      *)
(* fingerprint or its compatibility changes may still fail.                 *)
Settled(k, fingerprinted) ==
    CASE k = "endCompleted" /\ fingerprinted -> Complete(completion)
      [] Terminates(k) /\ ~(k = "endCompleted" /\ fingerprinted) -> Fail(completion)
      [] OTHER -> completion

Streaming == at = "encode" /\ mode # "buffered"
Unrepresentable == mode = "generateContent" /\ Tokens(ev) = <<"failed">>

Encoded(fingerprinted) ==
    /\ Streaming /\ ~Unrepresentable
    /\ shown' = shown \o Tokens(ev)
    /\ projected' = (projected \/ ev = "error" \/ Terminates(ev))
    /\ UNCHANGED <<mode, ev, streams, checkpoint, refused>>

Encode(fingerprinted) ==
    /\ Encoded(fingerprinted)
    /\ completion' = Settled(ev, fingerprinted)
    /\ at' = "read"
    /\ UNCHANGED <<connection, result>>

WriteFails(fingerprinted) ==
    /\ Encoded(fingerprinted) /\ Tokens(ev) # <<>>
    /\ Return(classifyClientWriteFailure, Settled(ev, fingerprinted))

(* Where a failure lies when the encoder or the document cannot carry it.   *)
TerminalFailureCause == IF gate.terminal THEN "checkpoint" ELSE "failed"

EncodeUnrepresentable ==
    /\ Streaming /\ Unrepresentable
    /\ ReadError(TerminalFailureCause)
    /\ UNCHANGED <<mode, ev, streams, checkpoint, shown, projected, refused>>

EncodeFails ==
    /\ Streaming
    /\ refused' = TRUE
    /\ ReadError("failed")
    /\ UNCHANGED <<mode, ev, streams, checkpoint, shown, projected>>

(* bufferedClientBody.prepare reads the whole envelope first.               *)
Collect ==
    /\ at = "encode" /\ mode = "buffered" /\ ~Terminates(ev)
    /\ at' = "pull"
    /\ UNCHANGED <<mode, ev, streams, checkpoint, client, connection, result>>

DocumentFails ==
    /\ at = "encode" /\ mode = "buffered" /\ ev = "endError"
    /\ ReadError(TerminalFailureCause)
    /\ UNCHANGED <<mode, ev, streams, checkpoint, shown, projected, refused>>

DocumentRefused ==
    /\ at = "encode" /\ mode = "buffered" /\ ev = "endCompleted"
    /\ refused' = TRUE
    /\ ReadError("failed")
    /\ UNCHANGED <<mode, ev, streams, checkpoint, shown, projected>>

(* The whole document is written; a failure after the first byte is         *)
(* classified as a failed read.                                             *)
WriteDocument(kind, fingerprinted) ==
    /\ at = "encode" /\ mode = "buffered" /\ ev = "endCompleted"
    /\ kind \in {"succeeded", classifyClientWriteFailure, classifyDeliveryFailure("failed")}
    /\ shown' = <<"completed">>
    /\ Return(kind, Settled(ev, fingerprinted))
    /\ UNCHANGED <<mode, ev, streams, checkpoint, projected, refused>>
-----------------------------------------------------------------------------
(* The client and its watcher.                                             *)

Handed == at \in {"read", "pull", "gate", "encode"}

ClientGone ==
    /\ ~gone /\ at \notin {"done", "refused"}
    /\ gone' = TRUE
    /\ UNCHANGED <<mode, at, ev, streams, checkpoint, client, ctxDone, bodyClosed, released,
                   result>>

ContextCancelled ==
    /\ gone /\ ~ctxDone /\ at \notin {"done", "refused"}
    /\ ctxDone' = TRUE
    /\ UNCHANGED <<mode, at, ev, streams, checkpoint, client, gone, bodyClosed, released,
                   result>>

(* writeStreamingSuccess closes the body from another goroutine.            *)
WatcherCloses ==
    /\ SSE /\ gone /\ Handed /\ ~bodyClosed
    /\ bodyClosed' = TRUE /\ released' = TRUE
    /\ completion' = Fail(completion)
    /\ UNCHANGED <<mode, at, ev, streams, checkpoint, shown, projected, refused, gone, ctxDone,
                   result>>

Provider == (\E k \in Kinds : ProviderEvent(k)) \/ ProviderFails \/ ProviderCanceled

Gate ==
    \/ \E folds \in BOOLEAN : GateHolds(folds) \/ GatePasses(folds) \/ GateUncaptured(folds)
    \/ \E folds, stored \in BOOLEAN : Commit(folds, stored)
    \/ GateReleasesFailure

Writer ==
    \/ BeginPull \/ ReadCancelled \/ GateReplay \/ GateReports
    \/ TerminalReplay \/ TerminalEnded \/ PrefixReplay
    \/ Gate
    \/ \E fingerprinted \in BOOLEAN : Encode(fingerprinted) \/ WriteFails(fingerprinted)
    \/ EncodeUnrepresentable \/ EncodeFails
    \/ Collect \/ DocumentFails \/ DocumentRefused
    \/ \E kind \in {"succeeded", "client_cancelled", "client_write_failed", "provider_stream_failed"},
          fingerprinted \in BOOLEAN : WriteDocument(kind, fingerprinted)

Next ==
    \/ \E k \in Kinds : Prefetch(k)
    \/ PrefetchFails
    \/ Provider \/ Writer
    \/ ClientGone \/ ContextCancelled \/ WatcherCloses

Spec == Init /\ [][Next]_vars

(* The writer's own steps are never blocked.  A provider may stay silent    *)
(* for ever, but a read of a cancelled request or a closed body returns.    *)
FairSpec ==
    /\ Spec
    /\ WF_vars(Writer)
    /\ WF_vars(ContextCancelled)
    /\ WF_vars(WatcherCloses)
    /\ WF_vars((ctxDone \/ released) /\ Provider)
    /\ WF_vars(ctxDone /\ PrefetchFails)
-----------------------------------------------------------------------------
(* Every variable keeps its type; the handoff prefix and the withheld       *)
(* events stay as short as prefetchResponseHandoff and the gate assume.     *)
TypeOK ==
    /\ mode \in Mode
    /\ at \in {"prefetch", "refused", "read", "pull", "gate", "encode", "done"}
    /\ ev \in Kinds \cup {"none"} /\ pulled \in 0..MaxItems
    /\ prefix \in Seq(Kinds) /\ Len(prefix) <= 5 + MaxItems
    /\ terminal.terminated \in BOOLEAN /\ terminal.pending \in Seq({"error", "endError"})
    /\ capture \in {"pending", "completed", "failed"} /\ put \in {"none", "ok", "failed"}
    /\ gate.held \in {<<>>, <<"finish">>} /\ Len(gate.pending) <= 2 /\ gate.terminal \in BOOLEAN
    /\ shown \in Seq({"identity", "item", "failed", "completed"})
    /\ completion \in {"pending", "completed", "failed"}
    /\ {projected, refused, gone, ctxDone, bodyClosed, released} \subseteq BOOLEAN
    /\ result \in {"none", "succeeded", "client_cancelled", "client_write_failed",
                    "provider_stream_failed", "checkpoint_commit_failed"}
    /\ validated \in [DOMAIN NewValidator -> BOOLEAN]

ToldCompleted == \E i \in DOMAIN shown : shown[i] = "completed"

(* No client is told that a response completed before its checkpoint is in  *)
(* the store (checkpointTerminalGate), whatever the store, the encoder and  *)
(* the disconnect watcher do.                                               *)
SuccessGatedOnCheckpoint == ToldCompleted => put = "ok"

(* Only a whole response is stored: one the validator saw completed and the *)
(* capture folded to its end (checkpointCaptureResponseStream).             *)
CheckpointIsWholeResponse ==
    put # "none" => capture = "completed" /\ validated.done /\ validated.finish /\ ~validated.error

(* The client sees at most one terminal and nothing after it, also when a   *)
(* failure event, a withheld finish and a failed end follow one another.    *)
OneTerminalPerResponse ==
    \A i \in DOMAIN shown : shown[i] \in {"failed", "completed"} => i = Len(shown)

(* The completion cell says completed only of a stored response that the    *)
(* client encoding told as completed.                                       *)
CompletionTruthful == completion = "completed" => put = "ok" /\ ToldCompleted

(* A failed checkpoint commit reaches the delivery result as such, unless   *)
(* the client left first or the failure itself could not be encoded.        *)
CheckpointFailureReported ==
    put = "failed" /\ result # "none" /\ ~refused =>
        result \in {"checkpoint_commit_failed", "client_cancelled", "client_write_failed"}

(* What holds of one delivery at any moment, whichever stage fails: whole   *)
(* checkpoints, one terminal for the client, the checkpoint's failure told, *)
(* and a completion cell that says the truth.                               *)
DeliveryInv ==
    /\ TypeOK
    /\ CheckpointIsWholeResponse
    /\ OneTerminalPerResponse
    /\ CheckpointFailureReported
    /\ CompletionTruthful

(* When the client leaves, the attempt or the delivery ends, the completion *)
(* cell is settled and the provider stream is closed.                       *)
DisconnectEndsDelivery ==
    gone ~> released /\ (at = "refused" \/ (result # "none" /\ completion # "pending"))
=============================================================================
