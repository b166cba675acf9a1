# Swobu in TLA+

Specifications of the parts of Swobu that keep state, with model-checking runs
(TLC) and machine-checked proofs (TLAPS). Swobu is a local switchboard for LLM
traffic: coding agents send requests in one of four protocols to a daemon, the
daemon resolves the model name to a *route* of *targets*, calls providers until
one answers, and streams the answer back. Paths below are relative to
`src/internal/`.

## 1. Inventory

### Parts, their state and their operations

| Part (source) | State | Operations |
|---|---|---|
| Target backoff ledger (`exchange/target_backoff.go`) | per target generation: suppression record, ordering state of its calls | `snapshot`, `begin`, `observe`, `cleanup` |
| Exchange reducer and loop (`exchange/exchange_state.go`, `exchange_loop.go`, `mcp_*.go`) | phase, candidate, attempts, tool round, MCP Run | one reduction per event, the effect that each state asks for |
| MCP Run (`mcp/run.go`, `client.go`) | sessions, catalogs, bindings, byte budget | open with paged listing, `Call`, `Close` |
| Response delivery (`exchange/*_stream.go`, `checkpoint_*.go`, `wire/codec.go`, `adapters/inbound/httpapi/response_encode.go`) | a pipeline of six streams, the completion cell | `Next` of each stage, `Read`, `Close`, disconnect watcher |
| Continuity store (`continuity/store_memory.go`) | checkpoints, shared segments, history index, expiry heap | `Put`, `Get`, `FindByHistory`, expiry, eviction |
| Routing aggregate and document (`routing/`, `configstore/codec.go`) | workspaces, routes, targets, versions, generations | every edit, encode, decode |
| Configuration store (`configstore/store.go`) | published snapshot, file, lock | `Open`, `UpdatePrepared`, `Close` |
| Share grants, commands, runtime (`sharestate/`, `app/operator/shares/`, `sharetransport/`) | grants in memory and on disk, runtime on or off, leases | issue, revoke, expire, reconcile, authenticate |
| Workspace commands (`app/operator/workspaces/`, `routebindings/`) | the bindings lock | create, rename, delete, edit |
| ChatGPT login (`app/operator/chatgptlogin/`) | sessions, callback server, its count and idle timer | start, callback, poll, cancel, evict |
| Daemon and lifecycle commands (`bootstrap/daemon.go`, `app/operator/daemonlifecycle/`) | process phase, lock, address, requests in flight | start, serve, close; attach or start, down, restart |
| Product telemetry (`producttelemetry/`) | preference, aggregate, pending report, channel | observe, poll, flush, upload, close |
| Canonical model (`domain/canonical/`) | items of a conversation, open items of one stream, unanswered calls | validate, match calls with results, assemble, project |
| Wire codecs (`wire/`, the Gemini codec) | open items and indexes of one stream | decode a request or a response, encode one, streamed or whole |
| Provider adapters (`adapters/outbound/providers/`), profiles (`profile/`) | none between calls | one call with its dialect |
| Client connection (`clientconnect/`) | files of the agents | plan, apply |
| Credentials, auth plane (`adapters/outbound/credentials/`, `app/operator/authplane/`) | secret files, subject of a login session | resolve, store, start, poll |
| Traffic evidence (`adapters/outbound/trafficevidence/`) | a bounded log | append, project |
| Cockpit (`cockpit/`), CLI (`adapters/inbound/cli/`) | forms, focus, read model | keys, commands to the daemon |

How they interact. An exchange freezes a backoff snapshot and a configuration
snapshot when it starts, may resume a checkpoint, opens an MCP Run when the
request declares remote tools, makes provider calls that report to the ledger,
and hands the winning response to delivery, which commits a checkpoint before it
shows success. Between the two protocols of an exchange everything is canonical:
a client's request is decoded into items, items are encoded for the target, the
target's stream is decoded into canonical events, and those are encoded for the
client and kept as the history that the client's next request must match. Workspace commands edit the configuration and revoke the Share
grants of names that end. The daemon owns the configuration lock for as long as
it serves; Close ends requests, then telemetry, the Share runtime and the store.

### What makes them hard

* calls of many exchanges finish in any order against one ledger;
* a rejected call is retried in another form, a failed one at another target,
  and after a tool round neither is allowed;
* success must wait for the checkpoint while the client may leave at any moment;
* checkpoints share segments that expiry and eviction take away;
* two files (configuration and grants) change in one command, with a crash
  between them;
* locks are released around token exchanges and relay connections;
* several processes guess from a status request whether a daemon runs;
* a response is decoded, validated, kept and encoded by parts that each have their
  own idea of when an item is over, streamed and whole, in four protocols;
* call ids are used again in a conversation, and each protocol pairs calls with
  results in its own way.

PROJECT.json lists each hazard at its line, with the properties that cover it.

## 2. Modules

One module per component. `MCx` instantiates a module for TLC. Nondeterministic
outcomes (a provider's answer, a failed write, what a peer sends) are parameters
of the action that meets them. An operator named in a `Mutant:` comment is a wrong
variant of the definition that follows it, kept to show that the property
concerned would notice; no specification uses it.

| Module | Models | Abstracts |
|---|---|---|
| `TargetBackoff` | the ledger with any number of exchanges and a clock | provider results to the classes `observe` tells apart |
| `RoutingConfig` | edits, versions, generations, encode and decode | a draft to the settings `FinalizeTarget` makes of it |
| `Exchange` | the reducer with all phases, the loop, recovery, tool rounds and budget | requests and responses to the facts the reducer branches on |
| `RouteRecovery` | abstract: which provider calls an exchange may make | everything else |
| `MCPRun` | opening, listing, budgets, binding and closing of a Run | schemas to sizes |
| `ResponseDelivery` | provider stream to delivery result, four modes | an event to its kind |
| `LocalTools` | both together: a Run, its tool rounds, the delayed handoff and the delivery | which tool a call names |
| `ContinuityStore` | the store and the exchanges that resume and commit | items to contributions with a part, a fingerprint to what it fingerprints |
| `ChatGPTLogin` | sessions, callback server, timers that fire late | URLs and tokens |
| `ShareBindings` | configuration store, workspace and Share commands, grants, Share requests | routes to their names; the connector to ready or not |
| `ProductTelemetry` | the actor, the preference file, uploads | a row to its event and revision |
| `DaemonLifecycle` | daemon processes and lifecycle commands | a handler to a count, a status answer to its class |
| `CanonicalStream` | items, events, assembler, matcher, validator, projector | a text to a sequence of chunks, JSON to its delimiters |
| `ResponsesDecoder`, `MessagesDecoder`, `ChatDecoder`, `InteractionsDecoder` | provider streams to canonical events, and whole responses | usage, citations |
| `ClientEncoders` | canonical events to four client streams and documents, and the fingerprint of each | usage, citations, ids of written items |
| `Translation` | a provider's stream through all of them | |
| `CanonicalRequest` | items, prelude, tool environment, matcher, validation | a declaration to tool and variant |
| `ChatRequests`, `ResponsesRequests`, `MessagesRequests`, `InteractionsRequests`, `ContentRequests` | client documents to items, items to provider documents | generation controls, output formats |
| `Conversation` | a history that grows and is sent to any target | |

Compositions: `LocalTools` joins `MCPRun` and `ResponseDelivery` along one request;
`ShareBindings` joins four components that meet in one command; `Translation` and
`Conversation` join the codecs along a response and along a request. `MCTargets`
and `MCStateFiles` only let one run check two modules, one per behaviour.
`Exchange` is shown to implement `RouteRecovery`: the refinement mapping takes the
last called candidate, the calls of it in the current round and the round number.

### Correspondence to the code

*TargetBackoff.* `records` and `observations` are the two maps; a missing entry
is `NoRecord` or the zero state, as a Go map lookup gives. `calls[x]` is the
`targetObservation` a runner holds during I/O. `begin` and `observe` are one
action each because the ledger holds its mutex throughout; the provider call is
the gap between them. `ingressOrder`, `failureOrder` and `windowEnd` are history
variables for the properties: the newest answered and the newest suppressing
call, and the end of the last window.

*Exchange.* `s` is `exchangeState`; each `reduce…` action is a reducer of the
same name together with the effect that produced its event, and `steps` counts
reductions. `sessions` is what the MCP Run holds outside the state. Candidates
are positions in the plan; `input.backoff` is the frozen snapshot.

*MCPRun.* `live` is what the SDK has open, `sessions` what the Run would close.
An action is one call to a server or one step between two such calls.

*ResponseDelivery.* `at` says which stage has the event in hand. The writer is
one goroutine that pulls all stages; `WatcherCloses` is the other one.

*ContinuityStore.* The store's mutex makes `Put` and the lookups atomic; what an
exchange carries between its lookup and its `Put` (selected checkpoint, reuse
token) can go stale, and does.

*ChatGPTLogin.* The service lock is released in `Start` and around the token
exchange; each is split there. Minutes are the unit of time.

*ShareBindings.* `UpdatePrepared` is three actions (callback, rename,
publication) so that a crash falls between them; `Issue` is split at
`EnsureReady`.

*RoutingConfig.* `issued` is a history variable: every (life of a workspace, id,
version, settings) that was ever published.

*LocalTools.* `handoff` is the decision of `delayClientHandoffFor`. With bound tools
each round is read to its end inside the exchange and the last one is delivered
from memory, so that `ResponseDelivery` starts with a synthesized prefix.

*Translation, Conversation.* The decoders are state machines of one stream, with
the names of the Go methods; encoders, projector and request codecs are functions
of the events or items and are evaluated on them. The provider may send any frame
at any time, a conversation may take any item the validation lets through.

*DaemonLifecycle.* Daemons move through `phase`; `lock` is the flock of the
configuration, `address` the listener. Status, post and exit of a child are
separate steps of a command.

*ProductTelemetry.* `actor` is the goroutine's local state; `outside` what other
processes change.

## 3. Runs

Each configuration is checked completely; none uses a state constraint. Deadlock
is checked in `targets`, whose parts never stop; in the others a request, a login,
a process, a conversation or a bounded input comes to its end.

| Run | Instance | What it shows |
|---|---|---|
| `targets` | ledger: two exchanges, one target generation, four admissions, delays 1 and 2, clock to 7; document: two slugs, routes and ids, four drafts, versions up to two, two lives | late results do not corrupt the ledger, stale failures do not suppress, newer answers clear, concurrent failures escalate once per window, ordering state is reclaimed; one version never stands for two sets of settings |
| `exchange` | two candidates, one tool round, two tool calls, every order of outcomes | no provider operation is sent twice, recovery implements `RouteRecovery`, a fallback is justified by the failure before it, possible duplicates are reported, an adopted Run is closed, the loop ends well below its limit |
| `local_tools` | three sources of which two may be active, pages up to the bounds, two rounds, four delivery modes, two items | no session without an owner, required sources bound and charged first, budgets kept; success waits for the checkpoint, only whole responses are stored, one terminal per response, truthful completion, a failed commit is reported; provider failures stay inside the exchange while tools run; opening ends, a disconnect ends the delivery |
| `continuity_store` | three exchanges, two workspaces, two records, expiry within the run | a checkpoint returns what was committed under the key of what it holds, the indexes agree, workspaces share nothing, selection is live and unique, checkpoints leave only when due |
| `chatgpt_login` | two sessions, idle time below the eviction interval | exact count, codes exchanged once, no revival, sessions settle, the port is released |
| `callback_port_release` | the shipped ratio of intervals, one session | *violation*: the port is never released |
| `state_files` | two workspaces, routes, bearers and issuers, a crash at any step; three events, a channel of one, two revisions | grants name what exists, memory and files agree, an active grant is served, no bearer revives; rows leave under their own document, reports are counted once |
| `daemon_lifecycle` | two processes, two commands, two requests | the configuration has one user, shutdown completes |
| `daemon_cleanup` | one process, one request | *violation*: cleanup overlaps a WebSocket request |
| `translation` | four provider protocols with 4 to 8 frames, two indexes, wire items of every kind; four clients | streamed and whole responses mean the same, for what is kept and for what the client gets; a stream that completed can be kept unless a result came before its call; what a client sends back is recognised and decodes |
| `requests` | conversations of up to four items over client tools, searches and discoveries, two call ids used again | every target is told the history, each call with its own result, but for the reuses of an id named in Divergences; a continuation sends the rest |
| `continuation` | the same | *violation*: a continuation of an Interactions target can lose an item |

### Bounds

* Two exchanges on one key are enough for `TargetBackoff`: its theorems hold for
  any number, and targets do not interact except through the clock. Four
  admissions let a call begun before a window end after the next one. The clock
  runs long enough for a window of each length, a hint that outlasts one, and
  the staleness of the first.
* Two candidates give first, next and last; one tool round separates "before
  effects" from "after", and its budget is small enough to be exhausted.
* `Prepared = {"ok", "error"}`: preparation can also be *unavailable* in the type
  of the code, but no codec or resolver in the tree reports it. If one did, a
  full-history resend inside a tool round could move to the next candidate after
  effects (`exchange/exchange_state.go:634`), and `FallbackJustified` fails.
* In `MCPRun` one full page fits the tool and byte bounds and two do not, and two
  pages are allowed and a third is not.
* Capacity two with three exchanges makes the third commit evict; a TTL within
  the clock makes both kinds of removal happen in one behaviour.
* `MaxVersion` two makes a version run out after one edit.
* The frames of a stream are just enough to open two items, interleave them where
  the protocol allows it, and end: five for Responses, whose frames state whole
  items, eight for Interactions, whose steps start, grow and stop.
* Conversations of four items, after the directives and declarations of the
  request, hold two calls with their results in any order, also under one id, or
  a call with its result and two messages anywhere between. A scenario fixes the tools and items of one
  conversation, so that each exercises one way of losing or pairing items.
* Names, bearers, events and exchanges are symmetric where they are only compared;
  runs with temporal properties use no symmetry.

### Fairness

* `Exchange`: weak fairness of the loop. `runExchange` is one goroutine that
  blocks only in calls bounded by the request context; every outcome is an action.
* `LocalTools`: weak fairness while a Run opens, which `DiscoveryTimeout` bounds;
  then the writer's own steps, the cancellation of the context
  after a disconnect, the watcher, and reads of a cancelled or closed stream.
  A provider that stays silent is not forced to answer.
* `ChatGPTLogin`: time passes, tickers and timers run, HTTP calls return.
* `DaemonLifecycle`: a daemon process takes its own next step, and a handler that
  Shutdown waits for ends. Commands, clients and signals get no fairness.

## 4. Divergences

Three runs show a disagreement between the code and what it says of itself; the
findings in PROJECT.json quote both sides.

* `callback_port_release`. Every eviction tick with no waiting browser session
  restarts the idle timer. With the shipped intervals (one minute, three
  minutes) it never fires. `chatgpt_login` uses the ratio of the service tests,
  where the port is released; the other properties do not depend on it.
* `daemon_cleanup`. `http.Server.Shutdown` does not wait for hijacked
  connections, so a Responses WebSocket can outlive the cleanup that the comment
  of `Daemon` says never overlaps a request.
* `continuation`. The Interactions encoder drops items of history and then cuts the
  omitted range, which counts items of the complete history, out of what is left.
  `ContinuationSendsTheRest` says when a continuation is exact.

The models reach more states worth knowing; no run is kept for them.

* `exchange/target_backoff.go:168`: a failed probe replaces a longer Retry-After
  deadline that a concurrent call had recorded.
* `exchange/mcp_preparation.go:38`: a Run whose request `Finalize` refuses is
  dropped without `Close`. `AdoptedRunClosed` covers every other ending.
* `wire/encoded_response_body.go:109`: `TerminalError` returns a field that no
  code assigns; a streamed response that failed after it started counts as
  delivered.
* `exchange/checkpoint_terminal_gate.go:64`: an error event overtakes a withheld
  finish, which is delivered after it. The encoders ignore it.
* `producttelemetry/runtime.go:274`: an unreadable preference clears the revision
  but keeps the pending report; if the document is then deleted, the report
  leaves under no document. `TelemetryInv` therefore speaks of reports that
  leave under an existing one.

The codecs differ between paths in ways that the properties of `translation` and
`requests` name as exceptions, or that end in a refusal. The first five are
stated exactly: the property says that the exception happens in these cases and
in no other.

* `wire/responses/response_decode.go:197` and `:358`: a Responses response whose
  only content is an empty array (`"content": []` in a message or in a reasoning
  item) is refused when it is whole, because any content that is not null counts
  as output that was lost. The stream counts the parts
  (`web_search_codec.go:43`, `handle_reasoning_delta.go:145`) and keeps a response
  without items (`StreamedEqualsBuffered`).
* The validator matches calls with results in the order of completion
  (`validated_response_stream.go:144`), the projector in the order of the ordinals
  (`canonical_response.go:92`). A Messages provider that opens the block of a
  search result before the block of its call, and stops the call first, is
  accepted and its content is streamed; the projection is refused at the end, the
  checkpoint gate withholds the success, and the delivery ends as a failed
  checkpoint (`AcceptedIsKept`).
* `wire/responses/request_encode.go:599`: the result of a search completes the item
  of its call and takes nothing from the queue of its id. When a function, a custom
  tool or a discovery uses the id again, its result is sent as a `web_search_call`
  (`HistoryCarried`, `Misdirected`).
* `providers/gemini/codec.go:503`: the matcher of provider discoveries sees the calls
  of client discoveries and not their results, so that they stay pending. When
  another discovery uses the id of an answered one, the request ends in an internal
  error (`HistoryCarried`, `DiscoveryReused`).
* `wire/responses/request_encode.go:866`: for a target that takes no arrays as
  function outputs, and for every custom tool, the text of a result is gathered
  up to its first image; text behind it is not sent (`HistoryCarried`,
  `UpToImage`).
* The queues of call ids of the Responses encoder are built on the complete history
  and read from the first item behind a previous response. When an id is used on
  both sides of the cut, calls and results behind it take the form of those in
  front of it; the Interactions encoder likewise looks up the name of a call in the
  complete history. `ContinuationSendsTheRest` leaves these ids out
  (`ReusedAcross`), and misdirected results with them.

* A Chat response that ends in `content_filter` after text is refused when it was
  streamed and kept as declined when it was whole; a Messages response without a
  `stop_reason` is completed when streamed and failed when whole.
* Messages and Interactions providers may interleave open blocks. The Responses
  client stream has one text item at a time and splits them; a generateContent
  client cannot be sent two messages in a row, and its stream loses the boundaries
  between parts.
* The Responses client stream shows a discovery as a function call; the Messages
  client can be given an empty text that it may not send back.
* A Chat target is told of a message of the user between a call and its result in
  that order; a history that calls a tool which is no longer declared ends in an
  internal error for Chat and is cut for Interactions.

## 5. Proofs

All theorems are checked by TLAPS to the last leaf, for every value of the
constants that the named assumptions of the modules allow. A theorem with a
property in the last column states, for every instance, what TLC checks on one.

| Module | Theorem | Property |
|---|---|---|
| `TargetBackoffProofs` | `LedgerInvariant`, `LedgerIsReclaimed` | `LedgerInv`, `LedgerReclaimed` |
| | `TypeCorrect`, `InFlightCounted` | (parts of the ledger's invariant) |
| | `StaleFailureTheorem`, `NewerIngressTheorem`, `EscalationTheorem` | `StaleFailureNeverSuppresses`, `NewerIngressClears`, `EscalatesOnlyAfterWindow` |
| `ExchangeProofs` | `ReducerCorrect`, `EndsAreAccounted` | `ReducerInv`, `EndsAccounted` |
| | `FallbackIsJustified`, `RecoveryImplemented` | `FallbackJustified`, `RefinesRouteRecovery` |
| `LocalToolsProofs` | `RunCorrect`, `CompletionGated`, `DeliveryCorrect`, `ToolEffectsInside` | `RunInv`, `SuccessGatedOnCheckpoint`, `DeliveryInv`, `EffectsStayInside` |
| `ContinuityStoreProofs` | `SelectionIsSound` | `SelectionSound` |
| `ContinuityContentProofs` (steps in `ContinuityContent`) | `StoreCorrect`, `ContentIsCommitted`, `CheckpointsImmutable` | `StoreInv`, `CheckpointFaithful`, `LeavesOnlyWhenDue` |
| `StateFilesProofs` | `GrantsStayBound`, `ActiveSharesServed`, `BearersNeverRevive` | `BindingsInv`, `ShareServed`, `NoRevival` |
| | `TelemetryCorrect` | `TelemetryInv` |
| `OperatorProofs` | `VersionIdentity` | `VersionIdentifiesSettings` |
| | `OneDaemonUsesTheConfiguration` | `ConfigExclusive` |
| | `CallbackServerCorrect`, `CodesExchangedOnce`, `TerminalSessionsStay` | `CallbackServerInv`, `CodeExchangedOnce`, `NoRevival` |

Every proof has the same outline: an inductive invariant that holds initially,
one lemma per action (or per kind of step) that keeps it, and the property as a
consequence of the invariant or of one step from a state that satisfies it.

*TargetBackoff*, for every set of exchanges and targets, every pair of delays and
every hint. None of the action properties is inductive. `observe` decides by
sequence numbers that restart when ordering state is reclaimed, while the
properties speak of the order of admission. `LedgerInv` connects the two: calls
in flight on a target carry numbers in admission order, an answered call that is
newer than one in flight is remembered in `latestIngress`, a failure older than
one in flight is not above it in `latestSuppression`, and a call that may open a
window began after the last one. The lemmas say what each result
class does to state and record and that each action keeps the invariant, with a
counting lemma for `inFlight`; the three action properties follow from the
invariant and the effects.

*RoutingConfig*, for every set of names and drafts and every version width,
assuming that finalizing an encoded target gives the target back (`RoundTrip`,
which TLC evaluates for the instance). Whether a re-added target repeats a
version depends on the ledger of generations: `LedgerCovers` says it bounds every
version the workspace ever published, and that a published version equal to an
active target's was published with its settings. Every edit is shown once to
*extend* its workspace, and one lemma carries the invariant over any extension.

*Exchange*, for every length of the route, every budget of rounds and calls and
every set of failures. `ReducerInv` says that no operation is issued twice and
bounds the reductions; it is kept by three facts about a state: how the attempts
follow each other (`Trail`: along the route, round after round, the first of a
candidate in a round in its preferred form and at most two of them), what each
phase leaves behind (`Shape`), and what pays for each reduction (`Charged`:
candidates and tries in the first round, the spent budget after it). Each reducer
is shown to keep them and to do one of three things to the calls (`Moved`: none,
a tool round after the last of them, or one more); that a fallback
is justified and that recovery implements `RouteRecovery` are consequences of the
moves alone. Both assume that preparation never reports *unavailable*: with it
the property is false (see Bounds), and no codec or resolver reports it.

*LocalTools*, for every set of sources, every budget, number of rounds and items
and every set of delivery modes. While a Run is being opened its bound sources
are its sessions and nothing is charged to an optional source before the last
required one (`Resolved`). In the delivery six streams each hold back or replay
events, so what the client may still be told depends on all of them: `Passing`
says what can still come from upstream of the gate (nothing after an end, only a
failed end after an error, no second finish behind a withheld one), `Told` what
the client, the store and the completion cell have been told, `Prefixed` what the
replayed prefix can hold, and `Inside` that a delayed handoff starts only when the
Run is closed and the response is whole.

*ContinuityStore*, for any exchanges, workspaces, contributions, capacity and
lifetimes. `Put`, expiry and eviction work on a whole store, so the facts are
stated of a store's maps and kept by each function first (`Sound`: the history
index is exact, the heap is the checkpoints with their deadlines, capacity holds);
`Started` and `Clocked` connect them with the exchanges and the clock. What is
evicted follows from the minimum of the heap.

What a checkpoint *holds* needs more. `Content` says that the segments are a
forest whose every segment was allocated by a finished exchange over segments of
its workspace (`Partitioned`), that every checkpoint holds what its exchange
committed and is keyed by what it shows (`Stored`), that every entry of the
visible index represents the turns of its key and is reached from a checkpoint
(`Represents`, `Reached`), and that a running exchange has composed a proper
continuation of what it means to reuse, which shows the turns it will advance from
(`Composed`). None of these survives alone: a commit that reuses the segment of
another representation of a resent history is faithful only because the index
entry still shows the same contributions, and the key of the new checkpoint is
right only because the one it resumed was. `materializeItems`, `Ancestors` and
`Shown` are recursive functions. The proof carries along that the defining
equations have exactly one solution over the present segments (`Solved`); a
segment appended over a parent that exists extends that solution and changes it
nowhere else (`UpExtends`, `ItemsExtend`), which is why shared segments are safe.
What items show is proved by descent to a least counterexample (`LeastOf`). TLC
checked `Content` (without `Solved`) on the instance of `continuity_store` first.

*ShareBindings*, for any names, bearers and concurrent Issue commands. The
published names say too little: what keeps grants bound is that an edit without
the bindings lock only adds names, and that the names an edit ends have lost their
grants before its rename (`EditSafe`); that grants are served, that an Issue
command holds the runtime until its grant does (`Needed`); that no bearer revives,
that a bearer is handed out once (`Fresh`).

*ProductTelemetry*, for any events, channel capacity and number of preference
changes. The invariant follows an event through channel, aggregate and pending
report (`Placed`), keeps rows with their revision (`Revisions`) and a pending
report with what was already sent under its id (`Identified`).

*DaemonLifecycle*, for any number of processes, commands and requests.
`ConfigExclusive` lacks one fact, that no handler is left once the drain is over;
`NoHandlerLeft` adds it.

*ChatGPTLogin*, for any sessions, lifetimes and intervals. The count is exact
because every path that ends a waiting browser session decrements it once, which
needs the forms a session can have between its two locked sections
(`SessionForms`); a code is exchanged once because the poll takes it under the
lock (`CodesTaken`).

Only model-checked, and why:

* `Terminates`, `OpeningEnds`, `DisconnectEndsDelivery`, `SessionsSettle`,
  `PortReleased`, `ShutdownCompletes`: liveness, which needs fairness and ENABLED.
* the five properties of `translation` and the two of `requests`: what folds and
  recursive operators compute over a stream or a history.

## 6. Not modelled

Provider HTTP and dialects; profiles; rendering; generation controls, usage and
citations in the codecs; namespaces and MCP declarations in requests; the strict
field checks of the YAML codec; the placement shuffle of a plan; connector
generations and certificates of the Share runtime; the inspection command and the
text of telemetry reports; hash collisions of history fingerprints; the relay,
which is another program. PROJECT.json gives the reason for each component.
Memory races of Go are not modelled: the modelled state is guarded by the mutexes
named in the code.

## 7. Plan

In this order; each step ends with its run, its mutants and its place in this
file.

1. *Responses WebSocket.* The reader that watches for the next frame while a
   response is written, on top of `ResponseDelivery`.
2. *Failure classification* of the provider adapters as operators, so that
   `Failure` becomes what the adapters can report.
3. *Credentials.* The auth plane and the secret files joined to `ChatGPTLogin`:
   a login that succeeds while its session is cancelled or evicted, a crash
   inside a write.
4. *Client connection.* Plan and Apply against edits of the agent in between.
5. *Share owner runtime.* Generations, readiness and certificates inside
   `ShareBindings`.
6. *Cockpit.* Target editing against a configuration that changes underneath.
