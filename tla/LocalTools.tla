----------------------------- MODULE LocalTools -----------------------------
(***************************************************************************)
(* A request whose tools Swobu executes itself: the exchange opens an MCP  *)
(* Run, calls the provider round by round, calls the bound tools between   *)
(* two rounds, and hands one response to the client (exchange_loop.go,     *)
(* provider_call.go, mcp_tool_loop.go).  While the Run can execute a tool  *)
(* the client handoff is delayed: each round is read to its end inside the *)
(* exchange and only the last one is delivered, from memory.  The Run is   *)
(* closed when the exchange returns, before the handler writes anything.   *)
(***************************************************************************)
EXTENDS MCPRun, ResponseDelivery

CONSTANT MaxRounds   \* MaxRemoteRoundsPerRun

ASSUME RoundsAssumption == MaxRounds \in Nat

VARIABLES
    handoff,   \* delayClientHandoff: "none" until a provider is called, "prefetch", "delayed"
    rounds,    \* Run.roundCount
    calls      \* sources whose bound tools the current batch has yet to call

toolVars == <<handoff, rounds, calls>>
requestVars == <<mcpVars, toolVars, vars>>

RequestInit == MCPInit /\ Init /\ handoff = "none" /\ rounds = 0 /\ calls = {}

CanExecute == bindings # {}

OpenRun == Opening /\ UNCHANGED <<toolVars, vars>>

\* The attempt ends inside the exchange with its provider stream closed
ExchangeFails ==
    /\ PrefetchFails
    /\ calls' = {}
    /\ UNCHANGED <<mcpVars, handoff, rounds>>

OpenRunFails == phase = "failed" /\ ExchangeFails

\* Mutant: bound tools do not delay the handoff
delayClientHandoffNever(search) == search

\* delayClientHandoffFor; search: the request insists on a web search
delayClientHandoffFor(search) == CanExecute \/ search

CallProvider(search) ==
    /\ phase = "open" /\ handoff = "none"
    /\ handoff' = IF delayClientHandoffFor(search) THEN "delayed" ELSE "prefetch"
    /\ UNCHANGED <<mcpVars, rounds, calls, vars>>

PrefetchRound(k) ==
    /\ phase = "open" /\ handoff = "prefetch"
    /\ Prefetch(k)
    /\ UNCHANGED <<mcpVars, toolVars>>

InRound == phase = "open" /\ handoff = "delayed" /\ at = "prefetch" /\ calls = {}

\* The provider stream fails, or the round mixes remote and caller-owned calls
RoundFails ==
    /\ phase = "open"
    /\ handoff = "prefetch" \/ InRound
    /\ ExchangeFails

\* A whole round that calls the tools of some bound sources: BeginBatch
BeginBatch(some) ==
    /\ InRound /\ some # {} /\ some \subseteq bindings /\ rounds < MaxRounds
    /\ rounds' = rounds + 1
    /\ calls' = some
    /\ UNCHANGED <<mcpVars, handoff, vars>>

Call(x) ==
    /\ x \in calls /\ x \in sessions
    /\ calls' = calls \ {x}
    /\ UNCHANGED <<mcpVars, handoff, rounds, vars>>

CallFails == calls # {} /\ ExchangeFails

SynthesizeResponseEnvelopeEvents(items) ==
    <<"start", "identity">> \o [i \in 1 .. items |-> "item"]
        \o <<"usage", "finish", "endCompleted">>

\* A whole round without remote calls is handed off from memory
handoffCompletedProviderResponse(items) ==
    /\ InRound
    /\ prefix' = SynthesizeResponseEnvelopeEvents(items)
    /\ pulled' = items
    /\ validated' = [validated EXCEPT !.identity = TRUE, !.items = items > 0, !.finish = TRUE,
                                      !.usage = TRUE, !.done = TRUE]
    /\ released' = TRUE
    /\ at' = "read"
    /\ UNCHANGED <<mcpVars, toolVars, mode, ev, terminal, checkpoint, client, gone, ctxDone,
                   bodyClosed, result>>

\* ExecuteRequest returns and its deferred Close runs
ExchangeReturns ==
    /\ at \in {"read", "refused"}
    /\ CloseRun
    /\ UNCHANGED <<toolVars, vars>>

\* The reader of the synthesized events is at its end
SliceEnded ==
    /\ ProviderPulled
    /\ ReadError("eof")
    /\ UNCHANGED <<untouched, ev, streams>>

Pull == IF handoff = "delayed" THEN SliceEnded ELSE Provider

Delivering(A) == phase = "closed" /\ A /\ UNCHANGED <<mcpVars, toolVars>>

Disconnect == (ClientGone \/ ContextCancelled) /\ UNCHANGED <<mcpVars, toolVars>>

RequestNext ==
    \/ OpenRun \/ OpenRunFails
    \/ \E search \in BOOLEAN : CallProvider(search)
    \/ \E k \in Kinds : PrefetchRound(k)
    \/ RoundFails
    \/ \E some \in SUBSET Source : BeginBatch(some)
    \/ \E x \in Source : Call(x)
    \/ CallFails
    \/ \E items \in 0 .. MaxItems : handoffCompletedProviderResponse(items)
    \/ ExchangeReturns
    \/ Delivering(Pull) \/ Delivering(Writer) \/ Delivering(WatcherCloses)
    \/ Disconnect

RequestSpec == RequestInit /\ [][RequestNext]_requestVars

\* DiscoveryTimeout bounds every request of an opening Run.  The exchange and
\* the writer go on by themselves; a provider or an MCP server may stay silent
\* for ever, but not to a cancelled request or once the body is closed.
FairRequestSpec ==
    /\ RequestSpec
    /\ WF_requestVars(OpenRun)
    /\ WF_requestVars(OpenRunFails)
    /\ WF_requestVars(\E search \in BOOLEAN : CallProvider(search))
    /\ WF_requestVars(ExchangeReturns)
    /\ WF_requestVars(ctxDone /\ (RoundFails \/ CallFails))
    /\ WF_requestVars(Delivering(Writer))
    /\ WF_requestVars(Delivering(WatcherCloses))
    /\ WF_requestVars((ctxDone \/ released) /\ Delivering(Pull))
    /\ WF_requestVars(ContextCancelled /\ UNCHANGED <<mcpVars, toolVars>>)
-----------------------------------------------------------------------------
\* While Swobu executes tools for a request, a provider that fails does so
\* inside the exchange, where another target can still answer.  No client sees
\* a response while the MCP sessions are open; if the Run could execute a tool
\* (delayClientHandoffFor) it is told of a failure only when the checkpoint was
\* not stored, and the provider is blamed only for a response that cannot be
\* encoded or a document whose write broke off.
EffectsStayInside ==
    /\ live # {} => shown = <<>> /\ result = "none"
    /\ CanExecute =>
          /\ result = "provider_stream_failed" => refused \/ ToldCompleted
          /\ \A i \in DOMAIN shown : shown[i] = "failed" => put = "failed"
=============================================================================
