------------------------------ MODULE Exchange ------------------------------
(***************************************************************************)
(* One exchange: the reducer of internal/exchange (exchange_state.go,      *)
(* mcp_preparation.go, mcp_tool_loop.go, provider_call_attempt.go) driven  *)
(* by the loop of exchange_loop.go.  The reducer resolves continuity,      *)
(* opens the MCP runtime, then calls route candidates until one response   *)
(* can be handed to the client, running MCP tool rounds in between.        *)
(*                                                                         *)
(* The loop executes the command of each reduction and feeds its result    *)
(* back, so an action is the arrival of one event and the whole reduction  *)
(* it causes.  exchangeState is the record s; the operators below take     *)
(* and return it as the functions of the source do.  Requests, responses   *)
(* and documents are abstracted to the facts the reducer branches on.      *)
(***************************************************************************)
EXTENDS Integers, Sequences, FiniteSets, FiniteSetsExt

CONSTANTS
    MaxCandidates,   \* bound: candidates of the route plan
    MaxBatch,        \* bound: MCP calls of one assistant round
    MaxRemoteRounds, \* mcp.MaxRemoteRoundsPerRun
    MaxRemoteCalls,  \* mcp.MaxRemoteCallsPerRun
    Failure,         \* failures a provider transport may report
    IngressCause,    \* why the response of a provider may be unusable
    Prepared         \* what preparing a candidate may report

Execution == {"notDispatched", "rejectedBefore", "mayHaveOccurred"}
\* "refInvalid" is a rejection of the continuation reference; "final" is every
\* cause that is neither a rejection nor an unavailability
Cause == {"unavailable", "rejected", "refInvalid", "final"}

ASSUME ExchangeAssumption ==
    /\ MaxCandidates \in Nat \ {0}
    /\ MaxBatch \in Nat \ {0}
    /\ MaxRemoteRounds \in Nat
    /\ MaxRemoteCalls \in Nat
    /\ Failure \subseteq [exec : Execution, cause : Cause]
    /\ IngressCause \subseteq Cause
    /\ "ok" \in Prepared /\ Prepared \subseteq {"ok", "unavailable", "error"}

VARIABLES
    input,     \* what the exchange was started with; never changes
    s,         \* exchangeState
    sessions,  \* the sessions of the exchange's MCP Run: none, open or closed
    steps      \* reductions made by the loop

vars == <<input, s, sessions, steps>>

-----------------------------------------------------------------------------
Candidate == 1 .. MaxCandidates
NoFailure == [exec |-> "none", cause |-> "none"]
\* mcp.Run: whether it has a callable binding, and its side-effect budget
NoRun == [open |-> FALSE, callable |-> FALSE, rounds |-> 0, calls |-> 0]
Run == [open : {TRUE}, callable : BOOLEAN, rounds : Nat, calls : Nat]
NoBatch == [cand |-> 0, size |-> 0, next |-> 0, started |-> FALSE]
Batch == [cand : Candidate, size : Nat \ {0}, next : Nat, started : BOOLEAN]

Choice == {"preferred", "fullHistory", "reprojected"}
Attempt == [cand : Candidate, choice : Choice, round : Nat, native : BOOLEAN,
            factReads : BOOLEAN, status : {"calling", "failed", "handoffReady"},
            failure : Failure \cup {NoFailure}
                        \cup [exec : {"mayHaveOccurred"}, cause : Cause]]

\* whether the tool policy is the web-search tool, the length of the route, and
\* the candidates in the frozen backoff snapshot
Input == [webSearch : BOOLEAN, length : Candidate, backoff : SUBSET Candidate]

Init ==
    /\ input \in {i \in Input : i.backoff \subseteq 1 .. i.length}
    /\ s = [phase |-> "starting", problem |-> "none", attempts |-> << >>,
            evaluated |-> 0, round |-> 0, resumed |-> FALSE, handle |-> 0,
            mcp |-> NoRun, batch |-> NoBatch]
    /\ sessions = "none"
    /\ steps = 0

Route == 1 .. input.length
Last(t) == t.attempts[Len(t.attempts)]
Fail(t, problem) == [t EXCEPT !.phase = "failed", !.problem = problem]

-----------------------------------------------------------------------------
\* Choosing the next provider call

\* nextEligibleRouteCandidate looks only at the frozen snapshot
EligibleFrom(start) == {c \in Route : c >= start /\ c \notin input.backoff}

candidateRoundDispatchCount(attempts, cand, round) ==
    Cardinality({i \in DOMAIN attempts :
                    attempts[i].cand = cand /\ attempts[i].round = round})

Rejected(f) == f.cause \in {"rejected", "refInvalid"}

nativeReferenceFailureAdmitsFullHistory(a) ==
    a.failure.exec = "rejectedBefore" /\ a.native /\ a.failure.cause = "refInvalid"

\* Mutant: tool rounds do not restrict recovery
recoveryInEveryRound(a) == a.failure # NoFailure

providerRecoveryPermitted(a) == a.failure # NoFailure /\ a.round = 0

\* Mutant: cancellations and invalid requests fall back too
everyFailureAdvances(f) == f # NoFailure

providerFailureAdvancesCandidate(f) == f.cause = "unavailable" \/ Rejected(f)

targetFactCharacterizationAdmitted(a, f) ==
    /\ providerRecoveryPermitted([a EXCEPT !.failure = f])
    /\ a.factReads
    /\ Rejected(f)

NoSelection == [cand |-> 0, choice |-> "preferred"]
FirstFrom(start) == IF EligibleFrom(start) = {} THEN NoSelection
                    ELSE [cand |-> Min(EligibleFrom(start)), choice |-> "preferred"]

sameTargetAlternative(t) ==
    /\ candidateRoundDispatchCount(t.attempts, Last(t).cand, Last(t).round) < 2
    /\ nativeReferenceFailureAdmitsFullHistory(Last(t))

selectNextProviderCall(t) ==
    CASE t.attempts = << >> -> FirstFrom(1)
      [] t.attempts # << >> /\ sameTargetAlternative(t) ->
            [cand |-> Last(t).cand, choice |-> "fullHistory"]
      [] t.attempts # << >> /\ ~sameTargetAlternative(t)
            /\ providerRecoveryPermitted(Last(t))
            /\ providerFailureAdvancesCandidate(Last(t).failure) ->
            FirstFrom(Last(t).cand + 1)
      [] OTHER -> NoSelection

terminateProviderExecution(t) ==
    IF t.attempts = << >>
    THEN Fail([t EXCEPT !.evaluated = input.length], "noAvailableTarget")
    ELSE Fail(t, "provider")

-----------------------------------------------------------------------------
\* Beginning a provider call

\* What prepareProviderCall finds: for each candidate whether it can be
\* prepared, and for the one called whether replay still matches the native
\* handle and whether the codec read a target fact
Preparation == [outcome : [Candidate -> Prepared],
                replays : BOOLEAN, factReads : BOOLEAN]

beginProviderCallAttempt(t, cand, choice, prep) ==
    IF \E i \in DOMAIN t.attempts :
          /\ t.attempts[i].cand = cand
          /\ t.attempts[i].choice = choice
          /\ t.attempts[i].round = t.round
    THEN Fail(t, "invariant")
    ELSE [t EXCEPT
            !.phase = "calling",
            !.attempts = Append(@,
                [cand |-> cand, choice |-> choice, round |-> t.round,
                 native |-> /\ t.handle = cand
                            /\ choice # "fullHistory"
                            /\ prep.replays,
                 factReads |-> prep.factReads, status |-> "calling",
                 failure |-> NoFailure])]

\* The candidates advanceProviderExecutionFrom walks while preparation finds
\* them unavailable, and the one it stops at
Walk(cand) == {cand} \cup EligibleFrom(cand + 1)
StopsAt(cand, prep) ==
    Min({c \in Walk(cand) : prep.outcome[c] # "unavailable"} \cup {Max(Walk(cand))})

advanceProviderExecutionFrom(t, sel, prep) ==
    LET stop == StopsAt(sel.cand, prep)
        u == [t EXCEPT !.evaluated = Max({@, stop})]
    IN  IF prep.outcome[stop] = "ok"
        THEN beginProviderCallAttempt(u, stop,
                IF stop = sel.cand THEN sel.choice ELSE "preferred", prep)
        ELSE Fail(u, "preparation")

advanceProviderExecution(t, prep) ==
    LET sel == selectNextProviderCall(t)
    IN  IF sel = NoSelection THEN terminateProviderExecution(t)
        ELSE advanceProviderExecutionFrom(t, sel, prep)

failProviderCallAttempt(t, f) ==
    [t EXCEPT !.attempts[Len(t.attempts)].status = "failed",
              !.attempts[Len(t.attempts)].failure = f]

completeProviderCallAttempt(t) ==
    [t EXCEPT !.attempts[Len(t.attempts)].status = "handoffReady"]

-----------------------------------------------------------------------------
\* The loop

Ended(t) == t.phase \in {"completed", "failed"}

\* Mutant: only completed exchanges close the Run
ReducedClosingOnSuccess(t) ==
    /\ s' = t
    /\ sessions' = IF t.phase = "completed" /\ t.mcp.open THEN "closed" ELSE sessions
    /\ steps' = steps + 1
    /\ UNCHANGED input

\* runExchange installs the next state; leaving the loop runs the deferred
\* Close of the Run the state holds.  A reducer error leaves the loop before
\* its state is installed.
Reduced(t) ==
    /\ s' = t
    /\ sessions' = IF /\ Ended(t)
                      /\ IF t.problem = "invariant" THEN s.mcp.open ELSE t.mcp.open
                   THEN "closed" ELSE sessions
    /\ steps' = steps + 1
    /\ UNCHANGED input

preparingMCP(t) == [t EXCEPT !.phase = "preparingMCP"]

\* How the request refers to earlier history; PrepareBegin, PrepareResume and
\* applyRoutePlan may each refuse it
reduceStarting(reference, accepted) ==
    /\ s.phase = "starting"
    /\ Reduced(CASE reference = "empty" -> Fail(s, "request")
                 [] reference = "explicit" -> [s EXCEPT !.phase = "loadingExplicit"]
                 [] reference = "rebased" -> [s EXCEPT !.phase = "loadingRebased"]
                 [] reference = "none" ->
                        IF accepted THEN preparingMCP(s) ELSE Fail(s, "request"))

reduceLoadingCheckpoint(loaded, accepted) ==
    /\ s.phase \in {"loadingExplicit", "loadingRebased"}
    /\ Reduced(IF \/ loaded = "error"
                  \/ loaded = "miss" /\ s.phase = "loadingExplicit"
                  \/ ~accepted
               THEN Fail(s, "request")
               ELSE [preparingMCP(s) EXCEPT !.resumed = (loaded = "found")])

\* mcp.Open failed, found no source, or opened a Run
reducePreparingMCP(opened, finalized, handle, prep) ==
    /\ s.phase = "preparingMCP"
    /\ opened \in {"error", "noSource", "uncallable", "callable"}
    /\ \* Finalize validates the materialized history of a resumed request
       finalized \/ s.resumed
    /\ handle \in 0 .. input.length
    /\ handle = 0 \/ s.resumed
    /\ LET run == IF opened = "noSource" THEN NoRun
                  ELSE [NoRun EXCEPT !.open = TRUE,
                                     !.callable = (opened = "callable")]
           t == [s EXCEPT !.mcp = run, !.handle = handle]
           next == CASE opened = "error" -> Fail(s, "mcp")
                     [] opened # "error" /\ ~finalized -> Fail(s, "request")
                     [] OTHER -> advanceProviderExecution(t, prep)
       IN  /\ s' = next
           /\ sessions' = CASE opened \in {"error", "noSource"} -> "none"
                            [] Ended(next) /\ next.mcp.open -> "closed"
                            [] OTHER -> "open"
           /\ steps' = steps + 1
           /\ UNCHANGED input

\* providerCallFailed
reduceProviderFailure(f, prep) ==
    /\ s.phase = "calling"
    /\ LET t == failProviderCallAttempt(s, f)
       IN  Reduced(IF targetFactCharacterizationAdmitted(Last(s), f)
                   THEN [t EXCEPT !.phase = "resolving"]
                   ELSE advanceProviderExecution(t, prep))

\* providerIngressReceived whose response cannot be completed
reduceUnusableIngress(cause, prep) ==
    /\ s.phase = "calling"
    /\ LET f == [exec |-> "mayHaveOccurred", cause |-> cause]
       IN  Reduced(advanceProviderExecution(failProviderCallAttempt(s, f), prep))

delayClientHandoff == s.mcp.callable \/ input.webSearch

\* providerIngressReceived, completed: handed off, or first searched for calls
\* of MCP tools.  handoff is what Calls and the client encoding make of it.
reduceIngress(calls, handoff) ==
    /\ s.phase = "calling"
    /\ calls = 0 \/ s.mcp.callable
    /\ handoff = "ok" \/ delayClientHandoff
    /\ LET t == completeProviderCallAttempt(s)
       IN  Reduced(CASE handoff = "error" -> Fail(t, "handoff")
                     [] calls > 0 /\ handoff = "ok" ->
                          [t EXCEPT !.phase = "callingMCP", !.round = @ + 1,
                                    !.batch = [cand |-> Last(s).cand, size |-> calls,
                                               next |-> 0, started |-> FALSE]]
                     [] OTHER -> [t EXCEPT !.phase = "completed"])

\* Mutant: any number of reprojections
resolveWithoutLimit(changed, prep) ==
    /\ s.phase = "resolving"
    /\ Reduced(IF changed
               THEN advanceProviderExecutionFrom(s,
                        [cand |-> Last(s).cand, choice |-> "reprojected"], prep)
               ELSE advanceProviderExecution(s, prep))

\* changed: a conclusive resolution differs from the value the attempt used
reduceResolvingTargetFacts(changed, prep) ==
    /\ s.phase = "resolving"
    /\ LET a == Last(s)
       IN  Reduced(IF changed /\ candidateRoundDispatchCount(s.attempts, a.cand, a.round) < 2
                   THEN advanceProviderExecutionFrom(s,
                            [cand |-> a.cand, choice |-> "reprojected"], prep)
                   ELSE advanceProviderExecution(s, prep))

\* BeginBatch reserves the budget of the batch before its first call
withinBudget(run, calls) ==
    run.rounds < MaxRemoteRounds /\ run.calls + calls <= MaxRemoteCalls

BeginBatch(run, calls) == [run EXCEPT !.rounds = @ + 1, !.calls = @ + calls]

\* Mutant: a refused batch is not reported
batchStartedWithinBudget ==
    /\ s.phase = "callingMCP" /\ ~s.batch.started
    /\ withinBudget(s.mcp, s.batch.size)
    /\ Reduced([s EXCEPT !.mcp = BeginBatch(@, s.batch.size), !.batch.started = TRUE])

reduceBatchStarted ==
    /\ s.phase = "callingMCP" /\ ~s.batch.started
    /\ Reduced(IF withinBudget(s.mcp, s.batch.size)
               THEN [s EXCEPT !.mcp = BeginBatch(@, s.batch.size),
                              !.batch.started = TRUE]
               ELSE Fail(s, "budget"))

\* mcpToolReturned; after the last result the same candidate is called again
reduceToolReturned(returned, handle, prep) ==
    /\ s.phase = "callingMCP" /\ s.batch.started
    /\ handle \in {0, s.batch.cand}
    /\ LET t == [s EXCEPT !.batch = NoBatch, !.handle = handle]
       IN  Reduced(CASE returned = "error" -> Fail(s, "mcp")
                     [] returned = "ok" /\ s.batch.next + 1 < s.batch.size ->
                            [s EXCEPT !.batch.next = @ + 1]
                     [] OTHER ->
                          IF prep.outcome[s.batch.cand] = "ok"
                          THEN beginProviderCallAttempt(t, s.batch.cand, "preferred", prep)
                          ELSE Fail(t, "preparation"))

Next ==
    \/ \E accepted \in BOOLEAN :
          \/ \E reference \in {"none", "empty", "explicit", "rebased"} :
                reduceStarting(reference, accepted)
          \/ \E loaded \in {"error", "miss", "found"} :
                reduceLoadingCheckpoint(loaded, accepted)
    \/ reduceBatchStarted
    \/ \E calls \in 0 .. MaxBatch, handoff \in {"ok", "error"} :
          reduceIngress(calls, handoff)
    \/ \E prep \in Preparation :
          \/ \E opened \in {"error", "noSource", "uncallable", "callable"},
                finalized \in BOOLEAN, handle \in 0 .. MaxCandidates :
                reducePreparingMCP(opened, finalized, handle, prep)
          \/ \E f \in Failure : reduceProviderFailure(f, prep)
          \/ \E cause \in IngressCause : reduceUnusableIngress(cause, prep)
          \/ \E changed \in BOOLEAN : reduceResolvingTargetFacts(changed, prep)
          \/ \E returned \in {"ok", "error"}, handle \in 0 .. MaxCandidates :
                reduceToolReturned(returned, handle, prep)

Spec == Init /\ [][Next]_vars

\* Every command returns: transports, checkpoint loads, probes and MCP calls
\* all run under the request context and their own deadlines
FairSpec == Spec /\ WF_vars(Next)
-----------------------------------------------------------------------------
\* Properties

StateRecord == [phase : {"starting", "loadingExplicit", "loadingRebased",
                         "preparingMCP", "calling", "resolving",
                         "callingMCP", "completed", "failed"},
                problem : {"none", "request", "mcp", "provider", "preparation",
                           "handoff", "budget", "noAvailableTarget", "invariant"},
                attempts : Seq(Attempt), evaluated : 0 .. MaxCandidates,
                round : Nat, resumed : BOOLEAN, handle : 0 .. MaxCandidates,
                mcp : Run \cup {NoRun}, batch : Batch \cup {NoBatch}]

TypeOK ==
    /\ input \in Input
    /\ s \in StateRecord
    /\ sessions \in {"none", "open", "closed"}
    /\ steps \in Nat

\* The reducer never issues a provider operation it has already consumed: the
\* "exchange invariant" error of beginProviderCallAttempt is unreachable.
OperationsNeverRepeat == s.problem # "invariant"

\* A call is issued only after the previous one was settled, and an exchange
\* that ended has none outstanding; it ended well exactly when the last call
\* of the last round was the one handed to the client.
AttemptsSettled ==
    /\ \A i \in DOMAIN s.attempts :
          s.attempts[i].status = "calling" =>
              i = Len(s.attempts) /\ s.phase = "calling"
    /\ s.phase = "completed" =>
          /\ s.attempts # << >>
          /\ Last(s).status = "handoffReady"
          /\ Last(s).round = s.round
    /\ \A i, j \in DOMAIN s.attempts :
          s.attempts[i].status = "handoffReady" /\ j > i =>
              s.attempts[j].round > s.attempts[i].round

\* Another candidate is called only because of what the previous call proved:
\* it failed in the first round with an unavailability or a rejection of that
\* target, never after a cancellation or an invalid request.
FallbackJustified ==
    \A i \in 1 .. Len(s.attempts) - 1 :
        s.attempts[i + 1].cand # s.attempts[i].cand =>
            /\ s.attempts[i].failure.cause \in {"unavailable", "rejected", "refInvalid"}
            /\ s.attempts[i].round = 0

\* Mutant: only the first call is looked at
summarizeFirstAttempt ==
    [providerCallCount |-> Len(s.attempts),
     fallbackRecovered |-> s.phase = "completed" /\ s.evaluated > 1,
     possibleDuplicateExecution |->
        Len(s.attempts) > 1 /\ s.attempts[1].failure.exec = "mayHaveOccurred"]

\* summarizeRoutingEvidence: whether the request may have executed twice
summarizeRoutingEvidence ==
    [providerCallCount |-> Len(s.attempts),
     fallbackRecovered |-> s.phase = "completed" /\ s.evaluated > 1,
     possibleDuplicateExecution |->
        \E i \in 1 .. Len(s.attempts) - 1 :
            s.attempts[i].failure.exec = "mayHaveOccurred"]

mayHaveExecuted(a) ==
    a.status = "handoffReady" \/ a.failure.exec = "mayHaveOccurred"

\* The terminal evidence admits a duplicate whenever two calls for the same
\* answer may both have executed at a provider.
DuplicateExecutionReported ==
    Ended(s) /\ ~summarizeRoutingEvidence.possibleDuplicateExecution =>
        \A i, j \in DOMAIN s.attempts :
            /\ mayHaveExecuted(s.attempts[i])
            /\ mayHaveExecuted(s.attempts[j])
            /\ s.attempts[i].round = s.attempts[j].round
            => i = j

\* The loop of runExchange makes at most four reductions per candidate in the
\* first round (two calls, each followed by a characterization) and, for what
\* the budget of the Run was charged, three per tool round and one per tool
\* call.  With 8 rounds and 16 calls its limit of 1000 is never what ends an
\* exchange of a route with fewer than 238 candidates.
TransitionsBounded ==
    /\ steps <= 4 + 4 * input.length + 3 * s.mcp.rounds + s.mcp.calls
    /\ s.mcp.rounds <= MaxRemoteRounds
    /\ s.mcp.calls <= MaxRemoteCalls

\* What holds of the reducer's state between any two steps of the loop: its
\* type, settled attempts, no operation issued twice, bounded reductions.
ReducerInv ==
    TypeOK /\ OperationsNeverRepeat /\ AttemptsSettled /\ TransitionsBounded

\* Once the state owns the Run, every way to end the exchange closes it.  The
\* code loses a Run whose request Finalize refuses before the state owns it.
AdoptedRunClosed ==
    Ended(s) /\ s.mcp.open => sessions = "closed"

\* However an exchange ends, it accounts for what it did: possible duplicates
\* are reported and the Run it owned is closed.
EndsAccounted == DuplicateExecutionReported /\ AdoptedRunClosed

\* The exchange makes only the provider calls RouteRecovery allows.
Recovery == INSTANCE RouteRecovery WITH
    Candidates <- Candidate,
    allowed <- Route \ input.backoff,
    at <- IF s.attempts = << >> THEN 0 ELSE Last(s).cand,
    tries <- IF s.attempts = << >> THEN 0
             ELSE candidateRoundDispatchCount(s.attempts, Last(s).cand, s.round),
    effects <- s.round > 0,
    outcome <- CASE s.phase = "completed" -> "answered"
                 [] s.phase = "failed" -> "failed"
                 [] OTHER -> "running"

RefinesRouteRecovery == Recovery!Spec

\* Whatever providers and tools answer, the exchange ends.
Terminates == <>Ended(s)
=============================================================================
