--------------------------- MODULE TargetBackoff ---------------------------
(***************************************************************************)
(* The process-wide backoff ledger of the exchange runtime                 *)
(* (internal/exchange/target_backoff.go).  Every exchange freezes a        *)
(* snapshot of the suppressed targets when it starts, brackets each        *)
(* provider call with begin and observe, and the ledger decides from the   *)
(* results, which arrive in any order, which target generations to avoid   *)
(* and for how long.  begin, observe and snapshot hold one mutex, so each  *)
(* is one action.                                                          *)
(*                                                                         *)
(* A Go map entry that is absent reads as the zero value.  Stored records  *)
(* have a class, stored observation states a positive nextSequence, so     *)
(* NoRecord and NoState stand for the absent entries.                      *)
(***************************************************************************)
EXTENDS Integers, FiniteSets

CONSTANTS
    Workspace,        \* workspace slugs
    Generation,       \* exact target generations: (targetID, targetVersion)
    Exchange,         \* exchange runners; each runs exchanges one by one
    WorkspaceOf,      \* the workspace a runner serves
    InitialBackoff,   \* initialTargetBackoff
    MaximumBackoff,   \* maximumTargetBackoff, also targetBackoffStale
    Hints,            \* Retry-After delays a backend may send
    MaxTime,          \* bound: the clock stops there
    MaxAdmissions     \* bound: provider calls begun in a behaviour

ASSUME BackoffAssumption ==
    /\ InitialBackoff \in Nat \ {0}
    /\ MaximumBackoff \in Nat \ {0}
    /\ InitialBackoff <= MaximumBackoff
    /\ Hints \subseteq Nat
    /\ MaxTime \in Nat
    /\ MaxAdmissions \in Nat
    /\ WorkspaceOf \in [Exchange -> Workspace]
    /\ IsFiniteSet(Exchange)

VARIABLES
    records,       \* records[k]: suppression of k, or NoRecord
    observations,  \* observations[k]: order of the calls on k, or NoState
    phase,         \* phase[x]: idle, running, or calling a provider
    excluded,      \* excluded[x]: generations x may not call (any more)
    calls,         \* calls[x]: the observation of x's call in flight
    now,           \* the clock the ledger reads
    admitted,      \* history: provider calls begun so far
    ingressOrder,  \* history: admission number of the newest answered call
    failureOrder,  \* history: admission number of the newest failed call
    windowEnd      \* history: end of the last window a failed probe opened

vars == <<records, observations, phase, excluded, calls, now,
          admitted, ingressOrder, failureOrder, windowEnd>>

-----------------------------------------------------------------------------
Key == Workspace \X Generation

\* targetBackoffClass; 0 is Go's zero value
NoClass == 0
Transport == 1
Unavailable == 2
Incompatible == 3

\* time.Time{} is zeroTime; the clock starts late enough after it that a
\* record with a zero deadline is already stale, as it is in the program
zeroTime == 0
Stale == MaximumBackoff
startTime == Stale + 1

NoRecord == [delay |-> 0, until |-> zeroTime, class |-> NoClass]
NoState == [nextSequence |-> 0, latestReachable |-> 0, latestIngress |-> 0,
            latestSuppression |-> 0, epoch |-> 0, inFlight |-> 0]
NoHint == -1

\* targetObservation, with the admission number and time kept as history
Observation == [key : Key, sequence : Nat, epoch : Nat, suppressed : BOOLEAN,
                order : Nat, began : Nat]

NoCall == [key |-> <<>>, sequence |-> 0, epoch |-> 0, suppressed |-> FALSE,
           order |-> 0, began |-> 0]

InFlight(k) == {x \in Exchange : phase[x] = "calling" /\ calls[x].key = k}

\* The provider event as the ledger tells events apart: an ingress, an
\* UnavailableError with or without Retry-After, a RejectedError that is also
\* a TargetUnavailableError or a TargetIncompatibleError, any other
\* RejectedError, and every failure of another class
Outcome ==
    [kind : {"unavailable"}, hint : Hints \cup {NoHint}]
    \cup [kind : {"ingress", "targetUnavailable", "targetIncompatible",
                  "rejected", "other"}, hint : {NoHint}]

\* The failures that speak against the target rather than the request
Suppressing == {"unavailable", "targetUnavailable", "targetIncompatible"}

Maximum(a, b) == IF a >= b THEN a ELSE b

-----------------------------------------------------------------------------
(* Faulty variants of definitions below: plausible slips in the ledger that *)
(* the properties must notice.                                             *)
probeIgnoringSuppression(s, o) == o.epoch = s.epoch
finishIgnoringInFlight(s, r) == IF r.class = NoClass THEN NoState ELSE s
keepObservations == observations
ingressWithoutReachability(s, r, o) ==
    [state |-> s,
     record |-> IF o.sequence > s.latestSuppression THEN NoRecord ELSE r]
ingressOfNewestCallOnly(s, r, o) ==
    [state |-> [s EXCEPT
                  !.latestReachable = Maximum(@, o.sequence),
                  !.latestIngress = Maximum(@, o.sequence)],
     record |-> IF o.sequence >= s.nextSequence THEN NoRecord ELSE r]

-----------------------------------------------------------------------------
nextTargetBackoff(current) ==
    IF current <= 0 THEN InitialBackoff
    ELSE IF current >= MaximumBackoff \div 2 THEN MaximumBackoff
    ELSE current * 2

\* cleanup(now): a record stale for targetBackoffStale goes, and with it the
\* order of its calls unless one is still in flight
IsStale(k) ==
    /\ records[k].class # NoClass
    /\ now >= records[k].until + Stale
cleanRecords ==
    [k \in Key |-> IF IsStale(k) THEN NoRecord ELSE records[k]]
cleanObservations ==
    [k \in Key |-> IF IsStale(k) /\ observations[k].inFlight = 0
                   THEN NoState ELSE observations[k]]

\* snapshot(workspace): the generations suppressed at this moment
activeTargets(w) == {g \in Generation : now < cleanRecords[<<w, g>>].until}

\* A failed call opens a new backoff window only if nothing was known against
\* the target when the call began and no other call opened one since
isProbe(s, o) == o.epoch = s.epoch /\ ~o.suppressed

\* The four cases of observe: the ordering state s and the record r after
\* the result of the call o
observeIngress(s, r, o) ==
    [state |-> [s EXCEPT
                  !.latestReachable = Maximum(@, o.sequence),
                  !.latestIngress = Maximum(@, o.sequence)],
     record |-> IF o.sequence > s.latestSuppression THEN NoRecord ELSE r]

observeUnavailable(s, r, o, hint) ==
    LET probe == isProbe(s, o)
        delay == IF probe THEN nextTargetBackoff(r.delay) ELSE r.delay
        own == IF probe THEN now + delay ELSE r.until
        until == IF hint # NoHint /\ now + hint > own
                 THEN now + hint ELSE own
        class == IF r.class = NoClass THEN Transport ELSE r.class
    IN IF o.sequence <= s.latestReachable
       THEN [state |-> s, record |-> r]
       ELSE [state |-> [s EXCEPT
                          !.latestSuppression = Maximum(@, o.sequence),
                          !.epoch = IF probe THEN @ + 1 ELSE @],
             record |-> IF until = zeroTime THEN r
                        ELSE [delay |-> delay, until |-> until,
                              class |-> class]]

observeTargetRejection(s0, r, o, incompatible) ==
    LET s == [s0 EXCEPT !.latestReachable = Maximum(@, o.sequence)]
        probe == isProbe(s, o)
        delay == IF probe THEN nextTargetBackoff(r.delay) ELSE r.delay
        class == IF incompatible \/ r.class = Incompatible
                 THEN Incompatible ELSE Unavailable
    IN IF o.sequence <= s.latestIngress \/ o.sequence <= s.latestSuppression
       THEN [state |-> s,
             record |-> IF incompatible /\ r.class # NoClass
                        THEN [r EXCEPT !.class = Incompatible] ELSE r]
       ELSE [state |-> [s EXCEPT
                          !.latestSuppression = o.sequence,
                          !.epoch = IF probe THEN @ + 1 ELSE @],
             record |-> [delay |-> delay,
                         until |-> IF probe THEN now + delay ELSE r.until,
                         class |-> class]]

observeRejection(s, r, o) ==
    [state |-> [s EXCEPT !.latestReachable = Maximum(@, o.sequence)],
     record |-> IF r.class = Transport /\ o.sequence > s.latestSuppression
                THEN NoRecord ELSE r]

observed(s, r, o, out) ==
    CASE out.kind = "ingress" -> observeIngress(s, r, o)
      [] out.kind = "unavailable" -> observeUnavailable(s, r, o, out.hint)
      [] out.kind = "targetUnavailable" ->
            observeTargetRejection(s, r, o, FALSE)
      [] out.kind = "targetIncompatible" ->
            observeTargetRejection(s, r, o, TRUE)
      [] out.kind = "rejected" -> observeRejection(s, r, o)
      [] OTHER -> [state |-> s, record |-> r]

\* finishObservation: the order of the calls on a target is forgotten once no
\* call is in flight and nothing is recorded against it
finishObservation(s, r) ==
    IF s.inFlight = 0 /\ r.class = NoClass THEN NoState ELSE s

\* observe's decrement, clamped at zero
released(s) ==
    IF s.inFlight > 0 THEN [s EXCEPT !.inFlight = @ - 1] ELSE s

-----------------------------------------------------------------------------
Init ==
    /\ records = [k \in Key |-> NoRecord]
    /\ observations = [k \in Key |-> NoState]
    /\ phase = [x \in Exchange |-> "idle"]
    /\ excluded = [x \in Exchange |-> {}]
    /\ calls = [x \in Exchange |-> NoCall]
    /\ now = startTime
    /\ admitted = 0
    /\ ingressOrder = [k \in Key |-> 0]
    /\ failureOrder = [k \in Key |-> 0]
    /\ windowEnd = [k \in Key |-> zeroTime]

\* A dropped record forgets the window it opened
keepWindows ==
    [k \in Key |-> IF cleanRecords[k].class = NoClass
                   THEN zeroTime ELSE windowEnd[k]]

\* runExchange: the snapshot is frozen before the first reduction
Start(x) ==
    /\ phase[x] = "idle"
    /\ phase' = [phase EXCEPT ![x] = "running"]
    /\ excluded' = [excluded EXCEPT ![x] = activeTargets(WorkspaceOf[x])]
    /\ records' = cleanRecords
    /\ observations' = cleanObservations
    /\ windowEnd' = keepWindows
    /\ UNCHANGED <<calls, now, admitted, ingressOrder, failureOrder>>

\* begin: the reducer only calls a candidate that its frozen snapshot leaves
\* eligible and that no unavailability has made the candidate cursor pass
Begin(x, g) ==
    LET k == <<WorkspaceOf[x], g>>
        state == [cleanObservations[k] EXCEPT
                    !.nextSequence = @ + 1, !.inFlight = @ + 1]
    IN /\ phase[x] = "running"
       /\ g \notin excluded[x]
       /\ admitted < MaxAdmissions
       /\ phase' = [phase EXCEPT ![x] = "calling"]
       /\ admitted' = admitted + 1
       /\ records' = cleanRecords
       /\ observations' = [cleanObservations EXCEPT ![k] = state]
       /\ calls' = [calls EXCEPT
             ![x] = [key |-> k, sequence |-> state.nextSequence,
                     epoch |-> state.epoch,
                     suppressed |-> now < cleanRecords[k].until,
                     order |-> admitted + 1, began |-> now]]
       /\ windowEnd' = keepWindows
       /\ UNCHANGED <<excluded, now, ingressOrder, failureOrder>>

\* observe: the provider call of x ends with the result out
Observe(x, out) ==
    LET o == calls[x]
        k == o.key
        result == observed(released(observations[k]), cleanRecords[k], o, out)
        known == observations[k].nextSequence > 0
        opens == result.state.epoch > observations[k].epoch
    IN /\ phase[x] = "calling"
       /\ phase' = [phase EXCEPT ![x] = "running"]
       /\ calls' = [calls EXCEPT ![x] = NoCall]
       /\ IF known
          THEN /\ records' = [cleanRecords EXCEPT ![k] = result.record]
               /\ observations' = [cleanObservations EXCEPT
                     ![k] = finishObservation(result.state, result.record)]
               /\ windowEnd' = [keepWindows EXCEPT
                     ![k] = IF opens THEN now + result.record.delay
                            ELSE IF result.record.class = NoClass
                            THEN zeroTime ELSE @]
          ELSE UNCHANGED <<records, observations, windowEnd>>
       /\ ingressOrder' = IF out.kind = "ingress"
                          THEN [ingressOrder EXCEPT ![k] = Maximum(@, o.order)]
                          ELSE ingressOrder
       /\ failureOrder' = IF out.kind \in Suppressing
                          THEN [failureOrder EXCEPT ![k] = Maximum(@, o.order)]
                          ELSE failureOrder
       /\ excluded' = IF out.kind = "unavailable"
                      THEN [excluded EXCEPT ![x] = @ \cup {k[2]}]
                      ELSE excluded
       /\ UNCHANGED <<now, admitted>>

\* The exchange reaches a terminal phase
Finish(x) ==
    /\ phase[x] = "running"
    /\ phase' = [phase EXCEPT ![x] = "idle"]
    /\ excluded' = [excluded EXCEPT ![x] = {}]
    /\ UNCHANGED <<records, observations, calls, now, admitted,
                   ingressOrder, failureOrder, windowEnd>>

Tick ==
    /\ now < MaxTime
    /\ now' = now + 1
    /\ UNCHANGED <<records, observations, phase, excluded, calls, admitted,
                   ingressOrder, failureOrder, windowEnd>>

Next ==
    \/ \E x \in Exchange : Start(x)
    \/ \E x \in Exchange, g \in Generation : Begin(x, g)
    \/ \E x \in Exchange, out \in Outcome : Observe(x, out)
    \/ \E x \in Exchange : Finish(x)
    \/ Tick

Spec == Init /\ [][Next]_vars

-----------------------------------------------------------------------------
State == [nextSequence : Nat, latestReachable : Nat, latestIngress : Nat,
          latestSuppression : Nat, epoch : Nat, inFlight : Nat]
Record == [delay : 0..MaximumBackoff, until : Nat, class : 0..3]

\* Every field has its type; in particular the exponential delay never
\* exceeds maximumTargetBackoff.
TypeOK ==
    /\ records \in [Key -> Record]
    /\ observations \in [Key -> State]
    /\ phase \in [Exchange -> {"idle", "running", "calling"}]
    /\ excluded \in [Exchange -> SUBSET Generation]
    /\ calls \in [Exchange -> Observation \cup {NoCall}]
    /\ \A x \in Exchange : phase[x] = "calling" <=> calls[x] # NoCall
    /\ now \in Nat /\ now >= startTime
    /\ admitted \in Nat
    /\ ingressOrder \in [Key -> Nat]
    /\ failureOrder \in [Key -> Nat]
    /\ windowEnd \in [Key -> Nat]

\* The inFlight counter of a target is the number of provider calls running
\* against it, whatever the order in which they end and whatever cleanup
\* removes meanwhile (begin and observe, target_backoff.go:109-213).
InFlightExact ==
    \A k \in Key : observations[k].inFlight = Cardinality(InFlight(k))

\* The ledger does not grow with the targets ever called: the order of the
\* calls on a target is kept only while a call is in flight or a record
\* stands (finishObservation and cleanup).
LedgerReclaimed ==
    \A k \in Key :
        observations[k].nextSequence > 0
            => InFlight(k) # {} \/ records[k].class # NoClass

\* The call of x ends in this step
Ends(x) == phase[x] = "calling" /\ phase'[x] # "calling"

\* A failure of an old call never suppresses a target, or extends its
\* suppression, once a call begun later has been answered: latestReachable
\* and latestIngress survive for as long as an older call is in flight.
StaleFailureNeverSuppresses ==
    [][\A x \in Exchange :
          LET k == calls[x].key
          IN Ends(x) /\ ingressOrder[k] > calls[x].order
             => records'[k].until <= records[k].until]_vars

\* An answer to the newest call clears whatever older calls had reported:
\* no suppression outlives an ingress admitted after all its evidence.
NewerIngressClears ==
    [][\A x \in Exchange :
          LET k == calls[x].key
          IN /\ Ends(x)
             /\ ingressOrder'[k] = calls[x].order
             /\ calls[x].order > failureOrder[k]
             => records'[k].class = NoClass]_vars

\* Concurrent or late failures never accelerate the backoff: while a record
\* stands, the next longer window is opened only by a call that began after
\* the previous window had run out ("completion time cannot turn stale
\* evidence into a new exponential-backoff epoch").
EscalatesOnlyAfterWindow ==
    [][\A k \in Key :
          /\ windowEnd[k] # zeroTime
          /\ windowEnd'[k] > windowEnd[k]
             \/ records'[k].delay > records[k].delay
          => \E x \in Exchange :
                Ends(x) /\ calls[x].key = k /\ calls[x].began >= windowEnd[k]]_vars

\* What the ordering state knows about a call in flight: its admission is
\* counted, it is behind every newer ingress and ahead of every older failure,
\* and if it may open a window it began after the last one.
CallInv(x) ==
    LET o == calls[x]
        s == observations[o.key]
    IN phase[x] = "calling" =>
        /\ o.order \in 1..admitted
        /\ o.sequence \in 1..s.nextSequence
        /\ o.epoch <= s.epoch
        /\ ingressOrder[o.key] # o.order
        /\ ingressOrder[o.key] > o.order => o.sequence <= s.latestIngress
        /\ o.order > failureOrder[o.key] => o.sequence > s.latestSuppression
        /\ isProbe(s, o) => o.began >= windowEnd[o.key]

\* Two calls in flight on one target are numbered in their admission order.
OrderInv(x, y) ==
    x # y /\ phase[x] = "calling" /\ phase[y] = "calling"
        /\ calls[x].key = calls[y].key
    => /\ calls[x].order # calls[y].order
       /\ calls[x].order < calls[y].order
             => calls[x].sequence < calls[y].sequence

KeyInv(k) ==
    LET s == observations[k]
    IN /\ s.latestIngress <= s.latestReachable
       /\ s.latestReachable <= s.nextSequence
       /\ s.latestSuppression <= s.nextSequence
       /\ ingressOrder[k] <= admitted
       /\ failureOrder[k] <= admitted
       /\ windowEnd[k] <= records[k].until
       /\ records[k].class = NoClass => records[k] = NoRecord

\* The inductive invariant behind the properties above: sequence numbers are
\* reused only after every call that carried one has ended, so the compact
\* per-target state decides late results as the full history would.
LedgerInv ==
    /\ InFlightExact
    /\ \A x \in Exchange : CallInv(x)
    /\ \A x, y \in Exchange : OrderInv(x, y)
    /\ \A k \in Key : KeyInv(k)

=============================================================================
