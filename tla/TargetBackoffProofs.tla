------------------------- MODULE TargetBackoffProofs -------------------------
(***************************************************************************)
(* The backoff ledger, for every number of workspaces, target generations  *)
(* and exchanges and every value of the backoff constants: what observe    *)
(* does to the ordering state and the record of one target, and what       *)
(* cleanup does; the invariant of the ledger, which the start of an        *)
(* exchange, the admission of a call, the end of a call or of an exchange  *)
(* and the passing of time preserve; and the theorems.                     *)
(***************************************************************************)
EXTENDS TargetBackoff, FiniteSetTheorems, TLAPS

USE DEF NoClass, Transport, Unavailable, Incompatible, zeroTime, NoHint

(***************************************************************************)
(* The pure part: what observe does to the ordering state s and the record *)
(* r of a target when the call o ends.                                     *)
(***************************************************************************)

\* The state orders its own fields and the call is one it has numbered
Ordered(s, r, o) ==
    /\ s.latestIngress <= s.latestReachable
    /\ s.latestReachable <= s.nextSequence
    /\ s.latestSuppression <= s.nextSequence
    /\ o.sequence <= s.nextSequence
    /\ r.class = NoClass => r = NoRecord

StateEffect(s, o, kind, t) ==
    /\ t \in State
    /\ t.inFlight = s.inFlight
    /\ t.nextSequence = s.nextSequence
    /\ t.latestIngress >= s.latestIngress
    /\ t.latestIngress <= t.latestReachable
    /\ t.latestReachable <= t.nextSequence
    /\ t.latestSuppression <= t.nextSequence
    /\ t.latestSuppression <= Maximum(s.latestSuppression, o.sequence)
    /\ kind \notin Suppressing => t.latestSuppression = s.latestSuppression
    /\ kind = "ingress" => t.latestIngress >= o.sequence

RecordEffect(s, r, o, kind, t, q) ==
    /\ q \in Record
    /\ q.class = NoClass => q = NoRecord
    /\ \/ /\ t.epoch = s.epoch
          /\ q = NoRecord \/ q.until >= r.until
          /\ q.delay <= r.delay
       \/ /\ t.epoch = s.epoch + 1
          /\ isProbe(s, o)
          /\ q.until >= now + q.delay
          /\ q.class # NoClass
    /\ o.sequence <= s.latestIngress => q.until <= r.until
    /\ kind = "ingress" /\ o.sequence > s.latestSuppression => q = NoRecord

Effect(s, r, o, kind, res) ==
    /\ StateEffect(s, o, kind, res.state)
    /\ RecordEffect(s, r, o, kind, res.state, res.record)

\* nextTargetBackoff keeps the delay positive and within maximumTargetBackoff.
LEMMA NextBackoffBounded ==
    ASSUME NEW d \in 0..MaximumBackoff
    PROVE  nextTargetBackoff(d) \in 1..MaximumBackoff
BY BackoffAssumption DEF nextTargetBackoff

\* An ingress: reachability advances and older failure evidence is dropped.
LEMMA IngressEffect ==
    ASSUME NEW s \in State, NEW r \in Record, NEW o \in Observation,
           Ordered(s, r, o), now \in Nat
    PROVE  Effect(s, r, o, "ingress", observeIngress(s, r, o))
<1> DEFINE res == observeIngress(s, r, o)
<1>1. /\ res.state \in State
      /\ res.state.inFlight = s.inFlight
      /\ res.state.nextSequence = s.nextSequence
      /\ res.state.epoch = s.epoch
      /\ res.state.latestSuppression = s.latestSuppression
      /\ res.state.latestIngress = Maximum(s.latestIngress, o.sequence)
      /\ res.state.latestReachable = Maximum(s.latestReachable, o.sequence)
  BY Zenon DEF observeIngress, State, Observation, Maximum
<1>2. res.record = IF o.sequence > s.latestSuppression THEN NoRecord ELSE r
  BY Zenon DEF observeIngress
<1>3. NoRecord \in Record
  BY BackoffAssumption DEF NoRecord, Record
<1> HIDE DEF res
<1>4. StateEffect(s, o, "ingress", res.state)
  BY <1>1 DEF StateEffect, Ordered, Maximum, State, Observation
<1>5. RecordEffect(s, r, o, "ingress", res.state, res.record)
  BY <1>1, <1>2, <1>3 DEF RecordEffect, Ordered, NoRecord, Record, State, Observation
<1> QED
  BY Zenon, <1>4, <1>5 DEF Effect, res

\* A transport failure: ignored when a newer call was answered, otherwise it
\* opens a window if the call was a probe, and a hint only extends.
LEMMA UnavailableEffect ==
    ASSUME NEW s \in State, NEW r \in Record, NEW o \in Observation,
           NEW hint \in Hints \cup {NoHint},
           Ordered(s, r, o), now \in Nat
    PROVE  Effect(s, r, o, "unavailable", observeUnavailable(s, r, o, hint))
<1> DEFINE res == observeUnavailable(s, r, o, hint)
           probe == isProbe(s, o)
           delay == IF probe THEN nextTargetBackoff(r.delay) ELSE r.delay
           own == IF probe THEN now + delay ELSE r.until
           until == IF hint # NoHint /\ now + hint > own
                    THEN now + hint ELSE own
           class == IF r.class = NoClass THEN Transport ELSE r.class
<1>1. delay \in 0..MaximumBackoff /\ (probe => delay > 0)
  BY NextBackoffBounded, BackoffAssumption DEF Record
<1>2. own \in Nat /\ until \in Nat /\ until >= own
  BY <1>1, BackoffAssumption DEF Record
<1>3. class \in 1..3
  BY DEF Record
<1>4. CASE o.sequence <= s.latestReachable
  <2>1. res.state = s /\ res.record = r
    BY Zenon, <1>4 DEF observeUnavailable
  <2> HIDE DEF res
  <2> QED
    BY <1>4, <2>1 DEF Effect, StateEffect, RecordEffect, Ordered, Maximum,
       State, Record, Observation, res, Suppressing
<1>5. CASE ~(o.sequence <= s.latestReachable)
  <2>1. /\ res.state \in State
        /\ res.state.inFlight = s.inFlight
        /\ res.state.nextSequence = s.nextSequence
        /\ res.state.epoch = IF probe THEN s.epoch + 1 ELSE s.epoch
        /\ res.state.latestSuppression
              = Maximum(s.latestSuppression, o.sequence)
        /\ res.state.latestIngress = s.latestIngress
        /\ res.state.latestReachable = s.latestReachable
    <3>1. res.state = [s EXCEPT
                         !.latestSuppression = Maximum(@, o.sequence),
                         !.epoch = IF probe THEN @ + 1 ELSE @]
      BY Zenon, <1>5 DEF observeUnavailable
    <3> DEFINE e == IF probe THEN s.epoch + 1 ELSE s.epoch
    <3>2. e \in Nat
      BY DEF State
    <3>3. res.state = [s EXCEPT
                         !.latestSuppression = Maximum(@, o.sequence),
                         !.epoch = e]
      BY Zenon, <3>1
    <3> HIDE DEF res, e
    <3> QED
      BY Zenon, <3>2, <3>3 DEF State, Observation, Maximum, e
  <2>2. res.record = IF until = zeroTime THEN r
                     ELSE [delay |-> delay, until |-> until, class |-> class]
    BY Zenon, <1>5 DEF observeUnavailable
  <2> HIDE DEF res, delay, own, until, class, probe
  <2>3. StateEffect(s, o, "unavailable", res.state)
    BY <2>1, <1>5 DEF StateEffect, Ordered, Maximum, State, Observation,
       Suppressing
  <2>4. CASE until = zeroTime
    <3>1. res.record = r /\ own = 0
      BY <2>2, <2>4, <1>2
    <3>2. ~probe
      BY <3>1, <1>1 DEF own
    <3> QED
      BY <2>1, <2>3, <3>1, <3>2, <1>5
      DEF Effect, RecordEffect, Ordered, res, Record, State, Observation
  <2>5. CASE until # zeroTime
    <3>1. /\ res.record \in Record
          /\ res.record.delay = delay
          /\ res.record.until = until
          /\ res.record.class = class
      BY <2>2, <2>5, <1>1, <1>2, <1>3 DEF Record
    <3>2. CASE probe
      BY <2>1, <2>3, <3>1, <3>2, <1>1, <1>2, <1>3, <1>5
      DEF Effect, RecordEffect, Ordered, res, own, probe, State, Observation
    <3>3. CASE ~probe
      BY <2>1, <2>3, <3>1, <3>3, <1>1, <1>2, <1>3, <1>5
      DEF Effect, RecordEffect, Ordered, res, own, delay, Record, State,
          Observation
    <3> QED
      BY Zenon, <3>2, <3>3
  <2> QED
    BY Zenon, <2>4, <2>5
<1> QED
  BY Zenon, <1>4, <1>5

\* A rejection of the target itself: it counts as reachability, and as
\* suppression unless a newer call was answered or suppressed already.
LEMMA TargetRejectionEffect ==
    ASSUME NEW s \in State, NEW r \in Record, NEW o \in Observation,
           NEW incompatible \in BOOLEAN, NEW kind \in Suppressing,
           Ordered(s, r, o), now \in Nat
    PROVE  Effect(s, r, o, kind, observeTargetRejection(s, r, o, incompatible))
<1> DEFINE res == observeTargetRejection(s, r, o, incompatible)
           s1 == [s EXCEPT !.latestReachable = Maximum(@, o.sequence)]
           probe == isProbe(s1, o)
           delay == IF probe THEN nextTargetBackoff(r.delay) ELSE r.delay
           until == IF probe THEN now + delay ELSE r.until
           class == IF incompatible \/ r.class = Incompatible
                    THEN Incompatible ELSE Unavailable
           late == o.sequence <= s1.latestIngress
                   \/ o.sequence <= s1.latestSuppression
<1>1. /\ s1 \in State
      /\ s1.inFlight = s.inFlight
      /\ s1.nextSequence = s.nextSequence
      /\ s1.epoch = s.epoch
      /\ s1.latestSuppression = s.latestSuppression
      /\ s1.latestIngress = s.latestIngress
      /\ s1.latestReachable = Maximum(s.latestReachable, o.sequence)
  BY Zenon DEF State, Observation, Maximum
<1>2. probe <=> isProbe(s, o)
  BY Zenon, <1>1 DEF isProbe
<1>3. delay \in 0..MaximumBackoff /\ until \in Nat /\ class \in 2..3
  BY NextBackoffBounded, BackoffAssumption DEF Record
<1>4. kind # "ingress"
  BY Zenon DEF Suppressing
<1>5. CASE late
  <2>1. /\ res.state = s1
        /\ res.record = IF incompatible /\ r.class # NoClass
                        THEN [r EXCEPT !.class = Incompatible] ELSE r
    BY Zenon, <1>5 DEF observeTargetRejection
  <2>2. /\ res.record \in Record
        /\ res.record.until = r.until
        /\ res.record.delay = r.delay
        /\ res.record.class = NoClass => res.record = r /\ r.class = NoClass
    <3> HIDE DEF res
    <3> QED  BY <2>1 DEF Record
  <2> HIDE DEF res, s1
  <2>3. StateEffect(s, o, kind, res.state)
    BY <1>1, <1>4, <2>1 DEF StateEffect, Ordered, Maximum, State, Observation
  <2>4. RecordEffect(s, r, o, kind, res.state, res.record)
    BY <1>1, <1>4, <2>1, <2>2 DEF RecordEffect, Ordered, State, Record
  <2> QED
    BY Zenon, <2>3, <2>4 DEF Effect, res
<1>6. CASE ~late
  <2>1. res.state = [s1 EXCEPT !.latestSuppression = o.sequence,
                               !.epoch = IF probe THEN @ + 1 ELSE @]
    BY Zenon, <1>6 DEF observeTargetRejection
  <2>2. res.record = [delay |-> delay, until |-> until, class |-> class]
    BY Zenon, <1>6 DEF observeTargetRejection
  <2>3. o.sequence > s.latestIngress
    BY <1>1, <1>6 DEF State, Observation
  <2> HIDE DEF res, s1, probe, delay, until, class, late
  <2>4. /\ res.state \in State
        /\ res.state.inFlight = s.inFlight
        /\ res.state.nextSequence = s.nextSequence
        /\ res.state.epoch = IF probe THEN s.epoch + 1 ELSE s.epoch
        /\ res.state.latestSuppression = o.sequence
        /\ res.state.latestIngress = s.latestIngress
        /\ res.state.latestReachable = Maximum(s.latestReachable, o.sequence)
    <3> DEFINE e == IF probe THEN s.epoch + 1 ELSE s.epoch
    <3>1. e \in Nat
      BY DEF State
    <3>2. res.state = [s1 EXCEPT !.latestSuppression = o.sequence, !.epoch = e]
      BY Zenon, <1>1, <2>1
    <3> HIDE DEF e
    <3> QED
      BY Zenon, <1>1, <3>1, <3>2 DEF State, Observation, e
  <2>5. /\ res.record \in Record
        /\ res.record.delay = delay
        /\ res.record.until = until
        /\ res.record.class = class
    BY <2>2, <1>3 DEF Record
  <2>6. StateEffect(s, o, kind, res.state)
    BY <1>4, <2>4 DEF StateEffect, Ordered, Maximum, State, Observation
  <2>7. CASE probe
    <3>1. until = now + delay
      BY Zenon, <2>7 DEF until
    <3> QED
      BY <1>2, <1>3, <1>4, <2>3, <2>4, <2>5, <2>6, <2>7, <3>1
      DEF Effect, RecordEffect, res, State, Observation
  <2>8. CASE ~probe
    <3>1. until = r.until /\ delay = r.delay
      BY Zenon, <2>8 DEF until, delay
    <3> QED
      BY <1>3, <1>4, <2>3, <2>4, <2>5, <2>6, <2>8, <3>1
      DEF Effect, RecordEffect, res, State, Record, Observation
  <2> QED
    BY Zenon, <2>7, <2>8
<1> QED
  BY Zenon, <1>5, <1>6

\* A rejection of the request: reachability, and a transport record goes.
LEMMA RejectionEffect ==
    ASSUME NEW s \in State, NEW r \in Record, NEW o \in Observation,
           Ordered(s, r, o), now \in Nat
    PROVE  Effect(s, r, o, "rejected", observeRejection(s, r, o))
<1> DEFINE res == observeRejection(s, r, o)
<1>1. /\ res.state \in State
      /\ res.state.inFlight = s.inFlight
      /\ res.state.nextSequence = s.nextSequence
      /\ res.state.epoch = s.epoch
      /\ res.state.latestSuppression = s.latestSuppression
      /\ res.state.latestIngress = s.latestIngress
      /\ res.state.latestReachable = Maximum(s.latestReachable, o.sequence)
  BY Zenon DEF observeRejection, State, Observation, Maximum
<1>2. res.record \in {r, NoRecord}
  BY Zenon DEF observeRejection
<1>3. NoRecord \in Record
  BY BackoffAssumption DEF NoRecord, Record
<1> HIDE DEF res
<1>4. StateEffect(s, o, "rejected", res.state)
  BY <1>1 DEF StateEffect, Ordered, Maximum, State, Observation
<1>5. RecordEffect(s, r, o, "rejected", res.state, res.record)
  BY <1>1, <1>2, <1>3 DEF RecordEffect, Ordered, NoRecord, Record, State
<1> QED
  BY Zenon, <1>4, <1>5 DEF Effect, res

\* Whatever the result of the call, observe has the effect above.
LEMMA ObservedEffect ==
    ASSUME NEW s \in State, NEW r \in Record, NEW o \in Observation,
           NEW out \in Outcome, Ordered(s, r, o), now \in Nat
    PROVE  Effect(s, r, o, out.kind, observed(s, r, o, out))
<1>1. CASE out.kind = "ingress"
  BY Zenon, <1>1, IngressEffect DEF observed
<1>2. CASE out.kind = "unavailable"
  <2>1. out.hint \in Hints \cup {NoHint}
    BY Zenon DEF Outcome
  <2> QED
    BY Zenon, <1>2, <2>1, UnavailableEffect DEF observed
<1>3. CASE out.kind = "targetUnavailable"
  <2>1. out.kind \in Suppressing
    BY Zenon, <1>3 DEF Suppressing
  <2> QED
    BY Zenon, <1>3, <2>1, TargetRejectionEffect DEF observed
<1>4. CASE out.kind = "targetIncompatible"
  <2>1. out.kind \in Suppressing
    BY Zenon, <1>4 DEF Suppressing
  <2> QED
    BY Zenon, <1>4, <2>1, TargetRejectionEffect DEF observed
<1>5. CASE out.kind = "rejected"
  BY Zenon, <1>5, RejectionEffect DEF observed
<1>6. CASE out.kind = "other"
  <2> DEFINE res == [state |-> s, record |-> r]
  <2>1. observed(s, r, o, out) = res
    BY Zenon, <1>6 DEF observed
  <2>2. StateEffect(s, o, out.kind, s)
    BY <1>6 DEF StateEffect, Ordered, Maximum, State, Observation
  <2>3. RecordEffect(s, r, o, out.kind, s, r)
    BY <1>6 DEF RecordEffect, Ordered, State, Record
  <2> QED
    BY <2>1, <2>2, <2>3 DEF Effect
<1> QED
  BY Zenon, <1>1, <1>2, <1>3, <1>4, <1>5, <1>6 DEF Outcome

(*****************************************************************************)
(* The inductive invariant, and what it says of the end of a call.           *)
(*****************************************************************************)
IInv == TypeOK /\ LedgerInv /\ LedgerReclaimed

\* The calls in flight on a target form a finite set, so inFlight counts them.
LEMMA InFlightFinite ==
    ASSUME NEW k
    PROVE  IsFiniteSet(InFlight(k))
BY Zenon, BackoffAssumption, FS_Subset DEF InFlight

\* A target with a call in flight has a positive counter.
LEMMA InFlightPositive ==
    ASSUME IInv, NEW x \in Exchange, phase[x] = "calling"
    PROVE  /\ calls[x] \in Observation
           /\ calls[x].key \in Key
           /\ observations[calls[x].key].inFlight > 0
           /\ observations[calls[x].key].inFlight
                 = Cardinality(InFlight(calls[x].key))
<1>1. calls[x] \in Observation /\ calls[x].key \in Key
  BY Zenon DEF IInv, TypeOK, Observation
<1>2. x \in InFlight(calls[x].key)
  BY Zenon DEF InFlight
<1>3. Cardinality(InFlight(calls[x].key)) \in Nat \ {0}
  BY Zenon, <1>2, InFlightFinite, FS_EmptySet, FS_CardinalityType
<1> QED
  BY <1>1, <1>3 DEF IInv, LedgerInv, InFlightExact

\* What cleanup may do to one target.
LEMMA CleanupEffect ==
    ASSUME IInv, NEW k \in Key
    PROVE  /\ cleanRecords[k] \in Record
           /\ cleanRecords[k] = records[k] \/ cleanRecords[k] = NoRecord
           /\ cleanRecords[k].class = NoClass => cleanRecords[k] = NoRecord
           /\ cleanObservations[k] \in State
           /\ cleanObservations[k] = observations[k]
              \/ (observations[k].inFlight = 0 /\ cleanObservations[k] = NoState)
           /\ cleanObservations[k].inFlight = observations[k].inFlight
           /\ keepWindows[k] \in Nat
           /\ keepWindows[k] <= windowEnd[k]
           /\ keepWindows[k] <= cleanRecords[k].until
           /\ cleanObservations[k].nextSequence > 0
                 => InFlight(k) # {} \/ cleanRecords[k].class # NoClass
<1>1. /\ records[k] \in Record /\ observations[k] \in State
      /\ windowEnd[k] \in Nat
      /\ windowEnd[k] <= records[k].until
      /\ records[k].class = NoClass => records[k] = NoRecord
      /\ observations[k].inFlight = Cardinality(InFlight(k))
  BY Zenon DEF IInv, TypeOK, LedgerInv, KeyInv, InFlightExact
<1>2. NoRecord \in Record /\ NoState \in State
  BY BackoffAssumption DEF NoRecord, Record, NoState, State
<1>3. cleanRecords[k] = IF IsStale(k) THEN NoRecord ELSE records[k]
  BY Zenon DEF cleanRecords
<1>4. cleanObservations[k] = IF IsStale(k) /\ observations[k].inFlight = 0
                             THEN NoState ELSE observations[k]
  BY Zenon DEF cleanObservations
<1>5. keepWindows[k] = IF cleanRecords[k].class = NoClass
                       THEN zeroTime ELSE windowEnd[k]
  BY Zenon DEF keepWindows
<1>6. observations[k].inFlight # 0 => InFlight(k) # {}
  BY Zenon, <1>1, FS_EmptySet
<1>7. observations[k].nextSequence > 0
        => InFlight(k) # {} \/ records[k].class # NoClass
  BY Zenon DEF IInv, LedgerReclaimed
<1>8. CASE IsStale(k)
  <2>1. cleanRecords[k] = NoRecord /\ keepWindows[k] = 0
    BY <1>3, <1>5, <1>8 DEF NoRecord
  <2>2. /\ observations[k].inFlight = 0 => cleanObservations[k] = NoState
        /\ observations[k].inFlight # 0
              => cleanObservations[k] = observations[k]
    BY Zenon, <1>4, <1>8
  <2>3. NoRecord.until = 0 /\ NoState.nextSequence = 0 /\ NoState.inFlight = 0
    BY Zenon DEF NoRecord, NoState
  <2> QED
    BY <1>1, <1>2, <1>6, <2>1, <2>2, <2>3
<1>9. CASE ~IsStale(k)
  <2>1. cleanRecords[k] = records[k] /\ cleanObservations[k] = observations[k]
    BY Zenon, <1>3, <1>4, <1>9
  <2>2. records[k].until \in Nat
    BY Zenon, <1>1 DEF Record
  <2> QED
    BY <1>1, <1>5, <1>7, <2>1, <2>2
<1> QED
  BY Zenon, <1>8, <1>9

\* Cleanup leaves the evidence of a target ordered.
LEMMA CleanupOrder ==
    ASSUME IInv, NEW k \in Key
    PROVE  /\ cleanObservations[k].latestIngress <= cleanObservations[k].latestReachable
           /\ cleanObservations[k].latestReachable <= cleanObservations[k].nextSequence
           /\ cleanObservations[k].latestSuppression <= cleanObservations[k].nextSequence
           /\ ingressOrder[k] <= admitted /\ failureOrder[k] <= admitted
<1>1. KeyInv(k)
  BY Zenon DEF IInv, LedgerInv
<1>2. /\ NoState.latestIngress = 0 /\ NoState.latestReachable = 0
      /\ NoState.latestSuppression = 0 /\ NoState.nextSequence = 0
  BY Zenon DEF NoState
<1>3. cleanObservations[k] = observations[k] \/ cleanObservations[k] = NoState
  BY Zenon, CleanupEffect
<1>4. /\ observations[k].latestIngress <= observations[k].latestReachable
      /\ observations[k].latestReachable <= observations[k].nextSequence
      /\ observations[k].latestSuppression <= observations[k].nextSequence
      /\ ingressOrder[k] <= admitted /\ failureOrder[k] <= admitted
  BY Zenon, <1>1 DEF KeyInv
<1> QED
  BY ONLY <1>2, <1>3, <1>4

\* The ordering state a result is judged against, and the verdict on it
EndState(x) == released(observations[calls[x].key])
Verdict(x, out) ==
    observed(EndState(x), cleanRecords[calls[x].key], calls[x], out)

\* observe always finds the state of its call, and changes the ledger at the
\* call's own target only, apart from cleanup.
LEMMA ObserveStep ==
    ASSUME IInv, NEW x \in Exchange, NEW out \in Outcome, Observe(x, out)
    PROVE  LET o == calls[x]
               k == o.key
               s == EndState(x)
               res == Verdict(x, out)
           IN /\ phase[x] = "calling" /\ o \in Observation /\ k \in Key
              /\ s \in State /\ s.inFlight = observations[k].inFlight - 1
              /\ s.nextSequence = observations[k].nextSequence
              /\ s.epoch = observations[k].epoch
              /\ s.latestIngress = observations[k].latestIngress
              /\ s.latestReachable = observations[k].latestReachable
              /\ s.latestSuppression = observations[k].latestSuppression
              /\ Effect(s, cleanRecords[k], o, out.kind, res)
              /\ phase' = [phase EXCEPT ![x] = "running"]
              /\ calls' = [calls EXCEPT ![x] = NoCall]
              /\ records' = [cleanRecords EXCEPT ![k] = res.record]
              /\ observations' = [cleanObservations EXCEPT
                    ![k] = finishObservation(res.state, res.record)]
              /\ windowEnd' = [keepWindows EXCEPT
                    ![k] = IF res.state.epoch > observations[k].epoch
                           THEN now + res.record.delay
                           ELSE IF res.record.class = NoClass
                           THEN zeroTime ELSE @]
<1> DEFINE o == calls[x]
           k == o.key
           s == EndState(x)
           b == observations[k]
<1>1. phase[x] = "calling"
  BY Zenon DEF Observe
<1>2. o \in Observation /\ k \in Key /\ b.inFlight > 0
  BY Zenon, <1>1, InFlightPositive
<1>3. b \in State
  BY Zenon, <1>2 DEF IInv, TypeOK
<1>4. CallInv(x) /\ KeyInv(k)
  BY Zenon, <1>2 DEF IInv, LedgerInv
<1>5. b.nextSequence > 0
  BY <1>1, <1>3, <1>4 DEF CallInv, State
<1>6. /\ s \in State /\ s.inFlight = b.inFlight - 1
      /\ s.nextSequence = b.nextSequence /\ s.epoch = b.epoch
      /\ s.latestIngress = b.latestIngress
      /\ s.latestReachable = b.latestReachable
      /\ s.latestSuppression = b.latestSuppression
  <2> HIDE DEF b
  <2> DEFINE m == b.inFlight - 1
  <2>1. m \in Nat
    BY <1>2, <1>3 DEF State
  <2>2. s = [b EXCEPT !.inFlight = m]
    BY Zenon, <1>2, <1>3 DEF EndState, released, State, b
  <2> HIDE DEF m, s
  <2>3. /\ s \in State /\ s.inFlight = m
        /\ s.nextSequence = b.nextSequence /\ s.epoch = b.epoch
        /\ s.latestIngress = b.latestIngress
        /\ s.latestReachable = b.latestReachable
        /\ s.latestSuppression = b.latestSuppression
    BY Zenon, <1>3, <2>1, <2>2 DEF State
  <2> QED
    BY Zenon, <2>3 DEF m
<1>7. Effect(s, cleanRecords[k], o, out.kind, Verdict(x, out))
  <2>1. Ordered(s, cleanRecords[k], o)
    <3>1. o.sequence <= b.nextSequence
      BY <1>1, <1>3, <1>4 DEF CallInv, State
    <3> QED
      BY Zenon, <1>2, <1>4, <1>6, <3>1, CleanupEffect DEF Ordered, KeyInv
  <2>2. cleanRecords[k] \in Record /\ now \in Nat
    BY Zenon, <1>2, CleanupEffect DEF IInv, TypeOK
  <2> HIDE DEF s, o, k
  <2>3. Effect(s, cleanRecords[k], o, out.kind,
               observed(s, cleanRecords[k], o, out))
    BY Zenon, <1>2, <1>6, <2>1, <2>2, ObservedEffect
  <2> QED
    BY Zenon, <2>3 DEF Verdict, s, o, k
<1>8. /\ phase' = [phase EXCEPT ![x] = "running"]
      /\ calls' = [calls EXCEPT ![x] = NoCall]
      /\ records' = [cleanRecords EXCEPT ![k] = Verdict(x, out).record]
      /\ observations' = [cleanObservations EXCEPT
            ![k] = finishObservation(Verdict(x, out).state, Verdict(x, out).record)]
      /\ windowEnd' = [keepWindows EXCEPT
            ![k] = IF Verdict(x, out).state.epoch > b.epoch
                   THEN now + Verdict(x, out).record.delay
                   ELSE IF Verdict(x, out).record.class = NoClass
                   THEN zeroTime ELSE @]
  BY Zenon, <1>5 DEF Observe, Verdict, EndState
<1> QED
  BY Zenon, <1>1, <1>2, <1>6, <1>7, <1>8

\* What the end of a call does to the record of its target.
LEMMA EndEffect ==
    ASSUME IInv, NEW x \in Exchange, NEW out \in Outcome, Observe(x, out)
    PROVE  LET o == calls[x]
               k == o.key
               s == EndState(x)
               t == Verdict(x, out).state
           IN /\ k \in Key /\ records'[k] \in Record
              /\ RecordEffect(s, cleanRecords[k], o, out.kind, t, records'[k])
              /\ CallInv(x) /\ phase[x] = "calling"
              /\ s.epoch = observations[k].epoch /\ s.epoch \in Nat
              /\ s.latestIngress = observations[k].latestIngress
              /\ s.latestSuppression = observations[k].latestSuppression
              /\ windowEnd'[k] = IF t.epoch > s.epoch
                                 THEN now + records'[k].delay
                                 ELSE IF records'[k].class = NoClass
                                 THEN zeroTime ELSE keepWindows[k]
              /\ \A j \in Key : j # k => /\ records'[j] = cleanRecords[j]
                                        /\ windowEnd'[j] = keepWindows[j]
<1> DEFINE k == calls[x].key
           res == Verdict(x, out)
<1>1. k \in Key
  BY Zenon, ObserveStep
<1>2. /\ records' = [cleanRecords EXCEPT ![k] = res.record]
      /\ windowEnd' = [keepWindows EXCEPT
            ![k] = IF res.state.epoch > observations[k].epoch
                   THEN now + res.record.delay
                   ELSE IF res.record.class = NoClass THEN zeroTime ELSE @]
  BY Zenon, ObserveStep
<1>3. records'[k] = res.record
  BY Zenon, <1>1, <1>2 DEF cleanRecords
<1>4. CallInv(x)
  BY Zenon DEF IInv, LedgerInv
<1>5. /\ Effect(EndState(x), cleanRecords[k], calls[x], out.kind, res)
      /\ phase[x] = "calling" /\ EndState(x) \in State
      /\ EndState(x).epoch = observations[k].epoch
      /\ EndState(x).latestIngress = observations[k].latestIngress
      /\ EndState(x).latestSuppression = observations[k].latestSuppression
  BY Zenon, ObserveStep
<1>6. /\ RecordEffect(EndState(x), cleanRecords[k], calls[x], out.kind,
                     res.state, records'[k])
      /\ records'[k] \in Record
  BY Zenon, <1>3, <1>5 DEF Effect, RecordEffect
<1>7. EndState(x).epoch \in Nat
  BY Zenon, <1>5 DEF State
<1> HIDE DEF res, k
<1>8. windowEnd'[k] = IF res.state.epoch > EndState(x).epoch
                      THEN now + records'[k].delay
                      ELSE IF records'[k].class = NoClass
                      THEN zeroTime ELSE keepWindows[k]
  BY Zenon, <1>1, <1>2, <1>3, <1>5 DEF keepWindows
<1>9. \A j \in Key : j # k => /\ records'[j] = cleanRecords[j]
                             /\ windowEnd'[j] = keepWindows[j]
  BY Zenon, <1>2 DEF cleanRecords, keepWindows
<1> QED
  BY Zenon, <1>1, <1>4, <1>5, <1>6, <1>7, <1>8, <1>9 DEF res, k

-----------------------------------------------------------------------------
(* The steps                                                               *)

\* The initial state satisfies the invariant.
LEMMA InitInv == Init => IInv
<1> SUFFICES ASSUME Init PROVE IInv
  BY Zenon
<1>1. NoRecord \in Record /\ NoState \in State
  BY BackoffAssumption DEF NoRecord, Record, NoState, State
<1>2. TypeOK
  BY <1>1, BackoffAssumption DEF Init, TypeOK, startTime, Stale
<1>3. \A k \in Key : InFlight(k) = {}
  BY Zenon DEF Init, InFlight
<1>4. InFlightExact
  BY Zenon, <1>3, FS_EmptySet DEF InFlightExact, Init, NoState
<1>5. \A k \in Key : KeyInv(k)
  BY DEF Init, KeyInv, NoState, NoRecord
<1>6. \A x, y \in Exchange : CallInv(x) /\ OrderInv(x, y)
  BY Zenon DEF Init, CallInv, OrderInv
<1>7. LedgerReclaimed
  BY DEF LedgerReclaimed, Init, NoState
<1> QED
  BY Zenon, <1>2, <1>4, <1>5, <1>6, <1>7 DEF IInv, LedgerInv

\* Steps that leave calls, orders and numbering alone except for cleanup.
LEMMA StartInv ==
    ASSUME IInv, NEW x \in Exchange, Start(x)
    PROVE  IInv'
<1>1. /\ calls' = calls /\ now' = now /\ admitted' = admitted
      /\ ingressOrder' = ingressOrder /\ failureOrder' = failureOrder
      /\ records' = cleanRecords /\ observations' = cleanObservations
      /\ windowEnd' = keepWindows
      /\ phase[x] = "idle" /\ phase' = [phase EXCEPT ![x] = "running"]
      /\ excluded' = [excluded EXCEPT ![x] = activeTargets(WorkspaceOf[x])]
  BY Zenon DEF Start
<1>2. TypeOK
  BY Zenon DEF IInv
<1>3. \A y \in Exchange : phase'[y] = "calling" <=> phase[y] = "calling"
  BY Zenon, <1>1, <1>2 DEF TypeOK
<1>4. \A k : InFlight(k)' = InFlight(k)
  BY Zenon, <1>1, <1>3 DEF InFlight
<1>5. TypeOK'
  <2>1. activeTargets(WorkspaceOf[x]) \in SUBSET Generation
    BY Zenon DEF activeTargets
  <2>2. cleanRecords \in [Key -> Record]
    <3>1. cleanRecords = [k \in Key |-> cleanRecords[k]]
      BY Zenon DEF cleanRecords
    <3> QED  BY Zenon, <3>1, CleanupEffect
  <2>3. cleanObservations \in [Key -> State]
    <3>1. cleanObservations = [k \in Key |-> cleanObservations[k]]
      BY Zenon DEF cleanObservations
    <3> QED  BY Zenon, <3>1, CleanupEffect
  <2>4. keepWindows \in [Key -> Nat]
    <3>1. keepWindows = [k \in Key |-> keepWindows[k]]
      BY Zenon DEF keepWindows
    <3> QED  BY Zenon, <3>1, CleanupEffect
  <2> QED
    BY Zenon, <1>1, <1>2, <1>3, <2>1, <2>2, <2>3, <2>4 DEF TypeOK
<1>6. InFlightExact'
  BY Zenon, <1>1, <1>4, CleanupEffect DEF IInv, LedgerInv, InFlightExact
<1>7. \A y \in Exchange : CallInv(y)'
  <2> SUFFICES ASSUME NEW y \in Exchange, phase'[y] = "calling"
               PROVE  CallInv(y)'
    BY Zenon DEF CallInv
  <2>1. phase[y] = "calling"
    BY Zenon, <1>3
  <2>2. /\ calls[y].key \in Key
        /\ cleanObservations[calls[y].key] = observations[calls[y].key]
        /\ keepWindows[calls[y].key] <= windowEnd[calls[y].key]
        /\ keepWindows[calls[y].key] \in Nat
        /\ windowEnd[calls[y].key] \in Nat
        /\ calls[y].began \in Nat
    BY <2>1, <1>2, InFlightPositive, CleanupEffect DEF TypeOK, Observation
  <2>3. CallInv(y)
    BY Zenon DEF IInv, LedgerInv
  <2> QED
    BY <1>1, <2>1, <2>2, <2>3 DEF CallInv, isProbe
<1>8. \A y, z \in Exchange : OrderInv(y, z)'
  BY Zenon, <1>1, <1>3 DEF IInv, LedgerInv, OrderInv
<1>9. \A k \in Key : KeyInv(k)'
  <2> SUFFICES ASSUME NEW k \in Key PROVE KeyInv(k)'
    BY Zenon
  <2>1. KeyInv(k)
    BY Zenon DEF IInv, LedgerInv
  <2>2. /\ cleanObservations[k].latestIngress <= cleanObservations[k].latestReachable
        /\ cleanObservations[k].latestReachable <= cleanObservations[k].nextSequence
        /\ cleanObservations[k].latestSuppression <= cleanObservations[k].nextSequence
        /\ ingressOrder[k] <= admitted /\ failureOrder[k] <= admitted
    BY Zenon, CleanupOrder
  <2>3. keepWindows[k] <= cleanRecords[k].until
        /\ (cleanRecords[k].class = NoClass => cleanRecords[k] = NoRecord)
    BY Zenon, CleanupEffect
  <2> QED
    BY Zenon, <1>1, <2>2, <2>3 DEF KeyInv
<1>10. LedgerReclaimed'
  BY Zenon, <1>1, <1>4, CleanupEffect DEF LedgerReclaimed
<1> QED
  BY Zenon, <1>5, <1>6, <1>7, <1>8, <1>9, <1>10 DEF IInv, LedgerInv

\* Finishing an exchange and the passing of time touch nothing of the ledger.
LEMMA QuietInv ==
    ASSUME IInv,
           Tick \/ (\E x \in Exchange : Finish(x)) \/ UNCHANGED vars
    PROVE  IInv'
<1>1. /\ calls' = calls /\ admitted' = admitted
      /\ ingressOrder' = ingressOrder /\ failureOrder' = failureOrder
      /\ records' = records /\ observations' = observations
      /\ windowEnd' = windowEnd
  BY Zenon DEF Tick, Finish, vars
<1>2. TypeOK
  BY Zenon DEF IInv
<1>3. \A y \in Exchange : phase'[y] = "calling" <=> phase[y] = "calling"
  BY Zenon, <1>2 DEF TypeOK, Tick, Finish, vars
<1>4. \A k : InFlight(k)' = InFlight(k)
  BY Zenon, <1>1, <1>3 DEF InFlight
<1>5. TypeOK'
  <2>1. /\ phase' \in [Exchange -> {"idle", "running", "calling"}]
        /\ excluded' \in [Exchange -> SUBSET Generation]
        /\ now' \in Nat /\ now' >= startTime
    BY <1>2, BackoffAssumption DEF TypeOK, Tick, Finish, vars, startTime, Stale
  <2> QED
    BY Zenon, <1>1, <1>2, <1>3, <2>1 DEF TypeOK, startTime, Stale
<1>6. InFlightExact' /\ LedgerReclaimed'
  BY Zenon, <1>1, <1>4 DEF IInv, LedgerInv, InFlightExact, LedgerReclaimed
<1>7. \A y \in Exchange : CallInv(y)'
  BY Zenon, <1>1, <1>3 DEF IInv, LedgerInv, CallInv, isProbe
<1>8. \A y, z \in Exchange : OrderInv(y, z)'
  BY Zenon, <1>1, <1>3 DEF IInv, LedgerInv, OrderInv
<1>9. \A k \in Key : KeyInv(k)'
  BY Zenon, <1>1 DEF IInv, LedgerInv, KeyInv
<1> QED
  BY Zenon, <1>5, <1>6, <1>7, <1>8, <1>9 DEF IInv, LedgerInv

\* begin numbers the call behind every earlier one and captures whether the
\* target was suppressed.
LEMMA BeginInv ==
    ASSUME IInv, NEW x \in Exchange, NEW g \in Generation, Begin(x, g)
    PROVE  IInv'
<1> DEFINE k == <<WorkspaceOf[x], g>>
           c == cleanObservations[k]
           state == [c EXCEPT !.nextSequence = @ + 1, !.inFlight = @ + 1]
           call == [key |-> k, sequence |-> state.nextSequence,
                    epoch |-> state.epoch,
                    suppressed |-> now < cleanRecords[k].until,
                    order |-> admitted + 1, began |-> now]
<1>1. /\ phase[x] = "running" /\ phase' = [phase EXCEPT ![x] = "calling"]
      /\ admitted' = admitted + 1
      /\ records' = cleanRecords
      /\ observations' = [cleanObservations EXCEPT ![k] = state]
      /\ calls' = [calls EXCEPT ![x] = call]
      /\ windowEnd' = keepWindows
      /\ excluded' = excluded /\ now' = now
      /\ ingressOrder' = ingressOrder /\ failureOrder' = failureOrder
  BY Zenon DEF Begin
<1>2. TypeOK
  BY Zenon DEF IInv
<1>3. k \in Key
  BY Zenon, BackoffAssumption DEF Key
<1>4. c \in State
  BY Zenon, <1>3, CleanupEffect
<1> HIDE DEF c
<1>5. /\ state \in State
      /\ state.nextSequence = c.nextSequence + 1
      /\ state.inFlight = c.inFlight + 1
      /\ state.epoch = c.epoch
      /\ state.latestIngress = c.latestIngress
      /\ state.latestReachable = c.latestReachable
      /\ state.latestSuppression = c.latestSuppression
  <2> DEFINE n == c.nextSequence + 1
             m == c.inFlight + 1
  <2>1. n \in Nat /\ m \in Nat
    BY <1>4 DEF State
  <2>2. state = [c EXCEPT !.nextSequence = n, !.inFlight = m]
    BY Zenon, <1>4 DEF State
  <2> HIDE DEF n, m, state
  <2>3. /\ state \in State /\ state.nextSequence = n /\ state.inFlight = m
        /\ state.epoch = c.epoch
        /\ state.latestIngress = c.latestIngress
        /\ state.latestReachable = c.latestReachable
        /\ state.latestSuppression = c.latestSuppression
    BY Zenon, <1>4, <2>1, <2>2 DEF State
  <2> QED
    BY Zenon, <2>3 DEF n, m
<1> HIDE DEF state
<1>6. /\ call.key = k /\ call.sequence = c.nextSequence + 1
      /\ call.epoch = c.epoch /\ call.order = admitted + 1
      /\ call.began = now
      /\ ~call.suppressed => ~(now < cleanRecords[k].until)
      /\ call \in Observation /\ call # NoCall
  <2>1. call \in Observation
    BY <1>2, <1>3, <1>5 DEF TypeOK, Observation, State
  <2>2. call # NoCall
    BY Zenon, <1>2, <1>5 DEF NoCall, TypeOK
  <2> QED
    BY Zenon, <1>5, <2>1, <2>2
<1>7. /\ observations'[k] = state
      /\ \A j \in Key : j # k => observations'[j] = cleanObservations[j]
  BY Zenon, <1>1, <1>3 DEF cleanObservations
<1>8. /\ calls'[x] = call /\ phase'[x] = "calling"
      /\ \A y \in Exchange : y # x => calls'[y] = calls[y] /\ phase'[y] = phase[y]
  BY Zenon, <1>1, <1>2 DEF TypeOK
<1> HIDE DEF call
<1>9. TypeOK'
  <2>1. cleanRecords \in [Key -> Record] /\ keepWindows \in [Key -> Nat]
    <3>1. /\ cleanRecords = [j \in Key |-> cleanRecords[j]]
          /\ keepWindows = [j \in Key |-> keepWindows[j]]
      BY Zenon DEF cleanRecords, keepWindows
    <3> QED  BY Zenon, <3>1, CleanupEffect
  <2>2. cleanObservations \in [Key -> State]
    <3>1. cleanObservations = [j \in Key |-> cleanObservations[j]]
      BY Zenon DEF cleanObservations
    <3> QED  BY Zenon, <3>1, CleanupEffect
  <2>3. observations' \in [Key -> State]
    BY Zenon, <1>1, <1>5, <2>2
  <2>4. /\ calls' \in [Exchange -> Observation \cup {NoCall}]
        /\ phase' \in [Exchange -> {"idle", "running", "calling"}]
    BY Zenon, <1>1, <1>2, <1>6 DEF TypeOK
  <2>5. \A y \in Exchange : phase'[y] = "calling" <=> calls'[y] # NoCall
    BY Zenon, <1>2, <1>6, <1>8 DEF TypeOK
  <2> QED
    BY <1>1, <1>2, <2>1, <2>3, <2>4, <2>5 DEF TypeOK, startTime, Stale
<1>10. /\ InFlight(k)' = InFlight(k) \cup {x} /\ x \notin InFlight(k)
       /\ \A j \in Key : j # k => InFlight(j)' = InFlight(j)
  BY <1>1, <1>6, <1>8 DEF InFlight
<1>11. InFlightExact'
  <2> SUFFICES ASSUME NEW j \in Key
               PROVE  observations'[j].inFlight = Cardinality(InFlight(j)')
    BY Zenon DEF InFlightExact
  <2>1. cleanObservations[j].inFlight = Cardinality(InFlight(j))
    BY Zenon, CleanupEffect DEF IInv, LedgerInv, InFlightExact
  <2>2. CASE j = k
    <3>1. Cardinality(InFlight(k) \cup {x}) = Cardinality(InFlight(k)) + 1
      BY Zenon, <1>10, InFlightFinite, FS_AddElement
    <3> QED
      BY Zenon, <1>5, <1>7, <1>10, <2>1, <2>2, <3>1 DEF c
  <2>3. CASE j # k
    BY Zenon, <1>7, <1>10, <2>1, <2>3
  <2> QED
    BY Zenon, <2>2, <2>3
<1>12. \A j \in Key : /\ keepWindows[j] <= windowEnd[j]
                      /\ keepWindows[j] \in Nat /\ windowEnd[j] \in Nat
  BY Zenon, <1>2, CleanupEffect DEF TypeOK
<1>13. \A j \in Key : KeyInv(j)'
  <2> SUFFICES ASSUME NEW j \in Key PROVE KeyInv(j)'
    BY Zenon
  <2>1. /\ KeyInv(j) /\ ingressOrder[j] \in Nat /\ failureOrder[j] \in Nat
        /\ admitted \in Nat
    BY Zenon, <1>2 DEF IInv, LedgerInv, TypeOK
  <2>3. /\ keepWindows[j] <= cleanRecords[j].until
        /\ cleanRecords[j].class = NoClass => cleanRecords[j] = NoRecord
    BY Zenon, CleanupEffect
  <2>4. /\ cleanObservations[j].latestIngress <= cleanObservations[j].latestReachable
        /\ cleanObservations[j].latestReachable <= cleanObservations[j].nextSequence
        /\ cleanObservations[j].latestSuppression <= cleanObservations[j].nextSequence
    BY Zenon, CleanupOrder
  <2>5. /\ observations'[j].latestIngress <= observations'[j].latestReachable
        /\ observations'[j].latestReachable <= observations'[j].nextSequence
        /\ observations'[j].latestSuppression <= observations'[j].nextSequence
    <3>1. CASE j = k
      BY <1>4, <1>5, <1>7, <2>4, <3>1 DEF c, State
    <3>2. CASE j # k
      BY Zenon, <1>7, <2>4, <3>2
    <3> QED
      BY Zenon, <3>1, <3>2
  <2> QED
    BY <1>1, <2>1, <2>3, <2>5 DEF KeyInv
<1>14. CallInv(x)'
  <2>1. /\ c.latestSuppression <= c.nextSequence
        /\ ingressOrder[k] <= admitted
    BY Zenon, <1>3, CleanupOrder DEF c
  <2>2. ~call.suppressed => call.began >= keepWindows[k]
    <3>1. /\ now \in Nat /\ keepWindows[k] \in Nat
          /\ cleanRecords[k].until \in Nat
          /\ keepWindows[k] <= cleanRecords[k].until
      BY Zenon, <1>2, <1>3, CleanupEffect DEF TypeOK, Record
    <3> QED
      BY <1>6, <3>1
  <2>3. /\ admitted \in Nat /\ ingressOrder[k] \in Nat
        /\ c.nextSequence \in Nat /\ c.latestSuppression \in Nat
        /\ c.epoch \in Nat
    BY Zenon, <1>2, <1>3, <1>4 DEF TypeOK, State
  <2> QED
    BY <1>1, <1>5, <1>6, <1>7, <1>8, <2>1, <2>2, <2>3 DEF CallInv, isProbe
<1>15. \A y \in Exchange : y # x /\ phase[y] = "calling" =>
          /\ calls[y].key \in Key /\ calls[y] \in Observation
          /\ cleanObservations[calls[y].key] = observations[calls[y].key]
          /\ CallInv(y)
          /\ calls[y].key = k => calls[y].sequence <= c.nextSequence
  <2> SUFFICES ASSUME NEW y \in Exchange, y # x, phase[y] = "calling"
               PROVE  /\ calls[y].key \in Key /\ calls[y] \in Observation
                      /\ cleanObservations[calls[y].key] = observations[calls[y].key]
                      /\ CallInv(y)
                      /\ calls[y].key = k => calls[y].sequence <= c.nextSequence
    BY Zenon
  <2>1. /\ calls[y].key \in Key /\ calls[y] \in Observation
        /\ cleanObservations[calls[y].key] = observations[calls[y].key]
    BY InFlightPositive, CleanupEffect
  <2>2. CallInv(y)
    BY Zenon DEF IInv, LedgerInv
  <2> QED
    BY <2>1, <2>2 DEF CallInv, c
<1>16. \A y \in Exchange : CallInv(y)'
  <2> SUFFICES ASSUME NEW y \in Exchange, y # x, phase[y] = "calling"
               PROVE  CallInv(y)'
    BY Zenon, <1>8, <1>14 DEF CallInv
  <2> DEFINE j == calls[y].key
             t == observations'[j]
  <2>1. /\ j \in Key /\ calls[y] \in Observation /\ CallInv(y)
        /\ observations[j] \in State
    BY Zenon, <1>2, <1>15 DEF TypeOK
  <2>2. /\ t.nextSequence >= observations[j].nextSequence
        /\ t.nextSequence \in Nat
        /\ t.epoch = observations[j].epoch
        /\ t.latestIngress = observations[j].latestIngress
        /\ t.latestSuppression = observations[j].latestSuppression
    <3>1. CASE j = k
      BY <1>5, <1>7, <1>15, <2>1, <3>1 DEF c, State
    <3>2. CASE j # k
      BY <1>7, <1>15, <2>1, <3>2 DEF State
    <3> QED
      BY Zenon, <3>1, <3>2
  <2>3. calls'[y] = calls[y] /\ phase'[y] = "calling"
    BY Zenon, <1>8
  <2>4. /\ keepWindows[j] <= windowEnd[j] /\ keepWindows[j] \in Nat
        /\ windowEnd[j] \in Nat
    BY Zenon, <1>12, <2>1
  <2>5. /\ admitted \in Nat /\ calls[y].order \in Nat
        /\ calls[y].sequence \in Nat /\ calls[y].began \in Nat
        /\ observations[j].nextSequence \in Nat
    BY Zenon, <1>2, <2>1 DEF TypeOK, Observation, State
  <2>6. /\ admitted' = admitted + 1 /\ windowEnd' = keepWindows
        /\ ingressOrder' = ingressOrder /\ failureOrder' = failureOrder
    BY Zenon, <1>1
  <2>7. LET o == calls[y]
            b == observations[j]
        IN /\ o.order \in 1..admitted
           /\ o.sequence \in 1..b.nextSequence
           /\ o.epoch <= b.epoch
           /\ ingressOrder[j] # o.order
           /\ ingressOrder[j] > o.order => o.sequence <= b.latestIngress
           /\ o.order > failureOrder[j] => o.sequence > b.latestSuppression
           /\ (o.epoch = b.epoch /\ ~o.suppressed) => o.began >= windowEnd[j]
    BY Zenon, <2>1 DEF CallInv, isProbe
  <2>8. (calls[y].epoch = t.epoch /\ ~calls[y].suppressed)
            => calls[y].began >= keepWindows[j]
    <3> HIDE DEF t, j
    <3> QED  BY ONLY <2>2, <2>4, <2>5, <2>7
  <2>9. /\ calls[y].order \in 1 .. admitted'
        /\ calls[y].sequence \in 1 .. t.nextSequence
    <3> HIDE DEF t, j
    <3> QED  BY ONLY <2>2, <2>5, <2>6, <2>7
  <2>10. calls[y].epoch <= t.epoch
    <3> HIDE DEF t, j
    <3> QED  BY Zenon, <2>2, <2>7
  <2> QED
    BY Zenon, <2>2, <2>3, <2>6, <2>7, <2>8, <2>9, <2>10 DEF CallInv, isProbe
<1>17. \A y, z \in Exchange : OrderInv(y, z)'
  <2> SUFFICES ASSUME NEW y \in Exchange, NEW z \in Exchange, y # z,
                      phase'[y] = "calling", phase'[z] = "calling",
                      calls'[y].key = calls'[z].key
               PROVE  /\ calls'[y].order # calls'[z].order
                      /\ calls'[y].order < calls'[z].order
                            => calls'[y].sequence < calls'[z].sequence
    BY Zenon DEF OrderInv
  <2>1. admitted \in Nat /\ c.nextSequence \in Nat
    BY Zenon, <1>2, <1>4 DEF TypeOK, State
  <2>2. \A w \in Exchange : w # x /\ phase[w] = "calling" =>
            calls[w].order \in 1..admitted /\ calls[w].sequence \in Nat
    BY Zenon, <1>15 DEF CallInv, Observation
  <2>3. CASE y = x
    BY <1>6, <1>8, <2>1, <2>2, <2>3
  <2>4. CASE z = x
    BY <1>6, <1>8, <1>15, <2>1, <2>2, <2>4
  <2>5. CASE y # x /\ z # x
    BY <1>8, <2>5 DEF IInv, LedgerInv, OrderInv
  <2> QED
    BY Zenon, <2>3, <2>4, <2>5
<1>18. LedgerReclaimed'
  <2> SUFFICES ASSUME NEW j \in Key, observations'[j].nextSequence > 0
               PROVE  InFlight(j)' # {} \/ records'[j].class # NoClass
    BY Zenon DEF LedgerReclaimed
  <2>1. CASE j = k
    BY Zenon, <1>10, <2>1
  <2>2. CASE j # k
    BY Zenon, <1>1, <1>7, <1>10, <2>2, CleanupEffect
  <2> QED
    BY Zenon, <2>1, <2>2
<1> QED
  BY Zenon, <1>9, <1>11, <1>13, <1>16, <1>17, <1>18 DEF IInv, LedgerInv

-----------------------------------------------------------------------------
(* The end of a provider call, and the theorems.                            *)

\* observe: whatever the result and however late, the remaining calls stay
\* ordered against the evidence kept.
LEMMA ObserveInv ==
    ASSUME IInv, NEW x \in Exchange, NEW out \in Outcome, Observe(x, out)
    PROVE  IInv'
<1> DEFINE o == calls[x]
           k == o.key
           s == EndState(x)
           t == Verdict(x, out).state
           q == Verdict(x, out).record
           r == cleanRecords[k]
           e == finishObservation(t, q)
           w == IF t.epoch > observations[k].epoch THEN now + q.delay
                ELSE IF q.class = NoClass THEN zeroTime ELSE keepWindows[k]
<1>1. /\ phase[x] = "calling" /\ o \in Observation /\ k \in Key
      /\ s \in State /\ s.inFlight = observations[k].inFlight - 1
      /\ s.nextSequence = observations[k].nextSequence
      /\ s.epoch = observations[k].epoch
      /\ s.latestIngress = observations[k].latestIngress
      /\ s.latestReachable = observations[k].latestReachable
      /\ s.latestSuppression = observations[k].latestSuppression
  BY Zenon, ObserveStep
<1>2. StateEffect(s, o, out.kind, t) /\ RecordEffect(s, r, o, out.kind, t, q)
  BY Zenon, ObserveStep DEF Effect
<1>3. /\ phase' = [phase EXCEPT ![x] = "running"]
      /\ calls' = [calls EXCEPT ![x] = NoCall]
      /\ records' = [cleanRecords EXCEPT ![k] = q]
      /\ observations' = [cleanObservations EXCEPT ![k] = e]
  BY Zenon, ObserveStep
<1>4. windowEnd' = [keepWindows EXCEPT ![k] = w]
  BY Zenon, <1>1, ObserveStep DEF keepWindows
<1>5. /\ now' = now /\ admitted' = admitted
      /\ ingressOrder' = IF out.kind = "ingress"
                         THEN [ingressOrder EXCEPT ![k] = Maximum(@, o.order)]
                         ELSE ingressOrder
      /\ failureOrder' = IF out.kind \in Suppressing
                         THEN [failureOrder EXCEPT ![k] = Maximum(@, o.order)]
                         ELSE failureOrder
      /\ excluded' = IF out.kind = "unavailable"
                     THEN [excluded EXCEPT ![x] = @ \cup {k[2]}]
                     ELSE excluded
  BY Zenon DEF Observe
<1>6. TypeOK
  BY Zenon DEF IInv
<1> HIDE DEF t, q, s, w
<1>7. /\ t \in State /\ q \in Record /\ r \in Record /\ w \in Nat
      /\ e \in State /\ (e = t \/ (e = NoState /\ t.inFlight = 0 /\ q.class = NoClass))
  <2>1. t \in State /\ q \in Record /\ r \in Record
    BY Zenon, <1>1, <1>2, CleanupEffect DEF StateEffect, RecordEffect
  <2>2. w \in Nat
    <3>1. now \in Nat /\ q.delay \in Nat /\ keepWindows[k] \in Nat
      BY <1>1, <1>6, <2>1, BackoffAssumption, CleanupEffect DEF TypeOK, Record
    <3> QED  BY <3>1 DEF w
  <2>3. NoState \in State
    BY Zenon DEF NoState, State
  <2> QED
    BY Zenon, <2>1, <2>2, <2>3 DEF finishObservation
<1>8. /\ cleanRecords \in [Key -> Record] /\ keepWindows \in [Key -> Nat]
      /\ cleanObservations \in [Key -> State]
  <2>1. /\ cleanRecords = [j \in Key |-> cleanRecords[j]]
        /\ keepWindows = [j \in Key |-> keepWindows[j]]
        /\ cleanObservations = [j \in Key |-> cleanObservations[j]]
    BY Zenon DEF cleanRecords, keepWindows, cleanObservations
  <2> QED  BY Zenon, <2>1, CleanupEffect
<1> HIDE DEF e
<1>9. /\ observations'[k] = e /\ records'[k] = q /\ windowEnd'[k] = w
      /\ \A j \in Key : j # k => /\ observations'[j] = cleanObservations[j]
                                /\ records'[j] = cleanRecords[j]
                                /\ windowEnd'[j] = keepWindows[j]
  BY Zenon, <1>1, <1>3, <1>4, <1>8
<1>10. /\ calls'[x] = NoCall /\ phase'[x] = "running"
       /\ \A y \in Exchange : y # x => calls'[y] = calls[y] /\ phase'[y] = phase[y]
  BY Zenon, <1>3, <1>6 DEF TypeOK
<1>11. /\ ingressOrder' \in [Key -> Nat] /\ failureOrder' \in [Key -> Nat]
       /\ \A j \in Key : j # k => /\ ingressOrder'[j] = ingressOrder[j]
                                 /\ failureOrder'[j] = failureOrder[j]
       /\ ingressOrder'[k] = IF out.kind = "ingress"
                THEN Maximum(ingressOrder[k], o.order) ELSE ingressOrder[k]
       /\ failureOrder'[k] = IF out.kind \in Suppressing
                THEN Maximum(failureOrder[k], o.order) ELSE failureOrder[k]
  <2> DEFINE mi == Maximum(ingressOrder[k], o.order)
             mf == Maximum(failureOrder[k], o.order)
  <2>1. mi \in Nat /\ mf \in Nat
    BY Zenon, <1>1, <1>6 DEF TypeOK, Observation, Maximum
  <2>2. /\ ingressOrder' = IF out.kind = "ingress"
                  THEN [ingressOrder EXCEPT ![k] = mi] ELSE ingressOrder
        /\ failureOrder' = IF out.kind \in Suppressing
                  THEN [failureOrder EXCEPT ![k] = mf] ELSE failureOrder
    BY Zenon, <1>1, <1>5, <1>6 DEF TypeOK
  <2>3. ingressOrder \in [Key -> Nat] /\ failureOrder \in [Key -> Nat]
    BY Zenon, <1>6 DEF TypeOK
  <2> HIDE DEF mi, mf
  <2>4. /\ ingressOrder' \in [Key -> Nat] /\ failureOrder' \in [Key -> Nat]
        /\ \A j \in Key : j # k => /\ ingressOrder'[j] = ingressOrder[j]
                                  /\ failureOrder'[j] = failureOrder[j]
        /\ ingressOrder'[k] = IF out.kind = "ingress" THEN mi ELSE ingressOrder[k]
        /\ failureOrder'[k] = IF out.kind \in Suppressing THEN mf ELSE failureOrder[k]
    BY Zenon, <1>1, <2>1, <2>2, <2>3
  <2> QED
    BY Zenon, <2>4 DEF mi, mf
<1>12. TypeOK'
  <2>1. /\ records' \in [Key -> Record] /\ observations' \in [Key -> State]
        /\ windowEnd' \in [Key -> Nat]
    BY Zenon, <1>1, <1>3, <1>4, <1>7, <1>8
  <2>2. excluded' \in [Exchange -> SUBSET Generation]
    <3>1. k[2] \in Generation
      BY Zenon, <1>1 DEF Key
    <3> QED
      BY Zenon, <1>5, <1>6, <3>1 DEF TypeOK
  <2>3. /\ calls' \in [Exchange -> Observation \cup {NoCall}]
        /\ phase' \in [Exchange -> {"idle", "running", "calling"}]
    BY Zenon, <1>3, <1>6 DEF TypeOK
  <2>4. \A y \in Exchange : phase'[y] = "calling" <=> calls'[y] # NoCall
    BY Zenon, <1>6, <1>10 DEF TypeOK
  <2> QED
    BY Zenon, <1>5, <1>6, <1>11, <2>1, <2>2, <2>3, <2>4 DEF TypeOK, startTime, Stale
<1>13. /\ x \in InFlight(k)
       /\ \A j \in Key : /\ j = k => InFlight(j)' = InFlight(j) \ {x}
                         /\ j # k => InFlight(j)' = InFlight(j)
  BY Zenon, <1>1, <1>10 DEF InFlight
<1>14. /\ t.inFlight = Cardinality(InFlight(k) \ {x})
       /\ e.inFlight = Cardinality(InFlight(k) \ {x})
  <2>1. observations[k].inFlight = Cardinality(InFlight(k))
    BY Zenon, <1>1 DEF IInv, LedgerInv, InFlightExact
  <2>2. Cardinality(InFlight(k) \ {x}) = Cardinality(InFlight(k)) - 1
    BY Zenon, <1>13, InFlightFinite, FS_RemoveElement
  <2>3. t.inFlight = s.inFlight
    BY Zenon, <1>2 DEF StateEffect
  <2> QED
    BY <1>1, <1>7, <2>1, <2>2, <2>3 DEF NoState
<1>15. InFlightExact'
  <2> SUFFICES ASSUME NEW j \in Key
               PROVE  observations'[j].inFlight = Cardinality(InFlight(j)')
    BY Zenon DEF InFlightExact
  <2>1. CASE j = k
    BY Zenon, <1>9, <1>13, <1>14, <2>1
  <2>2. CASE j # k
    BY Zenon, <1>9, <1>13, <2>2, CleanupEffect DEF IInv, LedgerInv, InFlightExact
  <2> QED
    BY Zenon, <2>1, <2>2
<1>16. \A y \in Exchange : y # x /\ phase[y] = "calling" =>
          /\ calls[y].key \in Key /\ calls[y] \in Observation
          /\ cleanObservations[calls[y].key] = observations[calls[y].key]
          /\ CallInv(y) /\ OrderInv(x, y) /\ OrderInv(y, x)
          /\ calls[y].key = k => e = t
  <2> SUFFICES ASSUME NEW y \in Exchange, y # x, phase[y] = "calling"
               PROVE  /\ calls[y].key \in Key /\ calls[y] \in Observation
                      /\ cleanObservations[calls[y].key] = observations[calls[y].key]
                      /\ CallInv(y) /\ OrderInv(x, y) /\ OrderInv(y, x)
                      /\ calls[y].key = k => e = t
    BY Zenon
  <2>1. /\ calls[y].key \in Key /\ calls[y] \in Observation
        /\ cleanObservations[calls[y].key] = observations[calls[y].key]
    BY InFlightPositive, CleanupEffect
  <2>2. CallInv(y) /\ OrderInv(x, y) /\ OrderInv(y, x)
    BY Zenon DEF IInv, LedgerInv
  <2>3. ASSUME calls[y].key = k PROVE e = t
    <3>1. y \in InFlight(k) \ {x}
      BY Zenon, <2>3 DEF InFlight
    <3>2. IsFiniteSet(InFlight(k) \ {x})
      BY Zenon, InFlightFinite, FS_Subset
    <3>3. Cardinality(InFlight(k) \ {x}) # 0
      BY Zenon, <3>1, <3>2, FS_EmptySet
    <3> QED
      BY Zenon, <1>7, <1>14, <3>3
  <2> QED
    BY Zenon, <2>1, <2>2, <2>3
<1>17. \A j \in Key : KeyInv(j)'
  <2> SUFFICES ASSUME NEW j \in Key PROVE KeyInv(j)'
    BY Zenon
  <2>1. /\ KeyInv(j) /\ ingressOrder[j] \in Nat /\ failureOrder[j] \in Nat
        /\ admitted \in Nat
    BY Zenon, <1>6 DEF IInv, LedgerInv, TypeOK
  <2>2. CASE j # k
    <3>1. cleanObservations[j] = observations[j] \/ cleanObservations[j] = NoState
      BY Zenon, CleanupEffect
    <3>2. /\ keepWindows[j] <= cleanRecords[j].until
          /\ cleanRecords[j].class = NoClass => cleanRecords[j] = NoRecord
      BY Zenon, CleanupEffect
    <3> QED
      BY <1>5, <1>9, <1>11, <2>1, <2>2, <3>1, <3>2 DEF KeyInv, NoState
  <2>3. CASE j = k
    <3>1. /\ e.latestIngress <= e.latestReachable
          /\ e.latestReachable <= e.nextSequence
          /\ e.latestSuppression <= e.nextSequence
      BY <1>2, <1>7 DEF StateEffect, NoState
    <3>2. o.order \in Nat /\ o.order <= admitted
      BY <1>1, <2>1 DEF IInv, LedgerInv, CallInv, Observation
    <3>3. ingressOrder'[k] <= admitted /\ failureOrder'[k] <= admitted
      BY Zenon, <1>11, <2>1, <2>3, <3>2 DEF KeyInv, Maximum
    <3>4. q.class = NoClass => q = NoRecord
      BY Zenon, <1>2 DEF RecordEffect
    <3>5. w <= q.until
      <4>1. /\ keepWindows[k] <= r.until /\ keepWindows[k] \in Nat
            /\ r.until \in Nat /\ q.until \in Nat /\ s.epoch \in Nat
        BY Zenon, <1>1, <1>7, CleanupEffect DEF Record, State
      <4>2. CASE t.epoch = s.epoch
        <5>1. q = NoRecord \/ q.until >= r.until
          BY <1>2, <4>1, <4>2 DEF RecordEffect
        <5> QED
          BY <1>1, <4>1, <4>2, <5>1 DEF w, NoRecord
      <4>3. CASE t.epoch = s.epoch + 1
        <5>1. q.until >= now + q.delay
          BY <1>2, <4>1, <4>3 DEF RecordEffect
        <5> QED
          BY <1>1, <4>1, <4>3, <5>1 DEF w
      <4> QED
        BY Zenon, <1>2, <4>2, <4>3 DEF RecordEffect
    <3> QED
      BY Zenon, <1>5, <1>9, <2>3, <3>1, <3>3, <3>4, <3>5 DEF KeyInv
  <2> QED
    BY Zenon, <2>2, <2>3
<1>18. \A y \in Exchange : CallInv(y)'
  <2> SUFFICES ASSUME NEW y \in Exchange, y # x, phase[y] = "calling"
               PROVE  CallInv(y)'
    BY Zenon, <1>10 DEF CallInv
  <2> DEFINE j == calls[y].key
             p == calls[y]
  <2>1. /\ j \in Key /\ p \in Observation /\ CallInv(y)
        /\ observations[j] \in State /\ admitted \in Nat
        /\ keepWindows[j] <= windowEnd[j] /\ keepWindows[j] \in Nat
        /\ windowEnd[j] \in Nat
        /\ ingressOrder[j] \in Nat /\ failureOrder[j] \in Nat
    BY Zenon, <1>6, <1>16, CleanupEffect DEF TypeOK
  <2>2. calls'[y] = p /\ phase'[y] = "calling"
    BY Zenon, <1>10
  <2>3. CASE j # k
    <3>1. /\ observations'[j] = observations[j] /\ windowEnd'[j] = keepWindows[j]
          /\ ingressOrder'[j] = ingressOrder[j]
          /\ failureOrder'[j] = failureOrder[j]
      BY Zenon, <1>9, <1>11, <1>16, <2>1, <2>3
    <3>2. p.began \in Nat
      BY Zenon, <2>1 DEF Observation
    <3>3. isProbe(observations[j], p) => p.began >= windowEnd'[j]
      <4>1. isProbe(observations[j], p) => p.began >= windowEnd[j]
        BY Zenon, <2>1 DEF CallInv
      <4>2. windowEnd'[j] <= windowEnd[j] /\ windowEnd'[j] \in Nat /\ windowEnd[j] \in Nat
        BY Zenon, <2>1, <3>1
      <4> HIDE DEF j, p
      <4> QED
        BY <3>2, <4>1, <4>2
    <3>4. admitted' = admitted
      BY Zenon, <1>5
    <3> QED
      BY Zenon, <2>1, <2>2, <3>1, <3>3, <3>4 DEF CallInv
  <2>4. CASE j = k
    <3>1. observations'[k] = t /\ windowEnd'[k] = w
      BY Zenon, <1>9, <1>16, <2>4
    <3>2. /\ p.order \in 1..admitted /\ p.sequence \in 1..s.nextSequence
          /\ p.epoch <= s.epoch
          /\ ingressOrder[k] # p.order
          /\ ingressOrder[k] > p.order => p.sequence <= s.latestIngress
          /\ p.order > failureOrder[k] => p.sequence > s.latestSuppression
          /\ isProbe(s, p) => p.began >= windowEnd[k]
      BY Zenon, <1>1, <2>1, <2>4 DEF CallInv, isProbe
    <3>3. /\ p.order # o.order
          /\ o.order < p.order => o.sequence < p.sequence
          /\ p.order < o.order => p.sequence < o.sequence
      BY Zenon, <1>1, <1>16, <2>4 DEF OrderInv
    <3>4. /\ p.order \in Nat /\ p.sequence \in Nat /\ p.epoch \in Nat
          /\ p.began \in Nat /\ o.order \in Nat /\ o.sequence \in Nat
          /\ s.epoch \in Nat /\ t.epoch \in Nat /\ t.latestIngress \in Nat
          /\ s.latestIngress \in Nat /\ t.latestSuppression \in Nat
          /\ s.latestSuppression \in Nat /\ s.nextSequence \in Nat
      BY Zenon, <1>1, <1>7, <2>1 DEF Observation, State
    <3>5. /\ t.nextSequence = s.nextSequence
          /\ t.latestIngress >= s.latestIngress
          /\ t.latestSuppression <= Maximum(s.latestSuppression, o.sequence)
          /\ out.kind \notin Suppressing
                => t.latestSuppression = s.latestSuppression
          /\ out.kind = "ingress" => t.latestIngress >= o.sequence
      BY Zenon, <1>2 DEF StateEffect
    <3>6. t.epoch = s.epoch \/ t.epoch = s.epoch + 1
      BY Zenon, <1>2 DEF RecordEffect
    <3>7. /\ ingressOrder'[k] # p.order
          /\ ingressOrder'[k] > p.order => p.sequence <= t.latestIngress
      <4>1. ingressOrder[k] \in Nat
        BY Zenon, <2>1, <2>4
      <4>2. CASE out.kind = "ingress"
        <5>1. ingressOrder'[k] = Maximum(ingressOrder[k], o.order)
          BY Zenon, <1>11, <4>2
        <5>2. t.latestIngress >= o.sequence
          BY Zenon, <3>5, <4>2
        <5> QED
          BY <3>2, <3>3, <3>4, <3>5, <4>1, <5>1, <5>2 DEF Maximum
      <4>3. CASE out.kind # "ingress"
        <5>1. ingressOrder'[k] = ingressOrder[k]
          BY Zenon, <1>11, <4>3
        <5> QED
          BY <3>2, <3>4, <3>5, <4>1, <5>1
      <4> QED
        BY Zenon, <4>2, <4>3
    <3>8. p.order > failureOrder'[k] => p.sequence > t.latestSuppression
      <4>1. failureOrder[k] \in Nat
        BY Zenon, <2>1, <2>4
      <4>2. CASE out.kind \in Suppressing
        <5>1. failureOrder'[k] = Maximum(failureOrder[k], o.order)
          BY Zenon, <1>11, <4>2
        <5> QED
          BY <3>2, <3>3, <3>4, <3>5, <4>1, <5>1 DEF Maximum
      <4>3. CASE out.kind \notin Suppressing
        <5>1. failureOrder'[k] = failureOrder[k] /\ t.latestSuppression = s.latestSuppression
          BY Zenon, <1>11, <3>5, <4>3
        <5> QED
          BY Zenon, <3>2, <3>4, <4>1, <5>1
      <4> QED
        BY Zenon, <4>2, <4>3
    <3>9. isProbe(t, p) => p.began >= w
      <4>1. CASE t.epoch = s.epoch
        <5>1. w <= windowEnd[k]
          <6>1. /\ observations[k].epoch = s.epoch
                /\ keepWindows[k] <= windowEnd[k] /\ windowEnd[k] \in Nat
            BY Zenon, <1>1, <2>1, <2>4
          <6> QED
            BY <3>4, <4>1, <6>1 DEF w
        <5>2. isProbe(t, p) => isProbe(s, p)
          BY Zenon, <4>1 DEF isProbe
        <5>3. w \in Nat /\ windowEnd[k] \in Nat
          BY Zenon, <1>7, <2>1, <2>4
        <5> QED
          BY <3>2, <3>4, <5>1, <5>2, <5>3
      <4>2. CASE t.epoch = s.epoch + 1
        BY <3>2, <3>4, <4>2 DEF isProbe
      <4> QED
        BY Zenon, <3>6, <4>1, <4>2
    <3>10. p.epoch <= t.epoch /\ p.sequence \in 1..t.nextSequence
      BY <3>2, <3>4, <3>5, <3>6
    <3> QED
      BY Zenon, <1>5, <2>2, <2>4, <3>1, <3>2, <3>7, <3>8, <3>9, <3>10 DEF CallInv
  <2> QED
    BY Zenon, <2>3, <2>4
<1>19. \A y, z \in Exchange : OrderInv(y, z)'
  BY <1>10 DEF IInv, LedgerInv, OrderInv
<1>20. LedgerReclaimed'
  <2> SUFFICES ASSUME NEW j \in Key, observations'[j].nextSequence > 0
               PROVE  InFlight(j)' # {} \/ records'[j].class # NoClass
    BY Zenon DEF LedgerReclaimed
  <2>1. CASE j # k
    BY Zenon, <1>9, <1>13, <2>1, CleanupEffect
  <2>2. CASE j = k
    <3>1. e.nextSequence > 0
      BY Zenon, <1>9, <2>2
    <3>2. t.inFlight # 0 \/ q.class # NoClass
      BY <3>1 DEF e, finishObservation, NoState
    <3>3. t.inFlight # 0 => InFlight(k) \ {x} # {}
      BY Zenon, <1>14, FS_EmptySet
    <3> QED
      BY Zenon, <1>9, <1>13, <2>2, <3>2, <3>3
  <2> QED
    BY Zenon, <2>1, <2>2
<1> QED
  BY Zenon, <1>12, <1>15, <1>17, <1>18, <1>19, <1>20 DEF IInv, LedgerInv

(*****************************************************************************)
(* The theorems.                                                             *)
(*****************************************************************************)

\* Every step of the ledger and of its callers preserves the invariant.
LEMMA NextInv == IInv /\ [Next]_vars => IInv'
BY Zenon, StartInv, BeginInv, ObserveInv, QuietInv DEF Next

\* In every reachable state the counters are exact, calls in flight are
\* numbered in admission order and the kept evidence decides them.
THEOREM LedgerInvariant == Spec => []LedgerInv
<1>1. IInv => LedgerInv
  BY Zenon DEF IInv
<1> QED
  BY <1>1, InitInv, NextInv, PTL DEF Spec

\* Types hold in every reachable state; no delay exceeds the maximum.
THEOREM TypeCorrect == Spec => []TypeOK
<1>1. IInv => TypeOK
  BY Zenon DEF IInv
<1> QED
  BY <1>1, InitInv, NextInv, PTL DEF Spec

\* inFlight always equals the number of provider calls running against the
\* target.
THEOREM InFlightCounted == Spec => []InFlightExact
<1>1. IInv => InFlightExact
  BY Zenon DEF IInv, LedgerInv
<1> QED
  BY <1>1, InitInv, NextInv, PTL DEF Spec

\* The ledger keeps a target's call order only while it is needed.
THEOREM LedgerIsReclaimed == Spec => []LedgerReclaimed
<1>1. IInv => LedgerReclaimed
  BY Zenon DEF IInv
<1> QED
  BY <1>1, InitInv, NextInv, PTL DEF Spec

\* A provider call ends only by observe.
LEMMA EndsByObserve ==
    ASSUME IInv, [Next]_vars, NEW x \in Exchange, Ends(x)
    PROVE  \E out \in Outcome : Observe(x, out)
<1>1. phase \in [Exchange -> {"idle", "running", "calling"}]
  BY Zenon DEF IInv, TypeOK
<1>2. phase[x] = "calling" /\ phase'[x] # "calling"
  BY Zenon DEF Ends
<1>3. ASSUME NEW y \in Exchange, Start(y) \/ Finish(y)
      PROVE  FALSE
  BY Zenon, <1>1, <1>2, <1>3 DEF Start, Finish
<1>4. ASSUME NEW y \in Exchange, NEW g \in Generation, Begin(y, g)
      PROVE  FALSE
  BY Zenon, <1>1, <1>2, <1>4 DEF Begin
<1>5. ASSUME NEW y \in Exchange, NEW out \in Outcome, Observe(y, out), y # x
      PROVE  FALSE
  BY Zenon, <1>1, <1>2, <1>5 DEF Observe
<1>6. ~Tick /\ ~UNCHANGED vars
  BY Zenon, <1>2 DEF Tick, vars
<1> QED
  BY Zenon, <1>3, <1>4, <1>5, <1>6 DEF Next

\* A late failure of a call older than an answered one never suppresses the
\* target, for any number of concurrent calls.
THEOREM StaleFailureTheorem == Spec => StaleFailureNeverSuppresses
<1>1. ASSUME IInv, [Next]_vars, NEW x \in Exchange, Ends(x),
             ingressOrder[calls[x].key] > calls[x].order
      PROVE  records'[calls[x].key].until <= records[calls[x].key].until
  <2> DEFINE k == calls[x].key
  <2>1. PICK out \in Outcome : Observe(x, out)
    BY Zenon, <1>1, EndsByObserve
  <2>2. calls[x].sequence <= EndState(x).latestIngress
    BY Zenon, <1>1, <2>1, EndEffect DEF CallInv
  <2>3. k \in Key /\ records'[k] \in Record
        /\ records'[k].until <= cleanRecords[k].until
    BY Zenon, <1>1, <2>1, <2>2, EndEffect DEF RecordEffect
  <2>4. cleanRecords[k] = records[k] \/ cleanRecords[k] = NoRecord
    BY Zenon, <1>1, <2>3, CleanupEffect
  <2>5. records[k] \in Record
    BY Zenon, <1>1, <2>3 DEF IInv, TypeOK
  <2> QED
    BY <2>3, <2>4, <2>5 DEF Record, NoRecord
<1>2. IInv /\ [Next]_vars =>
        [\A x \in Exchange :
          LET k == calls[x].key
          IN Ends(x) /\ ingressOrder[k] > calls[x].order
             => records'[k].until <= records[k].until]_vars
  BY Zenon, <1>1
<1> QED
  BY <1>2, InitInv, NextInv, PTL DEF Spec, StaleFailureNeverSuppresses

\* An answer to a call admitted after every failed one clears the target.
THEOREM NewerIngressTheorem == Spec => NewerIngressClears
<1>1. ASSUME IInv, [Next]_vars, NEW x \in Exchange, Ends(x),
             ingressOrder'[calls[x].key] = calls[x].order,
             calls[x].order > failureOrder[calls[x].key]
      PROVE  records'[calls[x].key].class = NoClass
  <2> DEFINE k == calls[x].key
  <2>1. PICK out \in Outcome : Observe(x, out)
    BY Zenon, <1>1, EndsByObserve
  <2>2. CallInv(x) /\ phase[x] = "calling" /\ k \in Key
    BY Zenon, <1>1, <2>1, EndEffect
  <2>3. ingressOrder[k] # calls[x].order
    BY Zenon, <2>2 DEF CallInv
  <2>4. out.kind = "ingress"
    BY Zenon, <1>1, <2>1, <2>3 DEF Observe
  <2>5. calls[x].sequence > EndState(x).latestSuppression
    BY Zenon, <1>1, <2>1, EndEffect DEF CallInv
  <2>6. records'[k] = NoRecord
    BY Zenon, <1>1, <2>1, <2>4, <2>5, EndEffect DEF RecordEffect
  <2> QED
    BY <2>6 DEF NoRecord
<1>2. IInv /\ [Next]_vars =>
        [\A x \in Exchange :
          LET k == calls[x].key
          IN /\ Ends(x)
             /\ ingressOrder'[k] = calls[x].order
             /\ calls[x].order > failureOrder[k]
             => records'[k].class = NoClass]_vars
  BY Zenon, <1>1
<1> QED
  BY <1>2, InitInv, NextInv, PTL DEF Spec, NewerIngressClears

\* While a record stands, only a call begun after the last window had run
\* out lengthens the backoff.
THEOREM EscalationTheorem == Spec => EscalatesOnlyAfterWindow
<1> DEFINE Grows(k) == \/ windowEnd'[k] > windowEnd[k]
                       \/ records'[k].delay > records[k].delay
           Cause(k) == \E x \in Exchange :
                          Ends(x) /\ calls[x].key = k
                          /\ calls[x].began >= windowEnd[k]
<1>1. ASSUME IInv, NEW k \in Key
      PROVE  /\ ~(keepWindows[k] > windowEnd[k])
             /\ ~(cleanRecords[k].delay > records[k].delay)
             /\ records[k].delay \in Nat /\ cleanRecords[k].delay \in Nat
             /\ windowEnd[k] \in Nat /\ keepWindows[k] \in Nat
  <2>1. /\ records[k] \in Record /\ windowEnd[k] \in Nat
        /\ cleanRecords[k] \in Record /\ keepWindows[k] \in Nat
        /\ keepWindows[k] <= windowEnd[k]
        /\ cleanRecords[k] = records[k] \/ cleanRecords[k] = NoRecord
    BY Zenon, <1>1, CleanupEffect DEF IInv, TypeOK
  <2> QED
    BY <2>1, BackoffAssumption DEF Record, NoRecord
<1>2. ASSUME IInv, [Next]_vars, NEW k \in Key, Grows(k)
      PROVE  Cause(k)
  <2>1. ASSUME NEW x \in Exchange, Start(x) PROVE FALSE
    BY Zenon, <1>1, <1>2, <2>1 DEF Start
  <2>2. ASSUME NEW x \in Exchange, NEW g \in Generation, Begin(x, g)
        PROVE  FALSE
    BY Zenon, <1>1, <1>2, <2>2 DEF Begin
  <2>3. ~(Tick \/ (\E x \in Exchange : Finish(x)) \/ UNCHANGED vars)
    BY <1>1, <1>2 DEF Tick, Finish, vars
  <2>4. ASSUME NEW x \in Exchange, NEW out \in Outcome, Observe(x, out)
        PROVE  Cause(k)
    <3>1. k = calls[x].key
      BY Zenon, <1>1, <1>2, <2>4, EndEffect
    <3> DEFINE t == Verdict(x, out).state
               s == EndState(x)
    <3>2. /\ RecordEffect(s, cleanRecords[k], calls[x], out.kind, t, records'[k])
          /\ CallInv(x) /\ phase[x] = "calling"
          /\ s.epoch = observations[k].epoch /\ s.epoch \in Nat
          /\ windowEnd'[k] = IF t.epoch > s.epoch THEN now + records'[k].delay
                             ELSE IF records'[k].class = NoClass
                             THEN zeroTime ELSE keepWindows[k]
      BY Zenon, <1>2, <2>4, <3>1, EndEffect
    <3>0. records'[k] \in Record
      BY Zenon, <1>2, <2>4, <3>1, EndEffect
    <3> HIDE DEF t, s
    <3>3. CASE t.epoch = s.epoch
      <4>1. records'[k].delay <= cleanRecords[k].delay
        BY <3>2, <3>3 DEF RecordEffect
      <4>2. records'[k].delay \in Nat
        BY <3>0, BackoffAssumption DEF Record
      <4>3. windowEnd'[k] = 0 \/ windowEnd'[k] = keepWindows[k]
        <5>1. ~(t.epoch > s.epoch)
          BY <3>2, <3>3
        <5> QED
          BY Zenon, <3>2, <5>1
      <4>4. ~Grows(k)
        BY <1>1, <1>2, <4>1, <4>2, <4>3
      <4> QED
        BY Zenon, <1>2, <4>4
    <3>4. CASE t.epoch = s.epoch + 1
      <4>1. isProbe(s, calls[x])
        BY <3>2, <3>4 DEF RecordEffect
      <4>2. calls[x].began >= windowEnd[k]
        BY Zenon, <3>1, <3>2, <4>1 DEF CallInv, isProbe
      <4>3. Ends(x)
        BY Zenon, <1>2, <2>4 DEF Ends, Observe, IInv, TypeOK
      <4> QED
        BY Zenon, <3>1, <4>2, <4>3
    <3> QED
      BY Zenon, <3>2, <3>3, <3>4 DEF RecordEffect
  <2> QED
    BY Zenon, <1>2, <2>1, <2>2, <2>3, <2>4 DEF Next
<1>3. IInv /\ [Next]_vars =>
        [\A k \in Key :
          /\ windowEnd[k] # zeroTime
          /\ windowEnd'[k] > windowEnd[k]
             \/ records'[k].delay > records[k].delay
          => \E x \in Exchange :
                Ends(x) /\ calls[x].key = k /\ calls[x].began >= windowEnd[k]]_vars
  BY Zenon, <1>2
<1> QED
  BY <1>3, InitInv, NextInv, PTL DEF Spec, EscalatesOnlyAfterWindow
=============================================================================
