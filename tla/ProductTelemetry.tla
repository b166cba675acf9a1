-------------------------- MODULE ProductTelemetry --------------------------
(***************************************************************************)
(* Product telemetry: the request path offers traffic events to an actor   *)
(* through a bounded queue, the actor folds them into an aggregate, freezes *)
(* the aggregate into one pending report and uploads it until it is        *)
(* accepted.  The opt-out document is a file that other processes replace; *)
(* each replacement has a fresh revision, and the actor throws away what   *)
(* it collected under a revision that is no longer the current one.        *)
(***************************************************************************)
EXTENDS Naturals, Sequences, FiniteSets

CONSTANTS
    Event,          \* terminal traffic events, each observed once
    QueueBound,     \* capacity of the command channel
    MaxRevision     \* bound on the replacements of the opt-out document

ASSUME TelemetryAssumption == QueueBound \in Nat \ {0} /\ MaxRevision \in Nat

VARIABLES
    preference, \* what the opt-out document says; revision 0 is no document
    revisions,  \* revisions drawn so far
    unseen,     \* events the request path has not produced yet
    queue,      \* the command channel
    actor,      \* runtimeState
    reports,    \* report ids drawn so far
    sent        \* what arrived at the endpoint: report and revision read before

outside == <<preference, revisions>>
telemetryVars == <<preference, revisions, unseen, queue, actor, reports, sent>>

(* An event and the revision it was folded under.                          *)
Folded == [event : Event, revision : 0 .. MaxRevision]
NoReport == [id |-> 0, rows |-> {}]
Stopped == [at |-> "stopped", enabled |-> FALSE, revision |-> 0, active |-> {},
            pending |-> NoReport, debug |-> FALSE]

TelemetryInit ==
    /\ preference = [enabled |-> TRUE, revision |-> 0]
    /\ revisions = 0
    /\ unseen = Event
    /\ queue = <<>>
    /\ actor = Stopped
    /\ reports = 0
    /\ sent = {}

-----------------------------------------------------------------------------
(* Other processes.                                                        *)

setEnabled(enabled) ==
    /\ revisions < MaxRevision
    /\ revisions' = revisions + 1
    /\ preference' = [enabled |-> enabled, revision |-> revisions + 1]
    /\ UNCHANGED <<unseen, queue, actor, reports, sent>>

(* The telemetry state directory is deleted.                               *)
DeleteState ==
    /\ preference' = [enabled |-> TRUE, revision |-> 0]
    /\ UNCHANGED <<revisions, unseen, queue, actor, reports, sent>>

(* Observe drops the event when the channel is full.                       *)
Observe(e) ==
    /\ e \in unseen
    /\ actor.at # "stopped"
    /\ unseen' = unseen \ {e}
    /\ queue' = IF Len(queue) < QueueBound THEN Append(queue, e) ELSE queue
    /\ UNCHANGED <<outside, actor, reports, sent>>

-----------------------------------------------------------------------------
(* The actor.                                                              *)

startRuntime(debug) ==
    /\ actor.at = "stopped"
    /\ actor' = [Stopped EXCEPT !.at = "running", !.debug = debug,
                                !.enabled = preference.enabled, !.revision = preference.revision]
    /\ queue' = <<>>
    /\ UNCHANGED <<outside, unseen, reports, sent>>

fold(a, e) ==
    IF a.enabled THEN [a EXCEPT !.active = @ \cup {[event |-> e, revision |-> a.revision]}]
    ELSE a

Receive ==
    /\ actor.at \in {"running", "draining"}
    /\ queue # <<>>
    /\ actor' = fold(actor, Head(queue))
    /\ queue' = Tail(queue)
    /\ UNCHANGED <<outside, unseen, reports, sent>>

(* Mutant: a new revision discards the aggregate and keeps the report.     *)
refreshKeepingReport(a, readable) ==
    IF ~ readable
    THEN [a EXCEPT !.enabled = FALSE, !.revision = 0, !.active = {}]
    ELSE [a EXCEPT !.enabled = preference.enabled, !.revision = preference.revision,
                   !.active = IF preference.revision = a.revision THEN @ ELSE {}]

(* A document that cannot be read counts as off, with no revision.         *)
refreshPreference(a, readable) ==
    IF ~ readable
    THEN [a EXCEPT !.enabled = FALSE, !.revision = 0, !.active = {}]
    ELSE [a EXCEPT !.enabled = preference.enabled, !.revision = preference.revision,
                   !.active = IF preference.revision = a.revision THEN @ ELSE {},
                   !.pending = IF preference.revision = a.revision THEN @ ELSE NoReport]

Poll(readable) ==
    /\ actor.at = "running"
    /\ actor' = refreshPreference(actor, readable)
    /\ UNCHANGED <<outside, unseen, queue, reports, sent>>

(* The pending report, or a new one out of the aggregate.                  *)
frozen(a) ==
    IF a.pending # NoReport THEN a
    ELSE [a EXCEPT !.pending = [id |-> reports + 1, rows |-> a.active], !.active = {}]

(* Where a flush that transmits nothing leaves the actor: the flush of     *)
(* Close is its last.                                                      *)
flushed(a) == IF a.at = "running" THEN a ELSE [a EXCEPT !.at = "stopped"]

(* flush up to the upload.  A debug build writes the report to the log.    *)
flush(readable) ==
    LET a == refreshPreference(actor, readable)
        empty == a.pending = NoReport /\ a.active = {}
        p == frozen(a)
    IN  /\ actor.at = "running" \/ (actor.at = "draining" /\ queue = <<>>)
        /\ IF ~ a.enabled \/ empty
           THEN actor' = flushed(a) /\ UNCHANGED reports
           ELSE /\ reports' = IF a.pending = NoReport THEN reports + 1 ELSE reports
                /\ actor' = IF a.debug THEN flushed([p EXCEPT !.pending = NoReport])
                            ELSE [p EXCEPT !.at = IF @ = "running" THEN "uploading" ELSE "last upload"]
        /\ UNCHANGED <<outside, unseen, queue, sent>>

(* The end of an upload: a report can arrive without an answer in time, and *)
(* only an accepted one is forgotten.                                      *)
Upload(arrives, accepted) ==
    /\ actor.at \in {"uploading", "last upload"}
    /\ accepted => arrives
    /\ sent' = IF arrives THEN sent \cup {[report |-> actor.pending, revision |-> actor.revision]}
               ELSE sent
    /\ actor' = [actor EXCEPT !.at = IF @ = "uploading" THEN "running" ELSE "stopped",
                              !.pending = IF accepted THEN NoReport ELSE @]
    /\ UNCHANGED <<outside, unseen, queue, reports>>

(* The cancellation is seen between two commands; the queue is drained and *)
(* one flush follows.                                                      *)
Close ==
    /\ actor.at = "running"
    /\ actor' = [actor EXCEPT !.at = "draining"]
    /\ UNCHANGED <<outside, unseen, queue, reports, sent>>

(* The process dies; telemetry keeps nothing but the document.             *)
Crash ==
    /\ actor.at # "stopped"
    /\ actor' = Stopped
    /\ queue' = <<>>
    /\ UNCHANGED <<outside, unseen, reports, sent>>

-----------------------------------------------------------------------------
TelemetryNext ==
    \/ \E enabled \in BOOLEAN : setEnabled(enabled)
    \/ DeleteState
    \/ \E e \in Event : Observe(e)
    \/ \E debug \in BOOLEAN : startRuntime(debug)
    \/ Receive
    \/ \E readable \in BOOLEAN : Poll(readable) \/ flush(readable)
    \/ \E arrives, accepted \in BOOLEAN : Upload(arrives, accepted)
    \/ Close
    \/ Crash

TelemetrySpec == TelemetryInit /\ [][TelemetryNext]_telemetryVars

-----------------------------------------------------------------------------
Report == [id : Nat, rows : SUBSET Folded]

TelemetryTypeOK ==
    /\ preference \in [enabled : BOOLEAN, revision : 0 .. MaxRevision]
    /\ revisions \in 0 .. MaxRevision
    /\ unseen \subseteq Event
    /\ queue \in Seq(Event) /\ Len(queue) <= QueueBound
    /\ actor \in [at : {"stopped", "running", "uploading", "draining", "last upload"},
                  enabled : BOOLEAN, revision : 0 .. MaxRevision,
                  active : SUBSET Folded, pending : Report, debug : BOOLEAN]
    /\ reports \in Nat
    /\ sent \subseteq [report : Report, revision : 0 .. MaxRevision]

events(rows) == {r.event : r \in rows}

(* What the endpoint receives under an existing opt-out document was       *)
(* collected under that very document, and the endpoint can count: a       *)
(* report that arrives twice is the same report, and no event is in two.   *)
TelemetryInv ==
    /\ TelemetryTypeOK
    /\ \A s \in sent : \A r \in s.report.rows : s.revision \in {0, r.revision}
    /\ \A s, t \in sent :
          IF s.report.id = t.report.id THEN s.report = t.report
          ELSE events(s.report.rows) \cap events(t.report.rows) = {}
=============================================================================
