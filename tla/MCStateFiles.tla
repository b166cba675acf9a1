---------------------------- MODULE MCStateFiles ----------------------------
(***************************************************************************)
(* Two components that other commands and processes write files under, for *)
(* TLC: the Share grants beside the routing document, and the product      *)
(* telemetry with its opt-out document.  They share nothing, so `part`     *)
(* picks the one a behaviour is about and the other stays where it starts. *)
(***************************************************************************)
EXTENDS ShareBindings, ProductTelemetry, TLC

VARIABLE part

\* Names, secrets and events are only compared for equality.  Issue commands and
\* events never meet in one behaviour: two of the events are the Issue commands,
\* so that one permutation serves both.
Names == UNION {Permutations(names) : names \in {Workspace, Route, Bearer, Issuer}}

FilesInit == part \in {"shares", "telemetry"} /\ Init /\ TelemetryInit

FilesNext ==
    \/ part = "shares" /\ Next /\ UNCHANGED <<part, telemetryVars>>
    \/ part = "telemetry" /\ TelemetryNext /\ UNCHANGED <<part, vars>>

FilesSpec == FilesInit /\ [][FilesNext]_<<part, vars, telemetryVars>>
=============================================================================
