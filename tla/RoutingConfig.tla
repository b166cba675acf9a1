--------------------------- MODULE RoutingConfig ---------------------------
(***************************************************************************)
(* The routing aggregate: workspaces, routes and the targets they name,    *)
(* the edits of package routing, and the document of package configstore   *)
(* an edited configuration is written to and read back from.               *)
(*                                                                         *)
(* A target is known to the rest of the daemon (availability ledger,       *)
(* target facts, continuity) by workspace, id and version only, so a       *)
(* version has to stand for one set of effective settings for as long as   *)
(* its workspace lives.  The versions of targets that are gone are kept in *)
(* Workspace.generations and in the document.                              *)
(*                                                                         *)
(* Tiers are left out: targetFromSpec looks at id and settings only, so    *)
(* moving a target between tiers is an edit that changes nothing here.     *)
(***************************************************************************)
EXTENDS Naturals

CONSTANTS
    Slug, Route, Target,
    Draft,          \* raw target settings, as operators and documents give them
    Settings,       \* effective settings: model, protocol and connection
    Finalize,       \* FinalizeTarget: the settings of a draft, or Refused
    Encoded,        \* encodeTarget: the draft a document holds for settings
    Refused,
    MaxVersion,     \* ^TargetVersion(0)
    MaxLives        \* bound on the workspaces ever created

(* What FinalizeTarget accepts is written so that reading it back gives    *)
(* the same effective settings.                                            *)
ASSUME RoundTrip ==
    /\ Refused \notin Settings
    /\ Finalize \in [Draft -> Settings \cup {Refused}]
    /\ Encoded \in [Settings -> Draft]
    /\ \A s \in Settings : Finalize[Encoded[s]] = s

ASSUME VersionAssumption == MaxVersion \in Nat \ {0} /\ MaxLives \in Nat

Version == 0 .. MaxVersion

(* A target version is never zero, so zero marks an absent target.         *)
NoTarget == [version |-> 0, settings |-> Refused]
NoRoute == [t \in Target |-> NoTarget]
Slot == [version : Version, settings : Settings \cup {Refused}]

VARIABLES
    config,     \* the published routing.Config; a workspace has routes or is absent
    lives,      \* how many workspaces were created
    issued      \* history: every [life, target, version, settings] ever published

routingVars == <<config, lives, issued>>

NoWorkspace ==
    [default |-> Refused, routes |-> [r \in Route |-> NoRoute],
     generations |-> [t \in Target |-> 0], life |-> 0]

routesOf(w) == {r \in Route : w.routes[r] # NoRoute}
exists(w) == w.life > 0

RoutingInit ==
    /\ config = [ws \in Slug |-> NoWorkspace]
    /\ lives = 0
    /\ issued = {}

-----------------------------------------------------------------------------
(* newWorkspace and Workspace.validate: a workspace has routes, the        *)
(* default among them, no id in two of them, and a ledger that equals the  *)
(* version of every active target.                                         *)
validate(w) ==
    /\ w.default \in routesOf(w)
    /\ \A r, q \in Route, t \in Target :
          w.routes[r][t].version > 0 /\ w.routes[q][t].version > 0 => r = q
    /\ \A r \in Route, t \in Target :
          w.routes[r][t].version > 0 => w.generations[t] = w.routes[r][t].version

(* The generation of an absent target is one past the highest it had, that *)
(* of an edited one is one past its own, and an equal one keeps its own.   *)
targetFromSpec(current, highest, s) ==
    [version |-> IF current = NoTarget THEN highest + 1
                 ELSE IF current.settings = s THEN current.version
                 ELSE current.version + 1,
     settings |-> s]

(* Publication of an edited workspace.                                     *)
publish(ws, w) ==
    /\ config' = [config EXCEPT ![ws] = w]
    /\ issued' = issued \cup
          {[life |-> w.life, target |-> p[2], version |-> w.routes[p[1]][p[2]].version,
            settings |-> w.routes[p[1]][p[2]].settings] :
              p \in {q \in Route \X Target : w.routes[q[1]][q[2]].version > 0}}

(* editWorkspace: the edited copy is published only when it is valid.      *)
editWorkspace(ws, w) ==
    /\ exists(config[ws])
    /\ validate(w)
    /\ publish(ws, w)
    /\ UNCHANGED lives

CreateWorkspace(ws, r, t, d) ==
    LET slot == targetFromSpec(NoTarget, 0, Finalize[d])
    IN /\ ~ exists(config[ws])
       /\ lives < MaxLives
       /\ Finalize[d] # Refused
       /\ lives' = lives + 1
       /\ publish(ws, [default |-> r,
                       routes |-> [NoWorkspace.routes EXCEPT ![r][t] = slot],
                       generations |-> [NoWorkspace.generations EXCEPT ![t] = 1],
                       life |-> lives + 1])

(* The workspace keeps its ledger under its new slug.                      *)
RenameWorkspace(from, to) ==
    /\ exists(config[from]) /\ ~ exists(config[to])
    /\ config' = [config EXCEPT ![from] = NoWorkspace, ![to] = config[from]]
    /\ UNCHANGED <<lives, issued>>

DeleteWorkspace(ws) ==
    /\ exists(config[ws])
    /\ config' = [config EXCEPT ![ws] = NoWorkspace]
    /\ UNCHANGED <<lives, issued>>

(* An id that is active in another route gets a generation that route does *)
(* not have, and validate refuses the edit.                                *)
CreateRoute(ws, r, t, d) ==
    LET w == config[ws]
        slot == targetFromSpec(NoTarget, w.generations[t], Finalize[d])
    IN /\ r \notin routesOf(w)
       /\ Finalize[d] # Refused
       /\ slot.version <= MaxVersion
       /\ editWorkspace(ws, [w EXCEPT !.routes[r][t] = slot, !.generations[t] = slot.version])

RenameRoute(ws, from, to) ==
    LET w == config[ws]
    IN /\ from \in routesOf(w) /\ to \notin routesOf(w)
       /\ editWorkspace(ws, [w EXCEPT !.routes[from] = NoRoute, !.routes[to] = w.routes[from],
                                      !.default = IF @ = from THEN to ELSE @])

SetDefaultRoute(ws, r) ==
    LET w == config[ws]
    IN /\ r \in routesOf(w)
       /\ editWorkspace(ws, [w EXCEPT !.default = r])

(* The last route cannot go, and the default only for a replacement.       *)
DeleteRoute(ws, r, replacement) ==
    LET w == config[ws]
    IN /\ r \in routesOf(w)
       /\ routesOf(w) # {r}
       /\ w.default = r => replacement # r /\ replacement \in routesOf(w)
       /\ editWorkspace(ws, [w EXCEPT !.routes[r] = NoRoute,
                                      !.default = IF @ = r THEN replacement ELSE @])

(* Config.ApplyRouteSpec: the route becomes exactly what spec names, a     *)
(* draft for some ids.  Versions that ran out refuse the whole edit.       *)
ApplyRouteSpec(ws, r, spec) ==
    LET w == config[ws]
        slots == [t \in Target |->
                    IF t \in DOMAIN spec
                    THEN targetFromSpec(w.routes[r][t], w.generations[t], Finalize[spec[t]])
                    ELSE NoTarget]
    IN /\ r \in routesOf(w)
       /\ \A t \in DOMAIN spec : Finalize[spec[t]] # Refused /\ slots[t].version <= MaxVersion
       /\ editWorkspace(ws,
             [w EXCEPT !.routes[r] = slots,
                       !.generations = [t \in Target |->
                          IF t \in DOMAIN spec THEN slots[t].version ELSE @[t]]])

-----------------------------------------------------------------------------
(* Mutant: the document holds the generations of active targets only.      *)
encodeActiveOnly(w) ==
    [default |-> w.default,
     targets |-> [r \in Route |-> [t \in Target |->
        IF w.routes[r][t].version = 0 THEN NoTarget
        ELSE [version |-> w.routes[r][t].version, draft |-> Encoded[w.routes[r][t].settings]]]],
     target_generations |-> [t \in Target |->
        IF \E r \in Route : w.routes[r][t].version > 0 THEN w.generations[t] ELSE 0]]

(* encode: the document keeps the ledger whole, absent targets included.   *)
encode(w) ==
    [default |-> w.default,
     targets |-> [r \in Route |-> [t \in Target |->
        IF w.routes[r][t].version = 0 THEN NoTarget
        ELSE [version |-> w.routes[r][t].version, draft |-> Encoded[w.routes[r][t].settings]]]],
     target_generations |-> w.generations]

(* decode and decodeTarget: the drafts are finalized again.                *)
decode(doc, life) ==
    [default |-> doc.default,
     routes |-> [r \in Route |-> [t \in Target |->
        IF doc.targets[r][t].version = 0 THEN NoTarget
        ELSE [version |-> doc.targets[r][t].version,
              settings |-> Finalize[doc.targets[r][t].draft]]]],
     generations |-> doc.target_generations,
     life |-> life]

(* A new daemon reads the document the last edit wrote.                    *)
Restart ==
    /\ config' = [ws \in Slug |->
          IF exists(config[ws]) THEN decode(encode(config[ws]), config[ws].life)
          ELSE NoWorkspace]
    /\ UNCHANGED <<lives, issued>>

(* The desired routes: some ids, with one draft each.                      *)
RouteSpec == UNION {[ids -> Draft] : ids \in SUBSET Target \ {{}}}

RoutingNext ==
    \/ \E ws \in Slug, r \in Route, t \in Target, d \in Draft :
          CreateWorkspace(ws, r, t, d) \/ CreateRoute(ws, r, t, d)
    \/ \E from, to \in Slug : RenameWorkspace(from, to)
    \/ \E ws \in Slug : DeleteWorkspace(ws)
    \/ \E ws \in Slug, from, to \in Route : RenameRoute(ws, from, to)
    \/ \E ws \in Slug, r \in Route : SetDefaultRoute(ws, r)
    \/ \E ws \in Slug, r, replacement \in Route : DeleteRoute(ws, r, replacement)
    \/ \E ws \in Slug, r \in Route, spec \in RouteSpec : ApplyRouteSpec(ws, r, spec)
    \/ Restart

RoutingSpec == RoutingInit /\ [][RoutingNext]_routingVars

-----------------------------------------------------------------------------
RoutingTypeOK ==
    /\ config \in [Slug ->
          [default : Route \cup {Refused}, routes : [Route -> [Target -> Slot]],
           generations : [Target -> Version], life : 0 .. MaxLives]]
    /\ lives \in 0 .. MaxLives
    /\ issued \subseteq [life : 1 .. MaxLives, target : Target,
                         version : 1 .. MaxVersion, settings : Settings]

(* "TargetVersion identifies the complete effective backend configuration":*)
(* through removals, re-additions, moves between routes, renames and       *)
(* restarts, one id and version of a workspace never stand for two sets of *)
(* effective settings, and no edit or restart publishes a workspace that   *)
(* Workspace.validate would refuse.                                        *)
VersionIdentifiesSettings ==
    /\ RoutingTypeOK
    /\ \A ws \in Slug : exists(config[ws]) => validate(config[ws])
    /\ \A e, f \in issued :
          e.life = f.life /\ e.target = f.target /\ e.version = f.version
             => e.settings = f.settings
=============================================================================
