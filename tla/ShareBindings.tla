--------------------------- MODULE ShareBindings ---------------------------
(***************************************************************************)
(* Operator edits of the routing configuration, the Share grants bound to  *)
(* its workspaces and routes, and the owner runtime that serves them.      *)
(*                                                                         *)
(* configstore.Store publishes an edit in three steps (beforeCommit, the   *)
(* rename of the file, the snapshot), sharestate.Store keeps the grants in *)
(* memory and in a file of its own, and a crash can fall between any two   *)
(* steps.  Edits that end a name revoke its grants in beforeCommit, under  *)
(* the lock of routebindings.Coordinator that Issue and Revoke also take;  *)
(* reads of the snapshot take no lock at all.                              *)
(*                                                                         *)
(* A configuration is reduced to the route names of each workspace; a      *)
(* workspace without routes does not exist.                                *)
(***************************************************************************)
EXTENDS Naturals, FiniteSets

CONSTANTS
    Workspace, Route,
    Bearer,        \* the secrets that can be handed out
    Issuer,        \* concurrent Issue commands
    Whole,         \* the zero RouteName: the scope of a workspace Share
    NoGrant

Scope == Route \cup {Whole}
Grant == [bearer : Bearer, workspace : Workspace, route : Scope]
Config == [Workspace -> SUBSET Route]

VARIABLES
    file, config,          \* the routing file and the published snapshot
    edit,                  \* the edit inside UpdatePrepared, if any
    grants, grantFile,     \* Store.state.Grants and share.json
    issued, expired,       \* bearers returned so far, and those past ExpiresAt
    issue,                 \* the Issue commands that hold a ReadyLease
    running,               \* OwnerRuntime.running
    request                \* one request to the public Share handler

routing == <<file, config, edit>>
shares == <<grants, grantFile, issued, expired>>
vars == <<routing, shares, issue, running, request>>

NoEdit == [at |-> "none"]
Idle == [at |-> "idle"]
NoRequest == [at |-> "idle", grant |-> NoGrant]

Init ==
    /\ file = [ws \in Workspace |-> {}] /\ config = file
    /\ edit = NoEdit
    /\ grants = {} /\ grantFile = {} /\ issued = {} /\ expired = {}
    /\ issue = [i \in Issuer |-> Idle]
    /\ running = FALSE
    /\ request = NoRequest

(* GetWorkspace and validateRef: the scope names something in c.           *)
Resolves(c, ws, r) == c[ws] # {} /\ (r = Whole \/ r \in c[ws])

ActiveGrants(gs) == {g \in gs : g.bearer \notin expired}

(* Mutant: a memory update that could not be persisted is kept.             *)
persistKept(new, ok) ==
    /\ grants' = new
    /\ grantFile' = IF ok THEN new ELSE grantFile

(* persist and the rollback of its callers: the file is replaced whole or  *)
(* not at all, and memory follows it.                                      *)
persist(new, ok) ==
    /\ grants' = IF ok THEN new ELSE grants
    /\ grantFile' = IF ok THEN new ELSE grantFile

leased(is) == {i \in Issuer : is[i].at # "idle"}

(* Mutant: an Issue command that waits for its grant does not count.        *)
stopIgnoringLeases(gs, is) == running' = (running /\ ActiveGrants(gs) # {})

(* stopIfUnneededLocked: a lease or an active grant keeps the runtime.     *)
stopIfUnneeded(gs, is) ==
    running' = (running /\ (leased(is) # {} \/ ActiveGrants(gs) # {}))

(* RevokeBindings: every grant of the workspace with one of the scopes,    *)
(* expired or not.                                                         *)
RevokeBindings(ws, scopes) ==
    {g \in grants : ~(g.workspace = ws /\ g.route \in scopes)}

bindingsLocked == edit.at # "none" /\ edit.locks

----------------------------------------------------------------------------
(* Edits.  update: s.store.Update without beforeCommit.                    *)
update(next) ==
    /\ edit = NoEdit
    /\ edit' = [at |-> "prepared", next |-> next, locks |-> FALSE, removed |-> FALSE]
    /\ UNCHANGED <<file, config, shares, issue, running, request>>

(* destructiveConfigUpdate: takes the bindings lock; RevokeBindings is the *)
(* beforeCommit of the edit, and its failure abandons the edit.            *)
destructiveUpdate(next, ws, scopes, ok) ==
    LET left == RevokeBindings(ws, scopes)
    IN /\ edit = NoEdit
       /\ left = grants => ok
       /\ persist(left, ok)
       /\ edit' = IF ok THEN [at |-> "prepared", next |-> next, locks |-> TRUE,
                              removed |-> left # grants]
                        ELSE NoEdit
       /\ UNCHANGED <<file, config, issued, expired, issue, running, request>>

CreateWorkspace(ws, r) ==
    /\ config[ws] = {}
    /\ update([config EXCEPT ![ws] = {r}])

RenameWorkspace(from, to, ok) ==
    /\ config[from] # {} /\ config[to] = {}
    /\ destructiveUpdate([config EXCEPT ![to] = config[from], ![from] = {}], from, Scope, ok)

DeleteWorkspace(ws, ok) ==
    /\ config[ws] # {}
    /\ destructiveUpdate([config EXCEPT ![ws] = {}], ws, Scope, ok)

CreateRoute(ws, r) ==
    /\ config[ws] # {} /\ r \notin config[ws]
    /\ update([config EXCEPT ![ws] = @ \cup {r}])

RenameRoute(ws, from, to, ok) ==
    /\ from \in config[ws] /\ to \notin config[ws]
    /\ destructiveUpdate([config EXCEPT ![ws] = (@ \ {from}) \cup {to}], ws, {from}, ok)

(* The last route is not deleted, and a deleted default has a replacement. *)
DeleteRoute(ws, r, ok) ==
    /\ r \in config[ws] /\ config[ws] # {r}
    /\ destructiveUpdate([config EXCEPT ![ws] = @ \ {r}], ws, {r}, ok)

(* ReplaceRoute, SetDefaultRoute and ApplyCredentialReference keep names.  *)
ReplaceRoute(ws) == config[ws] # {} /\ update(config)

(* replaceFile: the rename is the commit point.                            *)
Commit ==
    /\ edit.at = "prepared"
    /\ file' = edit.next /\ edit' = [edit EXCEPT !.at = "renamed"]
    /\ UNCHANGED <<config, shares, issue, running, request>>

stopAfterEdit ==
    IF edit.removed THEN stopIfUnneeded(grants, issue) ELSE UNCHANGED running

CommitFails ==
    /\ edit.at = "prepared"
    /\ edit' = NoEdit
    /\ stopAfterEdit
    /\ UNCHANGED <<file, config, shares, issue, request>>

(* The snapshot is stored, the locks are released and the command returns. *)
Publish ==
    /\ edit.at = "renamed"
    /\ config' = edit.next /\ edit' = NoEdit
    /\ stopAfterEdit
    /\ UNCHANGED <<file, shares, issue, request>>

----------------------------------------------------------------------------
(* Issue: validates against the snapshot and asks EnsureReady for a lease, *)
(* which starts the runtime when it does not run.                          *)
IssueStarts(i, ws, r) ==
    /\ issue[i].at = "idle"
    /\ Resolves(config, ws, r)
    /\ issue' = [issue EXCEPT ![i] = [at |-> "preparing", workspace |-> ws, route |-> r]]
    /\ running' = TRUE
    /\ UNCHANGED <<routing, shares, request>>

(* EnsureReady fails, or an expired context abandons it: the lease returns.*)
EnsureReadyFails(i) ==
    /\ issue[i].at = "preparing"
    /\ issue' = [issue EXCEPT ![i] = Idle]
    /\ stopIfUnneeded(grants, issue')
    /\ UNCHANGED <<routing, shares, request>>

(* Mutant: what was validated before EnsureReady is not validated again.    *)
grantedUnchecked(i, b, ok) ==
    LET ws == issue[i].workspace
        r == issue[i].route
    IN /\ persist(RevokeBindings(ws, {r}) \cup {[bearer |-> b, workspace |-> ws, route |-> r]}, ok)
       /\ issued' = IF ok THEN issued \cup {b} ELSE issued

(* The second validation and Store.Issue, which replaces the grant of the  *)
(* same scope, under the bindings lock.                                    *)
granted(i, b, ok) ==
    LET ws == issue[i].workspace
        r == issue[i].route
    IN IF Resolves(config, ws, r)
       THEN /\ persist(RevokeBindings(ws, {r}) \cup {[bearer |-> b, workspace |-> ws, route |-> r]}, ok)
            /\ issued' = IF ok THEN issued \cup {b} ELSE issued
       ELSE UNCHANGED <<grants, grantFile, issued>>

IssueGrants(i, b, ok) ==
    /\ issue[i].at = "preparing"
    /\ ~bindingsLocked
    /\ b \notin issued
    /\ granted(i, b, ok)
    /\ issue' = [issue EXCEPT ![i] = [at |-> "granted"]]
    /\ UNCHANGED <<routing, expired, running, request>>

(* The deferred lease.Release.                                             *)
IssueReturns(i) ==
    /\ issue[i].at = "granted"
    /\ issue' = [issue EXCEPT ![i] = Idle]
    /\ stopIfUnneeded(grants, issue')
    /\ UNCHANGED <<routing, shares, request>>

Revoke(ws, r, ok) ==
    LET left == RevokeBindings(ws, {r})
    IN /\ ~bindingsLocked
       /\ left = grants => ok
       /\ persist(left, ok)
       /\ IF ok THEN stopIfUnneeded(left, issue) ELSE UNCHANGED running
       /\ UNCHANGED <<routing, issued, expired, issue, request>>

(* ExpiresAt passes.                                                       *)
Expire(b) ==
    /\ b \in issued /\ b \notin expired
    /\ expired' = expired \cup {b}
    /\ UNCHANGED <<routing, grants, grantFile, issued, issue, running, request>>

(* replacementLoop: stops an unneeded runtime, starts a needed one.        *)
reconcile ==
    /\ running' = (leased(issue) # {} \/ ActiveGrants(grants) # {})
    /\ UNCHANGED <<routing, shares, issue, request>>

----------------------------------------------------------------------------
(* ShareHandler.ServeHTTP: Authenticate, then the snapshot is read; a      *)
(* request that is served is forgotten.                                    *)
Authenticate(g) ==
    /\ request.at # "admitted"
    /\ g \in ActiveGrants(grants)
    /\ request' = [at |-> "admitted", grant |-> g]
    /\ UNCHANGED <<routing, shares, issue, running>>

ServeHTTP ==
    /\ request.at = "admitted"
    /\ request' = IF Resolves(config, request.grant.workspace, request.grant.route)
                  THEN NoRequest ELSE [request EXCEPT !.at = "unauthorized"]
    /\ UNCHANGED <<routing, shares, issue, running>>

(* The daemon dies and starts again: both stores are read from their files *)
(* and StartIfActive starts the runtime.                                   *)
Restart ==
    /\ config' = file /\ grants' = grantFile
    /\ edit' = NoEdit
    /\ issue' = [i \in Issuer |-> Idle]
    /\ running' = (ActiveGrants(grantFile) # {})
    /\ request' = NoRequest
    /\ UNCHANGED <<file, grantFile, issued, expired>>

PlainEdit ==
    \/ \E ws \in Workspace, r \in Route : CreateWorkspace(ws, r) \/ CreateRoute(ws, r)
    \/ \E ws \in Workspace : ReplaceRoute(ws)

DestructiveEdit ==
    \E ok \in BOOLEAN :
        \/ \E from, to \in Workspace : RenameWorkspace(from, to, ok)
        \/ \E ws \in Workspace : DeleteWorkspace(ws, ok)
        \/ \E ws \in Workspace, from, to \in Route : RenameRoute(ws, from, to, ok)
        \/ \E ws \in Workspace, r \in Route : DeleteRoute(ws, r, ok)

ShareCommand ==
    \/ \E i \in Issuer, ws \in Workspace, r \in Scope : IssueStarts(i, ws, r)
    \/ \E i \in Issuer : EnsureReadyFails(i) \/ IssueReturns(i)
    \/ \E i \in Issuer, b \in Bearer, ok \in BOOLEAN : IssueGrants(i, b, ok)
    \/ \E ws \in Workspace, r \in Scope, ok \in BOOLEAN : Revoke(ws, r, ok)

Next ==
    \/ PlainEdit \/ DestructiveEdit \/ Commit \/ CommitFails \/ Publish
    \/ ShareCommand
    \/ \E b \in Bearer : Expire(b)
    \/ reconcile
    \/ \E g \in grants : Authenticate(g)
    \/ ServeHTTP
    \/ Restart

Spec == Init /\ [][Next]_vars

----------------------------------------------------------------------------
(* Properties.                                                             *)

TypeOK ==
    /\ {file, config} \subseteq Config
    /\ edit.at \in {"none", "prepared", "renamed"}
    /\ edit.at # "none" => edit.next \in Config /\ {edit.locks, edit.removed} \subseteq BOOLEAN
    /\ {grants, grantFile} \subseteq SUBSET Grant
    /\ issued \subseteq Bearer /\ expired \subseteq issued
    /\ \A i \in Issuer : issue[i].at \in {"idle", "preparing", "granted"}
    /\ running \in BOOLEAN
    /\ request.at \in {"idle", "admitted", "unauthorized"}
    /\ request.grant \in Grant \cup {NoGrant}

(* Every grant, in memory and on disk, names a workspace or route of the   *)
(* published configuration and of the file, whatever edits, issues,        *)
(* failures and crashes interleave: a name that is created again later     *)
(* never meets a grant of its predecessor.                                 *)
GrantsBound ==
    \A g \in grants \cup grantFile :
        Resolves(config, g.workspace, g.route) /\ Resolves(file, g.workspace, g.route)

(* A request that was admitted is turned away by the later lookups only    *)
(* when its grant has been revoked in between.                             *)
RefusalJustified == request.at = "unauthorized" => request.grant \notin grants

(* Grants and configuration agree, and memory agrees with both files       *)
(* except between the rename and the publication of an edit.               *)
BindingsInv ==
    /\ TypeOK
    /\ GrantsBound
    /\ RefusalJustified
    /\ grants = grantFile
    /\ edit.at # "renamed" => config = file
    /\ \A g, h \in grants :
          (g.workspace = h.workspace /\ g.route = h.route) \/ g.bearer = h.bearer => g = h

(* An active grant is served: no order of leases, revocations, edits and   *)
(* reconciliation stops the runtime under it.                              *)
ShareServed == ActiveGrants(grants) # {} => running

Authentic(b) == \E g \in ActiveGrants(grants) : g.bearer = b

(* RevokeBindings: "old bearers cannot revive": a bearer that was revoked, *)
(* replaced or has expired is never accepted again, also after a failed    *)
(* write and a restart.                                                    *)
NoRevival == [][\A b \in issued : ~Authentic(b) => ~Authentic(b)']_vars

=============================================================================
