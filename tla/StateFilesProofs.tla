-------------------------- MODULE StateFilesProofs --------------------------
(***************************************************************************)
(* Two parts of the daemon that keep what they promise in a file: the      *)
(* Share grants beside the configuration they are bound to, and product    *)
(* telemetry with its preference.                                          *)
(***************************************************************************)
EXTENDS ShareBindings, ProductTelemetry, TLAPS

-----------------------------------------------------------------------------
(***************************************************************************)
(* The Share grants and the configuration they are bound to, for any       *)
(* number of workspaces, routes, bearers and concurrent Issue commands.    *)
(*                                                                         *)
(* BindingsInv speaks of the published names.  What keeps it is about the  *)
(* commands under way: an edit that takes no lock only adds names, so that *)
(* a grant issued beside it stays bound; the names an edit ends have lost  *)
(* their grants before its rename; an Issue command holds the runtime      *)
(* until its grant does; and a bearer is handed out once.                  *)
(***************************************************************************)

Types ==
    /\ file \in Config /\ config \in Config
    /\ edit \in {NoEdit} \cup [at : {"prepared", "renamed"}, next : Config,
                               locks : BOOLEAN, removed : BOOLEAN]
    /\ grants \subseteq Grant /\ grantFile = grants
    /\ issued \subseteq Bearer /\ expired \subseteq issued
    /\ issue \in [Issuer -> {Idle, [at |-> "granted"]}
                     \cup [at : {"preparing"}, workspace : Workspace, route : Scope]]
    /\ running \in BOOLEAN
    /\ request \in {NoRequest} \cup [at : {"admitted", "unauthorized"}, grant : Grant]

(* All grants of gs name something in c.                                   *)
Bound(gs, c) == \A g \in gs : Resolves(c, g.workspace, g.route)

(* The edit under way.                                                     *)
EditSafe ==
    /\ edit.at = "none" => config = file
    /\ edit.at = "prepared" => config = file /\ Bound(grants, edit.next)
    /\ edit.at = "renamed" => file = edit.next
    /\ edit.at # "none" /\ ~edit.locks => \A ws \in Workspace : config[ws] \subseteq edit.next[ws]

(* One grant per scope and per bearer, each with a bearer handed out.      *)
Distinct(gs) ==
    /\ \A g \in gs : g.bearer \in issued
    /\ \A g, h \in gs :
          (g.workspace = h.workspace /\ g.route = h.route) \/ g.bearer = h.bearer => g = h

(* The runtime serves the grants and the commands that wait for one.       *)
Needed(gs, is) == leased(is) # {} \/ ActiveGrants(gs) # {}

IInv ==
    /\ Types
    /\ Bound(grants, config) /\ Bound(grants, file)
    /\ EditSafe
    /\ Distinct(grants)
    /\ Needed(grants, issue) => running
    /\ request.at # "idle" => request.grant.bearer \in issued
    /\ RefusalJustified

(* The grants after a step are the old ones or have a bearer never handed  *)
(* out before, and an expired bearer stays expired.                        *)
Fresh ==
    /\ expired \subseteq expired'
    /\ \A g \in grants' : g \in grants \/ g.bearer \notin issued

-----------------------------------------------------------------------------
LEMMA FewerGrants ==
    ASSUME NEW gs, NEW hs \in SUBSET gs
    PROVE  /\ \A c : Bound(gs, c) => Bound(hs, c)
           /\ Distinct(gs) => Distinct(hs)
           /\ \A is : Needed(hs, is) => Needed(gs, is)
<1>1. ActiveGrants(hs) \subseteq ActiveGrants(gs)  BY Zenon DEF ActiveGrants
<1> QED  BY Zenon, <1>1 DEF Bound, Distinct, Needed

LEMMA LargerConfig ==
    ASSUME NEW gs \in SUBSET Grant, NEW c, NEW d, Bound(gs, c),
           \A ws \in Workspace : c[ws] \subseteq d[ws]
    PROVE  Bound(gs, d)
BY Zenon DEF Bound, Resolves, Grant

(* The edit under way, taken apart.                                        *)
LEMMA EditCases ==
    ASSUME Types
    PROVE  /\ edit.at \in {"none", "prepared", "renamed"}
           /\ edit.at = "none" <=> edit = NoEdit
           /\ edit.at # "none" =>
                 /\ edit.next \in Config /\ edit.locks \in BOOLEAN /\ edit.removed \in BOOLEAN
                 /\ edit \in [at : {"prepared", "renamed"}, next : Config,
                              locks : BOOLEAN, removed : BOOLEAN]
BY DEF Types, NoEdit

LEMMA Persisted ==
    ASSUME Types, NEW new, NEW ok \in BOOLEAN, persist(new, ok)
    PROVE  /\ grants' = (IF ok THEN new ELSE grants) /\ grantFile' = grants'
           /\ grants' = grants \/ grants' = new
BY Zenon DEF persist, Types

(* Stopping the runtime leaves it to those who need it.                    *)
LEMMA StopsUnneeded ==
    ASSUME NEW gs, NEW is, stopIfUnneeded(gs, is), Needed(gs, is) => running, running \in BOOLEAN
    PROVE  running' \in BOOLEAN /\ (Needed(gs, is) => running')
BY Zenon DEF stopIfUnneeded, Needed

-----------------------------------------------------------------------------
(* Edits                                                                   *)

LEMMA UpdateStep ==
    ASSUME IInv, NEW next \in Config, update(next),
           \A ws \in Workspace : config[ws] \subseteq next[ws]
    PROVE  IInv' /\ Fresh
<1>1. /\ edit' = [at |-> "prepared", next |-> next, locks |-> FALSE, removed |-> FALSE]
      /\ edit.at = "none"
      /\ UNCHANGED <<file, config, grants, grantFile, issued, expired, issue, running, request>>
  BY Zenon DEF update, shares, NoEdit
<1>2. Types'  BY Zenon, <1>1 DEF IInv, Types
<1>3. Bound(grants, next)  BY Zenon, LargerConfig DEF IInv, Types
<1>4. EditSafe'  BY Zenon, <1>1, <1>3 DEF IInv, EditSafe, Bound, Resolves
<1>5. /\ Bound(grants, config)' /\ Bound(grants, file)' /\ Distinct(grants)'
      /\ (Needed(grants, issue) => running)'
      /\ (request.at # "idle" => request.grant.bearer \in issued)' /\ RefusalJustified'
  BY Zenon, <1>1 DEF IInv, Bound, Resolves, Distinct, Needed, ActiveGrants, RefusalJustified
<1> QED  BY Zenon, <1>1, <1>2, <1>4, <1>5 DEF IInv, Fresh

LEMMA DestructiveStep ==
    ASSUME IInv, NEW next \in Config, NEW ws, NEW scopes, NEW ok \in BOOLEAN,
           destructiveUpdate(next, ws, scopes, ok), Bound(RevokeBindings(ws, scopes), next)
    PROVE  IInv' /\ Fresh
<1> DEFINE left == RevokeBindings(ws, scopes)
<1>1. left \subseteq grants  BY Zenon DEF RevokeBindings
<1>2. /\ edit = NoEdit /\ edit.at = "none"
      /\ persist(left, ok)
      /\ edit' = IF ok THEN [at |-> "prepared", next |-> next, locks |-> TRUE,
                             removed |-> left # grants]
                       ELSE NoEdit
      /\ UNCHANGED <<file, config, issued, expired, issue, running, request>>
  BY Zenon DEF destructiveUpdate, NoEdit
<1>3. grants' = (IF ok THEN left ELSE grants) /\ grantFile' = grants'  BY Zenon, <1>2, Persisted DEF IInv
<1>4. grants' \subseteq grants  BY Zenon, <1>1, <1>3
<1>5. Types'
  <2>1. (left # grants) \in BOOLEAN  BY Zenon
  <2> HIDE DEF left
  <2>2. edit' \in {NoEdit} \cup [at : {"prepared", "renamed"}, next : Config,
                                 locks : BOOLEAN, removed : BOOLEAN]
    BY Zenon, <1>2, <2>1
  <2> QED  BY Zenon, <1>2, <1>3, <1>4, <2>2 DEF IInv, Types
<1>6. EditSafe'
  <2>1. CASE ok
    <3>1. edit'.at = "prepared" /\ edit'.next = next /\ edit'.locks /\ grants' = left
      BY Zenon, <1>2, <1>3, <2>1
    <3>2. config = file  BY Zenon, <1>2 DEF IInv, EditSafe
    <3> QED  BY Zenon, <1>2, <3>1, <3>2 DEF EditSafe, Bound, Resolves
  <2>2. CASE ~ok
    <3>1. edit'.at = "none"  BY Zenon, <1>2, <2>2 DEF NoEdit
    <3> QED  BY Zenon, <1>2, <3>1 DEF IInv, EditSafe
  <2> QED  BY Zenon, <2>1, <2>2
<1>7. /\ Bound(grants, config)' /\ Bound(grants, file)' /\ Distinct(grants)'
      /\ (Needed(grants, issue) => running)'
  BY Zenon, <1>2, <1>4 DEF IInv, Bound, Resolves, Distinct, Needed, ActiveGrants
<1>8. (request.at # "idle" => request.grant.bearer \in issued)' /\ RefusalJustified'
  BY Zenon, <1>2, <1>4 DEF IInv, RefusalJustified
<1> QED  BY Zenon, <1>2, <1>4, <1>5, <1>6, <1>7, <1>8 DEF IInv, Fresh

LEMMA PlainEditStep ==
    ASSUME IInv, PlainEdit
    PROVE  IInv' /\ Fresh
<1>1. config \in [Workspace -> SUBSET Route]  BY Zenon DEF IInv, Types, Config
<1>2. ASSUME NEW ws \in Workspace, NEW r \in Route, CreateWorkspace(ws, r)
      PROVE  IInv' /\ Fresh
  <2> DEFINE next == [config EXCEPT ![ws] = {r}]
  <2>1. next \in Config /\ \A w \in Workspace : config[w] \subseteq next[w]
    BY Zenon, <1>1, <1>2 DEF CreateWorkspace, Config
  <2> QED  BY Zenon, <1>2, <2>1, UpdateStep DEF CreateWorkspace
<1>3. ASSUME NEW ws \in Workspace, NEW r \in Route, CreateRoute(ws, r)
      PROVE  IInv' /\ Fresh
  <2> DEFINE next == [config EXCEPT ![ws] = @ \cup {r}]
  <2>1. next \in Config /\ \A w \in Workspace : config[w] \subseteq next[w]
    BY Zenon, <1>1 DEF Config
  <2> QED  BY Zenon, <1>3, <2>1, UpdateStep DEF CreateRoute
<1>4. ASSUME NEW ws \in Workspace, ReplaceRoute(ws)
      PROVE  IInv' /\ Fresh
  BY Zenon, <1>1, <1>4, UpdateStep DEF ReplaceRoute, Config
<1> QED  BY Zenon, <1>2, <1>3, <1>4 DEF PlainEdit

LEMMA DestructiveEditStep ==
    ASSUME IInv, DestructiveEdit
    PROVE  IInv' /\ Fresh
<1>1. /\ config \in [Workspace -> SUBSET Route] /\ Bound(grants, config)
      /\ \A g \in grants : g.workspace \in Workspace /\ g.route \in Scope
  BY Zenon DEF IInv, Types, Config, Grant
<1> PICK ok \in BOOLEAN :
        \/ \E from, to \in Workspace : RenameWorkspace(from, to, ok)
        \/ \E ws \in Workspace : DeleteWorkspace(ws, ok)
        \/ \E ws \in Workspace, from, to \in Route : RenameRoute(ws, from, to, ok)
        \/ \E ws \in Workspace, r \in Route : DeleteRoute(ws, r, ok)
  BY Zenon DEF DestructiveEdit
<1>2. ASSUME NEW from \in Workspace, NEW to \in Workspace, RenameWorkspace(from, to, ok)
      PROVE  IInv' /\ Fresh
  <2> DEFINE next == [config EXCEPT ![to] = config[from], ![from] = {}]
  <2>1. config[from] # {} /\ config[to] = {} /\ destructiveUpdate(next, from, Scope, ok)
    BY Zenon, <1>2 DEF RenameWorkspace
  <2>2. next \in Config  BY Zenon, <1>1 DEF Config
  <2>3. \A w \in Workspace : w # from /\ w # to => next[w] = config[w]  BY Zenon, <1>1
  <2>4. Bound(RevokeBindings(from, Scope), next)
    <3>1. \A g \in RevokeBindings(from, Scope) :
              g \in grants /\ g.workspace \in Workspace /\ g.workspace # from /\ g.workspace # to
      BY Zenon, <1>1, <2>1 DEF RevokeBindings, Bound, Resolves
    <3> QED  BY Zenon, <1>1, <2>3, <3>1 DEF Bound, Resolves
  <2> QED  BY Zenon, <2>1, <2>2, <2>4, DestructiveStep
<1>3. ASSUME NEW ws \in Workspace, DeleteWorkspace(ws, ok)
      PROVE  IInv' /\ Fresh
  <2> DEFINE next == [config EXCEPT ![ws] = {}]
  <2>1. next \in Config /\ \A w \in Workspace : w # ws => next[w] = config[w]
    BY Zenon, <1>1 DEF Config
  <2>2. Bound(RevokeBindings(ws, Scope), next)
    <3>1. \A g \in RevokeBindings(ws, Scope) :
              g \in grants /\ g.workspace \in Workspace /\ g.workspace # ws
      BY Zenon, <1>1 DEF RevokeBindings
    <3> QED  BY Zenon, <1>1, <2>1, <3>1 DEF Bound, Resolves
  <2> QED  BY Zenon, <1>3, <2>1, <2>2, DestructiveStep DEF DeleteWorkspace
<1>4. ASSUME NEW ws \in Workspace, NEW gone \in Route, NEW names \in SUBSET Route,
             names # {}, config[ws] \ {gone} \subseteq names,
             destructiveUpdate([config EXCEPT ![ws] = names], ws, {gone}, ok)
      PROVE  IInv' /\ Fresh
  <2> DEFINE next == [config EXCEPT ![ws] = names]
  <2>1. next \in Config /\ next[ws] = names /\ \A w \in Workspace : w # ws => next[w] = config[w]
    BY Zenon, <1>1 DEF Config
  <2>2. ASSUME NEW g \in RevokeBindings(ws, {gone})
        PROVE  Resolves(next, g.workspace, g.route)
    <3>1. /\ g \in grants /\ g.workspace \in Workspace
          /\ Resolves(config, g.workspace, g.route)
          /\ g.workspace = ws => g.route # gone
      BY Zenon, <1>1 DEF RevokeBindings, Bound
    <3>2. CASE g.workspace = ws  BY Zenon, <1>4, <2>1, <3>1, <3>2 DEF Resolves
    <3>3. CASE g.workspace # ws  BY Zenon, <2>1, <3>1, <3>3 DEF Resolves
    <3> QED  BY Zenon, <3>2, <3>3
  <2>3. Bound(RevokeBindings(ws, {gone}), next)  BY Zenon, <2>2 DEF Bound
  <2> QED  BY Zenon, <1>4, <2>1, <2>3, DestructiveStep
<1>5. ASSUME NEW ws \in Workspace, NEW from \in Route, NEW to \in Route, RenameRoute(ws, from, to, ok)
      PROVE  IInv' /\ Fresh
  <2>1. /\ (config[ws] \ {from}) \cup {to} \in SUBSET Route
        /\ [config EXCEPT ![ws] = (@ \ {from}) \cup {to}]
              = [config EXCEPT ![ws] = (config[ws] \ {from}) \cup {to}]
    BY Zenon, <1>1
  <2> QED  BY Zenon, <1>4, <1>5, <2>1 DEF RenameRoute
<1>6. ASSUME NEW ws \in Workspace, NEW r \in Route, DeleteRoute(ws, r, ok)
      PROVE  IInv' /\ Fresh
  <2>1. /\ config[ws] \ {r} \in SUBSET Route /\ config[ws] \ {r} # {}
        /\ [config EXCEPT ![ws] = @ \ {r}] = [config EXCEPT ![ws] = config[ws] \ {r}]
    BY Zenon, <1>1, <1>6 DEF DeleteRoute
  <2> QED  BY Zenon, <1>4, <1>6, <2>1 DEF DeleteRoute
<1> QED  BY Zenon, <1>2, <1>3, <1>5, <1>6

LEMMA CommitStep ==
    ASSUME IInv, Commit
    PROVE  IInv' /\ Fresh
<1>1. /\ edit.at = "prepared" /\ file' = edit.next /\ edit' = [edit EXCEPT !.at = "renamed"]
      /\ UNCHANGED <<config, grants, grantFile, issued, expired, issue, running, request>>
  BY Zenon DEF Commit, shares
<1>2. /\ edit \in [at : {"prepared", "renamed"}, next : Config, locks : BOOLEAN, removed : BOOLEAN]
      /\ edit.next \in Config /\ Bound(grants, edit.next)
      /\ ~edit.locks => \A ws \in Workspace : config[ws] \subseteq edit.next[ws]
  BY Zenon, <1>1, EditCases DEF IInv, EditSafe
<1>3. /\ edit'.at = "renamed" /\ edit'.next = edit.next /\ edit'.locks = edit.locks
      /\ edit' \in [at : {"prepared", "renamed"}, next : Config, locks : BOOLEAN, removed : BOOLEAN]
  BY Zenon, <1>1, <1>2
<1>4. Types'  BY Zenon, <1>1, <1>2, <1>3 DEF IInv, Types
<1>5. EditSafe'  BY Zenon, <1>1, <1>2, <1>3 DEF EditSafe
<1>6. /\ Bound(grants, config)' /\ Bound(grants, file)' /\ Distinct(grants)'
      /\ (Needed(grants, issue) => running)'
      /\ (request.at # "idle" => request.grant.bearer \in issued)' /\ RefusalJustified'
  BY Zenon, <1>1, <1>2 DEF IInv, Bound, Resolves, Distinct, Needed, ActiveGrants, RefusalJustified
<1> QED  BY Zenon, <1>1, <1>4, <1>5, <1>6 DEF IInv, Fresh

(* The end of an edit, published or given up.                              *)
LEMMA EditEnds ==
    ASSUME IInv, edit' = NoEdit, config' = file, config' \in Config, file' = file, stopAfterEdit,
           UNCHANGED <<grants, grantFile, issued, expired, issue, request>>
    PROVE  IInv' /\ Fresh
<1>1. running' \in BOOLEAN /\ (Needed(grants, issue) => running')
  BY Zenon, StopsUnneeded DEF stopAfterEdit, IInv, Types
<1>2. Types'  BY Zenon, <1>1 DEF IInv, Types
<1>3. EditSafe'  BY Zenon DEF EditSafe, NoEdit
<1>4. /\ Bound(grants, config)' /\ Bound(grants, file)' /\ Distinct(grants)'
      /\ (Needed(grants, issue) => running)'
      /\ (request.at # "idle" => request.grant.bearer \in issued)' /\ RefusalJustified'
  BY Zenon, <1>1 DEF IInv, Bound, Resolves, Distinct, Needed, ActiveGrants, RefusalJustified
<1> QED  BY Zenon, <1>2, <1>3, <1>4 DEF IInv, Fresh

LEMMA PublishStep ==
    ASSUME IInv, CommitFails \/ Publish
    PROVE  IInv' /\ Fresh
<1>1. CASE CommitFails
  <2>1. config' = file  BY Zenon, <1>1 DEF CommitFails, IInv, EditSafe
  <2> QED  BY Zenon, <1>1, <2>1, EditEnds DEF CommitFails, shares, IInv, Types
<1>2. CASE Publish
  <2>1. config' = file  BY Zenon, <1>2 DEF Publish, IInv, EditSafe
  <2> QED  BY Zenon, <1>2, <2>1, EditEnds DEF Publish, shares, IInv, Types
<1> QED  BY Zenon, <1>1, <1>2

-----------------------------------------------------------------------------
(* Share commands                                                          *)

(* A step that leaves the configuration, the grants and the request.       *)
LEMMA LeaseStep ==
    ASSUME IInv, UNCHANGED <<routing, shares, request>>,
           issue' \in [Issuer -> {Idle, [at |-> "granted"]}
                         \cup [at : {"preparing"}, workspace : Workspace, route : Scope]],
           running' \in BOOLEAN, Needed(grants, issue') => running'
    PROVE  IInv' /\ Fresh
<1>1. UNCHANGED <<file, config, edit, grants, grantFile, issued, expired, request>>
  BY Zenon DEF routing, shares
<1>2. Types'  BY Zenon, <1>1 DEF IInv, Types
<1>3. EditSafe'  BY Zenon, <1>1 DEF IInv, EditSafe, Bound, Resolves
<1>4. /\ Bound(grants, config)' /\ Bound(grants, file)' /\ Distinct(grants)'
      /\ (Needed(grants, issue) => running)'
      /\ (request.at # "idle" => request.grant.bearer \in issued)' /\ RefusalJustified'
  BY Zenon, <1>1 DEF IInv, Bound, Resolves, Distinct, Needed, ActiveGrants, leased, RefusalJustified
<1> QED  BY Zenon, <1>1, <1>2, <1>3, <1>4 DEF IInv, Fresh

LEMMA IssueStartsStep ==
    ASSUME IInv, NEW i \in Issuer, NEW ws \in Workspace, NEW r \in Scope, IssueStarts(i, ws, r)
    PROVE  IInv' /\ Fresh
BY Zenon, LeaseStep DEF IssueStarts, IInv, Types

(* A command that returns its lease.                                       *)
LEMMA IssueEndsStep ==
    ASSUME IInv, NEW i \in Issuer, EnsureReadyFails(i) \/ IssueReturns(i)
    PROVE  IInv' /\ Fresh
<1>1. /\ issue' = [issue EXCEPT ![i] = Idle] /\ stopIfUnneeded(grants, issue')
      /\ UNCHANGED <<routing, shares, request>>
  BY Zenon DEF EnsureReadyFails, IssueReturns
<1>2. issue' \in [Issuer -> {Idle, [at |-> "granted"]}
                    \cup [at : {"preparing"}, workspace : Workspace, route : Scope]]
  BY Zenon, <1>1 DEF IInv, Types
<1>3. leased(issue') \subseteq leased(issue)  BY Zenon, <1>1 DEF leased, IInv, Types, Idle
<1>4. running' \in BOOLEAN /\ (Needed(grants, issue') => running')
  <2>1. Needed(grants, issue') => running  BY Zenon, <1>3 DEF IInv, Needed
  <2> QED  BY Zenon, <1>1, <2>1, StopsUnneeded DEF IInv, Types
<1> QED  BY Zenon, <1>1, <1>2, <1>4, LeaseStep

(* Grants replaced under the bindings lock: the configuration stands, and  *)
(* every grant is an old one or a new one of a name in the snapshot.       *)
LEMMA GrantsStep ==
    ASSUME IInv, UNCHANGED <<file, config, edit, expired, request>>,
           grants' \subseteq Grant, grantFile' = grants',
           issued \subseteq issued', issued' \subseteq Bearer,
           issue' \in [Issuer -> {Idle, [at |-> "granted"]}
                         \cup [at : {"preparing"}, workspace : Workspace, route : Scope]],
           running' \in BOOLEAN, (Needed(grants, issue) => running)',
           Distinct(grants)',
           ~bindingsLocked,
           \A g \in grants' : \/ g \in grants
                              \/ g.bearer \notin issued /\ Resolves(config, g.workspace, g.route)
    PROVE  IInv' /\ Fresh
<1>1. Types'  BY Zenon DEF IInv, Types
<1>2. ASSUME NEW g \in grants', g \notin grants
      PROVE  /\ Resolves(file, g.workspace, g.route)
             /\ edit.at = "prepared" => Resolves(edit.next, g.workspace, g.route)
  <2>1. g.workspace \in Workspace /\ Resolves(config, g.workspace, g.route)  BY Zenon, <1>2 DEF Grant
  <2>2. edit.at # "none" => Resolves(edit.next, g.workspace, g.route)
    BY Zenon, <2>1 DEF bindingsLocked, IInv, EditSafe, Resolves
  <2>3. edit.at \in {"none", "prepared", "renamed"}  BY Zenon, EditCases DEF IInv
  <2> QED  BY Zenon, <2>1, <2>2, <2>3 DEF IInv, EditSafe
<1>3. /\ Bound(grants', config) /\ Bound(grants', file)
      /\ edit.at = "prepared" => Bound(grants', edit.next)
  BY Zenon, <1>2 DEF IInv, EditSafe, Bound
<1>4. EditSafe'  BY Zenon, <1>3 DEF IInv, EditSafe, Bound, Resolves
<1>5. Bound(grants, config)' /\ Bound(grants, file)'  BY Zenon, <1>3 DEF Bound, Resolves
<1>6. (request.at # "idle" => request.grant.bearer \in issued)' /\ RefusalJustified'
  BY Zenon DEF IInv, RefusalJustified
<1> QED  BY Zenon, <1>1, <1>4, <1>5, <1>6 DEF IInv, Fresh

LEMMA IssueGrantsStep ==
    ASSUME IInv, NEW i \in Issuer, NEW b \in Bearer, NEW ok \in BOOLEAN, IssueGrants(i, b, ok)
    PROVE  IInv' /\ Fresh
<1> DEFINE ws == issue[i].workspace
           r == issue[i].route
           left == RevokeBindings(ws, {r})
           new == [bearer |-> b, workspace |-> ws, route |-> r]
<1>1. /\ issue[i].at = "preparing" /\ ~bindingsLocked /\ b \notin issued /\ granted(i, b, ok)
      /\ issue' = [issue EXCEPT ![i] = [at |-> "granted"]]
      /\ UNCHANGED <<file, config, edit, expired, running, request>>
  BY Zenon DEF IssueGrants, routing
<1>2. /\ issue' \in [Issuer -> {Idle, [at |-> "granted"]}
                       \cup [at : {"preparing"}, workspace : Workspace, route : Scope]]
      /\ ws \in Workspace /\ r \in Scope /\ new \in Grant
      /\ running /\ running' \in BOOLEAN
  <2>1. issue \in [Issuer -> {Idle, [at |-> "granted"]}
                    \cup [at : {"preparing"}, workspace : Workspace, route : Scope]]
    BY Zenon DEF IInv, Types
  <2>2. issue[i] \in [at : {"preparing"}, workspace : Workspace, route : Scope]
    BY <1>1, <2>1 DEF Idle
  <2>3. ws \in Workspace /\ r \in Scope  BY Zenon, <2>2
  <2>4. new \in Grant  BY Zenon, <2>3 DEF Grant
  <2>5. running  BY Zenon, <1>1 DEF IInv, Needed, leased
  <2> QED  BY Zenon, <1>1, <2>1, <2>3, <2>4, <2>5 DEF IInv, Types
<1>3. left \subseteq grants /\ grants \subseteq Grant /\ issued \subseteq Bearer
  BY Zenon DEF RevokeBindings, IInv, Types
<1>4. CASE Resolves(config, ws, r) /\ ok
  <2>1. grants' = left \cup {new} /\ grantFile' = grants' /\ issued' = issued \cup {b}
    BY Zenon, <1>1, <1>4 DEF granted, persist
  <2>2. Distinct(grants)'
    <3>1. \A g \in left : g.bearer \in issued /\ ~(g.workspace = ws /\ g.route = r)
      BY Zenon, <1>3 DEF IInv, Distinct, RevokeBindings
    <3>2. \A g, h \in left :
             (g.workspace = h.workspace /\ g.route = h.route) \/ g.bearer = h.bearer => g = h
      BY Zenon, <1>3 DEF IInv, Distinct
    <3>3. new.bearer = b /\ new.workspace = ws /\ new.route = r  BY Zenon
    <3> HIDE DEF left, new, ws, r
    <3> QED  BY <2>1, <3>1, <3>2, <3>3, <1>1 DEF Distinct
  <2>3. \A g \in grants' : \/ g \in grants
                           \/ g.bearer \notin issued /\ Resolves(config, g.workspace, g.route)
    <3>1. new.bearer \notin issued /\ Resolves(config, new.workspace, new.route)  BY Zenon, <1>1, <1>4
    <3> HIDE DEF left, new
    <3> QED  BY Zenon, <1>3, <2>1, <3>1
  <2>4. grants' \subseteq Grant /\ issued \subseteq issued' /\ issued' \subseteq Bearer
    BY Zenon, <1>2, <1>3, <2>1
  <2> QED  BY Zenon, <1>1, <1>2, <2>1, <2>2, <2>3, <2>4, GrantsStep
<1>5. CASE ~(Resolves(config, ws, r) /\ ok)
  <2>1. UNCHANGED <<grants, grantFile, issued>>  BY Zenon, <1>1, <1>5 DEF granted, persist
  <2>2. Distinct(grants)'  BY Zenon, <2>1 DEF IInv, Distinct
  <2>3. grantFile' = grants'  BY Zenon, <2>1 DEF IInv, Types
  <2> QED  BY Zenon, <1>1, <1>2, <1>3, <2>1, <2>2, <2>3, GrantsStep
<1> QED  BY Zenon, <1>4, <1>5

LEMMA RevokeStep ==
    ASSUME IInv, NEW ws \in Workspace, NEW r \in Scope, NEW ok \in BOOLEAN, Revoke(ws, r, ok)
    PROVE  IInv' /\ Fresh
<1> DEFINE left == RevokeBindings(ws, {r})
<1>1. /\ ~bindingsLocked /\ persist(left, ok)
      /\ IF ok THEN stopIfUnneeded(left, issue) ELSE UNCHANGED running
      /\ UNCHANGED <<file, config, edit, issued, expired, issue, request>>
  BY Zenon DEF Revoke, routing
<1>2. left \subseteq grants  BY Zenon DEF RevokeBindings
<1>3. /\ grants' = (IF ok THEN left ELSE grants) /\ grantFile' = grants' /\ grants' \subseteq grants
  BY Zenon, <1>1, <1>2, Persisted DEF IInv
<1>4. running' \in BOOLEAN /\ (Needed(grants, issue) => running)'
  <2>1. Needed(left, issue) => running  BY Zenon, <1>2, FewerGrants DEF IInv
  <2>2. running' \in BOOLEAN /\ (Needed(grants', issue) => running')
    <3>1. CASE ok  BY Zenon, <1>1, <1>3, <2>1, <3>1, StopsUnneeded DEF IInv, Types
    <3>2. CASE ~ok  BY Zenon, <1>1, <1>3, <3>2 DEF IInv, Types
    <3> QED  BY Zenon, <3>1, <3>2
  <2> QED  BY Zenon, <1>1, <2>2 DEF Needed, ActiveGrants
<1>5. Distinct(grants)'  BY Zenon, <1>1, <1>3 DEF IInv, Distinct
<1>6. grants' \subseteq Grant /\ issued' \subseteq Bearer /\ issue' = issue
  BY Zenon, <1>1, <1>3 DEF IInv, Types
<1> QED  BY Zenon, <1>1, <1>3, <1>4, <1>5, <1>6, GrantsStep DEF IInv, Types

LEMMA ShareCommandStep ==
    ASSUME IInv, ShareCommand
    PROVE  IInv' /\ Fresh
BY Zenon, IssueStartsStep, IssueEndsStep, IssueGrantsStep, RevokeStep DEF ShareCommand

-----------------------------------------------------------------------------
(* Time, the owner runtime, requests and crashes                           *)

LEMMA ExpireStep ==
    ASSUME IInv, NEW b \in Bearer, Expire(b)
    PROVE  IInv' /\ Fresh
<1>1. /\ b \in issued /\ expired' = expired \cup {b}
      /\ UNCHANGED <<file, config, edit, grants, grantFile, issued, issue, running, request>>
  BY Zenon DEF Expire, routing
<1>2. Types'  BY Zenon, <1>1 DEF IInv, Types
<1>3. EditSafe'  BY Zenon, <1>1 DEF IInv, EditSafe, Bound, Resolves
<1>4. Bound(grants, config)' /\ Bound(grants, file)' /\ Distinct(grants)'
  BY Zenon, <1>1 DEF IInv, Bound, Resolves, Distinct
<1>5. (Needed(grants, issue) => running)'  BY Zenon, <1>1 DEF IInv, Needed, ActiveGrants
<1>6. (request.at # "idle" => request.grant.bearer \in issued)' /\ RefusalJustified'
  BY Zenon, <1>1 DEF IInv, RefusalJustified
<1> QED  BY Zenon, <1>1, <1>2, <1>3, <1>4, <1>5, <1>6 DEF IInv, Fresh

LEMMA ReconcileStep ==
    ASSUME IInv, reconcile
    PROVE  IInv' /\ Fresh
<1>1. running' \in BOOLEAN /\ (Needed(grants, issue') => running')
  BY Zenon DEF reconcile, Needed
<1> QED  BY Zenon, <1>1, LeaseStep DEF reconcile, IInv, Types

LEMMA RequestStep ==
    ASSUME IInv, (\E g \in grants : Authenticate(g)) \/ ServeHTTP
    PROVE  IInv' /\ Fresh
<1>1. UNCHANGED <<file, config, edit, grants, grantFile, issued, expired, issue, running>>
  BY Zenon DEF Authenticate, ServeHTTP, routing, shares
<1>2. /\ request' \in {NoRequest} \cup [at : {"admitted", "unauthorized"}, grant : Grant]
      /\ request'.at # "idle" => request'.grant.bearer \in issued
      /\ request'.at = "unauthorized" => request'.grant \notin grants
  <2>1. CASE \E g \in grants : Authenticate(g)
    <3>1. PICK g \in grants : request' = [at |-> "admitted", grant |-> g]
      BY Zenon, <2>1 DEF Authenticate
    <3>2. g \in Grant /\ g.bearer \in issued  BY Zenon DEF IInv, Types, Distinct
    <3> QED  BY Zenon, <3>1, <3>2
  <2>2. CASE ServeHTTP
    <3>1. request \in [at : {"admitted", "unauthorized"}, grant : Grant]
      BY <2>2 DEF ServeHTTP, IInv, Types, NoRequest
    <3>2. CASE Resolves(config, request.grant.workspace, request.grant.route)
      BY Zenon, <2>2, <3>2 DEF ServeHTTP, NoRequest
    <3>3. CASE ~Resolves(config, request.grant.workspace, request.grant.route)
      <4>1. request.grant \notin grants  BY Zenon, <3>3 DEF IInv, Bound
      <4>2. request' = [request EXCEPT !.at = "unauthorized"] /\ request.at = "admitted"
        BY Zenon, <2>2, <3>3 DEF ServeHTTP
      <4>3. /\ request' \in [at : {"admitted", "unauthorized"}, grant : Grant]
            /\ request'.grant = request.grant
        BY Zenon, <3>1, <4>2
      <4> QED  BY Zenon, <4>1, <4>2, <4>3 DEF IInv
    <3> QED  BY Zenon, <3>2, <3>3
  <2> QED  BY Zenon, <2>1, <2>2
<1>3. Types'  BY Zenon, <1>1, <1>2 DEF IInv, Types
<1>4. EditSafe'  BY Zenon, <1>1 DEF IInv, EditSafe, Bound, Resolves
<1>5. /\ Bound(grants, config)' /\ Bound(grants, file)' /\ Distinct(grants)'
      /\ (Needed(grants, issue) => running)'
  BY Zenon, <1>1 DEF IInv, Bound, Resolves, Distinct, Needed, ActiveGrants
<1>6. (request.at # "idle" => request.grant.bearer \in issued)' /\ RefusalJustified'
  BY Zenon, <1>1, <1>2 DEF RefusalJustified
<1> QED  BY Zenon, <1>1, <1>3, <1>4, <1>5, <1>6 DEF IInv, Fresh

LEMMA RestartStep ==
    ASSUME IInv, Restart
    PROVE  IInv' /\ Fresh
<1>1. /\ config' = file /\ grants' = grants /\ edit' = NoEdit /\ issue' = [i \in Issuer |-> Idle]
      /\ running' = (ActiveGrants(grants) # {}) /\ request' = NoRequest
      /\ UNCHANGED <<file, grantFile, issued, expired>>
  BY Zenon DEF Restart, IInv, Types
<1>2. running' \in BOOLEAN  BY Zenon, <1>1
<1>3. Types'  BY Zenon, <1>1, <1>2 DEF IInv, Types
<1>4. EditSafe'  BY Zenon, <1>1 DEF EditSafe, NoEdit
<1>5. Bound(grants, config)' /\ Bound(grants, file)' /\ Distinct(grants)'
  BY Zenon, <1>1 DEF IInv, Bound, Resolves, Distinct
<1>6. (Needed(grants, issue) => running)'
  <2>1. leased(issue)' = {}  BY Zenon, <1>1 DEF leased, Idle
  <2> QED  BY Zenon, <1>1, <2>1 DEF Needed, ActiveGrants
<1>7. (request.at # "idle" => request.grant.bearer \in issued)' /\ RefusalJustified'
  BY Zenon, <1>1 DEF NoRequest, RefusalJustified
<1> QED  BY Zenon, <1>1, <1>3, <1>4, <1>5, <1>6, <1>7 DEF IInv, Fresh

-----------------------------------------------------------------------------
LEMMA InitHolds == Init => IInv
<1> SUFFICES ASSUME Init PROVE IInv  BY Zenon
<1>1. Types  BY Zenon DEF Init, Types, Config
<1>2. EditSafe  BY Zenon DEF Init, EditSafe, NoEdit
<1>3. Bound(grants, config) /\ Bound(grants, file) /\ Distinct(grants)
  BY Zenon DEF Init, Bound, Distinct
<1>4. ~Needed(grants, issue)  BY Zenon DEF Init, Needed, leased, ActiveGrants, Idle
<1>5. request.at = "idle" /\ RefusalJustified  BY Zenon DEF Init, NoRequest, RefusalJustified
<1> QED  BY Zenon, <1>1, <1>2, <1>3, <1>4, <1>5 DEF IInv

LEMMA NextKeeps ==
    ASSUME IInv, [Next]_vars
    PROVE  IInv' /\ Fresh
<1>1. CASE Next
  BY Zenon, <1>1, PlainEditStep, DestructiveEditStep, CommitStep, PublishStep, ShareCommandStep,
     ExpireStep, ReconcileStep, RequestStep, RestartStep
     DEF Next
<1>2. CASE UNCHANGED vars
  <2>1. UNCHANGED <<routing, shares, issue, running, request>>  BY Zenon, <1>2 DEF vars
  <2>2. Needed(grants, issue') => running'  BY Zenon, <2>1 DEF IInv
  <2> QED  BY Zenon, <2>1, <2>2, LeaseStep DEF IInv, Types
<1> QED  BY Zenon, <1>1, <1>2

LEMMA Invariance == Spec => []IInv
BY InitHolds, NextKeeps, PTL DEF Spec

(* Whatever edits, issues, failures and crashes interleave, every grant    *)
(* names a workspace or route of the published configuration and of the    *)
(* file, there is one per scope and per bearer, and a request is refused   *)
(* after its admission only when its grant is gone.                        *)
THEOREM GrantsStayBound == Spec => []BindingsInv
<1>1. IInv => BindingsInv
  <2> SUFFICES ASSUME IInv PROVE BindingsInv  BY Zenon
  <2>1. /\ edit.at \in {"none", "prepared", "renamed"}
        /\ edit.at # "none" => edit.next \in Config /\ {edit.locks, edit.removed} \subseteq BOOLEAN
    BY Zenon, EditCases DEF IInv
  <2>2. /\ request.at \in {"idle", "admitted", "unauthorized"}
        /\ request.grant \in Grant \cup {NoGrant}
    BY DEF IInv, Types, NoRequest
  <2>3. \A i \in Issuer : issue[i].at \in {"idle", "preparing", "granted"}
    BY DEF IInv, Types, Idle
  <2>4. TypeOK  BY Zenon, <2>1, <2>2, <2>3 DEF IInv, Types, TypeOK
  <2>5. GrantsBound  BY Zenon DEF IInv, Types, Bound, GrantsBound
  <2>6. edit.at # "renamed" => config = file  BY Zenon, <2>1 DEF IInv, EditSafe
  <2> QED  BY Zenon, <2>4, <2>5, <2>6 DEF BindingsInv, IInv, Types, Distinct
<1> QED  BY Invariance, <1>1, PTL

(* The owner runtime runs while an active grant exists, whatever order of  *)
(* leases, revocations, edits and reconciliation preceded.                 *)
THEOREM ActiveSharesServed == Spec => []ShareServed
<1>1. IInv => ShareServed  BY Zenon DEF IInv, Needed, ShareServed
<1> QED  BY Invariance, <1>1, PTL

(* A bearer that was revoked, replaced or has expired is never accepted    *)
(* again, also after a failed write and a restart.                         *)
THEOREM BearersNeverRevive == Spec => NoRevival
<1>1. ASSUME Fresh
      PROVE  \A b \in issued : ~Authentic(b) => ~Authentic(b)'
  BY Zenon, <1>1 DEF Fresh, Authentic, ActiveGrants
<1>2. IInv /\ [Next]_vars => [\A b \in issued : ~Authentic(b) => ~Authentic(b)']_vars
  BY Zenon, <1>1, NextKeeps
<1> QED  BY Invariance, <1>2, PTL DEF Spec, NoRevival

-----------------------------------------------------------------------------
(***************************************************************************)
(* What the telemetry endpoint receives is consistent for any number of    *)
(* events, any queue and any number of preference changes.                 *)
(*                                                                         *)
(* TelemetryInv speaks of what was sent.  A step can break it only through *)
(* what the actor still holds, so the inductive invariant follows an event *)
(* through the queue, the aggregate and the pending report: it is in at    *)
(* most one of these places, it was folded under the actor's revision, and *)
(* a report that was sent and is still pending has not changed since.      *)
(***************************************************************************)

(* Where an event is: nowhere yet, in the queue, in the aggregate, in the  *)
(* pending report or sent, and only in one of them.                        *)
Placed ==
    /\ \A i, j \in 1 .. Len(queue) : queue[i] = queue[j] => i = j
    /\ \A i \in 1 .. Len(queue) : queue[i] \notin unseen
    /\ \A r \in actor.active \cup actor.pending.rows :
          /\ r.event \notin unseen
          /\ \A i \in 1 .. Len(queue) : queue[i] # r.event
    /\ \A r \in actor.active, p \in actor.pending.rows : r.event # p.event
    /\ \A s \in sent : \A r \in s.report.rows :
          /\ r.event \notin unseen
          /\ \A i \in 1 .. Len(queue) : queue[i] # r.event
          /\ \A a \in actor.active : a.event # r.event

(* The aggregate belongs to the actor's revision, and so does the pending  *)
(* report unless the actor has lost its revision to an unreadable file.    *)
Revisions ==
    /\ \A r \in actor.active : r.revision = actor.revision
    /\ \A r \in actor.pending.rows : actor.revision \in {0, r.revision}

(* Report ids are drawn in order, and the pending report has not changed   *)
(* since it was sent.                                                      *)
Identified ==
    /\ actor.pending.id <= reports
    /\ actor.pending.id = 0 => actor.pending = NoReport
    /\ \A s \in sent : s.report.id # 0 /\ s.report.id <= reports
    /\ \A s \in sent : s.report.id = actor.pending.id => s.report = actor.pending
    /\ \A s \in sent : s.report.id # actor.pending.id =>
          \A r \in s.report.rows, p \in actor.pending.rows : r.event # p.event
    /\ actor.at \in {"uploading", "last upload"} => actor.pending.id # 0

Placements == TelemetryInv /\ Placed /\ Revisions /\ Identified

-----------------------------------------------------------------------------
ActorType ==
    [at : {"stopped", "running", "uploading", "draining", "last upload"},
     enabled : BOOLEAN, revision : 0 .. MaxRevision,
     active : SUBSET Folded, pending : Report, debug : BOOLEAN]

(* What was sent, in the terms the steps use.                              *)
Consistent ==
    /\ \A s \in sent : \A r \in s.report.rows : s.revision \in {0, r.revision}
    /\ \A s, t \in sent : s.report.id = t.report.id => s.report = t.report
    /\ \A s, t \in sent : s.report.id # t.report.id =>
          \A r \in s.report.rows, p \in t.report.rows : r.event # p.event

LEMMA NoCommonEvent ==
    \A A, B : events(A) \cap events(B) = {} <=> \A r \in A, p \in B : r.event # p.event
BY Zenon DEF events

LEMMA InTermsOfRows == TelemetryInv <=> TelemetryTypeOK /\ Consistent
<1>1. \A s, t \in sent :
        (IF s.report.id = t.report.id THEN s.report = t.report
         ELSE events(s.report.rows) \cap events(t.report.rows) = {})
        <=> /\ s.report.id = t.report.id => s.report = t.report
            /\ s.report.id # t.report.id =>
                  \A r \in s.report.rows, p \in t.report.rows : r.event # p.event
  <2> TAKE s, t \in sent
  <2>1. events(s.report.rows) \cap events(t.report.rows) = {}
        <=> \A r \in s.report.rows, p \in t.report.rows : r.event # p.event
    BY NoCommonEvent
  <2> QED  BY ONLY Zenon, <2>1
<1> QED  BY Zenon, <1>1 DEF TelemetryInv, Consistent

LEMMA EmptyRange == \A i : i \notin 1 .. 0
OBVIOUS

LEMMA EmptyReport == NoReport \in Report /\ NoReport.id = 0 /\ NoReport.rows = {}
BY Zenon DEF NoReport, Report

(* A step that gives the actor no row it did not have, and sends nothing,  *)
(* keeps the invariant.                                                    *)
LEMMA HoldingLess ==
    ASSUME Placements, TelemetryTypeOK', Revisions',
           UNCHANGED <<unseen, sent>>,
           reports' \in {reports, reports + 1},
           queue' \in {queue, <<>>},
           actor'.active \subseteq actor.active,
           actor'.pending \in {actor.pending, NoReport},
           actor'.at \in {"uploading", "last upload"} => actor'.pending.id # 0
    PROVE  Placements'
<1>1. TelemetryInv'
  <2>1. Consistent  BY Zenon, InTermsOfRows DEF Placements
  <2>2. Consistent'  BY Zenon, <2>1 DEF Consistent
  <2>3. TelemetryTypeOK'  BY Zenon
  <2> QED  BY <2>2, <2>3, InTermsOfRows, PTL
<1>2. Placed'
  <2>1. \A i \in 1 .. Len(queue') : i \in 1 .. Len(queue) /\ queue'[i] = queue[i]
    <3>1. CASE queue' = queue  BY Zenon, <3>1
    <3>2. CASE queue' = <<>>
      <4>1. Len(queue') = 0  BY Zenon, <3>2
      <4> QED  BY <4>1, EmptyRange, Zenon
    <3> QED  BY Zenon, <3>1, <3>2
  <2>2. actor'.pending.rows \subseteq actor.pending.rows  BY Zenon, EmptyReport
  <2>3. Placed  BY Zenon DEF Placements
  <2>4. \A i, j \in 1 .. Len(queue') : queue'[i] = queue'[j] => i = j
    <3> TAKE i, j \in 1 .. Len(queue')
    <3> QED  BY <2>1, <2>3, Zenon DEF Placed
  <2>8. \A i \in 1 .. Len(queue') : queue'[i] \notin unseen'
    BY <2>1, <2>3, Zenon DEF Placed
  <2>5. \A r \in actor'.active \cup actor'.pending.rows :
           /\ r.event \notin unseen'
           /\ \A i \in 1 .. Len(queue') : queue'[i] # r.event
    BY Zenon, <2>1, <2>2, <2>3 DEF Placed
  <2>6. \A r \in actor'.active, p \in actor'.pending.rows : r.event # p.event
    BY Zenon, <2>2, <2>3 DEF Placed
  <2>7. \A s \in sent' : \A r \in s.report.rows :
           /\ r.event \notin unseen'
           /\ \A i \in 1 .. Len(queue') : queue'[i] # r.event
           /\ \A a \in actor'.active : a.event # r.event
    BY Zenon, <2>1, <2>3 DEF Placed
  <2> QED  BY Zenon, <2>4, <2>5, <2>6, <2>7, <2>8 DEF Placed
<1>3. Identified'
  <2>1. Identified  BY Zenon DEF Placements
  <2>4. \A n \in Nat : n <= reports => n <= reports'
    <3>1. reports \in Nat  BY Zenon DEF Placements, TelemetryInv, TelemetryTypeOK
    <3> QED  BY ONLY <3>1, reports' \in {reports, reports + 1}
  <2>5. \A s \in sent : s.report.id \in Nat  BY Zenon DEF Placements, TelemetryInv, TelemetryTypeOK, Report
  <2>6. actor.pending.id \in Nat  BY Zenon DEF Placements, TelemetryInv, TelemetryTypeOK, Report
  <2>2. CASE actor'.pending = actor.pending  BY Zenon, <2>1, <2>2, <2>4, <2>5, <2>6 DEF Identified
  <2>3. CASE actor'.pending = NoReport
    <3>1. actor'.pending.id = 0 /\ actor'.pending.rows = {}  BY Zenon, <2>3, EmptyReport
    <3>2. reports' \in Nat  BY Zenon DEF TelemetryTypeOK
    <3>3. \A s \in sent : s.report.id # actor'.pending.id  BY Zenon, <2>1, <3>1 DEF Identified
    <3>4. actor'.pending.id <= reports'  BY ONLY <3>1, <3>2
    <3> QED  BY Zenon, <2>1, <2>3, <2>4, <2>5, <3>1, <3>3, <3>4 DEF Identified
  <2> QED  BY Zenon, <2>2, <2>3
<1> QED  BY Zenon, <1>1, <1>2, <1>3 DEF Placements

LEMMA Refreshed ==
    ASSUME Placements, NEW readable \in BOOLEAN
    PROVE  LET a == refreshPreference(actor, readable) IN
           /\ a \in ActorType
           /\ a.at = actor.at
           /\ a.active \subseteq actor.active
           /\ a.pending \in {actor.pending, NoReport}
           /\ \A r \in a.active : r.revision = a.revision
           /\ \A r \in a.pending.rows : a.revision \in {0, r.revision}
<1>1. actor \in ActorType /\ preference \in [enabled : BOOLEAN, revision : 0 .. MaxRevision]
  BY Zenon DEF Placements, TelemetryInv, TelemetryTypeOK, ActorType
<1>2. 0 \in 0 .. MaxRevision  BY TelemetryAssumption
<1>3. Revisions  BY Zenon DEF Placements
<1> QED  BY Zenon, <1>1, <1>2, <1>3, EmptyReport DEF refreshPreference, Revisions, ActorType

-----------------------------------------------------------------------------
(* The facts of the type invariant that most steps need.                   *)
LEMMA TelemetryTypes ==
    ASSUME Placements
    PROVE  /\ actor \in ActorType
           /\ preference \in [enabled : BOOLEAN, revision : 0 .. MaxRevision]
           /\ queue \in Seq(Event)
           /\ reports \in Nat
           /\ 0 \in 0 .. MaxRevision
<1>1. 0 \in 0 .. MaxRevision  BY TelemetryAssumption
<1> QED  BY Zenon, <1>1 DEF Placements, TelemetryInv, TelemetryTypeOK, ActorType

LEMMA TelemetryStarts == TelemetryInit => Placements
<1> SUFFICES ASSUME TelemetryInit PROVE Placements  BY Zenon
<1>1. actor.active = {} /\ actor.pending = NoReport /\ actor.at = "stopped"  BY Zenon DEF TelemetryInit, Stopped
<1>2. 0 \in 0 .. MaxRevision /\ 0 <= QueueBound  BY TelemetryAssumption
<1>3. TelemetryTypeOK  BY <1>2, EmptyReport DEF TelemetryInit, TelemetryTypeOK, Stopped
<1>4. Consistent  BY Zenon DEF TelemetryInit, Consistent
<1>5. TelemetryInv  BY Zenon, <1>3, <1>4, InTermsOfRows
<1>6. Placed
  <2>1. Len(queue) = 0  BY Zenon DEF TelemetryInit
  <2> QED  BY Zenon, <1>1, <2>1, EmptyRange, EmptyReport DEF TelemetryInit, Placed
<1>7. Revisions  BY Zenon, <1>1, EmptyReport DEF Revisions
<1>8. Identified  BY <1>1, EmptyReport DEF TelemetryInit, Identified
<1> QED  BY Zenon, <1>5, <1>6, <1>7, <1>8 DEF Placements

LEMMA OutsideStep ==
    ASSUME Placements, (\E enabled \in BOOLEAN : setEnabled(enabled)) \/ DeleteState
    PROVE  Placements'
<1>1. UNCHANGED <<unseen, queue, actor, reports, sent>>  BY Zenon DEF setEnabled, DeleteState
<1>2. TelemetryTypeOK'
  <2>1. 0 \in 0 .. MaxRevision  BY Zenon, TelemetryTypes
  <2>2. revisions' \in 0 .. MaxRevision /\ preference' \in [enabled : BOOLEAN, revision : 0 .. MaxRevision]
    <3>1. revisions \in 0 .. MaxRevision  BY Zenon DEF Placements, TelemetryInv, TelemetryTypeOK
    <3>2. CASE DeleteState  BY Zenon, <3>1, <3>2, <2>1 DEF DeleteState
    <3>3. ASSUME NEW enabled \in BOOLEAN, setEnabled(enabled)
          PROVE  revisions' \in 0 .. MaxRevision /\ preference' \in [enabled : BOOLEAN, revision : 0 .. MaxRevision]
      BY <3>1, <3>3, TelemetryAssumption DEF setEnabled
    <3> QED  BY Zenon, <3>2, <3>3
  <2> QED  BY Zenon, <1>1, <2>2 DEF Placements, TelemetryInv, TelemetryTypeOK
<1>3. Revisions'  BY Zenon, <1>1 DEF Placements, Revisions
<1>4. actor'.at \in {"uploading", "last upload"} => actor'.pending.id # 0
  BY Zenon, <1>1 DEF Placements, Identified
<1> QED  BY Zenon, <1>1, <1>2, <1>3, <1>4, HoldingLess

(* startRuntime and Crash: the actor holds nothing.                        *)
LEMMA FreshStep ==
    ASSUME Placements, (\E debug \in BOOLEAN : startRuntime(debug)) \/ Crash
    PROVE  Placements'
<1>1. /\ UNCHANGED <<preference, revisions, unseen, reports, sent>> /\ queue' = <<>>
      /\ actor'.active = {} /\ actor'.pending = NoReport
      /\ actor'.at \in {"running", "stopped"} /\ actor' \in ActorType
  <2>1. CASE Crash  BY Zenon, <2>1, TelemetryTypes, EmptyReport DEF Crash, Stopped, ActorType, outside
  <2>2. ASSUME NEW debug \in BOOLEAN, startRuntime(debug)
        PROVE  /\ UNCHANGED <<preference, revisions, unseen, reports, sent>> /\ queue' = <<>>
               /\ actor'.active = {} /\ actor'.pending = NoReport
               /\ actor'.at = "running" /\ actor' \in ActorType
    BY Zenon, <2>2, TelemetryTypes, EmptyReport DEF startRuntime, Stopped, ActorType, outside
  <2> QED  BY Zenon, <2>1, <2>2
<1>2. TelemetryTypeOK'
  <2>1. queue' \in Seq(Event) /\ Len(queue') <= QueueBound  BY <1>1, TelemetryAssumption
  <2> QED  BY Zenon, <1>1, <2>1 DEF Placements, TelemetryInv, TelemetryTypeOK, ActorType
<1>3. Revisions'  BY Zenon, <1>1, EmptyReport DEF Revisions
<1> QED  BY Zenon, <1>1, <1>2, <1>3, HoldingLess

(* Steps that change the actor and nothing else.                           *)
LEMMA ActorOnly ==
    ASSUME Placements, UNCHANGED <<preference, revisions, unseen, queue, sent>>,
           reports' \in {reports, reports + 1},
           actor' \in ActorType,
           actor'.active \subseteq actor.active,
           actor'.pending \in {actor.pending, NoReport},
           \A r \in actor'.active : r.revision = actor'.revision,
           \A r \in actor'.pending.rows : actor'.revision \in {0, r.revision},
           actor'.at \in {"uploading", "last upload"} => actor'.pending.id # 0
    PROVE  Placements'
<1>1. reports' \in Nat
  <2>1. reports \in Nat  BY Zenon, TelemetryTypes
  <2> QED  BY ONLY <2>1, reports' \in {reports, reports + 1}
<1>2. TelemetryTypeOK'  BY Zenon, <1>1 DEF Placements, TelemetryInv, TelemetryTypeOK, ActorType
<1>3. Revisions'  BY Zenon DEF Revisions
<1> QED  BY Zenon, <1>2, <1>3, HoldingLess

LEMMA PollStep ==
    ASSUME Placements, NEW readable \in BOOLEAN, Poll(readable)
    PROVE  Placements'
<1>1. actor' = refreshPreference(actor, readable)  BY Zenon DEF Poll
<1>2. actor'.at = "running"  BY Zenon, <1>1, Refreshed DEF Poll
<1> QED  BY <1>1, <1>2, Refreshed, ActorOnly DEF Poll, outside

LEMMA CloseStep ==
    ASSUME Placements, Close
    PROVE  Placements'
<1>1. actor' \in ActorType /\ actor'.at = "draining" /\ actor'.active = actor.active
      /\ actor'.pending = actor.pending /\ actor'.revision = actor.revision
  BY Zenon, TelemetryTypes DEF Close, ActorType
<1>2. Revisions  BY Zenon DEF Placements
<1> QED  BY Zenon, <1>1, <1>2, ActorOnly DEF Close, outside, Revisions

(* The request path adds an event that is nowhere yet.                     *)
LEMMA ObserveStep ==
    ASSUME Placements, NEW e \in Event, Observe(e)
    PROVE  Placements'
<1> USE DEF outside
<1>1. /\ e \in unseen /\ unseen' = unseen \ {e}
      /\ UNCHANGED <<preference, revisions, actor, reports, sent>>
  BY Zenon DEF Observe
<1>2. Placed /\ TelemetryTypeOK  BY Zenon DEF Placements, TelemetryInv
<1>3. Consistent  BY Zenon, InTermsOfRows DEF Placements
<1>4. Consistent'  BY Zenon, <1>1, <1>3 DEF Consistent
<1>5. Revisions' /\ Identified'  BY Zenon, <1>1 DEF Placements, Revisions, Identified
<1>6. CASE queue' = queue
  <2>1. TelemetryTypeOK'  BY Zenon, <1>1, <1>2, <1>6 DEF TelemetryTypeOK
  <2>2. Placed'  BY <1>1, <1>2, <1>6 DEF Placed
  <2>3. TelemetryInv'  BY <2>1, <1>4, InTermsOfRows, PTL
  <2> QED  BY Zenon, <1>5, <2>2, <2>3 DEF Placements
<1>7. CASE queue' = Append(queue, e) /\ Len(queue) < QueueBound
  <2>1. /\ queue' \in Seq(Event) /\ Len(queue') = Len(queue) + 1 /\ Len(queue) \in Nat
        /\ \A i \in 1 .. Len(queue) : queue'[i] = queue[i]
        /\ queue'[Len(queue) + 1] = e
    BY <1>7, TelemetryTypes
  <2>2. \A i \in 1 .. Len(queue') : i = Len(queue) + 1 \/ i \in 1 .. Len(queue)
    BY ONLY <2>1
  <2>3. TelemetryTypeOK'
    <3>1. Len(queue') <= QueueBound  BY ONLY <2>1, <1>7, TelemetryAssumption
    <3> QED  BY Zenon, <1>1, <1>2, <2>1, <3>1 DEF TelemetryTypeOK
  <2>4. \A i \in 1 .. Len(queue') : (i \in 1 .. Len(queue) /\ queue'[i] = queue[i]) \/ queue'[i] = e
    BY <2>1, <2>2, Zenon
  <2>5. \A i \in 1 .. Len(queue) : queue[i] # e  BY Zenon, <1>1, <1>2 DEF Placed
  <2>6. \A i, j \in 1 .. Len(queue') : queue'[i] = queue'[j] => i = j
    <3> SUFFICES ASSUME NEW i \in 1 .. Len(queue'), NEW j \in 1 .. Len(queue'), queue'[i] = queue'[j]
                 PROVE  i = j
      BY Zenon
    <3>1. CASE i \in 1 .. Len(queue) /\ j \in 1 .. Len(queue)
      BY <3>1, <2>1, <1>2, Zenon DEF Placed
    <3>2. CASE i = Len(queue) + 1 /\ j \in 1 .. Len(queue)  BY <3>2, <2>1, <2>5, Zenon
    <3>3. CASE j = Len(queue) + 1 /\ i \in 1 .. Len(queue)  BY <3>3, <2>1, <2>5, Zenon
    <3>4. CASE i = Len(queue) + 1 /\ j = Len(queue) + 1  BY Zenon, <3>4
    <3> QED  BY <3>1, <3>2, <3>3, <3>4, <2>2, Zenon
  <2>7. Placed'
    <3>1. \A i \in 1 .. Len(queue') : queue'[i] \notin unseen'
      BY <2>4, <1>1, <1>2, Zenon DEF Placed
    <3>2. \A r \in actor.active \cup actor.pending.rows :
             r.event \notin unseen' /\ \A i \in 1 .. Len(queue') : queue'[i] # r.event
      BY Zenon, <2>4, <1>1, <1>2 DEF Placed
    <3>3. \A s \in sent : \A r \in s.report.rows :
             r.event \notin unseen' /\ \A i \in 1 .. Len(queue') : queue'[i] # r.event
      BY Zenon, <2>4, <1>1, <1>2 DEF Placed
    <3> QED  BY Zenon, <2>6, <3>1, <3>2, <3>3, <1>1, <1>2 DEF Placed
  <2>8. TelemetryInv'  BY <2>3, <1>4, InTermsOfRows, PTL
  <2> QED  BY Zenon, <1>5, <2>7, <2>8 DEF Placements
<1> QED  BY Zenon, <1>6, <1>7 DEF Observe

(* The head of the queue goes to the aggregate, if telemetry is on.        *)
LEMMA ReceiveStep ==
    ASSUME Placements, Receive
    PROVE  Placements'
<1> USE DEF outside
<1> DEFINE e == Head(queue)
           row == [event |-> e, revision |-> actor.revision]
<1>1. UNCHANGED <<preference, revisions, unseen, reports, sent>>  BY Zenon DEF Receive
<1>2. Placed /\ TelemetryTypeOK /\ Revisions /\ Identified  BY Zenon DEF Placements, TelemetryInv
<1>3. /\ queue' \in Seq(Event) /\ Len(queue) \in Nat /\ Len(queue') = Len(queue) - 1
      /\ \A i \in 1 .. Len(queue') : i + 1 \in 1 .. Len(queue) /\ queue'[i] = queue[i + 1]
      /\ 1 \in 1 .. Len(queue) /\ e = queue[1] /\ e \in Event
  BY TelemetryTypes DEF Receive
<1>4. \A i \in 1 .. Len(queue') : queue'[i] # e
  <2> TAKE i \in 1 .. Len(queue')
  <2>1. i + 1 # 1  BY ONLY <1>3
  <2> QED  BY <1>2, <1>3, <2>1, Zenon DEF Placed
<1>5. row \in Folded  BY Zenon, <1>3, TelemetryTypes DEF Folded, ActorType
<1>6. /\ actor' \in ActorType /\ actor'.active \subseteq actor.active \cup {row}
      /\ actor'.pending = actor.pending /\ actor'.revision = actor.revision /\ actor'.at = actor.at
  BY Zenon, <1>5, TelemetryTypes DEF Receive, fold, ActorType
<1> HIDE DEF row, e
<1>7. row.event = e /\ row.revision = actor.revision  BY Zenon DEF row
<1>8. TelemetryTypeOK'
  <2>1. Len(queue') <= QueueBound
    <3>1. Len(queue) <= QueueBound  BY Zenon, <1>2 DEF TelemetryTypeOK
    <3> QED  BY ONLY <3>1, <1>3, TelemetryAssumption
  <2> QED  BY Zenon, <1>1, <1>2, <1>3, <1>6, <2>1 DEF TelemetryTypeOK, ActorType
<1>9. Consistent'
  <2>1. Consistent  BY Zenon, InTermsOfRows DEF Placements
  <2> QED  BY Zenon, <2>1, <1>1 DEF Consistent
<1>10. TelemetryInv'  BY <1>8, <1>9, InTermsOfRows, PTL
<1>11. Revisions'  BY Zenon, <1>2, <1>6, <1>7 DEF Revisions
<1>12. Identified'  BY Zenon, <1>1, <1>2, <1>6 DEF Identified
<1>13. Placed'
  <2>1. \A i, j \in 1 .. Len(queue') : queue'[i] = queue'[j] => i = j
    <3> SUFFICES ASSUME NEW i \in 1 .. Len(queue'), NEW j \in 1 .. Len(queue'), queue'[i] = queue'[j]
                 PROVE  i = j
      BY Zenon
    <3>1. i + 1 = j + 1
      <4>1. i + 1 \in 1 .. Len(queue) /\ j + 1 \in 1 .. Len(queue) /\ queue[i + 1] = queue[j + 1]
        BY Zenon, <1>3
      <4> QED  BY Zenon, <4>1, <1>2 DEF Placed
    <3>2. i \in Nat /\ j \in Nat  BY ONLY <1>3
    <3> QED  BY ONLY <3>1, <3>2
  <2>2. \A i \in 1 .. Len(queue') : queue'[i] \notin unseen'
    BY <1>1, <1>2, <1>3, Zenon DEF Placed
  <2>3. e \notin unseen /\ \A s \in sent : \A r \in s.report.rows : r.event # e
    BY Zenon, <1>2, <1>3 DEF Placed
  <2>4. \A r \in actor.active \cup actor.pending.rows : r.event # e
    BY Zenon, <1>2, <1>3 DEF Placed
  <2>5. \A r \in actor'.active \cup actor'.pending.rows :
           r.event \notin unseen' /\ \A i \in 1 .. Len(queue') : queue'[i] # r.event
    BY <1>1, <1>2, <1>3, <1>4, <1>6, <1>7, <2>3 DEF Placed
  <2>6. \A r \in actor'.active, p \in actor'.pending.rows : r.event # p.event
    BY Zenon, <1>2, <1>6, <1>7, <2>4 DEF Placed
  <2>7. \A s \in sent : \A r \in s.report.rows :
           /\ r.event \notin unseen
           /\ \A i \in 1 .. Len(queue') : queue'[i] # r.event
           /\ \A a \in actor'.active : a.event # r.event
    BY <1>2, <1>3, <1>6, <1>7, <2>3 DEF Placed
  <2> QED  BY Zenon, <1>1, <2>1, <2>2, <2>5, <2>6, <2>7 DEF Placed
<1> QED  BY Zenon, <1>10, <1>11, <1>12, <1>13 DEF Placements

(* flush: either it only forgets, or the aggregate becomes the report.     *)
LEMMA FlushStep ==
    ASSUME Placements, NEW readable \in BOOLEAN, flush(readable)
    PROVE  Placements'
<1> USE DEF outside
<1> DEFINE a == refreshPreference(actor, readable)
           new == [id |-> reports + 1, rows |-> a.active]
<1>1. /\ a \in ActorType /\ a.at = actor.at /\ a.active \subseteq actor.active
      /\ a.pending \in {actor.pending, NoReport}
      /\ \A r \in a.active : r.revision = a.revision
      /\ \A r \in a.pending.rows : a.revision \in {0, r.revision}
  BY Zenon, Refreshed
<1>2. actor.at \in {"running", "draining"} /\ UNCHANGED <<preference, revisions, unseen, queue, sent>>
  BY Zenon DEF flush
<1>3. \/ actor' = flushed(a) /\ reports' = reports
      \/ /\ a.pending = NoReport /\ reports' = reports + 1
         /\ actor' = IF a.debug THEN flushed([frozen(a) EXCEPT !.pending = NoReport])
                     ELSE [frozen(a) EXCEPT !.at = IF @ = "running" THEN "uploading" ELSE "last upload"]
      \/ /\ a.pending # NoReport /\ reports' = reports
         /\ actor' = IF a.debug THEN flushed([frozen(a) EXCEPT !.pending = NoReport])
                     ELSE [frozen(a) EXCEPT !.at = IF @ = "running" THEN "uploading" ELSE "last upload"]
  BY Zenon DEF flush
<1> HIDE DEF a
<1>4. CASE actor' = flushed(a) /\ reports' = reports
  <2>1. actor' \in ActorType /\ actor'.active = a.active /\ actor'.pending = a.pending
        /\ actor'.revision = a.revision /\ actor'.at \in {"running", "stopped"}
    BY Zenon, <1>1, <1>2, <1>4 DEF flushed, ActorType
  <2> QED  BY Zenon, <1>1, <1>2, <1>4, <2>1, ActorOnly
<1>5. CASE a.debug /\ actor' = flushed([frozen(a) EXCEPT !.pending = NoReport])
           /\ reports' \in {reports, reports + 1}
  <2>1. frozen(a) \in ActorType /\ frozen(a).active \subseteq a.active
        /\ frozen(a).revision = a.revision /\ frozen(a).at = a.at
    <3>1. reports + 1 \in Nat  BY TelemetryTypes
    <3> QED  BY Zenon, <1>1, <3>1 DEF frozen, ActorType, Report
  <2>2. actor' \in ActorType /\ actor'.active \subseteq a.active /\ actor'.pending = NoReport
        /\ actor'.revision = a.revision /\ actor'.at \in {"running", "stopped"}
    BY Zenon, <1>1, <1>2, <1>5, <2>1, EmptyReport DEF flushed, ActorType
  <2> QED  BY Zenon, <1>1, <1>2, <1>5, <2>2, EmptyReport, ActorOnly
<1>6. CASE /\ a.pending # NoReport /\ reports' = reports
           /\ actor' = [frozen(a) EXCEPT !.at = IF @ = "running" THEN "uploading" ELSE "last upload"]
  <2>1. actor' \in ActorType /\ actor'.active = a.active /\ actor'.pending = a.pending
        /\ actor'.revision = a.revision
    BY Zenon, <1>1, <1>6 DEF frozen, ActorType
  <2>2. actor'.pending.id # 0  BY Zenon, <1>1, <1>6, <2>1 DEF Placements, Identified
  <2> QED  BY Zenon, <1>1, <1>2, <1>6, <2>1, <2>2, ActorOnly
<1>7. CASE /\ a.pending = NoReport /\ reports' = reports + 1
           /\ actor' = [frozen(a) EXCEPT !.at = IF @ = "running" THEN "uploading" ELSE "last upload"]
  <2>0. reports' = reports + 1  BY Zenon, <1>7
  <2>1. reports \in Nat /\ reports' \in Nat
    <3>1. reports \in Nat  BY Zenon, TelemetryTypes
    <3> QED  BY ONLY <3>1, <2>0
  <2>2. new \in Report /\ new.id = reports + 1 /\ new.rows = a.active
    BY Zenon, <1>1, <1>7, <2>1 DEF ActorType, Report
  <2>3. actor' \in ActorType /\ actor'.active = {} /\ actor'.pending = new
        /\ actor'.revision = a.revision
    BY Zenon, <1>1, <1>7, <2>2 DEF frozen, ActorType
  <2> HIDE DEF new
  <2>4. TelemetryTypeOK'  BY Zenon, <1>2, <2>1, <2>3 DEF Placements, TelemetryInv, TelemetryTypeOK, ActorType
  <2>5. Consistent'
    <3>1. Consistent  BY Zenon, InTermsOfRows DEF Placements
    <3> QED  BY Zenon, <3>1, <1>2 DEF Consistent
  <2>6. TelemetryInv'  BY <2>4, <2>5, InTermsOfRows, PTL
  <2>7. Placed'
    <3>1. Placed  BY Zenon DEF Placements
    <3> QED  BY <3>1, <1>1, <1>2, <2>2, <2>3 DEF Placed
  <2>8. Revisions'  BY Zenon, <1>1, <2>2, <2>3 DEF Revisions
  <2>9. Identified'
    <3>1. Identified /\ Placed  BY Zenon DEF Placements
    <3>2. \A s \in sent : s.report.id \in Nat  BY Zenon DEF Placements, TelemetryInv, TelemetryTypeOK, Report
    <3>3. \A n \in Nat : n <= reports => n <= reports' /\ n # reports + 1  BY ONLY <2>0, <2>1
    <3>4. \A s \in sent : s.report.id <= reports' /\ s.report.id # new.id /\ s.report.id # 0
      BY Zenon, <3>1, <3>2, <3>3, <2>2 DEF Identified
    <3>5. new.id <= reports' /\ new.id # 0  BY ONLY <2>0, <2>1, <2>2
    <3>6. \A s \in sent : \A r \in s.report.rows, p \in new.rows : r.event # p.event
      BY Zenon, <3>1, <1>1, <2>2 DEF Placed
    <3> QED  BY Zenon, <1>2, <2>3, <3>4, <3>5, <3>6 DEF Identified
  <2> QED  BY Zenon, <2>6, <2>7, <2>8, <2>9 DEF Placements
<1> QED  BY Zenon, <1>3, <1>4, <1>5, <1>6, <1>7

(* The end of an upload adds the pending report to what was sent, where    *)
(* nothing can tell it from an earlier copy of itself.                     *)
LEMMA UploadStep ==
    ASSUME Placements, NEW arrives \in BOOLEAN, NEW accepted \in BOOLEAN, Upload(arrives, accepted)
    PROVE  Placements'
<1> USE DEF outside
<1> DEFINE new == [report |-> actor.pending, revision |-> actor.revision]
<1>1. /\ UNCHANGED <<preference, revisions, unseen, queue, reports>>
      /\ actor' \in ActorType /\ actor'.active = actor.active
      /\ actor'.pending \in {actor.pending, NoReport}
      /\ actor'.revision = actor.revision /\ actor'.at \in {"running", "stopped"}
  BY Zenon, TelemetryTypes, EmptyReport DEF Upload, ActorType
<1>2. Revisions /\ Placed /\ Identified /\ TelemetryTypeOK /\ actor.pending.id # 0
  BY Zenon DEF Placements, TelemetryInv, Upload, Identified
<1>3. CASE sent' = sent
  BY Zenon, <1>1, <1>2, <1>3, ActorOnly, EmptyReport DEF Revisions
<1>4. CASE sent' = sent \cup {new}
  <2>1. new.report = actor.pending /\ new.revision = actor.revision
        /\ new \in [report : Report, revision : 0 .. MaxRevision]
    BY Zenon, TelemetryTypes DEF ActorType
  <2> HIDE DEF new
  <2>2. TelemetryTypeOK'  BY Zenon, <1>1, <1>2, <1>4, <2>1 DEF TelemetryTypeOK, ActorType
  <2>3. Consistent'
    <3>1. Consistent  BY Zenon, InTermsOfRows DEF Placements
    <3>2. \A s \in sent' : s \in sent \/ s = new  BY Zenon, <1>4
    <3>3. \A r \in new.report.rows : new.revision \in {0, r.revision}  BY Zenon, <1>2, <2>1 DEF Revisions
    <3>4. \A s \in sent : s.report.id = new.report.id => s.report = new.report
      BY Zenon, <1>2, <2>1 DEF Identified
    <3>5. \A s \in sent : s.report.id # new.report.id =>
             \A r \in s.report.rows, p \in new.report.rows : r.event # p.event
      BY Zenon, <1>2, <2>1 DEF Identified
    <3>6. \A s \in sent' : \A r \in s.report.rows : s.revision \in {0, r.revision}
      BY Zenon, <3>1, <3>2, <3>3 DEF Consistent
    <3>7. \A s, t \in sent' : s.report.id = t.report.id => s.report = t.report
      BY Zenon, <3>1, <3>2, <3>4 DEF Consistent
    <3>8. \A s, t \in sent' : s.report.id # t.report.id =>
             \A r \in s.report.rows, p \in t.report.rows : r.event # p.event
      BY Zenon, <3>1, <3>2, <3>5 DEF Consistent
    <3> QED  BY Zenon, <3>6, <3>7, <3>8 DEF Consistent
  <2>4. TelemetryInv'  BY <2>2, <2>3, InTermsOfRows, PTL
  <2>5. Revisions'  BY Zenon, <1>1, <1>2, EmptyReport DEF Revisions
  <2>6. Placed'
    <3>1. \A r \in actor'.pending.rows : r \in actor.pending.rows  BY Zenon, <1>1, EmptyReport
    <3>2. \A s \in sent' : s \in sent \/ s.report.rows = actor.pending.rows  BY Zenon, <1>4, <2>1
    <3>3. \A s \in sent' : \A r \in s.report.rows :
             /\ r.event \notin unseen
             /\ \A i \in 1 .. Len(queue) : queue[i] # r.event
             /\ \A a \in actor.active : a.event # r.event
      BY Zenon, <1>2, <3>2 DEF Placed
    <3> QED  BY Zenon, <1>1, <1>2, <3>1, <3>3 DEF Placed
  <2>7. Identified'
    <3>1. reports \in Nat  BY Zenon, TelemetryTypes
    <3>2. \A s \in sent' : s \in sent \/ s = new  BY Zenon, <1>4
    <3>3. CASE actor'.pending = actor.pending
      BY Zenon, <1>1, <1>2, <2>1, <3>2, <3>3 DEF Identified
    <3>4. CASE actor'.pending = NoReport
      <4>1. 0 <= reports  BY <3>1
      <4> QED  BY Zenon, <1>1, <1>2, <2>1, <3>2, <3>4, <4>1, EmptyReport DEF Identified
    <3> QED  BY Zenon, <1>1, <3>3, <3>4
  <2> QED  BY Zenon, <2>4, <2>5, <2>6, <2>7 DEF Placements
<1> QED  BY Zenon, <1>3, <1>4 DEF Upload

-----------------------------------------------------------------------------
LEMMA NextPreserves == Placements /\ [TelemetryNext]_telemetryVars => Placements'
<1> SUFFICES ASSUME Placements, [TelemetryNext]_telemetryVars PROVE Placements'  BY Zenon
<1>1. CASE (\E enabled \in BOOLEAN : setEnabled(enabled)) \/ DeleteState  BY Zenon, <1>1, OutsideStep
<1>2. ASSUME NEW e \in Event, Observe(e) PROVE Placements'  BY Zenon, <1>2, ObserveStep
<1>3. CASE (\E debug \in BOOLEAN : startRuntime(debug)) \/ Crash  BY Zenon, <1>3, FreshStep
<1>4. CASE Receive  BY Zenon, <1>4, ReceiveStep
<1>5. ASSUME NEW readable \in BOOLEAN, Poll(readable) PROVE Placements'  BY Zenon, <1>5, PollStep
<1>6. ASSUME NEW readable \in BOOLEAN, flush(readable) PROVE Placements'  BY Zenon, <1>6, FlushStep
<1>7. ASSUME NEW arrives \in BOOLEAN, NEW accepted \in BOOLEAN, Upload(arrives, accepted)
      PROVE  Placements'
  BY Zenon, <1>7, UploadStep
<1>8. CASE Close  BY Zenon, <1>8, CloseStep
<1>9. CASE UNCHANGED telemetryVars
  <2>1. Revisions /\ Identified  BY Zenon DEF Placements
  <2> QED  BY Zenon, <1>9, <2>1, TelemetryTypes, ActorOnly DEF telemetryVars, Revisions, Identified
<1> QED  BY Zenon, <1>1, <1>2, <1>3, <1>4, <1>5, <1>6, <1>7, <1>8, <1>9 DEF TelemetryNext

(* For any events, any capacity of the channel and any number of changes   *)
(* of the opt-out document: rows leave only under the document they were   *)
(* collected under, a report sent again is the same report, and no event   *)
(* is in two reports.                                                      *)
THEOREM TelemetryCorrect == TelemetrySpec => []TelemetryInv
<1>1. TelemetryInit => Placements  BY Zenon, TelemetryStarts
<1>2. Placements /\ [TelemetryNext]_telemetryVars => Placements'  BY Zenon, NextPreserves
<1>3. Placements => TelemetryInv  BY Zenon DEF Placements
<1> QED  BY <1>1, <1>2, <1>3, PTL DEF TelemetrySpec
=============================================================================
