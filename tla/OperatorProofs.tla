--------------------------- MODULE OperatorProofs ---------------------------
(***************************************************************************)
(* What the operator's commands act on: the routing document they edit,    *)
(* the daemons they start and stop, and the logins the daemon manages for  *)
(* them.  For any workspaces, routes, targets, drafts and version width,   *)
(* any number of processes, commands and requests, and any login sessions  *)
(* and lifetimes.                                                          *)
(*                                                                         *)
(* VersionIdentifiesSettings is not inductive: whether a re-added target   *)
(* repeats a version depends on the ledger of versions.  LedgerCovers says *)
(* that this ledger of a living workspace bounds every version it ever     *)
(* published, and that a version equal to that of an active target was     *)
(* published with the settings the target has now.                         *)
(*                                                                         *)
(* ConfigExclusive is not inductive: nothing in it says that the handlers  *)
(* are done when the store is closed.  NoHandlerLeft adds it.              *)
(*                                                                         *)
(* CodeExchangedOnce is not inductive either: CodesTaken says that a code  *)
(* a session still holds was delivered and not exchanged.  SessionForms    *)
(* says what separates a terminal session from a pending one, and that a   *)
(* session nobody registered was never counted.                            *)
(***************************************************************************)
EXTENDS RoutingConfig, DaemonLifecycle, ChatGPTLogin, FiniteSetTheorems, TLAPS

-----------------------------------------------------------------------------
(* The routing document.                                                   *)

(* Two living workspaces are two lives, and no life is in the future.      *)
LivesDistinct ==
    /\ \A ws \in Slug : config[ws].life <= lives
    /\ \A e \in issued : e.life <= lives
    /\ \A ws, vs \in Slug :
          exists(config[ws]) /\ config[ws].life = config[vs].life => ws = vs

(* An absent slot is NoTarget, an active one has settings, and a workspace *)
(* that does not exist is NoWorkspace.                                     *)
WellFormed ==
    \A ws \in Slug :
       /\ ~ exists(config[ws]) => config[ws] = NoWorkspace
       /\ \A r \in Route, t \in Target :
             config[ws].routes[r][t] = NoTarget
                \/ config[ws].routes[r][t] \in [version : 1 .. MaxVersion, settings : Settings]

LedgerCovers ==
    \A ws \in Slug, e \in issued :
       exists(config[ws]) /\ e.life = config[ws].life =>
          /\ e.version <= config[ws].generations[e.target]
          /\ \A r \in Route :
                config[ws].routes[r][e.target].version = e.version
                   => config[ws].routes[r][e.target].settings = e.settings

RoutingIInv == VersionIdentifiesSettings /\ LivesDistinct /\ WellFormed /\ LedgerCovers

-----------------------------------------------------------------------------
WorkspaceType ==
    [default : Route \cup {Refused}, routes : [Route -> [Target -> Slot]],
     generations : [Target -> Version], life : 0 .. MaxLives]

SlotsFormed(w) ==
    \A r \in Route, t \in Target :
       w.routes[r][t] = NoTarget \/ w.routes[r][t] \in [version : 1 .. MaxVersion, settings : Settings]

(* What every edit of a workspace w0 has in common: no generation falls,   *)
(* and a target is one that w0 had or has a version above all of its id.   *)
Extends(w0, w) ==
    /\ \A t \in Target : w0.generations[t] <= w.generations[t]
    /\ \A r \in Route, t \in Target :
          w.routes[r][t].version > 0 =>
             \/ \E q \in Route : w0.routes[q][t] = w.routes[r][t]
             \/ w.routes[r][t].version > w0.generations[t]

(* The entry publish records for a target.                                 *)
entry(w, r, t) ==
    [life |-> w.life, target |-> t, version |-> w.routes[r][t].version,
     settings |-> w.routes[r][t].settings]

(* publish records the targets of the workspace it publishes, no others.   *)
LEMMA PublishRecords ==
    ASSUME NEW ws \in Slug, NEW w, publish(ws, w), NEW e \in issued'
    PROVE  \/ e \in issued
           \/ \E r \in Route, t \in Target : w.routes[r][t].version > 0 /\ e = entry(w, r, t)
<1>1. CASE e \in issued
  BY Zenon, <1>1
<1>2. CASE e \notin issued
  <2>1. PICK p \in {q \in Route \X Target : w.routes[q[1]][q[2]].version > 0} :
             e = entry(w, p[1], p[2])
    BY Zenon, <1>2 DEF publish, entry
  <2>2. p[1] \in Route /\ p[2] \in Target /\ w.routes[p[1]][p[2]].version > 0
    BY Zenon, <2>1
  <2> QED
    BY Zenon, <2>1, <2>2
<1> QED
  BY Zenon, <1>1, <1>2

(* A recorded target has the type of the history.                          *)
LEMMA EntryTyped ==
    ASSUME NEW w \in WorkspaceType, SlotsFormed(w), w.life > 0,
           NEW r \in Route, NEW t \in Target, w.routes[r][t].version > 0
    PROVE  entry(w, r, t) \in [life : 1 .. MaxLives, target : Target,
                               version : 1 .. MaxVersion, settings : Settings]
<1>1. w.routes[r][t] \in [version : 1 .. MaxVersion, settings : Settings]
  BY DEF SlotsFormed, NoTarget
<1>2. w.life \in 1 .. MaxLives
  BY VersionAssumption DEF WorkspaceType
<1> QED
  BY Zenon, <1>1, <1>2 DEF entry

(* Publishing a valid workspace keeps the invariant when it extends what   *)
(* was there, or when nothing was there and its life is new.               *)
LEMMA PublishPreserves ==
    ASSUME RoutingIInv, NEW ws \in Slug, NEW w \in WorkspaceType,
           SlotsFormed(w), validate(w), publish(ws, w),
           \/ exists(config[ws]) /\ w.life = config[ws].life /\ Extends(config[ws], w) /\ lives' = lives
           \/ ~ exists(config[ws]) /\ w.life = lives + 1 /\ lives' = lives + 1
    PROVE  RoutingIInv'
<1> DEFINE Entry == [life : 1 .. MaxLives, target : Target,
                     version : 1 .. MaxVersion, settings : Settings]
<1>t. /\ config \in [Slug -> WorkspaceType]
      /\ lives \in 0 .. MaxLives
      /\ issued \subseteq Entry
  BY Zenon DEF RoutingIInv, VersionIdentifiesSettings, RoutingTypeOK, WorkspaceType
<1>n. /\ lives \in Nat /\ MaxLives \in Nat /\ MaxVersion \in Nat
      /\ \A v \in Slug : config[v].life \in Nat
      /\ w.life \in Nat
  BY <1>t, VersionAssumption DEF WorkspaceType
<1>l. w.life > 0 /\ lives' \in 0 .. MaxLives /\ lives <= lives' /\ w.life <= lives'
  <2>1. CASE w.life = config[ws].life /\ exists(config[ws]) /\ lives' = lives
    BY <2>1, <1>n, <1>t DEF exists, RoutingIInv, LivesDistinct
  <2>2. CASE w.life = lives + 1 /\ lives' = lives + 1
    <3>1. w.life \in 0 .. MaxLives
      BY Zenon DEF WorkspaceType
    <3> QED
      BY <2>2, <3>1, <1>n
  <2> QED
    BY Zenon, <2>1, <2>2
<1>c. /\ config' = [config EXCEPT ![ws] = w]
      /\ config'[ws] = w
      /\ \A v \in Slug : v # ws => config'[v] = config[v]
  BY Zenon, <1>t DEF publish
<1>e. \A e \in issued' :
         \/ e \in issued
         \/ \E r \in Route, t \in Target : w.routes[r][t].version > 0 /\ e = entry(w, r, t)
  BY Zenon, PublishRecords
<1>y. RoutingTypeOK'
  <2>1. config' \in [Slug -> WorkspaceType]
    BY Zenon, <1>t, <1>c
  <2>2. issued' \subseteq Entry
    BY <1>t, <1>e, <1>l, EntryTyped
  <2> QED
    BY Zenon, <2>1, <2>2, <1>l DEF RoutingTypeOK, WorkspaceType
<1>d. LivesDistinct'
  <2>1. \A v \in Slug : config'[v].life <= lives'
    BY <1>c, <1>l, <1>n DEF RoutingIInv, LivesDistinct
  <2>2. \A e \in issued' : e.life <= lives'
    <3>1. \A e \in issued : e.life <= lives'
      BY <1>l, <1>n, <1>t DEF RoutingIInv, LivesDistinct
    <3>2. \A r \in Route, t \in Target : entry(w, r, t).life <= lives'
      BY Zenon, <1>l DEF entry
    <3> QED
      BY Zenon, <3>1, <3>2, <1>e
  <2>3. ASSUME NEW v \in Slug, NEW u \in Slug,
               exists(config'[v]), config'[v].life = config'[u].life
        PROVE  v = u
    <3>1. \A x \in Slug : x # ws => config[x].life # w.life
      <4>1. CASE w.life = lives + 1
        BY <4>1, <1>n DEF RoutingIInv, LivesDistinct
      <4>2. CASE w.life = config[ws].life /\ exists(config[ws])
        BY Zenon, <4>2 DEF RoutingIInv, LivesDistinct
      <4> QED
        BY Zenon, <4>1, <4>2
    <3>2. CASE v = ws \/ u = ws
      BY Zenon, <3>1, <3>2, <2>3, <1>c
    <3>3. CASE v # ws /\ u # ws
      BY Zenon, <3>3, <2>3, <1>c DEF RoutingIInv, LivesDistinct
    <3> QED
      BY Zenon, <3>2, <3>3
  <2> QED
    BY Zenon, <2>1, <2>2, <2>3 DEF LivesDistinct
<1>w. WellFormed'
  <2> SUFFICES ASSUME NEW v \in Slug
               PROVE  /\ ~ exists(config'[v]) => config'[v] = NoWorkspace
                      /\ SlotsFormed(config'[v])
    BY Zenon DEF WellFormed, SlotsFormed, exists
  <2>1. CASE v = ws
    BY Zenon, <2>1, <1>c, <1>l DEF exists
  <2>2. CASE v # ws
    BY Zenon, <2>2, <1>c DEF RoutingIInv, WellFormed, SlotsFormed
  <2> QED
    BY Zenon, <2>1, <2>2
<1>v. \A v \in Slug : exists(config'[v]) => validate(config'[v])
  BY Zenon, <1>c DEF RoutingIInv, VersionIdentifiesSettings
<1>o. ASSUME NEW e \in issued, e.life = w.life
      PROVE  /\ e.version <= w.generations[e.target]
             /\ \A r \in Route : w.routes[r][e.target].version = e.version
                                   => w.routes[r][e.target].settings = e.settings
  <2>1. exists(config[ws]) /\ w.life = config[ws].life /\ Extends(config[ws], w)
    <3>1. e.life <= lives
      BY Zenon DEF RoutingIInv, LivesDistinct
    <3>2. w.life # lives + 1
      BY <3>1, <1>o, <1>n
    <3> QED
      BY Zenon, <3>2
  <2>2. /\ e.version <= config[ws].generations[e.target]
        /\ \A q \in Route : config[ws].routes[q][e.target].version = e.version
                              => config[ws].routes[q][e.target].settings = e.settings
    BY Zenon, <2>1, <1>o DEF RoutingIInv, LedgerCovers
  <2>3. e.target \in Target /\ e.version \in 1 .. MaxVersion
    BY Zenon, <1>t
  <2>4. config[ws].generations[e.target] \in Nat /\ w.generations[e.target] \in Nat
    BY <1>t, <1>n, <2>3 DEF WorkspaceType, Version
  <2>5. config[ws].generations[e.target] <= w.generations[e.target]
    BY Zenon, <2>1, <2>3 DEF Extends
  <2>6. ASSUME NEW r \in Route, w.routes[r][e.target].version = e.version
        PROVE  w.routes[r][e.target].settings = e.settings
    <3>1. \/ \E q \in Route : config[ws].routes[q][e.target] = w.routes[r][e.target]
          \/ w.routes[r][e.target].version > config[ws].generations[e.target]
      BY <2>1, <2>3, <2>6, <1>n DEF Extends
    <3> QED
      BY <3>1, <2>2, <2>3, <2>4, <2>6, <1>n
  <2> QED
    BY <2>2, <2>3, <2>4, <2>5, <2>6, <1>n
<1>a. ASSUME NEW r \in Route, NEW t \in Target, w.routes[r][t].version > 0
      PROVE  /\ w.generations[t] = w.routes[r][t].version
             /\ \A q \in Route : w.routes[q][t].version > 0 => q = r
  BY Zenon, <1>a DEF validate
<1>i. ASSUME NEW e \in issued', NEW f \in issued',
             e.life = f.life, e.target = f.target, e.version = f.version
      PROVE  e.settings = f.settings
  <2>1. CASE e \in issued /\ f \in issued
    BY Zenon, <2>1, <1>i DEF RoutingIInv, VersionIdentifiesSettings
  <2>2. ASSUME NEW x \in issued, NEW r \in Route, NEW t \in Target,
               w.routes[r][t].version > 0, x.life = entry(w, r, t).life,
               x.target = entry(w, r, t).target, x.version = entry(w, r, t).version
        PROVE  x.settings = entry(w, r, t).settings
    BY <2>2, <1>o DEF entry
  <2>3. ASSUME NEW r \in Route, NEW t \in Target, NEW q \in Route, NEW u \in Target,
               w.routes[r][t].version > 0, w.routes[q][u].version > 0,
               entry(w, r, t).target = entry(w, q, u).target
        PROVE  entry(w, r, t).settings = entry(w, q, u).settings
    BY Zenon, <2>3, <1>a DEF entry
  <2> QED
    BY <2>1, <2>2, <2>3, <1>e, <1>i
<1>g. LedgerCovers'
  <2> SUFFICES ASSUME NEW v \in Slug, NEW e \in issued',
                      exists(config'[v]), e.life = config'[v].life
               PROVE  /\ e.version <= config'[v].generations[e.target]
                      /\ \A r \in Route :
                            config'[v].routes[r][e.target].version = e.version
                               => config'[v].routes[r][e.target].settings = e.settings
    BY Zenon DEF LedgerCovers
  <2>1. CASE v = ws /\ e \in issued
    BY <2>1, <1>c, <1>o
  <2>2. CASE v = ws /\ e \notin issued
    <3>1. PICK r \in Route, t \in Target : w.routes[r][t].version > 0 /\ e = entry(w, r, t)
      BY Zenon, <2>2, <1>e
    <3>2. e.target = t /\ e.version = w.routes[r][t].version /\ e.settings = w.routes[r][t].settings
      BY Zenon, <3>1 DEF entry
    <3>3. w.generations[t] \in Nat
      BY <1>n DEF WorkspaceType, Version
    <3>4. \A q \in Route : w.routes[q][t].version > 0 => q = r
      BY Zenon, <3>1, <1>a
    <3>5. config'[v] = w
      BY Zenon, <1>c, <2>2
    <3>6. w.generations[t] = e.version
      BY Zenon, <1>a, <3>1, <3>2
    <3>7. ASSUME NEW q \in Route, w.routes[q][t].version = e.version
          PROVE  w.routes[q][t].settings = e.settings
      <4>1. w.routes[q][t].version > 0
        BY Zenon, <3>1, <3>2, <3>7
      <4> QED
        BY Zenon, <3>2, <3>4, <4>1
    <3>8. e.version <= w.generations[t]
      BY ONLY <3>3, <3>6
    <3> QED
      BY Zenon, <3>2, <3>5, <3>7, <3>8
  <2>3. CASE v # ws
    <3>1. config'[v] = config[v]
      BY Zenon, <2>3, <1>c
    <3>2. e \in issued
      <4>1. config[v].life # w.life
        BY Zenon, <2>3, <1>c, <1>d, <3>1 DEF LivesDistinct
      <4>2. \A r \in Route, t \in Target : entry(w, r, t).life = w.life
        BY Zenon DEF entry
      <4> QED
        BY Zenon, <4>1, <4>2, <1>e, <3>1
    <3> QED
      BY Zenon, <3>1, <3>2 DEF RoutingIInv, LedgerCovers
  <2> QED
    BY Zenon, <2>1, <2>2, <2>3
<1> QED
  BY Zenon, <1>y, <1>v, <1>i, <1>d, <1>w, <1>g DEF RoutingIInv, VersionIdentifiesSettings

-----------------------------------------------------------------------------
(* The steps.  Each edit of an existing workspace is shown to extend it.   *)

(* Facts every step uses about a workspace of a state with the invariant.  *)
LEMMA WorkspaceFacts ==
    ASSUME RoutingIInv, NEW ws \in Slug
    PROVE  /\ config[ws] \in WorkspaceType
           /\ SlotsFormed(config[ws])
           /\ ~ exists(config[ws]) => config[ws] = NoWorkspace
           /\ exists(config[ws]) => validate(config[ws])
           /\ config \in [Slug -> WorkspaceType]
<1>1. config \in [Slug -> WorkspaceType]
  BY Zenon DEF RoutingIInv, VersionIdentifiesSettings, RoutingTypeOK, WorkspaceType
<1>2. exists(config[ws]) => validate(config[ws])
  BY Zenon DEF RoutingIInv, VersionIdentifiesSettings
<1> QED
  BY Zenon, <1>1, <1>2 DEF RoutingIInv, WellFormed, SlotsFormed

LEMMA EditPreserves ==
    ASSUME RoutingIInv, NEW ws \in Slug, NEW w \in WorkspaceType,
           SlotsFormed(w), w.life = config[ws].life, Extends(config[ws], w),
           editWorkspace(ws, w)
    PROVE  RoutingIInv'
BY Zenon, PublishPreserves DEF editWorkspace

(* Routes that only move or go, with the ledger kept: what RenameRoute,    *)
(* SetDefaultRoute and DeleteRoute do.                                     *)
LEMMA MovePreserves ==
    ASSUME RoutingIInv, NEW ws \in Slug, NEW w \in WorkspaceType, editWorkspace(ws, w),
           w.life = config[ws].life, w.generations = config[ws].generations,
           \A r \in Route : w.routes[r] = NoRoute \/ \E q \in Route : w.routes[r] = config[ws].routes[q]
    PROVE  RoutingIInv'
<1>1. config[ws] \in WorkspaceType /\ SlotsFormed(config[ws])
  BY Zenon, WorkspaceFacts
<1>3. \A r \in Route, t \in Target :
         w.routes[r][t] = NoTarget \/ \E q \in Route : w.routes[r][t] = config[ws].routes[q][t]
  BY DEF NoRoute
<1>4. SlotsFormed(w)
  BY <1>1, <1>3 DEF SlotsFormed
<1>5. Extends(config[ws], w)
  <2>1. \A t \in Target : config[ws].generations[t] <= w.generations[t]
    BY <1>1, VersionAssumption DEF WorkspaceType, Version
  <2>2. NoTarget.version = 0
    BY Zenon DEF NoTarget
  <2> QED
    BY <1>3, <2>1, <2>2 DEF Extends
<1> QED
  BY Zenon, <1>4, <1>5, EditPreserves

LEMMA RenameRouteStep ==
    ASSUME RoutingIInv, NEW ws \in Slug, NEW from \in Route, NEW to \in Route,
           RenameRoute(ws, from, to)
    PROVE  RoutingIInv'
<1> DEFINE w0 == config[ws]
           routes == [[w0.routes EXCEPT ![from] = NoRoute] EXCEPT ![to] = w0.routes[from]]
           default == IF w0.default = from THEN to ELSE w0.default
           w == [w0 EXCEPT !.routes = routes, !.default = default]
<1>1. w0 \in WorkspaceType /\ (exists(w0) => validate(w0))
  BY Zenon, WorkspaceFacts
<1>2. NoRoute \in [Target -> Slot]
  BY VersionAssumption DEF NoRoute, NoTarget, Slot, Version
<1>3. editWorkspace(ws, w)
  BY Zenon DEF RenameRoute
<1>4. routes \in [Route -> [Target -> Slot]]
  BY Zenon, <1>1, <1>2 DEF WorkspaceType
<1>5. default \in Route
  BY Zenon, <1>1, <1>3 DEF validate, routesOf, editWorkspace
<1>6. \A r \in Route : routes[r] = NoRoute \/ \E q \in Route : routes[r] = w0.routes[q]
  BY Zenon, <1>1 DEF WorkspaceType
<1>7. /\ w \in WorkspaceType /\ w.life = w0.life
      /\ w.routes = routes /\ w.generations = w0.generations
  BY Zenon, <1>1, <1>4, <1>5 DEF WorkspaceType
<1> HIDE DEF routes, w
<1> QED
  BY <1>3, <1>6, <1>7, MovePreserves

LEMMA SetDefaultRouteStep ==
    ASSUME RoutingIInv, NEW ws \in Slug, NEW r \in Route, SetDefaultRoute(ws, r)
    PROVE  RoutingIInv'
<1> DEFINE w0 == config[ws]
           w == [w0 EXCEPT !.default = r]
<1>1. w0 \in WorkspaceType
  BY Zenon, WorkspaceFacts
<1>2. editWorkspace(ws, w)
  BY Zenon DEF SetDefaultRoute
<1>3. /\ w \in WorkspaceType /\ w.life = w0.life
      /\ w.routes = w0.routes /\ w.generations = w0.generations
  BY Zenon, <1>1 DEF WorkspaceType
<1> HIDE DEF w
<1> QED
  BY Zenon, <1>2, <1>3, MovePreserves

LEMMA DeleteRouteStep ==
    ASSUME RoutingIInv, NEW ws \in Slug, NEW r \in Route, NEW replacement \in Route,
           DeleteRoute(ws, r, replacement)
    PROVE  RoutingIInv'
<1> DEFINE w0 == config[ws]
           routes == [w0.routes EXCEPT ![r] = NoRoute]
           default == IF w0.default = r THEN replacement ELSE w0.default
           w == [w0 EXCEPT !.routes = routes, !.default = default]
<1>1. w0 \in WorkspaceType /\ (exists(w0) => validate(w0))
  BY Zenon, WorkspaceFacts
<1>2. NoRoute \in [Target -> Slot]
  BY VersionAssumption DEF NoRoute, NoTarget, Slot, Version
<1>3. editWorkspace(ws, w)
  BY Zenon DEF DeleteRoute
<1>4. routes \in [Route -> [Target -> Slot]]
  BY Zenon, <1>1, <1>2 DEF WorkspaceType
<1>5. default \in Route
  BY Zenon, <1>1, <1>3 DEF validate, routesOf, editWorkspace
<1>6. \A q \in Route : routes[q] = NoRoute \/ \E p \in Route : routes[q] = w0.routes[p]
  BY Zenon, <1>1 DEF WorkspaceType
<1>7. /\ w \in WorkspaceType /\ w.life = w0.life
      /\ w.routes = routes /\ w.generations = w0.generations
  BY Zenon, <1>1, <1>4, <1>5 DEF WorkspaceType
<1> HIDE DEF routes, w
<1> QED
  BY <1>3, <1>6, <1>7, MovePreserves

(* A target finalized from an accepted draft has a version one past its    *)
(* own or its highest, or is the target that was there.                    *)
LEMMA TargetFromSpecFacts ==
    ASSUME NEW highest \in Version, NEW s \in Settings, NEW current,
           \/ current = NoTarget
           \/ current \in [version : 1 .. MaxVersion, settings : Settings] /\ current.version = highest,
           targetFromSpec(current, highest, s).version <= MaxVersion
    PROVE  LET slot == targetFromSpec(current, highest, s)
           IN /\ slot \in [version : 1 .. MaxVersion, settings : Settings]
              /\ slot = current \/ slot.version > highest
              /\ slot.version >= highest
<1> DEFINE slot == targetFromSpec(current, highest, s)
<1>n. highest \in Nat /\ MaxVersion \in Nat
  BY VersionAssumption DEF Version
<1>1. CASE current = NoTarget
  <2>1. slot = [version |-> highest + 1, settings |-> s]
    BY Zenon, <1>1 DEF targetFromSpec
  <2> QED
    BY <1>n, <2>1
<1>2. CASE current # NoTarget /\ current.settings = s
  <2>1. slot = [version |-> current.version, settings |-> s]
    BY Zenon, <1>2 DEF targetFromSpec
  <2>2. current \in [version : 1 .. MaxVersion, settings : Settings] /\ current.version = highest
    BY Zenon, <1>2
  <2>3. slot = current
    BY Zenon, <1>2, <2>1, <2>2
  <2> QED
    BY <1>n, <2>2, <2>3
<1>3. CASE current # NoTarget /\ current.settings # s
  <2>1. slot = [version |-> current.version + 1, settings |-> s]
    BY Zenon, <1>3 DEF targetFromSpec
  <2>2. current.version = highest
    BY Zenon, <1>3
  <2> QED
    BY <1>n, <2>1, <2>2
<1> QED
  BY Zenon, <1>1, <1>2, <1>3

LEMMA CreateRouteStep ==
    ASSUME RoutingIInv, NEW ws \in Slug, NEW r \in Route, NEW t \in Target, NEW d \in Draft,
           CreateRoute(ws, r, t, d)
    PROVE  RoutingIInv'
<1> DEFINE w0 == config[ws]
           slot == targetFromSpec(NoTarget, w0.generations[t], Finalize[d])
           routes == [w0.routes EXCEPT ![r][t] = slot]
           generations == [w0.generations EXCEPT ![t] = slot.version]
           w == [w0 EXCEPT !.routes = routes, !.generations = generations]
<1>1. w0 \in WorkspaceType /\ SlotsFormed(w0)
  BY Zenon, WorkspaceFacts
<1>2. Finalize[d] \in Settings /\ slot.version <= MaxVersion /\ editWorkspace(ws, w)
  BY Zenon, RoundTrip DEF CreateRoute
<1>3. /\ w0.routes \in [Route -> [Target -> Slot]]
      /\ w0.generations \in [Target -> Version]
  BY Zenon, <1>1 DEF WorkspaceType
<1>4. /\ slot \in [version : 1 .. MaxVersion, settings : Settings]
      /\ slot = NoTarget \/ slot.version > w0.generations[t]
      /\ slot.version >= w0.generations[t]
  BY Zenon, <1>2, <1>3, TargetFromSpecFacts
<1>5. slot \in Slot /\ slot.version \in Version /\ slot.version > w0.generations[t]
  <2>1. NoTarget.version = 0
    BY Zenon DEF NoTarget
  <2> QED
    BY <1>4, <2>1, VersionAssumption DEF Slot, Version
<1> HIDE DEF slot
<1>6. routes \in [Route -> [Target -> Slot]] /\ generations \in [Target -> Version]
  BY Zenon, <1>3, <1>5
<1>7. /\ w \in WorkspaceType /\ w.life = w0.life
      /\ w.routes = routes /\ w.generations = generations
  BY Zenon, <1>1, <1>6 DEF WorkspaceType
<1>8. \A q \in Route, u \in Target :
         routes[q][u] = IF q = r /\ u = t THEN slot ELSE w0.routes[q][u]
  BY Zenon, <1>3
<1>9. SlotsFormed(w)
  BY <1>1, <1>4, <1>7, <1>8 DEF SlotsFormed
<1>10. Extends(w0, w)
  <2>1. \A u \in Target : w0.generations[u] <= generations[u]
    BY <1>3, <1>5, VersionAssumption DEF Version
  <2> QED
    BY <2>1, <1>5, <1>7, <1>8 DEF Extends
<1> HIDE DEF w
<1> QED
  BY Zenon, <1>2, <1>7, <1>9, <1>10, EditPreserves

LEMMA ApplyRouteSpecStep ==
    ASSUME RoutingIInv, NEW ws \in Slug, NEW r \in Route, NEW spec \in RouteSpec,
           ApplyRouteSpec(ws, r, spec)
    PROVE  RoutingIInv'
<1> DEFINE w0 == config[ws]
           ids == DOMAIN spec
           slots == [t \in Target |->
                       IF t \in ids
                       THEN targetFromSpec(w0.routes[r][t], w0.generations[t], Finalize[spec[t]])
                       ELSE NoTarget]
           routes == [w0.routes EXCEPT ![r] = slots]
           generations == [t \in Target |-> IF t \in ids THEN slots[t].version ELSE w0.generations[t]]
           w == [w0 EXCEPT !.routes = routes, !.generations = generations]
<1>1. /\ w0 \in WorkspaceType /\ SlotsFormed(w0)
      /\ exists(w0) => validate(w0)
  BY Zenon, WorkspaceFacts
<1>2. ids \subseteq Target /\ \A t \in ids : spec[t] \in Draft
  BY Zenon DEF RouteSpec
<1>3. /\ \A t \in ids : Finalize[spec[t]] \in Settings /\ slots[t].version <= MaxVersion
      /\ editWorkspace(ws, w)
  BY Zenon, <1>2, RoundTrip DEF ApplyRouteSpec
<1>4. /\ w0.routes \in [Route -> [Target -> Slot]]
      /\ w0.generations \in [Target -> Version]
  BY Zenon, <1>1 DEF WorkspaceType
<1>5. \A t \in ids :
         /\ slots[t] \in [version : 1 .. MaxVersion, settings : Settings]
         /\ slots[t] = w0.routes[r][t] \/ slots[t].version > w0.generations[t]
         /\ slots[t].version >= w0.generations[t]
  <2> SUFFICES ASSUME NEW t \in ids
               PROVE  /\ slots[t] \in [version : 1 .. MaxVersion, settings : Settings]
                      /\ slots[t] = w0.routes[r][t] \/ slots[t].version > w0.generations[t]
                      /\ slots[t].version >= w0.generations[t]
    BY Zenon
  <2>1. t \in Target /\ Finalize[spec[t]] \in Settings /\ w0.generations[t] \in Version
    BY Zenon, <1>2, <1>3, <1>4
  <2>2. slots[t] = targetFromSpec(w0.routes[r][t], w0.generations[t], Finalize[spec[t]])
    BY Zenon, <2>1
  <2>3. \/ w0.routes[r][t] = NoTarget
        \/ /\ w0.routes[r][t] \in [version : 1 .. MaxVersion, settings : Settings]
           /\ w0.routes[r][t].version = w0.generations[t]
    <3>1. exists(w0)
      BY Zenon, <1>3 DEF editWorkspace
    <3>2. w0.routes[r][t] = NoTarget
             \/ w0.routes[r][t] \in [version : 1 .. MaxVersion, settings : Settings]
      BY Zenon, <1>1, <2>1 DEF SlotsFormed
    <3> QED
      BY <1>1, <2>1, <3>1, <3>2, VersionAssumption DEF validate
  <2>4. targetFromSpec(w0.routes[r][t], w0.generations[t], Finalize[spec[t]]).version <= MaxVersion
    BY Zenon, <1>3, <2>2
  <2> HIDE DEF slots, w0
  <2> QED
    BY <2>1, <2>2, <2>3, <2>4, TargetFromSpecFacts
<1>6. \A t \in Target : t \notin ids => slots[t] = NoTarget
  BY Zenon
<1>7. slots \in [Target -> Slot] /\ \A t \in Target : slots[t] \in Slot
  <2>1. NoTarget \in Slot
    BY VersionAssumption DEF NoTarget, Slot, Version
  <2>2. \A x \in [version : 1 .. MaxVersion, settings : Settings] : x \in Slot
    BY VersionAssumption DEF Slot, Version
  <2>3. slots = [t \in Target |-> slots[t]]
    BY Zenon
  <2> HIDE DEF slots
  <2> QED
    BY Zenon, <1>5, <1>6, <2>1, <2>2, <2>3
<1> HIDE DEF slots, ids
<1>8. routes \in [Route -> [Target -> Slot]] /\ generations \in [Target -> Version]
  BY Zenon, <1>4, <1>7 DEF Slot
<1>9. /\ w \in WorkspaceType /\ w.life = w0.life
      /\ w.routes = routes /\ w.generations = generations
  BY Zenon, <1>1, <1>8 DEF WorkspaceType
<1>10. \A q \in Route : routes[q] = IF q = r THEN slots ELSE w0.routes[q]
  BY Zenon, <1>4
<1>11. SlotsFormed(w)
  BY <1>1, <1>5, <1>6, <1>9, <1>10 DEF SlotsFormed
<1>12. Extends(w0, w)
  <2>1. \A t \in Target : w0.generations[t] <= generations[t]
    BY <1>4, <1>5, VersionAssumption DEF Version
  <2>2. NoTarget.version = 0
    BY Zenon DEF NoTarget
  <2>3. \A q \in Route, t \in Target :
           routes[q][t].version > 0 =>
              \/ \E p \in Route : w0.routes[p][t] = routes[q][t]
              \/ routes[q][t].version > w0.generations[t]
    BY <1>5, <1>6, <1>10, <2>2
  <2> QED
    BY <2>1, <2>3, <1>9 DEF Extends
<1> HIDE DEF w
<1> QED
  BY Zenon, <1>3, <1>9, <1>11, <1>12, EditPreserves

LEMMA CreateWorkspaceStep ==
    ASSUME RoutingIInv, NEW ws \in Slug, NEW r \in Route, NEW t \in Target, NEW d \in Draft,
           CreateWorkspace(ws, r, t, d)
    PROVE  RoutingIInv'
<1> DEFINE none == [q \in Route |-> NoRoute]
           slot == targetFromSpec(NoTarget, 0, Finalize[d])
           routes == [none EXCEPT ![r][t] = slot]
           generations == [[u \in Target |-> 0] EXCEPT ![t] = 1]
           w == [default |-> r, routes |-> routes, generations |-> generations, life |-> lives + 1]
<1>1. lives \in 0 .. MaxLives
  BY Zenon DEF RoutingIInv, VersionIdentifiesSettings, RoutingTypeOK
<1>2. /\ ~ exists(config[ws]) /\ lives < MaxLives /\ lives' = lives + 1
      /\ publish(ws, w) /\ Finalize[d] \in Settings
  BY Zenon, RoundTrip DEF CreateWorkspace, NoWorkspace
<1>3. slot = [version |-> 1, settings |-> Finalize[d]]
  BY DEF targetFromSpec
<1>4. slot \in [version : 1 .. MaxVersion, settings : Settings] /\ slot \in Slot
  BY <1>2, <1>3, VersionAssumption DEF Slot, Version
<1>5. none \in [Route -> [Target -> Slot]]
  BY VersionAssumption DEF NoRoute, NoTarget, Slot, Version
<1>6. \A q \in Route, u \in Target :
         routes[q][u] = IF q = r /\ u = t THEN slot ELSE NoTarget
  BY Zenon, <1>5 DEF NoRoute
<1>7. routes \in [Route -> [Target -> Slot]]
  BY Zenon, <1>4, <1>5
<1>8. generations \in [Target -> Version] /\ generations[t] = 1
  BY VersionAssumption DEF Version
<1>9. lives + 1 \in 0 .. MaxLives
  BY <1>1, <1>2, VersionAssumption
<1>10. slot.version = 1 /\ NoTarget.version = 0 /\ slot # NoTarget
  BY <1>3 DEF NoTarget
<1> HIDE DEF routes, generations, slot
<1>11. w \in WorkspaceType
  BY Zenon, <1>7, <1>8, <1>9 DEF WorkspaceType
<1>12. SlotsFormed(w)
  BY Zenon, <1>4, <1>6 DEF SlotsFormed
<1>13. validate(w)
  <2>1. routes[r] # NoRoute
    BY Zenon, <1>6, <1>10 DEF NoRoute
  <2>2. \A q \in Route, u \in Target : routes[q][u].version > 0 => q = r /\ u = t
    BY <1>6, <1>10
  <2>3. routes[r][t].version = 1
    BY Zenon, <1>6, <1>10
  <2> QED
    BY Zenon, <2>1, <2>2, <2>3, <1>8 DEF validate, routesOf
<1>14. w.life = lives + 1
  BY Zenon
<1> HIDE DEF w
<1> QED
  BY Zenon, <1>2, <1>11, <1>12, <1>13, <1>14, PublishPreserves

(* NoWorkspace has the type of a workspace and no targets.                 *)
LEMMA NoWorkspaceFacts ==
    NoWorkspace \in WorkspaceType /\ SlotsFormed(NoWorkspace) /\ ~ exists(NoWorkspace)
BY VersionAssumption
   DEF NoWorkspace, WorkspaceType, SlotsFormed, NoRoute, NoTarget, Slot, Version, exists

(* Workspaces that are taken away or put under a free slug publish nothing *)
(* new.                                                                    *)
LEMMA RelabelPreserves ==
    ASSUME RoutingIInv, UNCHANGED <<lives, issued>>, config' \in [Slug -> WorkspaceType],
           NEW was \in [Slug -> Slug],
           \A v \in Slug : config'[v] = NoWorkspace \/ config'[v] = config[was[v]],
           \A v, u \in Slug : exists(config'[v]) /\ exists(config'[u]) /\ was[v] = was[u] => v = u
    PROVE  RoutingIInv'
<1>n. /\ lives \in Nat /\ \A v \in Slug : config[v].life \in Nat /\ config'[v].life \in Nat
  BY VersionAssumption DEF RoutingIInv, VersionIdentifiesSettings, RoutingTypeOK, WorkspaceType
<1>1. \A v \in Slug : exists(config'[v]) => config'[v] = config[was[v]]
  BY Zenon, NoWorkspaceFacts
<1>2. VersionIdentifiesSettings'
  <2>1. RoutingTypeOK'
    BY Zenon DEF RoutingIInv, VersionIdentifiesSettings, RoutingTypeOK, WorkspaceType
  <2>2. \A v \in Slug : exists(config'[v]) => validate(config'[v])
    BY Zenon, <1>1 DEF RoutingIInv, VersionIdentifiesSettings
  <2> QED
    BY Zenon, <2>1, <2>2 DEF RoutingIInv, VersionIdentifiesSettings
<1>3. LivesDistinct'
  <2>1. \A v \in Slug : config'[v].life <= lives
    <3>1. NoWorkspace.life = 0
      BY Zenon DEF NoWorkspace
    <3> QED
      BY <3>1, <1>n DEF RoutingIInv, LivesDistinct
  <2>2. ASSUME NEW v \in Slug, NEW u \in Slug,
               exists(config'[v]), config'[v].life = config'[u].life
        PROVE  v = u
    <3>1. exists(config'[u])
      BY Zenon, <2>2 DEF exists
    <3>2. config'[v] = config[was[v]] /\ config'[u] = config[was[u]]
      BY Zenon, <1>1, <2>2, <3>1
    <3>3. was[v] = was[u]
      BY <2>2, <3>2 DEF RoutingIInv, LivesDistinct, exists
    <3> QED
      BY Zenon, <2>2, <3>1, <3>3
  <2> QED
    BY Zenon, <2>1, <2>2 DEF RoutingIInv, LivesDistinct
<1>4. WellFormed'
  <2> SUFFICES ASSUME NEW v \in Slug
               PROVE  /\ ~ exists(config'[v]) => config'[v] = NoWorkspace
                      /\ SlotsFormed(config'[v])
    BY Zenon DEF WellFormed, SlotsFormed, exists
  <2>1. CASE config'[v] = NoWorkspace
    BY Zenon, <2>1, NoWorkspaceFacts
  <2>2. CASE config'[v] = config[was[v]]
    BY Zenon, <2>2, WorkspaceFacts
  <2> QED
    BY Zenon, <2>1, <2>2
<1>5. LedgerCovers'
  <2> SUFFICES ASSUME NEW v \in Slug, NEW e \in issued,
                      exists(config'[v]), e.life = config'[v].life
               PROVE  /\ e.version <= config'[v].generations[e.target]
                      /\ \A r \in Route :
                            config'[v].routes[r][e.target].version = e.version
                               => config'[v].routes[r][e.target].settings = e.settings
    BY Zenon DEF LedgerCovers
  <2>1. config'[v] = config[was[v]] /\ was[v] \in Slug
    BY Zenon, <1>1
  <2> QED
    BY <2>1 DEF RoutingIInv, LedgerCovers, exists
<1> QED
  BY Zenon, <1>2, <1>3, <1>4, <1>5 DEF RoutingIInv

LEMMA DeleteWorkspaceStep ==
    ASSUME RoutingIInv, NEW ws \in Slug, DeleteWorkspace(ws)
    PROVE  RoutingIInv'
<1> DEFINE was == [v \in Slug |-> v]
<1>1. config \in [Slug -> WorkspaceType] /\ NoWorkspace \in WorkspaceType
  BY Zenon, WorkspaceFacts, NoWorkspaceFacts
<1>2. /\ UNCHANGED <<lives, issued>>
      /\ config' \in [Slug -> WorkspaceType]
      /\ \A v \in Slug : config'[v] = NoWorkspace \/ config'[v] = config[v]
  BY Zenon, <1>1 DEF DeleteWorkspace
<1>3. was \in [Slug -> Slug] /\ \A v \in Slug : was[v] = v
  BY Zenon
<1> HIDE DEF was
<1> QED
  BY Zenon, <1>2, <1>3, RelabelPreserves

LEMMA RenameWorkspaceStep ==
    ASSUME RoutingIInv, NEW from \in Slug, NEW to \in Slug, RenameWorkspace(from, to)
    PROVE  RoutingIInv'
<1> DEFINE was == [v \in Slug |-> IF v = to THEN from ELSE v]
<1>1. config \in [Slug -> WorkspaceType] /\ NoWorkspace \in WorkspaceType
  BY Zenon, WorkspaceFacts, NoWorkspaceFacts
<1>2. /\ from # to
      /\ UNCHANGED <<lives, issued>>
      /\ config' \in [Slug -> WorkspaceType]
      /\ config'[to] = config[from] /\ config'[from] = NoWorkspace
      /\ \A v \in Slug : v # from /\ v # to => config'[v] = config[v]
  BY Zenon, <1>1 DEF RenameWorkspace
<1>3. /\ was \in [Slug -> Slug]
      /\ \A v \in Slug : config'[v] = NoWorkspace \/ config'[v] = config[was[v]]
  BY Zenon, <1>2
<1>4. \A v, u \in Slug : exists(config'[v]) /\ exists(config'[u]) /\ was[v] = was[u] => v = u
  BY Zenon, <1>2, NoWorkspaceFacts
<1> HIDE DEF was
<1> QED
  BY Zenon, <1>2, <1>3, <1>4, RelabelPreserves

(* A document is read back as the workspace it was written from.           *)
LEMMA DecodeEncode ==
    ASSUME NEW w \in WorkspaceType, SlotsFormed(w)
    PROVE  decode(encode(w), w.life) = w
<1> DEFINE doc == encode(w)
           back == [r \in Route |-> [t \in Target |->
                      IF doc.targets[r][t].version = 0 THEN NoTarget
                      ELSE [version |-> doc.targets[r][t].version,
                            settings |-> Finalize[doc.targets[r][t].draft]]]]
<1>1. /\ w = [default |-> w.default, routes |-> w.routes,
             generations |-> w.generations, life |-> w.life]
      /\ w.routes \in [Route -> [Target -> Slot]]
  BY Zenon DEF WorkspaceType
<1>2. ASSUME NEW r \in Route, NEW t \in Target
      PROVE  back[r][t] = w.routes[r][t]
  <2>1. doc.targets[r][t] =
           IF w.routes[r][t].version = 0 THEN NoTarget
           ELSE [version |-> w.routes[r][t].version, draft |-> Encoded[w.routes[r][t].settings]]
    BY Zenon DEF encode
  <2>2. CASE w.routes[r][t] = NoTarget
    <3>1. doc.targets[r][t].version = 0
      BY <2>1, <2>2 DEF NoTarget
    <3> HIDE DEF doc
    <3> QED
      BY Zenon, <2>2, <3>1
  <2>3. CASE w.routes[r][t] \in [version : 1 .. MaxVersion, settings : Settings]
    <3>1. w.routes[r][t].version # 0 /\ w.routes[r][t].settings \in Settings
      BY <2>3
    <3>2. /\ doc.targets[r][t].version = w.routes[r][t].version
          /\ doc.targets[r][t].draft = Encoded[w.routes[r][t].settings]
      BY <2>1, <3>1
    <3>3. Finalize[Encoded[w.routes[r][t].settings]] = w.routes[r][t].settings
      BY Zenon, <3>1, RoundTrip
    <3>4. w.routes[r][t] = [version |-> w.routes[r][t].version, settings |-> w.routes[r][t].settings]
      BY Zenon, <2>3
    <3> HIDE DEF doc
    <3> QED
      BY Zenon, <3>1, <3>2, <3>3, <3>4
  <2> QED
    BY Zenon, <2>2, <2>3 DEF SlotsFormed
<1>3. back = w.routes
  <2>1. \A r \in Route : back[r] = [t \in Target |-> back[r][t]]
    BY Zenon
  <2>2. back = [r \in Route |-> back[r]]
    BY Zenon
  <2> HIDE DEF back
  <2>3. \A r \in Route : back[r] = w.routes[r]
    BY Zenon, <1>1, <1>2, <2>1
  <2> QED
    BY Zenon, <1>1, <2>2, <2>3
<1>4. doc.default = w.default /\ doc.target_generations = w.generations
  BY Zenon DEF encode
<1>5. decode(doc, w.life) = [default |-> doc.default, routes |-> back,
                             generations |-> doc.target_generations, life |-> w.life]
  BY Zenon DEF decode
<1> HIDE DEF doc, back
<1>6. decode(doc, w.life) = w
  BY Zenon, <1>1, <1>3, <1>4, <1>5
<1> QED
  BY Zenon, <1>6 DEF doc

LEMMA RestartStep ==
    ASSUME RoutingIInv, Restart
    PROVE  UNCHANGED routingVars
<1>1. \A ws \in Slug :
         /\ config[ws] \in WorkspaceType /\ SlotsFormed(config[ws])
         /\ ~ exists(config[ws]) => config[ws] = NoWorkspace
  BY Zenon, WorkspaceFacts
<1>2. config = [ws \in Slug |-> config[ws]]
  BY Zenon DEF RoutingIInv, VersionIdentifiesSettings, RoutingTypeOK
<1>3. \A ws \in Slug : config'[ws] = config[ws]
  BY Zenon, <1>1, DecodeEncode DEF Restart
<1>4. config' = [ws \in Slug |-> config'[ws]]
  BY Zenon DEF Restart
<1> QED
  BY Zenon, <1>2, <1>3, <1>4 DEF Restart, routingVars

LEMMA RoutingStarts == RoutingInit => RoutingIInv
<1> SUFFICES ASSUME RoutingInit PROVE RoutingIInv
  BY Zenon
<1>1. config \in [Slug -> WorkspaceType]
  BY Zenon, NoWorkspaceFacts DEF RoutingInit
<1>2. RoutingTypeOK
  BY <1>1, VersionAssumption DEF RoutingInit, RoutingTypeOK, WorkspaceType
<1>3. \A ws \in Slug : config[ws] = NoWorkspace /\ ~ exists(config[ws])
  BY Zenon, NoWorkspaceFacts DEF RoutingInit
<1>4. VersionIdentifiesSettings
  BY Zenon, <1>2, <1>3 DEF VersionIdentifiesSettings, RoutingInit
<1>5. LivesDistinct
  BY <1>3 DEF LivesDistinct, RoutingInit, NoWorkspace, exists
<1>6. WellFormed
  BY Zenon, <1>3, NoWorkspaceFacts DEF WellFormed, SlotsFormed
<1>7. LedgerCovers
  BY Zenon DEF LedgerCovers, RoutingInit
<1> QED
  BY Zenon, <1>4, <1>5, <1>6, <1>7 DEF RoutingIInv

LEMMA RoutingNextKeeps == RoutingIInv /\ [RoutingNext]_routingVars => RoutingIInv'
<1> SUFFICES ASSUME RoutingIInv, [RoutingNext]_routingVars PROVE RoutingIInv'
  BY Zenon
<1>1. CASE UNCHANGED routingVars
  <2>1. config' = config /\ lives' = lives /\ issued' = issued
    BY Zenon, <1>1 DEF routingVars
  <2>2. RoutingIInv
    BY Zenon
  <2>3. VersionIdentifiesSettings'
    BY Zenon, <2>1, <2>2 DEF RoutingIInv, VersionIdentifiesSettings, RoutingTypeOK, exists, validate, routesOf
  <2>4. LivesDistinct'
    BY Zenon, <2>1, <2>2 DEF RoutingIInv, LivesDistinct, exists
  <2>5. WellFormed'
    BY Zenon, <2>1, <2>2 DEF RoutingIInv, WellFormed, exists
  <2>6. LedgerCovers'
    BY Zenon, <2>1, <2>2 DEF RoutingIInv, LedgerCovers, exists
  <2> QED
    BY Zenon, <2>3, <2>4, <2>5, <2>6 DEF RoutingIInv
<1>2. CASE Restart
  BY Zenon, <1>2, <1>1, RestartStep
<1>3. ASSUME NEW ws \in Slug, NEW r \in Route, NEW t \in Target, NEW d \in Draft,
             CreateWorkspace(ws, r, t, d) \/ CreateRoute(ws, r, t, d)
      PROVE  RoutingIInv'
  BY Zenon, <1>3, CreateWorkspaceStep, CreateRouteStep
<1>4. ASSUME NEW from \in Slug, NEW to \in Slug, RenameWorkspace(from, to)
      PROVE  RoutingIInv'
  BY Zenon, <1>4, RenameWorkspaceStep
<1>5. ASSUME NEW ws \in Slug, DeleteWorkspace(ws) PROVE RoutingIInv'
  BY Zenon, <1>5, DeleteWorkspaceStep
<1>6. ASSUME NEW ws \in Slug, NEW from \in Route, NEW to \in Route, RenameRoute(ws, from, to)
      PROVE  RoutingIInv'
  BY Zenon, <1>6, RenameRouteStep
<1>7. ASSUME NEW ws \in Slug, NEW r \in Route, SetDefaultRoute(ws, r) PROVE RoutingIInv'
  BY Zenon, <1>7, SetDefaultRouteStep
<1>8. ASSUME NEW ws \in Slug, NEW r \in Route, NEW replacement \in Route,
             DeleteRoute(ws, r, replacement)
      PROVE  RoutingIInv'
  BY Zenon, <1>8, DeleteRouteStep
<1>9. ASSUME NEW ws \in Slug, NEW r \in Route, NEW spec \in RouteSpec,
             ApplyRouteSpec(ws, r, spec)
      PROVE  RoutingIInv'
  BY Zenon, <1>9, ApplyRouteSpecStep
<1> QED
  BY Zenon, <1>1, <1>2, <1>3, <1>4, <1>5, <1>6, <1>7, <1>8, <1>9 DEF RoutingNext

(* For any number of workspaces, routes, targets and drafts and any        *)
(* version width, the edits of package routing and the restarts that read  *)
(* their document back never let one id and version of a workspace stand   *)
(* for two sets of effective settings.                                     *)
THEOREM VersionIdentity == RoutingSpec => []VersionIdentifiesSettings
<1>1. RoutingSpec => []RoutingIInv
  BY RoutingStarts, RoutingNextKeeps, PTL DEF RoutingSpec
<1>2. RoutingIInv => VersionIdentifiesSettings
  BY Zenon DEF RoutingIInv
<1> QED
  BY <1>1, <1>2, PTL

-----------------------------------------------------------------------------
(* Daemons.                                                                *)

(* Past the drain no handler is left.                                      *)
NoHandlerLeft == \A p \in Process : phase[p] = "cleaning" => handlers[p] = 0

(* Who owns the lock and the address, and where handlers can run.          *)
Owned ==
    \A p \in Process :
       /\ phase[p] \in {"opened", "serving", "draining", "cleaning"} <=> lock = p
       /\ phase[p] = "serving" <=> address = p
       /\ handlers[p] > 0 => lock = p

IInv == TypeOK /\ Owned /\ NoHandlerLeft

LEMMA Bounds == 0 \in 0 .. MaxHandlers /\ \A n \in 0 .. MaxHandlers : ~ (n > 0) => n = 0
BY LifecycleAssumption

LEMMA InitHolds == Init => IInv
BY Bounds, LifecycleAssumption DEF Init, IInv, TypeOK, Phase, Invocation, Op, Idle, Owned, NoHandlerLeft

(* A process that ends leaves the rest as it was.                          *)
LEMMA ExitStep ==
    ASSUME IInv, NEW p \in Process, exit(p), UNCHANGED cmd
    PROVE  IInv'
<1>1. TypeOK'  BY Zenon, Bounds DEF IInv, TypeOK, exit, Phase
<1>2. \A q \in Process : q # p => phase'[q] = phase[q] /\ handlers'[q] = handlers[q]
                                  /\ (lock' = q <=> lock = q) /\ (address' = q <=> address = q)
  BY LifecycleAssumption DEF IInv, TypeOK, exit
<1>3. phase'[p] = "exited" /\ handlers'[p] = 0 /\ lock' # p /\ address' # p
  BY Zenon, LifecycleAssumption DEF IInv, TypeOK, exit
<1>4. Owned'  BY <1>2, <1>3 DEF IInv, Owned
<1>5. NoHandlerLeft'  BY Zenon, <1>2, <1>3 DEF IInv, NoHandlerLeft
<1> QED  BY Zenon, <1>1, <1>4, <1>5 DEF IInv

(* Start, serve and Close.                                                 *)
LEMMA ServesStep ==
    ASSUME IInv, NEW p \in Process, Serves(p), UNCHANGED cmd
    PROVE  IInv'
<1> USE LifecycleAssumption
<1>1. CASE exit(p)  BY Zenon, <1>1, ExitStep
<1>2. CASE OpenStore(p) /\ lock = None
  BY <1>2, Bounds DEF IInv, TypeOK, Phase, Owned, NoHandlerLeft, OpenStore
<1>3. CASE Listen(p) /\ address = None
  BY <1>3, Bounds DEF IInv, TypeOK, Phase, Owned, NoHandlerLeft, Listen
<1>4. CASE CloseListener(p)
  BY Zenon, <1>4, Bounds DEF IInv, TypeOK, Phase, Owned, NoHandlerLeft, CloseListener
<1>5. CASE Drained(p)
  BY Zenon, <1>5, Bounds DEF IInv, TypeOK, Phase, Owned, NoHandlerLeft, Drained
<1>6. CASE CloseStore(p)
  BY <1>6, Bounds DEF IInv, TypeOK, Phase, Owned, NoHandlerLeft, CloseStore
<1> QED  BY Zenon, <1>1, <1>2, <1>3, <1>4, <1>5, <1>6 DEF Serves, OpenStore, Listen, ProcessStops

(* Requests, signals, failures and crashes.                                *)
LEMMA EnvironmentStep ==
    ASSUME IInv, NEW p \in Process, Environment(p), UNCHANGED cmd
    PROVE  IInv'
<1> USE LifecycleAssumption
<1>1. CASE exit(p)  BY Zenon, <1>1, ExitStep
<1>2. CASE RequestStarts(p)
  BY <1>2, Bounds DEF IInv, TypeOK, Phase, Owned, NoHandlerLeft, RequestStarts
<1>3. CASE RequestEnds(p) \/ Hijack(p)
  <2>1. /\ UNCHANGED <<phase, closing, lock, address>>
        /\ handlers[p] > 0 /\ handlers' = [handlers EXCEPT ![p] = @ - 1]
        /\ detached' \in [Process -> BOOLEAN]
    BY Zenon, <1>3 DEF IInv, TypeOK, RequestEnds, Hijack
  <2>2. \A n \in 0 .. MaxHandlers : n > 0 => n - 1 \in 0 .. MaxHandlers  OBVIOUS
  <2>3. TypeOK'  BY Zenon, <2>1, <2>2 DEF IInv, TypeOK
  <2>4. \A q \in Process : q # p => handlers'[q] = handlers[q]  BY Zenon, <2>1 DEF IInv, TypeOK
  <2>5. lock = p /\ phase[p] # "cleaning"
    <3>1. handlers[p] # 0  BY <2>1 DEF IInv, TypeOK
    <3> QED  BY Zenon, <2>1, <3>1 DEF IInv, Owned, NoHandlerLeft
  <2>6. Owned'  BY Zenon, <2>1, <2>4, <2>5 DEF IInv, Owned
  <2>7. NoHandlerLeft'  BY Zenon, <2>1, <2>4, <2>5 DEF IInv, NoHandlerLeft
  <2> QED  BY Zenon, <2>3, <2>6, <2>7 DEF IInv
<1>4. CASE DetachedEnds(p) \/ Interrupted(p)
  BY Zenon, <1>4, Bounds DEF IInv, TypeOK, Phase, Owned, NoHandlerLeft, DetachedEnds, Interrupted
<1> QED  BY Zenon, <1>1, <1>2, <1>3, <1>4 DEF Environment, StartFails, Crash

(* A command takes nothing from a daemon: it starts one or asks one to     *)
(* close.                                                                  *)
LEMMA CommandStep ==
    ASSUME IInv,
           UNCHANGED <<lock, address, handlers, detached>>,
           closing' \subseteq Process,
           \/ phase' = phase
           \/ (\E p \in Process : phase[p] = "unborn" /\ phase' = [phase EXCEPT ![p] = "starting"]),
           cmd' \in [Command -> Invocation]
    PROVE  IInv'
<1>1. phase' \in [Process -> Phase]  BY Zenon DEF IInv, TypeOK, Phase
<1>2. TypeOK'  BY Zenon, <1>1 DEF IInv, TypeOK
<1>3. \A q \in Process : \/ phase'[q] = phase[q]
                          \/ (phase[q] = "unborn" /\ phase'[q] = "starting")
  <2>1. CASE phase' = phase  BY Zenon, <2>1
  <2>2. ASSUME NEW p \in Process, phase[p] = "unborn", phase' = [phase EXCEPT ![p] = "starting"]
        PROVE  \A q \in Process : \/ phase'[q] = phase[q]
                                  \/ (phase[q] = "unborn" /\ phase'[q] = "starting")
    BY Zenon, <2>2 DEF IInv, TypeOK
  <2> QED  BY Zenon, <2>1, <2>2
<1>4. Owned'  BY Zenon, <1>3 DEF IInv, Owned
<1>5. NoHandlerLeft'  BY Zenon, <1>3 DEF IInv, NoHandlerLeft
<1> QED  BY Zenon, <1>2, <1>4, <1>5 DEF IInv

LEMMA InvokeStep ==
    ASSUME IInv, NEW c \in Command, NEW op \in Op, Invoke(c, op)
    PROVE  IInv'
BY CommandStep DEF IInv, TypeOK, Invoke, daemons, Invocation

LEMMA ForegroundStep ==
    ASSUME IInv, NEW p \in Process, Foreground(p)
    PROVE  IInv'
BY Zenon, CommandStep DEF IInv, TypeOK, Foreground

LEMMA RunsStep ==
    ASSUME IInv, NEW c \in Command, Runs(c)
    PROVE  IInv'
<1> USE DEF IInv, TypeOK, daemons, Invocation
<1>1. CASE Attach(c)
  <2>1. PICK result \in {"ready", "incompatible"} : ended(c, result)  BY Zenon, <1>1 DEF Attach
  <2>2. cmd' \in [Command -> Invocation]
    <3>1. cmd[c] \in Invocation  BY Zenon
    <3>2. [cmd[c] EXCEPT !.at = "done", !.result = result] \in Invocation  BY Zenon, <3>1
    <3>3. cmd' = [cmd EXCEPT ![c] = [cmd[c] EXCEPT !.at = "done", !.result = result]]
      BY Zenon, <2>1 DEF ended
    <3> QED  BY Zenon, <3>2, <3>3
  <2> QED  BY Zenon, <1>1, <2>2, CommandStep DEF Attach
<1>2. CASE Spawn(c)  BY <1>2, CommandStep DEF Spawn, ended
<1>3. CASE ChildExited(c) \/ ReadinessTimesOut(c)
  BY <1>3, CommandStep DEF ChildExited, ReadinessTimesOut, ended
<1>4. CASE DownProbe(c)  BY <1>4, CommandStep DEF DownProbe, downReturns, ended
<1>5. CASE PostDown(c)  BY <1>5, CommandStep DEF PostDown, reachable
<1>6. CASE PostFails(c)  BY <1>6, CommandStep DEF PostFails, downReturns, ended
<1>7. CASE DownObserved(c) \/ DownTimesOut(c)
  BY <1>7, CommandStep DEF DownObserved, DownTimesOut, downReturns, ended
<1> QED  BY Zenon, <1>1, <1>2, <1>3, <1>4, <1>5, <1>6, <1>7 DEF Runs

LEMMA NextPreserves == IInv /\ [Next]_vars => IInv'
<1> SUFFICES ASSUME IInv, [Next]_vars PROVE IInv'  BY Zenon
<1>1. ASSUME NEW p \in Process, Serves(p), UNCHANGED cmd PROVE IInv'  BY Zenon, <1>1, ServesStep
<1>2. ASSUME NEW p \in Process, Environment(p), UNCHANGED cmd PROVE IInv'  BY Zenon, <1>2, EnvironmentStep
<1>3. ASSUME NEW p \in Process, Foreground(p) PROVE IInv'  BY Zenon, <1>3, ForegroundStep
<1>4. ASSUME NEW c \in Command, NEW op \in Op, Invoke(c, op) PROVE IInv'  BY Zenon, <1>4, InvokeStep
<1>5. ASSUME NEW c \in Command, Runs(c) PROVE IInv'  BY Zenon, <1>5, RunsStep
<1>6. CASE UNCHANGED vars
  BY Zenon, <1>6 DEF vars, daemons, IInv, TypeOK, Owned, NoHandlerLeft
<1> QED  BY Zenon, <1>1, <1>2, <1>3, <1>4, <1>5, <1>6 DEF Next

(* However many daemons are started, by hand or by commands that took a    *)
(* slow daemon for a dead one, the one that serves or still runs a handler *)
(* owns the configuration.                                                 *)
THEOREM OneDaemonUsesTheConfiguration == Spec => []ConfigExclusive
<1>1. Init => IInv  BY Zenon, InitHolds
<1>2. IInv /\ [Next]_vars => IInv'  BY Zenon, NextPreserves
<1>3. IInv => ConfigExclusive  BY Zenon DEF IInv, Owned, ConfigExclusive
<1> QED  BY <1>1, <1>2, <1>3, PTL DEF Spec

----------------------------------------------------------------------------
(* Logins.                                                                 *)

SessionRecord == [at : {"absent", "building", "known", "evicted", "refused"},
                  mode : {"browser", "device"},
                  state : {"pending", "succeeded", "failed", "expired", "canceled"},
                  terminal : BOOLEAN, code : BOOLEAN, age : 0..(SessionTTL + 1)]

Timer == [left : 0..IdleTTL, ref : BOOLEAN]

(* The browser sessions of ss that wait for their callback.                *)
WaitingIn(ss) == {s \in Session : ss[s].at = "known" /\ ss[s].mode = "browser" /\ ~ss[s].terminal}

(* A session that was not registered has no past; a terminal one is not    *)
(* pending.                                                                *)
SessionForms ==
    \A s \in Session :
       /\ session[s].at \in {"absent", "building"} => ~session[s].terminal /\ session[s].age = 0
       /\ session[s].terminal => session[s].state # "pending"

(* Every exchange took a code, and one that is still held was not taken.   *)
CodesTaken ==
    \A s \in Session :
       /\ exchanging[s] <= exchanged[s] /\ exchanged[s] <= delivered[s]
       /\ session[s].code => exchanged[s] < delivered[s]

LoginIInv == LoginTypeOK /\ CountMatchesWaiting /\ IdleServerIsTimed /\ SessionForms /\ CodesTaken

LEMMA LoginBounds ==
    /\ 0 \in 0 .. (SessionTTL + 1) /\ 0 \in 0 .. EvictEvery /\ 0 \in 0 .. MaxCodes
    /\ 0 \in 0 .. IdleTTL /\ IdleTTL \in 0 .. IdleTTL
BY LoginAssumption

LEMMA NewRecords ==
    LET gone == [Absent EXCEPT !.at = "evicted"]
        refused == [Absent EXCEPT !.at = "refused"]
    IN  /\ Absent \in SessionRecord /\ gone \in SessionRecord /\ refused \in SessionRecord
        /\ gone.at = "evicted" /\ ~gone.terminal /\ ~gone.code
        /\ refused.at = "refused" /\ ~refused.terminal /\ ~refused.code
<1>1. Absent \in SessionRecord /\ ~Absent.terminal /\ ~Absent.code
  BY Zenon, LoginBounds DEF Absent, SessionRecord
<1> QED  BY Zenon, <1>1 DEF SessionRecord

LEMMA LoginStarts == LoginInit => LoginIInv
<1> SUFFICES ASSUME LoginInit PROVE LoginIInv  BY Zenon
<1>1. session \in [Session -> SessionRecord]  BY Zenon, NewRecords DEF LoginInit
<1>2. LoginTypeOK  BY Zenon, <1>1, LoginBounds DEF LoginInit, LoginTypeOK, SessionRecord
<1>3. {s \in Session : Waiting(s)} = {}  BY Zenon DEF LoginInit, Absent, Waiting
<1>4. CountMatchesWaiting  BY Zenon, <1>3, FS_EmptySet DEF CountMatchesWaiting, LoginInit
<1>5. IdleServerIsTimed /\ SessionForms /\ CodesTaken
  BY DEF LoginInit, IdleServerIsTimed, SessionForms, CodesTaken, Absent
<1> QED  BY Zenon, <1>2, <1>4, <1>5 DEF LoginIInv

(* Stop and scheduleCallbackShutdown keep timers, and one runs after the   *)
(* count came to zero.                                                     *)
LEMMA TimersKept ==
    ASSUME NEW ts, ts \subseteq Timer, NEW n \in Nat
    PROVE  /\ Stop(ts) \subseteq Timer
           /\ ScheduledIfIdle(n, ts) \subseteq Timer
           /\ n = 0 => ScheduledIfIdle(n, ts) # {}
<1>1. [left |-> 0, ref |-> FALSE] \in Timer /\ [left |-> IdleTTL, ref |-> TRUE] \in Timer
  BY Zenon, LoginBounds DEF Timer
<1>2. Stop(ts) \subseteq Timer  BY Zenon, <1>1 DEF Stop
<1> QED  BY Zenon, <1>1, <1>2 DEF ScheduledIfIdle, scheduleCallbackShutdown

(* evictExpired counts down by what it removes.                            *)
LEMMA EvictsCounted ==
    ASSUME NEW ss \in [Session -> SessionRecord], NEW n \in Nat, n = Cardinality(WaitingIn(ss))
    PROVE  /\ Purged(ss) \in [Session -> SessionRecord]
           /\ Evicted(n, ss) \in Nat
           /\ Evicted(n, ss) = Cardinality(WaitingIn(Purged(ss)))
           /\ \A s \in Session : Purged(ss)[s] = ss[s] \/ Purged(ss)[s] = [Absent EXCEPT !.at = "evicted"]
<1> DEFINE W == WaitingIn(ss)
           G == {s \in Session : Expired(ss[s]) /\ ss[s].mode = "browser" /\ ~ss[s].terminal}
           a == [Absent EXCEPT !.at = "evicted"]
<1>1. a \in SessionRecord /\ a.at = "evicted"  BY Zenon, NewRecords
<1>2. Purged(ss) \in [Session -> SessionRecord]
      /\ \A s \in Session : Purged(ss)[s] = IF Expired(ss[s]) THEN a ELSE ss[s]
  BY Zenon, <1>1 DEF Purged
<1>3. WaitingIn(Purged(ss)) = W \ G  BY Zenon, <1>1, <1>2 DEF WaitingIn, Expired
<1>4. G \subseteq W /\ W \subseteq Session  BY Zenon DEF WaitingIn, Expired
<1>5. IsFiniteSet(W) /\ IsFiniteSet(G)  BY Zenon, <1>4, LoginAssumption, FS_Subset
<1>6. W \cap G = G  BY Zenon, <1>4
<1>7. /\ Cardinality(W \ G) = Cardinality(W) - Cardinality(W \cap G)
      /\ Cardinality(G) <= Cardinality(W)
  BY Zenon, <1>4, <1>5, FS_Difference, FS_Subset
<1>8. Cardinality(W) \in Nat /\ Cardinality(G) \in Nat  BY Zenon, <1>5, FS_CardinalityType
<1>9. Evicted(n, ss) = IF n >= Cardinality(G) THEN n - Cardinality(G) ELSE 0  BY Zenon DEF Evicted
<1>10. Evicted(n, ss) = Cardinality(W) - Cardinality(G) /\ Evicted(n, ss) \in Nat
  <2> DEFINE w == Cardinality(W)
             g == Cardinality(G)
  <2>1. w \in Nat /\ g \in Nat /\ g <= w /\ n = w /\ Evicted(n, ss) = IF n >= g THEN n - g ELSE 0
    BY Zenon, <1>7, <1>8, <1>9
  <2> HIDE DEF w, g
  <2>2. Evicted(n, ss) = w - g /\ Evicted(n, ss) \in Nat  BY <2>1
  <2> QED  BY Zenon, <2>2 DEF w, g
<1> QED  BY Zenon, <1>2, <1>3, <1>6, <1>7, <1>10

(* evictExpired keeps what was true of the sessions, the count and the     *)
(* timers it is given.                                                     *)
LEMMA EvictStep ==
    ASSUME LoginIInv, NEW ss \in [Session -> SessionRecord], NEW n \in Nat,
           n = Cardinality(WaitingIn(ss)), NEW ts, ts \subseteq Timer,
           \A s \in Session : /\ ss[s].at \in {"absent", "building"} => ~ss[s].terminal /\ ss[s].age = 0
                              /\ ss[s].terminal => ss[s].state # "pending"
                              /\ ss[s].code => session[s].code,
           evictExpired(n, ss, ts), server' = server, UNCHANGED tokens,
           sinceEvict' \in 0 .. EvictEvery
    PROVE  LoginIInv'
<1>1. session' = Purged(ss) /\ count' = Evicted(n, ss) /\ timers' = ScheduledIfIdle(count', ts)
  BY Zenon DEF evictExpired
<1>2. /\ session' \in [Session -> SessionRecord] /\ count' \in Nat
      /\ count' = Cardinality(WaitingIn(session'))
      /\ \A s \in Session : session'[s] = ss[s] \/ session'[s] = [Absent EXCEPT !.at = "evicted"]
  BY Zenon, <1>1, EvictsCounted
<1>3. timers' \subseteq Timer /\ (count' = 0 => timers' # {})  BY Zenon, <1>1, <1>2, TimersKept
<1>4. UNCHANGED <<exchanging, delivered, exchanged>>  BY Zenon DEF tokens
<1>5. LoginTypeOK'  BY Zenon, <1>2, <1>3, <1>4 DEF LoginIInv, LoginTypeOK, SessionRecord, Timer
<1>6. CountMatchesWaiting'  BY Zenon, <1>2 DEF CountMatchesWaiting, WaitingIn, Waiting
<1>7. IdleServerIsTimed'  BY Zenon, <1>3 DEF IdleServerIsTimed
<1>8. SessionForms'  BY <1>2 DEF SessionForms, Absent
<1>9. CodesTaken'  BY Zenon, <1>2, <1>4 DEF LoginIInv, CodesTaken, Absent
<1> QED  BY Zenon, <1>5, <1>6, <1>7, <1>8, <1>9 DEF LoginIInv

(* setTerminalState, from Cancel, a callback, a poll or an exchange.       *)
LEMMA TerminalStep ==
    ASSUME LoginIInv, NEW s \in Known,
           NEW st \in {"succeeded", "failed", "expired", "canceled"}, setTerminalState(s, st),
           UNCHANGED <<server, sinceEvict, delivered, exchanged>>,
           exchanging' \in [Session -> 0 .. MaxCodes],
           \A x \in Session : exchanging'[x] <= exchanging[x]
    PROVE  LoginIInv' /\ session'[s].terminal /\ session'[s].state = st
           /\ \A x \in Session : x # s => session'[x] = session[x]
<1> DEFINE counted == session[s].mode = "browser" /\ ~session[s].terminal
           W == WaitingIn(session)
<1>1. /\ s \in Session /\ session[s].at = "known"
      /\ session \in [Session -> SessionRecord] /\ timers \subseteq Timer /\ count \in Nat
  BY Zenon DEF Known, LoginIInv, LoginTypeOK, SessionRecord, Timer
<1>2. /\ session' = [session EXCEPT ![s].state = st, ![s].terminal = TRUE]
      /\ count' = IF counted THEN Decremented(count) ELSE count
      /\ timers' = IF counted THEN ScheduledIfIdle(count', timers) ELSE timers
  BY Zenon DEF setTerminalState
<1>3. /\ session' \in [Session -> SessionRecord]
      /\ session'[s].terminal /\ session'[s].state = st
      /\ session'[s].at = session[s].at /\ session'[s].mode = session[s].mode
      /\ session'[s].code = session[s].code /\ session'[s].age = session[s].age
      /\ \A x \in Session : x # s => session'[x] = session[x]
  BY Zenon, <1>1, <1>2 DEF SessionRecord
<1>4. WaitingIn(session') = W \ {s}  BY Zenon, <1>1, <1>3 DEF WaitingIn
<1>5. s \in W <=> counted  BY Zenon, <1>1 DEF WaitingIn
<1>6. IsFiniteSet(W) /\ Cardinality(W) \in Nat /\ count = Cardinality(W)
  BY Zenon, LoginAssumption, FS_Subset, FS_CardinalityType
     DEF WaitingIn, Waiting, LoginIInv, CountMatchesWaiting
<1>7. count' \in Nat /\ count' = Cardinality(WaitingIn(session'))
  <2>1. CASE counted
    <3>1. Cardinality(W \ {s}) = Cardinality(W) - 1 /\ Cardinality(W \ {s}) \in Nat
      BY Zenon, <1>5, <1>6, <2>1, FS_RemoveElement, FS_CardinalityType
    <3>2. count > 0 /\ count' = count - 1  BY <1>2, <1>6, <2>1, <3>1 DEF Decremented
    <3> QED  BY Zenon, <1>4, <1>6, <3>1, <3>2
  <2>2. CASE ~counted
    <3>1. W \ {s} = W  BY Zenon, <1>5, <2>2
    <3> QED  BY Zenon, <1>1, <1>2, <1>4, <1>6, <2>2, <3>1
  <2> QED  BY Zenon, <2>1, <2>2
<1> HIDE DEF counted, W
<1>8. /\ timers' \subseteq Timer
      /\ counted /\ count' = 0 => timers' # {}
      /\ ~counted => timers' = timers /\ count' = count
  BY Zenon, <1>1, <1>2, <1>7, TimersKept
<1>9. LoginTypeOK'  BY Zenon, <1>3, <1>7, <1>8 DEF LoginIInv, LoginTypeOK, SessionRecord, Timer
<1>10. CountMatchesWaiting'  BY Zenon, <1>7 DEF CountMatchesWaiting, WaitingIn, Waiting
<1>11. IdleServerIsTimed'
  <2>1. Building' = Building  BY Zenon, <1>1, <1>3 DEF Building
  <2> QED  BY Zenon, <1>8, <2>1 DEF LoginIInv, IdleServerIsTimed
<1>12. SessionForms'  BY Zenon, <1>1, <1>3 DEF LoginIInv, SessionForms
<1>13. CodesTaken'
  <2>1. \A x \in Session : exchanging[x] \in Nat /\ exchanged[x] \in Nat /\ exchanging'[x] \in Nat
    BY DEF LoginIInv, LoginTypeOK
  <2>2. \A x \in Session : session'[x].code = session[x].code  BY Zenon, <1>3
  <2> QED  BY <2>1, <2>2 DEF LoginIInv, CodesTaken
<1> QED  BY Zenon, <1>3, <1>9, <1>10, <1>11, <1>12, <1>13 DEF LoginIInv

(* Steps that change one session and neither its waiting nor the count.    *)
LEMMA PlainSessionStep ==
    ASSUME LoginIInv, NEW s \in Session, session' \in [Session -> SessionRecord],
           \A x \in Session : x # s => session'[x] = session[x],
           (s \in WaitingIn(session')) <=> (s \in WaitingIn(session)),
           session'[s].at \in {"absent", "building"} => ~session'[s].terminal /\ session'[s].age = 0,
           session'[s].terminal => session'[s].state # "pending",
           server' \in BOOLEAN, count' = count, timers' \subseteq Timer,
           IdleServerIsTimed', sinceEvict' = sinceEvict,
           exchanging' \in [Session -> 0 .. MaxCodes], delivered' \in [Session -> 0 .. MaxCodes],
           exchanged' \in [Session -> Nat], CodesTaken'
    PROVE  LoginIInv'
<1>1. WaitingIn(session') = WaitingIn(session)  BY Zenon DEF WaitingIn
<1>2. LoginTypeOK'  BY Zenon DEF LoginIInv, LoginTypeOK, SessionRecord, Timer
<1>3. CountMatchesWaiting'  BY Zenon, <1>1 DEF LoginIInv, CountMatchesWaiting, WaitingIn, Waiting
<1>4. SessionForms'  BY Zenon DEF LoginIInv, SessionForms
<1> QED  BY Zenon, <1>2, <1>3, <1>4 DEF LoginIInv

LEMMA StartBrowserStep ==
    ASSUME LoginIInv, NEW s \in Session, StartBrowser(s)
    PROVE  LoginIInv'
<1>1. /\ session \in [Session -> SessionRecord] /\ timers \subseteq Timer
      /\ exchanging \in [Session -> 0 .. MaxCodes] /\ delivered \in [Session -> 0 .. MaxCodes]
      /\ exchanged \in [Session -> Nat] /\ server \in BOOLEAN
  BY Zenon DEF LoginIInv, LoginTypeOK, SessionRecord, Timer
<1>2. /\ session[s].at = "absent" /\ ~session[s].terminal /\ session[s].age = 0
      /\ UNCHANGED <<count, timers, sinceEvict, exchanging, delivered, exchanged>>
  BY Zenon DEF StartBrowser, tokens, LoginIInv, SessionForms
<1>3. /\ session' \in [Session -> SessionRecord]
      /\ session'[s].at \in {"building", "refused"} /\ server' \in BOOLEAN
      /\ session'[s].at = "refused" => ~server'
      /\ session'[s].terminal = session[s].terminal /\ session'[s].age = session[s].age
      /\ session'[s].code = session[s].code
      /\ \A x \in Session : x # s => session'[x] = session[x]
  <2>1. CASE session' = [session EXCEPT ![s].at = "building", ![s].mode = "browser"] /\ server' = TRUE
    <3>1. /\ session'[s] = [session[s] EXCEPT !.at = "building", !.mode = "browser"]
          /\ \A x \in Session : x # s => session'[x] = session[x]
      BY Zenon, <1>1, <2>1
    <3>2. session[s] \in SessionRecord  BY Zenon, <1>1
    <3>3. /\ session'[s] \in SessionRecord /\ session'[s].at = "building"
          /\ session'[s].terminal = session[s].terminal /\ session'[s].age = session[s].age
          /\ session'[s].code = session[s].code
      BY Zenon, <3>1, <3>2 DEF SessionRecord
    <3>4. session' \in [Session -> SessionRecord]
      <4>1. session' = [x \in Session |-> session'[x]]  BY Zenon, <1>1, <2>1
      <4>2. \A x \in Session : session'[x] \in SessionRecord  BY Zenon, <1>1, <3>1, <3>3
      <4> QED  BY Zenon, <4>1, <4>2
    <3> QED  BY Zenon, <2>1, <3>1, <3>3, <3>4
  <2>2. CASE session' = [session EXCEPT ![s].at = "refused"] /\ ~server /\ server' = server
    BY <1>1, <2>2 DEF SessionRecord
  <2> QED  BY Zenon, <2>1, <2>2 DEF StartBrowser
<1>4. IdleServerIsTimed'
  BY Zenon, <1>3 DEF IdleServerIsTimed, Building
<1>5. CodesTaken'  BY Zenon, <1>2, <1>3 DEF LoginIInv, CodesTaken
<1>6. ~(s \in WaitingIn(session')) /\ ~(s \in WaitingIn(session))  BY Zenon, <1>2, <1>3 DEF WaitingIn
<1> QED  BY Zenon, <1>1, <1>2, <1>3, <1>4, <1>5, <1>6, PlainSessionStep

LEMMA BuildFailsStep ==
    ASSUME LoginIInv, NEW s \in Session, BuildFails(s)
    PROVE  LoginIInv'
<1>1. /\ session \in [Session -> SessionRecord] /\ timers \subseteq Timer /\ count \in Nat
      /\ exchanging \in [Session -> 0 .. MaxCodes] /\ delivered \in [Session -> 0 .. MaxCodes]
      /\ exchanged \in [Session -> Nat] /\ server \in BOOLEAN
  BY Zenon DEF LoginIInv, LoginTypeOK, SessionRecord, Timer
<1> DEFINE refused == [Absent EXCEPT !.at = "refused"]
<1>2. /\ session[s].at = "building" /\ session' = [session EXCEPT ![s] = refused]
      /\ UNCHANGED <<sinceEvict, exchanging, delivered, exchanged>>
  BY Zenon DEF BuildFails, tokens
<1>3. refused \in SessionRecord /\ refused.at = "refused" /\ ~refused.terminal /\ ~refused.code
  BY Zenon, NewRecords
<1> HIDE DEF refused
<1>4. /\ session' \in [Session -> SessionRecord] /\ session'[s] = refused
      /\ \A x \in Session : x # s => session'[x] = session[x]
  BY Zenon, <1>1, <1>2, <1>3
<1>5. /\ count' = count /\ server' \in BOOLEAN /\ timers' \subseteq Timer
      /\ count > 0 \/ ~server'
  BY Zenon, <1>1, TimersKept DEF BuildFails, closeCallbackServerIfIdle, callback
<1>6. IdleServerIsTimed'  BY <1>1, <1>5 DEF IdleServerIsTimed
<1>7. CodesTaken'  BY Zenon, <1>2, <1>3, <1>4 DEF LoginIInv, CodesTaken
<1>8. ~(s \in WaitingIn(session')) /\ ~(s \in WaitingIn(session))  BY Zenon, <1>2, <1>3, <1>4 DEF WaitingIn
<1> QED  BY Zenon, <1>1, <1>2, <1>3, <1>4, <1>5, <1>6, <1>7, <1>8, PlainSessionStep

LEMMA RegisterStep ==
    ASSUME LoginIInv, NEW s \in Session, RegisterBrowser(s) \/ RegisterDevice(s)
    PROVE  LoginIInv'
<1>1. /\ session \in [Session -> SessionRecord] /\ timers \subseteq Timer /\ count \in Nat
      /\ server' = server /\ UNCHANGED tokens /\ sinceEvict' \in 0 .. EvictEvery
  BY Zenon DEF LoginIInv, LoginTypeOK, SessionRecord, Timer, RegisterBrowser, RegisterDevice
<1>2. PICK mode \in {"browser", "device"} :
          /\ mode = "browser" => RegisterBrowser(s)
          /\ mode = "device" => RegisterDevice(s)
  BY Zenon
<1> DEFINE ss == Registered(s, mode)
           W == WaitingIn(session)
<1>3. /\ ss \in [Session -> SessionRecord] /\ ss[s].at = "known" /\ ss[s].mode = mode
      /\ ss[s].terminal = session[s].terminal /\ ss[s].code = session[s].code
      /\ ss[s].state = session[s].state
      /\ \A x \in Session : x # s => ss[x] = session[x]
  BY ZenonT(60), <1>1 DEF Registered, SessionRecord
<1>4. session[s].at \in {"absent", "building"} /\ ~session[s].terminal
  BY Zenon, <1>2 DEF RegisterBrowser, RegisterDevice, LoginIInv, SessionForms
<1>5. \A x \in Session : /\ ss[x].at \in {"absent", "building"} => ~ss[x].terminal /\ ss[x].age = 0
                         /\ ss[x].terminal => ss[x].state # "pending"
                         /\ ss[x].code => session[x].code
  BY Zenon, <1>3 DEF LoginIInv, SessionForms
<1>6. IsFiniteSet(W) /\ Cardinality(W) \in Nat /\ count = Cardinality(W) /\ s \notin W
  BY Zenon, <1>4, LoginAssumption, FS_Subset, FS_CardinalityType
     DEF WaitingIn, Waiting, LoginIInv, CountMatchesWaiting
<1>7. CASE mode = "browser"
  <2>1. WaitingIn(ss) = W \cup {s}  BY Zenon, <1>3, <1>4, <1>7 DEF WaitingIn
  <2>2. Cardinality(W \cup {s}) = Cardinality(W) + 1  BY Zenon, <1>6, FS_AddElement
  <2>3. evictExpired(count + 1, ss, Stop(timers))  BY Zenon, <1>2, <1>7 DEF RegisterBrowser
  <2>4. Stop(timers) \subseteq Timer  BY Zenon, <1>1, TimersKept
  <2> HIDE DEF ss, W
  <2>5. count + 1 \in Nat /\ count + 1 = Cardinality(WaitingIn(ss))  BY <1>1, <1>6, <2>1, <2>2
  <2> QED  BY Zenon, <1>1, <1>3, <1>5, <2>3, <2>4, <2>5, EvictStep
<1>8. CASE mode = "device"
  <2>1. WaitingIn(ss) = W  BY <1>3, <1>4, <1>8 DEF WaitingIn
  <2>2. evictExpired(count, ss, timers)  BY Zenon, <1>2, <1>8 DEF RegisterDevice
  <2> HIDE DEF ss, W
  <2> QED  BY Zenon, <1>1, <1>3, <1>5, <1>6, <2>1, <2>2, EvictStep
<1> QED  BY Zenon, <1>7, <1>8

LEMMA CallbackStep ==
    ASSUME LoginIInv, NEW s \in Session, NEW ok \in BOOLEAN, HandleCallback(s, ok)
    PROVE  LoginIInv'
<1>1. s \in Known /\ session[s].at = "known" /\ ~session[s].terminal
  BY Zenon DEF HandleCallback, Accepts, Known
<1>2. CASE ~ok
  <2>1. setTerminalState(s, "failed") /\ UNCHANGED <<server, sinceEvict, exchanging, delivered, exchanged>>
    BY Zenon, <1>2 DEF HandleCallback, tokens
  <2>2. exchanging \in [Session -> 0 .. MaxCodes] /\ \A x \in Session : exchanging[x] <= exchanging[x]
    BY DEF LoginIInv, LoginTypeOK
  <2> QED  BY Zenon, <1>1, <2>1, <2>2, TerminalStep
<1>3. CASE ok
  <2>1. /\ session \in [Session -> SessionRecord] /\ timers \subseteq Timer
        /\ exchanging \in [Session -> 0 .. MaxCodes] /\ delivered \in [Session -> 0 .. MaxCodes]
        /\ exchanged \in [Session -> Nat] /\ server \in BOOLEAN
    BY Zenon DEF LoginIInv, LoginTypeOK, SessionRecord, Timer
  <2>2. /\ delivered[s] < MaxCodes /\ delivered' = [delivered EXCEPT ![s] = @ + 1]
        /\ session' = [session EXCEPT ![s].code = TRUE, ![s].state = "pending"]
        /\ UNCHANGED <<server, count, timers, sinceEvict, exchanging, exchanged>>
    BY Zenon, <1>3 DEF HandleCallback, callback
  <2>3. /\ session' \in [Session -> SessionRecord] /\ session'[s].at = session[s].at
        /\ session'[s].mode = session[s].mode /\ session'[s].terminal = session[s].terminal
        /\ session'[s].age = session[s].age /\ session'[s].code
        /\ \A x \in Session : x # s => session'[x] = session[x]
    BY ZenonT(60), <2>1, <2>2 DEF SessionRecord
  <2>4. /\ delivered' \in [Session -> 0 .. MaxCodes] /\ delivered'[s] = delivered[s] + 1
        /\ \A x \in Session : x # s => delivered'[x] = delivered[x]
    BY <2>1, <2>2, LoginAssumption
  <2>5. CodesTaken'
    <3>1. \A x \in Session : exchanging[x] \in Nat /\ exchanged[x] \in Nat /\ delivered[x] \in Nat
      BY <2>1
    <3> QED  BY <2>2, <2>3, <2>4, <3>1 DEF LoginIInv, CodesTaken
  <2>6. IdleServerIsTimed'
    <3>1. Building' = Building  BY Zenon, <2>3 DEF Building
    <3> QED  BY Zenon, <2>2, <3>1 DEF LoginIInv, IdleServerIsTimed
  <2>7. (s \in WaitingIn(session')) <=> (s \in WaitingIn(session))  BY Zenon, <2>3 DEF WaitingIn
  <2> QED  BY Zenon, <1>1, <2>1, <2>2, <2>3, <2>4, <2>5, <2>6, <2>7, PlainSessionStep
<1> QED  BY Zenon, <1>2, <1>3

LEMMA PollExchangesStep ==
    ASSUME LoginIInv, NEW s \in Session, PollExchanges(s)
    PROVE  LoginIInv'
<1>1. /\ session \in [Session -> SessionRecord] /\ timers \subseteq Timer
      /\ exchanging \in [Session -> 0 .. MaxCodes] /\ delivered \in [Session -> 0 .. MaxCodes]
      /\ exchanged \in [Session -> Nat] /\ server \in BOOLEAN
  BY Zenon DEF LoginIInv, LoginTypeOK, SessionRecord, Timer
<1>2. /\ session[s].at = "known" /\ session' = [session EXCEPT ![s].code = FALSE]
      /\ exchanging' = [exchanging EXCEPT ![s] = @ + 1]
      /\ exchanged' = [exchanged EXCEPT ![s] = @ + 1]
      /\ \/ session[s].code /\ delivered' = delivered
         \/ delivered[s] < MaxCodes /\ delivered' = [delivered EXCEPT ![s] = @ + 1]
      /\ UNCHANGED <<server, count, timers, sinceEvict>>
  BY Zenon DEF PollExchanges, CanPoll, Known, Taken, callback
<1>3. /\ session' \in [Session -> SessionRecord] /\ session'[s].at = session[s].at
      /\ session'[s].mode = session[s].mode /\ session'[s].terminal = session[s].terminal
      /\ session'[s].age = session[s].age /\ ~session'[s].code
      /\ session'[s].state = session[s].state
      /\ \A x \in Session : x # s => session'[x] = session[x]
  BY ZenonT(60), <1>1, <1>2 DEF SessionRecord
<1>4. /\ delivered' \in [Session -> 0 .. MaxCodes] /\ delivered'[s] \in {delivered[s], delivered[s] + 1}
      /\ ~session[s].code => delivered'[s] = delivered[s] + 1
      /\ \A x \in Session : x # s => delivered'[x] = delivered[x]
  BY <1>1, <1>2, LoginAssumption
<1>5. /\ exchanged' \in [Session -> Nat] /\ exchanged'[s] = exchanged[s] + 1
      /\ \A x \in Session : x # s => exchanged'[x] = exchanged[x]
  BY <1>1, <1>2
<1>6. /\ exchanging[s] <= exchanged[s] /\ exchanged[s] <= delivered[s]
      /\ session[s].code => exchanged[s] < delivered[s]
      /\ exchanging[s] \in Nat /\ exchanged[s] \in Nat /\ delivered[s] \in Nat
      /\ delivered'[s] \in 0 .. MaxCodes /\ MaxCodes \in Nat
  BY <1>1, <1>4, LoginAssumption DEF LoginIInv, CodesTaken
<1>7. exchanged[s] + 1 <= delivered'[s]  BY <1>4, <1>6
<1>8. /\ exchanging' \in [Session -> 0 .. MaxCodes] /\ exchanging'[s] = exchanging[s] + 1
      /\ \A x \in Session : x # s => exchanging'[x] = exchanging[x]
  <2>1. exchanging[s] + 1 \in 0 .. MaxCodes  BY <1>6, <1>7
  <2> QED  BY Zenon, <1>1, <1>2, <2>1
<1>9. CodesTaken'
  <2>1. /\ exchanging'[s] <= exchanged'[s] /\ exchanged'[s] <= delivered'[s] /\ ~session'[s].code
    BY <1>3, <1>5, <1>6, <1>7, <1>8
  <2> QED  BY Zenon, <1>3, <1>4, <1>5, <1>8, <2>1 DEF LoginIInv, CodesTaken
<1>10. IdleServerIsTimed'
  <2>1. Building' = Building  BY Zenon, <1>3 DEF Building
  <2> QED  BY Zenon, <1>2, <2>1 DEF LoginIInv, IdleServerIsTimed
<1>11. (s \in WaitingIn(session')) <=> (s \in WaitingIn(session))  BY Zenon, <1>3 DEF WaitingIn
<1>12. session'[s].terminal => session'[s].state # "pending"  BY Zenon, <1>3 DEF LoginIInv, SessionForms
<1> QED
  BY Zenon, <1>1, <1>2, <1>3, <1>4, <1>5, <1>8, <1>9, <1>10, <1>11, <1>12, PlainSessionStep

LEMMA EndsStep ==
    ASSUME LoginIInv, NEW s \in Session, NEW ok \in BOOLEAN,
           Cancel(s) \/ PollExpires(s) \/ PollDeviceFails(s) \/ ExchangeReturns(s, ok)
    PROVE  LoginIInv'
<1>1. exchanging \in [Session -> 0 .. MaxCodes] /\ \A x \in Session : exchanging[x] <= exchanging[x]
  BY DEF LoginIInv, LoginTypeOK
<1>2. CASE Cancel(s) \/ PollExpires(s) \/ PollDeviceFails(s)
  <2>1. /\ s \in Known /\ UNCHANGED <<server, sinceEvict, exchanging, delivered, exchanged>>
        /\ \E st \in {"canceled", "expired", "failed"} : setTerminalState(s, st)
    BY Zenon, <1>2 DEF Cancel, PollExpires, PollDeviceFails, CanPoll, tokens
  <2> QED  BY Zenon, <1>1, <2>1, TerminalStep
<1>3. CASE ExchangeReturns(s, ok)
  <2>1. /\ exchanging[s] > 0 /\ exchanging' = [exchanging EXCEPT ![s] = @ - 1]
        /\ UNCHANGED <<server, sinceEvict, delivered, exchanged>>
    BY Zenon, <1>3 DEF ExchangeReturns
  <2>2. /\ exchanging' \in [Session -> 0 .. MaxCodes]
        /\ \A x \in Session : exchanging'[x] <= exchanging[x]
    BY <1>1, <2>1, LoginAssumption
  <2>3. CASE s \in Known
    <3>1. \E st \in {"succeeded", "failed"} : setTerminalState(s, st)
      BY Zenon, <1>3, <2>3 DEF ExchangeReturns
    <3> QED  BY Zenon, <2>1, <2>2, <2>3, <3>1, TerminalStep
  <2>4. CASE s \notin Known
    <3>1. UNCHANGED <<session, count, timers>>  BY Zenon, <1>3, <2>4 DEF ExchangeReturns
    <3>2. LoginTypeOK'  BY Zenon, <2>1, <2>2, <3>1 DEF LoginIInv, LoginTypeOK
    <3>3. CountMatchesWaiting' /\ IdleServerIsTimed' /\ SessionForms'
      BY Zenon, <2>1, <3>1 DEF LoginIInv, CountMatchesWaiting, Waiting, IdleServerIsTimed, Building, SessionForms
    <3>4. \A x \in Session : exchanging[x] \in Nat /\ exchanging'[x] \in Nat /\ exchanged[x] \in Nat
      BY <1>1, <2>2 DEF LoginIInv, LoginTypeOK
    <3>5. CodesTaken'  BY <2>1, <2>2, <3>1, <3>4 DEF LoginIInv, CodesTaken
    <3> QED  BY Zenon, <3>2, <3>3, <3>5 DEF LoginIInv
  <2> QED  BY Zenon, <2>3, <2>4
<1> QED  BY Zenon, <1>2, <1>3

LEMMA MinuteStep ==
    ASSUME LoginIInv, Minute
    PROVE  /\ LoginIInv'
           /\ \A s \in Session : session'[s].state = session[s].state /\ exchanged'[s] = exchanged[s]
<1>1. /\ session \in [Session -> SessionRecord] /\ timers \subseteq Timer /\ sinceEvict \in 0 .. EvictEvery
  BY Zenon DEF LoginIInv, LoginTypeOK, SessionRecord, Timer
<1>2. /\ sinceEvict' = sinceEvict + 1 /\ ~(sinceEvict >= EvictEvery)
      /\ timers' = {[t EXCEPT !.left = @ - 1] : t \in timers} /\ \A t \in timers : t.left # 0
      /\ UNCHANGED <<server, count, exchanging, delivered, exchanged>>
  BY Zenon DEF Minute, Due, tokens
<1>3. \A s \in Session :
          /\ session'[s] \in SessionRecord
          /\ session'[s].at = session[s].at /\ session'[s].mode = session[s].mode
          /\ session'[s].terminal = session[s].terminal /\ session'[s].state = session[s].state
          /\ session'[s].code = session[s].code
          /\ session[s].at # "known" => session'[s].age = session[s].age
  <2> SUFFICES ASSUME NEW s \in Session
               PROVE  /\ session'[s] \in SessionRecord
                      /\ session'[s].at = session[s].at /\ session'[s].mode = session[s].mode
                      /\ session'[s].terminal = session[s].terminal /\ session'[s].state = session[s].state
                      /\ session'[s].code = session[s].code
                      /\ session[s].at # "known" => session'[s].age = session[s].age
    BY Zenon
  <2>1. session[s] \in SessionRecord  BY Zenon, <1>1
  <2>2. CASE session[s].at = "known" /\ session[s].age <= SessionTTL
    <3>1. session'[s] = [session[s] EXCEPT !.age = @ + 1]  BY Zenon, <2>2 DEF Minute
    <3>2. session[s].age + 1 \in 0 .. (SessionTTL + 1)
      BY <2>1, <2>2, LoginAssumption DEF SessionRecord
    <3> QED  BY Zenon, <2>1, <2>2, <3>1, <3>2 DEF SessionRecord
  <2>3. CASE ~(session[s].at = "known" /\ session[s].age <= SessionTTL)
    <3>1. session'[s] = session[s]  BY Zenon, <2>3 DEF Minute
    <3> QED  BY Zenon, <2>1, <3>1
  <2> QED  BY Zenon, <2>2, <2>3
<1>4. session' \in [Session -> SessionRecord]
  <2>1. session' = [s \in Session |-> session'[s]]  BY Zenon DEF Minute
  <2> QED  BY Zenon, <1>3, <2>1
<1>5. timers' \subseteq Timer /\ (timers # {} => timers' # {})
  <2>1. \A t \in timers : [t EXCEPT !.left = @ - 1] \in Timer
    BY <1>1, <1>2, LoginAssumption DEF Timer
  <2> QED  BY Zenon, <1>2, <2>1
<1>6. sinceEvict' \in 0 .. EvictEvery  BY <1>1, <1>2, LoginAssumption
<1>7. LoginTypeOK'  BY Zenon, <1>2, <1>4, <1>5, <1>6 DEF LoginIInv, LoginTypeOK, SessionRecord, Timer
<1>8. CountMatchesWaiting'
  <2>1. {s \in Session : Waiting(s)}' = {s \in Session : Waiting(s)}  BY Zenon, <1>3 DEF Waiting
  <2> QED  BY Zenon, <1>2, <2>1 DEF LoginIInv, CountMatchesWaiting
<1>9. IdleServerIsTimed'
  <2>1. Building' = Building  BY Zenon, <1>3 DEF Building
  <2> QED  BY Zenon, <1>2, <1>5, <2>1 DEF LoginIInv, IdleServerIsTimed
<1>10. SessionForms'  BY Zenon, <1>3 DEF LoginIInv, SessionForms
<1>11. CodesTaken'  BY Zenon, <1>2, <1>3 DEF LoginIInv, CodesTaken
<1> QED  BY Zenon, <1>2, <1>3, <1>7, <1>8, <1>9, <1>10, <1>11 DEF LoginIInv

LEMMA EvictTickStep ==
    ASSUME LoginIInv, EvictTick
    PROVE  LoginIInv'
<1>1. /\ session \in [Session -> SessionRecord] /\ timers \subseteq Timer /\ count \in Nat
      /\ count = Cardinality(WaitingIn(session))
  BY Zenon DEF LoginIInv, LoginTypeOK, SessionRecord, Timer, CountMatchesWaiting, Waiting, WaitingIn
<1>2. /\ evictExpired(count, session, timers) /\ server' = server /\ UNCHANGED tokens
      /\ sinceEvict' \in 0 .. EvictEvery
  BY Zenon, LoginBounds DEF EvictTick
<1>3. \A s \in Session :
          /\ session[s].at \in {"absent", "building"} => ~session[s].terminal /\ session[s].age = 0
          /\ session[s].terminal => session[s].state # "pending"
          /\ session[s].code => session[s].code
  BY Zenon DEF LoginIInv, SessionForms
<1> QED  BY Zenon, <1>1, <1>2, <1>3, EvictStep

LEMMA IdleTimerStep ==
    ASSUME LoginIInv, IdleTimerFires
    PROVE  LoginIInv'
<1>1. PICK t \in timers :
          /\ IF StaysOpen THEN timers' = timers \ {t} /\ server' = server
             ELSE timers' = {[u EXCEPT !.ref = FALSE] : u \in timers \ {t}} /\ server' = FALSE
          /\ UNCHANGED <<session, count, sinceEvict, tokens>>
  BY Zenon DEF IdleTimerFires
<1>2. UNCHANGED <<session, count, sinceEvict, exchanging, delivered, exchanged>>
  BY Zenon, <1>1 DEF tokens
<1>3. timers \subseteq Timer  BY Zenon DEF LoginIInv, LoginTypeOK, Timer
<1>4. timers' \subseteq Timer /\ server' \in BOOLEAN /\ ~(server' /\ count = 0)
  <2>1. CASE StaysOpen  BY <1>1, <1>3, <2>1 DEF StaysOpen, LoginIInv, LoginTypeOK
  <2>2. CASE ~StaysOpen
    <3>1. \A u \in timers : [u EXCEPT !.ref = FALSE] \in Timer  BY Zenon, <1>3 DEF Timer
    <3>2. timers' = {[u EXCEPT !.ref = FALSE] : u \in timers \ {t}} /\ server' = FALSE
      BY Zenon, <1>1, <2>2
    <3>3. timers' \subseteq Timer  BY Zenon, <3>1, <3>2
    <3> QED  BY Zenon, <3>2, <3>3
  <2> QED  BY Zenon, <2>1, <2>2
<1>5. LoginTypeOK'  BY Zenon, <1>2, <1>4 DEF LoginIInv, LoginTypeOK, Timer
<1>6. CountMatchesWaiting' /\ SessionForms' /\ CodesTaken'
  BY Zenon, <1>2 DEF LoginIInv, CountMatchesWaiting, Waiting, SessionForms, CodesTaken
<1>7. IdleServerIsTimed'  BY Zenon, <1>2, <1>4 DEF IdleServerIsTimed
<1> QED  BY Zenon, <1>5, <1>6, <1>7 DEF LoginIInv

LEMMA LoginNextKeeps ==
    ASSUME LoginIInv, LoginNext \/ UNCHANGED loginVars
    PROVE  LoginIInv'
<1>1. CASE UNCHANGED loginVars
  <2>1. UNCHANGED <<session, server, count, timers, sinceEvict, exchanging, delivered, exchanged>>
    BY Zenon, <1>1 DEF loginVars, callback, tokens
  <2> QED
    BY Zenon, <2>1 DEF LoginIInv, LoginTypeOK, CountMatchesWaiting, Waiting, IdleServerIsTimed, Building,
                SessionForms, CodesTaken
<1>2. CASE LoginNext
  BY Zenon, <1>2, MinuteStep, EvictTickStep, IdleTimerStep, StartBrowserStep, BuildFailsStep,
     RegisterStep, CallbackStep, PollExchangesStep, EndsStep DEF LoginNext
<1> QED  BY Zenon, <1>1, <1>2

LEMMA LoginInvariance == LoginSpec => []LoginIInv
<1>1. LoginIInv /\ [LoginNext]_loginVars => LoginIInv'  BY Zenon, LoginNextKeeps
<1> QED  BY LoginStarts, <1>1, PTL DEF LoginSpec

(* For any number of sessions and any lifetimes, callbackActiveCount is    *)
(* the number of browser sessions that wait for their callback, whatever   *)
(* ended the others, and a callback server nobody waits for has a timer    *)
(* that will close it.                                                     *)
THEOREM CallbackServerCorrect == LoginSpec => []CallbackServerInv
<1>1. LoginIInv => CallbackServerInv  BY Zenon DEF LoginIInv, CallbackServerInv
<1> QED  BY <1>1, LoginInvariance, PTL

(* An authorization code is exchanged at most once, however many polls of  *)
(* its session overlap with the callback and with exchanges in flight.     *)
THEOREM CodesExchangedOnce == LoginSpec => []CodeExchangedOnce
<1>1. LoginIInv => CodeExchangedOnce  BY Zenon DEF LoginIInv, CodesTaken, CodeExchangedOnce
<1> QED  BY <1>1, LoginInvariance, PTL

(* No step makes a terminal session pending again or starts an exchange    *)
(* for it: late callbacks and polls of a canceled or expired session find  *)
(* it terminal.                                                            *)
THEOREM TerminalSessionsStay == LoginSpec => NoRevival
<1> DEFINE Stays == \A s \in Session : (session[s].terminal /\ session'[s].at = "known") =>
                        session'[s].state # "pending" /\ exchanged'[s] = exchanged[s]
<1>1. ASSUME LoginIInv, LoginNext PROVE Stays
  <2> SUFFICES ASSUME NEW x \in Session, session[x].terminal, session'[x].at = "known"
               PROVE  session'[x].state # "pending" /\ exchanged'[x] = exchanged[x]
    BY Zenon
  <2>2. session[x].state # "pending" /\ session \in [Session -> SessionRecord]
    BY Zenon, <1>1 DEF LoginIInv, SessionForms, LoginTypeOK, SessionRecord
  <2>4. exchanged'[x] = exchanged[x]
    <3>1. ASSUME NEW s \in Session, PollExchanges(s)  PROVE exchanged'[x] = exchanged[x]
      <4>1. s # x /\ exchanged' = [exchanged EXCEPT ![s] = @ + 1]
        BY Zenon, <2>2, <3>1 DEF PollExchanges, CanPoll
      <4> QED  BY Zenon, <1>1, <4>1 DEF LoginIInv, LoginTypeOK
    <3> QED
      BY Zenon, <1>1, <3>1 DEF LoginNext, Minute, EvictTick, IdleTimerFires, StartBrowser, BuildFails,
           RegisterBrowser, RegisterDevice, Cancel, PollExpires, PollDeviceFails, HandleCallback,
           ExchangeReturns, tokens
  <2>5. session'[x].state # "pending"
    <3>1. ASSUME NEW s \in Known, NEW st \in {"succeeded", "failed", "expired", "canceled"},
                 setTerminalState(s, st)
          PROVE  session'[x].state # "pending"
      <4>1. session' = [session EXCEPT ![s].state = st, ![s].terminal = TRUE] /\ s \in Session
        BY Zenon, <3>1 DEF setTerminalState, Known
      <4> QED  BY <2>2, <4>1 DEF SessionRecord
    <3>2. ASSUME NEW ss, session' = Purged(ss), ss[x] = session[x]
          PROVE  session'[x].state # "pending"
      BY Zenon, <2>2, <3>2, NewRecords DEF Purged
    <3>3. ASSUME NEW s \in Session, session[s].at \in {"absent", "building"}
          PROVE  s # x
      BY Zenon, <1>1, <3>3 DEF LoginIInv, SessionForms
    <3>4. ASSUME NEW s \in Session, StartBrowser(s) \/ BuildFails(s)
          PROVE  session'[x].state # "pending"
      <4>1. s # x  BY Zenon, <3>3, <3>4 DEF StartBrowser, BuildFails
      <4>2. session'[x] = session[x]  BY Zenon, <2>2, <3>4, <4>1 DEF StartBrowser, BuildFails
      <4> QED  BY Zenon, <2>2, <4>2
    <3>5. ASSUME NEW s \in Session, RegisterBrowser(s) \/ RegisterDevice(s)
          PROVE  session'[x].state # "pending"
      <4>1. PICK mode \in {"browser", "device"} : session' = Purged(Registered(s, mode))
        BY Zenon, <3>5 DEF RegisterBrowser, RegisterDevice, evictExpired
      <4>2. s # x  BY Zenon, <3>3, <3>5 DEF RegisterBrowser, RegisterDevice
      <4>3. Registered(s, mode)[x] = session[x]  BY Zenon, <2>2, <4>2 DEF Registered
      <4> QED  BY Zenon, <3>2, <4>1, <4>3
    <3>6. ASSUME NEW s \in Session, NEW ok \in BOOLEAN, HandleCallback(s, ok)
          PROVE  session'[x].state # "pending"
      <4>1. s \in Known /\ s # x  BY Zenon, <3>6 DEF HandleCallback, Accepts
      <4>2. CASE setTerminalState(s, "failed")  BY Zenon, <3>1, <4>1, <4>2
      <4>3. CASE session' = [session EXCEPT ![s].code = TRUE, ![s].state = "pending"]
        <5>1. session'[x] = session[x]  BY Zenon, <2>2, <4>1, <4>3
        <5> QED  BY Zenon, <2>2, <5>1
      <4> QED  BY Zenon, <3>6, <4>2, <4>3 DEF HandleCallback
    <3>7. ASSUME NEW s \in Session, PollExchanges(s)  PROVE session'[x].state # "pending"
      <4>1. s # x /\ session' = Taken(s)  BY Zenon, <2>2, <3>7 DEF PollExchanges, CanPoll
      <4>2. session'[x] = session[x]  BY Zenon, <2>2, <4>1 DEF Taken
      <4> QED  BY Zenon, <2>2, <4>2
    <3>8. ASSUME NEW s \in Session, NEW ok \in BOOLEAN,
                 Cancel(s) \/ PollExpires(s) \/ PollDeviceFails(s) \/ ExchangeReturns(s, ok)
          PROVE  session'[x].state # "pending"
      <4>1. \/ s \in Known /\ \E st \in {"succeeded", "failed", "expired", "canceled"} :
                                   setTerminalState(s, st)
            \/ session' = session
        BY Zenon, <3>8 DEF Cancel, PollExpires, PollDeviceFails, ExchangeReturns, CanPoll
      <4> QED  BY Zenon, <2>2, <3>1, <4>1
    <3>9. CASE Minute
      <4>1. session'[x].state = session[x].state  BY Zenon, <1>1, <3>9, MinuteStep
      <4> QED  BY Zenon, <2>2, <4>1
    <3>10. CASE EvictTick
      <4>1. session' = Purged(session)  BY Zenon, <3>10 DEF EvictTick, evictExpired
      <4> QED  BY Zenon, <2>2, <3>2, <4>1
    <3>11. CASE IdleTimerFires
      <4>1. session' = session  BY Zenon, <3>11 DEF IdleTimerFires
      <4> QED  BY Zenon, <2>2, <4>1
    <3> QED  BY Zenon, <1>1, <3>4, <3>5, <3>6, <3>7, <3>8, <3>9, <3>10, <3>11 DEF LoginNext
  <2> QED  BY Zenon, <2>4, <2>5
<1>2. LoginIInv /\ [LoginNext]_loginVars => [Stays]_loginVars  BY Zenon, <1>1
<1>3. NoRevival <=> [][Stays]_loginVars  BY Zenon DEF NoRevival
<1> QED  BY <1>2, <1>3, LoginInvariance, PTL DEF LoginSpec
=============================================================================
