------------------------------- MODULE MCPRun -------------------------------
(***************************************************************************)
(* The request-scoped MCP runtime (internal/mcp/run.go, client.go).        *)
(* openWith resolves the sources of a request one after another, required  *)
(* ones first: it opens a session, lists the tools page by page unless the *)
(* request carries the catalog, charges the catalog to the byte budgets    *)
(* and binds its tools.  The failure of a required source ends the request *)
(* and closes what was opened, the failure of an optional one drops it.    *)
(* LocalTools adds the exchange, which calls bound tools and closes the    *)
(* Run when it ends.                                                       *)
(***************************************************************************)
EXTENDS Integers, FiniteSets

CONSTANTS
    Source,          \* MCP sources a request may declare
    Cursor,          \* page cursors a server may return
    PageTools,       \* tools a page may carry
    PageBytes,       \* catalog bytes a page may carry
    RetainedBytes,   \* sizes of the catalog the Run may retain
    MaxSources,      \* MaxSourcesPerRequest
    MaxPages,        \* MaxListPages
    MaxTools,        \* MaxToolsPerSource
    MaxSourceBytes,  \* MaxCatalogBytesPerSource
    MaxRunBytes      \* MaxCatalogBytesPerRun

None == "none"

ASSUME MCPRunAssumption ==
    /\ IsFiniteSet(Source)
    /\ PageTools \subseteq Nat /\ PageBytes \subseteq Nat /\ RetainedBytes \subseteq Nat
    /\ None \notin Source
    /\ MaxSources \in Nat /\ MaxPages \in Nat /\ MaxTools \in Nat
    /\ MaxSourceBytes \in Nat /\ MaxRunBytes \in Nat

VARIABLES
    required,  \* sources the request cannot do without
    inactive,  \* sources the tool policy or an empty selection leaves unused
    waiting,   \* sources openWith has not looked at yet
    phase,     \* "validating", "opening", "open", "failed" or "closed"
    listing,   \* the catalog of the source being resolved, or NoListing
    sessions,  \* Run.sessions: sources whose session the Run owns
    live,      \* sources with an SDK session that was not closed
    bindings,  \* sources whose tools are bound for calls
    charged,   \* sources whose catalog the Run was charged for
    catalogBytes   \* bytes of the catalogs charged so far

budgetVars == <<charged, catalogBytes>>
mcpVars == <<required, inactive, waiting, phase, listing, sessions, live, bindings, budgetVars>>

NoListing == [source |-> None, pages |-> 0, tools |-> 0, bytes |-> 0, seen |-> {}]

MCPInit ==
    /\ required \in SUBSET Source
    /\ inactive \in SUBSET Source
    /\ waiting = Source
    /\ phase = "validating"
    /\ listing = NoListing
    /\ sessions = {} /\ live = {} /\ bindings = {}
    /\ charged = {} /\ catalogBytes = 0

-----------------------------------------------------------------------------
\* Mutant: sources in any order
NextSourceAnyOrder(x) == x \in waiting

\* requiredSourcesFirst
NextSource(x) ==
    /\ x \in waiting
    /\ x \in required \/ waiting \cap required = {}

\* Close: every session the Run owns
Close(held) == /\ live' = held \ sessions
               /\ sessions' = {}

\* The tool environment and the policy are valid, every source can be executed
\* locally, and at most MaxSources of them are active
Validate(valid) ==
    /\ phase = "validating"
    /\ phase' = IF valid /\ Cardinality(Source \ inactive) <= MaxSources
                THEN "opening" ELSE "failed"
    /\ UNCHANGED <<required, inactive, waiting, listing, sessions, live, bindings, budgetVars>>

Skip(x) ==
    /\ phase = "opening" /\ listing = NoListing
    /\ NextSource(x) /\ x \in inactive
    /\ waiting' = waiting \ {x}
    /\ UNCHANGED <<required, inactive, phase, listing, sessions, live, bindings, budgetVars>>

\* Mutant: the Run is abandoned as it is
SourceFailedLeaving(x, invariant, held) ==
    /\ waiting' = waiting \ {x}
    /\ listing' = NoListing
    /\ phase' = IF invariant \/ x \in required THEN "failed" ELSE phase
    /\ live' = held
    /\ UNCHANGED <<required, inactive, sessions, bindings, budgetVars>>

\* Mutant: a required source is dropped like an optional one
SourceFailedDropping(x, invariant, held) ==
    /\ waiting' = waiting \ {x}
    /\ listing' = NoListing
    /\ IF invariant
       THEN /\ phase' = "failed"
            /\ Close(held)
       ELSE /\ live' = held
            /\ UNCHANGED <<phase, sessions>>
    /\ UNCHANGED <<required, inactive, bindings, budgetVars>>

\* A source failed after its own session was closed; held are the live sessions
SourceFailed(x, invariant, held) ==
    /\ waiting' = waiting \ {x}
    /\ listing' = NoListing
    /\ IF invariant \/ x \in required
       THEN /\ phase' = "failed"
            /\ Close(held)
       ELSE /\ live' = held
            /\ UNCHANGED <<phase, sessions>>
    /\ UNCHANGED <<required, inactive, bindings, budgetVars>>

\* openSession refused the endpoint or could not connect
OpenFails(x, invariant) ==
    /\ phase = "opening" /\ listing = NoListing
    /\ NextSource(x) /\ x \notin inactive
    /\ SourceFailed(x, invariant, live)

OpenSession(x) ==
    /\ phase = "opening" /\ listing = NoListing
    /\ NextSource(x) /\ x \notin inactive
    /\ live' = live \cup {x}
    /\ listing' = [NoListing EXCEPT !.source = x]
    /\ UNCHANGED <<required, inactive, waiting, phase, sessions, bindings, budgetVars>>

Listing == phase = "opening" /\ listing # NoListing

\* toolListBounds; seen says that the cursor of the page was returned before
PageAdmitted(tools, bytes, seen) ==
    /\ listing.pages + 1 <= MaxPages
    /\ listing.tools + tools <= MaxTools
    /\ ~seen
    /\ listing.bytes <= MaxSourceBytes - bytes

\* The source of the listing failed and resolveRemoteSource closed its session
ListingFailed(invariant) ==
    SourceFailed(listing.source, invariant, live \ {listing.source})

\* Mutant: a page that is not admitted starts the listing again
ListPageRestarting(tools, bytes, cursor) ==
    /\ Listing
    /\ listing' = IF PageAdmitted(tools, bytes, cursor \in listing.seen)
                  THEN [listing EXCEPT !.pages = @ + 1, !.tools = @ + tools,
                                       !.bytes = @ + bytes, !.seen = @ \cup {cursor}]
                  ELSE [NoListing EXCEPT !.source = listing.source]
    /\ UNCHANGED <<required, inactive, waiting, phase, sessions, live, bindings, budgetVars>>

\* A page with a cursor to the next one
ListPage(tools, bytes, cursor) ==
    /\ Listing
    /\ IF PageAdmitted(tools, bytes, cursor \in listing.seen)
       THEN /\ listing' = [listing EXCEPT !.pages = @ + 1, !.tools = @ + tools,
                                          !.bytes = @ + bytes, !.seen = @ \cup {cursor}]
            /\ UNCHANGED <<required, inactive, waiting, phase, sessions, live,
                           bindings, budgetVars>>
       ELSE ListingFailed(FALSE)

\* ListTools failed, a tool is malformed or repeated, a selected one is missing
ListFails(invariant) ==
    /\ Listing
    /\ ListingFailed(invariant)

Chargeable(bytes) ==
    /\ bytes <= MaxSourceBytes
    /\ catalogBytes <= MaxRunBytes - bytes

\* The catalog retains bytes and its tools can be bound or not.  The bytes of
\* one that cannot be bound stay charged.
CatalogResolved(bytes, bindable) ==
    LET x == listing.source
    IN  IF ~Chargeable(bytes) THEN ListingFailed(FALSE)
        ELSE /\ charged' = charged \cup {x}
             /\ catalogBytes' = catalogBytes + bytes
             /\ waiting' = waiting \ {x}
             /\ listing' = NoListing
             /\ UNCHANGED <<required, inactive>>
             /\ \/ /\ bindable
                   /\ sessions' = sessions \cup {x}
                   /\ bindings' = bindings \cup {x}
                   /\ UNCHANGED <<phase, live>>
                \/ /\ ~bindable /\ x \in required
                   /\ phase' = "failed" /\ Close(live \ {x})
                   /\ UNCHANGED bindings
                \/ /\ ~bindable /\ x \notin required
                   /\ live' = live \ {x}
                   /\ UNCHANGED <<phase, sessions, bindings>>

\* The last page; the selected tools retain kept bytes of those listed
LastPage(tools, bytes, kept, bindable) ==
    /\ Listing
    /\ kept <= listing.bytes + bytes
    /\ IF PageAdmitted(tools, bytes, FALSE)
       THEN CatalogResolved(kept, bindable)
       ELSE ListingFailed(FALSE)

\* The request carries the catalog, which is not listed
CarriedCatalog(bytes, bindable) ==
    /\ Listing /\ listing.pages = 0
    /\ CatalogResolved(bytes, bindable)

\* applyCatalogs, rewriteAttempt and validateAttemptPolicy accept or refuse
FinishOpen(accepted) ==
    /\ phase = "opening" /\ waiting = {}
    /\ IF accepted THEN phase' = "open" /\ UNCHANGED <<sessions, live>>
                   ELSE phase' = "failed" /\ Close(live)
    /\ UNCHANGED <<required, inactive, waiting, listing, bindings, budgetVars>>

\* Run.Close, when the exchange ends; what only opening uses is forgotten
CloseRun ==
    /\ phase = "open"
    /\ phase' = "closed"
    /\ Close(live)
    /\ required' = {} /\ inactive' = {}
    /\ charged' = {} /\ catalogBytes' = 0
    /\ UNCHANGED <<waiting, listing, bindings>>

Opening ==
    \/ \E valid \in BOOLEAN : Validate(valid)
    \/ \E x \in Source : Skip(x) \/ OpenSession(x)
    \/ \E x \in Source, invariant \in BOOLEAN : OpenFails(x, invariant)
    \/ \E tools \in PageTools, bytes \in PageBytes, cursor \in Cursor :
          ListPage(tools, bytes, cursor)
    \/ \E tools \in PageTools, bytes \in PageBytes, kept \in RetainedBytes,
          bindable \in BOOLEAN : LastPage(tools, bytes, kept, bindable)
    \/ \E bytes \in RetainedBytes, bindable \in BOOLEAN : CarriedCatalog(bytes, bindable)
    \/ \E invariant \in BOOLEAN : ListFails(invariant)
    \/ \E accepted \in BOOLEAN : FinishOpen(accepted)

-----------------------------------------------------------------------------
MCPTypeOK ==
    /\ required \in SUBSET Source /\ inactive \in SUBSET Source
    /\ waiting \in SUBSET Source
    /\ phase \in {"validating", "opening", "open", "failed", "closed"}
    /\ listing \in [source : Source \cup {None}, pages : 0 .. MaxPages,
                    tools : 0 .. MaxTools, bytes : 0 .. MaxSourceBytes,
                    seen : SUBSET Cursor]
    /\ sessions \in SUBSET Source /\ live \in SUBSET Source
    /\ bindings \in SUBSET Source
    /\ charged \in SUBSET Source /\ catalogBytes \in Nat

\* Every session that was opened belongs to the Run or to the source being
\* resolved, whatever failed before, and none is left when opening failed or
\* the Run was closed.
EverySessionOwned ==
    /\ live = sessions \cup ({listing.source} \ {None})
    /\ phase \in {"failed", "closed"} => live = {}

\* While the Run is open a bound tool has its session, so that Call never
\* reports a source as unauthorized, and every required source that the policy
\* leaves active is bound.
BoundToolsCallable ==
    phase = "open" =>
        /\ bindings \subseteq live
        /\ required \ inactive \subseteq bindings

\* An optional catalog never uses up the budget a required one needs.
RequiredChargedFirst ==
    (waiting \cap required) \ inactive # {} =>
        charged \subseteq required

\* The catalogs of a Run fit its byte budget.
RunBytesBounded == catalogBytes <= MaxRunBytes

\* The listing stays within its page, tool and byte bounds (MCPTypeOK) and the
\* catalogs within the budget of the Run, required ones first.
CatalogBudgets == MCPTypeOK /\ RequiredChargedFirst /\ RunBytesBounded

\* What holds of the Run of one request, whatever its servers answer and
\* whichever source fails: its sessions, its bound tools and its budgets.
RunInv == EverySessionOwned /\ BoundToolsCallable /\ CatalogBudgets

\* Opening ends whatever the servers answer: a server that pages for ever
\* meets the page, tool, byte or cursor bound.
OpeningEnds == <>(phase \in {"open", "failed"})
=============================================================================
