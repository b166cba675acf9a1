-------------------------- MODULE LocalToolsProofs --------------------------
(***************************************************************************)
(* A request whose tools Swobu executes, from the opening of its MCP Run   *)
(* to the delivery of its response, for any set of sources, any budgets,   *)
(* any number of rounds and items and every delivery mode.                 *)
(*                                                                         *)
(* The Run: while it is being opened its bound sources are its sessions,   *)
(* the required ones among those it has looked at are bound, and nothing   *)
(* is charged to an optional one before the last required one (Resolved).  *)
(*                                                                         *)
(* The delivery: what the client was told depends on what can still come   *)
(* from upstream (Passing): nothing after the end reached the gate, only   *)
(* the failed end after an error, no second finish after a withheld one.   *)
(***************************************************************************)
EXTENDS LocalTools, SequenceTheorems, TLAPS

-----------------------------------------------------------------------------
(* The Run                                                                 *)

Resolved ==
    /\ MCPTypeOK
    /\ catalogBytes <= MaxRunBytes
    /\ listing.source = None => listing = NoListing
    /\ listing.source # None =>
          /\ phase = "opening" /\ listing.source \in waiting /\ listing.source \notin inactive
          /\ listing.source \in required \/ waiting \cap required = {}
    /\ live = sessions \cup ({listing.source} \ {None})
    /\ phase \in {"failed", "closed"} => sessions = {}
    /\ phase \in {"validating", "opening", "open"} => bindings = sessions
    /\ phase = "validating" => waiting = Source
    /\ phase \in {"opening", "open"} => (required \ inactive) \ waiting \subseteq sessions
    /\ phase = "open" => waiting = {}
    /\ sessions \cap waiting = {}
    /\ charged \subseteq required \/ waiting \cap required = {}

-----------------------------------------------------------------------------
(* The delivery                                                            *)

Validator == [open : BOOLEAN, identity : BOOLEAN, items : BOOLEAN, finish : BOOLEAN,
              error : BOOLEAN, usage : BOOLEAN, done : BOOLEAN]

TerminalStream == [terminated : BOOLEAN,
                   pending : {<<>>, <<"endError">>, <<"error", "endError">>}]

TerminalGate == [held : {<<>>, <<"finish">>},
                 pending : {<<>>, <<"endError">>, <<"error", "endError">>, <<"finish", "endError">>,
                            <<"endCompleted">>, <<"finish", "endCompleted">>},
                 terminal : BOOLEAN]

Types ==
    /\ mode \in Mode
    /\ at \in {"prefetch", "refused", "read", "pull", "gate", "encode", "done"}
    /\ ev \in Kinds \cup {"none"} /\ pulled \in 0 .. MaxItems
    /\ validated \in Validator
    /\ prefix \in Seq(Kinds) /\ Len(prefix) <= 5 + MaxItems
    /\ terminal \in TerminalStream
    /\ capture \in {"pending", "completed", "failed"} /\ put \in {"none", "ok", "failed"}
    /\ gate \in TerminalGate
    /\ shown \in Seq({"identity", "item", "failed", "completed"})
    /\ completion \in {"pending", "completed", "failed"}
    /\ projected \in BOOLEAN /\ refused \in BOOLEAN /\ gone \in BOOLEAN
    /\ ctxDone \in BOOLEAN /\ bodyClosed \in BOOLEAN /\ released \in BOOLEAN
    /\ result \in {"none", "succeeded", "client_cancelled", "client_write_failed",
                   "provider_stream_failed", "checkpoint_commit_failed"}

(* Nothing was delivered.                                                  *)
Untold ==
    /\ ev = "none" /\ terminal = [terminated |-> FALSE, pending |-> <<>>]
    /\ gate = [held |-> <<>>, pending |-> <<>>, terminal |-> FALSE]
    /\ capture = "pending" /\ put = "none"
    /\ shown = <<>> /\ ~projected /\ completion = "pending" /\ ~refused /\ result = "none"

(* The handoff prefix: a few first events, or a synthesized response.      *)
Prefixed ==
    /\ at \in {"prefetch", "refused"} =>
          prefix = IF validated.identity THEN <<"start", "identity">>
                   ELSE IF validated.open THEN <<"start">> ELSE <<>>
    /\ at = "prefetch" =>
          /\ ~validated.usage /\ ~validated.finish /\ ~validated.error /\ ~validated.done
          /\ validated.identity => validated.open
    /\ at \in {"prefetch", "refused"} /\ handoff # "prefetch" =>
          ~validated.open /\ ~validated.identity
    /\ handoff # "delayed" =>
          \A i \in 1 .. Len(prefix) : prefix[i] \in {"start", "identity", "item", "usage", "error"}
    /\ handoff = "delayed" =>
          /\ \A i \in 1 .. Len(prefix) :
                /\ prefix[i] \in {"start", "identity", "item", "usage", "finish", "endCompleted"}
                /\ prefix[i] = "endCompleted" => i = Len(prefix)
                /\ prefix[i] = "finish" => i = Len(prefix) - 1
          /\ terminal = [terminated |-> FALSE, pending |-> <<>>]
          /\ at \notin {"prefetch", "refused"} =>
                validated.done /\ validated.finish /\ ~validated.error
    /\ \A i \in 1 .. Len(prefix) :
          prefix[i] = "error" => validated.error /\ i = Len(prefix)

(* Nothing more reaches the gate.                                          *)
NoMore ==
    prefix = <<>> /\ terminal.pending = <<>> /\ (terminal.terminated \/ handoff = "delayed")

(* At most the failed end does.                                            *)
EndOnly ==
    /\ prefix = <<>> /\ handoff # "delayed"
    /\ IF terminal.terminated THEN terminal.pending # <<"error", "endError">>
       ELSE terminal.pending = <<>> /\ validated.error

(* No finish does.                                                         *)
NoFinish ==
    /\ \A i \in 1 .. Len(prefix) : prefix[i] # "finish"
    /\ handoff = "delayed" \/ validated.finish \/ terminal.terminated

Between == at \in {"gate", "encode"}

Passing ==
    /\ terminal.pending # <<>> => terminal.terminated
    /\ terminal.terminated => prefix = <<>>
    /\ put # "none" \/ gate.pending # <<>> => NoMore
    /\ Between /\ Terminates(ev) => NoMore
    /\ at = "gate" => put = "none" /\ gate.pending = <<>>
    /\ projected \/ (Between /\ ev = "error") => EndOnly \/ NoMore
    /\ projected /\ Between => ev \in {"finish", "error", "endError", "endCompleted"}
    /\ gate.held # <<>> \/ (at = "gate" /\ ev = "finish") => NoFinish
    /\ at = "gate" /\ ev = "finish" => gate.held = <<>>
    /\ at = "gate" /\ ev = "endCompleted" =>
          /\ ~projected
          /\ validated.done /\ validated.finish /\ ~validated.error
    /\ (at = "encode" /\ ev = "endCompleted") \/ gate.pending \in {<<"endCompleted">>, <<"finish", "endCompleted">>}
          => put = "ok" /\ ~projected
    /\ at = "encode" /\ gate.pending \in {<<"endCompleted">>, <<"finish", "endCompleted">>}
          => ev = "finish"
    /\ Between => ev # "none"
    /\ gate.terminal <=> put = "failed"
    /\ mode = "buffered" => ~projected

(* What the client, the cell and the store were told.                      *)
Told ==
    /\ ToldCompleted => put = "ok"
    /\ (\E i \in 1 .. Len(shown) : shown[i] \in {"failed", "completed"}) => projected \/ at = "done"
    /\ OneTerminalPerResponse
    /\ CheckpointIsWholeResponse
    /\ CompletionTruthful
    /\ CheckpointFailureReported
    /\ result # "none" <=> at = "done"

(* What the handoff was delayed for.                                       *)
Inside ==
    /\ handoff \in {"none", "prefetch", "delayed"}
    /\ handoff = "none" => at \in {"prefetch", "refused"}
    /\ handoff # "none" => phase \in {"open", "closed"}
    /\ handoff = "prefetch" => bindings = {}
    /\ phase # "closed" => at \in {"prefetch", "refused", "read"}
    /\ phase # "closed" \/ at \in {"prefetch", "refused"} => Untold
    /\ handoff = "delayed" =>
          /\ put # "failed" =>
                /\ gate.pending \in {<<>>, <<"endCompleted">>, <<"finish", "endCompleted">>}
                /\ Between => ev \notin {"error", "endError"}
          /\ \A i \in 1 .. Len(shown) : shown[i] = "failed" => put = "failed"
          /\ result = "provider_stream_failed" => refused \/ ToldCompleted

IInv == Resolved /\ Types /\ Prefixed /\ Passing /\ Told /\ Inside

-----------------------------------------------------------------------------
(* The Run: each step of openWith keeps Resolved                           *)

LEMMA SourceFailedStep ==
    ASSUME Resolved, phase = "opening", NEW x \in waiting, NEW invariant \in BOOLEAN, NEW held,
           x \in required \/ waiting \cap required = {},
           listing.source \in {x, None}, held = live \ {x},
           SourceFailed(x, invariant, held)
    PROVE  Resolved' /\ phase' \in {"opening", "failed"}
<1>1. /\ waiting' = waiting \ {x} /\ listing' = NoListing
      /\ UNCHANGED <<required, inactive, bindings, charged, catalogBytes>>
  BY Zenon DEF SourceFailed, budgetVars
<1>2. live \ {x} = sessions  BY Zenon DEF Resolved
<1>3. /\ NoListing.source = None
      /\ NoListing \in [source : Source \cup {None}, pages : 0 .. MaxPages,
                        tools : 0 .. MaxTools, bytes : 0 .. MaxSourceBytes, seen : SUBSET Cursor]
  BY MCPRunAssumption DEF NoListing
<1>4. CASE invariant \/ x \in required
  <2>1. phase' = "failed" /\ live' = {} /\ sessions' = {}
    BY Zenon, <1>2, <1>4 DEF SourceFailed, Close
  <2> QED  BY Zenon, <1>1, <1>3, <2>1 DEF Resolved, MCPTypeOK
<1>5. CASE ~(invariant \/ x \in required)
  <2>1. phase' = phase /\ live' = sessions /\ sessions' = sessions
    BY Zenon, <1>2, <1>5 DEF SourceFailed
  <2> QED  BY Zenon, <1>1, <1>3, <1>5, <2>1 DEF Resolved, MCPTypeOK
<1> QED  BY Zenon, <1>4, <1>5

LEMMA ListingFailedStep ==
    ASSUME Resolved, Listing, NEW invariant \in BOOLEAN, ListingFailed(invariant)
    PROVE  Resolved' /\ phase' \in {"opening", "failed"}
<1>1. listing.source # None  BY Zenon DEF Resolved, Listing
<1> QED  BY Zenon, <1>1, SourceFailedStep DEF Resolved, Listing, ListingFailed

LEMMA OpenSessionStep ==
    ASSUME Resolved, NEW x \in Source, Skip(x) \/ OpenSession(x)
    PROVE  Resolved' /\ phase' = "opening"
<1>1. NoListing.source = None /\ None # x  BY Zenon, MCPRunAssumption DEF NoListing
<1>2. CASE Skip(x)  BY Zenon, <1>1, <1>2 DEF Skip, NextSource, Resolved, MCPTypeOK, budgetVars
<1>3. CASE OpenSession(x)
  <2> DEFINE new == [NoListing EXCEPT !.source = x]
  <2>1. /\ new.source = x
        /\ new \in [source : Source \cup {None}, pages : 0 .. MaxPages, tools : 0 .. MaxTools,
                    bytes : 0 .. MaxSourceBytes, seen : SUBSET Cursor]
    BY MCPRunAssumption DEF NoListing
  <2>2. /\ phase = "opening" /\ listing.source = None /\ x \in waiting /\ x \notin inactive
        /\ x \in required \/ waiting \cap required = {}
        /\ live' = live \cup {x} /\ listing' = new
        /\ UNCHANGED <<required, inactive, waiting, phase, sessions, bindings, charged, catalogBytes>>
    BY Zenon, <1>1, <1>3 DEF OpenSession, NextSource, budgetVars
  <2> HIDE DEF new
  <2>3. MCPTypeOK'  BY Zenon, <2>1, <2>2 DEF Resolved, MCPTypeOK
  <2>4. live = sessions  BY Zenon, <2>2 DEF Resolved
  <2> QED  BY Zenon, <1>1, <2>1, <2>2, <2>3, <2>4 DEF Resolved
<1> QED  BY Zenon, <1>2, <1>3

LEMMA OpenFailsStep ==
    ASSUME Resolved, NEW x \in Source, NEW invariant \in BOOLEAN, OpenFails(x, invariant)
    PROVE  Resolved' /\ phase' \in {"opening", "failed"}
<1>1. listing.source = None /\ x \in waiting /\ phase = "opening"
  BY Zenon DEF OpenFails, NextSource, NoListing
<1>2. live \ {x} = live  BY Zenon, <1>1 DEF Resolved
<1> QED  BY Zenon, <1>1, <1>2, SourceFailedStep DEF OpenFails, NextSource

LEMMA ListPageStep ==
    ASSUME Resolved, NEW tools \in PageTools, NEW bytes \in PageBytes, NEW cursor \in Cursor,
           ListPage(tools, bytes, cursor)
    PROVE  Resolved' /\ phase' \in {"opening", "failed"}
<1>1. Listing  BY Zenon DEF ListPage
<1>2. CASE PageAdmitted(tools, bytes, cursor \in listing.seen)
  <2> DEFINE new == [listing EXCEPT !.pages = @ + 1, !.tools = @ + tools,
                                    !.bytes = @ + bytes, !.seen = @ \cup {cursor}]
  <2>1. /\ listing' = new
        /\ UNCHANGED <<required, inactive, waiting, phase, sessions, live, bindings,
                       charged, catalogBytes>>
    BY Zenon, <1>2 DEF ListPage, budgetVars
  <2>2. listing \in [source : Source \cup {None}, pages : 0 .. MaxPages, tools : 0 .. MaxTools,
                     bytes : 0 .. MaxSourceBytes, seen : SUBSET Cursor]
    BY Zenon DEF Resolved, MCPTypeOK
  <2>3. /\ listing.pages + 1 \in 0 .. MaxPages /\ listing.tools + tools \in 0 .. MaxTools
        /\ listing.bytes + bytes \in 0 .. MaxSourceBytes
    BY <1>2, <2>2, MCPRunAssumption DEF PageAdmitted
  <2>4. /\ new.source = listing.source
        /\ new \in [source : Source \cup {None}, pages : 0 .. MaxPages, tools : 0 .. MaxTools,
                    bytes : 0 .. MaxSourceBytes, seen : SUBSET Cursor]
    BY Zenon, <2>2, <2>3
  <2> HIDE DEF new
  <2>5. MCPTypeOK'  BY Zenon, <2>1, <2>4 DEF Resolved, MCPTypeOK
  <2>6. listing.source # None  BY Zenon, <1>1 DEF Resolved, Listing
  <2> QED  BY Zenon, <1>1, <2>1, <2>4, <2>5, <2>6 DEF Resolved, Listing
<1>3. CASE ~PageAdmitted(tools, bytes, cursor \in listing.seen)
  BY Zenon, <1>1, <1>3, ListingFailedStep DEF ListPage
<1> QED  BY Zenon, <1>2, <1>3

LEMMA CatalogResolvedStep ==
    ASSUME Resolved, Listing, NEW bytes \in RetainedBytes, NEW bindable \in BOOLEAN,
           CatalogResolved(bytes, bindable)
    PROVE  Resolved' /\ phase' \in {"opening", "failed"}
<1>1. CASE ~Chargeable(bytes)  BY Zenon, <1>1, ListingFailedStep DEF CatalogResolved
<1>2. CASE Chargeable(bytes)
  <2> DEFINE x == listing.source
  <2>1. /\ charged' = charged \cup {x} /\ catalogBytes' = catalogBytes + bytes
        /\ waiting' = waiting \ {x} /\ listing' = NoListing
        /\ UNCHANGED <<required, inactive>>
    BY Zenon, <1>2 DEF CatalogResolved
  <2>2. /\ NoListing.source = None
        /\ NoListing \in [source : Source \cup {None}, pages : 0 .. MaxPages,
                          tools : 0 .. MaxTools, bytes : 0 .. MaxSourceBytes, seen : SUBSET Cursor]
    BY MCPRunAssumption DEF NoListing
  <2>3. catalogBytes' \in Nat /\ catalogBytes' <= MaxRunBytes
    BY <1>2, <2>1, MCPRunAssumption DEF Chargeable, Resolved, MCPTypeOK
  <2>4. /\ x # None /\ x \in Source /\ x \in waiting /\ phase = "opening"
        /\ x \in required \/ waiting \cap required = {}
        /\ live = sessions \cup {x} /\ x \notin sessions
    BY Zenon DEF Listing, Resolved, MCPTypeOK
  <2> HIDE DEF x
  <2>5. CASE bindable
    <3>1. sessions' = sessions \cup {x} /\ bindings' = bindings \cup {x} /\ UNCHANGED <<phase, live>>
      BY Zenon, <1>2, <2>5 DEF CatalogResolved, x
    <3>2. MCPTypeOK'  BY Zenon, <2>1, <2>2, <2>3, <2>4, <3>1 DEF Resolved, MCPTypeOK
    <3> QED  BY Zenon, <2>1, <2>2, <2>3, <2>4, <3>1, <3>2 DEF Resolved
  <2>6. CASE ~bindable /\ x \in required
    <3>1. phase' = "failed" /\ live' = {} /\ sessions' = {} /\ bindings' = bindings
      BY Zenon, <1>2, <2>4, <2>6 DEF CatalogResolved, Close, x
    <3>2. MCPTypeOK'  BY Zenon, <2>1, <2>2, <2>3, <2>4, <3>1 DEF Resolved, MCPTypeOK
    <3> QED  BY Zenon, <2>1, <2>2, <2>3, <2>4, <2>6, <3>1, <3>2 DEF Resolved
  <2>7. CASE ~bindable /\ x \notin required
    <3>1. live' = sessions /\ UNCHANGED <<phase, sessions, bindings>>
      BY Zenon, <1>2, <2>4, <2>7 DEF CatalogResolved, x
    <3>2. MCPTypeOK'  BY Zenon, <2>1, <2>2, <2>3, <2>4, <3>1 DEF Resolved, MCPTypeOK
    <3> QED  BY Zenon, <2>1, <2>2, <2>3, <2>4, <2>7, <3>1, <3>2 DEF Resolved
  <2> QED  BY Zenon, <2>5, <2>6, <2>7
<1> QED  BY Zenon, <1>1, <1>2

LEMMA OpeningStep ==
    ASSUME Resolved, Opening
    PROVE  /\ Resolved' /\ phase \in {"validating", "opening"}
           /\ phase' \in {"opening", "open", "failed"}
<1>1. ASSUME NEW valid \in BOOLEAN, Validate(valid)  PROVE Resolved' /\ phase = "validating" /\ phase' \in {"opening", "failed"}
  BY Zenon, <1>1 DEF Validate, Resolved, MCPTypeOK, budgetVars
<1>2. ASSUME NEW accepted \in BOOLEAN, FinishOpen(accepted)  PROVE Resolved' /\ phase' \in {"open", "failed"}
  <2>1. listing.source = None /\ live = sessions  BY Zenon, <1>2 DEF FinishOpen, Resolved
  <2> QED  BY Zenon, <1>2, <2>1 DEF FinishOpen, Close, Resolved, MCPTypeOK, budgetVars
<1>3. ASSUME NEW tools \in PageTools, NEW bytes \in PageBytes, NEW kept \in RetainedBytes,
             NEW bindable \in BOOLEAN, LastPage(tools, bytes, kept, bindable)
      PROVE  Resolved' /\ phase' \in {"opening", "failed"}
  BY Zenon, <1>3, CatalogResolvedStep, ListingFailedStep DEF LastPage
<1>4. ASSUME NEW bytes \in RetainedBytes, NEW bindable \in BOOLEAN, CarriedCatalog(bytes, bindable)
      PROVE  Resolved' /\ phase' \in {"opening", "failed"}
  BY Zenon, <1>4, CatalogResolvedStep DEF CarriedCatalog
<1>5. ASSUME NEW invariant \in BOOLEAN, ListFails(invariant)
      PROVE  Resolved' /\ phase' \in {"opening", "failed"}
  BY Zenon, <1>5, ListingFailedStep DEF ListFails
<1>6. phase \in {"validating", "opening"}
  BY Zenon DEF Opening, Validate, Skip, OpenSession, OpenFails, ListPage, LastPage, CarriedCatalog,
         ListFails, FinishOpen, Listing
<1> QED  BY Zenon, <1>1, <1>2, <1>3, <1>4, <1>5, <1>6, OpenSessionStep, OpenFailsStep, ListPageStep DEF Opening

LEMMA CloseRunStep ==
    ASSUME Resolved, CloseRun
    PROVE  Resolved' /\ phase' = "closed"
<1>1. listing.source = None  BY Zenon DEF CloseRun, Resolved
<1> QED  BY <1>1, MCPRunAssumption DEF CloseRun, Close, Resolved, MCPTypeOK

-----------------------------------------------------------------------------
(* The delivery                                                            *)

LEMMA Tuples ==
    /\ \A e, f : <<e>> # <<>> /\ <<e, f>> # <<>> /\ Len(<<e>>) = 1 /\ Len(<<e, f>>) = 2
    /\ \A e, f : Head(<<e>>) = e /\ Head(<<e, f>>) = e
    /\ \A e, f : Tail(<<e>>) = <<>> /\ Tail(<<e, f>>) = <<f>>
    /\ \A e, f, g : <<e>> # <<f, g>> /\ (<<e>> = <<f>> => e = f)
    /\ \A e, f, g, h : <<e, f>> = <<g, h>> => e = g /\ f = h
OBVIOUS

LEMMA Appended ==
    ASSUME NEW e, NEW f
    PROVE  Append(<<>>, f) = <<f>> /\ Append(<<e>>, f) = <<e, f>>
<1> DEFINE q == Append(<<e>>, f)
<1>1. <<e>> \in Seq({e, f}) /\ Len(<<e>>) = 1 /\ <<e>>[1] = e  OBVIOUS
<1>2. q \in Seq({e, f}) /\ Len(q) = 2 /\ q[1] = e /\ q[2] = f  BY <1>1
<1>3. <<e, f>> \in Seq({e, f}) /\ Len(<<e, f>>) = 2 /\ <<e, f>>[1] = e /\ <<e, f>>[2] = f  OBVIOUS
<1>4. \A i \in 1 .. 2 : i = 1 \/ i = 2  OBVIOUS
<1>5. Append(<<>>, f) = <<f>>  OBVIOUS
<1> HIDE DEF q
<1>6. q = <<e, f>>  BY Zenon, <1>2, <1>3, <1>4, SeqEqual
<1> QED  BY Zenon, <1>5, <1>6 DEF q

(* What the gate may hold ready.                                           *)
LEMMA PendingsDiffer ==
    /\ <<"endCompleted">> \notin {<<>>, <<"endError">>, <<"error", "endError">>,
                                 <<"finish", "endError">>, <<"finish", "endCompleted">>}
    /\ <<"finish", "endCompleted">> \notin {<<>>, <<"endError">>, <<"error", "endError">>,
                                           <<"finish", "endError">>}
    /\ <<"endError">> \notin {<<>>, <<"error", "endError">>, <<"finish", "endError">>}
    /\ <<"error", "endError">> \notin {<<>>, <<"finish", "endError">>}
    /\ <<"finish", "endError">> # <<>>
BY Zenon, Tuples

(* The head and the tail of a sequence.                                    *)
LEMMA HeadTail ==
    ASSUME NEW S, NEW q \in Seq(S), q # <<>>
    PROVE  /\ Head(q) = q[1] /\ Head(q) \in S /\ Tail(q) \in Seq(S)
           /\ Len(q) \in Nat /\ Len(q) > 0 /\ Len(Tail(q)) = Len(q) - 1
           /\ \A i \in 1 .. Len(Tail(q)) : Tail(q)[i] = q[i + 1] /\ i + 1 \in 1 .. Len(q)
OBVIOUS

LEMMA InitHolds == RequestInit => IInv
<1> SUFFICES ASSUME RequestInit PROVE IInv  BY Zenon
<1> USE DEF RequestInit, MCPInit, Init
<1>1. Resolved
  <2>1. /\ NoListing.source = None
        /\ NoListing \in [source : Source \cup {None}, pages : 0 .. MaxPages,
                          tools : 0 .. MaxTools, bytes : 0 .. MaxSourceBytes, seen : SUBSET Cursor]
    BY MCPRunAssumption DEF NoListing
  <2> QED  BY <2>1, MCPRunAssumption DEF Resolved, MCPTypeOK
<1>2. NewValidator \in Validator /\ ~NewValidator.open /\ ~NewValidator.identity /\ ~NewValidator.usage
      /\ ~NewValidator.finish /\ ~NewValidator.error /\ ~NewValidator.done
  BY Zenon DEF NewValidator, Validator
<1>3. Types
  <2>1. gate \in TerminalGate  BY Zenon DEF TerminalGate
  <2>2. terminal \in TerminalStream  BY Zenon DEF TerminalStream
  <2>3. prefix \in Seq(Kinds) /\ Len(prefix) <= 5 + MaxItems  BY DeliveryAssumption
  <2>4. pulled \in 0 .. MaxItems /\ shown \in Seq({"identity", "item", "failed", "completed"})
    BY DeliveryAssumption
  <2>5. /\ projected \in BOOLEAN /\ refused \in BOOLEAN /\ gone \in BOOLEAN
        /\ ctxDone \in BOOLEAN /\ bodyClosed \in BOOLEAN /\ released \in BOOLEAN
    BY Zenon
  <2> QED  BY Zenon, <1>2, <2>1, <2>2, <2>3, <2>4, <2>5 DEF Types
<1>4. Prefixed  BY <1>2 DEF Prefixed
<1>5. Passing  BY Zenon DEF Passing, Between
<1>6. Told
  BY DEF Told, ToldCompleted, OneTerminalPerResponse, CheckpointIsWholeResponse,
         CompletionTruthful, CheckpointFailureReported
<1>7. Inside  BY Zenon DEF Inside, Untold
<1> QED  BY Zenon, <1>1, <1>3, <1>4, <1>5, <1>6, <1>7 DEF IInv

LEMMA DeliveryStutter ==
    ASSUME Types, Prefixed, Passing, Told, UNCHANGED <<vars, handoff>>
    PROVE  (Types /\ Prefixed /\ Passing /\ Told)'
<1>1. /\ UNCHANGED <<mode, at, ev, pulled, validated, prefix, terminal, capture, gate, put>>
      /\ UNCHANGED <<shown, projected, completion, refused, gone, ctxDone, bodyClosed, released>>
      /\ UNCHANGED <<result, handoff>>
  BY Zenon DEF vars, streams, checkpoint, client, connection
<1>2. Types'  BY <1>1 DEF Types
<1>3. Prefixed'  BY Zenon, <1>1 DEF Prefixed
<1>4. Passing'  BY <1>1 DEF Passing, NoMore, EndOnly, NoFinish, Between
<1>5. Told'
  BY Zenon, <1>1 DEF Told, ToldCompleted, OneTerminalPerResponse, CheckpointIsWholeResponse,
              CompletionTruthful, CheckpointFailureReported
<1> QED  BY Zenon, <1>2, <1>3, <1>4, <1>5

LEMMA ResolvedStutter ==
    ASSUME Resolved, UNCHANGED mcpVars
    PROVE  Resolved' /\ phase' = phase /\ bindings' = bindings
BY Zenon DEF Resolved, MCPTypeOK, mcpVars, budgetVars

(* A step of the delivery that leaves the Run alone.                       *)
Aside == UNCHANGED <<phase, bindings, handoff>>

(* The end of a delivery that shows the client nothing more.               *)
LEMMA Ends ==
    ASSUME Types, Prefixed, Passing, Told, Inside, phase = "closed", Aside,
           NEW kind \in {"succeeded", "client_cancelled", "client_write_failed",
                         "provider_stream_failed", "checkpoint_commit_failed"},
           Return(kind, Fail(completion)),
           UNCHANGED <<mode, ev, streams, gate, put, shown, projected>>,
           refused' \in BOOLEAN, at \notin {"prefetch", "refused"},
           capture' \in {"pending", "completed", "failed"}, capture' # capture => put = "none",
           put = "failed" /\ ~refused' =>
               kind \in {"checkpoint_commit_failed", "client_cancelled", "client_write_failed"},
           handoff = "delayed" /\ kind = "provider_stream_failed" => refused'
    PROVE  (Types /\ Prefixed /\ Passing /\ Told /\ Inside)'
<1>1. /\ result' = kind /\ at' = "done" /\ bodyClosed' = TRUE /\ released' = TRUE
      /\ completion' \in {"failed", "completed"} /\ (completion' = "completed" => completion = "completed")
      /\ UNCHANGED <<mode, ev, pulled, validated, prefix, terminal, gate, put, shown, projected>>
      /\ UNCHANGED <<gone, ctxDone, phase, bindings, handoff>>
  BY Zenon DEF Return, Fail, streams, Aside, Types
<1>2. Types'  BY <1>1 DEF Types
<1>3. Prefixed'  BY Zenon, <1>1 DEF Prefixed
<1>4. Passing'  BY <1>1 DEF Passing, NoMore, EndOnly, NoFinish, Between
<1>5. Told'
  BY Zenon, <1>1 DEF Told, ToldCompleted, OneTerminalPerResponse, CheckpointIsWholeResponse,
              CompletionTruthful, CheckpointFailureReported
<1>6. Inside'  BY Zenon, <1>1 DEF Inside, Between, ToldCompleted
<1> QED  BY Zenon, <1>2, <1>3, <1>4, <1>5, <1>6

(* A read that ends the delivery.                                          *)
LEMMA ReadEnds ==
    ASSUME Types, Prefixed, Passing, Told, Inside, phase = "closed", Aside,
           NEW err \in {"eof", "canceled", "checkpoint", "failed"}, ReadError(err),
           UNCHANGED <<mode, ev, streams, gate, put, shown, projected>>,
           refused' \in BOOLEAN, at \notin {"prefetch", "refused"},
           capture' \in {"pending", "completed", "failed"}, capture' # capture => put = "none",
           put = "failed" /\ ~refused' => err \in {"canceled", "checkpoint"},
           handoff = "delayed" /\ err = "failed" => refused'
    PROVE  (Types /\ Prefixed /\ Passing /\ Told /\ Inside)'
<1> DEFINE kind == IF err = "eof" THEN "succeeded" ELSE classifyDeliveryFailure(err)
<1>1. /\ kind \in {"succeeded", "client_cancelled", "client_write_failed",
                   "provider_stream_failed", "checkpoint_commit_failed"}
      /\ err \in {"canceled", "checkpoint"} => kind \in {"checkpoint_commit_failed", "client_cancelled"}
      /\ kind = "provider_stream_failed" => err = "failed"
  BY Zenon DEF classifyDeliveryFailure
<1>2. Return(kind, Fail(completion))  BY Zenon DEF ReadError
<1> HIDE DEF kind
<1> QED  BY Zenon, <1>1, <1>2, Ends

LEMMA EndSteps ==
    ASSUME Types, Prefixed, Passing, Told, Inside, phase = "closed", Aside,
           \/ ReadCancelled \/ GateReports \/ TerminalEnded \/ (SliceEnded /\ handoff = "delayed")
           \/ (ProviderCanceled /\ handoff # "delayed")
           \/ \E folds \in BOOLEAN : GateUncaptured(folds)
           \/ EncodeUnrepresentable \/ EncodeFails \/ DocumentFails \/ DocumentRefused
    PROVE  (Types /\ Prefixed /\ Passing /\ Told /\ Inside)'
<1>1. capture \in {"pending", "completed", "failed"} /\ refused \in BOOLEAN  BY Zenon DEF Types
<1>2. CASE ReadCancelled
  BY Zenon, <1>1, <1>2, ReadEnds DEF ReadCancelled, untouched, checkpoint
<1>3. CASE GateReports
  BY Zenon, <1>1, <1>3, ReadEnds DEF GateReports, untouched, checkpoint
<1>4. CASE TerminalEnded \/ SliceEnded
  <2>1. GatePulls /\ ReadError("eof") /\ UNCHANGED <<untouched, ev, streams>>
    BY Zenon, <1>4 DEF TerminalEnded, SliceEnded, ProviderPulled
  <2>2. put # "failed" /\ at \notin {"prefetch", "refused"}  BY Zenon, <2>1 DEF GatePulls, Passing
  <2> QED  BY Zenon, <1>1, <2>1, <2>2, ReadEnds DEF untouched, checkpoint
<1>5. CASE ProviderCanceled /\ handoff # "delayed"
  <2>1. put = "none"  BY Zenon, <1>5 DEF ProviderCanceled, ProviderPulled, GatePulls, Passing, NoMore
  <2> QED  BY Zenon, <1>1, <1>5, <2>1, ReadEnds DEF ProviderCanceled, ProviderPulled, GatePulls
<1>6. ASSUME NEW folds \in BOOLEAN, GateUncaptured(folds)
      PROVE  (Types /\ Prefixed /\ Passing /\ Told /\ Inside)'
  <2>1. put = "none"  BY Zenon, <1>6 DEF GateUncaptured, Passing
  <2>2. capture' \in {"pending", "completed", "failed"}  BY Zenon, <1>1, <1>6 DEF GateUncaptured, Captured
  <2> QED  BY Zenon, <1>1, <1>6, <2>1, <2>2, ReadEnds DEF GateUncaptured
<1>7. ASSUME EncodeUnrepresentable \/ DocumentFails
      PROVE  (Types /\ Prefixed /\ Passing /\ Told /\ Inside)'
  <2>1. /\ at = "encode" /\ ReadError(TerminalFailureCause)
        /\ UNCHANGED <<mode, ev, streams, checkpoint, shown, projected, refused>>
    BY Zenon, <1>7 DEF EncodeUnrepresentable, DocumentFails, Streaming
  <2>2. ev \in {"error", "endError"}
    <3>1. CASE DocumentFails  BY Zenon, <3>1 DEF DocumentFails
    <3>2. CASE EncodeUnrepresentable
      <4>1. Tokens(ev) = <<"failed">>  BY Zenon, <3>2 DEF EncodeUnrepresentable, Unrepresentable
      <4>2. /\ <<"completed">> # <<"failed">> /\ <<>> # <<"failed">>
            /\ ev \in {"identity", "item"} => <<ev>> # <<"failed">>
        BY Zenon, Tuples
      <4> QED  BY Zenon, <4>1, <4>2 DEF Tokens
    <3> QED  BY Zenon, <1>7, <3>1, <3>2
  <2>3. TerminalFailureCause = IF put = "failed" THEN "checkpoint" ELSE "failed"
    BY Zenon DEF TerminalFailureCause, Passing
  <2>4. handoff = "delayed" => put = "failed"  BY Zenon, <2>1, <2>2 DEF Inside, Between
  <2> QED  BY Zenon, <1>1, <2>1, <2>3, <2>4, ReadEnds DEF checkpoint
<1>8. ASSUME EncodeFails \/ DocumentRefused
      PROVE  (Types /\ Prefixed /\ Passing /\ Told /\ Inside)'
  BY Zenon, <1>1, <1>8, ReadEnds DEF EncodeFails, DocumentRefused, Streaming, checkpoint
<1> QED  BY Zenon, <1>2, <1>3, <1>4, <1>5, <1>6, <1>7, <1>8

(* The next pull, or the client or its watcher: no event moves.            *)
LEMMA QuietSteps ==
    ASSUME Types, Prefixed, Passing, Told, Inside, Aside,
           \/ phase = "closed" /\ (BeginPull \/ Collect \/ WatcherCloses)
           \/ ClientGone \/ ContextCancelled
    PROVE  (Types /\ Prefixed /\ Passing /\ Told /\ Inside)'
<1>1. /\ UNCHANGED <<mode, ev, pulled, validated, prefix, terminal, capture, gate, put, shown>>
      /\ UNCHANGED <<projected, refused, result, phase, bindings, handoff>>
      /\ at' = at \/ (at' = "pull" /\ at \in {"read", "encode"})
      /\ at' # at => phase = "closed"
      /\ completion' = completion \/ (completion' = "failed" /\ phase = "closed" /\ Handed)
      /\ gone' \in BOOLEAN /\ ctxDone' \in BOOLEAN /\ bodyClosed' \in BOOLEAN /\ released' \in BOOLEAN
  BY Zenon DEF BeginPull, Collect, WatcherCloses, ClientGone, ContextCancelled, streams, checkpoint,
         client, connection, Aside, Types, Fail
<1>2. Types'  BY <1>1 DEF Types
<1>3. Prefixed'  BY Zenon, <1>1 DEF Prefixed
<1>4. Passing'  BY Zenon, <1>1 DEF Passing, NoMore, EndOnly, NoFinish, Between
<1>5. Told'
  BY Zenon, <1>1 DEF Told, ToldCompleted, OneTerminalPerResponse, CheckpointIsWholeResponse,
              CompletionTruthful, CheckpointFailureReported
<1>6. Inside'  BY <1>1 DEF Inside, Untold, Between, ToldCompleted, Handed
<1> QED  BY Zenon, <1>2, <1>3, <1>4, <1>5, <1>6

LEMMA GateReplayStep ==
    ASSUME Types, Prefixed, Passing, Told, Inside, phase = "closed", Aside, GateReplay
    PROVE  (Types /\ Prefixed /\ Passing /\ Told /\ Inside)'
<1>1. /\ at = "pull" /\ at' = "encode" /\ gate.pending # <<>>
      /\ ev' = Head(gate.pending) /\ gate' = [gate EXCEPT !.pending = Tail(@)]
      /\ UNCHANGED <<mode, pulled, validated, prefix, terminal, capture, put, shown, projected>>
      /\ UNCHANGED <<completion, refused, gone, ctxDone, bodyClosed, released, result>>
      /\ UNCHANGED <<phase, bindings, handoff>>
  BY Zenon DEF GateReplay, streams, client, connection, Aside
<1> DEFINE p == gate.pending
           q == gate'.pending
<1>2. /\ gate' \in TerminalGate /\ gate'.held = gate.held /\ gate'.terminal = gate.terminal
      /\ \/ p = <<"endError">> /\ q = <<>> /\ ev' = "endError"
         \/ p = <<"error", "endError">> /\ q = <<"endError">> /\ ev' = "error"
         \/ p = <<"finish", "endError">> /\ q = <<"endError">> /\ ev' = "finish"
         \/ p = <<"endCompleted">> /\ q = <<>> /\ ev' = "endCompleted"
         \/ p = <<"finish", "endCompleted">> /\ q = <<"endCompleted">> /\ ev' = "finish"
  <2>1. gate \in TerminalGate  BY Zenon DEF Types
  <2>2. p \in {<<"endError">>, <<"error", "endError">>, <<"finish", "endError">>,
               <<"endCompleted">>, <<"finish", "endCompleted">>}
    BY Zenon, <1>1, <2>1 DEF TerminalGate
  <2>3. q = Tail(p) /\ gate'.held = gate.held /\ gate'.terminal = gate.terminal
    BY Zenon, <1>1, <2>1 DEF TerminalGate
  <2>4. \/ p = <<"endError">> /\ q = <<>> /\ ev' = "endError"
        \/ p = <<"error", "endError">> /\ q = <<"endError">> /\ ev' = "error"
        \/ p = <<"finish", "endError">> /\ q = <<"endError">> /\ ev' = "finish"
        \/ p = <<"endCompleted">> /\ q = <<>> /\ ev' = "endCompleted"
        \/ p = <<"finish", "endCompleted">> /\ q = <<"endCompleted">> /\ ev' = "finish"
    <3>1. ev' = Head(p) /\ q = Tail(p)  BY Zenon, <1>1, <2>3
    <3> HIDE DEF p, q
    <3>2. CASE p = <<"endError">>  BY Zenon, <3>1, <3>2, Tuples
    <3>3. CASE p = <<"error", "endError">>  BY <3>1, <3>3, Tuples
    <3>4. CASE p = <<"finish", "endError">>  BY <3>1, <3>4, Tuples
    <3>5. CASE p = <<"endCompleted">>  BY Zenon, <3>1, <3>5, Tuples
    <3>6. CASE p = <<"finish", "endCompleted">>  BY <3>1, <3>6, Tuples
    <3> QED  BY Zenon, <2>2, <3>2, <3>3, <3>4, <3>5, <3>6
  <2>5. gate' \in TerminalGate  BY Zenon, <1>1, <2>1, <2>3, <2>4 DEF TerminalGate
  <2> QED  BY Zenon, <2>3, <2>4, <2>5
<1>3. /\ ev' \in Kinds
      /\ q \in {<<"endCompleted">>, <<"finish", "endCompleted">>}
            => p = <<"finish", "endCompleted">> /\ ev' = "finish"
      /\ ev' = "endCompleted" => p = <<"endCompleted">>
      /\ p \in {<<"endCompleted">>, <<"finish", "endCompleted">>}
            => ev' \notin {"error", "endError"} /\ q \in {<<>>, <<"endCompleted">>}
  <2> HIDE DEF p, q
  <2> QED  BY Zenon, <1>2, PendingsDiffer DEF Kinds
<1> HIDE DEF p, q
<1>4. Types'  BY <1>1, <1>2, <1>3 DEF Types
<1>5. Prefixed'  BY Zenon, <1>1 DEF Prefixed
<1>6. NoMore'  BY Zenon, <1>1 DEF Passing, NoMore
<1>7. Passing'
  <2>1. /\ (put # "none" \/ gate.pending # <<>> => NoMore)' /\ (NoMore \/ EndOnly)'
        /\ (gate.held # <<>> => NoFinish)'
    BY Zenon, <1>1, <1>2, <1>6 DEF Passing, NoFinish
  <2>2. /\ (at = "encode" /\ ev = "endCompleted" => put = "ok" /\ ~projected)'
        /\ (q \in {<<"endCompleted">>, <<"finish", "endCompleted">>} => put = "ok" /\ ~projected /\ ev' = "finish")
    BY Zenon, <1>1, <1>3 DEF Passing, p
  <2>3. projected' => ev' \in {"finish", "error", "endError", "endCompleted"}  BY Zenon, <1>2
  <2> QED  BY Zenon, <1>1, <1>2, <1>3, <1>6, <2>1, <2>2, <2>3 DEF Passing, Between, q
<1>8. Told'
  BY Zenon, <1>1 DEF Told, ToldCompleted, OneTerminalPerResponse, CheckpointIsWholeResponse,
              CompletionTruthful, CheckpointFailureReported
<1>9. Inside'
  <2>1. handoff = "delayed" /\ put # "failed" =>
            q \in {<<>>, <<"endCompleted">>} /\ ev' \notin {"error", "endError"}
    BY Zenon, <1>1, <1>3 DEF Inside, p
  <2> QED  BY Zenon, <1>1, <2>1 DEF Inside, Between, ToldCompleted, q
<1> QED  BY Zenon, <1>4, <1>5, <1>7, <1>8, <1>9

(* The gate receives the event k from upstream.                            *)
LEMMA Receives ==
    ASSUME Types, Prefixed, Passing, Told, Inside, phase = "closed", Aside,
           GatePulls, NEW k \in Kinds, Received(k), ~NoMore,
           pulled' \in 0 .. MaxItems, validated' \in Validator, terminal' \in TerminalStream,
           prefix' \in Seq(Kinds), Len(prefix') <= 5 + MaxItems, Prefixed',
           terminal'.pending # <<>> => terminal'.terminated,
           terminal'.terminated => prefix' = <<>>,
           Terminates(k) => NoMore',
           k = "error" => (EndOnly \/ NoMore)',
           projected => k = "endError",
           k = "finish" \/ gate.held # <<>> => NoFinish',
           k = "finish" => gate.held = <<>>,
           k = "endCompleted" => validated'.done /\ validated'.finish /\ ~validated'.error,
           handoff = "delayed" => k \notin {"error", "endError"}
    PROVE  (Types /\ Prefixed /\ Passing /\ Told /\ Inside)'
<1>1. /\ at = "pull" /\ ev' = k /\ at' = "gate" /\ gate.pending = <<>>
      /\ UNCHANGED <<mode, capture, gate, put, shown, projected, completion, refused, gone>>
      /\ UNCHANGED <<ctxDone, bodyClosed, released, result, phase, bindings, handoff>>
  BY Zenon DEF GatePulls, Received, checkpoint, client, connection, Aside
<1>2. put = "none"  BY Zenon DEF Passing
<1>3. Types'  BY <1>1 DEF Types
<1>4. Passing'
  <2>1. (projected \/ (Between /\ ev = "error") => EndOnly \/ NoMore)'
    BY Zenon, <1>1 DEF Terminates
  <2>2. ev' # "none"  BY Zenon, <1>1 DEF Kinds
  <2> QED  BY Zenon, <1>1, <1>2, <2>1, <2>2, PendingsDiffer DEF Passing, Between
<1>5. Told'
  BY Zenon, <1>1, <1>2 DEF Told, ToldCompleted, OneTerminalPerResponse, CheckpointIsWholeResponse,
                    CompletionTruthful, CheckpointFailureReported
<1>6. Inside'
  BY Zenon, <1>1, <1>2 DEF Inside, Between, ToldCompleted
<1> QED  BY Zenon, <1>3, <1>4, <1>5, <1>6

LEMMA PrefixReplayStep ==
    ASSUME Types, Prefixed, Passing, Told, Inside, phase = "closed", Aside, PrefixReplay
    PROVE  (Types /\ Prefixed /\ Passing /\ Told /\ Inside)'
<1> DEFINE k == Head(prefix)
<1>1. /\ GatePulls /\ ~terminal.terminated /\ prefix # <<>> /\ Received(k) /\ prefix' = Tail(prefix)
      /\ at = "pull" /\ at' = "gate"
      /\ UNCHANGED <<pulled, validated, terminal, handoff>>
  BY Zenon DEF PrefixReplay, GatePulls, Received, Aside
<1>2. prefix \in Seq(Kinds) /\ Len(prefix) <= 5 + MaxItems /\ terminal \in TerminalStream  BY Zenon DEF Types
<1>3. /\ k = prefix[1] /\ k \in Kinds /\ prefix' \in Seq(Kinds) /\ Len(prefix) \in Nat
      /\ Len(prefix) > 0 /\ Len(prefix') = Len(prefix) - 1 /\ 1 \in 1 .. Len(prefix)
      /\ \A i \in 1 .. Len(prefix') : prefix'[i] = prefix[i + 1] /\ i + 1 \in 1 .. Len(prefix)
  BY <1>1, <1>2, HeadTail
<1> DEFINE m == Len(prefix)
<1> HIDE DEF k
<1>4. Len(prefix') <= 5 + MaxItems  BY <1>2, <1>3, DeliveryAssumption
<1>5. \A i \in 1 .. Len(prefix') : i + 1 = m <=> i = Len(prefix')  BY <1>3
<1>6. \A i \in 1 .. Len(prefix') : i + 1 = m - 1 <=> i = Len(prefix') - 1  BY <1>3
<1>7. Prefixed'
  <2>1. /\ handoff # "delayed" => \A i \in 1 .. Len(prefix') :
              prefix'[i] \in {"start", "identity", "item", "usage", "error"}
        /\ handoff = "delayed" => \A i \in 1 .. Len(prefix') :
              /\ prefix'[i] \in {"start", "identity", "item", "usage", "finish", "endCompleted"}
              /\ prefix'[i] = "endCompleted" => i = Len(prefix')
              /\ prefix'[i] = "finish" => i = Len(prefix') - 1
        /\ \A i \in 1 .. Len(prefix') : prefix'[i] = "error" => validated.error /\ i = Len(prefix')
    BY <1>3, <1>5, <1>6 DEF Prefixed
  <2> QED  BY Zenon, <1>1, <2>1 DEF Prefixed
<1>8. terminal.pending = <<>>  BY Zenon, <1>1 DEF Passing
<1>9. Len(prefix') = 0 => prefix' = <<>>  BY <1>3
<1>10. k \in {"endCompleted", "error"} => prefix' = <<>>
  <2>1. k \in {"endCompleted", "error"} => 1 = Len(prefix)  BY Zenon, <1>3 DEF Prefixed
  <2> QED  BY <1>3, <1>9, <2>1
<1>11. k # "endError"  BY Zenon, <1>3 DEF Prefixed
<1>12. Terminates(k) => NoMore'
  <2>1. k = "endCompleted" => handoff = "delayed"  BY Zenon, <1>3 DEF Prefixed
  <2> QED  BY Zenon, <1>1, <1>8, <1>10, <1>11, <2>1 DEF NoMore, Terminates
<1>13. k = "error" => EndOnly'
  <2>1. k = "error" => handoff # "delayed" /\ validated.error  BY Zenon, <1>3 DEF Prefixed
  <2> QED  BY Zenon, <1>1, <1>8, <1>10, <2>1 DEF EndOnly
<1>14. k = "finish" => NoFinish'
  <2>1. k = "finish" => handoff = "delayed" /\ 1 = m - 1  BY Zenon, <1>3 DEF Prefixed
  <2>2. ASSUME k = "finish"  PROVE \A i \in 1 .. Len(prefix') : prefix'[i] # "finish"
    <3>1. \A i \in 1 .. m : prefix[i] = "finish" => i = m - 1  BY Zenon, <2>1, <2>2 DEF Prefixed
    <3>2. m \in Nat /\ Len(prefix') = m - 1 /\ 1 = m - 1  BY Zenon, <1>3, <2>1, <2>2
    <3>3. \A i \in 1 .. Len(prefix') : prefix'[i] = prefix[i + 1] /\ i + 1 \in 1 .. m  BY Zenon, <1>3
    <3> HIDE DEF m
    <3>4. \A i \in 1 .. Len(prefix') : i + 1 # m - 1  BY ONLY <3>2
    <3> QED  BY Zenon, <3>1, <3>3, <3>4
  <2> QED  BY Zenon, <1>1, <2>1, <2>2 DEF NoFinish
<1>15. gate.held # <<>> => k # "finish" /\ NoFinish'
  <2>1. gate.held # <<>> => NoFinish  BY Zenon DEF Passing
  <2> QED  BY Zenon, <1>1, <1>3, <2>1 DEF NoFinish
<1>16. ~projected  BY Zenon, <1>1 DEF Passing, EndOnly, NoMore
<1>17. k = "endCompleted" => validated.done /\ validated.finish /\ ~validated.error
  BY Zenon, <1>1, <1>3 DEF Prefixed
<1>18. handoff = "delayed" => k # "error"  BY Zenon, <1>3 DEF Prefixed
<1>19. ~NoMore  BY Zenon, <1>1 DEF NoMore
<1>20. pulled' \in 0 .. MaxItems /\ validated' \in Validator /\ terminal' \in TerminalStream
  BY Zenon, <1>1 DEF Types
<1> QED  BY Zenon, <1>1, <1>3, <1>4, <1>7, <1>8, <1>11, <1>12, <1>13, <1>14, <1>15, <1>16, <1>17, <1>18,
            <1>19, <1>20, Receives

LEMMA TerminalReplayStep ==
    ASSUME Types, Prefixed, Passing, Told, Inside, phase = "closed", Aside, TerminalReplay
    PROVE  (Types /\ Prefixed /\ Passing /\ Told /\ Inside)'
<1> DEFINE k == Head(terminal.pending)
<1>1. /\ GatePulls /\ terminal.pending # <<>> /\ Received(k) /\ at = "pull" /\ at' = "gate"
      /\ terminal' = [terminal EXCEPT !.pending = Tail(@)]
      /\ UNCHANGED <<pulled, validated, prefix, handoff>>
  BY Zenon DEF TerminalReplay, GatePulls, Received, Aside
<1>2. terminal \in TerminalStream /\ terminal.terminated /\ prefix = <<>> /\ handoff # "delayed"
  BY <1>1 DEF Types, Passing, Prefixed
<1>3. /\ terminal' \in TerminalStream /\ terminal'.terminated
      /\ \/ k = "endError" /\ terminal'.pending = <<>>
         \/ k = "error" /\ terminal'.pending = <<"endError">>
  <2>1. terminal'.pending = Tail(terminal.pending) /\ terminal'.terminated = terminal.terminated
    BY Zenon, <1>1, <1>2 DEF TerminalStream
  <2>2. CASE terminal.pending = <<"endError">>
    <3>1. k = "endError" /\ terminal'.pending = <<>>  BY Zenon, <2>1, <2>2, Tuples
    <3> QED  BY Zenon, <1>1, <1>2, <2>1, <3>1 DEF TerminalStream
  <2>3. CASE terminal.pending = <<"error", "endError">>
    <3>1. k = "error" /\ terminal'.pending = <<"endError">>  BY <2>1, <2>3, Tuples
    <3> QED  BY Zenon, <1>1, <1>2, <2>1, <3>1 DEF TerminalStream
  <2> QED  BY Zenon, <1>1, <1>2, <2>2, <2>3 DEF TerminalStream
<1> HIDE DEF k
<1>4. k = "endError" => NoMore'  BY Zenon, <1>1, <1>2, <1>3 DEF NoMore
<1>5. k = "error" => EndOnly'  BY Zenon, <1>1, <1>2, <1>3, PendingsDiffer DEF EndOnly
<1>6. Prefixed'  BY Zenon, <1>1, <1>2 DEF Prefixed
<1>7. projected => k = "endError"
  <2>1. k = "error" => terminal.pending = <<"error", "endError">>
    BY <1>1, <1>2, Tuples DEF TerminalStream, k
  <2> QED  BY <1>2, <1>3, <2>1, Tuples DEF Passing, EndOnly, NoMore
<1>8. NoFinish'  BY <1>1, <1>2, <1>3 DEF NoFinish
<1>9. ~NoMore  BY Zenon, <1>1 DEF NoMore
<1>10. pulled' \in 0 .. MaxItems /\ validated' \in Validator /\ prefix' \in Seq(Kinds) /\ Len(prefix') <= 5 + MaxItems
  BY Zenon, <1>1 DEF Types
<1>11. k \in Kinds /\ (Terminates(k) <=> k = "endError")  BY Zenon, <1>3 DEF Kinds, Terminates
<1> QED  BY <1>1, <1>2, <1>3, <1>4, <1>5, <1>6, <1>7, <1>8, <1>9, <1>10, <1>11, Receives

(* The validator after a lawful event.                                     *)
LEMMA ApplyFacts ==
    ASSUME NEW v \in Validator, NEW k \in Kinds, Accepts(v, k)
    PROVE  /\ Apply(v, k) \in Validator
           /\ v.finish => Apply(v, k).finish
           /\ k = "finish" => ~v.finish /\ Apply(v, k).finish
           /\ k = "error" => Apply(v, k).error
           /\ k = "endCompleted" =>
                 Apply(v, k).done /\ Apply(v, k).finish /\ ~Apply(v, k).error
<1>1. CASE k = "start"  BY Zenon, <1>1 DEF Apply, Accepts, Validator
<1>2. CASE k = "identity"  BY Zenon, <1>2 DEF Apply, Accepts, Validator
<1>3. CASE k = "item"  BY Zenon, <1>3 DEF Apply, Accepts, Validator
<1>4. CASE k = "usage"  BY Zenon, <1>4 DEF Apply, Accepts, Validator
<1>5. CASE k = "finish"  BY Zenon, <1>5 DEF Apply, Accepts, Validator
<1>6. CASE k = "error"  BY Zenon, <1>6 DEF Apply, Accepts, Validator
<1>7. CASE k = "endCompleted"  BY Zenon, <1>7 DEF Apply, Accepts, Validator
<1>8. CASE k = "endError"  BY Zenon, <1>8 DEF Apply, Accepts, Validator
<1> QED  BY Zenon, <1>1, <1>2, <1>3, <1>4, <1>5, <1>6, <1>7, <1>8 DEF Kinds

LEMMA ProviderEventStep ==
    ASSUME Types, Prefixed, Passing, Told, Inside, phase = "closed", Aside,
           handoff # "delayed", NEW k \in Kinds, ProviderEvent(k)
    PROVE  (Types /\ Prefixed /\ Passing /\ Told /\ Inside)'
<1>1. /\ GatePulls /\ ~terminal.terminated /\ prefix = <<>> /\ Received(k)
      /\ at = "pull" /\ at' = "gate" /\ prefix' = prefix /\ handoff' = handoff
      /\ Queued(k) /\ Accepts(validated, k) /\ validated' = Apply(validated, k)
      /\ k = "item" => pulled < MaxItems
      /\ pulled' = IF k = "item" THEN pulled + 1 ELSE pulled
      /\ terminal' = [terminal EXCEPT !.terminated = Terminates(k)]
  BY Zenon DEF ProviderEvent, ProviderPulled, GatePulls, Received, Aside
<1>2. /\ validated \in Validator /\ terminal \in TerminalStream /\ pulled \in 0 .. MaxItems
      /\ prefix \in Seq(Kinds) /\ Len(prefix) <= 5 + MaxItems /\ terminal.pending = <<>>
  BY Zenon, <1>1 DEF Types, Passing
<1>3. /\ terminal' \in TerminalStream /\ terminal'.pending = <<>>
      /\ terminal'.terminated <=> Terminates(k)
  <2>1. PICK b \in BOOLEAN : b = Terminates(k)
    <3>1. Terminates(k) \in BOOLEAN  BY DEF Terminates
    <3> QED  BY Zenon, <3>1
  <2>2. terminal' = [terminal EXCEPT !.terminated = b]  BY Zenon, <1>1, <2>1
  <2>3. terminal' \in TerminalStream /\ terminal'.pending = <<>> /\ terminal'.terminated = b
    BY Zenon, <1>2, <2>2 DEF TerminalStream
  <2> QED  BY Zenon, <2>1, <2>3
<1>4. pulled' \in 0 .. MaxItems  BY <1>1, <1>2, DeliveryAssumption
<1>5. /\ validated' \in Validator
      /\ validated.finish => validated'.finish
      /\ k = "finish" => ~validated.finish /\ validated'.finish
      /\ k = "error" => validated'.error
      /\ k = "endCompleted" => validated'.done /\ validated'.finish /\ ~validated'.error
  BY Zenon, <1>1, <1>2, ApplyFacts
<1>6. Prefixed'  BY <1>1 DEF Prefixed
<1>7. Terminates(k) => NoMore'  BY Zenon, <1>1, <1>3 DEF NoMore
<1>8. k = "error" => EndOnly'  BY Zenon, <1>1, <1>3, <1>5 DEF EndOnly, Terminates
<1>9. projected => k = "endError"
  <2>1. projected => validated.error  BY Zenon, <1>1 DEF Passing, EndOnly, NoMore
  <2> QED  BY Zenon, <1>1, <2>1 DEF Queued
<1>10. gate.held # <<>> => validated.finish  BY Zenon, <1>1 DEF Passing, NoFinish
<1>11. k = "finish" \/ gate.held # <<>> => NoFinish'  BY <1>1, <1>5, <1>10 DEF NoFinish
<1>12. k = "finish" => gate.held = <<>>  BY Zenon, <1>5, <1>10
<1>13. ~NoMore  BY Zenon, <1>1 DEF NoMore
<1> QED  BY <1>1, <1>2, <1>3, <1>4, <1>5, <1>6, <1>7, <1>8, <1>9, <1>11, <1>12, <1>13, Receives

LEMMA ProviderFailsStep ==
    ASSUME Types, Prefixed, Passing, Told, Inside, phase = "closed", Aside,
           handoff # "delayed", ProviderFails
    PROVE  (Types /\ Prefixed /\ Passing /\ Told /\ Inside)'
<1>1. /\ at = "pull" /\ gate.pending = <<>> /\ ~terminal.terminated /\ prefix = <<>> /\ ~validated.error
      /\ terminal' = [terminated |-> TRUE, pending |-> <<"error", "endError">>]
      /\ UNCHANGED <<mode, at, ev, pulled, validated, prefix, capture, gate, put, shown, projected>>
      /\ UNCHANGED <<completion, refused, gone, ctxDone, bodyClosed, released, result>>
      /\ UNCHANGED <<phase, bindings, handoff>>
  BY Zenon DEF ProviderFails, ProviderPulled, GatePulls, CanFail, checkpoint, client, connection, Aside
<1>2. /\ terminal' \in TerminalStream /\ terminal'.terminated /\ terminal'.pending # <<>>
  BY Zenon, <1>1, Tuples DEF TerminalStream
<1>3. put = "none" /\ ~projected  BY Zenon, <1>1 DEF Passing, NoMore, EndOnly
<1>4. Types'  BY <1>1, <1>2 DEF Types
<1>5. Prefixed'  BY Zenon, <1>1 DEF Prefixed
<1>6. Passing'
  <2>1. terminal'.terminated /\ prefix' = <<>>  BY Zenon, <1>1, <1>2
  <2>2. NoFinish'  BY ONLY <2>1 DEF NoFinish
  <2> QED  BY Zenon, <1>1, <1>2, <1>3, <2>2, PendingsDiffer DEF Passing, Between
<1>7. Told'
  BY Zenon, <1>1 DEF Told, ToldCompleted, OneTerminalPerResponse, CheckpointIsWholeResponse,
              CompletionTruthful, CheckpointFailureReported
<1>8. Inside'  BY Zenon, <1>1 DEF Inside, Between, ToldCompleted
<1> QED  BY Zenon, <1>4, <1>5, <1>6, <1>7, <1>8

(* The gate withholds, passes on or releases the event it received.        *)
LEMMA Gates ==
    ASSUME Types, Prefixed, Passing, Told, Inside, phase = "closed", Aside,
           at = "gate", at' \in {"pull", "encode"},
           UNCHANGED <<mode, ev, streams, client, connection, result>>,
           capture' \in {"pending", "completed", "failed"}, put' \in {"none", "ok", "failed"},
           gate' \in TerminalGate,
           at' = "encode" => ev \notin {"endCompleted", "none"} /\ gate'.pending = <<>>,
           put' # "none" => capture' = "completed" /\ ev = "endCompleted",
           gate'.pending # <<>> => Terminates(ev),
           gate'.held # <<>> => NoFinish,
           gate'.pending \in {<<"endCompleted">>, <<"finish", "endCompleted">>}
               => put' = "ok" /\ ev = "endCompleted",
           gate'.terminal <=> put' = "failed",
           handoff = "delayed" /\ put' # "failed" =>
               gate'.pending \in {<<>>, <<"endCompleted">>, <<"finish", "endCompleted">>}
    PROVE  (Types /\ Prefixed /\ Passing /\ Told /\ Inside)'
<1>1. /\ UNCHANGED <<mode, ev, pulled, validated, prefix, terminal, shown, projected>>
      /\ UNCHANGED <<completion, refused, gone, ctxDone, bodyClosed, released, result>>
      /\ UNCHANGED <<phase, bindings, handoff>>
  BY Zenon DEF streams, client, connection, Aside
<1>2. put = "none" /\ result = "none"  BY Zenon DEF Passing, Told
<1>3. Types'  BY <1>1 DEF Types
<1>4. Prefixed'  BY Zenon, <1>1 DEF Prefixed
<1>5. Passing'
  <2>1. (NoMore' <=> NoMore) /\ (EndOnly' <=> EndOnly) /\ (NoFinish' <=> NoFinish)
    BY Zenon, <1>1 DEF NoMore, EndOnly, NoFinish
  <2>2. (put # "none" \/ gate.pending # <<>> => NoMore)'
    BY Zenon, <2>1 DEF Passing, Between, Terminates
  <2>3. (projected \/ (Between /\ ev = "error") => EndOnly \/ NoMore)'
    BY Zenon, <1>1, <2>1 DEF Passing, Between
  <2>4. (projected /\ Between => ev \in {"finish", "error", "endError", "endCompleted"})'
    BY Zenon, <1>1 DEF Passing, Between
  <2>5. ev = "endCompleted" => ~projected  BY Zenon DEF Passing
  <2>6. <<>> \notin {<<"endCompleted">>, <<"finish", "endCompleted">>}  BY Zenon, PendingsDiffer
  <2> QED  BY Zenon, <1>1, <2>1, <2>2, <2>3, <2>4, <2>5, <2>6 DEF Passing, Between
<1>6. Told'
  <2>1. ~ToldCompleted  BY Zenon, <1>2 DEF Told
  <2>2. put' # "none" => validated.done /\ validated.finish /\ ~validated.error  BY Zenon DEF Passing
  <2> QED
    BY Zenon, <1>1, <1>2, <2>1, <2>2 DEF Told, ToldCompleted, OneTerminalPerResponse,
         CheckpointIsWholeResponse, CompletionTruthful, CheckpointFailureReported
<1>7. Inside'
  <2>1. handoff = "delayed" => ev \notin {"error", "endError"}  BY Zenon, <1>2 DEF Inside, Between
  <2> QED  BY Zenon, <1>1, <1>2, <2>1 DEF Inside, Between, ToldCompleted
<1> QED  BY Zenon, <1>3, <1>4, <1>5, <1>6, <1>7

LEMMA GateSteps ==
    ASSUME Types, Prefixed, Passing, Told, Inside, phase = "closed", Aside,
           NEW folds \in BOOLEAN, NEW stored \in BOOLEAN,
           GateHolds(folds) \/ GatePasses(folds) \/ Commit(folds, stored) \/ GateReleasesFailure
    PROVE  (Types /\ Prefixed /\ Passing /\ Told /\ Inside)'
<1>1. /\ at = "gate" /\ put = "none" /\ gate.pending = <<>> /\ ~gate.terminal
      /\ gate \in TerminalGate /\ gate.held \in {<<>>, <<"finish">>}
  BY Zenon DEF GateHolds, GatePasses, Commit, GateReleasesFailure, Passing, Types, TerminalGate
<1>2. \A k : Captured(k, folds) \in {"pending", "completed", "failed"}
             /\ Captured(k, TRUE) \in {"pending", "completed", "failed"}
  BY Zenon DEF Captured, Types
<1>3. CASE GateHolds(folds)
  <2>1. /\ ev = "finish" /\ capture' = Captured(ev, folds) /\ at' = "pull" /\ put' = put
        /\ gate' = [gate EXCEPT !.held = Append(@, ev)]
        /\ UNCHANGED <<mode, ev, streams, client, connection, result>>
    BY Zenon, <1>3 DEF GateHolds
  <2>2. gate.held = <<>> /\ NoFinish  BY Zenon, <1>1, <2>1 DEF Passing
  <2>3. gate' = [gate EXCEPT !.held = <<"finish">>]
    <3>1. Append(gate.held, ev) = <<"finish">>  BY Zenon, <2>1, <2>2, Appended
    <3>2. gate' = [gate EXCEPT !.held = Append(gate.held, ev)]  BY Zenon, <1>1, <2>1 DEF TerminalGate
    <3> QED  BY Zenon, <3>1, <3>2
  <2>4. gate' \in TerminalGate /\ gate'.pending = <<>> /\ gate'.terminal = gate.terminal
    BY Zenon, <1>1, <2>3 DEF TerminalGate
  <2> QED  BY Zenon, <1>1, <1>2, <2>1, <2>2, <2>4, PendingsDiffer, Gates
<1>4. CASE GatePasses(folds)
  <2>1. /\ ev # "finish" /\ ~Terminates(ev) /\ capture' = Captured(ev, folds) /\ at' = "encode"
        /\ UNCHANGED <<mode, ev, streams, gate, put, client, connection, result>>
    BY Zenon, <1>4 DEF GatePasses
  <2>2. gate.held # <<>> => NoFinish  BY Zenon DEF Passing
  <2>3. ev # "none"  BY Zenon, <1>1 DEF Passing, Between
  <2> QED  BY Zenon, <1>1, <1>2, <2>1, <2>2, <2>3, PendingsDiffer, Gates DEF Terminates
<1>5. CASE Commit(folds, stored)
  <2>1. /\ ev = "endCompleted" /\ capture' = "completed" /\ at' = "pull"
        /\ put' = (IF stored THEN "ok" ELSE "failed") /\ gate' = Committed(stored)
        /\ UNCHANGED <<mode, ev, streams, client, connection, result>>
    BY Zenon, <1>5 DEF Commit
  <2>2. Append(gate.held, ev) \in {<<"endCompleted">>, <<"finish", "endCompleted">>}
    BY Zenon, <1>1, <2>1, Appended
  <2>3. CASE stored
    <3>1. gate' = [held |-> <<>>, pending |-> Append(gate.held, ev), terminal |-> FALSE]
      BY Zenon, <2>1, <2>3 DEF Committed
    <3>2. gate' \in TerminalGate  BY Zenon, <2>2, <3>1 DEF TerminalGate
    <3>3. gate'.held = <<>> /\ ~gate'.terminal /\ gate'.pending = Append(gate.held, ev)
      BY Zenon, <3>1
    <3>4. put' = "ok" /\ Terminates(ev)  BY Zenon, <2>1, <2>3 DEF Terminates
    <3> QED  BY Zenon, <2>1, <2>2, <3>2, <3>3, <3>4, <1>1, Gates
  <2>4. CASE ~stored
    <3>1. gate' = [held |-> <<>>, pending |-> <<"error", "endError">>, terminal |-> TRUE]
      BY Zenon, <2>1, <2>4 DEF Committed
    <3>2. gate' \in TerminalGate  BY Zenon, <3>1 DEF TerminalGate
    <3>3. gate'.held = <<>> /\ gate'.terminal /\ gate'.pending = <<"error", "endError">>
      BY Zenon, <3>1
    <3>4. put' = "failed" /\ Terminates(ev)  BY Zenon, <2>1, <2>4 DEF Terminates
    <3>5. <<"error", "endError">> \notin {<<"endCompleted">>, <<"finish", "endCompleted">>}
      BY Zenon, PendingsDiffer
    <3> QED  BY <2>1, <3>2, <3>3, <3>4, <3>5, <1>1, Gates
  <2> QED  BY Zenon, <2>3, <2>4
<1>6. CASE GateReleasesFailure
  <2>1. /\ ev = "endError" /\ capture' = Captured(ev, TRUE) /\ at' = "pull" /\ put' = put
        /\ gate' = [gate EXCEPT !.pending = Append(gate.held, ev), !.held = <<>>]
        /\ UNCHANGED <<mode, ev, streams, client, connection, result>>
    BY Zenon, <1>6 DEF GateReleasesFailure
  <2>2. Append(gate.held, ev) \in {<<"endError">>, <<"finish", "endError">>}
    BY Zenon, <1>1, <2>1, Appended
  <2>3. PICK q \in {<<"endError">>, <<"finish", "endError">>} : q = Append(gate.held, ev)
    BY Zenon, <2>2
  <2>4. /\ gate' \in TerminalGate /\ gate'.pending = q /\ gate'.held = <<>>
        /\ gate'.terminal = gate.terminal
    BY Zenon, <1>1, <2>1, <2>3 DEF TerminalGate
  <2>5. handoff # "delayed"  BY Zenon, <1>1, <2>1 DEF Inside, Between
  <2> QED  BY Zenon, <1>1, <1>2, <2>1, <2>4, <2>5, PendingsDiffer, Gates DEF Terminates
<1> QED  BY Zenon, <1>3, <1>4, <1>5, <1>6

(* What the encoder emits: the only terminal, if any, comes last.          *)
LEMMA TokensFollow ==
    ASSUME Types, Passing, Told, at = "encode", shown' = shown \o Tokens(ev)
    PROVE  /\ shown' \in Seq({"identity", "item", "failed", "completed"})
           /\ \A i \in 1 .. Len(shown') : shown'[i] \in {"failed", "completed"} =>
                 /\ i = Len(shown')
                 /\ projected \/ ev = "error" \/ Terminates(ev)
           /\ \A i \in 1 .. Len(shown') : shown'[i] = "completed" => ToldCompleted \/ ev = "endCompleted"
           /\ \A i \in 1 .. Len(shown') : shown'[i] = "failed" =>
                 (\E j \in 1 .. Len(shown) : shown[j] = "failed") \/ ev \in {"error", "endError"}
           /\ ToldCompleted \/ (ev = "endCompleted" /\ ~projected) => ToldCompleted'
<1> DEFINE S == {"identity", "item", "failed", "completed"}
<1>1. shown \in Seq(S) /\ Len(shown) \in Nat  BY DEF Types
<1>2. CASE Tokens(ev) = <<>>
  <2>1. shown' = shown  BY <1>1, <1>2
  <2>2. ~(ev = "endCompleted" /\ ~projected)  BY Zenon, <1>2, Tuples DEF Tokens
  <2>3. \A i \in 1 .. Len(shown) : shown[i] \in {"failed", "completed"} =>
            i = Len(shown) /\ projected
    BY <1>1 DEF Told, OneTerminalPerResponse
  <2> QED  BY <1>1, <2>1, <2>2, <2>3 DEF ToldCompleted
<1>3. CASE Tokens(ev) # <<>>
  <2>1. ~projected  BY Zenon, <1>3 DEF Tokens, Passing, Between
  <2>2. PICK t \in S : /\ Tokens(ev) = <<t>>
                       /\ t = "completed" <=> ev = "endCompleted"
                       /\ t = "failed" <=> ev \in {"error", "endError"}
    <3>1. CASE ev \in {"error", "endError"}  BY Zenon, <2>1, <3>1 DEF Tokens
    <3>2. CASE ev = "endCompleted"  BY Zenon, <2>1, <3>2 DEF Tokens
    <3>3. CASE ev \in {"identity", "item"}  BY Zenon, <3>3 DEF Tokens
    <3>4. CASE ev \notin {"error", "endError", "endCompleted", "identity", "item"}
      BY Zenon, <1>3, <3>4 DEF Tokens
    <3> QED  BY Zenon, <3>1, <3>2, <3>3, <3>4
  <2>3. /\ shown' \in Seq(S) /\ Len(shown') = Len(shown) + 1 /\ shown'[Len(shown) + 1] = t
        /\ \A i \in 1 .. Len(shown) : shown'[i] = shown[i]
    BY <1>1, <2>2
  <2>4. \A i \in 1 .. Len(shown) : shown[i] \notin {"failed", "completed"}
    BY Zenon, <2>1 DEF Told
  <2>5. \A i \in 1 .. Len(shown') : i \in 1 .. Len(shown) \/ i = Len(shown) + 1
    BY <1>1, <2>3
  <2>6. ~ToldCompleted  BY <1>1, <2>4 DEF ToldCompleted
  <2>7. ev = "endCompleted" => ToldCompleted'
    BY <1>1, <2>2, <2>3 DEF ToldCompleted
  <2> QED  BY Zenon, <1>1, <2>2, <2>3, <2>4, <2>5, <2>6, <2>7 DEF Terminates
<1> QED  BY Zenon, <1>2, <1>3

(* The encoder took the event and its cell c; the writer reads on or, when *)
(* the write failed, returns.                                              *)
LEMMA EncodeSteps ==
    ASSUME Types, Prefixed, Passing, Told, Inside, phase = "closed", Aside,
           NEW fingerprinted \in BOOLEAN, Encode(fingerprinted) \/ WriteFails(fingerprinted)
    PROVE  (Types /\ Prefixed /\ Passing /\ Told /\ Inside)'
<1>1. /\ at = "encode" /\ mode # "buffered" /\ shown' = shown \o Tokens(ev)
      /\ projected' = (projected \/ ev = "error" \/ Terminates(ev))
      /\ UNCHANGED <<mode, ev, pulled, validated, prefix, terminal, capture, gate, put, refused>>
      /\ UNCHANGED <<phase, bindings, handoff, gone, ctxDone>>
  BY Zenon DEF Encode, WriteFails, Encoded, Streaming, Return, streams, checkpoint, connection, Aside
<1>2. /\ at' = "read" \/ at' = "done"
      /\ at' = "read" => result' = result /\ bodyClosed' = bodyClosed /\ released' = released
      /\ at' = "done" => /\ result' \in {"client_cancelled", "client_write_failed"}
                         /\ bodyClosed' = TRUE /\ released' = TRUE
  BY Zenon DEF Encode, WriteFails, Return, classifyClientWriteFailure, connection
<1>3. /\ completion' \in {"pending", "failed", "completed"}
      /\ completion' = "completed" => completion = "completed" \/ ev = "endCompleted"
  <2>1. completion \in {"pending", "failed", "completed"}  BY Zenon DEF Types
  <2>2. /\ Settled(ev, fingerprinted) \in {"pending", "failed", "completed"}
        /\ Settled(ev, fingerprinted) = "completed" => completion = "completed" \/ ev = "endCompleted"
    BY Zenon, <2>1 DEF Settled, Complete, Fail, Terminates
  <2> QED  BY Zenon, <2>2 DEF Encode, WriteFails, Return, Fail
<1>4. projected' \in BOOLEAN  BY Zenon, <1>1 DEF Types
<1>5. result = "none"  BY Zenon, <1>1 DEF Told
<1>6. Types'
  <2>1. shown' \in Seq({"identity", "item", "failed", "completed"})  BY Zenon, <1>1, TokensFollow
  <2>2. /\ at' \in {"read", "done"} /\ bodyClosed' \in BOOLEAN /\ released' \in BOOLEAN
        /\ result' \in {"none", "client_cancelled", "client_write_failed"}
    BY Zenon, <1>2, <1>5 DEF Types
  <2> QED  BY <1>1, <1>3, <1>4, <2>1, <2>2 DEF Types
<1>7. Prefixed'  BY Zenon, <1>1, <1>2 DEF Prefixed
<1>8. Passing'
  <2>1. (NoMore' <=> NoMore) /\ (EndOnly' <=> EndOnly) /\ (NoFinish' <=> NoFinish) /\ ~Between'
    BY Zenon, <1>1, <1>2 DEF NoMore, EndOnly, NoFinish, Between
  <2>2. (projected => EndOnly \/ NoMore)'  BY Zenon, <1>1, <2>1 DEF Passing, Between
  <2>3. gate.pending \in {<<"endCompleted">>, <<"finish", "endCompleted">>} => ~projected'
    BY Zenon, <1>1 DEF Passing, Terminates
  <2> QED  BY Zenon, <1>1, <1>2, <2>1, <2>2, <2>3 DEF Passing, Between
<1>9. DOMAIN shown' = 1 .. Len(shown')  BY <1>6 DEF Types
<1>10. Told'
  <2>1. ToldCompleted' => ToldCompleted \/ ev = "endCompleted"
    BY Zenon, <1>1, <1>9, TokensFollow DEF ToldCompleted
  <2>2. ev = "endCompleted" => put = "ok" /\ ~projected  BY Zenon, <1>1 DEF Passing
  <2>3. (ToldCompleted => put = "ok")'  BY Zenon, <1>1, <2>1, <2>2 DEF Told
  <2>4. (\E i \in 1 .. Len(shown) : shown[i] \in {"failed", "completed"})' => projected'
    BY Zenon, <1>1, TokensFollow
  <2>5. OneTerminalPerResponse'
    BY Zenon, <1>1, <1>9, TokensFollow DEF OneTerminalPerResponse
  <2>6. CompletionTruthful'
    BY Zenon, <1>1, <1>3, <2>2, TokensFollow DEF CompletionTruthful, Told
  <2>7. CheckpointIsWholeResponse'  BY Zenon, <1>1 DEF Told, CheckpointIsWholeResponse
  <2>8. CheckpointFailureReported'  BY Zenon, <1>2, <1>5 DEF CheckpointFailureReported
  <2> QED  BY Zenon, <1>2, <1>5, <2>3, <2>4, <2>5, <2>6, <2>7, <2>8 DEF Told
<1>11. Inside'
  <2>1. handoff = "delayed" => \A i \in 1 .. Len(shown') : shown'[i] = "failed" => put = "failed"
    BY Zenon, <1>1, TokensFollow DEF Inside, Between
  <2> QED  BY Zenon, <1>1, <1>2, <1>5, <2>1 DEF Inside, Between
<1> QED  BY Zenon, <1>6, <1>7, <1>8, <1>10, <1>11

LEMMA WriteDocumentStep ==
    ASSUME Types, Prefixed, Passing, Told, Inside, phase = "closed", Aside,
           NEW fingerprinted \in BOOLEAN,
           NEW kind \in {"succeeded", "client_cancelled", "client_write_failed",
                         "provider_stream_failed"},
           WriteDocument(kind, fingerprinted)
    PROVE  (Types /\ Prefixed /\ Passing /\ Told /\ Inside)'
<1>1. /\ at = "encode" /\ mode = "buffered" /\ ev = "endCompleted" /\ shown' = <<"completed">>
      /\ at' = "done" /\ result' = kind /\ bodyClosed' = TRUE /\ released' = TRUE
      /\ UNCHANGED <<mode, ev, pulled, validated, prefix, terminal, capture, gate, put, refused>>
      /\ UNCHANGED <<projected, phase, bindings, handoff, gone, ctxDone>>
      /\ completion' = Fail(Settled(ev, fingerprinted))
  BY Zenon DEF WriteDocument, Return, streams, checkpoint, connection, Aside
<1>2. put = "ok"  BY Zenon, <1>1 DEF Passing
<1>3. completion' \in {"pending", "failed", "completed"}
  BY Zenon, <1>1 DEF Settled, Complete, Fail, Terminates, Types
<1>4. /\ shown' \in Seq({"identity", "item", "failed", "completed"}) /\ Len(shown') = 1
      /\ \A i \in 1 .. Len(shown') : i = 1 /\ shown'[i] = "completed"
      /\ DOMAIN shown' = 1 .. 1
  BY <1>1
<1>5. ToldCompleted'  BY <1>1, <1>4 DEF ToldCompleted
<1>6. Types'  BY <1>1, <1>3, <1>4 DEF Types
<1>7. Prefixed'  BY Zenon, <1>1 DEF Prefixed
<1>8. Passing'  BY Zenon, <1>1 DEF Passing, NoMore, EndOnly, NoFinish, Between
<1>9. Told'
  BY <1>1, <1>2, <1>4 DEF Told, OneTerminalPerResponse, CheckpointIsWholeResponse,
       CompletionTruthful, CheckpointFailureReported, ToldCompleted
<1>10. Inside'  BY Zenon, <1>1, <1>2, <1>4, <1>5 DEF Inside, Between
<1> QED  BY Zenon, <1>6, <1>7, <1>8, <1>9, <1>10

-----------------------------------------------------------------------------
(* The exchange                                                            *)

(* The response is still inside the exchange, which goes on, hands it over *)
(* or gives it up.                                                         *)
LEMMA Exchanging ==
    ASSUME Types, Prefixed, Passing, Told, Inside, at \in {"prefetch", "refused"},
           at' \in {"prefetch", "refused", "read"},
           UNCHANGED <<mode, ev, terminal, checkpoint, client, ctxDone, bodyClosed, gone, result>>,
           UNCHANGED <<phase, bindings>>,
           pulled' \in 0 .. MaxItems, validated' \in Validator, released' \in BOOLEAN,
           prefix' \in Seq(Kinds), Len(prefix') <= 5 + MaxItems, Prefixed',
           handoff' \in {"none", "prefetch", "delayed"},
           handoff' # "none" => phase \in {"open", "closed"},
           at' = "read" => handoff' # "none",
           handoff' = "prefetch" => bindings = {}
    PROVE  (Types /\ Prefixed /\ Passing /\ Told /\ Inside)'
<1>1. /\ UNCHANGED <<capture, gate, put, shown, projected, completion, refused, phase, bindings>>
      /\ UNCHANGED <<mode, ev, terminal, gone, ctxDone, bodyClosed, result>>
  BY Zenon DEF checkpoint, client
<1>2. Untold  BY Zenon DEF Inside
<1>3. Untold'  BY Zenon, <1>1, <1>2 DEF Untold
<1>4. Types'  BY <1>1 DEF Types
<1>5. /\ gate.pending = <<>> /\ gate.held = <<>> /\ ~gate.terminal
      /\ terminal.pending = <<>> /\ ~terminal.terminated
      /\ put = "none" /\ ~projected /\ ev = "none" /\ shown = <<>> /\ result = "none"
      /\ completion = "pending"
  BY Zenon, <1>2 DEF Untold
<1>6. Passing'
  <2>1. <<>> \notin {<<"endCompleted">>, <<"finish", "endCompleted">>}  BY Zenon, PendingsDiffer
  <2> QED  BY Zenon, <1>1, <1>5, <2>1 DEF Passing, Between
<1>7. Told'
  BY Zenon, <1>1, <1>5 DEF Told, ToldCompleted, OneTerminalPerResponse, CheckpointIsWholeResponse,
                    CompletionTruthful, CheckpointFailureReported
<1>8. Inside'
  <2>1. shown' = <<>>  BY Zenon, <1>1, <1>5
  <2>2. \A i \in 1 .. Len(shown') : FALSE  BY ONLY <2>1
  <2> QED  BY Zenon, <1>1, <1>3, <1>5, <2>2 DEF Inside, Between
<1> QED  BY Zenon, <1>4, <1>6, <1>7, <1>8

LEMMA ExchangeFailsStep ==
    ASSUME Types, Prefixed, Passing, Told, Inside, UNCHANGED <<phase, bindings>>, ExchangeFails
    PROVE  (Types /\ Prefixed /\ Passing /\ Told /\ Inside)'
<1>1. /\ at = "prefetch" /\ at' = "refused" /\ released' = TRUE
      /\ UNCHANGED <<mode, ev, pulled, validated, prefix, terminal, checkpoint, client>>
      /\ UNCHANGED <<gone, ctxDone, bodyClosed, result, handoff>>
  BY Zenon DEF ExchangeFails, PrefetchFails, streams
<1>2. Prefixed'  BY Zenon, <1>1 DEF Prefixed
<1>3. /\ pulled \in 0 .. MaxItems /\ validated \in Validator
      /\ prefix \in Seq(Kinds) /\ Len(prefix) <= 5 + MaxItems
  BY Zenon DEF Types
<1>4. /\ handoff \in {"none", "prefetch", "delayed"}
      /\ handoff # "none" => phase \in {"open", "closed"}
      /\ handoff = "prefetch" => bindings = {}
  BY Zenon DEF Inside
<1> QED  BY Zenon, <1>1, <1>2, <1>3, <1>4, Exchanging

LEMMA CallProviderStep ==
    ASSUME Types, Prefixed, Passing, Told, Inside, UNCHANGED <<phase, bindings>>,
           NEW search \in BOOLEAN, CallProvider(search)
    PROVE  (Types /\ Prefixed /\ Passing /\ Told /\ Inside)'
<1>1. /\ phase = "open" /\ handoff = "none" /\ handoff' \in {"prefetch", "delayed"}
      /\ handoff' = "prefetch" => bindings = {}
      /\ UNCHANGED <<mode, at, ev, pulled, validated, prefix, terminal, checkpoint, client>>
      /\ UNCHANGED <<gone, ctxDone, bodyClosed, released, result>>
  BY Zenon DEF CallProvider, delayClientHandoffFor, CanExecute, vars, streams, connection
<1>2. at \in {"prefetch", "refused"}  BY Zenon, <1>1 DEF Inside
<1>3. /\ pulled \in 0 .. MaxItems /\ validated \in Validator /\ released \in BOOLEAN
      /\ prefix \in Seq(Kinds) /\ Len(prefix) <= 5 + MaxItems
  BY Zenon DEF Types
<1>4. Prefixed'
  <2>1. Untold  BY Zenon, <1>2 DEF Inside
  <2>2. prefix = <<>>  BY Zenon, <1>1, <1>2 DEF Prefixed
  <2>3. \A i \in 1 .. Len(prefix) : FALSE  BY <2>2
  <2> QED  BY Zenon, <1>1, <1>2, <2>1, <2>2, <2>3 DEF Prefixed, Untold
<1> QED  BY Zenon, <1>1, <1>2, <1>3, <1>4, Exchanging

LEMMA PrefetchRoundStep ==
    ASSUME Types, Prefixed, Passing, Told, Inside, UNCHANGED <<phase, bindings>>,
           NEW k \in Kinds, PrefetchRound(k)
    PROVE  (Types /\ Prefixed /\ Passing /\ Told /\ Inside)'
<1>1. /\ phase = "open" /\ handoff = "prefetch" /\ handoff' = handoff
      /\ at = "prefetch" /\ (k = "item" => pulled < MaxItems)
      /\ Queued(k) /\ Accepts(validated, k)
      /\ pulled' = (IF k = "item" THEN pulled + 1 ELSE pulled)
      /\ validated' = Apply(validated, k) /\ prefix' = Append(prefix, k)
      /\ at' = (IF responseHandoffEvent(k) THEN "read" ELSE "prefetch")
      /\ UNCHANGED <<mode, ev, terminal, checkpoint, client, gone, ctxDone, bodyClosed, released>>
      /\ UNCHANGED result
  BY Zenon DEF PrefetchRound, Prefetch, toolVars, connection
<1>2. /\ validated \in Validator /\ prefix \in Seq(Kinds) /\ pulled \in 0 .. MaxItems
      /\ released \in BOOLEAN
  BY Zenon DEF Types
<1>3. /\ ~validated.usage /\ ~validated.finish /\ ~validated.error /\ ~validated.done
      /\ validated.identity => validated.open
      /\ prefix = IF validated.identity THEN <<"start", "identity">>
                  ELSE IF validated.open THEN <<"start">> ELSE <<>>
  BY Zenon, <1>1 DEF Prefixed
<1>4. k \in {"start", "identity", "item", "usage", "error"}
  BY Zenon, <1>1, <1>3 DEF Queued, Kinds
<1>5. /\ k = "start" => /\ prefix = <<>> /\ at' = "prefetch"
                        /\ validated' = [validated EXCEPT !.open = TRUE]
      /\ k = "identity" => /\ prefix = <<"start">> /\ validated.open /\ ~validated.identity
                           /\ validated' = [validated EXCEPT !.identity = TRUE]
      /\ k \notin {"start", "identity"} => prefix = <<"start", "identity">> /\ at' = "read"
  BY Zenon, <1>1, <1>3, <1>4 DEF Accepts, Apply, responseHandoffEvent
<1>6. validated' \in Validator /\ (k = "error" => validated'.error)  BY Zenon, <1>1, <1>2, ApplyFacts
<1>7. Len(prefix) \in 0 .. 2 /\ MaxItems \in Nat  BY <1>3, Tuples, DeliveryAssumption
<1>8. /\ prefix' \in Seq(Kinds) /\ Len(prefix') = Len(prefix) + 1 /\ prefix'[Len(prefix')] = k
      /\ \A i \in 1 .. Len(prefix') : i = Len(prefix') \/ (i \in 1 .. Len(prefix) /\ prefix'[i] = prefix[i])
  BY <1>1, <1>2, <1>7
<1>9. Prefixed'
  <2>1. \A i \in 1 .. Len(prefix) :
            prefix[i] \in {"start", "identity", "item", "usage"}
    BY Zenon, <1>1, <1>3 DEF Prefixed
  <2>2. \A i \in 1 .. Len(prefix') :
            /\ prefix'[i] \in {"start", "identity", "item", "usage", "error"}
            /\ prefix'[i] = "error" => validated'.error /\ i = Len(prefix')
    BY <1>4, <1>6, <1>8, <2>1
  <2>3. CASE k = "start"
    <3>1. /\ prefix' = <<"start">> /\ validated'.open /\ ~validated'.identity /\ ~validated'.usage
          /\ ~validated'.finish /\ ~validated'.error /\ ~validated'.done
      BY Zenon, <1>1, <1>2, <1>3, <1>5, <2>3, Appended, Tuples DEF Validator
    <3> QED  BY <1>1, <1>5, <2>2, <2>3, <3>1 DEF Prefixed
  <2>4. CASE k = "identity"
    <3>1. /\ prefix' = <<"start", "identity">> /\ validated'.open /\ validated'.identity
          /\ ~validated'.usage /\ ~validated'.finish /\ ~validated'.error /\ ~validated'.done
      BY <1>1, <1>2, <1>3, <1>5, <2>4, Appended DEF Validator
    <3> QED  BY Zenon, <1>1, <2>2, <3>1 DEF Prefixed
  <2>5. CASE k \notin {"start", "identity"}  BY <1>1, <1>5, <2>2, <2>5 DEF Prefixed
  <2> QED  BY Zenon, <2>3, <2>4, <2>5
<1>10. pulled' \in 0 .. MaxItems /\ Len(prefix') <= 5 + MaxItems  BY <1>1, <1>2, <1>7, <1>8
<1>11. bindings = {} /\ at' \in {"prefetch", "read"}  BY Zenon, <1>1 DEF Inside
<1> QED  BY <1>1, <1>2, <1>6, <1>8, <1>9, <1>10, <1>11, Exchanging

(* What handoffCompletedProviderResponse hands over.                       *)
LEMMA Synthesized ==
    ASSUME NEW items \in Nat
    PROVE  LET q == SynthesizeResponseEnvelopeEvents(items)
           IN  /\ q \in Seq(Kinds) /\ Len(q) = 5 + items
               /\ \A i \in 1 .. Len(q) :
                     /\ q[i] \in {"start", "identity", "item", "usage", "finish", "endCompleted"}
                     /\ q[i] = "endCompleted" => i = Len(q)
                     /\ q[i] = "finish" => i = Len(q) - 1
<1> DEFINE a == <<"start", "identity">>
           b == [i \in 1 .. items |-> "item"]
           c == <<"usage", "finish", "endCompleted">>
           q == SynthesizeResponseEnvelopeEvents(items)
<1>1. /\ a \in Seq(Kinds) /\ b \in Seq(Kinds) /\ c \in Seq(Kinds)
      /\ Len(a) = 2 /\ Len(b) = items /\ Len(c) = 3
      /\ a[1] = "start" /\ a[2] = "identity" /\ \A i \in 1 .. items : b[i] = "item"
      /\ c[1] = "usage" /\ c[2] = "finish" /\ c[3] = "endCompleted"
  BY DEF Kinds
<1>2. q = (a \o b) \o c  BY Zenon DEF SynthesizeResponseEnvelopeEvents
<1> HIDE DEF a, b, c, q
<1>3. /\ a \o b \in Seq(Kinds) /\ Len(a \o b) = 2 + items
      /\ \A i \in 1 .. 2 + items : (a \o b)[i] = IF i <= 2 THEN a[i] ELSE b[i - 2]
  <2>1. /\ a \o b \in Seq(Kinds) /\ Len(a \o b) = Len(a) + Len(b)
        /\ \A i \in 1 .. Len(a) + Len(b) :
              (a \o b)[i] = IF i <= Len(a) THEN a[i] ELSE b[i - Len(a)]
    <3>1. a \in Seq(Kinds) /\ b \in Seq(Kinds)  BY Zenon, <1>1
    <3> QED  BY ONLY <3>1, ConcatProperties
  <2> QED  BY <1>1, <2>1
<1>4. /\ q \in Seq(Kinds) /\ Len(q) = 5 + items
      /\ \A i \in 1 .. 5 + items : q[i] = IF i <= 2 + items THEN (a \o b)[i] ELSE c[i - (2 + items)]
  <2> DEFINE d == a \o b
  <2>1. d \in Seq(Kinds) /\ Len(d) = 2 + items /\ q = d \o c  BY Zenon, <1>2, <1>3
  <2> HIDE DEF d
  <2>2. /\ q \in Seq(Kinds) /\ Len(q) = Len(d) + Len(c)
        /\ \A i \in 1 .. Len(d) + Len(c) : q[i] = IF i <= Len(d) THEN d[i] ELSE c[i - Len(d)]
    <3>1. d \in Seq(Kinds) /\ c \in Seq(Kinds)  BY Zenon, <1>1, <2>1
    <3>2. /\ d \o c \in Seq(Kinds) /\ Len(d \o c) = Len(d) + Len(c)
          /\ \A i \in 1 .. Len(d) + Len(c) : (d \o c)[i] = IF i <= Len(d) THEN d[i] ELSE c[i - Len(d)]
      BY ONLY <3>1, ConcatProperties
    <3> QED  BY Zenon, <2>1, <3>2
  <2>3. Len(d) + Len(c) = 5 + items  BY <1>1, <2>1
  <2> QED  BY Zenon, <2>1, <2>2, <2>3 DEF d
<1>5. \A i \in 3 .. 2 + items : q[i] = "item"
  <2> SUFFICES ASSUME NEW i \in 3 .. 2 + items PROVE q[i] = "item"  BY Zenon
  <2>1. /\ i \in 1 .. 5 + items /\ i \in 1 .. 2 + items /\ i <= 2 + items
        /\ ~(i <= 2) /\ i - 2 \in 1 .. items
    OBVIOUS
  <2>2. q[i] = (a \o b)[i]  BY Zenon, <1>4, <2>1
  <2>3. (a \o b)[i] = b[i - 2]  BY Zenon, <1>3, <2>1
  <2> QED  BY Zenon, <1>1, <2>1, <2>2, <2>3
<1>6. q[1] = "start" /\ q[2] = "identity"  BY <1>1, <1>3, <1>4
<1>7. /\ q[3 + items] = "usage" /\ q[4 + items] = "finish" /\ q[5 + items] = "endCompleted"
  <2>1. /\ {3 + items, 4 + items, 5 + items} \subseteq 1 .. 5 + items
        /\ ~(3 + items <= 2 + items) /\ ~(4 + items <= 2 + items) /\ ~(5 + items <= 2 + items)
        /\ (3 + items) - (2 + items) = 1 /\ (4 + items) - (2 + items) = 2
        /\ (5 + items) - (2 + items) = 3
    OBVIOUS
  <2> QED  BY <1>1, <1>4, <2>1
<1>8. \A i \in 1 .. 5 + items :
          \/ i \in {1, 2} \/ i \in 3 .. 2 + items
          \/ i = 3 + items \/ i = 4 + items \/ i = 5 + items
  OBVIOUS
<1>9. \A i \in 1 .. Len(q) :
          /\ q[i] \in {"start", "identity", "item", "usage", "finish", "endCompleted"}
          /\ q[i] = "endCompleted" => i = Len(q)
          /\ q[i] = "finish" => i = Len(q) - 1
  BY <1>4, <1>5, <1>6, <1>7, <1>8
<1> QED  BY Zenon, <1>4, <1>9 DEF q

LEMMA HandoffStep ==
    ASSUME Types, Prefixed, Passing, Told, Inside, UNCHANGED <<phase, bindings>>,
           NEW items \in 0 .. MaxItems, handoffCompletedProviderResponse(items)
    PROVE  (Types /\ Prefixed /\ Passing /\ Told /\ Inside)'
<1> DEFINE q == SynthesizeResponseEnvelopeEvents(items)
<1>1. /\ phase = "open" /\ handoff = "delayed" /\ at = "prefetch"
      /\ prefix' = q /\ pulled' = items /\ released' = TRUE /\ at' = "read" /\ handoff' = handoff
      /\ validated' = [validated EXCEPT !.identity = TRUE, !.items = items > 0, !.finish = TRUE,
                                        !.usage = TRUE, !.done = TRUE]
      /\ UNCHANGED <<mode, ev, terminal, checkpoint, client, gone, ctxDone, bodyClosed, result>>
  BY Zenon DEF handoffCompletedProviderResponse, InRound, toolVars
<1>2. items \in Nat /\ MaxItems \in Nat /\ items <= MaxItems  BY DeliveryAssumption
<1>3. /\ q \in Seq(Kinds) /\ Len(q) = 5 + items
      /\ \A i \in 1 .. Len(q) :
            /\ q[i] \in {"start", "identity", "item", "usage", "finish", "endCompleted"}
            /\ q[i] = "endCompleted" => i = Len(q)
            /\ q[i] = "finish" => i = Len(q) - 1
  BY Zenon, <1>2, Synthesized
<1> HIDE DEF q
<1>4. /\ validated' \in Validator /\ validated'.done /\ validated'.finish
      /\ validated'.error = validated.error
  <2>1. PICK b \in BOOLEAN : b = (items > 0)
    <3>1. (items > 0) \in BOOLEAN  OBVIOUS
    <3> QED  BY Zenon, <3>1
  <2>2. validated' = [validated EXCEPT !.identity = TRUE, !.items = b, !.finish = TRUE,
                                       !.usage = TRUE, !.done = TRUE]
    BY Zenon, <1>1, <2>1
  <2>3. validated \in Validator  BY Zenon DEF Types
  <2> QED  BY Zenon, <2>2, <2>3 DEF Validator
<1>5. Prefixed'
  <2>1. ~validated.error  BY Zenon, <1>1 DEF Prefixed
  <2>2. terminal = [terminated |-> FALSE, pending |-> <<>>]  BY Zenon, <1>1 DEF Inside, Untold
  <2> QED  BY <1>1, <1>3, <1>4, <2>1, <2>2 DEF Prefixed
<1>6. pulled' \in 0 .. MaxItems /\ Len(prefix') <= 5 + MaxItems /\ prefix' \in Seq(Kinds)
  BY <1>1, <1>2, <1>3
<1> QED  BY Zenon, <1>1, <1>4, <1>5, <1>6, Exchanging

-----------------------------------------------------------------------------
(* Every step                                                              *)

(* A step of the writer, the provider or the watcher.                      *)
LEMMA DeliveringStep ==
    ASSUME Types, Prefixed, Passing, Told, Inside, phase = "closed", Aside,
           Pull \/ Writer \/ WatcherCloses
    PROVE  (Types /\ Prefixed /\ Passing /\ Told /\ Inside)'
<1>1. CASE Pull /\ handoff = "delayed"  BY Zenon, <1>1, EndSteps DEF Pull
<1>2. CASE Pull /\ handoff # "delayed"
  <2>1. Provider  BY Zenon, <1>2 DEF Pull
  <2> QED  BY Zenon, <1>2, <2>1, ProviderEventStep, ProviderFailsStep, EndSteps DEF Provider
<1>3. CASE Gate  BY Zenon, <1>3, GateSteps, EndSteps DEF Gate
<1>4. CASE \E fingerprinted \in BOOLEAN : Encode(fingerprinted) \/ WriteFails(fingerprinted)
  BY Zenon, <1>4, EncodeSteps
<1>5. CASE \E kind \in {"succeeded", "client_cancelled", "client_write_failed", "provider_stream_failed"},
              fingerprinted \in BOOLEAN : WriteDocument(kind, fingerprinted)
  BY Zenon, <1>5, WriteDocumentStep
<1>6. CASE BeginPull \/ Collect \/ WatcherCloses  BY Zenon, <1>6, QuietSteps
<1>7. CASE \/ ReadCancelled \/ GateReports \/ TerminalEnded \/ EncodeUnrepresentable
           \/ EncodeFails \/ DocumentFails \/ DocumentRefused
  BY Zenon, <1>7, EndSteps
<1>8. CASE GateReplay \/ TerminalReplay \/ PrefixReplay
  BY Zenon, <1>8, GateReplayStep, TerminalReplayStep, PrefixReplayStep
<1> QED  BY Zenon, <1>1, <1>2, <1>3, <1>4, <1>5, <1>6, <1>7, <1>8 DEF Writer

(* A step that leaves the response alone and may open or close the Run.    *)
LEMMA RunSteps ==
    ASSUME IInv, UNCHANGED <<vars, handoff>>,
           \/ Opening
           \/ CloseRun /\ at \in {"read", "refused"}
           \/ UNCHANGED mcpVars
    PROVE  IInv'
<1>1. Types /\ Prefixed /\ Passing /\ Told /\ Inside /\ Resolved  BY Zenon DEF IInv
<1>2. (Types /\ Prefixed /\ Passing /\ Told)'  BY Zenon, <1>1, DeliveryStutter
<1>3. Resolved'  BY Zenon, <1>1, OpeningStep, CloseRunStep, ResolvedStutter
<1>4. \/ phase \in {"validating", "opening"} /\ phase' \in {"opening", "open", "failed"}
      \/ phase = "open" /\ phase' = "closed" /\ bindings' = bindings /\ at \in {"read", "refused"}
      \/ phase' = phase /\ bindings' = bindings
  BY Zenon, <1>1, OpeningStep, ResolvedStutter DEF CloseRun
<1>5. /\ UNCHANGED <<at, ev, terminal, capture, gate, put, shown, projected, completion, refused>>
      /\ UNCHANGED <<result, handoff>>
  BY Zenon DEF vars, streams, checkpoint, client
<1>6. Inside'
  <2>1. Untold' <=> Untold  BY Zenon, <1>5 DEF Untold
  <2>2. phase \in {"validating", "opening"} => handoff = "none"  BY Zenon, <1>1 DEF Inside
  <2> QED  BY Zenon, <1>1, <1>4, <1>5, <2>1, <2>2 DEF Inside, Between, ToldCompleted
<1> QED  BY Zenon, <1>2, <1>3, <1>6 DEF IInv

LEMMA NextKeeps ==
    ASSUME IInv, RequestNext \/ UNCHANGED requestVars
    PROVE  IInv'
<1>1. Types /\ Prefixed /\ Passing /\ Told /\ Inside /\ Resolved  BY Zenon DEF IInv
<1>2. ASSUME UNCHANGED mcpVars, (Types /\ Prefixed /\ Passing /\ Told /\ Inside)'
      PROVE  IInv'
  BY Zenon, <1>1, <1>2, ResolvedStutter DEF IInv
<1>3. UNCHANGED mcpVars => UNCHANGED <<phase, bindings>>  BY Zenon, <1>1, ResolvedStutter
<1>4. CASE UNCHANGED requestVars  BY Zenon, <1>4, RunSteps DEF requestVars, toolVars
<1>5. CASE OpenRun \/ ExchangeReturns
  BY Zenon, <1>5, RunSteps DEF OpenRun, ExchangeReturns, toolVars
<1>6. CASE (\E some \in SUBSET Source : BeginBatch(some)) \/ (\E x \in Source : Call(x))
  BY Zenon, <1>6, RunSteps DEF BeginBatch, Call
<1>7. CASE OpenRunFails \/ RoundFails \/ CallFails
  <2>1. ExchangeFails /\ UNCHANGED mcpVars
    BY Zenon, <1>7 DEF OpenRunFails, RoundFails, CallFails, ExchangeFails
  <2> QED  BY Zenon, <1>1, <1>2, <1>3, <2>1, ExchangeFailsStep
<1>8. ASSUME NEW search \in BOOLEAN, CallProvider(search)  PROVE IInv'
  <2>1. UNCHANGED mcpVars  BY Zenon, <1>8 DEF CallProvider
  <2> QED  BY Zenon, <1>1, <1>2, <1>3, <1>8, <2>1, CallProviderStep
<1>9. ASSUME NEW k \in Kinds, PrefetchRound(k)  PROVE IInv'
  <2>1. UNCHANGED mcpVars  BY Zenon, <1>9 DEF PrefetchRound
  <2> QED  BY Zenon, <1>1, <1>2, <1>3, <1>9, <2>1, PrefetchRoundStep
<1>10. ASSUME NEW items \in 0 .. MaxItems, handoffCompletedProviderResponse(items)  PROVE IInv'
  <2>1. UNCHANGED mcpVars  BY Zenon, <1>10 DEF handoffCompletedProviderResponse
  <2> QED  BY Zenon, <1>1, <1>2, <1>3, <1>10, <2>1, HandoffStep
<1>11. CASE Delivering(Pull) \/ Delivering(Writer) \/ Delivering(WatcherCloses)
  <2>1. /\ phase = "closed" /\ UNCHANGED mcpVars /\ handoff' = handoff
        /\ Pull \/ Writer \/ WatcherCloses
    BY Zenon, <1>11 DEF Delivering, toolVars
  <2>2. Aside  BY Zenon, <1>3, <2>1 DEF Aside
  <2> QED  BY Zenon, <1>1, <1>2, <2>1, <2>2, DeliveringStep
<1>12. CASE Disconnect
  <2>1. UNCHANGED mcpVars /\ handoff' = handoff /\ (ClientGone \/ ContextCancelled)
    BY Zenon, <1>12 DEF Disconnect, toolVars
  <2>2. Aside  BY Zenon, <1>3, <2>1 DEF Aside
  <2> QED  BY Zenon, <1>1, <1>2, <2>1, <2>2, QuietSteps
<1> QED
  BY Zenon, <1>4, <1>5, <1>6, <1>7, <1>8, <1>9, <1>10, <1>11, <1>12 DEF RequestNext

LEMMA Invariance == RequestSpec => []IInv
<1>1. IInv /\ [RequestNext]_requestVars => IInv'  BY Zenon, NextKeeps
<1> QED  BY InitHolds, <1>1, PTL DEF RequestSpec

-----------------------------------------------------------------------------
(* What follows                                                            *)

(* Whatever the MCP servers of a request answer and whichever source fails *)
(* or is skipped, every session openWith opened belongs to the Run or to   *)
(* the source it is resolving and none outlives the Run; a bound tool has  *)
(* its session and every required source is bound while the Run is open;   *)
(* and the catalogs stay within their page, tool and byte budgets, with    *)
(* the required sources charged first.  For any sources and any budgets.   *)
THEOREM RunCorrect == RequestSpec => []RunInv
<1>1. IInv => RunInv
  <2> SUFFICES ASSUME Resolved PROVE RunInv  BY Zenon DEF IInv
  <2>1. EverySessionOwned
    <3>1. phase \in {"failed", "closed"} => listing.source = None  BY Zenon DEF Resolved
    <3> QED  BY Zenon, <3>1 DEF EverySessionOwned, Resolved
  <2>2. BoundToolsCallable  BY Zenon DEF BoundToolsCallable, Resolved
  <2>3. CatalogBudgets
    BY Zenon DEF CatalogBudgets, RequiredChargedFirst, RunBytesBounded, Resolved
  <2> QED  BY Zenon, <2>1, <2>2, <2>3 DEF RunInv
<1> QED  BY <1>1, Invariance, PTL

(* The client of a request is told that its response completed only when   *)
(* checkpointTerminalGate has stored its checkpoint, in every delivery     *)
(* mode, for a streamed and for a synthesized response of any length.      *)
THEOREM CompletionGated == RequestSpec => []SuccessGatedOnCheckpoint
<1>1. IInv => SuccessGatedOnCheckpoint  BY Zenon DEF IInv, Told, SuccessGatedOnCheckpoint
<1> QED  BY <1>1, Invariance, PTL

(* Whichever stage of a delivery fails (the provider, the fold of the      *)
(* capture, the store, the encoder, the write, the client), only a whole   *)
(* response is stored, the client sees one terminal and nothing after it,  *)
(* a failed checkpoint reaches the delivery result, and the completion     *)
(* cell says completed only of a stored response the client was told of.   *)
THEOREM DeliveryCorrect == RequestSpec => []DeliveryInv
<1>1. IInv => DeliveryInv
  <2> SUFFICES ASSUME Types, Told PROVE DeliveryInv  BY Zenon DEF IInv
  <2>1. validated \in [DOMAIN NewValidator -> BOOLEAN]
    BY Zenon DEF Types, Validator, NewValidator
  <2>2. terminal.terminated \in BOOLEAN /\ terminal.pending \in Seq({"error", "endError"})
    <3>1. {<<>>, <<"endError">>, <<"error", "endError">>} \subseteq Seq({"error", "endError"})
      <4>1. <<>> \in Seq({"error", "endError"}) /\ <<"endError">> \in Seq({"error", "endError"})
        OBVIOUS
      <4>2. <<"error", "endError">> \in Seq({"error", "endError"})  OBVIOUS
      <4> QED  BY <4>1, <4>2, Zenon
    <3>2. terminal \in TerminalStream  BY Zenon DEF Types
    <3> QED  BY Zenon, <3>1, <3>2 DEF TerminalStream
  <2>3. gate.held \in {<<>>, <<"finish">>} /\ Len(gate.pending) <= 2 /\ gate.terminal \in BOOLEAN
    <3>1. gate \in TerminalGate  BY Zenon DEF Types
    <3>2. \A p \in {<<>>, <<"endError">>, <<"error", "endError">>, <<"finish", "endError">>,
                    <<"endCompleted">>, <<"finish", "endCompleted">>} : Len(p) <= 2
      <4>1. Len(<<>>) <= 2 /\ \A e, f : Len(<<e>>) <= 2 /\ Len(<<e, f>>) <= 2  OBVIOUS
      <4> QED  BY <4>1, Zenon
    <3>3. Len(gate.pending) <= 2  BY <3>1, <3>2, Zenon DEF TerminalGate
    <3>4. gate.held \in {<<>>, <<"finish">>} /\ gate.terminal \in BOOLEAN
      BY <3>1, Zenon DEF TerminalGate
    <3> QED  BY Zenon, <3>3, <3>4
  <2>4. {projected, refused, gone, ctxDone, bodyClosed, released} \subseteq BOOLEAN  BY Zenon DEF Types
  <2>5. TypeOK  BY Zenon, <2>1, <2>2, <2>3, <2>4 DEF Types, TypeOK
  <2> QED  BY Zenon, <2>5 DEF Told, DeliveryInv
<1> QED  BY <1>1, Invariance, PTL

(* While Swobu executes tools for a request the failures of its provider   *)
(* stay inside the exchange: no client sees a response while an MCP        *)
(* session is open, and with bound tools (delayClientHandoffFor) it is     *)
(* told of a failure only when the checkpoint was not stored.              *)
THEOREM ToolEffectsInside == RequestSpec => []EffectsStayInside
<1>1. IInv => EffectsStayInside
  <2> SUFFICES ASSUME IInv PROVE EffectsStayInside  BY Zenon
  <2>1. Types /\ Told /\ Inside /\ Resolved  BY Zenon DEF IInv
  <2>2. phase = "closed" => live = {}
    <3>1. phase = "closed" => listing.source = None  BY Zenon, <2>1 DEF Resolved
    <3> QED  BY Zenon, <2>1, <3>1 DEF Resolved
  <2>3. phase # "closed" => shown = <<>> /\ result = "none"  BY Zenon, <2>1 DEF Inside, Untold
  <2>4. CASE handoff = "delayed"
    <3>1. DOMAIN shown = 1 .. Len(shown)  BY <2>1 DEF Types
    <3> QED  BY Zenon, <2>1, <2>2, <2>3, <2>4, <3>1 DEF Inside, EffectsStayInside
  <2>5. CASE handoff = "prefetch"  BY Zenon, <2>1, <2>2, <2>3, <2>5 DEF Inside, EffectsStayInside, CanExecute
  <2>6. CASE handoff = "none"
    <3>1. shown = <<>> /\ result = "none"  BY Zenon, <2>1, <2>6 DEF Inside, Untold
    <3>2. DOMAIN shown = {}  BY <3>1
    <3> QED  BY Zenon, <3>1, <3>2 DEF EffectsStayInside
  <2> QED  BY Zenon, <2>1, <2>4, <2>5, <2>6 DEF Inside
<1> QED  BY <1>1, Invariance, PTL
=============================================================================
