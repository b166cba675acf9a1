-------------------------- MODULE CanonicalRequest --------------------------
(***************************************************************************)
(* The canonical request every client decoder writes and every provider     *)
(* encoder reads: an ordered list of context items, the tool environment    *)
(* and the prelude derived from it, the matcher that pairs calls with their *)
(* results, and the validation in front of the provider attempt.            *)
(*                                                                         *)
(* A tool is a key of kind and name.  A declaration is a tool and a variant,*)
(* so that two declarations of one tool may differ: a "restricted" search   *)
(* asks for an access mode.  The kind of a provider executed discovery is   *)
(* "providerDiscovery"; its key is that of a client executed one.  A part   *)
(* is a text, which is a sequence of chunks, or an image; the parts of a    *)
(* declarations item or a discovery result are declarations.                *)
(***************************************************************************)
EXTENDS Naturals, Sequences, FiniteSets, SequencesExt

Tool(kind, name) == [kind |-> kind, name |-> name]
NoTool == Tool("none", "none")
Declaration(tool, variant) == [tool |-> tool, variant |-> variant]

(* ToolKey and its lookup among declarations.                               *)
Key(tool) == IF tool.kind = "providerDiscovery" THEN Tool("discovery", tool.name) ELSE tool
Keys(declarations) == {Key(d.tool) : d \in ToSet(declarations)}
Declared(tool, declarations) == Key(tool) \in Keys(declarations)
Image == <<"image">>
Opaque(dialect) == <<"opaque", dialect>>

Entry(kind, role, scope, tool, id, parts, error) ==
    [kind |-> kind, role |-> role, scope |-> scope, tool |-> tool, id |-> id, parts |-> parts, error |-> error]
MessageItem(role, scope, parts) == Entry("message", role, scope, NoTool, "none", parts, FALSE)
ToolDeclarationsItem(scope, tools) == Entry("tools", "none", scope, NoTool, "none", tools, FALSE)

(* The parts of a search call are its queries, and those of a search result *)
(* its sources; both may hold the opaque replay of their provider.          *)
ToolCallItem(tool, id, parts) == Entry("call", "assistant", "history", tool, id, parts, FALSE)
ToolResultItem(id, parts, error) == Entry("result", "user", "history", Tool("content", "none"), id, parts, error)
WebSearchResultItem(id, parts) == Entry("result", "assistant", "history", Tool("search", "none"), id, parts, FALSE)
DiscoveryResultItem(executor, id, tools, error) ==
    Entry("result", IF executor = "discovery" THEN "user" ELSE "assistant", "history", Tool(executor, "none"), id, tools, error)

(* The opaque replay of a reasoning item is in the dialect of its provider. *)
ReasoningItem(parts, dialect) == Entry("reasoning", "assistant", "history", Tool("opaque", dialect), "none", parts, FALSE)

(* CanonicalItem.Owner                                                      *)
Owner(item) ==
    CASE item.kind = "message" -> IF item.role \in {"user", "assistant"} THEN item.role ELSE "none"
      [] item.kind = "tools" -> "none"
      [] OTHER -> item.role

-----------------------------------------------------------------------------
(* SplitRequestPrelude: the leading request-scoped items.                   *)

RequestScoped(item) == item.scope = "request"
PreludeLength(items) ==
    LET end[k \in 1 .. Len(items) + 1] == IF k <= Len(items) /\ RequestScoped(items[k]) THEN end[k + 1] ELSE k - 1
    IN end[1]
Prelude(items) == SubSeq(items, 1, PreludeLength(items))
History(items) == SubSeq(items, PreludeLength(items) + 1, Len(items))

(* Nothing request-scoped after history begins, and at most one transition  *)
(* between directives and declarations.                                     *)
ValidPrelude(items) ==
    LET prelude == Prelude(items)
        transitions == {k \in 1 .. Len(prelude) - 1 : prelude[k].kind # prelude[k + 1].kind}
    IN /\ \A k \in Len(prelude) + 1 .. Len(items) : ~RequestScoped(items[k])
       /\ \A k \in 1 .. Len(prelude) : prelude[k].kind \in {"message", "tools"}
       /\ Cardinality(transitions) <= 1

(* RetainedHistory                                                          *)
RetainedHistory(items) == SelectSeq(items, LAMBDA item : ~RequestScoped(item))

-----------------------------------------------------------------------------
(* ToolEnvironmentAt: the declarations of the items before a position, in   *)
(* the order of their first occurrence.  Two different declarations of one  *)
(* key are ambiguous.                                                       *)

Declares(item) == item.kind = "tools" \/ (item.kind = "result" /\ item.tool.kind \in {"discovery", "providerDiscovery"})
Contributions(items) == FlattenSeq([k \in 1 .. Len(items) |-> IF Declares(items[k]) THEN items[k].parts ELSE <<>>])

Ambiguous(items) ==
    LET all == ToSet(Contributions(items))
    IN \E d \in all : \E e \in all : Key(d.tool) = Key(e.tool) /\ d # e

EffectiveTools(items) ==
    LET once(seen, d) == IF d \in ToSet(seen) THEN seen ELSE Append(seen, d)
    IN FoldLeft(once, <<>>, Contributions(items))
ToolEnvironmentAt(items, before) == EffectiveTools(SubSeq(items, 1, before))

-----------------------------------------------------------------------------
(* MatchToolEffects: one effect per call, in call order, with the position  *)
(* of the result that consumed it, or 0.  The matcher has failed when an    *)
(* item repeats a pending id or answers no pending call of its kind.        *)

Answered(result, tool) ==
    \/ result = tool /\ tool \in {"search", "discovery", "providerDiscovery"}
    \/ result = "content" /\ tool \in {"function", "custom"}

PendingEffect(effects, id) == {e \in 1 .. Len(effects) : effects[e].id = id /\ effects[e].result = 0}

Accept(m, item) ==
    LET pending == PendingEffect(m.effects, item.id)
        effect == [call |-> m.at, result |-> 0, id |-> item.id, tool |-> item.tool]
        next == [m EXCEPT !.at = @ + 1]
    IN CASE m.failed -> m
         [] item.kind = "call" /\ pending = {} -> [next EXCEPT !.effects = Append(@, effect)]
         [] item.kind = "result" /\ \E e \in pending : Answered(item.tool.kind, m.effects[e].tool.kind) ->
              [next EXCEPT !.effects = [e \in DOMAIN @ |-> IF e \in pending THEN [@[e] EXCEPT !.result = m.at] ELSE @[e]]]
         [] item.kind \in {"call", "result"} -> [m EXCEPT !.failed = TRUE]
         [] OTHER -> next

NewMatcher == [effects |-> <<>>, at |-> 1, failed |-> FALSE]
Matched(items) == FoldLeft(Accept, NewMatcher, items)
ToolEffects(items) == ToSet(Matched(items).effects)
EffectPositions(e) == {e.call, e.result} \ {0}

(* The items at the positions that are kept.                                *)
ItemsAt(items, kept) == FlattenSeq([k \in 1 .. Len(items) |-> IF k \in kept THEN <<items[k]>> ELSE <<>>])
WithoutEffects(items, dropped) == ItemsAt(items, 1 .. Len(items) \ UNION {EffectPositions(e) : e \in dropped})

-----------------------------------------------------------------------------
(* ToolPolicy and ValidateMaterializedRequest                               *)

Policy(mode, tool) == [mode |-> mode, tool |-> tool]
NoPolicy == Policy("unspecified", NoTool)
EffectiveToolPolicy(request) ==
    IF request.policy # NoPolicy THEN request.policy
    ELSE Policy(IF EffectiveTools(request.items) = <<>> THEN "none" ELSE "auto", NoTool)

ValidateForTools(policy, tools) ==
    /\ policy.mode \in {"required", "specific"} => tools # <<>>
    /\ policy.mode = "specific" => Declared(policy.tool, tools)

(* Content is a message, an effect or reasoning: declarations alone are not *)
(* a request.  No request here names a previous response.                   *)
ValidateMaterializedRequest(request) ==
    /\ ValidPrelude(request.items)
    /\ ~Ambiguous(request.items)
    /\ ValidateForTools(EffectiveToolPolicy(request), EffectiveTools(request.items))
    /\ ~Matched(request.items).failed
    /\ \E k \in 1 .. Len(request.items) : request.items[k].kind # "tools"

=============================================================================
