------------------------ MODULE InteractionsRequests ------------------------
(***************************************************************************)
(* Canonical items compiled into a Gemini Interactions request, with or     *)
(* without a previous interaction that stands for part of the history.      *)
(*                                                                         *)
(* A step holds a type, a call id, the name of a function, content parts    *)
(* and whether a result is an error.                                        *)
(***************************************************************************)
EXTENDS CanonicalRequest

Step(type, id, name, parts, error) == [type |-> type, id |-> id, name |-> name, parts |-> parts, error |-> error]

-----------------------------------------------------------------------------
(* projectSettledPortableSearchHistory: a search stays when its call, and   *)
(* its result if there is one, can be replayed exactly.                     *)

ExactReplay(item) == Opaque("interactions") \in ToSet(item.parts)
PortableSearch(items, e) == \A k \in EffectPositions(e) : ExactReplay(items[k])
SearchHistory(items) ==
    WithoutEffects(items, {e \in ToolEffects(items) : e.tool.kind = "search" /\ ~PortableSearch(items, e)})

(* projectGeminiProviderDiscoveryHistory: settled provider discoveries are  *)
(* dropped.  Its matcher sees every discovery call but the results of the   *)
(* provider only.                                                           *)
DiscoveryView(items) ==
    SelectSeq([k \in 1 .. Len(items) |-> <<k, items[k]>>],
              LAMBDA p : \/ p[2].kind = "call" /\ p[2].tool.kind \in {"discovery", "providerDiscovery"}
                         \/ p[2].kind = "result" /\ p[2].tool.kind = "providerDiscovery")
DiscoveryUncorrelated(items) ==
    LET view == DiscoveryView(items)
    IN Matched([k \in 1 .. Len(view) |-> view[k][2]]).failed
DiscoveryHistory(items) ==
    WithoutEffects(items, {e \in ToolEffects(items) : e.tool.kind = "providerDiscovery" /\ e.result > 0})

(* geminiTools: search, functions and client discoveries are sent, custom   *)
(* tools and provider discoveries are not.                                  *)
InteractionsFragments(declarations) ==
    SelectSeq(declarations, LAMBDA d : d.tool.kind \in {"search", "function", "discovery"})
InteractionsToolsRefused(declarations) ==
    \E d \in ToSet(declarations) : d.tool.kind = "search" /\ d.variant = "restricted"

(* projectGeminiUnloweredToolHistory                                        *)
LoweredHistory(items, fragments) ==
    WithoutEffects(items, {e \in ToolEffects(items) : ~Declared(e.tool, fragments)})

(* geminiToolChoice and its use in geminiGenerationConfig                   *)
InteractionsToolChoice(policy, fragments) ==
    CASE fragments = <<>> -> NoPolicy
      [] policy.mode = "specific" /\ ~Declared(policy.tool, fragments) -> NoPolicy
      [] OTHER -> policy
SpecificSearch(policy, fragments) == policy.mode = "specific" /\ policy.tool.kind = "search" /\ Declared(policy.tool, fragments)

-----------------------------------------------------------------------------
(* geminiPreviousInteraction: the items from the end of the prelude up to   *)
(* omitEnd are left to the previous interaction; zero omits nothing.        *)

InvalidRange(items, omitEnd) == omitEnd > 0 /\ (PreludeLength(items) > omitEnd \/ omitEnd > Len(items))
AfterPrevious(items, omitEnd) ==
    IF omitEnd = 0 THEN items ELSE Prelude(items) \o SubSeq(items, omitEnd + 1, Len(items))

(* The names of functions by call id: those of the complete history, and    *)
(* then those of the calls that are sent before the result.                 *)
FunctionName(complete, sent, k) ==
    LET id == sent[k].id
        isCall(item) == item.kind = "call" /\ item.tool.kind # "search" /\ item.id = id
        before == SelectSeq(SubSeq(sent, 1, k), isCall)
        all == SelectSeq(complete, isCall)
    IN CASE before # <<>> -> Last(before).tool.name
         [] all # <<>> -> Last(all).tool.name
         [] OTHER -> "none"

(* geminiDiscoveryResult                                                    *)
DiscoveryText(item) == IF item.error THEN <<"failed">> ELSE <<"loaded">> \o [k \in 1 .. Len(item.parts) |-> item.parts[k].tool.name]

(* The input loop of encodeTextRequest.  A result without a named call is   *)
(* an error.                                                                *)
InteractionStep(complete, sent, k) ==
    LET item == sent[k]
        name == FunctionName(complete, sent, k)
    IN CASE item.kind = "tools" \/ (item.kind = "message" /\ Owner(item) = "none") -> <<>>
         [] item.kind = "message" ->
              <<Step(IF item.role = "user" THEN "user_input" ELSE "model_output", "none", "none", item.parts, FALSE)>>
         [] item.kind = "reasoning" ->
              IF item.tool = Tool("opaque", "interactions") THEN <<Step("thought", "none", "none", item.parts, FALSE)>> ELSE <<>>
         [] item.kind = "call" /\ item.tool.kind = "search" -> <<Step("google_search_call", item.id, "none", item.parts, FALSE)>>
         [] item.kind = "call" -> <<Step("function_call", item.id, item.tool.name, item.parts, FALSE)>>
         [] item.tool.kind = "search" -> <<Step("google_search_result", item.id, "none", item.parts, FALSE)>>
         [] item.tool.kind = "content" -> <<Step("function_result", item.id, name, item.parts, item.error)>>
         [] OTHER -> <<Step("function_result", item.id, name, <<DiscoveryText(item)>>, item.error)>>

(* Directives of any position are the system instruction.                   *)
Directives(items) == SelectSeq(items, LAMBDA item : item.kind = "message" /\ Owner(item) = "none")
Instructions(items) == [k \in 1 .. Len(Directives(items)) |-> Directives(items)[k].parts]

(* encodeTextRequest                                                        *)
EncodeInteractions(request, omitEnd) ==
    LET searched == SearchHistory(request.items)
        discovered == DiscoveryHistory(searched)
        declarations == EffectiveTools(discovered)
        fragments == InteractionsFragments(declarations)
        complete == LoweredHistory(discovered, fragments)
        sent == AfterPrevious(complete, omitEnd)
        input == FlattenSeq([k \in 1 .. Len(sent) |-> InteractionStep(complete, sent, k)])
        policy == EffectiveToolPolicy(request)
    IN [error |-> CASE InteractionsToolsRefused(declarations) -> "not_implemented"
                    [] DiscoveryUncorrelated(searched) \/ InvalidRange(complete, omitEnd)
                         \/ SpecificSearch(policy, fragments)
                         \/ \E k \in 1 .. Len(input) : input[k].type = "function_result" /\ input[k].name = "none" -> "internal"
                    [] OTHER -> "none",
        input |-> input,
        instructions |-> Instructions(sent),
        tools |-> fragments,
        choice |-> InteractionsToolChoice(policy, fragments)]

=============================================================================
