---------------------------- MODULE Conversation ----------------------------
(***************************************************************************)
(* A conversation on its way to a provider: a canonical history grows item  *)
(* by item, and whenever it would pass the validation in front of a         *)
(* provider attempt it may be sent to a target of any of four protocols.    *)
(* The encoders are functions of the request, so they are evaluated on the  *)
(* history and have no state here.                                          *)
(*                                                                         *)
(* For the three protocols Swobu also serves, what a target is sent is read *)
(* back by the decoder of that protocol's clients.                          *)
(***************************************************************************)
EXTENDS CanonicalRequest

CONSTANTS Scenarios,     \* [name -> what one conversation may be made of]
          CallIds        \* call ids, free again when they are answered

VARIABLES scenario,      \* the scenario of this conversation
          items,         \* the items of the request
          matcher        \* ToolEffectMatcher, after the last of them

vars == <<scenario, items, matcher>>

C == INSTANCE ChatRequests
I == INSTANCE InteractionsRequests
M == INSTANCE MessagesRequests
R == INSTANCE ResponsesRequests

Request(list) == [items |-> list, policy |-> Scenarios[scenario].policy]

Init ==
    /\ scenario \in DOMAIN Scenarios
    /\ items = Scenarios[scenario].prelude
    /\ matcher = Matched(items)

Room == Len(History(items)) < Scenarios[scenario].length

Grow(item) ==
    /\ ValidateMaterializedRequest(Request(Append(items, item)))
    /\ items' = Append(items, item)
    /\ matcher' = Accept(matcher, item)
    /\ UNCHANGED scenario

(* Somebody speaks, the model thinks, or tools are declared.                *)
Speak == Room /\ \E item \in Scenarios[scenario].turns : Grow(item)

(* The model calls a tool, which may be one that is not declared (any more).*)
CallTool == Room /\ \E call \in Scenarios[scenario].calls, id \in CallIds : Grow([call EXCEPT !.id = id])

(* The client or the provider answers a call.                               *)
Answer == Room /\ \E result \in Scenarios[scenario].results, id \in CallIds : Grow([result EXCEPT !.id = id])

Next == Speak \/ CallTool \/ Answer

Spec == Init /\ [][Next]_vars

-----------------------------------------------------------------------------
(* The effect an item belongs to, and who may not be told apart.            *)

Sendable == ValidateMaterializedRequest(Request(items))
Declarations == EffectiveTools(items)
Effects == ToSet(matcher.effects)
EffectAt(k) == CHOOSE e \in Effects : k \in EffectPositions(e)
Open(e, k) == e.call < k /\ (e.result = 0 \/ e.result > k)
UpToImage(parts) == <<FlattenSeq([k \in 1 .. Len(parts) |-> IF Image \in ToSet(SubSeq(parts, 1, k)) THEN <<>> ELSE parts[k]])>>
Asked(item) == SelectSeq(item.parts, LAMBDA part : part[1] # "opaque")

(* What position k becomes at a target, for the positions after a cut.      *)
Trace(of(_), cut) == FlattenSeq([k \in 1 .. Len(items) |-> IF k <= cut THEN <<>> ELSE of(k)])

InHistory(item) == [item EXCEPT !.scope = "history"]
(* A choice is made among tools that are sent.                              *)
Choosable(choice, tools) == choice # NoPolicy => tools # <<>> /\ (choice.mode = "specific" => Declared(choice.tool, tools))

AsFunction(item) == [item EXCEPT !.tool = Tool("function", @.name)]

-----------------------------------------------------------------------------
(* Chat Completions.                                                        *)

(* Images leave the results they came in, and follow the run of results.    *)
ChatAt(k) ==
    LET item == items[k] IN
    CASE item.kind = "message" -> <<InHistory(item)>>
      [] item.kind = "call" /\ item.tool.kind = "discovery" -> <<AsFunction(item)>>
      [] item.kind = "call" /\ item.tool.kind \in {"function", "custom"} -> <<item>>
      [] item.kind = "result" /\ item.tool.kind = "content" -> <<ToolResultItem(item.id, <<C!ChatResultText(item.parts)>>, FALSE)>>
      [] item.kind = "result" /\ item.tool.kind = "discovery" -> <<ToolResultItem(item.id, <<C!ChatDiscoveryText(item)>>, FALSE)>>
      [] OTHER -> <<>>

(* A call that starts a batch while another is open, images that would have *)
(* to split one, and a call of a tool that is not sent.                     *)
ChatItems == C!ChatConversation(items)
ChatOverlap ==
    LET effects == ToolEffects(ChatItems)
    IN \E e \in effects : \E f \in effects :
          Open(e, f.call) /\ ChatItems[f.call - 1].kind # "call"
ChatSplit ==
    LET effects == ToolEffects(ChatItems)
        run(j, k) == \A n \in j .. k : C!IsContentResult(ChatItems[n])
    IN \E e \in effects : \E f \in effects :
          /\ f.result > 0 /\ C!IsContentResult(ChatItems[f.result]) /\ Image \in ToSet(ChatItems[f.result].parts)
          /\ \E k \in f.result .. Len(ChatItems) :
                /\ run(f.result, k) /\ (k = Len(ChatItems) \/ ~C!IsContentResult(ChatItems[k + 1]))
                /\ Open(e, k)
ChatUnsent ==
    \E e \in Effects : e.tool.kind \in {"function", "custom", "discovery"} /\ ~Declared(e.tool, C!ChatFragments(Declarations))

Marked(item) == item.kind = "message" /\ item.parts[1] = <<"marker">>
ImageCount(list) == Len(SelectSeq(FlattenSeq([k \in 1 .. Len(list) |-> IF Declares(list[k]) THEN <<>> ELSE list[k].parts]), LAMBDA part : part = Image))

ChatTold(sent, read) ==
    LET told == SelectSeq(read.items, LAMBDA item : item.kind # "tools" /\ ~Marked(item))
    IN /\ (sent.error # "none") = (C!ChatToolsRefused(Declarations) \/ ChatOverlap \/ ChatSplit \/ ChatUnsent)
       /\ sent.error = "none" /\ sent.messages # <<>> =>
            /\ read.error = "none" /\ ~Matched(read.items).failed
            /\ [k \in 1 .. Len(told) |-> InHistory(told[k])] = Trace(ChatAt, 0)
            /\ ImageCount(read.items) = ImageCount(items)
            /\ Choosable(sent.choice, sent.tools)

ChatSent(sent) == ChatTold(sent, C!DecodeChat(sent.messages, sent.tools))
ChatCarries == ChatSent(C!EncodeChat(Request(items)))

-----------------------------------------------------------------------------
(* Messages.                                                                *)

(* Searches of one query and calls of tools that are sent stay, with their  *)
(* results.  The replay of another provider is not sent with a search.      *)
MessagesKeeps(e) ==
    IF e.tool.kind = "search" THEN Len(Asked(items[e.call])) = 1
    ELSE Declared(e.tool, M!MessagesFragments(Declarations))

MessagesAt(k) ==
    LET item == items[k] IN
    CASE item.kind = "message" -> IF Owner(item) = "none" THEN <<>> ELSE <<item>>
      [] item.kind = "reasoning" -> IF item.tool.name = "messages" THEN <<item>> ELSE <<>>
      [] item.kind = "tools" \/ ~MessagesKeeps(EffectAt(k)) -> <<>>
      [] item.tool.kind = "search" -> <<[item EXCEPT !.parts = Asked(item)]>>
      [] item.kind = "call" /\ item.tool.kind = "discovery" -> <<AsFunction(item)>>
      [] OTHER -> <<item>>

(* Texts that follow each other in one turn become one message.             *)
Joined(list) ==
    LET join(acc, item) ==
          IF acc # <<>> /\ Last(acc).kind = "message" /\ item.kind = "message" /\ Last(acc).role = item.role
          THEN Append(Front(acc), [Last(acc) EXCEPT !.parts = @ \o item.parts]) ELSE Append(acc, item)
    IN FoldLeft(join, <<>>, list)

(* The result of a discovery of the client holds references only, which a   *)
(* client may not send.                                                     *)
MessagesReferences == \E e \in Effects : e.tool.kind = "discovery" /\ e.result > 0 /\ MessagesKeeps(e)

(* No turn remains.  Reasoning of another protocol is a turn of no content. *)
MessagesNothing ==
    \A k \in 1 .. Len(items) : Owner(items[k]) = "none" \/ (items[k].kind \in {"call", "result"} /\ ~MessagesKeeps(EffectAt(k)))

MessagesTold(sent, read, kept) ==
    LET told == SelectSeq(read.items, LAMBDA item : item.kind # "tools" /\ Owner(item) # "none")
    IN /\ (sent.error # "none") = (M!MessagesToolsRefused(Declarations) \/ MessagesNothing)
       /\ sent.error = "none" /\ kept # <<>> /\ ~MessagesReferences =>
            /\ read.error = "none" /\ ~Matched(read.items).failed
            /\ Joined(told) = Joined(kept)
            /\ Choosable(sent.choice, sent.tools)
            /\ sent.deferred \subseteq ToSet(sent.tools) /\ (sent.tools # <<>> => sent.deferred # ToSet(sent.tools))

MessagesSent(sent) ==
    MessagesTold(sent, M!DecodeMessages(sent.messages, sent.system, sent.tools), Trace(MessagesAt, 0))
MessagesCarries == MessagesSent(M!EncodeMessages(Request(items)))

-----------------------------------------------------------------------------
(* Responses.                                                               *)

Targets == {R!ResponsesTarget(FALSE, TRUE), R!ResponsesTarget(TRUE, FALSE)}
ResponsesKeeps(e) == e.tool.kind \in {"function", "search"} \/ Declared(e.tool, Declarations)

(* A search and its result are one item, its id is that of a provider of    *)
(* this protocol or made up.                                                *)
Searched(k, settled) ==
    LET item == items[k]
        own == Opaque("responses") \in ToSet(item.parts)
        call == [item EXCEPT !.parts = Asked(item) \o IF own THEN <<Opaque("responses")>> ELSE <<>>]
    IN IF settled THEN <<call, WebSearchResultItem(item.id, <<>>)>> ELSE <<call>>

(* A target that takes texts only is told the text in front of the first    *)
(* image of a result, and none of the text behind it.                       *)
ResponsesResult(k, target) ==
    LET item == items[k]
        images == SelectSeq(item.parts, LAMBDA part : part = Image)
    IN IF target.arrays /\ items[EffectAt(k).call].tool.kind = "function" THEN <<[item EXCEPT !.error = FALSE]>>
       ELSE <<ToolResultItem(item.id, UpToImage(item.parts), FALSE)>>
              \o IF images = <<>> THEN <<>> ELSE <<MessageItem("user", "history", images)>>

ResponsesAt(k, target) ==
    LET item == items[k] IN
    CASE RequestScoped(item) -> <<>>
      [] item.kind = "message" -> <<item>>
      [] item.kind = "tools" -> <<[item EXCEPT !.parts = R!ResponsesFragments(@, target)]>>
      [] item.kind = "reasoning" ->
           IF item.tool.name = "responses" THEN <<item>>
           ELSE IF item.parts = <<>> THEN <<>> ELSE <<ReasoningItem(item.parts, "none")>>
      [] ~ResponsesKeeps(EffectAt(k)) -> <<>>
      [] item.kind = "call" -> IF item.tool.kind = "search" THEN Searched(k, EffectAt(k).result > 0) ELSE <<item>>
      [] item.tool.kind = "search" -> <<>>
      [] item.tool.kind = "content" -> ResponsesResult(k, target)
      [] OTHER -> <<[item EXCEPT !.parts = R!ResponsesFragments(@, target)]>>

(* A failed discovery that is declared has no item.                         *)
ResponsesFailure == \E e \in Effects : e.result > 0 /\ items[e.result].error /\ items[e.result].tool.kind # "content" /\ ResponsesKeeps(e)

(* The result of a call that took the id of an answered search goes out     *)
(* under the projection of the search, which popped no queue.               *)
Misdirected ==
    \E e \in Effects : \E f \in Effects :
        /\ e.tool.kind = "search" /\ e.result > 0
        /\ e.id = f.id /\ e.call < f.call /\ f.tool.kind # "search" /\ f.result > 0

(* Ids of searches apart.                                                   *)
Anonymous(list) == [k \in 1 .. Len(list) |-> IF list[k].tool.kind = "search" THEN [list[k] EXCEPT !.id = "search"] ELSE list[k]]

ResponsesRead(sent) == R!DecodeResponses(sent.input, sent.instructions, sent.tools)
ResponsesTrace(read, target, cut) ==
    LET told == SelectSeq(read.items, LAMBDA item : ~RequestScoped(item))
        at(k) == ResponsesAt(k, target)
    IN Anonymous(told) = Anonymous(Trace(at, cut))

ResponsesCarried(read, target) == read.error = "none" /\ ~Matched(read.items).failed /\ ResponsesTrace(read, target, 0)

ResponsesTold(sent, read, target) ==
    /\ (sent.error # "none") = (R!ResponsesToolsRefused(Declarations, target) \/ ResponsesFailure)
    /\ sent.error = "none" /\ sent.input # <<>> =>
         /\ ResponsesCarried(read, target) <=> ~Misdirected
         /\ Choosable(sent.choice, EffectiveTools(read.items))

ResponsesSent(sent, target) == ResponsesTold(sent, ResponsesRead(sent), target)
ResponsesCarries(target) == ResponsesSent(R!EncodeResponses(Request(items), target, 0), target)

-----------------------------------------------------------------------------
(* Interactions.                                                            *)

(* Tools a settled discovery of the provider loaded are not sent, the       *)
(* discovery is dropped before the tools are looked for.                    *)
InteractionsDeclarations ==
    EffectiveTools(SelectSeq(items, LAMBDA item : ~(item.kind = "result" /\ item.tool.kind = "providerDiscovery")))

InteractionsKeeps(e) ==
    /\ e.tool.kind = "search" => \A k \in EffectPositions(e) : Opaque("interactions") \in ToSet(items[k].parts)
    /\ e.tool.kind = "providerDiscovery" => e.result = 0
    /\ Declared(e.tool, I!InteractionsFragments(InteractionsDeclarations))

(* A result is sent under the name of the call it answers.                  *)
InteractionsAt(k) ==
    LET item == items[k]
        name == items[EffectAt(k).call].tool.name
    IN CASE item.kind = "tools" \/ (item.kind = "message" /\ Owner(item) = "none") -> <<>>
         [] item.kind = "message" -> <<I!Step(IF item.role = "user" THEN "user_input" ELSE "model_output", "none", "none", item.parts, FALSE)>>
         [] item.kind = "reasoning" ->
              IF item.tool.name = "interactions" THEN <<I!Step("thought", "none", "none", item.parts, FALSE)>> ELSE <<>>
         [] ~InteractionsKeeps(EffectAt(k)) -> <<>>
         [] item.tool.kind = "search" ->
              <<I!Step(IF item.kind = "call" THEN "google_search_call" ELSE "google_search_result", item.id, "none", item.parts, FALSE)>>
         [] item.kind = "call" -> <<I!Step("function_call", item.id, item.tool.name, item.parts, FALSE)>>
         [] item.tool.kind = "content" -> <<I!Step("function_result", item.id, name, item.parts, item.error)>>
         [] OTHER -> <<I!Step("function_result", item.id, name, <<I!DiscoveryText(item)>>, item.error)>>

(* Another discovery took the id of an answered discovery of the client,    *)
(* which the matcher of provider discoveries never saw answered.            *)
DiscoveryReused ==
    \E e \in Effects : \E f \in Effects :
        /\ e.tool.kind = "discovery" /\ f.tool.kind \in {"discovery", "providerDiscovery"}
        /\ e.id = f.id /\ e.call < f.call

InteractionsRefused == I!InteractionsToolsRefused(InteractionsDeclarations) \/ DiscoveryReused

InteractionsSent(sent) ==
    /\ (sent.error # "none") = InteractionsRefused
    /\ sent.error = "none" => sent.input = Trace(InteractionsAt, 0) /\ Choosable(sent.choice, sent.tools)
InteractionsCarries == InteractionsSent(I!EncodeInteractions(Request(items), 0))

-----------------------------------------------------------------------------
(* What every target is told of a history is that history: each effect      *)
(* whole, every call with its own result, under the tool it was called by   *)
(* and in the order of the conversation; and a valid history is refused in  *)
(* exactly the cases named here (CompileProviderRequestDocument of each     *)
(* protocol, encodeTextRequest, and the client decoders that read the       *)
(* documents back).  An id may be used again, with two exceptions that the  *)
(* statement makes exact.  A Responses target is sent another history if    *)
(* and only if an answered call of another kind took the id of an answered  *)
(* search (Misdirected).  Interactions refuses every history in which a     *)
(* discovery took the id of an answered discovery of the client             *)
(* (DiscoveryReused).  Of a result with images a Responses target that      *)
(* takes no arrays is told the text in front of the first (UpToImage).      *)
HistoryCarried ==
    Sendable =>
        /\ ChatCarries
        /\ MessagesCarries
        /\ \A target \in Targets : ResponsesCarries(target)
        /\ InteractionsCarries

-----------------------------------------------------------------------------
(* Continuation: a response of the provider ended at a cut, and its handle  *)
(* stands for the history up to there.  What the provider does itself does  *)
(* not cross the end of its response.                                       *)

ProviderCrosses(cut) == \E e \in Effects : C!ProviderOwned(e) /\ Open(e, cut + 1)
Cuts ==
    {cut \in PreludeLength(items) + 1 .. Len(items) - 1 :
        Owner(items[cut]) = "assistant" /\ Owner(items[cut + 1]) # "assistant" /\ ~ProviderCrosses(cut)}

(* An id was used before by an effect that is not over at the cut.          *)
ReusedAcross(cut) ==
    \E e \in Effects : \E f \in Effects :
        e.id = f.id /\ e.call < f.call /\ e.call <= cut /\ (cut < f.call \/ cut < f.result)

InteractionsWhole(cut) == \A e \in Effects : e.call <= cut => InteractionsKeeps(e)

(* What is not refused sends the rest.                                      *)
InteractionsResent(sent, cut) == sent.error = "none" => sent.input = Trace(InteractionsAt, cut)
InteractionsContinues(cut) == InteractionsResent(I!EncodeInteractions(Request(items), cut), cut)

ResponsesResent(sent, target, cut) == sent.error = "none" => ResponsesTrace(ResponsesRead(sent), target, cut)
ResponsesContinues(cut, target) == ResponsesResent(R!EncodeResponses(Request(items), target, cut), target, cut)

(* A continued request sends what the provider does not know, and nothing   *)
(* else: the items after the response the handle stands for, as they would  *)
(* be sent in the complete history, and refused when that is.  It holds     *)
(* while no id is used on both sides of the cut, for Interactions while     *)
(* nothing before it was left out, and for Responses while no result is     *)
(* misdirected in the complete history.                                     *)
ContinuationSendsTheRest ==
    Sendable => \A cut \in Cuts : ~ReusedAcross(cut) =>
        /\ InteractionsWhole(cut) =>
              \A sent \in {I!EncodeInteractions(Request(items), cut)} :
                  (sent.error # "none") = InteractionsRefused /\ InteractionsResent(sent, cut)
        /\ ~Misdirected => \A target \in Targets : ResponsesContinues(cut, target)

(* The documented contract, for Interactions.                               *)
ContinuationIsExact ==
    Sendable => \A cut \in Cuts : ~ReusedAcross(cut) => InteractionsContinues(cut)

=============================================================================
