-------------------------- MODULE ContentRequests ---------------------------
(***************************************************************************)
(* GenerateContent requests: a client's document decoded into canonical     *)
(* items.                                                                   *)
(*                                                                         *)
(* A content holds a role and parts; a part a type, a call id, a function   *)
(* name, texts and images, and whether a response is an error.              *)
(***************************************************************************)
EXTENDS CanonicalRequest

ContentPart(type, id, name, parts, error) == [type |-> type, id |-> id, name |-> name, parts |-> parts, error |-> error]
Content(role, parts) == [role |-> role, parts |-> parts]

(* classifyPart: the owner of a part, or "none" when it is refused.         *)
PartOwner(role, part) ==
    CASE role \notin {"user", "model"} \/ part.type \notin {"text", "thought", "image", "functionCall", "functionResponse"} -> "none"
      [] part.type \in {"functionCall", "thought"} -> "assistant"
      [] part.type = "functionResponse" -> "user"
      [] OTHER -> IF role = "model" THEN "assistant" ELSE "user"

(* The calls that wait for a response, as <<id, name>>.                     *)
Waiting(s, id) == {w \in s.pending : w[1] = id}

ContentFlush(s) ==
    IF s.parts = <<>> THEN s
    ELSE [s EXCEPT !.items = Append(@, MessageItem(s.role, "history", s.parts)), !.parts = <<>>]
ContentAdmit(s, item) == [ContentFlush(s) EXCEPT !.items = Append(@, item)]
ContentRefuse(s) == [s EXCEPT !.error = "bad_request"]

(* Correlation is checked in a complete document, not in the part of one    *)
(* that follows a known response.                                           *)
DecodeFunctionCall(s, part) ==
    IF part.id = "none" \/ part.name = "none" \/ (s.correlate /\ Waiting(s, part.id) # {}) THEN ContentRefuse(s)
    ELSE [ContentAdmit(s, ToolCallItem(Tool("function", part.name), part.id, part.parts))
            EXCEPT !.pending = @ \cup {<<part.id, part.name>>}]

DecodeFunctionResponse(s, part) ==
    IF part.id = "none" \/ part.name = "none" \/ (s.correlate /\ <<part.id, part.name>> \notin s.pending) THEN ContentRefuse(s)
    ELSE [ContentAdmit(s, ToolResultItem(part.id, part.parts, part.error)) EXCEPT !.pending = @ \ {<<part.id, part.name>>}]

(* decodeContentParts: one part.  A thought is a summary without replay,    *)
(* which may not be empty.                                                  *)
DecodeContentPart(s, part) ==
    LET owner == PartOwner(s.wireRole, part)
    IN CASE s.error # "none" -> s
         [] owner = "none" \/ s.owner \notin {"none", owner} -> ContentRefuse(s)
         [] part.type = "functionCall" -> DecodeFunctionCall([s EXCEPT !.owner = owner], part)
         [] part.type = "functionResponse" -> DecodeFunctionResponse([s EXCEPT !.owner = owner], part)
         [] part.type = "thought" /\ part.parts = << <<>> >> -> ContentRefuse(s)
         [] part.type = "thought" /\ part.parts # << <<>> >> -> ContentAdmit([s EXCEPT !.owner = owner], ReasoningItem(part.parts, "none"))
         [] OTHER -> [s EXCEPT !.owner = owner, !.role = owner, !.parts = @ \o part.parts]

(* decodeItemsView: a content with responses answers every waiting call.    *)
DecodeContent(s, content) ==
    LET responses == SelectSeq(content.parts, LAMBDA part : part.type = "functionResponse")
        start == [s EXCEPT !.owner = "none", !.wireRole = IF content.role = "none" THEN "user" ELSE content.role]
    IN CASE s.error # "none" -> s
         [] content.parts = <<>> -> ContentRefuse(s)
         [] s.correlate /\ responses # <<>> /\ Len(responses) # Cardinality(s.pending) -> ContentRefuse(s)
         [] OTHER -> ContentFlush(FoldLeft(DecodeContentPart, start, content.parts))

(* decodeItems, with the system instruction and decodeTools                 *)
DecodeContents(contents, system, tools, correlate) ==
    LET start == [items |-> <<>>, parts |-> <<>>, role |-> "user", owner |-> "none", wireRole |-> "user",
                  pending |-> {}, correlate |-> correlate, error |-> "none"]
        s == FoldLeft(DecodeContent, start, contents)
    IN [error |-> s.error,
        items |-> (IF system = <<>> THEN <<>> ELSE <<MessageItem("system", "request", system)>>)
                    \o (IF tools = <<>> THEN <<>> ELSE <<ToolDeclarationsItem("request", tools)>>)
                    \o s.items]

=============================================================================
