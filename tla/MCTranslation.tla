--------------------------- MODULE MCTranslation ---------------------------
(***************************************************************************)
(* Translation for TLC: two output indexes, one call id, texts of one chunk *)
(* and wire items of every kind.                                            *)
(***************************************************************************)
EXTENDS Translation

MCProtocols == {"responses", "messages", "chat", "interactions"}
MCBudget == [responses |-> 5, messages |-> 6, chat |-> 4, interactions |-> 8]
MCIndexes == {0, 1}
MCCallIds == {"a"}
MCTexts == {<<"x">>, <<"y">>}
MCArgumentChunks == {<<"{">>, <<"}">>, Object}
MCBlockTypes == {"text", "tool_use", "web_search", "web_search_tool_result", "thinking", "unknown"}

Part(text) == [known |-> TRUE, text |-> text]
Short == R!WireItem("message", NoId, "completed", <<Part(<<"x">>)>>, "none")
Hosted == R!WireItem("tool_search_call", NoId, "completed", <<Part(Object)>>, "none")
HostedOutput == R!WireItem("tool_search_output", NoId, "completed", <<Part(<<"t">>)>>, "none")
MCOutputItems ==
    {Short, Hosted, HostedOutput,
     R!WireItem("message", NoId, "incomplete", <<Part(<<"x", "y">>)>>, "none"),
     R!WireItem("message", NoId, "completed", <<Part(<<"x">>), Part(<<"y">>)>>, "none"),
     R!WireItem("reasoning", NoId, "completed", <<Part(<<"x">>)>>, "opaque"),
     R!WireItem("function_call", "a", "completed", <<Part(Object)>>, "none"),
     R!WireItem("custom_tool_call", "a", "completed", <<Part(<<"x">>)>>, "none"),
     R!WireItem("web_search_call", "a", "completed", <<Part(<<"q">>)>>, "sources"),
     R!WireItem("web_search_call", "a", "completed", <<Part(<<"page">>)>>, "sources"),
     R!WireItem("web_search_call", "a", "incomplete", <<Part(<<"q">>)>>, "none"),
     R!WireItem("message", NoId, "completed", <<>>, "empty"),
     R!WireItem("reasoning", NoId, "completed", <<>>, "empty"),
     R!WireItem("image_generation_call", NoId, "completed", <<>>, "none")}
Terminal(status, output, text, filter) == [status |-> status, output |-> output, text |-> text, filter |-> filter]
MCTerminals ==
    {Terminal(status, output, <<>>, "none") : status \in {"completed", "incomplete"},
        output \in {<<>>, <<Hosted, HostedOutput>>} \cup {<<item>> : item \in MCOutputItems} \cup {<<Short, item>> : item \in MCOutputItems}}
    \cup {Terminal(status, <<>>, <<"x">>, filter) : status \in {"completed", "incomplete"}, filter \in {"none", "completion"}}
    \cup {Terminal("incomplete", <<Short>>, <<"x">>, filter) : filter \in {"prompt", "completion"}}

Fragment(index, kind, id, text) == [index |-> index, kind |-> kind, id |-> id, text |-> text]
MCChunkFragments ==
    {<<>>} \cup {<<Fragment(0, "function", id, <<"{">>)>> : id \in {NoId, "a"}}
           \cup {<<Fragment(i, "function", "a", Object)>> : i \in {0, 1}}
           \cup {<<Fragment(0, "none", NoId, <<"}">>)>>, <<Fragment(0, "unknown", NoId, <<>>)>>}
=============================================================================
