--------------------------- MODULE MCChatGPTLogin ---------------------------
(* Instances of ChatGPTLogin for TLC. *)
EXTENDS ChatGPTLogin
=============================================================================
