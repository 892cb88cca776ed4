----------------------------- MODULE MCWebClient ------------------------------
(* WebClient for TLC: a turn with a tool call and an answer. *)
EXTENDS WebClient

MCTurn == <<"ToolStart", "ToolEnd", "LLMChunk", "AgentEnd">>
MCCallOf == <<0, 1, 0, 0>>
=============================================================================
