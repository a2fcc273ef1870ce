------------------------- MODULE MCResponsesWebSocket -------------------------
(* Connections with few messages: the bounds are in the cfg.                 *)
EXTENDS ResponsesWebSocket
=============================================================================
