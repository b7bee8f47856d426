----------------------------- MODULE MCMcpStdio -----------------------------
(* Model values for checking McpStdio with TLC. *)
EXTENDS McpStdio, TLC

CONSTANTS c1, c2, c3, i1, i2

(* Two calls share an id, a third has its own. *)
TwoShareAnId == (c1 :> i1) @@ (c2 :> i1) @@ (c3 :> i2)
=============================================================================
