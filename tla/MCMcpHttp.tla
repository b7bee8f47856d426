----------------------------- MODULE MCMcpHttp -----------------------------
(* Traffic and bounds for checking McpHttp with TLC. *)
EXTENDS McpHttp

CONSTANTS r1, r2, r3

Message(m, s, b) == [method |-> m, session |-> s, body |-> b]

(* Every command on a session, and what a client without one sends. *)
SessionTraffic ==
    {Message("POST", s, b) : s \in Sessions,
                             b \in {"initialized", "call", "oversized"}}
    \cup {Message(m, s, "other") : m \in {"DELETE", "GET"}, s \in Sessions}
    \cup {Message("POST", NoSession, b) : b \in {"initialize", "oversized"}}

(* bound: one request initializes, one initializes or goes on with that, and *)
(* only the third may be any.  They arrive in any order.                      *)
Sent(r, bodies) == stage[r] = "new" \/ cmd[r].body \in bodies
Roles == /\ Sent(r1, {"initialize"})
         /\ Sent(r2, {"initialize", "initialized"})
         /\ Sent(r3, {"initialize", "call", "oversized", "other"})
=============================================================================
