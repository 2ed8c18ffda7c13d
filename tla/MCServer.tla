------------------------------ MODULE MCServer ------------------------------
(* Instances of Server for TLC.                                            *)
EXTENDS Server, TLC

CONSTANTS c1, c2

\* A server with TLS and one that its application greets, both with a listener, and one
\* without any.  The second client never answers the greeting.
MCSettings == {
  [tls |-> TRUE, auto |-> TRUE, handled |-> {"QUERY"},
   sends |-> c1 :> {"ssl", "response", "QUERY", "garbled"} @@ c2 :> {}],
  [tls |-> FALSE, auto |-> FALSE, handled |-> {"STMT_PREPARE"},
   sends |-> c1 :> {"response", "QUERY"} @@ c2 :> {}],
  [tls |-> FALSE, auto |-> TRUE, handled |-> {},
   sends |-> c1 :> {"ssl", "response", "PING", "FIELD_LIST", "unknown", "empty", "QUIT"} @@ c2 :> {}]}
=============================================================================
