--------------------------- MODULE MCBypassStore ---------------------------
(***************************************************************************)
(* An instance of BypassStore for TLC: two tool calls of one session that  *)
(* need the same one-shot token, and two terminals.                        *)
(***************************************************************************)
EXTENDS BypassStore, TLC

CONSTANTS c1, c2, push, net, debug, here

\* c1 is an MCP call that the deputy check denies by one rule.
MCScope  == [c \in {c1, c2} |-> here]
MCDenied == c1 :> {net} @@ c2 :> {}
MCInputs == c1 :> {{push}} @@ c2 :> {{push, debug}, {debug}}
=============================================================================
