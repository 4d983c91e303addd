-------------------------- MODULE MCServerProcess ---------------------------
(* Instances of ServerProcess for TLC. *)
EXTENDS ServerProcess

CONSTANTS ann, red

MCMsgs      == Texts \cup Statuses
MCUserOrder == <<ann>>
MCColors    == {red}
MCPosts     == {}

=============================================================================
