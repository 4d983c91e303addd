---------------------------- MODULE MCTcpServer ----------------------------
(* Instances of TcpServer for TLC. *)
EXTENDS TcpServer

CONSTANTS a, b

MCMsgs == {a, b}

\* A callback writes to a connection and then broadcasts.
MCPosts == {<<WriteTask(1, a), BroadcastTask(b)>>}

\* A callback broadcasts.
MCBroadcasts == {<<BroadcastTask(a)>>}

=============================================================================
