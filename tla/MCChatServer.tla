---------------------------- MODULE MCChatServer ----------------------------
(* Instances of ChatServer for TLC. *)
EXTENDS ChatServer, TLC

CONSTANTS ann, bob, red, blue

MCMsgs == Texts \cup Statuses
MCUserOrder == <<ann, bob>>
MCColors    == {red, blue}
MCPosts     == {}

\* The two colours are drawn alike.
MCSymmetry == Permutations(MCColors)

\* A server that is not stopped and whose accepts succeed.
MCServing == pc = "idle" /\ \A k \in DOMAIN ready : ready[k] # Accepted("error")

\* ... and no connection fails, over a table that is not empty.
MCConnected == MCServing /\ db # <<>> /\ \A k \in DOMAIN ready, i \in Ids :
                                ready[k] \notin {Read(i, "error"), Wrote(i, "error")}

\* ... and nobody says anything but who they are.
MCSilent == MCServing /\ said = 0

=============================================================================
