------------------------------- MODULE MCChat -------------------------------
(* Instances of Chat for TLC. *)
EXTENDS Chat

CONSTANTS c1, c2, ann, bob, red

MCClients   == {c1, c2}
MCUserOrder == <<ann, bob>>
MCColors    == {red}

\* One text with every failure and kill, or two of one user on connections that stay, with the
\* failures of the store.  The other names and authors are these with the clients or the users
\* swapped.
MCFocus ==
    /\ name[c1] = ann
    /\ typed # <<>> => typed[1].by = c1
    /\ Len(typed) > 1 => /\ name[c2] = ann /\ kills = 0
                         /\ \A c \in Clients : link[c] # "down"

=============================================================================
