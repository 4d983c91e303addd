-------------------------------- MODULE Room --------------------------------
(***************************************************************************)
(* What the chat promises to the people in it: there is one log of texts,  *)
(* which is only ever added to, and a member sees it from its first text   *)
(* on, in order, nothing twice and nothing left out, as long as it stays.  *)
(***************************************************************************)
EXTENDS Naturals, Sequences

CONSTANTS People, Texts

VARIABLES
    log,      \* all that was said
    members,  \* who is in the room
    view      \* what each member sees of the log

vars == <<log, members, view>>

Init == log = <<>> /\ members = {} /\ view = [c \in People |-> <<>>]

Say(t) == log' = Append(log, t) /\ UNCHANGED <<members, view>>

Enter(c) == c \notin members /\ members' = members \cup {c} /\ UNCHANGED <<log, view>>

\* Some leave, or all at once when the server is killed.
Leave(S) ==
    /\ members' = members \ S
    /\ view' = [c \in People |-> IF c \in S THEN <<>> ELSE view[c]]
    /\ UNCHANGED log

Behind(c) == c \in members /\ Len(view[c]) < Len(log)

See(c) ==
    /\ Behind(c)
    /\ view' = [view EXCEPT ![c] = Append(@, log[Len(@) + 1])]
    /\ UNCHANGED <<log, members>>

Next ==
    \/ \E t \in Texts : Say(t)
    \/ \E c \in People : Enter(c) \/ See(c)
    \/ \E S \in SUBSET People : Leave(S)

\* A member that is behind sees the next text or leaves.
Spec == Init /\ [][Next]_vars
        /\ \A c \in People : WF_vars(See(c) \/ (Behind(c) /\ Leave({c})))

=============================================================================
