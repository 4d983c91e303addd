------------------------------- MODULE Fanout -------------------------------
(***************************************************************************)
(* What the transport promises to the code above it, whatever the order of *)
(* its handlers: each member of the audience has a stream of lines, a line *)
(* is published to one member or to all of them, and a member receives its *)
(* stream from the first line on, in order, nothing twice and nothing left *)
(* out, until it leaves.                                                   *)
(***************************************************************************)
EXTENDS Naturals, Sequences

CONSTANTS Members, Lines

VARIABLES live, stream, delivered

vars == <<live, stream, delivered>>

Nothing == [i \in Members |-> <<>>]

Init == live = {} /\ stream = Nothing /\ delivered = Nothing

Join(i) ==
    /\ i \notin live /\ stream[i] = <<>>
    /\ live' = live \cup {i}
    /\ UNCHANGED <<stream, delivered>>

Leave(S) ==
    /\ S # {} /\ live' = live \ S
    /\ UNCHANGED <<stream, delivered>>

Publish(S, m) ==
    /\ S = live \/ \E i \in live : S = {i}
    /\ stream' = [i \in Members |-> IF i \in S THEN Append(stream[i], m) ELSE stream[i]]
    /\ UNCHANGED <<live, delivered>>

Awaits(i) == Len(delivered[i]) < Len(stream[i])

\* The next line of the stream; a line on its way may still arrive at one who left.
Deliver(i) ==
    /\ Awaits(i)
    /\ delivered' = [delivered EXCEPT ![i] = Append(@, stream[i][Len(@) + 1])]
    /\ UNCHANGED <<live, stream>>

\* The stop of the server: the audience is gone and forgotten.
Reset == live = {} /\ stream' = Nothing /\ delivered' = Nothing /\ UNCHANGED live

Next ==
    \/ \E i \in Members : Join(i) \/ Deliver(i)
    \/ \E S \in SUBSET Members : Leave(S)
    \/ \E S \in SUBSET Members, m \in Lines : Publish(S, m)
    \/ Reset

\* A member with lines to come gets the next one or leaves.
Served(i) == i \in live /\ Awaits(i) /\ (Deliver(i) \/ Leave({i}))

Spec == Init /\ [][Next]_vars /\ \A i \in Members : WF_vars(Served(i))

=============================================================================
