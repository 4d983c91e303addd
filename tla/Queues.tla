------------------------------- MODULE Queues -------------------------------
(***************************************************************************)
(* What the properties of the transports say about a queue of handlers or  *)
(* of lines, and those of the chat about a stream.                         *)
(***************************************************************************)
EXTENDS Naturals, Sequences

\* Some element of the queue q, or at most one, is in the set H.
Has(q, H)       == \E k \in 1..Len(q) : q[k] \in H
AtMostOne(q, H) == \A j, k \in 1..Len(q) : q[j] \in H /\ q[k] \in H => j = k

\* The elements of q that are in H, in their order.
Filter(q, H) ==
    LET kept[k \in 0..Len(q)] ==
            IF k = 0 THEN <<>>
            ELSE IF q[k] \in H THEN Append(kept[k - 1], q[k]) ELSE kept[k - 1]
    IN  kept[Len(q)]

=============================================================================
