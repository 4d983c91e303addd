-------------------------------- MODULE Wire --------------------------------
(***************************************************************************)
(* One direction of a connection: the messages                             *)
(* (src/packages/common/src/messages.h), their JSON packets, the lines     *)
(* that carry them, the bytes of TCP in pieces, and the read loop that     *)
(* cuts the bytes into lines and the lines into messages again.            *)
(*                                                                         *)
(* A message is its kind and the values of its fields.  The JSON text of a *)
(* packet is abstracted to two pieces, enough to be cut in the middle; a   *)
(* line is a packet when it is all of it and nothing else.                 *)
(***************************************************************************)
EXTENDS Naturals, SequencesExt

CONSTANTS
    Said,     \* the messages that are sent to a server and to a client
    MaxSaid   \* bound: messages sent on the connection

Sides == {"server", "client"}

----------------------------------------------------------------------------
(* Messages and packets.                                                   *)

\* The fields that toString() of each struct writes, and that its constructor reads.
ServerStructs ==
    [UserStatus         |-> {"username", "timestamp", "status", "color"},
     NewMessageReceived |-> {"username", "timestamp", "message"},
     ServerResponse     |-> {"responseCode"}]

ClientStructs ==
    [InitialConnection |-> {"username"},
     NewMessage        |-> {"message"},
     Login             |-> {"username", "passwordHash"},
     Register          |-> {"username", "passwordHash"}]

ServerMessageType ==
    [NewMessageReceived |-> 0, UserStatus |-> 1, ServerResponse |-> 2]
ClientMessageType ==
    [InitialConnection |-> 0, NewMessage |-> 2, Register |-> 3, Login |-> 4]

\* What is sent to a side, by the code of the header.
Structs(to) == IF to = "server" THEN ClientStructs ELSE ServerStructs
Codes(to)   == IF to = "server" THEN ClientMessageType ELSE ServerMessageType

\* A message is one of the structs: a value for each of its fields and no other.
IsMessage(to, m) ==
    /\ m = [kind |-> m.kind, fields |-> m.fields] /\ m.kind \in DOMAIN Structs(to)
    /\ m.fields = [f \in Structs(to)[m.kind] |-> m.fields[f]]

ASSUME SaidAssumption == /\ DOMAIN Said = Sides /\ MaxSaid \in Nat
                         /\ \A to \in Sides : \A m \in Said[to] : IsMessage(to, m)

\* The definitions named Bad... are the code with a slip, each before the definition it
\* would replace.  Here the code of one struct was copied from another.
BadToString(to, m) ==
    [header |-> IF m.kind = "Register" THEN Codes(to)["Login"] ELSE Codes(to)[m.kind],
     content |-> [f \in Structs(to)[m.kind] |-> m.fields[f]]]

toString(to, m) ==
    [header |-> Codes(to)[m.kind],
     content |-> [f \in Structs(to)[m.kind] |-> m.fields[f]]]

\* The switch of the read loop, and the constructor it calls.
Construct(to, packet) ==
    LET kind == CHOOSE k \in DOMAIN Codes(to) : Codes(to)[k] = packet.header
    IN  [kind |-> kind, fields |-> [f \in Structs(to)[kind] |-> packet.content[f]]]

----------------------------------------------------------------------------
(* Lines.                                                                  *)

Newline == <<>>

\* ... with the newlines of a value as they are.
BadDump(p) ==
    IF \E f \in DOMAIN p.content : p.content[f] = "two lines"
    THEN <<<<p, 1>>, Newline, <<p, 2>>>> ELSE <<<<p, 1>>, <<p, 2>>>>

\* dump() escapes a newline inside a value.
Dump(p) == <<<<p, 1>>, <<p, 2>>>>

\* write() and broadcast() append the newline.
Line(to, m) == Append(Dump(toString(to, m)), Newline)

IsPacket(line) == line # <<>> /\ line = Dump(Head(line)[1])

VARIABLES
    side,    \* who reads: "server" or "client"
    said,    \* the messages sent, in order
    stream,  \* the pieces on their way
    cut,     \* the connection was lost
    buf,     \* read_buf
    got,     \* the messages that were handed to the handler
    alive    \* FALSE after an exception left the io thread

vars == <<side, said, stream, cut, buf, got, alive>>

Init ==
    /\ side \in Sides
    /\ said = <<>> /\ stream = <<>> /\ cut = FALSE
    /\ buf = <<>> /\ got = <<>> /\ alive = TRUE

HasLine == \E k \in DOMAIN buf : buf[k] = Newline

\* Lines of the same connection are written one after the other (WriteChain).
Say(m) ==
    /\ ~cut /\ Len(said) < MaxSaid
    /\ said' = Append(said, m)
    /\ stream' = stream \o Line(side, m)
    /\ UNCHANGED <<side, cut, buf, got, alive>>

\* async_read_until reads only when the buffer has no line; a read takes what came.
Arrive ==
    /\ alive /\ ~HasLine
    /\ \E n \in 1..Len(stream) :
          /\ buf' = buf \o SubSeq(stream, 1, n)
          /\ stream' = SubSeq(stream, n + 1, Len(stream))
    /\ UNCHANGED <<side, said, cut, got, alive>>

\* The connection is lost, with the end of what was on its way.
Cut ==
    /\ ~cut
    /\ cut' = TRUE
    /\ \E n \in 0..Len(stream) : stream' = SubSeq(stream, 1, n)
    /\ UNCHANGED <<side, said, buf, got, alive>>

\* getline() takes one line; what was read beyond it stays.
Rest(end) == SubSeq(buf, end + 1, Len(buf))

\* A line that is no JSON is logged, and then used: the lookup in it throws.
ReadLine ==
    /\ alive /\ HasLine
    /\ LET end  == CHOOSE k \in DOMAIN buf :
                       buf[k] = Newline /\ \A j \in 1..(k - 1) : buf[j] # Newline
           line == SubSeq(buf, 1, end - 1)
       IN  /\ buf' = Rest(end)
           /\ IF IsPacket(line)
              THEN got' = Append(got, Construct(side, Head(line)[1])) /\ UNCHANGED alive
              ELSE alive' = FALSE /\ UNCHANGED got
    /\ UNCHANGED <<side, said, stream, cut>>

Next == (\E m \in Said[side] : Say(m)) \/ Arrive \/ Cut \/ ReadLine

\* What is on its way arrives, and what was read is taken.
Fairness == WF_vars(Arrive) /\ WF_vars(ReadLine)

Spec == Init /\ [][Next]_vars /\ Fairness

----------------------------------------------------------------------------
(* Properties.                                                             *)

\* The handler gets what was said, in that order, each message once and with its fields,
\* however TCP cuts the bytes and wherever the connection breaks off
\* (tcp_server.h:155-194, tcp_client.h:155-197, messages.h:24-230).
Faithful == IsPrefix(got, said)

\* Every message that is said is handed over, unless the connection is lost: no line stays in
\* the buffer, the one behind another line neither, and no line of a peer that is this program
\* ends the io thread with an exception, whatever its texts are
\* (tcp_server.h:156-192, tcp_client.h:158-196).
AllHandedOver == \A n \in 1..MaxSaid : Len(said) >= n ~> (Len(got) >= n \/ cut)

=============================================================================
