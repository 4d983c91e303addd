----------------------------- MODULE WireProofs -----------------------------
(***************************************************************************)
(* What Wire keeps for every set of messages, any number of them and every *)
(* way of cutting the bytes: what is said is what is heard.                *)
(***************************************************************************)
EXTENDS Wire, SequenceFacts

\* A line has three pieces, so the piece at place k of all the lines of the messages s belongs
\* to message (k + 2) \div 3.
Piece(s, k) ==
    LET p == toString(side, s[(k + 2) \div 3])
    IN  IF k % 3 = 1 THEN <<p, 1>> ELSE IF k % 3 = 2 THEN <<p, 2>> ELSE Newline

Pieces == {<<toString(side, m), j>> : m \in Said[side], j \in {1, 2}} \cup {Newline}

WireTypes ==
    /\ side \in Sides /\ cut \in BOOLEAN
    /\ said \in Seq(Said[side]) /\ got \in Seq(Said[side])
    /\ buf \in Seq(Pieces) /\ stream \in Seq(Pieces)

\* The pieces b in the buffer and r on their way are those of the lines of s from place n on,
\* to the end when they are whole.
OnTheWay(s, n, b, r, whole) ==
    /\ n + Len(b) + Len(r) <= 3 * Len(s)
    /\ whole => n + Len(b) + Len(r) = 3 * Len(s)
    /\ \A k \in 1..Len(b) : b[k] = Piece(s, n + k)
    /\ \A k \in 1..Len(r) : r[k] = Piece(s, n + Len(b) + k)

\* They are those of the messages that were not handed over yet.
PiecesInv == OnTheWay(said, 3 * Len(got), buf, stream, ~cut)

HeardInv ==
    /\ alive /\ Len(got) <= Len(said)
    /\ \A k \in 1..Len(got) : got[k] = said[k]

WireInv == WireTypes /\ PiecesInv /\ HeardInv

\* A message goes through its packet unchanged: the code of the header leads back to its
\* struct, whose constructor reads the fields that toString() wrote (messages.h:24-230).
LEMMA RoundTrip ==
    ASSUME NEW to \in Sides, NEW m, IsMessage(to, m)
    PROVE  Construct(to, toString(to, m)) = m
<1>1. \A k \in DOMAIN Codes(to) : Codes(to)[k] = Codes(to)[m.kind] => k = m.kind
  <2>1. CASE to = "server"
    <3>1. m.kind \in {"InitialConnection", "NewMessage", "Login", "Register"}
      BY <2>1 DEF IsMessage, Structs, ClientStructs
    <3>2. DOMAIN Codes(to) = {"InitialConnection", "NewMessage", "Login", "Register"}
      BY <2>1 DEF Codes, ClientMessageType
    <3>3. /\ Codes(to)["InitialConnection"] = 0 /\ Codes(to)["NewMessage"] = 2
          /\ Codes(to)["Register"] = 3 /\ Codes(to)["Login"] = 4
      BY <2>1 DEF Codes, ClientMessageType
    <3> QED BY <3>1, <3>2, <3>3
  <2>2. CASE to = "client"
    <3>1. m.kind \in {"UserStatus", "NewMessageReceived", "ServerResponse"}
      BY <2>2 DEF IsMessage, Structs, ServerStructs
    <3>2. DOMAIN Codes(to) = {"UserStatus", "NewMessageReceived", "ServerResponse"}
      BY <2>2 DEF Codes, ServerMessageType
    <3>3. /\ Codes(to)["NewMessageReceived"] = 0 /\ Codes(to)["UserStatus"] = 1
          /\ Codes(to)["ServerResponse"] = 2
      BY <2>2 DEF Codes, ServerMessageType
    <3> QED BY <3>1, <3>2, <3>3
  <2> QED BY <2>1, <2>2 DEF Sides
<1>2. m.kind \in DOMAIN Codes(to)
  <2>1. CASE to = "server"
    BY <2>1 DEF IsMessage, Structs, ClientStructs, Codes, ClientMessageType
  <2>2. CASE to = "client"
    BY <2>2 DEF IsMessage, Structs, ServerStructs, Codes, ServerMessageType
  <2> QED BY <2>1, <2>2 DEF Sides
<1> DEFINE p == toString(to, m)
           kind == CHOOSE k \in DOMAIN Codes(to) : Codes(to)[k] = p.header
<1>3. p.header = Codes(to)[m.kind] BY DEF toString
<1>4. kind = m.kind BY <1>1, <1>2, <1>3
<1>5. \A f \in Structs(to)[m.kind] : p.content[f] = m.fields[f] BY DEF toString
<1>6. [f \in Structs(to)[m.kind] |-> p.content[f]] = m.fields BY <1>5 DEF IsMessage
<1>7. Construct(to, p) = [kind |-> kind, fields |-> [f \in Structs(to)[kind] |-> p.content[f]]]
  BY DEF Construct
<1> HIDE DEF p, kind
<1>8. Construct(to, p) = [kind |-> m.kind, fields |-> m.fields] BY <1>4, <1>6, <1>7
<1> QED BY <1>8 DEF IsMessage, p

\* A part of a sequence, by its elements.
LEMMA PartOf ==
    ASSUME NEW S, NEW s \in Seq(S), NEW a \in 1..(Len(s) + 1), NEW b \in 0..Len(s), a <= b + 1
    PROVE  /\ SubSeq(s, a, b) \in Seq(S) /\ Len(SubSeq(s, a, b)) = b - a + 1
           /\ \A k \in 1..(b - a + 1) : SubSeq(s, a, b)[k] = s[a + k - 1]
<1>1. Len(s) \in Nat /\ \A k \in 1..Len(s) : s[k] \in S BY LenProperties, ElementOfSeq
<1>2. a \in Int /\ b \in Int /\ \A k \in a..b : s[k] \in S BY <1>1
<1>3. /\ SubSeq(s, a, b) \in Seq(S)
      /\ Len(SubSeq(s, a, b)) = IF a <= b THEN b - a + 1 ELSE 0
      /\ \A k \in 1..(b - a + 1) : SubSeq(s, a, b)[k] = s[a + k - 1]
  BY <1>2, SubSeqProperties
<1> QED BY <1>1, <1>2, <1>3

\* The pieces of a message, of which only the last is a newline.
LEMMA PiecesOf ==
    ASSUME NEW s, NEW n \in Nat
    PROVE  LET p == toString(side, s[n + 1])
           IN  /\ Piece(s, 3 * n + 1) = <<p, 1>> /\ Piece(s, 3 * n + 2) = <<p, 2>>
               /\ Piece(s, 3 * n + 3) = Newline
               /\ <<p, 1>> # Newline /\ <<p, 2>> # Newline
<1>1. /\ (3 * n + 1 + 2) \div 3 = n + 1 /\ (3 * n + 1) % 3 = 1
      /\ (3 * n + 2 + 2) \div 3 = n + 1 /\ (3 * n + 2) % 3 = 2
      /\ (3 * n + 3) % 3 = 0
  BY SMT
<1> QED BY <1>1 DEF Piece, Newline

\* Saying more does not change the pieces of what was said.
LEMMA PieceStays ==
    ASSUME NEW S, NEW s \in Seq(S), NEW m \in S, NEW k \in 1..(3 * Len(s))
    PROVE  Piece(Append(s, m), k) = Piece(s, k)
<1>1. Len(s) \in Nat BY LenProperties
<1>2. (k + 2) \div 3 \in 1..Len(s) BY <1>1, SMT
<1>3. Append(s, m)[(k + 2) \div 3] = s[(k + 2) \div 3] BY <1>2, AppendProperties
<1> QED BY <1>3 DEF Piece

\* The line of a message (messages.h:24-230).
LEMMA LineIs ==
    ASSUME NEW m \in Said[side]
    PROVE  LET p == toString(side, m)
           IN  /\ Line(side, m) \in Seq(Pieces) /\ Len(Line(side, m)) = 3
               /\ Line(side, m)[1] = <<p, 1>> /\ Line(side, m)[2] = <<p, 2>>
               /\ Line(side, m)[3] = Newline
<1> DEFINE p == toString(side, m)
           a == <<p, 1>>
           b == <<p, 2>>
<1>1. a \in Pieces /\ b \in Pieces /\ Newline \in Pieces BY DEF Pieces
<1>2. Line(side, m) = Append(<<a, b>>, Newline) BY DEF Line, Dump
<1> HIDE DEF a, b
<1>3. <<a, b>> \in Seq(Pieces) /\ Len(<<a, b>>) = 2 /\ <<a, b>>[1] = a /\ <<a, b>>[2] = b
  BY <1>1
<1>4. /\ Append(<<a, b>>, Newline) \in Seq(Pieces) /\ Len(Append(<<a, b>>, Newline)) = 3
      /\ Append(<<a, b>>, Newline)[1] = a /\ Append(<<a, b>>, Newline)[2] = b
      /\ Append(<<a, b>>, Newline)[3] = Newline
  BY <1>1, <1>3, AppendProperties
<1> QED BY <1>2, <1>4 DEF a, b

\* The invariant of the pieces in the next state, of the same reader.
LEMMA PiecesNext ==
    ASSUME side' = side
    PROVE  PiecesInv' <=> OnTheWay(said', 3 * Len(got'), buf', stream', ~cut')
BY DEF PiecesInv, OnTheWay, Piece

\* Nothing was said at the beginning.
LEMMA WireInit == Init => WireInv
<1> SUFFICES ASSUME Init PROVE WireInv
  OBVIOUS
<1>1. Len(said) = 0 /\ Len(got) = 0 /\ Len(buf) = 0 /\ Len(stream) = 0 /\ 1..0 = {}
  BY DEF Init
<1>2. WireTypes
  <2>1. <<>> \in Seq(Said[side]) /\ <<>> \in Seq(Pieces) OBVIOUS
  <2> QED BY <2>1 DEF Init, WireTypes
<1>3. PiecesInv BY <1>1 DEF PiecesInv, OnTheWay
<1>4. HeardInv BY <1>1 DEF Init, HeardInv
<1> QED BY <1>2, <1>3, <1>4 DEF WireInv

\* A message is said: its line is three pieces (tcp_server.h:58-92, tcp_client.h:60-77).
LEMMA SayStep ==
    ASSUME WireInv, NEW m \in Said[side], Say(m)
    PROVE  WireInv'
<1> USE DEF WireInv
<1> DEFINE p == toString(side, m)
           line == Line(side, m)
           n    == 3 * Len(said)
<1>1. /\ ~cut /\ UNCHANGED <<side, cut, buf, got, alive>>
      /\ said' = Append(said, m) /\ stream' = stream \o line
  BY DEF Say
<1>2. said \in Seq(Said[side]) /\ got \in Seq(Said[side]) /\ buf \in Seq(Pieces) /\ stream \in Seq(Pieces)
  BY DEF WireTypes
<1>3. Len(said) \in Nat /\ Len(got) \in Nat /\ Len(buf) \in Nat /\ Len(stream) \in Nat
  BY <1>2, LenProperties
<1>4. /\ line \in Seq(Pieces) /\ Len(line) = 3
      /\ line[1] = <<p, 1>> /\ line[2] = <<p, 2>> /\ line[3] = Newline
  BY LineIs
<1>5. /\ said' \in Seq(Said[side]) /\ Len(said') = Len(said) + 1 /\ said'[Len(said) + 1] = m
      /\ \A k \in 1..Len(said) : said'[k] = said[k]
  BY <1>1, <1>2, AppendProperties
<1> HIDE DEF line, p
<1>7. /\ stream' \in Seq(Pieces) /\ Len(stream') = Len(stream) + 3
      /\ \A k \in 1..(Len(stream) + 3) :
            stream'[k] = IF k <= Len(stream) THEN stream[k] ELSE line[k - Len(stream)]
  <2>1. stream \in Seq(Pieces) /\ line \in Seq(Pieces) /\ stream' = stream \o line
    BY <1>1, <1>2, <1>4
  <2>2. /\ stream \o line \in Seq(Pieces) /\ Len(stream \o line) = Len(stream) + Len(line)
        /\ \A k \in 1..(Len(stream) + Len(line)) :
              (stream \o line)[k] = IF k <= Len(stream) THEN stream[k] ELSE line[k - Len(stream)]
    BY <2>1, ConcatProperties
  <2>3. Len(line) = 3 BY <1>4
  <2> QED BY <2>1, <2>2, <2>3
<1>8. Pieces' = Pieces BY <1>1 DEF Pieces
<1>9. WireTypes' BY <1>1, <1>2, <1>5, <1>7, <1>8 DEF WireTypes
<1>10. \A k \in 1..n : Piece(said', k) = Piece(said, k)
  BY <1>1, <1>2, PieceStays
<1>11. 3 * Len(got) + Len(buf) + Len(stream) = n BY <1>1 DEF PiecesInv, OnTheWay
<1>12. Piece(said', n + 1) = line[1] /\ Piece(said', n + 2) = line[2] /\ Piece(said', n + 3) = line[3]
  BY <1>3, <1>4, <1>5, PiecesOf DEF p
<1>16. n \in Nat BY <1>3
<1> HIDE DEF n
<1>13. PiecesInv'
  <2>1. \A k \in 1..Len(buf') : buf'[k] = Piece(said', 3 * Len(got) + k)
    <3>1. \A k \in 1..Len(buf) : 3 * Len(got) + k \in 1..n BY <1>3, <1>16, <1>11
    <3>2. \A k \in 1..Len(buf) : buf[k] = Piece(said, 3 * Len(got) + k) BY DEF PiecesInv, OnTheWay
    <3> QED BY <1>1, <1>10, <3>1, <3>2
  <2>2. ASSUME NEW k \in 1..Len(stream') PROVE stream'[k] = Piece(said', 3 * Len(got) + Len(buf) + k)
    <3> DEFINE at == 3 * Len(got) + Len(buf) + k
    <3>1. CASE k <= Len(stream)
      <4>1. k \in 1..Len(stream) /\ at \in 1..n BY <1>3, <1>16, <1>11, <2>2, <3>1
      <4>2. stream[k] = Piece(said, at) BY <4>1 DEF PiecesInv, OnTheWay
      <4>3. stream'[k] = stream[k] BY <1>7, <2>2, <3>1
      <4> QED BY <1>10, <4>1, <4>2, <4>3
    <3>2. CASE k = Len(stream) + 1
      <4>1. at = n + 1 BY <1>3, <1>16, <1>11, <3>2
      <4>2. stream'[k] = line[1] BY <1>3, <1>7, <2>2, <3>2
      <4> QED BY <1>12, <4>1, <4>2
    <3>3. CASE k = Len(stream) + 2
      <4>1. at = n + 2 BY <1>3, <1>16, <1>11, <3>3
      <4>2. stream'[k] = line[2] BY <1>3, <1>7, <2>2, <3>3
      <4> QED BY <1>12, <4>1, <4>2
    <3>4. CASE k = Len(stream) + 3
      <4>1. at = n + 3 BY <1>3, <1>16, <1>11, <3>4
      <4>2. stream'[k] = line[3] BY <1>3, <1>7, <2>2, <3>4
      <4> QED BY <1>12, <4>1, <4>2
    <3> QED BY <1>3, <1>7, <2>2, <3>1, <3>2, <3>3, <3>4
  <2>3. 3 * Len(got) + Len(buf) + Len(stream') = 3 * Len(said')
    <3>1. 3 * Len(said') = n + 3 BY <1>3, <1>5 DEF n
    <3> QED BY <1>3, <1>7, <1>11, <3>1
  <2>4. got' = got /\ buf' = buf /\ side' = side BY <1>1
  <2>5. /\ Len(got) \in Nat /\ Len(buf) \in Nat /\ Len(stream') \in Nat /\ Len(said') \in Nat
    BY <1>3, <1>5, <1>7
  <2>6. OnTheWay(said', 3 * Len(got), buf, stream', ~cut) BY <2>1, <2>2, <2>3, <2>4, <2>5 DEF OnTheWay
  <2> QED BY <1>1, <2>6, PiecesNext
<1>14. HeardInv' BY <1>1, <1>3, <1>5 DEF HeardInv
<1> QED BY <1>9, <1>13, <1>14

\* What arrives goes from the stream to the buffer, and nothing between.
LEMMA ArriveStep ==
    ASSUME WireInv, Arrive
    PROVE  WireInv'
<1> USE DEF WireInv
<1>1. PICK n \in 1..Len(stream) : /\ buf' = buf \o SubSeq(stream, 1, n)
                                 /\ stream' = SubSeq(stream, n + 1, Len(stream))
                                 /\ UNCHANGED <<side, said, cut, got, alive>>
  BY DEF Arrive
<1>2. buf \in Seq(Pieces) /\ stream \in Seq(Pieces) /\ Len(got) \in Nat /\ Len(said) \in Nat
  BY DEF WireTypes
<1>3. Len(buf) \in Nat /\ Len(stream) \in Nat BY <1>2, LenProperties
<1> DEFINE came == SubSeq(stream, 1, n)
           rest == SubSeq(stream, n + 1, Len(stream))
<1>4. came \in Seq(Pieces) /\ Len(came) = n /\ \A k \in 1..n : came[k] = stream[k]
  BY <1>2, <1>3, FirstPart
<1>5. /\ rest \in Seq(Pieces) /\ Len(rest) = Len(stream) - n
      /\ \A k \in 1..(Len(stream) - n) : rest[k] = stream[n + k]
  <2>1. n + 1 \in 1..(Len(stream) + 1) /\ Len(stream) \in 0..Len(stream) /\ n + 1 <= Len(stream) + 1
    BY <1>3
  <2>2. /\ rest \in Seq(Pieces) /\ Len(rest) = Len(stream) - (n + 1) + 1
        /\ \A k \in 1..(Len(stream) - (n + 1) + 1) : rest[k] = stream[n + 1 + k - 1]
    BY <1>2, <2>1, PartOf
  <2>3. Len(stream) - (n + 1) + 1 = Len(stream) - n BY <1>3
  <2>4. \A k \in 1..(Len(stream) - n) : n + 1 + k - 1 = n + k BY <1>3
  <2> QED BY <2>2, <2>3, <2>4
<1>6. buf' = buf \o came /\ stream' = rest BY <1>1
<1> HIDE DEF came, rest
<1>7. /\ buf' \in Seq(Pieces) /\ Len(buf') = Len(buf) + n
      /\ \A k \in 1..(Len(buf) + n) : buf'[k] = IF k <= Len(buf) THEN buf[k] ELSE came[k - Len(buf)]
  <2>1. /\ buf \o came \in Seq(Pieces) /\ Len(buf \o came) = Len(buf) + Len(came)
        /\ \A k \in 1..(Len(buf) + Len(came)) :
              (buf \o came)[k] = IF k <= Len(buf) THEN buf[k] ELSE came[k - Len(buf)]
    BY <1>2, <1>4, ConcatProperties
  <2> QED BY <1>4, <1>6, <2>1
<1>8. Pieces' = Pieces BY <1>1 DEF Pieces
<1>9. WireTypes' BY <1>1, <1>5, <1>6, <1>7, <1>8 DEF WireTypes
<1> DEFINE t == 3 * Len(got)
<1>10. t \in Nat BY <1>2
<1>11. OnTheWay(said, t, buf, stream, ~cut) BY DEF PiecesInv
<1> HIDE DEF t
<1>12. OnTheWay(said, t, buf', stream', ~cut)
  <2>1. t + Len(buf') + Len(stream') = t + Len(buf) + Len(stream)
    <3>1. Len(stream') = Len(stream) - n /\ Len(buf') = Len(buf) + n BY <1>5, <1>6, <1>7
    <3>2. n \in Nat BY <1>3
    <3> QED BY <1>3, <1>10, <3>1, <3>2
  <2>2. ASSUME NEW k \in 1..Len(buf') PROVE buf'[k] = Piece(said, t + k)
    <3>1. CASE k <= Len(buf) BY <1>3, <1>7, <1>11, <2>2, <3>1 DEF OnTheWay
    <3>2. CASE k > Len(buf)
      <4> DEFINE j == k - Len(buf)
      <4>1. j \in 1..n /\ j \in 1..Len(stream) /\ t + Len(buf) + j = t + k
        BY <1>3, <1>7, <1>10, <2>2, <3>2
      <4>2. buf'[k] = stream[j] BY <1>3, <1>4, <1>7, <2>2, <3>2, <4>1
      <4> HIDE DEF j
      <4>3. stream[j] = Piece(said, t + Len(buf) + j) BY <1>11, <4>1 DEF OnTheWay
      <4> QED BY <4>1, <4>2, <4>3
    <3> QED BY <1>3, <1>7, <2>2, <3>1, <3>2
  <2>3. ASSUME NEW k \in 1..Len(stream') PROVE stream'[k] = Piece(said, t + Len(buf') + k)
    <3> DEFINE j == n + k
    <3>1. j \in 1..Len(stream) /\ t + Len(buf) + j = t + Len(buf') + k /\ stream'[k] = stream[j]
      BY <1>3, <1>5, <1>6, <1>7, <1>10, <2>3
    <3> HIDE DEF j
    <3>2. stream[j] = Piece(said, t + Len(buf) + j) BY <1>11, <3>1 DEF OnTheWay
    <3> QED BY <3>1, <3>2
  <2> QED BY <1>11, <2>1, <2>2, <2>3 DEF OnTheWay
<1>13. PiecesInv' BY <1>1, <1>12, PiecesNext DEF t
<1>14. HeardInv' BY <1>1 DEF HeardInv
<1> QED BY <1>9, <1>13, <1>14

\* A lost connection loses the end of what was on its way.
LEMMA CutStep ==
    ASSUME WireInv, Cut
    PROVE  WireInv'
<1> USE DEF WireInv
<1>1. PICK n \in 0..Len(stream) : /\ stream' = SubSeq(stream, 1, n) /\ cut' = TRUE
                                 /\ UNCHANGED <<side, said, buf, got, alive>>
  BY DEF Cut
<1>2. stream \in Seq(Pieces) /\ Len(got) \in Nat /\ Len(said) \in Nat /\ Len(buf) \in Nat /\ Len(stream) \in Nat
  BY DEF WireTypes
<1>3. stream' \in Seq(Pieces) /\ Len(stream') = n /\ \A k \in 1..n : stream'[k] = stream[k]
  BY <1>1, <1>2, FirstPart
<1>4. Pieces' = Pieces BY <1>1 DEF Pieces
<1>5. WireTypes' BY <1>1, <1>3, <1>4 DEF WireTypes
<1>6. OnTheWay(said, 3 * Len(got), buf, stream', FALSE) BY <1>2, <1>3 DEF PiecesInv, OnTheWay
<1>7. PiecesInv' BY <1>1, <1>6, PiecesNext
<1>8. HeardInv' BY <1>1 DEF HeardInv
<1> QED BY <1>5, <1>7, <1>8

\* The line that is read is the whole packet of the next message, whose constructor gives the
\* message back (tcp_server.h:163-190, tcp_client.h:164-193).
LEMMA ReadLineStep ==
    ASSUME WireInv, ReadLine
    PROVE  WireInv'
<1> USE DEF WireInv
<1> DEFINE g == Len(got)
           m == said[g + 1]
           p == toString(side, m)
           first == CHOOSE k \in DOMAIN buf :
                       buf[k] = Newline /\ \A j \in 1..(k - 1) : buf[j] # Newline
           line  == SubSeq(buf, 1, first - 1)
<1>1. /\ HasLine /\ UNCHANGED <<side, said, stream, cut>>
      /\ buf' = SubSeq(buf, first + 1, Len(buf))
      /\ IF IsPacket(line)
         THEN got' = Append(got, Construct(side, Head(line)[1])) /\ UNCHANGED alive
         ELSE alive' = FALSE /\ UNCHANGED got
  BY DEF ReadLine, Rest
<1>2. /\ said \in Seq(Said[side]) /\ got \in Seq(Said[side]) /\ buf \in Seq(Pieces)
      /\ side \in Sides /\ alive
  BY DEF WireTypes, HeardInv
<1>3. Len(said) \in Nat /\ g \in Nat /\ Len(buf) \in Nat /\ DOMAIN buf = 1..Len(buf) /\ Len(stream) \in Nat
  BY <1>2, LenProperties DEF WireTypes
<1>4. \A k \in 1..Len(buf) : buf[k] = Piece(said, 3 * g + k) BY DEF PiecesInv, OnTheWay
<1>5. /\ Piece(said, 3 * g + 1) = <<p, 1>> /\ Piece(said, 3 * g + 2) = <<p, 2>>
      /\ Piece(said, 3 * g + 3) = Newline /\ <<p, 1>> # Newline /\ <<p, 2>> # Newline
  BY <1>3, PiecesOf
<1>6. 3 * g + Len(buf) + Len(stream) <= 3 * Len(said) BY DEF PiecesInv, OnTheWay
<1> HIDE DEF g, p, m
<1>7. Len(buf) >= 3
  <2>1. PICK k \in 1..Len(buf) : buf[k] = Newline BY <1>1, <1>3 DEF HasLine
  <2>2. k # 1 /\ k # 2 BY <1>4, <1>5, <2>1
  <2> QED BY <1>3, <2>1, <2>2
<1>8. buf[1] = <<p, 1>> /\ buf[2] = <<p, 2>> /\ buf[3] = Newline
  <2>1. 1 \in 1..Len(buf) /\ 2 \in 1..Len(buf) /\ 3 \in 1..Len(buf) BY <1>3, <1>7
  <2> QED BY <1>4, <1>5, <2>1
<1>9. first = 3
  <2>1. 3 \in DOMAIN buf /\ buf[3] = Newline /\ \A j \in 1..(3 - 1) : buf[j] # Newline
    <3>1. \A j \in 1..(3 - 1) : j = 1 \/ j = 2 OBVIOUS
    <3> QED BY <1>3, <1>5, <1>7, <1>8, <3>1
  <2>2. ASSUME NEW k \in DOMAIN buf, buf[k] = Newline, \A j \in 1..(k - 1) : buf[j] # Newline
        PROVE  k = 3
    <3>1. k \in Nat /\ k # 1 /\ k # 2 /\ k >= 1 BY <1>3, <1>5, <1>8, <2>2
    <3>2. k > 3 => 3 \in 1..(k - 1) BY <3>1
    <3> QED BY <1>8, <2>2, <3>1, <3>2
  <2> QED BY <2>1, <2>2
<1>10. line = <<<<p, 1>>, <<p, 2>>>>
  <2>1. SubSeq(buf, 1, 2) \in Seq(Pieces) /\ Len(SubSeq(buf, 1, 2)) = 2
        /\ \A k \in 1..2 : SubSeq(buf, 1, 2)[k] = buf[k]
    <3>1. 2 \in 0..Len(buf) BY <1>3, <1>7
    <3> QED BY <1>2, <3>1, FirstPart
  <2>2. line = SubSeq(buf, 1, 2)
    <3> HIDE DEF first
    <3>1. first - 1 = 2 BY <1>9
    <3>2. line = SubSeq(buf, 1, first - 1) OBVIOUS
    <3> QED BY <3>1, <3>2
  <2> DEFINE a == <<p, 1>>
             b == <<p, 2>>
             s == SubSeq(buf, 1, 2)
  <2>3. s \in Seq(Pieces) /\ Len(s) = 2 /\ s[1] = a /\ s[2] = b BY <1>8, <2>1
  <2>4. a \in Pieces /\ b \in Pieces
    <3>1. s[1] \in Pieces /\ s[2] \in Pieces BY <2>3
    <3> QED BY <2>3, <3>1
  <2> HIDE DEF a, b, s
  <2>5. s = <<a, b>> BY <2>3, <2>4
  <2> QED BY <2>2, <2>5 DEF a, b, s
<1> HIDE DEF first, line
<1>11. line # <<>> /\ Head(line) = <<p, 1>> /\ Head(line)[1] = p /\ IsPacket(line)
  <2> DEFINE a == <<p, 1>>
             b == <<p, 2>>
  <2>1. a[1] = p OBVIOUS
  <2> HIDE DEF a
  <2>2. line = <<a, b>> BY <1>10 DEF a
  <2>3. line # <<>> /\ Head(line) = a BY <2>2
  <2>4. Dump(p) = line BY <1>10 DEF Dump
  <2> QED BY <2>1, <2>3, <2>4 DEF IsPacket, a
<1>12. g + 1 \in 1..Len(said) BY <1>3, <1>6, <1>7
<1>13. m \in Said[side] BY <1>2, <1>12 DEF m
<1>14. Construct(side, p) = m BY <1>2, <1>13, RoundTrip, SaidAssumption DEF p
<1>15. got' = Append(got, m) /\ alive' = alive BY <1>1, <1>11, <1>14
<1>16. /\ got' \in Seq(Said[side]) /\ Len(got') = g + 1 /\ got'[g + 1] = m
       /\ \A k \in 1..g : got'[k] = got[k]
  BY <1>2, <1>13, <1>15, AppendProperties DEF g
<1>17. /\ buf' \in Seq(Pieces) /\ Len(buf') = Len(buf) - 3
       /\ \A k \in 1..(Len(buf) - 3) : buf'[k] = buf[3 + k]
  <2>1. buf' = SubSeq(buf, 4, Len(buf)) BY <1>1, <1>9
  <2>2. 4 \in 1..(Len(buf) + 1) /\ Len(buf) \in 0..Len(buf) /\ 4 <= Len(buf) + 1 BY <1>3, <1>7
  <2>3. /\ SubSeq(buf, 4, Len(buf)) \in Seq(Pieces)
        /\ Len(SubSeq(buf, 4, Len(buf))) = Len(buf) - 4 + 1
        /\ \A k \in 1..(Len(buf) - 4 + 1) : SubSeq(buf, 4, Len(buf))[k] = buf[4 + k - 1]
    BY <1>2, <2>2, PartOf
  <2>4. Len(buf) - 4 + 1 = Len(buf) - 3 /\ \A k \in 1..(Len(buf) - 3) : 4 + k - 1 = 3 + k BY <1>3
  <2> QED BY <2>1, <2>3, <2>4
<1>18. Pieces' = Pieces BY <1>1 DEF Pieces
<1>19. WireTypes' BY <1>1, <1>16, <1>17, <1>18 DEF WireTypes
<1>20. OnTheWay(said, 3 * (g + 1), buf', stream, ~cut)
  <2>1. 3 * (g + 1) + Len(buf') + Len(stream) = 3 * g + Len(buf) + Len(stream)
    BY <1>3, <1>7, <1>17
  <2>2. ASSUME NEW k \in 1..Len(buf') PROVE buf'[k] = Piece(said, 3 * (g + 1) + k)
    <3>1. 3 + k \in 1..Len(buf) /\ 3 * g + (3 + k) = 3 * (g + 1) + k /\ buf'[k] = buf[3 + k]
      BY <1>3, <1>7, <1>17, <2>2
    <3> QED BY <1>4, <3>1
  <2>3. OnTheWay(said, 3 * g, buf, stream, ~cut) BY DEF PiecesInv, g
  <2>4. ASSUME NEW k \in 1..Len(stream) PROVE stream[k] = Piece(said, 3 * (g + 1) + Len(buf') + k)
    <3>1. 3 * g + Len(buf) + k = 3 * (g + 1) + Len(buf') + k BY <1>3, <1>7, <1>17, <2>4
    <3> QED BY <2>3, <2>4, <3>1 DEF OnTheWay
  <2> QED BY <2>1, <2>2, <2>3, <2>4 DEF OnTheWay
<1>21. PiecesInv' BY <1>1, <1>16, <1>20, PiecesNext
<1>22. HeardInv'
  <2>1. \A k \in 1..g : got[k] = said[k] BY DEF HeardInv, g
  <2>2. \A k \in 1..(g + 1) : got'[k] = said[k] BY <1>3, <1>16, <2>1 DEF m
  <2> QED BY <1>1, <1>2, <1>12, <1>15, <1>16, <2>2 DEF HeardInv
<1> QED BY <1>19, <1>21, <1>22

----------------------------------------------------------------------------
\* However TCP cuts the bytes, what was read and what is on its way are the lines of the messages
\* that were not heard yet (tcp_server.h:155-194, tcp_client.h:155-197).
THEOREM WireInvariant == Spec => []WireInv
<1>1. WireInv /\ [Next]_vars => WireInv'
  <2> SUFFICES ASSUME WireInv, [Next]_vars PROVE WireInv'
    OBVIOUS
  <2>1. CASE UNCHANGED vars
    <3>1. UNCHANGED <<side, said, stream, cut, buf, got, alive>> BY <2>1 DEF vars
    <3>2. Pieces' = Pieces BY <3>1 DEF Pieces
    <3>3. WireTypes' BY <3>1, <3>2 DEF WireInv, WireTypes
    <3>4. PiecesInv' BY <3>1, PiecesNext DEF WireInv, PiecesInv
    <3>5. HeardInv' BY <3>1 DEF WireInv, HeardInv
    <3> QED BY <3>3, <3>4, <3>5 DEF WireInv
  <2> QED BY <2>1, SayStep, ArriveStep, CutStep, ReadLineStep DEF Next
<1> QED BY <1>1, WireInit, PTL DEF Spec

\* What is heard is what was said, in that order, each message once and with its fields
\* (tcp_server.h:155-194, tcp_client.h:155-197, messages.h:24-230).
THEOREM FaithfulHolds == Spec => []Faithful
<1>1. ASSUME WireInv PROVE Faithful
  <2>1. said \in Seq(Said[side]) /\ got \in Seq(Said[side]) BY <1>1 DEF WireInv, WireTypes
  <2>2. Len(got) <= Len(said) /\ \A k \in 1..Len(got) : got[k] = said[k]
    BY <1>1 DEF WireInv, HeardInv
  <2> QED BY <2>1, <2>2, PrefixElements DEF Faithful
<1> QED BY <1>1, WireInvariant, PTL

\* No line of a peer that is this program ends the io thread with an exception, whatever its
\* texts are and wherever it was cut (tcp_server.h:163-175, tcp_client.h:164-176).
THEOREM NoLineThrows == Spec => []alive
<1>1. WireInv => alive BY DEF WireInv, HeardInv
<1> QED BY <1>1, WireInvariant, PTL

=============================================================================
