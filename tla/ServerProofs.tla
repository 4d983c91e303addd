---------------------------- MODULE ServerProofs ----------------------------
(***************************************************************************)
(* What the chat server keeps on top of its transport, for any users, any  *)
(* lines and any connections that fail.  Its handlers are callbacks of the *)
(* transport, so the invariant of TcpServerProofs holds here too.          *)
(***************************************************************************)
EXTENDS ServerProcess, TcpServerProofs, ChatRuleFacts

(***************************************************************************)
(* Streams.  The part of a stream that is posted is filtered from the      *)
(* queue of the handlers.                                                  *)
(***************************************************************************)

Coming(q, i) == LinesOf(Filter(q, TasksFor(i)))

\* Which tasks write to connection i.
LEMMA TaskFacts ==
    ASSUME NEW i \in Ids
    PROVE  /\ TasksFor(i) \subseteq Tasks /\ \A h \in TasksFor(i) : h.msg \in Msgs
           /\ \A m \in Msgs : /\ BroadcastTask(m) \in TasksFor(i) /\ BroadcastTask(m).msg = m
                              /\ BroadcastTask(m) \in Tasks
           /\ \A j \in Ids, m \in Msgs : /\ WriteTask(j, m) \in TasksFor(i) <=> j = i
                                         /\ WriteTask(j, m).msg = m /\ WriteTask(j, m) \in Tasks
           /\ \A h \in Handlers : h.kind \notin {"write", "broadcast"} => h \notin TasksFor(i)
<1>1. \A m \in Msgs : /\ BroadcastTask(m) \in TasksFor(i) /\ BroadcastTask(m).msg = m
                      /\ BroadcastTask(m) \in Tasks
  BY DEF BroadcastTask, TasksFor, Tasks
<1>2. \A j \in Ids, m \in Msgs : WriteTask(j, m).msg = m /\ WriteTask(j, m) \in Tasks
  BY DEF WriteTask, Tasks
<1>3. \A m \in Msgs : WriteTask(i, m) \in TasksFor(i) BY DEF WriteTask, TasksFor
<1>4. ASSUME NEW j \in Ids, NEW m \in Msgs, WriteTask(j, m) \in TasksFor(i) PROVE j = i
  <2>1. WriteTask(j, m).kind = "write" /\ WriteTask(j, m).id = j BY DEF WriteTask
  <2>2. \A h \in TasksFor(i) : h.kind = "write" => h.id = i BY DEF TasksFor
  <2> QED BY <1>4, <2>1, <2>2
<1>5. \A h \in TasksFor(i) : h.kind \in {"write", "broadcast"} BY DEF TasksFor
<1>6. TasksFor(i) \subseteq Tasks /\ \A h \in TasksFor(i) : h.msg \in Msgs BY DEF TasksFor, Tasks
<1> QED BY <1>1, <1>2, <1>3, <1>4, <1>5, <1>6

\* The posted part of a stream as handlers are posted and taken.
LEMMA ComingFacts ==
    ASSUME NEW i \in Ids, NEW q \in Seq(Handlers)
    PROVE  /\ Coming(q, i) \in Seq(Msgs) /\ Coming(<<>>, i) = <<>>
           /\ \A h \in Handlers : h \notin TasksFor(i) => Coming(Append(q, h), i) = Coming(q, i)
           /\ \A p \in Seq(Handlers) : Coming(q \o p, i) = Coming(q, i) \o Coming(p, i)
           /\ q # <<>> => Coming(q, i) = IF Head(q) \in TasksFor(i)
                                         THEN <<Head(q).msg>> \o Coming(Tail(q), i)
                                         ELSE Coming(Tail(q), i)
<1> DEFINE T == TasksFor(i)
<1>1. \A h \in T : h.msg \in Msgs BY TaskFacts
<1>2. \A p \in Seq(Handlers) : Filter(p, T) \in Seq(T)
  <2> SUFFICES ASSUME NEW p \in Seq(Handlers) PROVE Filter(p, T) \in Seq(T)
    OBVIOUS
  <2> HIDE DEF T
  <2>1. Filter(p, T) \in Seq(Handlers \cap T) BY FilterType
  <2> QED BY <2>1, SeqMonotonic
<1> HIDE DEF T
<1>3. Coming(q, i) \in Seq(Msgs)
  <2>1. LinesOf(Filter(q, T)) \in Seq(Msgs) BY <1>1, <1>2, LinesOfFacts
  <2> QED BY <2>1 DEF Coming, T
<1>4. Coming(<<>>, i) = <<>>
  <2>1. <<>> \in Seq(T) /\ Len(<<>>) = 0 BY EmptySeq
  <2>2. LinesOf(<<>>) \in Seq(Msgs) /\ Len(LinesOf(<<>>)) = 0 BY <1>1, <2>1, LinesOfFacts
  <2>3. LinesOf(<<>>) = <<>> BY <2>2, EmptySeq
  <2> QED BY <2>3, FilterEmpty DEF Coming
<1>5. ASSUME NEW h \in Handlers, h \notin TasksFor(i)
      PROVE  Coming(Append(q, h), i) = Coming(q, i)
  <2>1. Filter(Append(q, h), T) = IF h \in T THEN Append(Filter(q, T), h) ELSE Filter(q, T)
    BY FilterAppend
  <2> QED BY <1>5, <2>1 DEF Coming, T
<1>6. ASSUME NEW p \in Seq(Handlers) PROVE Coming(q \o p, i) = Coming(q, i) \o Coming(p, i)
  <2>1. Filter(q \o p, T) = Filter(q, T) \o Filter(p, T) BY FilterConcat
  <2>2. LinesOf(Filter(q, T) \o Filter(p, T)) = LinesOf(Filter(q, T)) \o LinesOf(Filter(p, T))
    BY <1>1, <1>2, LinesOfFacts
  <2> QED BY <2>1, <2>2 DEF Coming, T
<1>7. ASSUME q # <<>>
      PROVE  Coming(q, i) = IF Head(q) \in TasksFor(i)
                            THEN <<Head(q).msg>> \o Coming(Tail(q), i)
                            ELSE Coming(Tail(q), i)
  <2> DEFINE h == Head(q)
             t == Tail(q)
  <2>1. Filter(q, T) = IF h \in T THEN <<h>> \o Filter(t, T) ELSE Filter(t, T)
    BY <1>7, FilterFront
  <2>2. t \in Seq(Handlers) BY <1>7, HeadTailProperties
  <2> HIDE DEF h, t
  <2>3. CASE h \in T
    <3> DEFINE f == <<h>>
    <3>1. f \in Seq(T) /\ LinesOf(f) = <<h.msg>> 
      <4>1. f \in Seq(T) BY <2>3
      <4>2. LinesOf(<<h>>) = <<h.msg>> BY <1>1, <2>3, <4>1, LinesOfFacts
      <4> QED BY <4>1, <4>2
    <3>2. Filter(q, T) = f \o Filter(t, T) BY <2>1, <2>3
    <3> HIDE DEF f
    <3>3. LinesOf(f \o Filter(t, T)) = LinesOf(f) \o LinesOf(Filter(t, T))
      BY <1>1, <1>2, <2>2, <3>1, LinesOfFacts
    <3> QED BY <2>3, <3>1, <3>2, <3>3 DEF Coming, T, h, t
  <2>4. CASE h \notin T
    <3>1. Filter(q, T) = Filter(t, T) BY <2>1, <2>4
    <3> QED BY <2>4, <3>1 DEF Coming, T, h, t
  <2> QED BY <2>3, <2>4
<1> QED BY <1>3, <1>4, <1>5, <1>6, <1>7

\* A handler that is no task of write() or broadcast() (tcp_server.h:58-92).
IsOwn(h) == h.kind \notin {"write", "broadcast"}

\* The transport's own handlers are none.
LEMMA OwnKinds ==
    /\ IsOwn(CloseTask) /\ IsOwn(AcceptAgain) /\ \A ec \in Codes : IsOwn(Accepted(ec))
    /\ \A j \in Ids, ec \in Codes : IsOwn(Read(j, ec)) /\ IsOwn(Wrote(j, ec))
<1>1. IsOwn(CloseTask) /\ IsOwn(AcceptAgain) BY DEF IsOwn, CloseTask, AcceptAgain
<1>2. \A ec \in Codes : IsOwn(Accepted(ec)) BY DEF IsOwn, Accepted
<1>3. \A j \in Ids, ec \in Codes : IsOwn(Read(j, ec)) /\ IsOwn(Wrote(j, ec)) BY DEF IsOwn, Read, Wrote
<1> QED BY <1>1, <1>2, <1>3

\* A handler at the front that writes no line leaves nothing behind in a stream.
LEMMA ComingTail ==
    ASSUME NEW i \in Ids, NEW q \in Seq(Handlers), q # <<>>,
           Head(q).kind \notin {"write", "broadcast"}
    PROVE  Coming(Tail(q), i) = Coming(q, i)
<1>1. Head(q) \in Handlers BY HeadTailProperties
<1>2. Head(q) \notin TasksFor(i) BY <1>1, TaskFacts
<1> QED BY <1>2, ComingFacts

\* A handler that writes no line adds nothing to a stream.
LEMMA ComingMore ==
    ASSUME NEW i \in Ids, NEW q \in Seq(Handlers), NEW h \in Handlers,
           h.kind \notin {"write", "broadcast"}
    PROVE  Coming(Append(q, h), i) = Coming(q, i)
<1>1. h \notin TasksFor(i) BY TaskFacts
<1> QED BY <1>1, ComingFacts

\* A stream is a sequence of lines.
LEMMA StreamType ==
    ASSUME TypeOK, NEW i \in Ids
    PROVE  /\ sent[i] \in Seq(Msgs) /\ outbox[i] \in Seq(Msgs) /\ ready \in Seq(Handlers)
           /\ Coming(ready, i) \in Seq(Msgs) /\ sent[i] \o outbox[i] \in Seq(Msgs)
           /\ Stream(i) = (sent[i] \o outbox[i]) \o Coming(ready, i)
           /\ Stream(i) \in Seq(Msgs)
<1>1. sent[i] \in Seq(Msgs) /\ outbox[i] \in Seq(Msgs) /\ ready \in Seq(Handlers)
  BY DEF TypeOK
<1>2. Coming(ready, i) \in Seq(Msgs) BY <1>1, ComingFacts
<1>3. sent[i] \o outbox[i] \in Seq(Msgs) BY <1>1, ConcatProperties
<1>4. Stream(i) = (sent[i] \o outbox[i]) \o Coming(ready, i) BY DEF Stream, Coming, LinesOf
<1>5. (sent[i] \o outbox[i]) \o Coming(ready, i) \in Seq(Msgs) BY <1>2, <1>3, ConcatProperties
<1> QED BY <1>1, <1>2, <1>3, <1>4, <1>5

\* A stream after a step, from what the step left.
LEMMA StreamAfter ==
    ASSUME NEW i \in Ids
    PROVE  Stream(i)' = (sent'[i] \o outbox'[i]) \o Coming(ready', i)
BY DEF Stream, Coming, LinesOf

\* A step that leaves the lines alone, and whose handlers write none, changes no stream.
LEMMA StreamRests ==
    ASSUME TypeOK, NEW i \in Ids, UNCHANGED <<sent, outbox>>, Coming(ready', i) = Coming(ready, i)
    PROVE  Stream(i)' = Stream(i)
BY StreamAfter, StreamType

\* What a step of the transport does to stream i: nothing, or it drops a line of a
\* connection that is closed.
StreamKeeps(i) ==
    \/ Stream(i)' = Stream(i)
    \/ i \notin open' /\ Within(Stream(i)', Stream(i)) /\ UNCHANGED disconnects

\* A write or a broadcast task (tcp_server.h:58-92).
LEMMA EnqueueStream ==
    ASSUME IInv, NEW S \in SUBSET Ids, NEW m \in Msgs, NEW h \in Tasks, h.msg = m,
           Running(h), Enqueue(S, m), ready' = Tail(ready), UNCHANGED <<sent, open, disconnects>>,
           NEW i \in Ids, i \in S => h \in TasksFor(i), h \in TasksFor(i) => i \in S \/ i \notin open
    PROVE  StreamKeeps(i)
<1> DEFINE x == sent[i] \o outbox[i]
           c == Coming(Tail(ready), i)
<1>1. TypeOK BY DEF IInv
<1>2. ready \in Seq(Handlers) /\ ready # <<>> /\ Head(ready) = h
  BY <1>1 DEF TypeOK, Running
<1>3. /\ Coming(ready, i) = IF h \in TasksFor(i) THEN <<m>> \o c ELSE c
      /\ c \in Seq(Msgs)
  <2>1. Tail(ready) \in Seq(Handlers) BY <1>2, HeadTailProperties
  <2> QED BY <1>2, <2>1, ComingFacts
<1>4. x \in Seq(Msgs) /\ Stream(i) = x \o Coming(ready, i) /\ sent[i] \in Seq(Msgs)
      /\ outbox[i] \in Seq(Msgs)
  BY <1>1, StreamType
<1>5. Stream(i)' = (sent[i] \o outbox'[i]) \o c BY StreamAfter
<1>6. outbox' = [j \in Ids |-> IF j \in S THEN Append(outbox[j], m) ELSE outbox[j]]
  BY DEF Enqueue, do_write_next
<1>7. CASE i \in S
  <2>1. outbox'[i] = Append(outbox[i], m) BY <1>6, <1>7
  <2>2. sent[i] \o outbox'[i] = Append(x, m)
    <3>1. sent[i] \o Append(outbox[i], m) = Append(sent[i] \o outbox[i], m)
      <4> DEFINE a == sent[i]
                 b == outbox[i]
      <4>1. a \in Seq(Msgs) /\ b \in Seq(Msgs) BY <1>4
      <4> HIDE DEF a, b
      <4>2. a \o Append(b, m) = Append(a \o b, m) BY <4>1, AppendLast
      <4> QED BY <4>2 DEF a, b
    <3> QED BY <2>1, <3>1
  <2>3. Coming(ready, i) = <<m>> \o c BY <1>3, <1>7
  <2> HIDE DEF x, c
  <2>4. x \o (<<m>> \o c) = Append(x, m) \o c
    <3>1. x \in Seq(Msgs) /\ c \in Seq(Msgs) BY <1>3, <1>4
    <3>2. \A a, b \in Seq(Msgs), e \in Msgs : a \o (<<e>> \o b) = Append(a, e) \o b BY AppendInside
    <3> QED BY <3>1, <3>2, Zenon
  <2> QED BY <1>4, <1>5, <2>2, <2>3, <2>4 DEF StreamKeeps
<1>8. CASE i \notin S /\ h \notin TasksFor(i)
  BY <1>3, <1>4, <1>5, <1>6, <1>8 DEF StreamKeeps
<1>9. CASE i \notin S /\ h \in TasksFor(i)
  <2>1. i \notin open' BY <1>9
  <2>2. Stream(i) = x \o (<<m>> \o c) /\ Stream(i)' = x \o c
    BY <1>3, <1>4, <1>5, <1>6, <1>9
  <2> HIDE DEF x, c
  <2>3. Within(x \o c, x \o (<<m>> \o c)) BY <1>3, <1>4, WithinDrop
  <2>4. Within(Stream(i)', Stream(i)) BY <2>2, <2>3
  <2> QED BY <2>1, <2>4 DEF StreamKeeps
<1> QED BY <1>7, <1>8, <1>9

\* A write that completed moves a line from the outbox to those sent (tcp_server.h:196-206).
LEMMA OnWroteStream ==
    ASSUME IInv, NEW j \in Ids, OnWrote(j), NEW i \in Ids
    PROVE  Stream(i)' = Stream(i)
<1>1. TypeOK BY DEF IInv
<1>2. ready \in Seq(Handlers) /\ ready # <<>> /\ Head(ready) = Wrote(j, "ok")
  BY <1>1 DEF TypeOK, OnWrote, Running
<1>3. Coming(ready', i) = Coming(ready, i)
  <2>1. Head(ready).kind \notin {"write", "broadcast"} BY <1>2, KindOf DEF Codes
  <2> QED BY <1>2, <2>1, ComingTail DEF OnWrote
<1>4. CASE i = j
  <2>1. outbox[i] # <<>>
    <3>1. Wrote(j, "ok") \in WroteDone(j) BY DEF WroteDone
    <3>2. Has(ready, WroteDone(j)) BY <1>2, <3>1, Taking DEF OnWrote
    <3> QED BY <1>4, <3>2 DEF IInv, WriteInv, Writing
  <2>2. sent'[i] = Append(sent[i], Head(outbox[i])) /\ outbox'[i] = Tail(outbox[i])
    BY <1>1, <1>4 DEF OnWrote, do_write_next, TypeOK
  <2>3. sent'[i] \o outbox'[i] = sent[i] \o outbox[i]
    <3>1. sent[i] \in Seq(Msgs) /\ outbox[i] \in Seq(Msgs) BY <1>1 DEF TypeOK
    <3>2. Append(sent[i], Head(outbox[i])) \o Tail(outbox[i]) = sent[i] \o outbox[i]
      BY <2>1, <3>1, MoveFront
    <3> QED BY <2>2, <3>2
  <2> QED BY <1>1, <1>3, <2>3, StreamAfter, StreamType
<1>5. CASE i # j
  <2>1. sent'[i] = sent[i] /\ outbox'[i] = outbox[i]
    BY <1>1, <1>5 DEF OnWrote, do_write_next, TypeOK
  <2> QED BY <1>1, <1>3, <2>1, StreamAfter, StreamType
<1> QED BY <1>4, <1>5

\* Whatever the main thread, the reactor and the transport's own handlers do, short of the
\* end of stop(), every stream is kept, or loses a line of a closed connection.
LEMMA TransportStream ==
    ASSUME IInv, Start \/ StopFlag \/ StopPost \/ Reactor \/ IoExit \/ OwnHandler, NEW i \in Ids
    PROVE  StreamKeeps(i)
<1>1. TypeOK /\ ready \in Seq(Handlers) BY DEF IInv, TypeOK
<1>2. /\ Coming(Append(ready, CloseTask), i) = Coming(ready, i)
      /\ \A ec \in Codes : Coming(Append(ready, Accepted(ec)), i) = Coming(ready, i)
      /\ \A j \in Ids, ec \in Codes : /\ Coming(Append(ready, Read(j, ec)), i) = Coming(ready, i)
                                       /\ Coming(Append(ready, Wrote(j, ec)), i) = Coming(ready, i)
  <2>1. ASSUME NEW h \in Handlers, h.kind \notin {"write", "broadcast"}
        PROVE  Coming(Append(ready, h), i) = Coming(ready, i)
    BY <1>1, <2>1, ComingMore
  <2>2. Coming(Append(ready, CloseTask), i) = Coming(ready, i)
    BY <2>1, HandlersAre, KindOf
  <2>3. ASSUME NEW ec \in Codes PROVE Coming(Append(ready, Accepted(ec)), i) = Coming(ready, i)
    BY <2>1, HandlersAre, KindOf
  <2>4. ASSUME NEW j \in Ids, NEW ec \in Codes
        PROVE  /\ Coming(Append(ready, Read(j, ec)), i) = Coming(ready, i)
               /\ Coming(Append(ready, Wrote(j, ec)), i) = Coming(ready, i)
    <3>1. Read(j, ec) \in Handlers /\ Wrote(j, ec) \in Handlers BY DEF Handlers, Read, Wrote
    <3>2. Read(j, ec).kind = "read" /\ Wrote(j, ec).kind = "wrote" BY DEF Read, Wrote
    <3> QED BY <2>1, <3>1, <3>2
  <2> QED BY <2>2, <2>3, <2>4
<1>3. ASSUME NEW h \in {CloseTask, AcceptAgain} \cup {Accepted(ec) : ec \in Codes}, Running(h)
      PROVE  /\ Tail(ready) \in Seq(Handlers) /\ Coming(Tail(ready), i) = Coming(ready, i)
             /\ \A g \in {AcceptAgain, Accepted("error")} :
                    Coming(Append(Tail(ready), g), i) = Coming(ready, i)
  <2>1. ready # <<>> /\ Head(ready) = h BY <1>3 DEF Running
  <2>2. Head(ready).kind \notin {"write", "broadcast"}
    <3>1. IsOwn(h) BY OwnKinds
    <3> QED BY <2>1, <3>1 DEF IsOwn
  <2>3. Tail(ready) \in Seq(Handlers) BY <1>1, <2>1, HeadTailProperties
  <2>4. Coming(Tail(ready), i) = Coming(ready, i) BY <1>1, <2>1, <2>2, ComingTail
  <2>5. ASSUME NEW g \in {AcceptAgain, Accepted("error")}
        PROVE  Coming(Append(Tail(ready), g), i) = Coming(Tail(ready), i)
    <3>1. g \in Handlers BY HandlersAre DEF Codes
    <3>2. g.kind \notin {"write", "broadcast"}
      <4>1. IsOwn(g) BY OwnKinds DEF Codes
      <4> QED BY <4>1 DEF IsOwn
    <3> QED BY <2>3, <3>1, <3>2, ComingMore
  <2> QED BY <2>3, <2>4, <2>5
<1>4. CASE UNCHANGED <<sent, outbox>> /\ Coming(ready', i) = Coming(ready, i)
  BY <1>1, <1>4, StreamRests DEF StreamKeeps
<1>5. CASE Start
  <2>1. UNCHANGED <<sent, outbox>> BY <1>5 DEF Start, writes
  <2>2. ready' = ready \/ ready' = Append(ready, Accepted("error")) BY <1>5 DEF Start, do_accept
  <2>3. Coming(Append(ready, Accepted("error")), i) = Coming(ready, i) BY <1>2 DEF Codes
  <2>4. Coming(ready', i) = Coming(ready, i) BY <2>2, <2>3
  <2> QED BY <1>4, <2>1, <2>4
<1>6. CASE StopFlag \/ IoExit
  <2>1. UNCHANGED <<sent, outbox, ready>> BY <1>6 DEF StopFlag, IoExit, writes
  <2> QED BY <1>4, <2>1
<1>7. CASE StopPost
  <2>1. UNCHANGED <<sent, outbox>> /\ ready' = Append(ready, CloseTask) BY <1>7 DEF StopPost, writes
  <2>2. Coming(ready', i) = Coming(ready, i) BY <1>2, <2>1
  <2> QED BY <1>4, <2>1, <2>2
<1>8. CASE Reactor
  <2>1. ASSUME NEW ec \in Codes, AcceptReady(ec) PROVE StreamKeeps(i)
    <3>1. UNCHANGED <<sent, outbox>> /\ ready' = Append(ready, Accepted(ec))
      BY <2>1 DEF AcceptReady, writes
    <3>2. Coming(Append(ready, Accepted(ec)), i) = Coming(ready, i) BY <1>2
    <3>3. Coming(ready', i) = Coming(ready, i) BY <3>1, <3>2
    <3> QED BY <1>4, <3>1, <3>3
  <2>2. ASSUME NEW j \in Ids, NEW ec \in Codes, ReadReady(j, ec) \/ WriteReady(j, ec)
        PROVE  StreamKeeps(i)
    <3>1. /\ UNCHANGED <<sent, outbox>>
          /\ ready' = Append(ready, Read(j, ec)) \/ ready' = Append(ready, Wrote(j, ec))
      BY <2>2 DEF ReadReady, WriteReady, writes
    <3>2. /\ Coming(Append(ready, Read(j, ec)), i) = Coming(ready, i)
          /\ Coming(Append(ready, Wrote(j, ec)), i) = Coming(ready, i)
      BY <1>2
    <3>3. Coming(ready', i) = Coming(ready, i) BY <3>1, <3>2
    <3> QED BY <1>4, <3>1, <3>3
  <2> QED BY <1>8, <2>1, <2>2 DEF Reactor
<1>9. CASE OnAccept \/ OnAcceptError \/ RunAcceptAgain \/ RunClose
  <2>1. UNCHANGED <<sent, outbox>>
    BY <1>9 DEF OnAccept, OnAcceptError, RunAcceptAgain, RunClose, writes
  <2>2. \E h \in {CloseTask, AcceptAgain} \cup {Accepted(ec) : ec \in Codes} : Running(h)
    BY <1>9 DEF OnAccept, OnAcceptError, RunAcceptAgain, RunClose, Codes
  <2>3. \/ ready' = Tail(ready) \/ ready' = Append(Tail(ready), AcceptAgain)
        \/ ready' = Append(Tail(ready), Accepted("error"))
    BY <1>9 DEF OnAccept, OnAcceptError, RunAcceptAgain, RunClose, do_accept
  <2>4. /\ Coming(Tail(ready), i) = Coming(ready, i)
        /\ Coming(Append(Tail(ready), AcceptAgain), i) = Coming(ready, i)
        /\ Coming(Append(Tail(ready), Accepted("error")), i) = Coming(ready, i)
    BY <1>3, <2>2
  <2>5. Coming(ready', i) = Coming(ready, i) BY <2>3, <2>4
  <2> QED BY <1>4, <2>1, <2>5
<1>10. ASSUME NEW j \in Ids, OnWrote(j) PROVE StreamKeeps(i)
  BY <1>10, OnWroteStream DEF StreamKeeps
<1>11. ASSUME NEW m \in Msgs, RunBroadcast(m) PROVE StreamKeeps(i)
  <2>1. /\ BroadcastTask(m) \in TasksFor(i) /\ BroadcastTask(m).msg = m /\ BroadcastTask(m) \in Tasks
    BY TaskFacts
  <2>2. conns \cap open \in SUBSET Ids /\ (i \in open => i \in conns)
    BY DEF IInv, TypeOK, ReadInv
  <2> DEFINE S == conns \cap open
  <2>3. Enqueue(S, m) /\ ready' = Tail(ready) /\ Running(BroadcastTask(m))
        /\ UNCHANGED <<sent, open, disconnects>>
    BY <1>11 DEF RunBroadcast
  <2>4. S \in SUBSET Ids /\ (i \in S \/ i \notin open) BY <2>2
  <2> HIDE DEF S
  <2> QED BY <2>1, <2>3, <2>4, EnqueueStream
<1>12. ASSUME NEW m \in Msgs, NEW j \in Ids, RunWrite(j, m) PROVE StreamKeeps(i)
  <2>1. /\ WriteTask(j, m) \in TasksFor(i) <=> j = i
        /\ WriteTask(j, m).msg = m /\ WriteTask(j, m) \in Tasks
    BY TaskFacts
  <2>2. {j} \cap conns \cap open \in SUBSET Ids /\ (i \in open => i \in conns)
    BY DEF IInv, TypeOK, ReadInv
  <2> DEFINE S == {j} \cap conns \cap open
  <2>3. Enqueue(S, m) /\ ready' = Tail(ready) /\ Running(WriteTask(j, m))
        /\ UNCHANGED <<sent, open, disconnects>>
    BY <1>12 DEF RunWrite
  <2>4. S \in SUBSET Ids /\ (i \in S => j = i) /\ (j = i => i \in S \/ i \notin open) BY <2>2
  <2> HIDE DEF S
  <2> QED BY <2>1, <2>3, <2>4, EnqueueStream
<1>13. CASE OwnHandler
  BY <1>9, <1>10, <1>11, <1>12, <1>13 DEF OwnHandler
<1> QED BY <1>5, <1>6, <1>7, <1>8, <1>13

\* After the join every stream is empty (tcp_server.h:49-54).
LEMMA StopJoinStream ==
    ASSUME IInv, StopJoin, NEW i \in Ids
    PROVE  Stream(i)' = <<>>
<1>1. ready' = ready /\ sent'[i] = <<>> /\ outbox'[i] = <<>> BY DEF StopJoin, NoLines
<1>2. ready \in Seq(Handlers) /\ \A k \in 1..Len(ready) : ready[k] = CloseTask
  BY DEF StopJoin, IInv, TypeOK, ThreadInv
<1> DEFINE C == {CloseTask}
<1>3. ready \in Seq(C)
  <2>1. \A k \in 1..Len(ready) : ready[k] \in C BY <1>2
  <2>2. DOMAIN ready = 1..Len(ready) /\ Len(ready) \in Nat /\ ready \in [1..Len(ready) -> Handlers]
    BY <1>2, LenProperties
  <2> HIDE DEF C
  <2> QED BY <2>1, <2>2, SMT
<1>4. C \cap TasksFor(i) = {}
  <2>1. CloseTask \notin TasksFor(i) BY TaskFacts, HandlersAre, KindOf
  <2> QED BY <2>1
<1> HIDE DEF C
<1>5. Filter(ready, TasksFor(i)) = <<>> BY <1>3, <1>4, FilterPure
<1>6. Filter(<<>>, TasksFor(i)) = <<>> BY FilterEmpty
<1>7. Coming(<<>>, i) = <<>>
  <2>1. <<>> \in Seq(Handlers) OBVIOUS
  <2> QED BY <2>1, ComingFacts
<1>8. Coming(ready, i) = <<>> BY <1>5, <1>6, <1>7 DEF Coming
<1>9. (<<>> \o <<>>) \o <<>> = <<>> OBVIOUS
<1> QED BY <1>1, <1>8, <1>9, StreamAfter

\* A callback puts the lines it posts at the end of every stream they are for.
LEMMA CallbackStream ==
    ASSUME IInv, NEW posts \in Seq(Tasks), NEW j \in Ids,
           OnLine(j, posts) \/ OnReadError(j, posts) \/ OnWriteError(j, posts), NEW i \in Ids
    PROVE  Coming(posts, i) \in Seq(Msgs) /\ Stream(i)' = Stream(i) \o Coming(posts, i)
<1>1. TypeOK BY DEF IInv
<1> DEFINE x == sent[i] \o outbox[i]
           c == Coming(ready, i)
           p == Coming(posts, i)
<1>2. /\ UNCHANGED <<sent, outbox>> /\ ready' = Tail(ready) \o posts /\ ready # <<>>
      /\ \E ec \in Codes : Head(ready) \in {Read(j, ec), Wrote(j, ec)}
  BY DEF OnLine, OnReadError, OnWriteError, handle_disconnect, Running, writes, Codes
<1>3. ready \in Seq(Handlers) /\ Head(ready).kind \notin {"write", "broadcast"}
  <2>1. PICK ec \in Codes : Head(ready) \in {Read(j, ec), Wrote(j, ec)} BY <1>2
  <2>2. IsOwn(Read(j, ec)) /\ IsOwn(Wrote(j, ec)) BY OwnKinds
  <2>3. Head(ready).kind \notin {"write", "broadcast"} BY <2>1, <2>2 DEF IsOwn
  <2> QED BY <1>1, <2>3 DEF TypeOK
<1>4. Tail(ready) \in Seq(Handlers) /\ posts \in Seq(Handlers)
  BY <1>2, <1>3, HeadTailProperties, PostsAreTasks
<1>5. Coming(Tail(ready), i) = c BY <1>2, <1>3, ComingTail
<1>6. Coming(Tail(ready) \o posts, i) = Coming(Tail(ready), i) \o p BY <1>4, ComingFacts
<1>7. p \in Seq(Msgs) BY <1>4, ComingFacts
<1>8. x \in Seq(Msgs) /\ c \in Seq(Msgs) /\ Stream(i) = x \o c BY <1>1, StreamType
<1>9. Stream(i)' = x \o (c \o p) BY <1>2, <1>5, <1>6, StreamAfter
<1> HIDE DEF x, c, p
<1>10. (x \o c) \o p = x \o (c \o p)
  <2>1. InARow(x, c, p) BY <1>7, <1>8, Associative
  <2> QED BY <2>1 DEF InARow
<1> QED BY <1>7, <1>8, <1>9, <1>10 DEF p

\* The history and the statuses written to one connection: they come to it, and to no other.
LEMMA WriteEachFacts ==
    ASSUME NEW i \in Ids, NEW L \in Seq(Msgs)
    PROVE  /\ WriteEach(i, L) \in Seq(Tasks)
           /\ \A j \in Ids : Coming(WriteEach(i, L), j) = IF j = i THEN L ELSE <<>>
<1> DEFINE T == {WriteTask(i, m) : m \in Msgs}
           w == WriteEach(i, L)
           n == Len(L)
<1>1. DOMAIN L = 1..n /\ n \in Nat /\ \A k \in 1..n : L[k] \in Msgs
  BY LenProperties, ElementOfSeq
<1>2. w = [k \in 1..n |-> WriteTask(i, L[k])] BY <1>1 DEF WriteEach
<1>3. w \in [1..n -> T] /\ DOMAIN w = 1..n /\ \A k \in 1..n : w[k].msg = L[k]
  BY <1>1, <1>2 DEF WriteTask
<1>4. T \subseteq Tasks /\ \A h \in T : h.msg \in Msgs
  BY TaskFacts
<1>5. T \subseteq TasksFor(i)
  BY TaskFacts
<1>6. \A j \in Ids : j # i => T \cap TasksFor(j) = {}
  BY TaskFacts
<1> HIDE DEF T, w, n
<1>7. w \in Seq(T) /\ Len(w) = n BY <1>1, <1>3, SMT
<1>8. w \in Seq(Tasks) BY <1>4, <1>7, SeqMonotonic
<1>9. LinesOf(w) = L
  <2>1. /\ LinesOf(w) \in Seq(Msgs) /\ Len(LinesOf(w)) = n
        /\ \A k \in 1..n : LinesOf(w)[k] = w[k].msg
    BY <1>4, <1>7, LinesOfFacts
  <2>2. \A k \in 1..Len(LinesOf(w)) : LinesOf(w)[k] = L[k] BY <1>3, <2>1
  <2>3. Len(LinesOf(w)) = Len(L) BY <2>1 DEF n
  <2> QED BY <2>1, <2>2, <2>3, SeqEqual
<1>10. ASSUME NEW j \in Ids PROVE Coming(w, j) = IF j = i THEN L ELSE <<>>
  <2>1. CASE j = i
    <3>1. Filter(w, TasksFor(j)) = w BY <1>5, <1>7, <2>1, FilterPure
    <3> QED BY <1>9, <2>1, <3>1 DEF Coming
  <2>2. CASE j # i
    <3>1. T \cap TasksFor(j) = {} BY <1>6, <2>2
    <3>2. Filter(w, TasksFor(j)) = <<>> BY <1>7, <3>1, FilterPure
    <3>3. Filter(<<>>, TasksFor(j)) = <<>> BY FilterEmpty
    <3>4. Coming(<<>>, j) = <<>>
      <4>1. <<>> \in Seq(Handlers) OBVIOUS
      <4> QED BY <4>1, ComingFacts
    <3> QED BY <2>2, <3>2, <3>3, <3>4 DEF Coming
  <2> QED BY <2>1, <2>2
<1> QED BY <1>8, <1>10 DEF w

\* A broadcast comes to every connection.
LEMMA BroadcastFacts ==
    ASSUME NEW m \in Msgs
    PROVE  /\ <<BroadcastTask(m)>> \in Seq(Tasks)
           /\ \A j \in Ids : Coming(<<BroadcastTask(m)>>, j) = <<m>>
<1> DEFINE h == BroadcastTask(m)
           T == {h}
           b == <<h>>
<1>1. h \in Tasks /\ h.msg = m BY DEF BroadcastTask, Tasks
<1>2. \A j \in Ids : h \in TasksFor(j) BY TaskFacts
<1> HIDE DEF h
<1>3. b \in Seq(T) /\ b \in Seq(Tasks) BY <1>1
<1>4. ASSUME NEW j \in Ids PROVE Coming(b, j) = <<m>>
  <2>1. T \subseteq TasksFor(j) BY <1>2, <1>4
  <2> HIDE DEF b, T
  <2>2. Filter(b, TasksFor(j)) = b BY <1>3, <2>1, FilterPure
  <2>3. LinesOf(b) = <<m>>
    <3>1. \A g \in T : g.msg \in Msgs BY <1>1 DEF T
    <3>2. h \in T BY DEF T
    <3>3. LinesOf(<<h>>) = <<h.msg>> BY <1>3, <3>1, <3>2, LinesOfFacts
    <3> QED BY <1>1, <3>3 DEF b
  <2> QED BY <2>2, <2>3 DEF Coming
<1> HIDE DEF b
<1>5. b \in Seq(Tasks) /\ \A j \in Ids : Coming(b, j) = <<m>> BY <1>3, <1>4
<1> QED BY <1>5 DEF b, h

(***************************************************************************)
(* What the callbacks do, with the lines they post typed and read off.     *)
(***************************************************************************)

ReadOks == {Read(i, "ok") : i \in Ids}

\* A named connection has an entry, and every text that is still to be handled was counted.
NamedInv ==
    /\ \A i \in Ids : names[i] # NoName => names[i] \in DOMAIN users
    /\ said + Times(ready, ReadOks) <= MaxOld + lines

ServerTypes == IInv /\ ChatTypeOK /\ NamedInv

\* Every message of the chat is a line of the transport.
LEMMA AllAreLines == Texts \subseteq Msgs /\ Statuses \subseteq Msgs
BY LinesAssumption

\* OnlineMap and OfflineMap for the users of the server.
LEMMA UsersOnline ==
    ASSUME IsMap(users), NEW u \in Users, NEW c \in ColorsFor(users, u)
    PROVE  CameOnline(users, u, c, WithOnline(users, u, c))
BY OnlineMap

\* A lost user keeps its colour and everybody else's entry (data_manager.cpp:113-132).
LEMMA UsersOffline ==
    ASSUME IsMap(users), NEW u \in DOMAIN users \cup {NoName}
    PROVE  /\ IsMap(WithOffline(users, u)) /\ DOMAIN WithOffline(users, u) = DOMAIN users
           /\ \A v \in DOMAIN users : /\ WithOffline(users, u)[v].color = users[v].color
                                      /\ v # u => WithOffline(users, u)[v] = users[v]
           /\ u # NoName => /\ ~WithOffline(users, u)[u].online
                            /\ OfflineStatus(users, u) = UserStatus(WithOffline(users, u), u)
           /\ OfflineStatus(users, u) \in Statuses
<1>1. LostUser(users, u, WithOffline(users, u)) BY OfflineMap
<1> QED BY <1>1 DEF LostUser

\* What a client that introduces itself makes of the users, and what the others and itself
\* are sent (data_manager.cpp:43-89).
Introduces(i, u, c, n) ==
    LET now  == WithOnline(users, u, c)
        news == UserStatus(now, u)
    IN  /\ users' = now /\ failed' = (failed \/ n # Len(db)) /\ UNCHANGED <<db, said>>
        /\ \A j \in Ids : Stream(j)' = Stream(j) \o
              (IF j = i THEN (SubSeq(db, 1, n) \o KnownStatuses(now)) \o <<news>> ELSE <<news>>)

\* A whole introduction: what is stored, posted and appended to each stream (data_manager.cpp:47-85).
LEMMA IntroStep ==
    ASSUME ServerTypes, NEW i \in Ids, NEW u \in Users, OnInitialConnection(i, u)
    PROVE  /\ IInv'
           /\ \E c \in ColorsFor(users, u), n \in 0..Len(db), posts \in Seq(Tasks) :
                 Introduces(i, u, c, n) /\ OnLine(i, posts)
<1> USE DEF ServerTypes
<1>1. IsMap(users) /\ db \in Seq(Texts) BY DEF ChatTypeOK, IsMap
<1>2. PICK c \in ColorsFor(users, u), h \in getMessages :
        LET now == WithOnline(users, u, c)
        IN  /\ users' = now
            /\ failed' = (failed \/ ~h.whole)
            /\ OnLine(i, WriteEach(i, h.rows) \o WriteEach(i, KnownStatuses(now))
                            \o <<BroadcastTask(UserStatus(now, u))>>)
  BY DEF OnInitialConnection
<1>3. PICK n \in 0..Len(db) : h = [rows |-> SubSeq(db, 1, n), whole |-> n = Len(db)]
  BY DEF getMessages
<1> DEFINE now   == WithOnline(users, u, c)
           news  == UserStatus(now, u)
           rows  == SubSeq(db, 1, n)
           known == KnownStatuses(now)
           a     == WriteEach(i, rows)
           b     == WriteEach(i, known)
           d     == <<BroadcastTask(news)>>
           posts == (a \o b) \o d
<1>4. users' = now /\ failed' = (failed \/ n # Len(db)) /\ OnLine(i, posts)
  BY <1>2, <1>3
<1>5. IsMap(now) /\ u \in DOMAIN now
  <2>1. CameOnline(users, u, c, now) BY <1>1, UsersOnline
  <2> QED BY <2>1 DEF CameOnline
<1>6. news \in Msgs /\ known \in Seq(Statuses)
  <2> HIDE DEF now
  <2> QED BY <1>5, StatusTypes, AllAreLines
<1>7. rows \in Seq(Texts) BY <1>1, FirstPart
<1>8. rows \in Seq(Msgs) /\ known \in Seq(Msgs)
  <2> HIDE DEF rows, known
  <2> QED BY <1>6, <1>7, AllAreLines, SeqMonotonic
<1> HIDE DEF now, news, rows, known
<1>9. /\ a \in Seq(Tasks) /\ \A j \in Ids : Coming(a, j) = IF j = i THEN rows ELSE <<>>
      /\ b \in Seq(Tasks) /\ \A j \in Ids : Coming(b, j) = IF j = i THEN known ELSE <<>>
      /\ d \in Seq(Tasks) /\ \A j \in Ids : Coming(d, j) = <<news>>
  BY <1>6, <1>8, WriteEachFacts, BroadcastFacts
<1> HIDE DEF a, b, d
<1>10. a \o b \in Seq(Tasks) /\ posts \in Seq(Tasks)
  <2>1. a \o b \in Seq(Tasks) BY <1>9, ConcatProperties
  <2> QED BY <1>9, <2>1, ConcatProperties
<1>11. a \in Seq(Handlers) /\ b \in Seq(Handlers) /\ d \in Seq(Handlers) /\ a \o b \in Seq(Handlers)
  BY <1>9, <1>10, PostsAreTasks
<1>12. ASSUME NEW j \in Ids
       PROVE  Coming(posts, j) = IF j = i THEN (rows \o known) \o <<news>> ELSE <<news>>
  <2>1. Coming(a \o b, j) = Coming(a, j) \o Coming(b, j) BY <1>11, ComingFacts
  <2>2. Coming((a \o b) \o d, j) = Coming(a \o b, j) \o Coming(d, j) BY <1>11, ComingFacts
  <2>3. <<>> \o <<>> = <<>> /\ <<>> \o <<news>> = <<news>> OBVIOUS
  <2>4. Coming(posts, j) = (Coming(a, j) \o Coming(b, j)) \o <<news>> BY <1>9, <2>1, <2>2
  <2> QED BY <1>9, <2>3, <2>4
<1> HIDE DEF posts
<1>13. \A j \in Ids : Stream(j)' = Stream(j) \o Coming(posts, j)
  BY <1>4, <1>10, CallbackStream
<1>14. IInv' BY <1>4, <1>10, OnLineStep
<1>15. UNCHANGED <<db, said>> BY DEF OnInitialConnection
<1>16. Introduces(i, u, c, n)
  BY <1>4, <1>12, <1>13, <1>15 DEF Introduces, now, news, rows, known
<1> QED BY <1>4, <1>10, <1>14, <1>16

\* A text goes to everyone (data_manager.cpp:91-109).
LEMMA TextStep ==
    ASSUME ServerTypes, NEW i \in Ids, OnNewMessage(i)
    PROVE  /\ IInv' /\ Text(said + 1, names[i]) \in Texts /\ said + 1 \in Nat
           /\ \A j \in Ids : Stream(j)' = Stream(j) \o <<Text(said + 1, names[i])>>
           /\ \E posts \in Seq(Tasks) : OnLine(i, posts)
<1> USE DEF ServerTypes
<1> DEFINE m == Text(said + 1, names[i])
           posts == <<BroadcastTask(m)>>
<1>1. OnLine(i, posts) BY DEF OnNewMessage
<1>2. said + 1 \in 1..(MaxOld + MaxLines)
  <2>1. ready \in Seq(Handlers) /\ ready # <<>> /\ Head(ready) = Read(i, "ok")
    BY <1>1 DEF IInv, TypeOK, OnLine, Running
  <2>2. Head(ready) \in ReadOks BY <2>1 DEF ReadOks
  <2>3. Times(ready, ReadOks) = Times(Tail(ready), ReadOks) + 1 BY <2>1, <2>2, TimesTail
  <2>4. Times(Tail(ready), ReadOks) \in Nat
    <3>1. Tail(ready) \in Seq(Handlers) BY <2>1, HeadTailProperties
    <3> QED BY <3>1, TimesIsNat
  <2>5. said \in Nat /\ lines \in 0..MaxLines /\ MaxOld \in Nat /\ MaxLines \in Nat
    BY BoundsAssumption, OldAssumption DEF ChatTypeOK, IInv, TypeOK
  <2> QED BY <2>3, <2>4, <2>5 DEF NamedInv
<1>3. names[i] \in Users \cup {NoName} BY DEF ChatTypeOK
<1>4. m \in Texts BY <1>2, <1>3 DEF Text, Texts
<1>5. m \in Msgs BY <1>4, AllAreLines
<1> HIDE DEF m
<1>6. posts \in Seq(Tasks) /\ \A j \in Ids : Coming(posts, j) = <<m>> BY <1>5, BroadcastFacts
<1> HIDE DEF posts
<1>7. \A j \in Ids : Stream(j)' = Stream(j) \o Coming(posts, j) BY <1>1, <1>6, CallbackStream
<1>8. IInv' BY <1>1, <1>6, OnLineStep
<1>9. said + 1 \in Nat BY <1>2
<1>10. m \in Texts /\ \A j \in Ids : Stream(j)' = Stream(j) \o <<m>> BY <1>4, <1>6, <1>7
<1>11. \E p \in Seq(Tasks) : OnLine(i, p) BY <1>1, <1>6
<1> QED BY <1>8, <1>9, <1>10, <1>11 DEF m

\* A lost connection (data_manager.cpp:111-133).
LEMMA LostStep ==
    ASSUME ServerTypes, NEW i \in Ids, onDisconnect(i)
    PROVE  /\ IInv' /\ names[i] \in DOMAIN users \cup {NoName}
           /\ \A j \in Ids : Stream(j)' = Stream(j) \o <<OfflineStatus(users, names[i])>>
           /\ OfflineStatus(users, names[i]) \in Statuses
           /\ disconnects' = [disconnects EXCEPT ![i] = @ + 1] /\ open' = open \ {i}
           /\ \E posts \in Seq(Tasks) : OnReadError(i, posts) \/ OnWriteError(i, posts)
<1> USE DEF ServerTypes
<1> DEFINE m == OfflineStatus(users, names[i])
           posts == <<BroadcastTask(m)>>
<1>1. OnReadError(i, posts) \/ OnWriteError(i, posts) BY DEF onDisconnect
<1>2. IsMap(users) /\ names[i] \in DOMAIN users \cup {NoName}
  BY DEF ChatTypeOK, IsMap, NamedInv
<1>3. m \in Statuses
  <2> DEFINE u == names[i]
  <2>1. u \in DOMAIN users \cup {NoName} BY <1>2
  <2> HIDE DEF u
  <2>2. OfflineStatus(users, u) \in Statuses BY <1>2, <2>1, UsersOffline
  <2> QED BY <2>2 DEF u
<1>4. m \in Msgs BY <1>3, AllAreLines
<1> HIDE DEF m
<1>5. posts \in Seq(Tasks) /\ \A j \in Ids : Coming(posts, j) = <<m>> BY <1>4, BroadcastFacts
<1> HIDE DEF posts
<1>6. \A j \in Ids : Stream(j)' = Stream(j) \o Coming(posts, j) BY <1>1, <1>5, CallbackStream
<1>7. IInv' BY <1>1, <1>5, DisconnectStep
<1>8. disconnects' = [disconnects EXCEPT ![i] = @ + 1] /\ open' = open \ {i}
  BY <1>1 DEF OnReadError, OnWriteError, handle_disconnect
<1> QED BY <1>1, <1>2, <1>3, <1>5, <1>6, <1>7, <1>8 DEF m

\* The handlers of Login and of Register post nothing (data_manager.cpp:29-41).
LEMMA LoginStep ==
    ASSUME ServerTypes, NEW i \in Ids, OnLoginOrRegister(i)
    PROVE  /\ IInv' /\ \A j \in Ids : Stream(j)' = Stream(j)
           /\ \E posts \in Seq(Tasks) : OnLine(i, posts)
<1> USE DEF ServerTypes
<1> DEFINE posts == <<>>
<1>1. OnLine(i, posts) BY DEF OnLoginOrRegister
<1>2. posts \in Seq(Tasks) /\ posts \in Seq(Handlers) OBVIOUS
<1>3. \A j \in Ids : Coming(posts, j) = <<>> BY <1>2, ComingFacts
<1> HIDE DEF posts
<1>4. \A j \in Ids : Stream(j)' = Stream(j) \o Coming(posts, j) BY <1>1, <1>2, CallbackStream
<1>5. \A j \in Ids : Stream(j) \in Seq(Msgs) BY StreamType DEF IInv
<1>6. \A j \in Ids : Stream(j) \o <<>> = Stream(j) BY <1>5, ConcatEmptySeq
<1>7. IInv' BY <1>1, <1>2, OnLineStep
<1> QED BY <1>1, <1>2, <1>3, <1>4, <1>6, <1>7

(***************************************************************************)
(* The types, with the texts that are still to be handled.                 *)
(***************************************************************************)

\* Handlers posted and taken, as the lines that wait for on_message_ are counted.
LEMMA ReadOkFacts ==
    /\ \A q \in Seq(Handlers) : Times(q, ReadOks) \in Nat
    /\ \A q \in Seq(Handlers), h \in Handlers :
          Times(Append(q, h), ReadOks) = Times(q, ReadOks) + (IF h \in ReadOks THEN 1 ELSE 0)
    /\ \A q \in Seq(Handlers) : q # <<>> =>
          Times(q, ReadOks) = Times(Tail(q), ReadOks) + (IF Head(q) \in ReadOks THEN 1 ELSE 0)
    /\ \A q \in Seq(Handlers), p \in Seq(Tasks) : Times(q \o p, ReadOks) = Times(q, ReadOks)
    /\ \A h \in Handlers : h.kind # "read" => h \notin ReadOks
    /\ \A i \in Ids : Read(i, "error") \notin ReadOks
<1> DEFINE H == ReadOks
<1>1. \A h \in Handlers : h.kind # "read" => h \notin ReadOks BY DEF ReadOks, Read
<1>2. ASSUME NEW p \in Seq(Tasks) PROVE ~Has(p, ReadOks) /\ p \in Seq(Handlers)
  <2>1. \A k \in 1..Len(p) : p[k] \in Tasks BY ElementOfSeq
  <2>2. \A k \in 1..Len(p) : p[k] \notin ReadOks BY <1>1, <2>1, HandlersAre, KindOf
  <2> QED BY <2>2, PostsAreTasks DEF Has
<1>3. \A i \in Ids : Read(i, "error") \notin ReadOks BY DEF ReadOks, Read
<1> HIDE DEF H
<1>4. \A q \in Seq(Handlers) : Times(q, H) \in Nat BY TimesIsNat
<1>5. \A q \in Seq(Handlers), h \in Handlers :
          Times(Append(q, h), H) = Times(q, H) + (IF h \in H THEN 1 ELSE 0)
  BY TimesAppend
<1>6. \A q \in Seq(Handlers) : q # <<>> =>
          Times(q, H) = Times(Tail(q), H) + (IF Head(q) \in H THEN 1 ELSE 0)
  BY TimesTail
<1>7. \A q \in Seq(Handlers), p \in Seq(Tasks) : Times(q \o p, H) = Times(q, H)
  <2> SUFFICES ASSUME NEW q \in Seq(Handlers), NEW p \in Seq(Tasks)
               PROVE  Times(q \o p, H) = Times(q, H)
    OBVIOUS
  <2>1. ~Has(p, H) /\ p \in Seq(Handlers) BY <1>2 DEF H
  <2> QED BY <2>1, TimesConcatNone
<1> QED BY <1>1, <1>3, <1>4, <1>5, <1>6, <1>7 DEF H

\* A step of the transport adds to them only what it counts in lines.
LEMMA CountStep ==
    ASSUME IInv, MainThread \/ Reactor \/ IoExit \/ OwnHandler
    PROVE  /\ Times(ready', ReadOks) + lines <= Times(ready, ReadOks) + lines'
           /\ Times(ready', ReadOks) \in Nat /\ Times(ready, ReadOks) \in Nat
           /\ lines' \in Nat /\ lines \in Nat
<1> DEFINE n == Times(ready, ReadOks)
           t == Times(Tail(ready), ReadOks)
<1>1. ready \in Seq(Handlers) /\ lines \in Nat BY BoundsAssumption DEF IInv, TypeOK
<1>2. n \in Nat BY <1>1, ReadOkFacts
<1>3. ready # <<>> => Tail(ready) \in Seq(Handlers) /\ t \in Nat /\ t <= n
  <2> HAVE ready # <<>>
  <2>1. Tail(ready) \in Seq(Handlers) BY <1>1, HeadTailProperties
  <2>2. t \in Nat BY <2>1, ReadOkFacts
  <2>3. n = t + (IF Head(ready) \in ReadOks THEN 1 ELSE 0) BY <1>1, ReadOkFacts
  <2> HIDE DEF n, t
  <2> QED BY <1>2, <2>1, <2>2, <2>3
<1>4. ASSUME NEW q \in Seq(Handlers), NEW h \in Handlers, h \notin ReadOks
      PROVE  Times(Append(q, h), ReadOks) = Times(q, ReadOks)
  <2>1. Times(Append(q, h), ReadOks) = Times(q, ReadOks) + 0 BY <1>4, ReadOkFacts
  <2>2. Times(q, ReadOks) \in Nat BY ReadOkFacts
  <2> QED BY <2>1, <2>2
<1>5. /\ \A h \in {CloseTask, AcceptAgain} : h \in Handlers /\ h \notin ReadOks
      /\ \A ec \in Codes : Accepted(ec) \in Handlers /\ Accepted(ec) \notin ReadOks
      /\ \A i \in Ids, ec \in Codes : Wrote(i, ec) \in Handlers /\ Wrote(i, ec) \notin ReadOks
  <2>1. /\ \A h \in {CloseTask, AcceptAgain} : h.kind # "read"
        /\ \A ec \in Codes : Accepted(ec).kind # "read"
        /\ \A i \in Ids, ec \in Codes : Wrote(i, ec).kind # "read"
    BY DEF CloseTask, AcceptAgain, Accepted, Wrote
  <2> QED BY <2>1, HandlersAre, ReadOkFacts
<1>6. CASE Times(ready', ReadOks) \in Nat /\ Times(ready', ReadOks) <= n /\ lines' = lines
  BY <1>1, <1>2, <1>6
<1>7. CASE Start
  <2>1. ready' = ready \/ ready' = Append(ready, Accepted("error")) BY <1>7 DEF Start, do_accept
  <2>2. Times(Append(ready, Accepted("error")), ReadOks) = n BY <1>1, <1>4, <1>5 DEF Codes
  <2>3. Times(ready', ReadOks) = n BY <2>1, <2>2
  <2>4. lines' = lines BY <1>7 DEF Start
  <2> HIDE DEF n
  <2> QED BY <1>2, <1>6, <2>3, <2>4
<1>8. CASE StopFlag \/ StopJoin \/ IoExit
  <2>1. ready' = ready /\ lines' = lines BY <1>8 DEF StopFlag, StopJoin, IoExit
  <2> QED BY <1>2, <1>6, <2>1
<1>9. CASE StopPost
  <2>1. ready' = Append(ready, CloseTask) /\ lines' = lines BY <1>9 DEF StopPost
  <2>2. Times(Append(ready, CloseTask), ReadOks) = n BY <1>1, <1>4, <1>5
  <2>3. Times(ready', ReadOks) = n BY <2>1, <2>2
  <2> HIDE DEF n
  <2> QED BY <1>2, <1>6, <2>1, <2>3
<1>10. CASE Reactor
  <2>1. ASSUME NEW ec \in Codes, AcceptReady(ec)
        PROVE  Times(ready', ReadOks) = n /\ lines' = lines
    <3>1. ready' = Append(ready, Accepted(ec)) /\ lines' = lines BY <2>1 DEF AcceptReady
    <3>2. Times(Append(ready, Accepted(ec)), ReadOks) = n BY <1>1, <1>4, <1>5
    <3> QED BY <3>1, <3>2
  <2>2. ASSUME NEW i \in Ids, NEW ec \in Codes, WriteReady(i, ec)
        PROVE  Times(ready', ReadOks) = n /\ lines' = lines
    <3>1. ready' = Append(ready, Wrote(i, ec)) /\ lines' = lines BY <2>2 DEF WriteReady
    <3>2. Times(Append(ready, Wrote(i, ec)), ReadOks) = n BY <1>1, <1>4, <1>5
    <3> QED BY <3>1, <3>2
  <2>3. ASSUME NEW i \in Ids, NEW ec \in Codes, ReadReady(i, ec)
        PROVE  \/ Times(ready', ReadOks) = n /\ lines' = lines
               \/ Times(ready', ReadOks) = n + 1 /\ lines' = lines + 1
               \/ Times(ready', ReadOks) = n /\ lines' = lines + 1
    <3>1. ready' = Append(ready, Read(i, ec)) /\ lines' = IF ec = "ok" THEN lines + 1 ELSE lines
      BY <2>3 DEF ReadReady
    <3>2. Read(i, ec) \in Handlers BY HandlersAre
    <3>3. Times(ready', ReadOks) = n + (IF Read(i, ec) \in ReadOks THEN 1 ELSE 0)
      BY <1>1, <3>1, <3>2, ReadOkFacts
    <3>4. ec # "ok" => Read(i, ec) \notin ReadOks BY ReadOkFacts DEF Codes
    <3> HIDE DEF n
    <3> QED BY <1>2, <3>1, <3>3, <3>4
  <2> HIDE DEF n
  <2>4. \/ Times(ready', ReadOks) = n /\ lines' = lines
        \/ Times(ready', ReadOks) = n + 1 /\ lines' = lines + 1
        \/ Times(ready', ReadOks) = n /\ lines' = lines + 1
    BY <1>10, <2>1, <2>2, <2>3 DEF Reactor
  <2> QED BY <1>1, <1>2, <2>4 DEF n
<1>11. CASE OwnHandler
  <2>1. /\ ready # <<>> /\ lines' = lines
        /\ \/ ready' = Tail(ready) \/ ready' = Append(Tail(ready), AcceptAgain)
           \/ ready' = Append(Tail(ready), Accepted("error"))
    BY <1>11 DEF OwnHandler, OnAccept, OnAcceptError, RunAcceptAgain, RunClose, OnWrote,
                 RunBroadcast, RunWrite, do_accept, Running
  <2>2. /\ Times(Append(Tail(ready), AcceptAgain), ReadOks) = t
        /\ Times(Append(Tail(ready), Accepted("error")), ReadOks) = t
    BY <1>3, <1>4, <1>5, <2>1 DEF Codes
  <2>3. Times(ready', ReadOks) = t BY <2>1, <2>2
  <2> HIDE DEF n, t
  <2> QED BY <1>3, <1>6, <2>1, <2>3
<1> QED BY <1>7, <1>8, <1>9, <1>10, <1>11 DEF MainThread

\* A callback takes one handler and posts none that is counted; on_message_ takes one that is.
LEMMA CallbackCount ==
    ASSUME IInv, NEW i \in Ids, NEW posts \in Seq(Tasks)
    PROVE  /\ OnLine(i, posts) =>
                 lines' = lines /\ Times(ready', ReadOks) + 1 = Times(ready, ReadOks)
           /\ OnReadError(i, posts) \/ OnWriteError(i, posts) =>
                 lines' = lines /\ Times(ready', ReadOks) <= Times(ready, ReadOks)
           /\ OnLine(i, posts) \/ OnReadError(i, posts) \/ OnWriteError(i, posts) =>
                 Times(ready', ReadOks) \in Nat /\ Times(ready, ReadOks) \in Nat
<1> DEFINE n == Times(ready, ReadOks)
           t == Times(Tail(ready), ReadOks)
<1> SUFFICES ASSUME OnLine(i, posts) \/ OnReadError(i, posts) \/ OnWriteError(i, posts)
             PROVE  /\ OnLine(i, posts) => lines' = lines /\ Times(ready', ReadOks) + 1 = n
                    /\ OnReadError(i, posts) \/ OnWriteError(i, posts) =>
                          lines' = lines /\ Times(ready', ReadOks) <= n
                    /\ Times(ready', ReadOks) \in Nat /\ n \in Nat
  OBVIOUS
<1>1. ready \in Seq(Handlers) /\ ready # <<>> /\ ready' = Tail(ready) \o posts /\ lines' = lines
  BY DEF IInv, TypeOK, OnLine, OnReadError, OnWriteError, handle_disconnect, Running
<1>2. Tail(ready) \in Seq(Handlers) BY <1>1, HeadTailProperties
<1>3. Times(ready', ReadOks) = t BY <1>1, <1>2, ReadOkFacts
<1>4. n \in Nat /\ t \in Nat /\ n = t + (IF Head(ready) \in ReadOks THEN 1 ELSE 0)
  BY <1>1, <1>2, ReadOkFacts
<1>5. OnLine(i, posts) => Head(ready) \in ReadOks
  BY DEF OnLine, Running, ReadOks
<1> HIDE DEF n, t
<1> QED BY <1>1, <1>3, <1>4, <1>5

\* The steps of the chat server, each with what it does to the transport.
ChatStep ==
    \/ (MainThread \/ Reactor \/ IoExit \/ OwnHandler) /\ UNCHANGED chat
    \/ \E i \in Ids : \/ \E u \in Users : OnInitialConnection(i, u)
                      \/ OnNewMessage(i) \/ OnLoginOrRegister(i) \/ onDisconnect(i)

\* The steps of the chat server, with the connection as the outer choice.
LEMMA ChatStepIs == ChatNext <=> ChatStep
BY DEF ChatNext, ChatIo, ChatStep

\* The transport's own steps keep its invariant.
LEMMA TransportInv ==
    ASSUME IInv, MainThread \/ Reactor \/ IoExit \/ OwnHandler
    PROVE  IInv'
<1>1. Next BY DEF Next, IoThread
<1> QED BY <1>1, NextInv

\* The types hold at the beginning.
LEMMA InitTypes == ChatInit => ServerTypes
<1> SUFFICES ASSUME ChatInit PROVE ServerTypes
  OBVIOUS
<1>1. IInv BY InitInv DEF ChatInit
<1>2. PICK old \in 0..MaxOld : db = [n \in 1..old |-> Text(n, NoName)] /\ said = old
  BY DEF ChatInit
<1>3. old \in Nat /\ MaxOld \in Nat /\ MaxLines \in Nat BY OldAssumption, BoundsAssumption
<1>4. db \in Seq(Texts)
  <2>1. \A n \in 1..old : Text(n, NoName) \in Texts BY <1>3 DEF Text, Texts
  <2> DEFINE g == [n \in 1..old |-> Text(n, NoName)]
  <2>2. g \in [1..old -> Texts] /\ db = g BY <1>2, <2>1
  <2> HIDE DEF g
  <2> QED BY <1>3, <2>2, SMT
<1>5. said \in 0..(MaxOld + MaxLines) BY <1>2, <1>3
<1>6. users = <<>> /\ names = [i \in Ids |-> NoName] /\ late = {} /\ failed = FALSE
  BY DEF ChatInit
<1>7. DOMAIN users = {} BY <1>6
<1>8. ChatTypeOK BY <1>1, <1>4, <1>5, <1>6, <1>7 DEF IInv, ChatTypeOK
<1>9. NamedInv
  <2>1. ready = <<>> /\ lines = 0 BY DEF ChatInit, Init
  <2>2. Times(ready, ReadOks) = 0
    <3>1. <<>> \in Seq(Handlers) OBVIOUS
    <3> QED BY <2>1, <3>1, TimesIsNat
  <2>3. said + Times(ready, ReadOks) <= MaxOld + lines BY <1>2, <1>3, <2>1, <2>2
  <2> QED BY <1>6, <2>3 DEF NamedInv
<1> QED BY <1>1, <1>8, <1>9 DEF ServerTypes

\* Every step keeps the types, and the transport's invariant with them.
LEMMA TypesStep == ServerTypes /\ [ChatNext]_chatVars => ServerTypes'
<1> SUFFICES ASSUME ServerTypes, [ChatNext]_chatVars PROVE ServerTypes'
  OBVIOUS
<1>1. IInv /\ ChatTypeOK /\ NamedInv BY DEF ServerTypes
<1>2. /\ said \in Nat /\ lines \in Nat /\ MaxOld \in Nat /\ MaxLines \in Nat
      /\ Times(ready, ReadOks) \in Nat
  BY <1>1, BoundsAssumption, OldAssumption, ReadOkFacts DEF IInv, TypeOK, ChatTypeOK
<1>3. CASE UNCHANGED chatVars
  <2>1. UNCHANGED vars /\ UNCHANGED chat BY <1>3 DEF chatVars
  <2>2. IInv' BY <1>1, <2>1, NextInv
  <2>3. UNCHANGED <<users, names, db, said, late, failed, ready, lines>>
    BY <2>1 DEF vars, chat
  <2> QED BY <1>1, <2>2, <2>3 DEF IInv, ChatTypeOK, NamedInv, ServerTypes
<1>4. CASE (MainThread \/ Reactor \/ IoExit \/ OwnHandler) /\ UNCHANGED chat
  <2>1. UNCHANGED <<users, names, db, said, late, failed>> BY <1>4 DEF chat
  <2>2. IInv' BY <1>1, <1>4, TransportInv
  <2>3. ChatTypeOK' BY <1>1, <2>1, <2>2 DEF ChatTypeOK, IInv
  <2>4. /\ Times(ready', ReadOks) + lines <= Times(ready, ReadOks) + lines'
        /\ Times(ready', ReadOks) \in Nat /\ lines' \in Nat
    BY <1>1, <1>4, CountStep
  <2>5. said' + Times(ready', ReadOks) <= MaxOld + lines'
    <3>1. said + Times(ready, ReadOks) <= MaxOld + lines BY <1>1 DEF NamedInv
    <3> QED BY <1>2, <2>1, <2>4, <3>1
  <2>6. NamedInv' BY <1>1, <2>1, <2>5 DEF NamedInv
  <2> QED BY <2>2, <2>3, <2>6 DEF ServerTypes
<1>5. ASSUME NEW i \in Ids, NEW u \in Users, OnInitialConnection(i, u) PROVE ServerTypes'
  <2>1. IInv' BY <1>5, IntroStep
  <2>2. PICK c \in ColorsFor(users, u), n \in 0..Len(db), posts \in Seq(Tasks) :
          Introduces(i, u, c, n) /\ OnLine(i, posts)
    BY <1>5, IntroStep
  <2>3. users' = WithOnline(users, u, c) /\ UNCHANGED <<db, said>> /\ failed' = (failed \/ n # Len(db))
    BY <2>2 DEF Introduces
  <2>4. names' = [names EXCEPT ![i] = u] /\ late' \in {late, late \cup {i}}
    BY <1>5 DEF OnInitialConnection
  <2>5. IsMap(users) BY <1>1 DEF ChatTypeOK, IsMap
  <2>6. IsMap(users') /\ DOMAIN users' = DOMAIN users \cup {u}
    <3>1. CameOnline(users, u, c, users') BY <2>3, <2>5, UsersOnline
    <3> QED BY <3>1 DEF CameOnline
  <2>7. names' \in [Ids -> Users \cup {NoName}] BY <1>1, <2>4 DEF ChatTypeOK
  <2>8. failed' \in BOOLEAN /\ late' \subseteq Ids /\ said' \in 0..(MaxOld + MaxLines) /\ db' \in Seq(Texts)
    BY <1>1, <2>3, <2>4 DEF ChatTypeOK
  <2>9. ChatTypeOK' BY <2>1, <2>6, <2>7, <2>8 DEF IInv, ChatTypeOK, IsMap
  <2>10. lines' = lines /\ Times(ready', ReadOks) \in Nat
         /\ Times(ready', ReadOks) + 1 = Times(ready, ReadOks)
    BY <1>1, <2>2, CallbackCount
  <2>11. said' + Times(ready', ReadOks) <= MaxOld + lines'
    <3>1. said + Times(ready, ReadOks) <= MaxOld + lines BY <1>1 DEF NamedInv
    <3> QED BY <1>2, <2>3, <2>10, <3>1
  <2>12. \A j \in Ids : names'[j] # NoName => names'[j] \in DOMAIN users'
    BY <1>1, <2>4, <2>6 DEF NamedInv, ChatTypeOK
  <2>13. NamedInv' BY <2>11, <2>12 DEF NamedInv
  <2> QED BY <2>1, <2>9, <2>13 DEF ServerTypes
<1>6. ASSUME NEW i \in Ids, OnNewMessage(i) PROVE ServerTypes'
  <2> DEFINE m == Text(said + 1, names[i])
  <2>1. IInv' /\ m \in Texts BY <1>6, TextStep
  <2>2. PICK posts \in Seq(Tasks) : OnLine(i, posts) BY <1>6, TextStep
  <2>3. /\ said' = said + 1 /\ UNCHANGED <<users, names, late>>
        /\ \/ db' = Append(db, m) /\ UNCHANGED failed
           \/ failed' = TRUE /\ UNCHANGED db
    BY <1>6 DEF OnNewMessage, addMessageEntry
  <2>4. lines' = lines /\ Times(ready', ReadOks) \in Nat
        /\ Times(ready', ReadOks) + 1 = Times(ready, ReadOks)
    BY <1>1, <2>2, CallbackCount
  <2>5. said' + Times(ready', ReadOks) <= MaxOld + lines'
    <3>1. said + Times(ready, ReadOks) <= MaxOld + lines BY <1>1 DEF NamedInv
    <3> QED BY <1>2, <2>3, <2>4, <3>1
  <2>6. NamedInv' BY <1>1, <2>3, <2>5 DEF NamedInv
  <2>7. said' \in 0..(MaxOld + MaxLines)
    <3>1. lines \in 0..MaxLines BY <1>1 DEF IInv, TypeOK
    <3> QED BY <1>2, <2>3, <2>4, <2>5, <3>1
  <2>8. failed' \in BOOLEAN BY <1>1, <2>3 DEF ChatTypeOK
  <2>9. db' \in Seq(Texts)
    <3>1. db \in Seq(Texts) BY <1>1 DEF ChatTypeOK
    <3> HIDE DEF m
    <3>2. Append(db, m) \in Seq(Texts) BY <2>1, <3>1, AppendProperties
    <3> QED BY <2>3, <3>1, <3>2
  <2> HIDE DEF m
  <2>10. ChatTypeOK' BY <1>1, <2>1, <2>3, <2>7, <2>8, <2>9 DEF IInv, ChatTypeOK
  <2> QED BY <2>1, <2>6, <2>10 DEF ServerTypes
<1>7. ASSUME NEW i \in Ids, OnLoginOrRegister(i) PROVE ServerTypes'
  <2>1. IInv' BY <1>7, LoginStep
  <2>2. PICK posts \in Seq(Tasks) : OnLine(i, posts) BY <1>7, LoginStep
  <2>3. UNCHANGED <<users, names, db, said, late, failed>> BY <1>7 DEF OnLoginOrRegister, chat
  <2>4. lines' = lines /\ Times(ready', ReadOks) \in Nat
        /\ Times(ready', ReadOks) + 1 = Times(ready, ReadOks)
    BY <1>1, <2>2, CallbackCount
  <2>5. said' + Times(ready', ReadOks) <= MaxOld + lines'
    <3>1. said + Times(ready, ReadOks) <= MaxOld + lines BY <1>1 DEF NamedInv
    <3> QED BY <1>2, <2>3, <2>4, <3>1
  <2>6. NamedInv' BY <1>1, <2>3, <2>5 DEF NamedInv
  <2>7. ChatTypeOK' BY <1>1, <2>1, <2>3 DEF IInv, ChatTypeOK
  <2> QED BY <2>1, <2>6, <2>7 DEF ServerTypes
<1>8. ASSUME NEW i \in Ids, onDisconnect(i) PROVE ServerTypes'
  <2>1. IInv' /\ names[i] \in DOMAIN users \cup {NoName} BY <1>8, LostStep
  <2>2. PICK posts \in Seq(Tasks) : OnReadError(i, posts) \/ OnWriteError(i, posts)
    BY <1>8, LostStep
  <2>3. users' = WithOffline(users, names[i]) /\ UNCHANGED <<names, db, said, late, failed>>
    BY <1>8 DEF onDisconnect
  <2>4. IsMap(users) BY <1>1 DEF ChatTypeOK, IsMap
  <2>5. IsMap(users') /\ DOMAIN users' = DOMAIN users
    <3> DEFINE u == names[i]
    <3>1. u \in DOMAIN users \cup {NoName} BY <2>1
    <3> HIDE DEF u
    <3>2. IsMap(WithOffline(users, u)) /\ DOMAIN WithOffline(users, u) = DOMAIN users
      BY <2>4, <3>1, UsersOffline
    <3> QED BY <2>3, <3>2 DEF u
  <2>6. lines' = lines /\ Times(ready', ReadOks) \in Nat
        /\ Times(ready', ReadOks) <= Times(ready, ReadOks)
    BY <1>1, <2>2, CallbackCount
  <2>7. said' + Times(ready', ReadOks) <= MaxOld + lines'
    <3>1. said + Times(ready, ReadOks) <= MaxOld + lines BY <1>1 DEF NamedInv
    <3> QED BY <1>2, <2>3, <2>6, <3>1
  <2>8. NamedInv' BY <1>1, <2>3, <2>5, <2>7 DEF NamedInv
  <2>9. ChatTypeOK' BY <1>1, <2>1, <2>3, <2>5 DEF IInv, ChatTypeOK, IsMap
  <2> QED BY <2>1, <2>8, <2>9 DEF ServerTypes
<1>9. CASE ChatNext
  BY <1>4, <1>5, <1>6, <1>7, <1>8, <1>9, ChatStepIs DEF ChatStep
<1> QED BY <1>3, <1>9

\* Every step of the process is one of the chat server, or leaves it alone.
LEMMA ServerStepIs == [ServerNext]_processVars => [ChatNext]_chatVars
<1> SUFFICES ASSUME [ServerNext]_processVars PROVE [ChatNext]_chatVars
  OBVIOUS
<1>1. CASE UNCHANGED processVars BY <1>1 DEF processVars
<1>2. CASE Serve BY <1>2 DEF Serve, ChatNext, MainThread
<1>3. CASE Leave \/ CloseDb BY <1>3 DEF Leave, CloseDb
<1>4. CASE Stop
  <2>1. MainThread /\ UNCHANGED chat BY <1>4 DEF Stop, MainThread, chat
  <2> QED BY <2>1 DEF ChatNext
<1>5. CASE Transport
  <2>1. (IoExit \/ OwnHandler) /\ UNCHANGED chat BY <1>5 DEF Transport, chat
  <2> QED BY <2>1 DEF ChatNext, ChatIo
<1>6. CASE Callbacks BY <1>6 DEF Callbacks, ChatNext, ChatIo
<1>7. CASE Reactor /\ UNCHANGED <<chat, stage, torn>>
  <2>1. UNCHANGED chat BY <1>7 DEF chat
  <2> QED BY <1>7, <2>1 DEF ChatNext
<1> QED BY <1>1, <1>2, <1>3, <1>4, <1>5, <1>6, <1>7 DEF ServerNext

\* The process is a chat server.
LEMMA ServerIsChat == ServerSpec => ChatSpec
<1>1. ServerInit => ChatInit BY DEF ServerInit
<1> QED BY <1>1, ServerStepIs, PTL DEF ServerSpec, ChatSpec

\* Every variable of the chat server keeps its type: a connection's user is known, and every
\* text that is stored or broadcast has a number (data_manager.cpp:43-133).
THEOREM ChatTypeCorrect == ChatSpec => []ChatTypeOK
<1>1. ServerTypes => ChatTypeOK BY DEF ServerTypes
<1> QED BY <1>1, InitTypes, TypesStep, PTL DEF ChatSpec

(***************************************************************************)
(* The four kinds of steps: one that leaves the chat alone, and the three  *)
(* callbacks.                                                              *)
(***************************************************************************)
Quiet ==
    /\ UNCHANGED <<users, names, db, said, late, failed>>
    /\ \/ UNCHANGED disconnects /\ \A i \in Ids : StreamKeeps(i)
       \/ \A i \in Ids : i \notin open' /\ Stream(i)' = <<>>
    /\ \/ starts' = starts /\ (io' = "run" => io = "run" /\ next_id' >= next_id /\ UNCHANGED disconnects)
       \/ starts' = starts + 1 /\ UNCHANGED <<open, next_id>> /\ io = "none"
    /\ \A i \in open' : i \in open \/ (i = next_id /\ io = "run" /\ next_id' = next_id + 1)

\* A step that is no introduction, text or loss changes no map and extends no stream.
LEMMA QuietSteps ==
    ASSUME ServerTypes, [ChatNext]_chatVars,
           ~(\E i \in Ids, u \in Users : OnInitialConnection(i, u)),
           ~(\E i \in Ids : OnNewMessage(i) \/ onDisconnect(i))
    PROVE  Quiet
<1>1. IInv /\ TypeOK /\ next_id \in Nat BY DEF ServerTypes, IInv, TypeOK
<1>2. CASE UNCHANGED chatVars
  <2>1. UNCHANGED <<users, names, db, said, late, failed, sent, outbox, ready, starts, io, open,
                    next_id, disconnects>>
    BY <1>2 DEF chatVars, chat, vars, main, listen, writes
  <2>2. \A i \in Ids : Stream(i)' = Stream(i) BY <1>1, <2>1, StreamRests
  <2> QED BY <1>1, <2>1, <2>2 DEF Quiet, StreamKeeps
<1>3. ASSUME NEW i \in Ids, OnLoginOrRegister(i) PROVE Quiet
  <2>1. \A j \in Ids : Stream(j)' = Stream(j) BY <1>3, LoginStep
  <2>2. UNCHANGED <<users, names, db, said, late, failed>> BY <1>3 DEF OnLoginOrRegister, chat
  <2>3. UNCHANGED <<starts, io, open, next_id, disconnects>>
    BY <1>3 DEF OnLoginOrRegister, OnLine, main, listen
  <2> QED BY <1>1, <2>1, <2>2, <2>3 DEF Quiet, StreamKeeps
<1>4. CASE StopJoin /\ UNCHANGED chat
  <2>1. open' = {} /\ starts' = starts /\ io' = "none" BY <1>4 DEF StopJoin
  <2>2. \A j \in Ids : Stream(j)' = <<>> BY <1>1, <1>4, StopJoinStream
  <2>3. UNCHANGED <<users, names, db, said, late, failed>> BY <1>4 DEF chat
  <2> QED BY <2>1, <2>2, <2>3 DEF Quiet
<1>5. CASE (Start \/ StopFlag \/ StopPost \/ Reactor \/ IoExit \/ OwnHandler) /\ UNCHANGED chat
  <2>1. \A i \in Ids : StreamKeeps(i) BY <1>1, <1>5, TransportStream
  <2>2. UNCHANGED <<users, names, db, said, late, failed>> BY <1>5 DEF chat
  <2>3. CASE Start
    <3>1. starts' = starts + 1 /\ UNCHANGED <<open, next_id, disconnects>> /\ io = "none"
      BY <1>1, <2>3 DEF Start, IInv, ThreadInv
    <3> QED BY <2>1, <2>2, <3>1 DEF Quiet
  <2>4. CASE StopFlag \/ StopPost \/ IoExit
    <3>1. /\ starts' = starts /\ UNCHANGED <<open, next_id, disconnects>>
          /\ io' = "run" => io = "run"
      BY <2>4 DEF StopFlag, StopPost, IoExit, main, listen
    <3> QED BY <1>1, <2>1, <2>2, <3>1 DEF Quiet
  <2>5. CASE Reactor
    <3>1. UNCHANGED <<starts, io, open, next_id, disconnects>>
      BY <2>5 DEF Reactor, AcceptReady, ReadReady, WriteReady, main, listen
    <3> QED BY <1>1, <2>1, <2>2, <3>1 DEF Quiet
  <2>6. CASE OwnHandler
    <3>1. starts' = starts /\ io' = io /\ UNCHANGED disconnects
      BY <2>6 DEF OwnHandler, OnAccept, OnAcceptError, RunAcceptAgain, RunClose, OnWrote,
                  RunBroadcast, RunWrite, main
    <3>2. io = "run"
      BY <2>6 DEF OwnHandler, OnAccept, OnAcceptError, RunAcceptAgain, RunClose, OnWrote,
                  RunBroadcast, RunWrite, Running
    <3>3. CASE OnAccept
      <4>1. \/ UNCHANGED <<open, next_id>>
            \/ next_id' = next_id + 1 /\ open' = open \cup {next_id}
        BY <3>3 DEF OnAccept
      <4> QED BY <1>1, <2>1, <2>2, <3>1, <3>2, <4>1 DEF Quiet
    <3>4. CASE ~OnAccept
      <4>1. open' \subseteq open /\ next_id' = next_id
        BY <2>6, <3>4 DEF OwnHandler, OnAcceptError, RunAcceptAgain, RunClose, OnWrote,
                  RunBroadcast, RunWrite, listen
      <4> QED BY <1>1, <2>1, <2>2, <3>1, <3>2, <4>1 DEF Quiet
    <3> QED BY <3>3, <3>4
  <2> QED BY <1>5, <2>3, <2>4, <2>5, <2>6
<1>6. CASE ChatNext
  BY <1>3, <1>4, <1>5, <1>6, ChatStepIs DEF ChatStep, MainThread
<1> QED BY <1>2, <1>6

\* What a callback leaves alone, and what runs it: the io thread, for a connection that was
\* accepted.
LEMMA CallbackFrame ==
    ASSUME IInv, NEW i \in Ids, NEW posts \in Seq(Tasks),
           OnLine(i, posts) \/ OnReadError(i, posts) \/ OnWriteError(i, posts)
    PROVE  /\ UNCHANGED <<starts, io, next_id>> /\ io = "run" /\ i < next_id /\ open' \subseteq open
           /\ OnLine(i, posts) => UNCHANGED <<open, disconnects, conns>>
<1>1. /\ UNCHANGED <<starts, io, next_id>> /\ open' \subseteq open
      /\ OnLine(i, posts) => UNCHANGED <<open, disconnects, conns>>
  BY DEF OnLine, OnReadError, OnWriteError, handle_disconnect, main, listen
<1>2. PICK h \in ReadDone(i) \cup WroteDone(i) : Running(h)
  BY DEF OnLine, OnReadError, OnWriteError, ReadDone, WroteDone
<1>3. io = "run" /\ (Has(ready, ReadDone(i)) \/ Has(ready, WroteDone(i)))
  BY <1>2, Taking
<1>4. i < next_id
  <2>1. Reading(i) \/ Writing(i) BY <1>3 DEF Reading, Writing
  <2>2. i >= next_id => ~Reading(i) BY DEF IInv, ReadInv
  <2>3. i >= next_id => ~Writing(i) BY DEF IInv, WriteInv
  <2>4. i \in Nat /\ next_id \in Nat BY DEF IInv, TypeOK, Ids
  <2> QED BY <2>1, <2>2, <2>3, <2>4
<1> QED BY <1>1, <1>3, <1>4

(***************************************************************************)
(* One start.  main() calls connect() once, so what depends on the names   *)
(* and counters that stop() keeps is said of a server that was started     *)
(* once at most.                                                           *)
(***************************************************************************)

\* Nobody is known before the start, and no connection has a name before it is accepted.
StartInv ==
    /\ starts = 0 => io = "none" /\ DOMAIN users = {} /\ \A i \in Ids : names[i] = NoName
    /\ io = "run" /\ starts <= 1 => \A i \in Ids : i >= next_id => names[i] = NoName

PresenceInv == starts <= 1 => PresenceOfUser

\* At the beginning nobody is connected or named.
LEMMA StartInvInit == ChatInit => StartInv /\ PresenceInv
<1> SUFFICES ASSUME ChatInit PROVE StartInv /\ PresenceInv
  OBVIOUS
<1>1. users = <<>> /\ names = [i \in Ids |-> NoName] /\ io = "none" BY DEF ChatInit, Init
<1>2. DOMAIN users = {} BY <1>1
<1> QED BY <1>1, <1>2 DEF StartInv, PresenceInv, PresenceOfUser

\* No user is known before the start, no connection has a name before its accept.
LEMMA StartInvStep == ServerTypes /\ StartInv /\ [ChatNext]_chatVars => StartInv'
<1> SUFFICES ASSUME ServerTypes, StartInv, [ChatNext]_chatVars PROVE StartInv'
  OBVIOUS
<1>1. /\ IInv /\ next_id \in Nat /\ starts \in Nat /\ names \in [Ids -> Users \cup {NoName}]
      /\ Ids \subseteq Nat
  <2>1. IInv /\ names \in [Ids -> Users \cup {NoName}] BY DEF ServerTypes, ChatTypeOK
  <2>2. next_id \in Nat /\ starts \in Nat BY <2>1, BoundsAssumption DEF IInv, TypeOK
  <2>3. Ids \subseteq Nat BY DEF Ids
  <2> QED BY <2>1, <2>2, <2>3
<1>2. CASE Quiet
  <2>1. UNCHANGED <<users, names>> BY <1>2 DEF Quiet
  <2>2. CASE starts' = starts /\ (io' = "run" => io = "run" /\ next_id' >= next_id)
    <3>1. starts' = 0 => DOMAIN users' = {} /\ \A i \in Ids : names'[i] = NoName
      BY <2>1, <2>2 DEF StartInv
    <3>2. starts' = 0 => io' = "none"
      <4>1. starts = 0 => io = "none" BY DEF StartInv
      <4>2. io = "none" => io' # "exited"
        <5>1. CASE UNCHANGED chatVars BY <5>1 DEF chatVars, vars
        <5>2. CASE ChatNext
          BY <5>2 DEF ChatNext, ChatIo, MainThread, Start, StopFlag, StopPost, StopJoin, Reactor,
                AcceptReady, ReadReady, WriteReady, IoExit, OwnHandler, OnAccept, OnAcceptError,
                RunAcceptAgain, RunClose, OnWrote, RunBroadcast, RunWrite, OnInitialConnection,
                OnNewMessage, OnLoginOrRegister, onDisconnect, OnLine, OnReadError, OnWriteError, Running
        <5> QED BY <5>1, <5>2
      <4>3. io' \in {"none", "run", "exited"}
        <5>1. ServerTypes' BY TypesStep
        <5> QED BY <5>1 DEF ServerTypes, IInv, TypeOK
      <4> QED BY <2>2, <4>1, <4>2, <4>3
    <3>3. ASSUME io' = "run", starts' <= 1, NEW i \in Ids, i >= next_id' PROVE names'[i] = NoName
      <4>1. io = "run" /\ starts <= 1 /\ next_id' >= next_id BY <2>2, <3>3
      <4>2. i >= next_id
        <5>1. ServerTypes' BY TypesStep
        <5>2. next_id' \in Nat BY <5>1 DEF ServerTypes, IInv, TypeOK
        <5> QED BY <1>1, <3>3, <4>1, <5>2
      <4> QED BY <2>1, <4>1, <4>2 DEF StartInv
    <3> QED BY <3>1, <3>2, <3>3 DEF StartInv
  <2>3. CASE starts' = starts + 1 /\ io = "none"
    <3>1. starts' # 0 BY <1>1, <2>3
    <3>2. starts' <= 1 => starts = 0 BY <1>1, <2>3
    <3> QED BY <2>1, <3>1, <3>2 DEF StartInv
  <2> QED BY <1>2, <2>2, <2>3 DEF Quiet
<1>3. ASSUME NEW i \in Ids, NEW posts \in Seq(Tasks), names' \in {names, [names EXCEPT ![i] = names'[i]]},
             OnLine(i, posts) \/ OnReadError(i, posts) \/ OnWriteError(i, posts)
      PROVE  StartInv'
  <2>1. UNCHANGED <<starts, io, next_id>> /\ io = "run" /\ i < next_id BY <1>1, <1>3, CallbackFrame
  <2>2. starts' # 0 BY <2>1 DEF StartInv
  <2>3. ASSUME io' = "run", starts' <= 1, NEW j \in Ids, j >= next_id' PROVE names'[j] = NoName
    <3>1. names[j] = NoName BY <2>1, <2>3 DEF StartInv
    <3>2. j # i BY <1>1, <2>1, <2>3
    <3> QED BY <1>1, <1>3, <3>1, <3>2
  <2> QED BY <2>2, <2>3 DEF StartInv
<1>4. ASSUME NEW i \in Ids, NEW u \in Users, OnInitialConnection(i, u) PROVE StartInv'
  <2>1. PICK posts \in Seq(Tasks) : OnLine(i, posts) BY <1>4, IntroStep
  <2>2. names' = [names EXCEPT ![i] = u] BY <1>4 DEF OnInitialConnection
  <2>3. names' = [names EXCEPT ![i] = names'[i]] BY <1>1, <2>2
  <2> QED BY <1>3, <2>1, <2>3
<1>5. ASSUME NEW i \in Ids, OnNewMessage(i) PROVE StartInv'
  <2>1. PICK posts \in Seq(Tasks) : OnLine(i, posts) BY <1>5, TextStep
  <2> QED BY <1>3, <1>5, <2>1 DEF OnNewMessage
<1>6. ASSUME NEW i \in Ids, onDisconnect(i) PROVE StartInv'
  <2>1. PICK posts \in Seq(Tasks) : OnReadError(i, posts) \/ OnWriteError(i, posts) BY <1>6, LostStep
  <2> QED BY <1>3, <1>6, <2>1 DEF onDisconnect
<1> QED BY <1>2, <1>4, <1>5, <1>6, QuietSteps

\* The map of users is right about everyone, as long as the io thread runs: a lost
\* connection takes its user offline, and the next introduction brings it back.
LEMMA PresenceStep == ServerTypes /\ StartInv /\ PresenceInv /\ [ChatNext]_chatVars => PresenceInv'
<1> SUFFICES ASSUME ServerTypes, StartInv, PresenceInv, [ChatNext]_chatVars, starts' <= 1, io' = "run"
             PROVE  \A v \in DOMAIN users' :
                       LET mine == {i \in Ids : names'[i] = v}
                       IN  /\ (\A i \in mine : disconnects'[i] = 0) => users'[v].online
                           /\ (\A i \in mine : disconnects'[i] > 0 /\ i \notin late') => ~users'[v].online
  BY DEF PresenceInv, PresenceOfUser
<1>1. IInv /\ names \in [Ids -> Users \cup {NoName}] /\ IsMap(users)
  BY DEF ServerTypes, ChatTypeOK, IsMap
<1>2. starts \in Nat /\ disconnects \in [Ids -> Nat] /\ conns \subseteq Ids
  BY <1>1, BoundsAssumption DEF IInv, TypeOK
<1>3. ASSUME io = "run", starts <= 1, NEW v \in DOMAIN users
      PROVE  /\ (\A i \in {j \in Ids : names[j] = v} : disconnects[i] = 0) => users[v].online
             /\ (\A i \in {j \in Ids : names[j] = v} : disconnects[i] > 0 /\ i \notin late) => ~users[v].online
  BY <1>3 DEF PresenceInv, PresenceOfUser
<1>4. CASE Quiet
  <2>1. UNCHANGED <<users, names, late>> BY <1>4 DEF Quiet
  <2>2. CASE starts' = starts /\ io = "run" /\ UNCHANGED disconnects
    BY <1>3, <2>1, <2>2
  <2>3. CASE starts' = starts + 1
    <3>1. starts = 0 BY <1>2, <2>3
    <3>2. DOMAIN users' = {} BY <2>1, <3>1 DEF StartInv
    <3> QED BY <3>2
  <2> QED BY <1>4, <2>2, <2>3 DEF Quiet
<1>5. ASSUME NEW i \in Ids, NEW u \in Users, OnInitialConnection(i, u),
             NEW v \in DOMAIN users'
      PROVE  /\ (\A j \in {k \in Ids : names'[k] = v} : disconnects'[j] = 0) => users'[v].online
             /\ (\A j \in {k \in Ids : names'[k] = v} : disconnects'[j] > 0 /\ j \notin late')
                    => ~users'[v].online
  <2>1. PICK c \in ColorsFor(users, u), n \in 0..Len(db), posts \in Seq(Tasks) :
          Introduces(i, u, c, n) /\ OnLine(i, posts)
    BY <1>5, IntroStep
  <2>2. users' = WithOnline(users, u, c) BY <2>1 DEF Introduces
  <2>3. /\ names' = [names EXCEPT ![i] = u] /\ names[i] = NoName
        /\ late' = IF i \in conns THEN late ELSE late \cup {i}
    BY <1>5 DEF OnInitialConnection
  <2>4. io = "run" /\ UNCHANGED <<starts, disconnects>> BY <1>1, <2>1, CallbackFrame
  <2>5. CASE v = u
    <3>1. users'[v].online
      <4>1. CameOnline(users, u, c, users') BY <1>1, <2>2, UsersOnline
      <4> QED BY <2>5, <4>1 DEF CameOnline
    <3>2. i \in {k \in Ids : names'[k] = v} BY <1>1, <2>3, <2>5
    <3>3. ~(disconnects'[i] > 0 /\ i \notin late')
      <4>1. CASE i \in conns
        <5>1. disconnects[i] = 0 BY <1>1, <4>1 DEF IInv, ReadInv
        <5> QED BY <2>4, <5>1
      <4>2. CASE i \notin conns
        BY <2>3, <4>2
      <4> QED BY <4>1, <4>2
    <3> QED BY <3>1, <3>2, <3>3
  <2>6. CASE v # u
    <3>1. v \in DOMAIN users /\ users'[v] = users[v]
      <4>1. CameOnline(users, u, c, users') BY <1>1, <2>2, UsersOnline
      <4> QED BY <2>2, <2>6, <4>1 DEF CameOnline
    <3>2. {k \in Ids : names'[k] = v} = {k \in Ids : names[k] = v}
      <4>1. v \in Users BY <1>1, <3>1 DEF IsMap
      <4>2. v # NoName BY <4>1, NamesAssumption
      <4> QED BY <1>1, <2>3, <2>6, <4>2
    <3>3. /\ (\A j \in {k \in Ids : names[k] = v} : disconnects[j] = 0) => users[v].online
          /\ (\A j \in {k \in Ids : names[k] = v} : disconnects[j] > 0 /\ j \notin late) => ~users[v].online
      BY <1>3, <2>4, <3>1
    <3>4. late \subseteq late' BY <2>3
    <3> QED BY <2>4, <3>1, <3>2, <3>3, <3>4
  <2> QED BY <2>5, <2>6
<1>6. ASSUME NEW i \in Ids, OnNewMessage(i),
             NEW v \in DOMAIN users'
      PROVE  /\ (\A j \in {k \in Ids : names'[k] = v} : disconnects'[j] = 0) => users'[v].online
             /\ (\A j \in {k \in Ids : names'[k] = v} : disconnects'[j] > 0 /\ j \notin late')
                    => ~users'[v].online
  <2>1. PICK posts \in Seq(Tasks) : OnLine(i, posts) BY <1>6, TextStep
  <2>2. io = "run" /\ UNCHANGED <<starts, disconnects>> BY <1>1, <2>1, CallbackFrame
  <2>3. UNCHANGED <<users, names, late>> BY <1>6 DEF OnNewMessage
  <2> QED BY <1>3, <2>2, <2>3
<1>7. ASSUME NEW i \in Ids, onDisconnect(i),
             NEW v \in DOMAIN users'
      PROVE  /\ (\A j \in {k \in Ids : names'[k] = v} : disconnects'[j] = 0) => users'[v].online
             /\ (\A j \in {k \in Ids : names'[k] = v} : disconnects'[j] > 0 /\ j \notin late')
                    => ~users'[v].online
  <2> DEFINE u == names[i]
             mine == {k \in Ids : names[k] = v}
  <2>1. PICK posts \in Seq(Tasks) : OnReadError(i, posts) \/ OnWriteError(i, posts) BY <1>7, LostStep
  <2>2. io = "run" /\ UNCHANGED starts BY <1>1, <2>1, CallbackFrame
  <2>3. u \in DOMAIN users \cup {NoName} /\ disconnects' = [disconnects EXCEPT ![i] = @ + 1]
    BY <1>7, LostStep
  <2>4. users' = WithOffline(users, u) /\ UNCHANGED <<names, late>> BY <1>7 DEF onDisconnect
  <2>5. CASE v = u
    <3>1. v \in Users
      <4>1. ServerTypes' BY TypesStep
      <4> QED BY <4>1 DEF ServerTypes, ChatTypeOK
    <3>2. u # NoName BY <2>5, <3>1, NamesAssumption
    <3>3. i \in mine /\ disconnects'[i] # 0 BY <1>2, <2>3, <2>5
    <3>4. ~users'[v].online
      <4> HIDE DEF u
      <4> QED BY <1>1, <2>3, <2>4, <2>5, <3>2, UsersOffline
    <3> QED BY <2>4, <3>3, <3>4
  <2>6. CASE v # u
    <3>1. v \in DOMAIN users /\ users'[v] = users[v]
      <4> HIDE DEF u
      <4> QED BY <1>1, <2>3, <2>4, <2>6, UsersOffline
    <3>2. \A j \in mine : disconnects'[j] = disconnects[j] BY <1>2, <2>3, <2>6
    <3>3. /\ (\A j \in mine : disconnects[j] = 0) => users[v].online
          /\ (\A j \in mine : disconnects[j] > 0 /\ j \notin late) => ~users[v].online
      BY <1>3, <2>2, <3>1
    <3> QED BY <2>4, <3>1, <3>2, <3>3
  <2> QED BY <2>5, <2>6
<1> QED BY <1>4, <1>5, <1>6, <1>7, QuietSteps

\* A user is shown online while its connections are there, and offline when all were lost,
\* on a server that was started once, as main() starts it (data_manager.cpp:57, 113-125).
THEOREM PresenceOfUserHolds ==
    ChatSpec => [](starts <= 1 => PresenceOfUser)
<1>1. ServerTypes /\ StartInv /\ PresenceInv /\ [ChatNext]_chatVars
          => (ServerTypes /\ StartInv /\ PresenceInv)'
  BY TypesStep, StartInvStep, PresenceStep
<1>2. ChatInit => ServerTypes /\ StartInv /\ PresenceInv
  BY InitTypes, StartInvInit
<1>3. PresenceInv => (starts <= 1 => PresenceOfUser)
  BY DEF PresenceInv
<1> QED BY <1>1, <1>2, <1>3, PTL DEF ChatSpec

(***************************************************************************)
(* The process: one start, and an end.                                     *)
(***************************************************************************)

\* Where main() is, and what it did to the transport.
StageInv ==
    /\ starts <= 1 /\ (stage = "starting" => starts = 0)
    /\ stage = "over" => pc = "idle" /\ ~running
    /\ io = "none" => conns = {}

\* At the beginning the members are there and the transport was not started.
LEMMA StageInit == ServerInit => StageInv
BY DEF ServerInit, ChatInit, Init, StageInv

\* main() starts the server once, and nothing runs when it is over (main.cpp:37-44).
LEMMA StageStep == ServerTypes /\ StageInv /\ [ServerNext]_processVars => StageInv'
<1> SUFFICES ASSUME ServerTypes, StageInv, [ServerNext]_processVars PROVE StageInv'
  OBVIOUS
<1>1. starts \in Nat BY BoundsAssumption DEF ServerTypes, IInv, TypeOK
<1>2. CASE UNCHANGED processVars
  BY <1>2 DEF processVars, chatVars, vars, main, StageInv
<1>3. CASE Serve
  BY <1>1, <1>3 DEF Serve, Start, StageInv
<1>4. CASE Leave \/ CloseDb
  BY <1>4 DEF Leave, CloseDb, chatVars, vars, main, StageInv
<1>5. CASE Stop
  BY <1>5 DEF Stop, StopFlag, StopPost, StopJoin, StageInv
<1>6. CASE Transport
  <2>1. io = "run" /\ starts' = starts /\ stage' = stage /\ (io' = "run" \/ io' = "exited")
    BY <1>6 DEF Transport, IoExit, OwnHandler, OnAccept, OnAcceptError, RunAcceptAgain, RunClose,
                OnWrote, RunBroadcast, RunWrite, Running, main
  <2>2. UNCHANGED <<pc, running>> \/ stage = "ending"
    <3>1. CASE OnAccept
      <4>1. UNCHANGED <<pc, running>> \/ (running /\ pc' = "posting")
        BY <3>1 DEF OnAccept, main
      <4>2. running => pc # "posting" BY DEF ServerTypes, IInv, ThreadInv
      <4>3. pc' # pc => stage = "ending" BY <1>6 DEF Transport
      <4> QED BY <4>1, <4>2, <4>3
    <3>2. CASE ~OnAccept
      BY <1>6, <3>2 DEF Transport, IoExit, OwnHandler, OnAcceptError, RunAcceptAgain, RunClose,
                OnWrote, RunBroadcast, RunWrite, main
    <3> QED BY <3>1, <3>2
  <2> QED BY <2>1, <2>2 DEF StageInv
<1>7. CASE Callbacks
  <2>1. /\ io = "run" /\ UNCHANGED <<pc, running, starts, io, stage>>
    <3> DEFINE Steady == io = "run" /\ UNCHANGED <<pc, running, starts, io>>
    <3>1. \A i \in Ids : \A posts :
            OnLine(i, posts) \/ OnReadError(i, posts) \/ OnWriteError(i, posts) => Steady
      BY DEF OnLine, OnReadError, OnWriteError, Running, main
    <3>2. PICK i \in Ids : \/ \E u \in Users : OnInitialConnection(i, u)
                          \/ onDisconnect(i) \/ OnNewMessage(i) \/ OnLoginOrRegister(i)
      BY <1>7 DEF Callbacks
    <3> HIDE DEF Steady
    <3>3. ASSUME NEW u \in Users, OnInitialConnection(i, u) PROVE Steady
      BY <3>1, <3>3 DEF OnInitialConnection
    <3>4. ASSUME onDisconnect(i) PROVE Steady BY <3>1, <3>4 DEF onDisconnect
    <3>5. ASSUME OnNewMessage(i) PROVE Steady BY <3>1, <3>5 DEF OnNewMessage
    <3>6. ASSUME OnLoginOrRegister(i) PROVE Steady BY <3>1, <3>6 DEF OnLoginOrRegister
    <3>7. stage' = stage BY <1>7 DEF Callbacks
    <3>8. Steady BY <3>2, <3>3, <3>4, <3>5, <3>6
    <3> QED BY <3>7, <3>8 DEF Steady
  <2> QED BY <2>1 DEF StageInv
<1>8. CASE Reactor /\ UNCHANGED <<chat, stage, torn>>
  BY <1>8 DEF Reactor, AcceptReady, ReadReady, WriteReady, main, StageInv
<1> QED BY <1>2, <1>3, <1>4, <1>5, <1>6, <1>7, <1>8 DEF ServerNext

\* The invariants of the transport, of the chat and of main() together.
LEMMA ProcessInvariant == ServerSpec => [](ServerTypes /\ StageInv)
<1>1. ServerInit => ServerTypes /\ StageInv BY InitTypes, StageInit DEF ServerInit
<1>2. ServerTypes /\ StageInv /\ [ServerNext]_processVars => (ServerTypes /\ StageInv)'
  BY TypesStep, StageStep, ServerStepIs
<1> QED BY <1>1, <1>2, PTL DEF ServerSpec

\* When the io thread does not run, no connection is open (tcp_server.h:49-54).
LEMMA ClosedWhenIdle == IInv /\ io # "run" => open = {}
<1> SUFFICES ASSUME IInv, io # "run", NEW i \in open PROVE FALSE
  OBVIOUS
<1>1. i \in Ids /\ reading = {} /\ ~Has(ready, ReadDone(i))
  BY OnlyClose DEF IInv, ThreadInv, TypeOK
<1> QED BY <1>1 DEF IInv, ReadInv, Reading

\* The database is closed only when no handler can reach it any more: after stop() returned
\* nothing is left that would run one (main.cpp:37-39, data_manager.cpp:66, 104).
THEOREM DbOutlivesHandlersHolds == ServerSpec => []DbOutlivesHandlers
<1>1. ASSUME ServerTypes, StageInv, stage = "over"
      PROVE  /\ io # "run" /\ open = {} /\ conns = {}
             /\ \A i \in Ids : ~Has(ready, ReadDone(i) \cup WroteDone(i))
  <2>1. IInv /\ pc = "idle" /\ ~running BY <1>1 DEF ServerTypes, StageInv
  <2>2. io = "none" BY <2>1 DEF IInv, ThreadInv
  <2>3. open = {} /\ conns = {} BY <1>1, <2>1, <2>2, ClosedWhenIdle DEF StageInv
  <2>4. \A k \in 1..Len(ready) : ready[k] = CloseTask BY <2>1, <2>2 DEF IInv, ThreadInv
  <2>5. \A i \in Ids : CloseTask \notin ReadDone(i) \cup WroteDone(i) BY ReadChain, WriteChainOf
  <2>6. \A i \in Ids : ~Has(ready, ReadDone(i) \cup WroteDone(i)) BY <2>4, <2>5 DEF Has
  <2> QED BY <2>2, <2>3, <2>6
<1>2. ServerTypes /\ StageInv => DbOutlivesHandlers BY <1>1 DEF DbOutlivesHandlers
<1> QED BY <1>2, ProcessInvariant, PTL

\* In the process too, what stop() destroys after the join is not in use
\* (main.cpp:43-44, tcp_server.h:51-54).
THEOREM ServerQuietAfterExit == ServerSpec => []QuietAfterExit
<1>1. ServerTypes => QuietAfterExit BY ExitedIsQuiet DEF ServerTypes
<1> QED BY <1>1, ProcessInvariant, PTL

\* main() starts the server once (main.cpp:39-41), and so a user is shown online while its
\* connections are there, and offline when all were lost (data_manager.cpp:57, 113-125).
THEOREM ServerPresence == ServerSpec => []PresenceOfUser
<1>1. StageInv => starts <= 1 BY DEF StageInv
<1> QED BY <1>1, PresenceOfUserHolds, ServerIsChat, ProcessInvariant, PTL

(***************************************************************************)
(* What may be in a stream.                                                *)
(***************************************************************************)
SaidTexts       == {m \in Texts : m.n <= said}
ColoredStatuses == {m \in Statuses : m.user # NoName =>
                        m.user \in DOMAIN users /\ m.color = users[m.user].color}
Sound           == SaidTexts \cup ColoredStatuses

LinesInv == (\A i \in Ids : Stream(i) \in Seq(Sound)) /\ db \in Seq(SaidTexts)

\* A stream is a sequence of lines after a step, too.
LEMMA StreamTypeAfter ==
    ASSUME ServerTypes', NEW i \in Ids
    PROVE  Stream(i)' \in Seq(Msgs)
<1>1. sent'[i] \in Seq(Msgs) /\ outbox'[i] \in Seq(Msgs) /\ ready' \in Seq(Handlers)
  BY DEF ServerTypes, IInv, TypeOK
<1> DEFINE a == sent'[i]
           b == outbox'[i]
           c == Coming(ready', i)
<1>2. a \in Seq(Msgs) /\ b \in Seq(Msgs) BY <1>1
<1>3. c \in Seq(Msgs) BY <1>1, ComingFacts
<1>4. Stream(i)' = (a \o b) \o c BY StreamAfter
<1> HIDE DEF a, b, c
<1>5. a \o b \in Seq(Msgs) BY <1>2, ConcatProperties
<1>6. (a \o b) \o c \in Seq(Msgs) BY <1>3, <1>5, ConcatProperties
<1> QED BY <1>4, <1>6

\* A quiet step puts nothing new into a stream.
LEMMA QuietStream ==
    ASSUME ServerTypes', Quiet, NEW i \in Ids, NEW G, Stream(i) \in Seq(G)
    PROVE  Stream(i)' \in Seq(G)
<1>1. \/ Stream(i)' = Stream(i) \/ Within(Stream(i)', Stream(i)) \/ Stream(i)' = <<>>
  BY DEF Quiet, StreamKeeps
<1>2. Stream(i)' \in Seq(Msgs) BY StreamTypeAfter
<1>3. CASE Within(Stream(i)', Stream(i))
  <2> DEFINE s == Stream(i)
             t == Stream(i)'
  <2>1. s \in Seq(G) /\ t \in Seq(Msgs) /\ Within(t, s) BY <1>2, <1>3
  <2> HIDE DEF s, t
  <2>2. t \in Seq(G) BY <2>1, WithinType
  <2> QED BY <2>2 DEF t
<1>4. <<>> \in Seq(G) OBVIOUS
<1> QED BY <1>1, <1>3, <1>4

\* A stream with more lines at its end.
LEMMA StreamGrows ==
    ASSUME NEW G, NEW H, G \subseteq H, NEW s \in Seq(G), NEW p \in Seq(H)
    PROVE  s \o p \in Seq(H)
<1>1. s \in Seq(H) BY SeqMonotonic
<1> QED BY <1>1, ConcatProperties

\* What an introduction adds to a stream is made of what is told of users, and of history.
LEMMA IntroLines ==
    ASSUME NEW i, NEW u, NEW c, NEW n, Introduces(i, u, c, n), NEW j \in Ids, NEW G, NEW H,
           G \subseteq H, Stream(j) \in Seq(G),
           SubSeq(db, 1, n) \in Seq(H), KnownStatuses(users') \in Seq(H), UserStatus(users', u) \in H
    PROVE  Stream(j)' \in Seq(H)
<1> DEFINE news  == UserStatus(users', u)
           rows  == SubSeq(db, 1, n)
           known == KnownStatuses(users')
           one   == <<news>>
           s     == Stream(j)
<1>1. Stream(j)' = s \o (IF j = i THEN (rows \o known) \o one ELSE one)
  BY DEF Introduces
<1>2. rows \in Seq(H) /\ known \in Seq(H) /\ one \in Seq(H) /\ s \in Seq(G) OBVIOUS
<1> HIDE DEF rows, known, one, s
<1>3. rows \o known \in Seq(H) BY <1>2, ConcatProperties
<1>4. (rows \o known) \o one \in Seq(H) BY <1>2, <1>3, ConcatProperties
<1>5. s \o one \in Seq(H) /\ s \o ((rows \o known) \o one) \in Seq(H)
  BY <1>2, <1>4, StreamGrows
<1> QED BY <1>1, <1>5

\* At the beginning nothing is on its way.
LEMMA LinesInit == ChatInit => LinesInv
<1> SUFFICES ASSUME ChatInit PROVE LinesInv
  OBVIOUS
<1>1. ServerTypes BY InitTypes
<1>2. ASSUME NEW i \in Ids PROVE Stream(i) \in Seq(Sound)
  <2>1. sent[i] = <<>> /\ outbox[i] = <<>> /\ ready = <<>> BY DEF ChatInit, Init, NoLines
  <2>2. Coming(<<>>, i) = <<>>
    <3>1. <<>> \in Seq(Handlers) OBVIOUS
    <3> QED BY <3>1, ComingFacts
  <2>3. TypeOK BY <1>1 DEF ServerTypes, IInv
  <2>4. Stream(i) = (<<>> \o <<>>) \o <<>> BY <2>1, <2>2, <2>3, StreamType
  <2>5. Stream(i) = <<>> BY <2>4
  <2> QED BY <2>5
<1>3. db \in Seq(SaidTexts)
  <2>1. PICK old \in 0..MaxOld : db = [n \in 1..old |-> Text(n, NoName)] /\ said = old
    BY DEF ChatInit
  <2>2. old \in Nat /\ MaxOld \in Nat /\ MaxLines \in Nat BY OldAssumption, BoundsAssumption
  <2>3. \A n \in 1..old : Text(n, NoName) \in Texts /\ Text(n, NoName).n = n
    BY <2>2 DEF Text, Texts
  <2>4. \A n \in 1..old : Text(n, NoName) \in SaidTexts BY <2>1, <2>2, <2>3 DEF SaidTexts
  <2> DEFINE g == [n \in 1..old |-> Text(n, NoName)]
  <2>5. g \in [1..old -> SaidTexts] /\ db = g BY <2>1, <2>4
  <2> HIDE DEF g
  <2> QED BY <2>2, <2>5, SMT
<1> QED BY <1>2, <1>3 DEF LinesInv

\* Every line on its way is sound: a status has the colour that its user has, and keeps.
LEMMA LinesStep == ServerTypes /\ LinesInv /\ [ChatNext]_chatVars => LinesInv'
<1> SUFFICES ASSUME ServerTypes, LinesInv, [ChatNext]_chatVars PROVE LinesInv'
  OBVIOUS
<1>1. ServerTypes' BY TypesStep
<1>2. IsMap(users) /\ said \in Nat /\ db \in Seq(SaidTexts) /\ \A i \in Ids : Stream(i) \in Seq(Sound)
  BY DEF ServerTypes, ChatTypeOK, IsMap, LinesInv
<1>3. CASE Quiet
  <2>1. UNCHANGED <<users, said, db>> BY <1>3 DEF Quiet
  <2>2. Sound' = Sound /\ SaidTexts' = SaidTexts BY <2>1 DEF Sound, SaidTexts, ColoredStatuses
  <2>3. \A i \in Ids : Stream(i)' \in Seq(Sound) BY <1>1, <1>2, <1>3, QuietStream
  <2> QED BY <1>2, <2>1, <2>2, <2>3 DEF LinesInv
<1>4. ASSUME NEW i \in Ids, NEW u \in Users, OnInitialConnection(i, u) PROVE LinesInv'
  <2>1. PICK c \in ColorsFor(users, u), n \in 0..Len(db), posts \in Seq(Tasks) :
          Introduces(i, u, c, n) /\ OnLine(i, posts)
    BY <1>4, IntroStep
  <2>2. users' = WithOnline(users, u, c) /\ UNCHANGED <<db, said>> BY <2>1 DEF Introduces
  <2>3. /\ IsMap(users') /\ u \in DOMAIN users' /\ DOMAIN users \subseteq DOMAIN users'
        /\ \A v \in DOMAIN users : users'[v].color = users[v].color
    <3>1. CameOnline(users, u, c, users') BY <1>2, <2>2, UsersOnline
    <3> QED BY <3>1 DEF CameOnline
  <2>4. SaidTexts' = SaidTexts BY <2>2 DEF SaidTexts
  <2>5. Sound \subseteq Sound' BY <2>3, <2>4 DEF Sound, ColoredStatuses
  <2>6. \A v \in DOMAIN users' : UserStatus(users', v) \in Sound'
    <3>1. \A v \in DOMAIN users' : UserStatus(users', v) \in Statuses BY <2>3, StatusTypes
    <3>2. \A v \in DOMAIN users' : UserStatus(users', v) \in ColoredStatuses'
      BY <3>1, StatusParts DEF ColoredStatuses
    <3> QED BY <3>2 DEF Sound
  <2>7. KnownStatuses(users') \in Seq(Sound')
    <3> DEFINE known == KnownStatuses(users')
    <3>1. known \in Seq(Statuses) /\ \A k \in 1..Len(known) : \E v \in DOMAIN users' : known[k] = UserStatus(users', v)
      BY <2>3, StatusTypes
    <3> HIDE DEF known
    <3>2. \A k \in 1..Len(known) : known[k] \in Sound' BY <2>6, <3>1
    <3>3. known \in Seq(Sound') BY <3>1, <3>2, SeqIn
    <3> QED BY <3>3 DEF known
  <2>8. SubSeq(db, 1, n) \in Seq(Sound')
    <3>1. SubSeq(db, 1, n) \in Seq(SaidTexts) BY <1>2, FirstPart
    <3>2. SaidTexts \subseteq Sound' BY <2>4 DEF Sound
    <3> QED BY <3>1, <3>2, SeqMonotonic
  <2>9. UserStatus(users', u) \in Sound' BY <2>3, <2>6
  <2>10. ASSUME NEW j \in Ids PROVE Stream(j)' \in Seq(Sound')
    <3>1. Stream(j) \in Seq(Sound) /\ Introduces(i, u, c, n) BY <1>2, <2>1
    <3> QED BY <2>5, <2>7, <2>8, <2>9, <3>1, IntroLines
  <2> QED BY <1>2, <2>2, <2>4, <2>10 DEF LinesInv
<1>5. ASSUME NEW i \in Ids, OnNewMessage(i) PROVE LinesInv'
  <2> DEFINE m == Text(said + 1, names[i])
             one == <<m>>
  <2>1. m \in Texts /\ \A j \in Ids : Stream(j)' = Stream(j) \o one BY <1>5, TextStep
  <2>2. said' = said + 1 /\ users' = users /\ (db' = db \/ db' = Append(db, m))
    BY <1>5 DEF OnNewMessage, addMessageEntry
  <2>3. SaidTexts \subseteq SaidTexts' /\ Sound \subseteq Sound'
    <3>1. \A x \in Texts : x.n \in Nat BY DEF Texts
    <3>2. SaidTexts \subseteq SaidTexts' BY <1>2, <2>2, <3>1 DEF SaidTexts
    <3> QED BY <2>2, <3>2 DEF Sound, ColoredStatuses
  <2>4. m \in SaidTexts'
    <3>1. m.n = said + 1 BY DEF Text
    <3> QED BY <1>2, <2>1, <2>2, <3>1 DEF SaidTexts
  <2> HIDE DEF m
  <2>5. one \in Seq(Sound') BY <2>4 DEF Sound
  <2>6. db' \in Seq(SaidTexts')
    <3>1. db \in Seq(SaidTexts') BY <1>2, <2>3, SeqMonotonic
    <3>2. Append(db, m) \in Seq(SaidTexts') BY <2>4, <3>1, AppendProperties
    <3> QED BY <2>2, <3>1, <3>2
  <2> HIDE DEF one
  <2>7. ASSUME NEW j \in Ids PROVE Stream(j)' \in Seq(Sound')
    <3> DEFINE s == Stream(j)
    <3>1. s \in Seq(Sound) /\ Stream(j)' = s \o one BY <1>2, <2>1
    <3> HIDE DEF s
    <3>2. s \o one \in Seq(Sound') BY <2>3, <2>5, <3>1, StreamGrows
    <3> QED BY <3>1, <3>2
  <2> QED BY <2>6, <2>7 DEF LinesInv
<1>6. ASSUME NEW i \in Ids, onDisconnect(i) PROVE LinesInv'
  <2> DEFINE u == names[i]
             m == OfflineStatus(users, u)
             one == <<m>>
  <2>1. /\ \A j \in Ids : Stream(j)' = Stream(j) \o one
        /\ m \in Statuses /\ u \in DOMAIN users \cup {NoName}
    BY <1>6, LostStep
  <2>2. users' = WithOffline(users, u) /\ UNCHANGED <<db, said>> BY <1>6 DEF onDisconnect
  <2> HIDE DEF u
  <2>3. /\ DOMAIN users' = DOMAIN users
        /\ \A v \in DOMAIN users : users'[v].color = users[v].color
    <3>1. /\ DOMAIN WithOffline(users, u) = DOMAIN users
          /\ \A v \in DOMAIN users : WithOffline(users, u)[v].color = users[v].color
      BY <1>2, <2>1, UsersOffline
    <3> QED BY <2>2, <3>1
  <2>4. SaidTexts' = SaidTexts /\ Sound \subseteq Sound'
    BY <2>2, <2>3 DEF Sound, SaidTexts, ColoredStatuses
  <2>5. m \in Sound'
    <3>1. m.user = u BY StatusParts
    <3>2. u # NoName => m.color = users'[u].color /\ u \in DOMAIN users'
      <4>1. u # NoName => u \in DOMAIN users BY <2>1
      <4>2. u # NoName => m.color = users[u].color BY DEF OfflineStatus, Status
      <4> QED BY <2>3, <4>1, <4>2
    <3> HIDE DEF m
    <3>3. m \in ColoredStatuses' BY <2>1, <3>1, <3>2 DEF ColoredStatuses
    <3> QED BY <3>3 DEF Sound
  <2> HIDE DEF m
  <2>6. one \in Seq(Sound') BY <2>5
  <2> HIDE DEF one
  <2>7. ASSUME NEW j \in Ids PROVE Stream(j)' \in Seq(Sound')
    <3> DEFINE s == Stream(j)
    <3>1. s \in Seq(Sound) /\ Stream(j)' = s \o one BY <1>2, <2>1
    <3> HIDE DEF s
    <3>2. s \o one \in Seq(Sound') BY <2>4, <2>6, <3>1, StreamGrows
    <3> QED BY <3>1, <3>2
  <2> QED BY <1>2, <2>2, <2>4, <2>7 DEF LinesInv
<1> QED BY <1>3, <1>4, <1>5, <1>6, QuietSteps

\* The types and the lines hold in every reachable state.
LEMMA LinesInvariant == ChatSpec => [](ServerTypes /\ LinesInv)
<1>1. ChatInit => ServerTypes /\ LinesInv BY InitTypes, LinesInit
<1>2. ServerTypes /\ LinesInv /\ [ChatNext]_chatVars => (ServerTypes /\ LinesInv)'
  BY TypesStep, LinesStep
<1> QED BY <1>1, <1>2, PTL DEF ChatSpec

\* A user has one colour, on all connections and for ever (data_manager.cpp:52-56).
THEOREM OneColorHolds == ChatSpec => []OneColor
<1>1. ASSUME ServerTypes, LinesInv, NEW i \in Ids, NEW k \in DOMAIN Stream(i),
             Stream(i)[k].type = "status", Stream(i)[k].user # NoName
      PROVE  /\ Stream(i)[k].user \in DOMAIN users
             /\ Stream(i)[k].color = users[Stream(i)[k].user].color
  <2> DEFINE s == Stream(i)
  <2>1. s \in Seq(Sound) BY <1>1 DEF LinesInv
  <2>2. k \in 1..Len(s) BY <1>1, <2>1, LenProperties
  <2>3. s[k] \in Sound /\ s[k].type = "status" BY <1>1, <2>1, <2>2, ElementOfSeq
  <2>4. s[k] \notin Texts BY <2>3 DEF Texts
  <2>5. s[k] \in ColoredStatuses BY <2>3, <2>4 DEF Sound, SaidTexts
  <2> QED BY <1>1, <2>5 DEF ColoredStatuses
<1>2. ServerTypes /\ LinesInv => OneColor BY <1>1 DEF OneColor
<1> QED BY <1>2, LinesInvariant, PTL

(***************************************************************************)
(* Nobody is told to be offline for no reason.                             *)
(***************************************************************************)
ReasonedLines ==
    {m \in Texts \cup Statuses : m.type = "status" /\ ~m.online =>
        \E j \in Ids : /\ disconnects[j] > 0
                       /\ names[j] = m.user \/ (m.user = NoName /\ j \in late)}

ReasonInv == starts <= 1 => \A i \in Ids : Stream(i) \in Seq(ReasonedLines)

\* At the beginning nobody was told anything.
LEMMA ReasonInit == ChatInit => ReasonInv
<1> SUFFICES ASSUME ChatInit, NEW i \in Ids PROVE Stream(i) \in Seq(ReasonedLines)
  BY DEF ReasonInv
<1>1. sent[i] = <<>> /\ outbox[i] = <<>> /\ ready = <<>> BY DEF ChatInit, Init, NoLines
<1>2. Coming(<<>>, i) = <<>>
  <2>1. <<>> \in Seq(Handlers) OBVIOUS
  <2> QED BY <2>1, ComingFacts
<1>3. Stream(i) = (<<>> \o <<>>) \o <<>>
  <2>1. TypeOK BY InitTypes DEF ServerTypes, IInv
  <2> QED BY <1>1, <1>2, <2>1, StreamType
<1>4. Stream(i) = <<>> BY <1>3
<1> QED BY <1>4

\* Every status that says offline has a reason when it is posted, and keeps it.
LEMMA ReasonStep ==
    ServerTypes /\ StartInv /\ PresenceInv /\ ReasonInv /\ [ChatNext]_chatVars => ReasonInv'
<1> SUFFICES ASSUME ServerTypes, StartInv, PresenceInv, ReasonInv, [ChatNext]_chatVars, starts' <= 1
             PROVE  \A i \in Ids : Stream(i)' \in Seq(ReasonedLines')
  BY DEF ReasonInv
<1>1. ServerTypes' /\ IInv BY TypesStep DEF ServerTypes
<1>2. /\ IsMap(users) /\ names \in [Ids -> Users \cup {NoName}] /\ db \in Seq(Texts)
      /\ disconnects \in [Ids -> Nat] /\ starts \in Nat
  <2>1. IsMap(users) /\ names \in [Ids -> Users \cup {NoName}] /\ db \in Seq(Texts)
    BY DEF ServerTypes, ChatTypeOK, IsMap
  <2>2. disconnects \in [Ids -> Nat] /\ starts \in Nat BY <1>1, BoundsAssumption DEF IInv, TypeOK
  <2> QED BY <2>1, <2>2
<1>3. starts <= 1 => \A i \in Ids : Stream(i) \in Seq(ReasonedLines) BY DEF ReasonInv
<1>4. \A m \in Texts : m \in ReasonedLines' BY DEF ReasonedLines, Texts
<1>5. CASE Quiet
  <2>1. starts <= 1 BY <1>2, <1>5 DEF Quiet
  <2>2. CASE UNCHANGED disconnects
    <3>1. ReasonedLines' = ReasonedLines BY <1>5, <2>2 DEF Quiet, ReasonedLines
    <3>2. \A i \in Ids : Stream(i)' \in Seq(ReasonedLines) BY <1>1, <1>3, <1>5, <2>1, QuietStream
    <3> QED BY <3>1, <3>2
  <2>3. CASE \A i \in Ids : i \notin open' /\ Stream(i)' = <<>>
    <3>1. <<>> \in Seq(ReasonedLines') OBVIOUS
    <3> QED BY <2>3, <3>1
  <2> QED BY <1>5, <2>2, <2>3 DEF Quiet
<1>6. ASSUME NEW i \in Ids, NEW u \in Users, OnInitialConnection(i, u), NEW j \in Ids
      PROVE  Stream(j)' \in Seq(ReasonedLines')
  <2>1. PICK c \in ColorsFor(users, u), n \in 0..Len(db), posts \in Seq(Tasks) :
          Introduces(i, u, c, n) /\ OnLine(i, posts)
    BY <1>6, IntroStep
  <2>2. users' = WithOnline(users, u, c) BY <2>1 DEF Introduces
  <2>3. names' = [names EXCEPT ![i] = u] /\ names[i] = NoName BY <1>6 DEF OnInitialConnection
  <2>4. io = "run" /\ UNCHANGED <<starts, disconnects>> BY <1>1, <2>1, CallbackFrame
  <2>5. /\ IsMap(users') /\ u \in DOMAIN users' /\ users'[u].online
        /\ \A v \in DOMAIN users' : v # u => v \in DOMAIN users /\ users'[v] = users[v]
    <3>1. CameOnline(users, u, c, users') BY <1>2, <2>2, UsersOnline
    <3> QED BY <3>1 DEF CameOnline
  <2>6. ReasonedLines \subseteq ReasonedLines'
    <3>1. late \subseteq late' /\ (i \in late' \/ disconnects[i] = 0)
      <4>1. late' = IF i \in conns THEN late ELSE late \cup {i} BY <1>6 DEF OnInitialConnection
      <4>2. i \in conns => disconnects[i] = 0 BY <1>1 DEF IInv, ReadInv
      <4> QED BY <4>1, <4>2
    <3>2. \A k \in Ids : disconnects[k] > 0 /\ k # i => names'[k] = names[k] BY <1>2, <2>3
    <3>3. ASSUME NEW k \in Ids, NEW v, disconnects[k] > 0,
                 names[k] = v \/ (v = NoName /\ k \in late)
          PROVE  disconnects'[k] > 0 /\ (names'[k] = v \/ (v = NoName /\ k \in late'))
      <4>1. CASE k = i BY <1>2, <2>3, <2>4, <3>1, <3>3, <4>1
      <4>2. CASE k # i BY <2>4, <3>1, <3>2, <3>3, <4>2
      <4> QED BY <4>1, <4>2
    <3>4. \A m \in Texts : m.type # "status" BY DEF Texts
    <3> QED BY <3>3, <3>4 DEF ReasonedLines
  <2>7. ASSUME NEW v \in DOMAIN users' PROVE UserStatus(users', v) \in ReasonedLines'
    <3>1. UserStatus(users', v) \in Statuses BY <2>5, StatusTypes
    <3>2. ASSUME ~users'[v].online
          PROVE  \E k \in Ids : disconnects'[k] > 0 /\ names'[k] = v
      <4>1. v # u /\ v \in DOMAIN users /\ ~users[v].online BY <2>5, <3>2
      <4>2. ~(\A k \in {l \in Ids : names[l] = v} : disconnects[k] = 0)
        BY <2>4, <4>1 DEF PresenceInv, PresenceOfUser
      <4>3. PICK k \in Ids : names[k] = v /\ disconnects[k] # 0 BY <4>2
      <4>4. v \in Users /\ v # NoName BY <1>2, <4>1, NamesAssumption DEF IsMap
      <4>5. names'[k] = v BY <1>2, <2>3, <4>3, <4>4
      <4>6. disconnects'[k] > 0 BY <1>2, <2>4, <4>3
      <4> QED BY <4>5, <4>6
    <3>3. UserStatus(users', v).user = v /\ UserStatus(users', v).online = users'[v].online
      BY StatusParts
    <3> QED BY <3>1, <3>2, <3>3 DEF ReasonedLines
  <2>8. KnownStatuses(users') \in Seq(ReasonedLines')
    <3> DEFINE known == KnownStatuses(users')
    <3>1. known \in Seq(Statuses) /\ \A k \in 1..Len(known) : \E v \in DOMAIN users' : known[k] = UserStatus(users', v)
      BY <2>5, StatusTypes
    <3> HIDE DEF known
    <3>2. \A k \in 1..Len(known) : known[k] \in ReasonedLines' BY <2>7, <3>1
    <3>3. known \in Seq(ReasonedLines') BY <3>1, <3>2, SeqIn
    <3> QED BY <3>3 DEF known
  <2>9. SubSeq(db, 1, n) \in Seq(ReasonedLines')
    <3>1. SubSeq(db, 1, n) \in Seq(Texts) BY <1>2, FirstPart
    <3>2. Texts \subseteq ReasonedLines' BY <1>4
    <3> QED BY <3>1, <3>2, SeqMonotonic
  <2>10. UserStatus(users', u) \in ReasonedLines' BY <2>5, <2>7
  <2>11. Stream(j) \in Seq(ReasonedLines) /\ Introduces(i, u, c, n) BY <1>3, <2>1, <2>4
  <2> QED BY <2>6, <2>8, <2>9, <2>10, <2>11, IntroLines
<1>7. ASSUME NEW i \in Ids, OnNewMessage(i), NEW j \in Ids PROVE Stream(j)' \in Seq(ReasonedLines')
  <2> DEFINE m == Text(said + 1, names[i])
             one == <<m>>
             s == Stream(j)
  <2>1. m \in Texts /\ Stream(j)' = s \o one BY <1>7, TextStep
  <2>2. PICK posts \in Seq(Tasks) : OnLine(i, posts) BY <1>7, TextStep
  <2>3. UNCHANGED <<starts, disconnects>> BY <1>1, <2>2, CallbackFrame
  <2>4. ReasonedLines' = ReasonedLines BY <1>7, <2>3 DEF OnNewMessage, ReasonedLines
  <2>5. s \in Seq(ReasonedLines) BY <1>3, <2>3
  <2> HIDE DEF m, s
  <2>6. one \in Seq(ReasonedLines') BY <1>4, <2>1
  <2> HIDE DEF one
  <2>7. s \o one \in Seq(ReasonedLines') BY <2>4, <2>5, <2>6, StreamGrows
  <2> QED BY <2>1, <2>7 DEF s
<1>8. ASSUME NEW i \in Ids, onDisconnect(i), NEW j \in Ids PROVE Stream(j)' \in Seq(ReasonedLines')
  <2> DEFINE u == names[i]
             m == OfflineStatus(users, u)
             one == <<m>>
             s == Stream(j)
  <2>1. Stream(j)' = s \o one /\ m \in Statuses BY <1>8, LostStep
  <2>2. PICK posts \in Seq(Tasks) : OnReadError(i, posts) \/ OnWriteError(i, posts) BY <1>8, LostStep
  <2>3. UNCHANGED starts BY <1>1, <2>2, CallbackFrame
  <2>4. disconnects' = [disconnects EXCEPT ![i] = @ + 1] BY <1>8, LostStep
  <2>5. names' = names /\ late' = late BY <1>8 DEF onDisconnect
  <2>6. \A k \in Ids : disconnects[k] > 0 => disconnects'[k] > 0 BY <1>2, <2>4
  <2>7. ReasonedLines \subseteq ReasonedLines' BY <2>5, <2>6 DEF ReasonedLines
  <2>8. m \in ReasonedLines'
    <3>1. m.user = u /\ names'[i] = u BY <2>5, StatusParts
    <3>2. disconnects'[i] > 0 BY <1>2, <2>4
    <3> HIDE DEF m, u
    <3> QED BY <2>1, <3>1, <3>2 DEF ReasonedLines
  <2>9. s \in Seq(ReasonedLines) BY <1>3, <2>3
  <2> HIDE DEF m, s
  <2>10. one \in Seq(ReasonedLines') BY <2>8
  <2> HIDE DEF one
  <2>11. s \o one \in Seq(ReasonedLines') BY <2>7, <2>9, <2>10, StreamGrows
  <2> QED BY <2>1, <2>11 DEF s
<1> QED BY <1>5, <1>6, <1>7, <1>8, QuietSteps

\* An offline status has behind it a lost connection of the user it names, and one without a
\* name a connection that had not introduced itself (data_manager.cpp:115-131).
THEOREM OfflineHasReasonHolds == ChatSpec => [](starts <= 1 => OfflineHasReason)
<1> DEFINE J == ServerTypes /\ StartInv /\ PresenceInv /\ ReasonInv
<1>1. ChatInit => J BY InitTypes, StartInvInit, ReasonInit
<1>2. J /\ [ChatNext]_chatVars => J' BY TypesStep, StartInvStep, PresenceStep, ReasonStep
<1>3. ASSUME ReasonInv, starts <= 1, NEW i \in Ids, NEW k \in DOMAIN Stream(i),
             Stream(i)[k].type = "status", ~Stream(i)[k].online
      PROVE  \E j \in Ids : /\ disconnects[j] > 0
                             /\ \/ names[j] = Stream(i)[k].user
                                \/ Stream(i)[k].user = NoName /\ j \in late
  <2> DEFINE s == Stream(i)
  <2>1. s \in Seq(ReasonedLines) BY <1>3 DEF ReasonInv
  <2>2. k \in 1..Len(s) BY <1>3, <2>1, LenProperties
  <2>3. s[k] \in ReasonedLines BY <2>1, <2>2, ElementOfSeq
  <2> QED BY <1>3, <2>3 DEF ReasonedLines
<1>4. J => (starts <= 1 => OfflineHasReason) BY <1>3 DEF OfflineHasReason
<1> HIDE DEF J
<1> QED BY <1>1, <1>2, <1>4, PTL DEF ChatSpec

\* ... and so it is in the process, which starts the server once (main.cpp:39-41).
THEOREM ServerOfflineHasReason == ServerSpec => []OfflineHasReason
<1>1. StageInv => starts <= 1 BY DEF StageInv
<1> QED BY <1>1, OfflineHasReasonHolds, ServerIsChat, ProcessInvariant, PTL

(***************************************************************************)
(* No text more than twice: the texts of a stream are two runs in which    *)
(* the numbers grow, and only one before the connection has a name.        *)
(***************************************************************************)
IsText(m) == m.type = "text"

\* The first run of the texts of s are those at the places A.
TwoRuns(s, A) ==
    /\ A \subseteq 1..Len(s) /\ \A k \in A, j \in 1..Len(s) : j < k => j \in A
    /\ \A j, k \in 1..Len(s) :
          j < k /\ IsText(s[j]) /\ IsText(s[k]) /\ (j \in A <=> k \in A) => s[j].n < s[k].n

RunsInv ==
    /\ \A i \in Ids : \E A : TwoRuns(Stream(i), A) /\ (names[i] = NoName => A = {})
    /\ \A j, k \in 1..Len(db) : j < k => db[j].n < db[k].n

\* A part of a stream has two runs as the stream has.
LEMMA TwoRunsWithin ==
    ASSUME NEW s, NEW t, Len(s) \in Nat, Len(t) \in Nat, Within(t, s), NEW A, TwoRuns(s, A)
    PROVE  \E B : TwoRuns(t, B) /\ (A = {} => B = {})
<1>1. PICK f \in [1..Len(t) -> Nat] : Embeds(f, t, s) BY DEF Within
<1>2. /\ \A k \in 1..Len(t) : f[k] \in 1..Len(s) /\ t[k] = s[f[k]]
      /\ \A j, k \in 1..Len(t) : j < k => f[j] < f[k]
  BY <1>1 DEF Embeds
<1> DEFINE B == {k \in 1..Len(t) : f[k] \in A}
<1>3. ASSUME NEW k \in B, NEW j \in 1..Len(t), j < k PROVE j \in B
  <2>1. f[j] < f[k] /\ f[k] \in A /\ f[j] \in 1..Len(s) BY <1>2, <1>3
  <2>2. f[j] \in A BY <2>1 DEF TwoRuns
  <2> QED BY <2>2
<1>4. ASSUME NEW j \in 1..Len(t), NEW k \in 1..Len(t), j < k, IsText(t[j]), IsText(t[k]),
             j \in B <=> k \in B
      PROVE  t[j].n < t[k].n
  <2>1. f[j] < f[k] /\ f[j] \in 1..Len(s) /\ f[k] \in 1..Len(s) /\ t[j] = s[f[j]] /\ t[k] = s[f[k]]
    BY <1>2, <1>4
  <2>2. f[j] \in A <=> f[k] \in A BY <1>4
  <2> QED BY <1>4, <2>1, <2>2 DEF TwoRuns
<1>5. TwoRuns(t, B) BY <1>3, <1>4 DEF TwoRuns
<1>6. A = {} => B = {} OBVIOUS
<1> QED BY <1>5, <1>6

\* More lines at the end, whose texts come after all those before.
LEMMA TwoRunsMore ==
    ASSUME NEW S, NEW s \in Seq(S), NEW p \in Seq(S), NEW A, TwoRuns(s, A),
           \A j \in 1..Len(s), k \in 1..Len(p) : IsText(s[j]) /\ IsText(p[k]) => s[j].n < p[k].n,
           \A j, k \in 1..Len(p) : j < k /\ IsText(p[j]) /\ IsText(p[k]) => p[j].n < p[k].n
    PROVE  TwoRuns(s \o p, A)
<1> DEFINE t == s \o p
<1>1. Len(s) \in Nat /\ Len(p) \in Nat BY LenProperties
<1>2. /\ Len(t) = Len(s) + Len(p)
      /\ \A k \in 1..(Len(s) + Len(p)) : t[k] = IF k <= Len(s) THEN s[k] ELSE p[k - Len(s)]
  BY ConcatProperties
<1> HIDE DEF t
<1>3. \A k \in 1..Len(s) : t[k] = s[k] /\ k \in 1..Len(t)
  BY <1>1, <1>2
<1>4. \A k \in 1..Len(t) : k \notin 1..Len(s) => k - Len(s) \in 1..Len(p) /\ t[k] = p[k - Len(s)]
  BY <1>1, <1>2
<1>5. A \subseteq 1..Len(t) /\ \A k \in A, j \in 1..Len(t) : j < k => j \in A
  <2>1. A \subseteq 1..Len(s) /\ \A k \in A, j \in 1..Len(s) : j < k => j \in A BY DEF TwoRuns
  <2>2. ASSUME NEW k \in A, NEW j \in 1..Len(t), j < k PROVE j \in A
    <3>1. k \in 1..Len(s) BY <2>1
    <3>2. j \in 1..Len(s) BY <1>1, <2>2, <3>1
    <3> QED BY <2>1, <2>2, <3>2
  <2> QED BY <1>3, <2>1, <2>2
<1>6. ASSUME NEW j \in 1..Len(t), NEW k \in 1..Len(t), j < k, IsText(t[j]), IsText(t[k]),
             j \in A <=> k \in A
      PROVE  t[j].n < t[k].n
  <2>1. CASE k \in 1..Len(s)
    <3>1. j \in 1..Len(s) BY <1>1, <1>6, <2>1
    <3> QED BY <1>3, <1>6, <2>1, <3>1 DEF TwoRuns
  <2>2. CASE k \notin 1..Len(s) /\ j \in 1..Len(s)
    BY <1>3, <1>4, <1>6, <2>2
  <2>3. CASE k \notin 1..Len(s) /\ j \notin 1..Len(s)
    <3>1. j - Len(s) < k - Len(s) BY <1>1, <1>6
    <3> QED BY <1>4, <1>6, <2>3, <3>1
  <2> QED BY <2>1, <2>2, <2>3
<1> QED BY <1>5, <1>6 DEF TwoRuns, t

\* A history at the end of one run makes two.
LEMMA TwoRunsHistory ==
    ASSUME NEW S, NEW s \in Seq(S), NEW p \in Seq(S), TwoRuns(s, {}),
           \A j, k \in 1..Len(p) : j < k /\ IsText(p[j]) /\ IsText(p[k]) => p[j].n < p[k].n
    PROVE  TwoRuns(s \o p, 1..Len(s))
<1> DEFINE t == s \o p
<1>1. Len(s) \in Nat /\ Len(p) \in Nat BY LenProperties
<1>2. /\ Len(t) = Len(s) + Len(p)
      /\ \A k \in 1..(Len(s) + Len(p)) : t[k] = IF k <= Len(s) THEN s[k] ELSE p[k - Len(s)]
  BY ConcatProperties
<1> HIDE DEF t
<1>3. \A k \in 1..Len(s) : t[k] = s[k] /\ k \in 1..Len(t)
  BY <1>1, <1>2
<1>4. \A k \in 1..Len(t) : k \notin 1..Len(s) => k - Len(s) \in 1..Len(p) /\ t[k] = p[k - Len(s)]
  BY <1>1, <1>2
<1>5. 1..Len(s) \subseteq 1..Len(t) /\ \A k \in 1..Len(s), j \in 1..Len(t) : j < k => j \in 1..Len(s)
  BY <1>1, <1>3
<1>6. ASSUME NEW j \in 1..Len(t), NEW k \in 1..Len(t), j < k, IsText(t[j]), IsText(t[k]),
             j \in 1..Len(s) <=> k \in 1..Len(s)
      PROVE  t[j].n < t[k].n
  <2>1. CASE k \in 1..Len(s)
    BY <1>3, <1>6, <2>1 DEF TwoRuns
  <2>2. CASE k \notin 1..Len(s)
    <3>1. j - Len(s) < k - Len(s) BY <1>1, <1>6
    <3> QED BY <1>4, <1>6, <2>2, <3>1
  <2> QED BY <2>1, <2>2
<1> QED BY <1>5, <1>6 DEF TwoRuns, t

\* Two runs of texts have one descent at most, and one run has none.
LEMMA OneDescent ==
    ASSUME NEW s, Len(s) \in Nat, \A k \in 1..Len(s) : IsText(s[k]) /\ s[k].n \in Nat,
           NEW A, TwoRuns(s, A)
    PROVE  LET D == {k \in 1..(Len(s) - 1) : s[k].n >= s[k + 1].n}
           IN  Cardinality(D) <= 1 /\ (A = {} => Cardinality(D) <= 0)
<1> DEFINE D == {k \in 1..(Len(s) - 1) : s[k].n >= s[k + 1].n}
<1> SUFFICES Cardinality(D) <= 1 /\ (A = {} => Cardinality(D) <= 0)
  OBVIOUS
<1>1. ASSUME NEW k \in D PROVE k \in A /\ k + 1 \notin A
  <2>1. k \in 1..Len(s) /\ k + 1 \in 1..Len(s) /\ k < k + 1 /\ s[k].n >= s[k + 1].n BY <1>1
  <2>2. ~(s[k].n < s[k + 1].n) BY <2>1
  <2>3. ~(k \in A <=> k + 1 \in A) BY <2>1, <2>2 DEF TwoRuns
  <2>4. k + 1 \in A => k \in A BY <2>1 DEF TwoRuns
  <2> QED BY <2>3, <2>4
<1>2. ASSUME NEW j \in D, NEW k \in D PROVE ~(j < k)
  <2>1. k \in A /\ j + 1 \notin A /\ j + 1 \in 1..Len(s) /\ k \in 1..Len(s) BY <1>1, <1>2
  <2>2. j < k => j + 1 = k \/ j + 1 < k BY <2>1
  <2> QED BY <2>1, <2>2 DEF TwoRuns
<1>3. D \subseteq Nat OBVIOUS
<1>4. \A j, k \in D : j = k
  <2> HIDE DEF D
  <2> QED BY <1>2, <1>3
<1>5. A = {} => D = {} BY <1>1
<1> HIDE DEF D
<1>6. CASE D = {}
  BY <1>6, FS_EmptySet
<1>7. CASE D # {}
  <2>1. PICK k \in D : TRUE BY <1>7
  <2>2. D = {k} BY <1>4, <2>1
  <2>3. Cardinality(D) = 1 BY <2>2, FS_Singleton
  <2> QED BY <1>5, <1>7, <2>3
<1> QED BY <1>6, <1>7

\* The texts of sound lines, by their numbers.
LEMMA SoundTexts ==
    ASSUME said \in Nat
    PROVE  /\ \A m \in Sound : IsText(m) => m \in SaidTexts /\ m.n \in Nat /\ m.n <= said
           /\ \A m \in Statuses : ~IsText(m)
<1>1. \A m \in Statuses : ~IsText(m) BY DEF Statuses, IsText
<1>2. \A m \in Texts : m.n \in Nat BY DEF Texts
<1> QED BY <1>1, <1>2 DEF Sound, SaidTexts, ColoredStatuses

\* At the beginning there are no texts.
LEMMA RunsInit == ChatInit => RunsInv
<1> SUFFICES ASSUME ChatInit PROVE RunsInv
  OBVIOUS
<1>1. ASSUME NEW i \in Ids PROVE TwoRuns(Stream(i), {})
  <2>1. sent[i] = <<>> /\ outbox[i] = <<>> /\ ready = <<>> BY DEF ChatInit, Init, NoLines
  <2>2. Coming(<<>>, i) = <<>>
    <3>1. <<>> \in Seq(Handlers) OBVIOUS
    <3> QED BY <3>1, ComingFacts
  <2>3. Stream(i) = (<<>> \o <<>>) \o <<>>
    <3>1. TypeOK BY InitTypes DEF ServerTypes, IInv
    <3> QED BY <2>1, <2>2, <3>1, StreamType
  <2>4. Stream(i) = <<>> BY <2>3
  <2>5. Len(<<>>) = 0 /\ 1..0 = {} BY SMT
  <2> QED BY <2>4, <2>5 DEF TwoRuns
<1>2. \A j, k \in 1..Len(db) : j < k => db[j].n < db[k].n
  <2>1. PICK old \in 0..MaxOld : db = [n \in 1..old |-> Text(n, NoName)]
    BY DEF ChatInit
  <2>2. old \in Nat BY OldAssumption
  <2>3. Len(db) = old BY <2>1, <2>2
  <2>4. \A k \in 1..old : db[k].n = k BY <2>1 DEF Text
  <2> QED BY <2>3, <2>4
<1> QED BY <1>1, <1>2 DEF RunsInv

\* The texts of a stream stay two growing runs, the second from the history on
\* (data_manager.cpp:63-106).
LEMMA RunsStep == ServerTypes /\ LinesInv /\ RunsInv /\ [ChatNext]_chatVars => RunsInv'
<1> SUFFICES ASSUME ServerTypes, LinesInv, RunsInv, [ChatNext]_chatVars PROVE RunsInv'
  OBVIOUS
<1>1. ServerTypes' /\ IInv BY TypesStep DEF ServerTypes
<1>2. /\ IsMap(users) /\ names \in [Ids -> Users \cup {NoName}] /\ said \in Nat /\ db \in Seq(SaidTexts)
      /\ \A i \in Ids : Stream(i) \in Seq(Sound)
  BY DEF ServerTypes, ChatTypeOK, IsMap, LinesInv
<1>3. /\ \A i \in Ids : \E A : TwoRuns(Stream(i), A) /\ (names[i] = NoName => A = {})
      /\ \A j, k \in 1..Len(db) : j < k => db[j].n < db[k].n
  BY DEF RunsInv
<1>4. CASE Quiet
  <2>1. UNCHANGED <<names, db>> BY <1>4 DEF Quiet
  <2>2. ASSUME NEW i \in Ids
        PROVE  \E A : TwoRuns(Stream(i)', A) /\ (names[i] = NoName => A = {})
    <3> DEFINE s == Stream(i)
               t == Stream(i)'
    <3>1. PICK A : TwoRuns(s, A) /\ (names[i] = NoName => A = {}) BY <1>3
    <3>2. t = s \/ Within(t, s) \/ t = <<>> BY <1>4 DEF Quiet, StreamKeeps
    <3>3. t \in Seq(Msgs) /\ s \in Seq(Sound) BY <1>1, <1>2, StreamTypeAfter
    <3> HIDE DEF s, t
    <3>4. Len(t) \in Nat /\ Len(s) \in Nat BY <3>3, LenProperties
    <3>5. CASE t = s BY <3>1, <3>5 DEF t
    <3>6. CASE Within(t, s)
      <4>1. PICK B : TwoRuns(t, B) /\ (A = {} => B = {}) BY <3>1, <3>4, <3>6, TwoRunsWithin
      <4> QED BY <3>1, <4>1 DEF t
    <3>7. CASE t = <<>>
      <4>1. Len(<<>>) = 0 /\ 1..0 = {} BY SMT
      <4>2. TwoRuns(t, {}) BY <3>7, <4>1 DEF TwoRuns
      <4> QED BY <4>2 DEF t
    <3> QED BY <3>2, <3>5, <3>6, <3>7
  <2> QED BY <1>3, <2>1, <2>2 DEF RunsInv
<1>5. ASSUME NEW j \in Ids, NEW p \in Seq(Statuses), Stream(j)' = Stream(j) \o p, names[j]' = names[j]
      PROVE  \E A : TwoRuns(Stream(j)', A) /\ (names'[j] = NoName => A = {})
  <2> DEFINE s == Stream(j)
             M == Sound \cup Statuses
  <2>1. PICK A : TwoRuns(s, A) /\ (names[j] = NoName => A = {}) BY <1>3
  <2>2. s \in Seq(Sound) /\ Stream(j)' = s \o p BY <1>2, <1>5
  <2> HIDE DEF s
  <2>3. s \in Seq(M) /\ p \in Seq(M) BY <2>2, SeqMonotonic
  <2> HIDE DEF M
  <2>4. \A k \in 1..Len(p) : ~IsText(p[k])
    <3>1. \A k \in 1..Len(p) : p[k] \in Statuses BY ElementOfSeq
    <3> QED BY <1>2, <3>1, SoundTexts
  <2>5. TwoRuns(s \o p, A) BY <2>1, <2>3, <2>4, TwoRunsMore
  <2> QED BY <1>5, <2>1, <2>2, <2>5
<1>6. ASSUME NEW i \in Ids, NEW u \in Users, OnInitialConnection(i, u) PROVE RunsInv'
  <2>1. PICK c \in ColorsFor(users, u), n \in 0..Len(db), posts \in Seq(Tasks) :
          Introduces(i, u, c, n) /\ OnLine(i, posts)
    BY <1>6, IntroStep
  <2>2. users' = WithOnline(users, u, c) /\ db' = db BY <2>1 DEF Introduces
  <2>3. names' = [names EXCEPT ![i] = u] /\ names[i] = NoName BY <1>6 DEF OnInitialConnection
  <2>4. IsMap(users') /\ u \in DOMAIN users'
    <3>1. CameOnline(users, u, c, users') BY <1>2, <2>2, UsersOnline
    <3> QED BY <3>1 DEF CameOnline
  <2> DEFINE news  == UserStatus(users', u)
             known == KnownStatuses(users')
             rows  == SubSeq(db, 1, n)
             one   == <<news>>
  <2>5. known \in Seq(Statuses) /\ news \in Statuses BY <2>4, StatusTypes
  <2>6. /\ rows \in Seq(SaidTexts) /\ Len(rows) = n /\ \A k \in 1..n : rows[k] = db[k]
    BY <1>2, FirstPart
  <2>7. \A j \in Ids : Stream(j)' = Stream(j) \o (IF j = i THEN (rows \o known) \o one ELSE one)
    BY <2>1 DEF Introduces
  <2> HIDE DEF known, rows, news
  <2>8. one \in Seq(Statuses) BY <2>5
  <2> HIDE DEF one
  <2>9. ASSUME NEW j \in Ids, j # i PROVE \E A : TwoRuns(Stream(j)', A) /\ (names'[j] = NoName => A = {})
    <3>1. Stream(j)' = Stream(j) \o one /\ names[j]' = names[j] BY <1>2, <2>3, <2>7, <2>9
    <3> QED BY <1>5, <2>8, <3>1
  <2>10. \E A : TwoRuns(Stream(i)', A) /\ (names'[i] = NoName => A = {})
    <3> DEFINE s == Stream(i)
               p == known \o one
               M == Sound \cup Statuses
               A == 1..Len(s)
    <3>1. TwoRuns(s, {}) BY <1>3, <2>3
    <3>2. s \in Seq(Sound) /\ Stream(i)' = s \o ((rows \o known) \o one) BY <1>2, <2>7
    <3> HIDE DEF s
    <3>3. SaidTexts \subseteq M /\ Sound \subseteq M /\ Statuses \subseteq M BY DEF Sound
    <3> HIDE DEF M
    <3>4. s \in Seq(M) /\ rows \in Seq(M) /\ known \in Seq(M) /\ one \in Seq(M)
      BY <2>5, <2>6, <2>8, <3>2, <3>3, SeqMonotonic
    <3>5. p \in Seq(M) /\ p \in Seq(Statuses) BY <2>5, <2>8, <3>4, ConcatProperties
    <3>6. Stream(i)' = (s \o rows) \o p
      <4>1. (rows \o known) \o one = rows \o p
        <5>1. InARow(rows, known, one) BY <3>4, Associative
        <5> QED BY <5>1 DEF InARow
      <4>2. s \in Seq(M) /\ rows \in Seq(M) /\ p \in Seq(M) BY <3>4, <3>5
      <4> HIDE DEF p
      <4>3. (s \o rows) \o p = s \o (rows \o p)
        <5>1. InARow(s, rows, p) BY <4>2, Associative
        <5> QED BY <5>1 DEF InARow
      <4> QED BY <3>2, <4>1, <4>3
    <3> HIDE DEF p
    <3>7. \A j, k \in 1..Len(rows) : j < k => rows[j].n < rows[k].n
      <4>1. Len(db) \in Nat BY <1>2, LenProperties
      <4>2. \A k \in 1..n : k \in 1..Len(db) BY <4>1
      <4> QED BY <1>3, <2>6, <4>2
    <3>8. TwoRuns(s \o rows, A) BY <3>1, <3>4, <3>7, TwoRunsHistory
    <3> HIDE DEF A
    <3>9. \A k \in 1..Len(p) : ~IsText(p[k])
      <4>1. \A k \in 1..Len(p) : p[k] \in Statuses BY <3>5, ElementOfSeq
      <4> QED BY <1>2, <4>1, SoundTexts
    <3> DEFINE r == s \o rows
    <3>10. r \in Seq(M) BY <3>4, ConcatProperties
    <3>11. TwoRuns(r, A) BY <3>8
    <3> HIDE DEF r
    <3>12. TwoRuns(r \o p, A) BY <3>5, <3>9, <3>10, <3>11, TwoRunsMore
    <3>13. Stream(i)' = r \o p BY <3>6 DEF r
    <3>14. names'[i] # NoName BY <1>2, <2>3, NamesAssumption
    <3> QED BY <3>12, <3>13, <3>14
  <2>11. \A j \in Ids : \E A : TwoRuns(Stream(j)', A) /\ (names'[j] = NoName => A = {})
    BY <2>9, <2>10
  <2> QED BY <1>3, <2>2, <2>11 DEF RunsInv
<1>7. ASSUME NEW i \in Ids, OnNewMessage(i) PROVE RunsInv'
  <2> DEFINE m == Text(said + 1, names[i])
             one == <<m>>
  <2>1. m \in Texts /\ \A j \in Ids : Stream(j)' = Stream(j) \o one BY <1>7, TextStep
  <2>2. names' = names /\ (db' = db \/ db' = Append(db, m)) BY <1>7 DEF OnNewMessage, addMessageEntry
  <2>3. m.n = said + 1 BY DEF Text
  <2> HIDE DEF m
  <2>4. ASSUME NEW j \in Ids PROVE \E A : TwoRuns(Stream(j)', A) /\ (names'[j] = NoName => A = {})
    <3> DEFINE s == Stream(j)
               M == Sound \cup Texts
    <3>1. PICK A : TwoRuns(s, A) /\ (names[j] = NoName => A = {}) BY <1>3
    <3>2. s \in Seq(Sound) /\ Stream(j)' = s \o one BY <1>2, <2>1
    <3> HIDE DEF s
    <3>3. one \in Seq(Texts) /\ Len(one) = 1 /\ one[1] = m BY <2>1
    <3> HIDE DEF one
    <3>4. s \in Seq(M) /\ one \in Seq(M) BY <3>2, <3>3, SeqMonotonic
    <3> HIDE DEF M
    <3>5. \A k \in 1..Len(one) : k = 1 /\ one[k] = m BY <3>3
    <3>6. \A k \in 1..Len(s) : IsText(s[k]) => s[k].n < m.n
      <4>1. \A k \in 1..Len(s) : s[k] \in Sound BY <3>2, ElementOfSeq
      <4>2. \A k \in 1..Len(s) : IsText(s[k]) => s[k].n \in Nat /\ s[k].n <= said
        BY <1>2, <4>1, SoundTexts
      <4> QED BY <1>2, <2>3, <4>2
    <3>7. TwoRuns(s \o one, A)
      <4>1. \A l \in 1..Len(s), k \in 1..Len(one) : IsText(s[l]) /\ IsText(one[k]) => s[l].n < one[k].n
        BY <3>5, <3>6
      <4>2. \A l, k \in 1..Len(one) : l < k /\ IsText(one[l]) /\ IsText(one[k]) => one[l].n < one[k].n
        <5>1. ASSUME NEW l \in 1..Len(one), NEW k \in 1..Len(one), l < k PROVE FALSE
          <6>1. l = 1 /\ k = 1 BY <3>5
          <6> QED BY <5>1, <6>1
        <5> QED BY <5>1
      <4> QED BY <3>1, <3>4, <4>1, <4>2, TwoRunsMore
    <3> QED BY <2>2, <3>1, <3>2, <3>7
  <2>5. \A j, k \in 1..Len(db') : j < k => db'[j].n < db'[k].n
    <3>1. CASE db' = db BY <1>3, <3>1
    <3>2. CASE db' = Append(db, m)
      <4> DEFINE M == SaidTexts \cup Texts
                 d == Append(db, m)
      <4>1. db \in Seq(M) /\ m \in M /\ Len(db) \in Nat BY <1>2, <2>1, SeqMonotonic, LenProperties
      <4> HIDE DEF M
      <4>2. Len(d) = Len(db) + 1 /\ (\A k \in 1..Len(db) : d[k] = db[k]) /\ d[Len(db) + 1] = m
        BY <4>1, AppendProperties
      <4> HIDE DEF d
      <4>3. \A k \in 1..Len(db) : db[k].n < m.n
        <5>1. \A k \in 1..Len(db) : db[k] \in SaidTexts BY <1>2, ElementOfSeq
        <5>2. \A x \in SaidTexts : x.n \in Nat /\ x.n <= said BY DEF SaidTexts, Texts
        <5> QED BY <1>2, <2>3, <5>1, <5>2
      <4>4. ASSUME NEW j \in 1..Len(d), NEW k \in 1..Len(d), j < k PROVE d[j].n < d[k].n
        <5>1. j \in 1..Len(db) BY <4>1, <4>2, <4>4
        <5>2. CASE k \in 1..Len(db) BY <1>3, <4>2, <4>4, <5>1, <5>2
        <5>3. CASE k = Len(db) + 1 BY <4>2, <4>3, <5>1, <5>3
        <5> QED BY <4>1, <4>2, <5>2, <5>3
      <4> QED BY <3>2, <4>4 DEF d
    <3> QED BY <2>2, <3>1, <3>2
  <2> QED BY <2>4, <2>5 DEF RunsInv
<1>8. ASSUME NEW i \in Ids, onDisconnect(i) PROVE RunsInv'
  <2> DEFINE m == OfflineStatus(users, names[i])
             one == <<m>>
  <2>1. m \in Statuses /\ \A j \in Ids : Stream(j)' = Stream(j) \o one BY <1>8, LostStep
  <2>2. UNCHANGED <<names, db>> BY <1>8 DEF onDisconnect
  <2> HIDE DEF m
  <2>3. one \in Seq(Statuses) BY <2>1
  <2> HIDE DEF one
  <2>4. \A j \in Ids : \E A : TwoRuns(Stream(j)', A) /\ (names'[j] = NoName => A = {})
    BY <1>5, <2>1, <2>2, <2>3
  <2> QED BY <1>3, <2>2, <2>4 DEF RunsInv
<1> QED BY <1>4, <1>6, <1>7, <1>8, QuietSteps

\* The texts of sound lines.
LEMMA TextsOfSound ==
    ASSUME NEW s \in Seq(Sound)
    PROVE  /\ TextsOf(s) \in Seq(Sound \cap AnyText) /\ Within(TextsOf(s), s)
           /\ Len(TextsOf(s)) \in Nat
           /\ \A k \in 1..Len(TextsOf(s)) : IsText(TextsOf(s)[k]) /\ TextsOf(s)[k].n \in Nat
<1> DEFINE t == TextsOf(s)
<1>1. t \in Seq(Sound \cap AnyText) BY FilterType DEF TextsOf
<1>2. Within(t, s) BY FilterWithin DEF TextsOf
<1> HIDE DEF t
<1>3. Len(t) \in Nat /\ \A k \in 1..Len(t) : t[k] \in AnyText
  <2>1. \A k \in 1..Len(t) : t[k] \in Sound \cap AnyText BY <1>1, ElementOfSeq
  <2> QED BY <1>1, <2>1, LenProperties
<1>4. \A m \in AnyText : IsText(m) /\ m.n \in Nat BY DEF AnyText, IsText
<1> QED BY <1>1, <1>2, <1>3, <1>4 DEF t

\* A client sees a text twice at most, and one that was not named yet once
\* (data_manager.cpp:66-70, 105).
THEOREM SeenAtMostTwiceHolds == ChatSpec => []SeenAtMostTwice
<1> DEFINE J == ServerTypes /\ LinesInv /\ RunsInv
<1>1. ChatInit => J BY InitTypes, LinesInit, RunsInit
<1>2. J /\ [ChatNext]_chatVars => J' BY TypesStep, LinesStep, RunsStep
<1>3. ASSUME J, NEW i \in Ids
      PROVE  LET seen     == TextsOf(Stream(i))
                 descents == {k \in 1..(Len(seen) - 1) : seen[k].n >= seen[k + 1].n}
             IN  Cardinality(descents) <= IF names[i] = NoName THEN 0 ELSE 1
  <2> DEFINE s == Stream(i)
             t == TextsOf(s)
  <2>1. PICK A : TwoRuns(s, A) /\ (names[i] = NoName => A = {}) BY <1>3 DEF RunsInv
  <2>2. s \in Seq(Sound) BY <1>3 DEF LinesInv
  <2> HIDE DEF s
  <2>3. /\ Within(t, s) /\ Len(t) \in Nat /\ Len(s) \in Nat
        /\ \A k \in 1..Len(t) : IsText(t[k]) /\ t[k].n \in Nat
    BY <2>2, TextsOfSound, LenProperties
  <2> HIDE DEF t
  <2>4. PICK B : TwoRuns(t, B) /\ (A = {} => B = {}) BY <2>1, <2>3, TwoRunsWithin
  <2> DEFINE D == {k \in 1..(Len(t) - 1) : t[k].n >= t[k + 1].n}
  <2>5. Cardinality(D) <= 1 /\ (B = {} => Cardinality(D) <= 0) BY <2>3, <2>4, OneDescent
  <2> HIDE DEF D
  <2>6. Cardinality(D) <= IF names[i] = NoName THEN 0 ELSE 1 BY <2>1, <2>4, <2>5
  <2> QED BY <2>6 DEF D, t, s
<1>4. J => SeenAtMostTwice BY <1>3 DEF SeenAtMostTwice
<1> HIDE DEF J
<1> QED BY <1>1, <1>2, <1>4, PTL DEF ChatSpec

(***************************************************************************)
(* The history.                                                            *)
(***************************************************************************)
HistoryInv ==
    starts <= 1 /\ ~failed => \A i \in Registered :
        \E p \in Seq(AnyText) : TextsOf(Stream(i)) = p \o db

\* The texts of lines that are put together, and of lines that are texts or statuses only.
LEMMA LinesTexts ==
    /\ \A s, t \in Seq(Msgs) : TextsOf(s \o t) = TextsOf(s) \o TextsOf(t)
    /\ \A s \in Seq(Texts) : TextsOf(s) = s
    /\ \A s \in Seq(Statuses) : TextsOf(s) = <<>>
    /\ \A s \in Seq(Msgs) : TextsOf(s) \in Seq(AnyText)
    /\ Texts \subseteq AnyText
<1>1. Texts \subseteq AnyText
  BY OldAssumption, BoundsAssumption DEF Texts, AnyText
<1>2. Statuses \cap AnyText = {} BY DEF Statuses, AnyText
<1>3. \A s, t \in Seq(Msgs) : TextsOf(s \o t) = TextsOf(s) \o TextsOf(t) BY TextsOfFacts
<1>4. \A s \in Seq(Texts) : TextsOf(s) = s BY <1>1, TextsOfFacts
<1>5. \A s \in Seq(Statuses) : TextsOf(s) = <<>> BY <1>2, TextsOfFacts
<1>6. \A s \in Seq(Msgs) : TextsOf(s) \in Seq(AnyText) BY TextsOfFacts
<1> QED BY <1>1, <1>3, <1>4, <1>5, <1>6

\* A registered connection was registered before a quiet step, and keeps its stream.
LEMMA QuietRegistered ==
    ASSUME ServerTypes, ServerTypes', StartInv, Quiet, starts' <= 1, NEW i \in Registered'
    PROVE  i \in Registered /\ i \in Ids /\ Stream(i)' = Stream(i) /\ starts <= 1
<1>1. starts \in Nat /\ next_id \in Nat BY BoundsAssumption DEF ServerTypes, IInv, TypeOK
<1>2. starts <= 1 BY <1>1 DEF Quiet
<1>3. i \in open' /\ names[i] # NoName BY DEF Registered, Quiet
<1>4. i \in Ids BY <1>3 DEF ServerTypes, IInv, TypeOK
<1>5. ASSUME i = next_id, io = "run" PROVE FALSE
  BY <1>1, <1>2, <1>3, <1>4, <1>5 DEF StartInv
<1>6. i \in open BY <1>3, <1>5 DEF Quiet
<1> QED BY <1>2, <1>3, <1>4, <1>6 DEF Quiet, StreamKeeps, Registered

\* In the initial state no connection is registered.
LEMMA NobodyRegistered == ChatInit => Registered = {}
BY DEF ChatInit, Init, Registered

\* The table is the end of what a registered client was sent, after every step.
LEMMA HistoryStep ==
    ServerTypes /\ StartInv /\ HistoryInv /\ [ChatNext]_chatVars => HistoryInv'
<1> SUFFICES ASSUME ServerTypes, StartInv, HistoryInv, [ChatNext]_chatVars,
                    starts' <= 1, ~failed', NEW j \in Registered'
             PROVE  \E p \in Seq(AnyText) : TextsOf(Stream(j)') = p \o db'
  <2>1. \A i : TextsOf(Stream(i))' = TextsOf(Stream(i)') BY DEF TextsOf
  <2> QED BY <2>1 DEF HistoryInv
<1>1. ServerTypes' /\ IInv BY TypesStep DEF ServerTypes
<1>2. /\ IsMap(users) /\ names \in [Ids -> Users \cup {NoName}] /\ db \in Seq(Texts)
      /\ j \in Ids /\ failed \in BOOLEAN /\ \A i \in Ids : Stream(i) \in Seq(Msgs)
  <2>1. IsMap(users) /\ names \in [Ids -> Users \cup {NoName}] /\ db \in Seq(Texts) /\ failed \in BOOLEAN
    BY DEF ServerTypes, ChatTypeOK, IsMap
  <2>2. j \in Ids BY <1>1 DEF ServerTypes, IInv, TypeOK, Registered
  <2>3. \A i \in Ids : Stream(i) \in Seq(Msgs) BY <1>1, StreamType DEF IInv
  <2> QED BY <2>1, <2>2, <2>3
<1>3. db \in Seq(AnyText)
  <2>1. Texts \subseteq AnyText BY LinesTexts
  <2> QED BY <1>2, <2>1, SeqMonotonic
<1>4. starts <= 1 /\ ~failed /\ j \in Registered =>
        \E p \in Seq(AnyText) : TextsOf(Stream(j)) = p \o db
  BY DEF HistoryInv
<1>5. CASE Quiet
  <2>1. j \in Registered /\ Stream(j)' = Stream(j) /\ starts <= 1 BY <1>1, <1>5, QuietRegistered
  <2>2. ~failed /\ db' = db BY <1>5 DEF Quiet
  <2> QED BY <1>4, <2>1, <2>2
<1>6. ASSUME NEW m \in Statuses, Stream(j)' = Stream(j) \o <<m>>, j \in Registered, starts <= 1,
             ~failed, db' = db
      PROVE  \E p \in Seq(AnyText) : TextsOf(Stream(j)') = p \o db'
  <2> DEFINE s == Stream(j)
             one == <<m>>
  <2>1. PICK p \in Seq(AnyText) : TextsOf(s) = p \o db BY <1>4, <1>6
  <2>2. s \in Seq(Msgs) /\ one \in Seq(Statuses) /\ one \in Seq(Msgs) BY <1>2, <1>6, AllAreLines
  <2>3. Stream(j)' = s \o one BY <1>6
  <2> HIDE DEF s, one
  <2>4. TextsOf(s \o one) = TextsOf(s) \o TextsOf(one) /\ TextsOf(one) = <<>> /\ TextsOf(s) \in Seq(AnyText)
    BY <2>2, LinesTexts
  <2>5. TextsOf(s \o one) = TextsOf(s) BY <2>4, ConcatEmptySeq
  <2> QED BY <1>6, <2>1, <2>3, <2>5
<1>7. ASSUME NEW i \in Ids, NEW u \in Users, OnInitialConnection(i, u)
      PROVE  \E p \in Seq(AnyText) : TextsOf(Stream(j)') = p \o db'
  <2>1. PICK c \in ColorsFor(users, u), n \in 0..Len(db), posts \in Seq(Tasks) :
          Introduces(i, u, c, n) /\ OnLine(i, posts)
    BY <1>7, IntroStep
  <2>2. users' = WithOnline(users, u, c) /\ db' = db /\ failed' = (failed \/ n # Len(db))
    BY <2>1 DEF Introduces
  <2>3. ~failed /\ n = Len(db) BY <1>2, <2>2
  <2>4. names' = [names EXCEPT ![i] = u] BY <1>7 DEF OnInitialConnection
  <2>5. UNCHANGED <<starts, open>> BY <1>1, <2>1, CallbackFrame
  <2>6. IsMap(users') /\ u \in DOMAIN users'
    <3>1. CameOnline(users, u, c, users') BY <1>2, <2>2, UsersOnline
    <3> QED BY <3>1 DEF CameOnline
  <2> DEFINE news  == UserStatus(users', u)
             known == KnownStatuses(users')
             rows  == SubSeq(db, 1, n)
             one   == <<news>>
             s     == Stream(j)
  <2>7. known \in Seq(Statuses) /\ news \in Statuses BY <2>6, StatusTypes
  <2>8. Stream(j)' = s \o (IF j = i THEN (rows \o known) \o one ELSE one)
    BY <1>2, <2>1 DEF Introduces
  <2>9. CASE j # i
    <3>1. j \in Registered BY <1>2, <2>4, <2>5, <2>9 DEF Registered
    <3>2. Stream(j)' = Stream(j) \o <<news>> BY <2>8, <2>9
    <3> HIDE DEF news
    <3> QED BY <1>6, <2>2, <2>3, <2>5, <2>7, <3>1, <3>2
  <2>10. CASE j = i
    <3>1. rows = db
      <4>1. Len(db) \in Nat BY <1>2, LenProperties
      <4>2. rows \in Seq(Texts) /\ Len(rows) = Len(db) /\ \A k \in 1..Len(db) : rows[k] = db[k]
        BY <1>2, <2>3, FirstPart
      <4> HIDE DEF rows
      <4> QED BY <1>2, <4>2, SeqEqual
    <3> DEFINE q == known \o one
    <3>2. Stream(j)' = s \o ((db \o known) \o one) BY <2>8, <2>10, <3>1
    <3>3. s \in Seq(Msgs) /\ db \in Seq(Msgs) /\ known \in Seq(Msgs) /\ one \in Seq(Msgs)
          /\ one \in Seq(Statuses)
      <4> HIDE DEF known, news, s
      <4>1. s \in Seq(Msgs) BY <1>2 DEF s
      <4>2. db \in Seq(Msgs) /\ known \in Seq(Msgs) BY <1>2, <2>7, AllAreLines, SeqMonotonic
      <4>3. news \in Msgs BY <2>7, AllAreLines
      <4> QED BY <2>7, <4>1, <4>2, <4>3
    <3> HIDE DEF known, one, s, rows, news
    <3>4. q \in Seq(Statuses) /\ q \in Seq(Msgs) BY <2>7, <3>3, ConcatProperties
    <3>5. (db \o known) \o one = db \o q
      <4>1. InARow(db, known, one) BY <3>3, Associative
      <4> QED BY <4>1 DEF InARow
    <3> HIDE DEF q
    <3> DEFINE r == db \o q
    <3>6. r \in Seq(Msgs) BY <3>3, <3>4, ConcatProperties
    <3>7. TextsOf(r) = TextsOf(db) \o TextsOf(q) BY <3>3, <3>4, LinesTexts
    <3>8. TextsOf(db) = db /\ TextsOf(q) = <<>> BY <1>2, <3>4, LinesTexts
    <3>9. TextsOf(r) = db BY <1>3, <3>7, <3>8, ConcatEmptySeq
    <3> HIDE DEF r
    <3>10. TextsOf(s \o r) = TextsOf(s) \o TextsOf(r) /\ TextsOf(s) \in Seq(AnyText)
      BY <3>3, <3>6, LinesTexts
    <3>11. Stream(j)' = s \o r BY <3>2, <3>5 DEF r
    <3> QED BY <2>2, <3>9, <3>10, <3>11
  <2> QED BY <2>9, <2>10
<1>8. ASSUME NEW i \in Ids, OnNewMessage(i)
      PROVE  \E p \in Seq(AnyText) : TextsOf(Stream(j)') = p \o db'
  <2> DEFINE m == Text(said + 1, names[i])
             one == <<m>>
             s == Stream(j)
  <2>1. m \in Texts /\ Stream(j)' = s \o one BY <1>2, <1>8, TextStep
  <2>2. names' = names /\ ~failed /\ db' = Append(db, m)
    BY <1>2, <1>8 DEF OnNewMessage, addMessageEntry
  <2>3. PICK posts \in Seq(Tasks) : OnLine(i, posts) BY <1>8, TextStep
  <2>4. UNCHANGED <<starts, open>> BY <1>1, <2>3, CallbackFrame
  <2>5. j \in Registered /\ starts <= 1 BY <2>2, <2>4 DEF Registered
  <2>6. PICK p \in Seq(AnyText) : TextsOf(s) = p \o db BY <1>4, <2>2, <2>5
  <2>7. s \in Seq(Msgs) BY <1>2
  <2> HIDE DEF m, s
  <2>8. one \in Seq(Msgs) /\ one \in Seq(Texts) BY <2>1, AllAreLines
  <2>9. one \in Seq(AnyText) /\ Append(db, m) = db \o one
    <3>1. m \in AnyText BY <2>1, LinesTexts
    <3> QED BY <1>3, <3>1, AppendIsConcat
  <2> HIDE DEF one
  <2>10. TextsOf(s \o one) = TextsOf(s) \o TextsOf(one) /\ TextsOf(one) = one
    BY <2>7, <2>8, LinesTexts
  <2>11. (p \o db) \o one = p \o (db \o one)
    <3>1. p \in Seq(AnyText) /\ db \in Seq(AnyText) /\ one \in Seq(AnyText) BY <1>3, <2>6, <2>9
    <3>2. InARow(p, db, one) BY <3>1, Associative
    <3> QED BY <3>2 DEF InARow
  <2> QED BY <2>1, <2>2, <2>6, <2>9, <2>10, <2>11 DEF s
<1>9. ASSUME NEW i \in Ids, onDisconnect(i)
      PROVE  \E p \in Seq(AnyText) : TextsOf(Stream(j)') = p \o db'
  <2> DEFINE m == OfflineStatus(users, names[i])
  <2>1. Stream(j)' = Stream(j) \o <<m>> /\ m \in Statuses BY <1>2, <1>9, LostStep
  <2>2. PICK posts \in Seq(Tasks) : OnReadError(i, posts) \/ OnWriteError(i, posts) BY <1>9, LostStep
  <2>3. UNCHANGED starts BY <1>1, <2>2, CallbackFrame
  <2>4. open' \subseteq open BY <1>9, LostStep
  <2>5. UNCHANGED <<names, db, failed>> BY <1>9 DEF onDisconnect
  <2>6. j \in Registered BY <2>4, <2>5 DEF Registered
  <2> HIDE DEF m
  <2> QED BY <1>6, <2>1, <2>3, <2>5, <2>6
<1> QED BY <1>5, <1>7, <1>8, <1>9, QuietSteps

\* While no statement failed, the last texts a registered client was sent are the table
\* (data_manager.cpp:66-70, 104-105).
THEOREM FullHistoryHolds == ChatSpec => [](starts <= 1 => FullHistory)
<1> DEFINE J == ServerTypes /\ StartInv /\ HistoryInv
<1>1. ChatInit => J BY InitTypes, StartInvInit, NobodyRegistered DEF HistoryInv
<1>2. J /\ [ChatNext]_chatVars => J' BY TypesStep, StartInvStep, HistoryStep
<1>3. ASSUME J, starts <= 1, ~failed, NEW i \in Registered
      PROVE  LET seen == TextsOf(Stream(i))
             IN  Len(seen) >= Len(db) /\ SubSeq(seen, Len(seen) - Len(db) + 1, Len(seen)) = db
  <2>1. PICK p \in Seq(AnyText) : TextsOf(Stream(i)) = p \o db BY <1>3 DEF HistoryInv
  <2>2. db \in Seq(AnyText)
    <3>1. db \in Seq(Texts) BY <1>3 DEF ServerTypes, ChatTypeOK
    <3>2. Texts \subseteq AnyText BY LinesTexts
    <3> QED BY <3>1, <3>2, SeqMonotonic
  <2>3. /\ Len(p \o db) >= Len(db)
        /\ SubSeq(p \o db, Len(p \o db) - Len(db) + 1, Len(p \o db)) = db
    BY <2>2, LastOfConcat
  <2> QED BY <2>1, <2>3
<1>4. J => (starts <= 1 => FullHistory) BY <1>3 DEF FullHistory
<1> HIDE DEF J
<1> QED BY <1>1, <1>2, <1>4, PTL DEF ChatSpec

\* ... and so it is in the process, which starts the server once (main.cpp:39-41).
THEOREM ServerFullHistory == ServerSpec => []FullHistory
<1>1. StageInv => starts <= 1 BY DEF StageInv
<1> QED BY <1>1, FullHistoryHolds, ServerIsChat, ProcessInvariant, PTL

(***************************************************************************)
(* The status a client was told last.                                      *)
(***************************************************************************)
StatusInv ==
    starts <= 1 => \A i \in Registered, u \in DOMAIN users : Latest(Stream(i), u, UserStatus(users, u))

\* What is told last of a user is what is known of it, after every step.
LEMMA StatusStep ==
    ServerTypes /\ StartInv /\ StatusInv /\ [ChatNext]_chatVars => StatusInv'
<1> SUFFICES ASSUME ServerTypes, StartInv, StatusInv, [ChatNext]_chatVars,
                    starts' <= 1, NEW j \in Registered', NEW v \in DOMAIN users'
             PROVE  Latest(Stream(j)', v, UserStatus(users', v))
  <2>1. \A i, u : Latest(Stream(i), u, UserStatus(users, u))' <=>
                  Latest(Stream(i)', u, UserStatus(users', u))
    BY DEF Latest, UserStatus, Status
  <2> QED BY <2>1 DEF StatusInv
<1>1. ServerTypes' /\ IInv BY TypesStep DEF ServerTypes
<1>2. /\ IsMap(users) /\ names \in [Ids -> Users \cup {NoName}] /\ db \in Seq(Texts)
      /\ j \in Ids /\ Stream(j) \in Seq(Msgs)
  <2>1. IsMap(users) /\ names \in [Ids -> Users \cup {NoName}] /\ db \in Seq(Texts)
    BY DEF ServerTypes, ChatTypeOK, IsMap
  <2>2. j \in Ids BY <1>1 DEF ServerTypes, IInv, TypeOK, Registered
  <2>3. Stream(j) \in Seq(Msgs) BY <1>1, <2>2, StreamType DEF IInv
  <2> QED BY <2>1, <2>2, <2>3
<1>3. starts <= 1 /\ j \in Registered /\ v \in DOMAIN users =>
        Latest(Stream(j), v, UserStatus(users, v))
  BY DEF StatusInv
<1>4. CASE Quiet
  <2>1. j \in Registered /\ Stream(j)' = Stream(j) /\ starts <= 1 BY <1>1, <1>4, QuietRegistered
  <2>2. users' = users BY <1>4 DEF Quiet
  <2> QED BY <1>3, <2>1, <2>2
<1>5. ASSUME NEW m \in Msgs, Stream(j)' = Stream(j) \o <<m>>,
             \/ m = UserStatus(users', v)
             \/ /\ ~About(m, v) /\ j \in Registered /\ starts <= 1
                /\ v \in DOMAIN users /\ users'[v] = users[v]
      PROVE  Latest(Stream(j)', v, UserStatus(users', v))
  <2> DEFINE s   == Stream(j)
             one == <<m>>
             now == UserStatus(users', v)
  <2>1. s \in Seq(Msgs) /\ one \in Seq(Msgs) /\ Stream(j)' = s \o one BY <1>2, <1>5
  <2>2. Len(one) = 1 /\ one[1] = m OBVIOUS
  <2>3. CASE m = now
    <3>1. About(m, v) BY <2>3, StatusParts DEF About
    <3>2. Latest(one, v, m) BY <3>1, LatestOne
    <3> HIDE DEF s, one, now
    <3>3. Latest(s \o one, v, m) BY <2>1, <3>2, LatestAppended
    <3> QED BY <2>1, <2>3, <3>3 DEF now
  <2>4. CASE m # now
    <3>1. /\ ~About(m, v) /\ j \in Registered /\ starts <= 1
          /\ v \in DOMAIN users /\ users'[v] = users[v]
      BY <1>5, <2>4
    <3>2. Latest(s, v, UserStatus(users, v)) BY <1>3, <3>1
    <3>3. now = UserStatus(users, v) BY <3>1 DEF UserStatus
    <3> HIDE DEF s, one, now
    <3>4. \A k \in 1..Len(one) : ~About(one[k], v)
      <4>1. \A k \in 1..Len(one) : k = 1 BY <2>2
      <4> QED BY <2>2, <3>1, <4>1
    <3>5. Latest(s, v, now) BY <3>2, <3>3
    <3>6. Latest(s \o one, v, now) BY <2>1, <3>4, <3>5, LatestAppended
    <3> QED BY <2>1, <3>6 DEF now
  <2> QED BY <2>3, <2>4
<1>6. ASSUME NEW i \in Ids, NEW u \in Users, OnInitialConnection(i, u)
      PROVE  Latest(Stream(j)', v, UserStatus(users', v))
  <2>1. PICK c \in ColorsFor(users, u), n \in 0..Len(db), posts \in Seq(Tasks) :
          Introduces(i, u, c, n) /\ OnLine(i, posts)
    BY <1>6, IntroStep
  <2>2. users' = WithOnline(users, u, c) BY <2>1 DEF Introduces
  <2>3. names' = [names EXCEPT ![i] = u] BY <1>6 DEF OnInitialConnection
  <2>4. UNCHANGED <<starts, open>> BY <1>1, <2>1, CallbackFrame
  <2>5. /\ IsMap(users') /\ u \in DOMAIN users'
        /\ v # u => v \in DOMAIN users /\ users'[v] = users[v]
    <3>1. CameOnline(users, u, c, users') BY <1>2, <2>2, UsersOnline
    <3> QED BY <3>1 DEF CameOnline
  <2> DEFINE news  == UserStatus(users', u)
             known == KnownStatuses(users')
             rows  == SubSeq(db, 1, n)
             one   == <<news>>
             s     == Stream(j)
             now   == UserStatus(users', v)
  <2>6. known \in Seq(Statuses) /\ news \in Msgs BY <2>5, StatusTypes, AllAreLines
  <2>7. Stream(j)' = s \o (IF j = i THEN (rows \o known) \o one ELSE one)
    BY <1>2, <2>1 DEF Introduces
  <2>8. v # u => ~About(news, v) BY StatusParts DEF About
  <2>9. CASE j # i
    <3>1. j \in Registered /\ starts <= 1 BY <1>2, <2>3, <2>4, <2>9 DEF Registered
    <3>2. Stream(j)' = Stream(j) \o <<news>> BY <2>7, <2>9
    <3>3. v = u => news = UserStatus(users', v) OBVIOUS
    <3> HIDE DEF news
    <3> QED BY <1>5, <2>5, <2>6, <2>8, <3>1, <3>2, <3>3
  <2>10. CASE j = i
    <3> DEFINE a == rows \o known
               b == a \o one
    <3>1. rows \in Seq(Texts) BY <1>2, FirstPart
    <3>2. s \in Seq(Msgs) BY <1>2
    <3>3. Latest(known, v, now) BY <2>5, LatestKnown
    <3>4. v = u => news = now OBVIOUS
    <3>5. About(now, v) BY StatusParts DEF About
    <3>6. Latest(one, u, news)
      <4>1. About(news, u) BY StatusParts DEF About
      <4> QED BY <4>1, LatestOne
    <3>7. Len(one) = 1 /\ one[1] = news OBVIOUS
    <3>8. Stream(j)' = s \o b BY <2>7, <2>10
    <3> HIDE DEF news, rows, known, s, now
    <3>9. one \in Seq(Msgs) BY <2>6
    <3> HIDE DEF one
    <3>10. rows \in Seq(Msgs) /\ known \in Seq(Msgs) BY <2>6, <3>1, AllAreLines, SeqMonotonic
    <3>11. a \in Seq(Msgs) BY <3>10, ConcatProperties
    <3>12. Latest(a, v, now) BY <3>3, <3>10, LatestAppended
    <3> HIDE DEF a
    <3>13. b \in Seq(Msgs) BY <3>9, <3>11, ConcatProperties
    <3>14. Latest(b, v, now)
      <4>1. CASE v = u
        <5>1. Latest(one, v, now) BY <3>4, <3>6, <4>1
        <5> QED BY <3>9, <3>11, <5>1, LatestAppended
      <4>2. CASE v # u
        <5>1. \A k \in 1..Len(one) : k = 1 BY <3>7
        <5>2. \A k \in 1..Len(one) : ~About(one[k], v) BY <2>8, <3>7, <4>2, <5>1
        <5> QED BY <3>9, <3>11, <3>12, <5>2, LatestAppended
      <4> QED BY <4>1, <4>2
    <3> HIDE DEF b
    <3>15. Latest(s \o b, v, now) BY <3>2, <3>13, <3>14, LatestAppended
    <3> QED BY <3>8, <3>15 DEF now
  <2> QED BY <2>9, <2>10
<1>7. ASSUME NEW i \in Ids, OnNewMessage(i)
      PROVE  Latest(Stream(j)', v, UserStatus(users', v))
  <2> DEFINE m == Text(said + 1, names[i])
  <2>1. m \in Texts /\ Stream(j)' = Stream(j) \o <<m>> BY <1>2, <1>7, TextStep
  <2>2. UNCHANGED <<names, users>> BY <1>7 DEF OnNewMessage
  <2>3. PICK posts \in Seq(Tasks) : OnLine(i, posts) BY <1>7, TextStep
  <2>4. UNCHANGED <<starts, open>> BY <1>1, <2>3, CallbackFrame
  <2>5. j \in Registered /\ starts <= 1 BY <2>2, <2>4 DEF Registered
  <2>6. ~About(m, v) BY DEF About, Text
  <2> HIDE DEF m
  <2>7. m \in Msgs BY <2>1, AllAreLines
  <2> QED BY <1>5, <2>1, <2>2, <2>5, <2>6, <2>7
<1>8. ASSUME NEW i \in Ids, onDisconnect(i)
      PROVE  Latest(Stream(j)', v, UserStatus(users', v))
  <2> DEFINE u == names[i]
             m == OfflineStatus(users, u)
  <2>1. Stream(j)' = Stream(j) \o <<m>> /\ m \in Statuses /\ u \in DOMAIN users \cup {NoName}
    BY <1>2, <1>8, LostStep
  <2>2. PICK posts \in Seq(Tasks) : OnReadError(i, posts) \/ OnWriteError(i, posts) BY <1>8, LostStep
  <2>3. UNCHANGED starts BY <1>1, <2>2, CallbackFrame
  <2>4. open' \subseteq open BY <1>8, LostStep
  <2>5. names' = names /\ users' = WithOffline(users, u) BY <1>8 DEF onDisconnect
  <2>6. j \in Registered /\ starts <= 1 BY <2>3, <2>4, <2>5 DEF Registered
  <2> HIDE DEF u
  <2>7. /\ v \in DOMAIN users /\ (v # u => users'[v] = users[v])
        /\ u # NoName => m = UserStatus(users', u)
    <3>1. /\ DOMAIN WithOffline(users, u) = DOMAIN users
          /\ \A w \in DOMAIN users : w # u => WithOffline(users, u)[w] = users[w]
          /\ u # NoName => OfflineStatus(users, u) = UserStatus(WithOffline(users, u), u)
      BY <1>2, <2>1, UsersOffline
    <3> QED BY <2>5, <3>1
  <2>8. v = u => m = UserStatus(users', v)
    <3>1. v # NoName BY <1>2, <2>7, NamesAssumption DEF IsMap
    <3> QED BY <2>7, <3>1
  <2>9. v # u => ~About(m, v) BY StatusParts DEF About
  <2> HIDE DEF m
  <2>10. m \in Msgs BY <2>1, AllAreLines
  <2> QED BY <1>5, <2>1, <2>6, <2>7, <2>8, <2>9, <2>10
<1> QED BY <1>4, <1>6, <1>7, <1>8, QuietSteps

\* The last status of a user in the stream of a registered client is the user's status
\* (data_manager.cpp:72-84, 113-131).
THEOREM StatusConvergesHolds == ChatSpec => [](starts <= 1 => StatusConverges)
<1> DEFINE J == ServerTypes /\ StartInv /\ StatusInv
<1>1. ChatInit => J BY InitTypes, StartInvInit, NobodyRegistered DEF StatusInv
<1>2. J /\ [ChatNext]_chatVars => J' BY TypesStep, StartInvStep, StatusStep
<1>3. ASSUME J, starts <= 1, NEW i \in Registered, NEW u \in DOMAIN users
      PROVE  LET s    == Stream(i)
                 told == {k \in DOMAIN s : s[k].type = "status" /\ s[k].user = u}
             IN  told # {} /\ s[CHOOSE k \in told : \A j \in told : j <= k] = UserStatus(users, u)
  <2> DEFINE s    == Stream(i)
             told == {k \in DOMAIN s : s[k].type = "status" /\ s[k].user = u}
             last == CHOOSE k \in told : \A j \in told : j <= k
  <2>1. Latest(s, u, UserStatus(users, u)) BY <1>3 DEF StatusInv
  <2>2. s \in Seq(Msgs)
    <3>1. TypeOK /\ i \in Ids BY <1>3 DEF ServerTypes, IInv, TypeOK, Registered
    <3> QED BY <3>1, StreamType
  <2> HIDE DEF s
  <2>3. DOMAIN s = 1..Len(s) /\ Len(s) \in Nat BY <2>2, LenProperties
  <2>4. PICK k \in 1..Len(s) : /\ s[k] = UserStatus(users, u) /\ About(s[k], u)
                               /\ \A j \in 1..Len(s) : About(s[j], u) => j <= k
    BY <2>1 DEF Latest
  <2>5. k \in told /\ \A j \in told : j <= k BY <2>3, <2>4 DEF About
  <2>6. told \subseteq Nat BY <2>3
  <2> HIDE DEF told
  <2>7. last \in told /\ \A j \in told : j <= last BY <2>5
  <2> HIDE DEF last
  <2>8. last = k
    <3>1. last <= k /\ k <= last /\ last \in Nat /\ k \in Nat BY <2>5, <2>6, <2>7
    <3> QED BY <3>1
  <2>9. told # {} /\ s[last] = UserStatus(users, u) BY <2>4, <2>5, <2>8
  <2> QED BY <2>9 DEF told, last, s
<1>4. J => (starts <= 1 => StatusConverges) BY <1>3 DEF StatusConverges
<1> HIDE DEF J
<1> QED BY <1>1, <1>2, <1>4, PTL DEF ChatSpec

\* ... and so it is in the process, which starts the server once (main.cpp:39-41).
THEOREM ServerStatusConverges == ServerSpec => []StatusConverges
<1>1. StageInv => starts <= 1 BY DEF StageInv
<1> QED BY <1>1, StatusConvergesHolds, ServerIsChat, ProcessInvariant, PTL

(***************************************************************************)
(* The chat server's callbacks are callbacks of the transport: it stays a  *)
(* fan-out under them.                                                     *)
(***************************************************************************)

\* A step of the chat server is one of the transport with what its callbacks post.
LEMMA ChatIsTransport == ServerTypes /\ [ChatNext]_chatVars => [TransportStep]_vars
<1> SUFFICES ASSUME ServerTypes, [ChatNext]_chatVars PROVE [TransportStep]_vars
  OBVIOUS
<1>1. CASE UNCHANGED chatVars BY <1>1 DEF chatVars
<1>2. CASE MainThread \/ Reactor \/ IoExit \/ OwnHandler BY <1>2 DEF TransportStep
<1>3. ASSUME NEW i \in Ids,
             \/ \E u \in Users : OnInitialConnection(i, u)
             \/ OnNewMessage(i) \/ OnLoginOrRegister(i) \/ onDisconnect(i)
      PROVE  TransportStep
  <2>1. PICK posts \in Seq(Tasks) : OnLine(i, posts) \/ OnReadError(i, posts) \/ OnWriteError(i, posts)
    BY <1>3, IntroStep, TextStep, LoginStep, LostStep
  <2>2. Callback(posts) BY <2>1 DEF Callback
  <2> QED BY <2>2 DEF TransportStep
<1> QED BY <1>1, <1>2, <1>3, ChatStepIs DEF ChatStep

\* What DataManager relies on: whatever it writes and broadcasts in its callbacks reaches each
\* connection as one ordered stream, of which a beginning was sent (data_manager.cpp:16-133).
THEOREM ServerIsAFanout == ChatSpec => Promised!Init /\ [][Promised!Next]_(Promised!vars)
<1>1. ChatInit => ServerTypes /\ SentInv /\ Promised!Init
  BY InitTypes, FanoutInit DEF ChatInit
<1>2. ServerTypes /\ SentInv /\ [ChatNext]_chatVars
        => (ServerTypes /\ SentInv)' /\ [Promised!Next]_(Promised!vars)
  <2> SUFFICES ASSUME ServerTypes, SentInv, [ChatNext]_chatVars
               PROVE  (ServerTypes /\ SentInv)' /\ [Promised!Next]_(Promised!vars)
    OBVIOUS
  <2>1. IInv BY DEF ServerTypes
  <2>2. SentInv' /\ [Promised!Next]_(Promised!vars) BY <2>1, ChatIsTransport, FanoutStep
  <2> QED BY <2>2, TypesStep
<1> QED BY <1>1, <1>2, PTL DEF ChatSpec

=============================================================================
