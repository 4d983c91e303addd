---------------------------- MODULE ClientProofs ----------------------------
(***************************************************************************)
(* What the client keeps: first its transport, however often the user      *)
(* connects, writes and stops, and whichever operations fail (TcpClient);  *)
(* then the chat client, whatever the server sends and however the io      *)
(* thread runs between the steps of the UI thread (ChatClient).  The steps *)
(* of the transport are the same in both, so what is proved of them in the *)
(* first part holds in the second.                                         *)
(***************************************************************************)
EXTENDS ChatClient, SequenceFacts

(***************************************************************************)
(* The inductive invariant.  A connection is opened once in a run of the   *)
(* io thread (OpenInv), and nothing of an earlier one is left by then; so  *)
(* the chain of the reads and that of the writes have one link each        *)
(* (ReadInv, WriteInv).  The io thread ends with nothing under way         *)
(* (ThreadInv): then a read has failed, and the connection was reported.   *)
(***************************************************************************)

Opened    == {Done("resolved", "ok"), Done("resolved", "error"),
              Done("connected", "ok"), Done("connected", "error")}
ReadDone  == {Done("read", "ok"), Done("read", "error")}
WroteDone == {Done("wrote", "ok"), Done("wrote", "error")}

ThreadInv ==
    /\ pc = "idle" => IF running THEN io \in {"run", "exited"} ELSE io = "none"
    /\ pc # "idle" => ~running /\ io \in {"run", "exited"}
    /\ io # "run" => /\ op = "none" /\ ~reading /\ inflight = <<>> /\ ~connected
                     /\ ~Has(ready, Opened) /\ ~Has(ready, ReadDone) /\ ~Has(ready, WroteDone)

Opening == op # "none" \/ Has(ready, Opened)

OpenInv ==
    /\ AtMostOne(ready, Opened)
    /\ op # "none" => ~Has(ready, Opened)
    /\ Opening => /\ ~connected /\ ~reading /\ inflight = <<>>
                  /\ ~Has(ready, ReadDone) /\ ~Has(ready, WroteDone)

ReadInv == connected => reading \/ Has(ready, ReadDone)

Writing == inflight # <<>> \/ Has(ready, WroteDone)

WriteInv ==
    /\ AtMostOne(ready, WroteDone)
    /\ inflight # <<>> => ~Has(ready, WroteDone) /\ inflight = <<Head(inflight)>>
    /\ connected => /\ writing <=> queue # <<>>
                    /\ Writing <=> queue # <<>>
                    /\ inflight # <<>> => Head(inflight) = Head(queue)
    /\ ~connected => queue = <<>> /\ ~writing

ChainInv ==
    /\ ClientTypeOK /\ ThreadInv /\ OpenInv /\ ReadInv /\ WriteInv /\ ReportedOnce

(***************************************************************************)
(* The order of the lines.  A line of the user is in the queue of handlers *)
(* as a task, then in write_queue_, then sent; the lines further on were   *)
(* given earlier.  An introduction is posted once for a connection.        *)
(***************************************************************************)

Way       == sent \o queue
UserTasks == {WriteTask(m) : m \in 1..MaxWrites}
HelloTask == {WriteTask(Hello)}

OrderInv ==
    /\ \A j, k \in 1..Len(Way) : j < k /\ Way[j] # Hello /\ Way[k] # Hello => Way[j] < Way[k]
    /\ \A j \in 1..Len(Way) : Way[j] <= written
    /\ \A k \in 1..Len(ready) : ready[k] \in UserTasks =>
          /\ ready[k].msg <= written
          /\ \A j \in 1..Len(Way) : Way[j] < ready[k].msg
          /\ \A j \in 1..Len(ready) : j < k /\ ready[j] \in UserTasks
                                        => ready[j].msg < ready[k].msg

HelloInv == Times(Way, {Hello}) + Times(ready, HelloTask) <= sessions

(***************************************************************************)
(* Which handlers are links of which chain.                                *)
(***************************************************************************)

\* The kind of a handler tells it from the others.
LEMMA KindOf ==
    /\ \A m \in Msgs : WriteTask(m).kind = "write" /\ WriteTask(m).msg = m
    /\ CloseTask.kind = "close"
    /\ \A kind, ec : Done(kind, ec).kind = kind /\ Done(kind, ec).ec = ec
BY DEF WriteTask, CloseTask, Done

\* What the callbacks and the reactor post are handlers.
LEMMA HandlersAre ==
    /\ \A m \in Msgs : WriteTask(m) \in Handlers
    /\ CloseTask \in Handlers
    /\ \A kind \in {"resolved", "connected", "read", "wrote"}, ec \in Codes :
          Done(kind, ec) \in Handlers
BY DEF Handlers, WriteTask, CloseTask, Done

\* A task is a link of no chain.
LEMMA TaskChain ==
    /\ \A m \in Msgs : WriteTask(m) \notin Opened \cup ReadDone \cup WroteDone
    /\ CloseTask \notin Opened \cup ReadDone \cup WroteDone
<1>1. \A h \in Opened \cup ReadDone \cup WroteDone :
         h.kind \in {"resolved", "connected", "read", "wrote"}
  BY KindOf DEF Opened, ReadDone, WroteDone
<1> QED BY <1>1, KindOf

\* A completion is a link of one chain, and no task.
LEMMA DoneChain ==
    ASSUME NEW ec \in Codes
    PROVE  /\ \A kind \in {"resolved", "connected"} :
                 Done(kind, ec) \in Opened /\ Done(kind, ec) \notin ReadDone \cup WroteDone
           /\ Done("read", ec) \in ReadDone /\ Done("read", ec) \notin Opened \cup WroteDone
           /\ Done("wrote", ec) \in WroteDone /\ Done("wrote", ec) \notin Opened \cup ReadDone
<1>1. /\ \A kind \in {"resolved", "connected"} : Done(kind, ec) \in Opened
      /\ Done("read", ec) \in ReadDone /\ Done("wrote", ec) \in WroteDone
  BY DEF Codes, Opened, ReadDone, WroteDone
<1>2. /\ \A h \in Opened : h.kind \in {"resolved", "connected"}
      /\ \A h \in ReadDone : h.kind = "read"
      /\ \A h \in WroteDone : h.kind = "wrote"
  BY KindOf DEF Opened, ReadDone, WroteDone
<1> QED BY <1>1, <1>2, KindOf

\* The queue after handler h was posted.
LEMMA Appended ==
    ASSUME NEW q \in Seq(Handlers), NEW h \in Handlers
    PROVE  /\ Append(q, h) \in Seq(Handlers)
           /\ Has(Append(q, h), Opened) <=> Has(q, Opened) \/ h \in Opened
           /\ Has(Append(q, h), ReadDone) <=> Has(q, ReadDone) \/ h \in ReadDone
           /\ Has(Append(q, h), WroteDone) <=> Has(q, WroteDone) \/ h \in WroteDone
           /\ AtMostOne(q, Opened) /\ ~(Has(q, Opened) /\ h \in Opened)
                 => AtMostOne(Append(q, h), Opened)
           /\ AtMostOne(q, WroteDone) /\ ~(Has(q, WroteDone) /\ h \in WroteDone)
                 => AtMostOne(Append(q, h), WroteDone)
BY AppendFacts

\* The queue after its first handler was taken.
LEMMA Taken ==
    ASSUME NEW q \in Seq(Handlers), q # <<>>, AtMostOne(q, Opened), AtMostOne(q, WroteDone)
    PROVE  /\ Head(q) \in Handlers /\ Tail(q) \in Seq(Handlers)
           /\ Has(q, Opened) <=> Head(q) \in Opened \/ Has(Tail(q), Opened)
           /\ Has(q, ReadDone) <=> Head(q) \in ReadDone \/ Has(Tail(q), ReadDone)
           /\ Has(q, WroteDone) <=> Head(q) \in WroteDone \/ Has(Tail(q), WroteDone)
           /\ AtMostOne(Tail(q), Opened) /\ AtMostOne(Tail(q), WroteDone)
           /\ Head(q) \in Opened => ~Has(Tail(q), Opened)
           /\ Head(q) \in WroteDone => ~Has(Tail(q), WroteDone)
BY TailFacts

(***************************************************************************)
(* The steps of the UI thread.                                             *)
(***************************************************************************)

\* The client as it is constructed (tcp_client.h:24-33).
LEMMA ChainInit == Init => ChainInv
<1> SUFFICES ASSUME Init PROVE ChainInv
  OBVIOUS
<1>1. /\ \A H : ~Has(ready, H) /\ AtMostOne(ready, H)
  BY EmptySeq DEF Init, Has, AtMostOne
<1>2. ClientTypeOK
  <2>1. 0 \in 0..MaxCalls /\ 0 \in 0..MaxWrites /\ 0 \in 0..MaxLines BY ClientBounds
  <2> QED BY <2>1, EmptySeq DEF Init, ClientTypeOK
<1>3. ThreadInv /\ OpenInv BY <1>1 DEF Init, ThreadInv, OpenInv, Opening
<1>4. ReadInv /\ WriteInv BY <1>1 DEF Init, ReadInv, WriteInv
<1>5. ReportedOnce BY DEF Init, ReportedOnce
<1> QED BY <1>2, <1>3, <1>4, <1>5 DEF ChainInv

\* connect(): nothing is left of an earlier connection when it starts a thread.
LEMMA ConnectStep ==
    ASSUME ChainInv, Connect
    PROVE  ChainInv'
<1> USE DEF ui, chain, history
<1>1. calls' \in 0..MaxCalls
  <2>1. calls' = calls + 1 /\ calls < MaxCalls /\ calls \in 0..MaxCalls
    BY DEF Connect, ChainInv, ClientTypeOK
  <2> QED BY <2>1, ClientBounds
<1>2. CASE running
  <2>1. UNCHANGED <<ui, op, connected, sock, reading, chain, ready, undefined, written, lines, history>>
    BY <1>2 DEF Connect, ChainInv, ClientTypeOK
  <2>2. ClientTypeOK' BY <1>1, <2>1 DEF ChainInv, ClientTypeOK
  <2>3. ThreadInv' /\ OpenInv' BY <2>1 DEF ChainInv, ThreadInv, OpenInv, Opening
  <2>4. ReadInv' /\ WriteInv' /\ ReportedOnce'
    BY <2>1 DEF ChainInv, ReadInv, WriteInv, Writing, ReportedOnce
  <2> QED BY <2>2, <2>3, <2>4 DEF ChainInv
<1>3. CASE ~running
  <2>1. /\ io' = "run" /\ op' = "resolving" /\ running' = TRUE
        /\ UNCHANGED <<pc, connected, sock, reading, chain, ready, undefined, written, lines, history>>
    BY <1>3 DEF Connect
  <2>2. /\ pc = "idle" /\ ~reading /\ inflight = <<>> /\ ~connected
        /\ ~Has(ready, Opened) /\ ~Has(ready, ReadDone) /\ ~Has(ready, WroteDone)
    BY <1>3 DEF Connect, ChainInv, ThreadInv
  <2>3. ClientTypeOK' BY <1>1, <2>1 DEF ChainInv, ClientTypeOK
  <2>4. ThreadInv' BY <2>1, <2>2 DEF ThreadInv
  <2>5. OpenInv' BY <2>1, <2>2 DEF ChainInv, OpenInv, Opening
  <2>6. ReadInv' /\ WriteInv' /\ ReportedOnce'
    BY <2>1 DEF ChainInv, ReadInv, WriteInv, Writing, ReportedOnce
  <2> QED BY <2>3, <2>4, <2>5, <2>6 DEF ChainInv
<1> QED BY <1>2, <1>3

\* A task that is posted is a link of no chain.
LEMMA PostStep ==
    ASSUME ChainInv, NEW h \in Handlers, h \notin Opened \cup ReadDone \cup WroteDone,
           ready' = Append(ready, h),
           UNCHANGED <<io, op, connected, reading, chain, history>>,
           running' = running, pc' = pc \/ (pc = "posting" /\ pc' = "joining")
    PROVE  ThreadInv' /\ OpenInv' /\ ReadInv' /\ WriteInv' /\ ReportedOnce'
<1> USE DEF chain, history
<1>1. ready \in Seq(Handlers) BY DEF ChainInv, ClientTypeOK
<1>2. /\ Has(ready', Opened) <=> Has(ready, Opened)
      /\ Has(ready', ReadDone) <=> Has(ready, ReadDone)
      /\ Has(ready', WroteDone) <=> Has(ready, WroteDone)
      /\ AtMostOne(ready, Opened) => AtMostOne(ready', Opened)
      /\ AtMostOne(ready, WroteDone) => AtMostOne(ready', WroteDone)
  BY <1>1, Appended
<1>3. ThreadInv' BY <1>2 DEF ChainInv, ThreadInv
<1>4. OpenInv' BY <1>2 DEF ChainInv, OpenInv, Opening
<1>5. ReadInv' BY <1>2 DEF ChainInv, ReadInv
<1>6. WriteInv' BY <1>2 DEF ChainInv, WriteInv, Writing
<1>7. ReportedOnce' BY DEF ChainInv, ReportedOnce
<1> QED BY <1>3, <1>4, <1>5, <1>6, <1>7

\* write(), by the UI (tcp_client.h:60-77).
LEMMA WriteStep ==
    ASSUME ChainInv, Write
    PROVE  ChainInv'
<1> USE DEF ui, chain, history
<1>1. written \in 0..MaxWrites /\ written < MaxWrites /\ written' = written + 1
  BY DEF Write, ChainInv, ClientTypeOK
<1>2. written' \in 0..MaxWrites /\ written + 1 \in Msgs
  BY <1>1, ClientBounds, SMT DEF Msgs
<1>3. WriteTask(written + 1) \in Handlers /\ ready \in Seq(Handlers)
  BY <1>2, HandlersAre DEF ChainInv, ClientTypeOK
<1>4. ready' \in Seq(Handlers) BY <1>3, Appended DEF Write
<1>5. ClientTypeOK' BY <1>2, <1>4 DEF Write, ChainInv, ClientTypeOK
<1>6. ThreadInv' /\ OpenInv' /\ ReadInv' /\ WriteInv' /\ ReportedOnce'
  <2> DEFINE h == WriteTask(written + 1)
  <2>1. h \in Handlers /\ h \notin Opened \cup ReadDone \cup WroteDone
    BY <1>2, <1>3, TaskChain
  <2>2. ready' = Append(ready, h) BY DEF Write
  <2>3. UNCHANGED <<io, op, connected, reading, chain, history, pc, running>> BY DEF Write
  <2> HIDE DEF h
  <2> QED BY <2>1, <2>2, <2>3, PostStep
<1> QED BY <1>5, <1>6 DEF ChainInv

\* stop() up to its exchange of running_ (tcp_client.h:41-44).
LEMMA StopFlagStep ==
    ASSUME ChainInv, StopFlag
    PROVE  ChainInv'
<1> USE DEF ui, chain, history, bounds
<1>1. ClientTypeOK' BY DEF StopFlag, ChainInv, ClientTypeOK
<1>2. ThreadInv' BY DEF StopFlag, ChainInv, ThreadInv
<1>3. OpenInv' BY DEF StopFlag, ChainInv, OpenInv, Opening
<1>4. ReadInv' /\ WriteInv' /\ ReportedOnce'
  BY DEF StopFlag, ChainInv, ReadInv, WriteInv, Writing, ReportedOnce
<1> QED BY <1>1, <1>2, <1>3, <1>4 DEF ChainInv

\* stop() posts the close (tcp_client.h:45-50).
LEMMA StopPostStep ==
    ASSUME ChainInv, StopPost
    PROVE  ChainInv'
<1> USE DEF ui, chain, history, bounds
<1>1. CloseTask \in Handlers /\ ready \in Seq(Handlers)
  BY HandlersAre DEF ChainInv, ClientTypeOK
<1>2. ready' \in Seq(Handlers) BY <1>1, Appended DEF StopPost
<1>3. ClientTypeOK' BY <1>2 DEF StopPost, ChainInv, ClientTypeOK
<1>4. ThreadInv' /\ OpenInv' /\ ReadInv' /\ WriteInv' /\ ReportedOnce'
  BY <1>1, TaskChain, PostStep DEF StopPost
<1> QED BY <1>3, <1>4 DEF ChainInv

\* The join returns when the thread has ended: it drops nothing of a connection
\* (tcp_client.h:51-58).
LEMMA StopJoinStep ==
    ASSUME ChainInv, StopJoin
    PROVE  ChainInv'
<1> USE DEF ui, chain, history, bounds
<1>1. /\ ~running /\ op = "none" /\ ~reading /\ inflight = <<>> /\ ~connected
      /\ ~Has(ready, Opened) /\ ~Has(ready, ReadDone) /\ ~Has(ready, WroteDone)
  BY DEF StopJoin, ChainInv, ThreadInv
<1>2. ClientTypeOK' BY EmptySeq DEF StopJoin, ChainInv, ClientTypeOK
<1>3. ThreadInv' BY <1>1 DEF StopJoin, ThreadInv
<1>4. OpenInv' BY <1>1 DEF StopJoin, ChainInv, OpenInv, Opening
<1>5. ReadInv' /\ WriteInv' BY <1>1 DEF StopJoin, ChainInv, ReadInv, WriteInv, Writing
<1>6. ReportedOnce' BY <1>1 DEF StopJoin, ChainInv, ReportedOnce
<1> QED BY <1>2, <1>3, <1>4, <1>5, <1>6 DEF ChainInv

(***************************************************************************)
(* The steps of the reactor.                                               *)
(***************************************************************************)

\* The resolver answers (tcp_client.h:96-115).
LEMMA ResolveReadyStep ==
    ASSUME ChainInv, NEW ec \in Codes, ResolveReady(ec)
    PROVE  ChainInv'
<1> USE DEF ui, chain, history, bounds
<1> DEFINE h == Done("resolved", ec)
<1>1. /\ ready \in Seq(Handlers) /\ h \in Handlers
      /\ h \in Opened /\ h \notin ReadDone /\ h \notin WroteDone
  BY HandlersAre, DoneChain DEF ChainInv, ClientTypeOK
<1> HIDE DEF h
<1>2. op = "resolving" /\ ready' = Append(ready, h) BY DEF ResolveReady, h
<1>3. /\ ~Has(ready, Opened) /\ ~connected /\ ~reading /\ inflight = <<>>
      /\ ~Has(ready, ReadDone) /\ ~Has(ready, WroteDone) /\ io = "run"
  BY <1>2 DEF ChainInv, OpenInv, Opening, ThreadInv, ClientTypeOK
<1>4. /\ ready' \in Seq(Handlers) /\ AtMostOne(ready', Opened) /\ AtMostOne(ready', WroteDone)
      /\ ~Has(ready', ReadDone) /\ ~Has(ready', WroteDone)
  BY <1>1, <1>2, <1>3, Appended DEF ChainInv, OpenInv, WriteInv
<1>5. ClientTypeOK' BY <1>4 DEF ResolveReady, ChainInv, ClientTypeOK
<1>6. ThreadInv' BY <1>3 DEF ResolveReady, ChainInv, ThreadInv
<1>7. OpenInv' BY <1>3, <1>4 DEF ResolveReady, OpenInv, Opening
<1>8. ReadInv' /\ WriteInv' BY <1>3, <1>4 DEF ResolveReady, ChainInv, ReadInv, WriteInv, Writing
<1>9. ReportedOnce' BY DEF ResolveReady, ChainInv, ReportedOnce
<1> QED BY <1>5, <1>6, <1>7, <1>8, <1>9 DEF ChainInv

\* The connect ends (tcp_client.h:117-145).
LEMMA ConnectReadyStep ==
    ASSUME ChainInv, NEW ec \in Codes, ConnectReady(ec)
    PROVE  ChainInv'
<1> USE DEF ui, chain, history, bounds
<1> DEFINE h == Done("connected", ec)
<1>1. /\ ready \in Seq(Handlers) /\ h \in Handlers
      /\ h \in Opened /\ h \notin ReadDone /\ h \notin WroteDone
  BY HandlersAre, DoneChain DEF ChainInv, ClientTypeOK
<1> HIDE DEF h
<1>2. op = "connecting" /\ ready' = Append(ready, h) BY DEF ConnectReady, h
<1>3. /\ ~Has(ready, Opened) /\ ~connected /\ ~reading /\ inflight = <<>>
      /\ ~Has(ready, ReadDone) /\ ~Has(ready, WroteDone) /\ io = "run"
  BY <1>2 DEF ChainInv, OpenInv, Opening, ThreadInv, ClientTypeOK
<1>4. /\ ready' \in Seq(Handlers) /\ AtMostOne(ready', Opened) /\ AtMostOne(ready', WroteDone)
      /\ ~Has(ready', ReadDone) /\ ~Has(ready', WroteDone)
  BY <1>1, <1>2, <1>3, Appended DEF ChainInv, OpenInv, WriteInv
<1>5. ClientTypeOK' BY <1>4 DEF ConnectReady, ChainInv, ClientTypeOK
<1>6. ThreadInv' BY <1>3 DEF ConnectReady, ChainInv, ThreadInv
<1>7. OpenInv' BY <1>3, <1>4 DEF ConnectReady, OpenInv, Opening
<1>8. ReadInv' /\ WriteInv' BY <1>3, <1>4 DEF ConnectReady, ChainInv, ReadInv, WriteInv, Writing
<1>9. ReportedOnce' BY DEF ConnectReady, ChainInv, ReportedOnce
<1> QED BY <1>5, <1>6, <1>7, <1>8, <1>9 DEF ChainInv

\* A read ends: the chain of the reads goes on in the queue (tcp_client.h:155-197).
LEMMA ReadReadyStep ==
    ASSUME ChainInv, NEW ec \in Codes, ReadReady(ec)
    PROVE  ChainInv'
<1> USE DEF ui, chain, history
<1> DEFINE h == Done("read", ec)
<1>1. /\ ready \in Seq(Handlers) /\ h \in Handlers
      /\ h \in ReadDone /\ h \notin Opened /\ h \notin WroteDone
  BY HandlersAre, DoneChain DEF ChainInv, ClientTypeOK
<1> HIDE DEF h
<1>2. reading /\ reading' = FALSE /\ ready' = Append(ready, h) BY DEF ReadReady, h
<1>3. ~Opening /\ io = "run" BY <1>2 DEF ChainInv, OpenInv, ThreadInv, ClientTypeOK
<1>4. /\ ready' \in Seq(Handlers)
      /\ Has(ready', Opened) <=> Has(ready, Opened)
      /\ Has(ready', WroteDone) <=> Has(ready, WroteDone)
      /\ Has(ready', ReadDone)
      /\ AtMostOne(ready', Opened) /\ AtMostOne(ready', WroteDone)
  BY <1>1, <1>2, Appended DEF ChainInv, OpenInv, WriteInv
<1>5. lines' \in 0..MaxLines
  <2>1. lines \in 0..MaxLines BY DEF ChainInv, ClientTypeOK
  <2>2. CASE ec = "ok"
    <3>1. lines' = lines + 1 /\ lines < MaxLines BY <2>2 DEF ReadReady
    <3> QED BY <2>1, <3>1, ClientBounds
  <2>3. CASE ec # "ok" BY <2>1, <2>3 DEF ReadReady
  <2> QED BY <2>2, <2>3
<1>6. ClientTypeOK' BY <1>2, <1>4, <1>5 DEF ReadReady, ChainInv, ClientTypeOK
<1>7. ThreadInv' BY <1>3 DEF ReadReady, ChainInv, ThreadInv
<1>8. OpenInv' BY <1>3, <1>4 DEF ReadReady, OpenInv, Opening
<1>9. ReadInv' BY <1>4 DEF ReadInv
<1>10. WriteInv' BY <1>4 DEF ReadReady, ChainInv, WriteInv, Writing
<1>11. ReportedOnce' BY DEF ReadReady, ChainInv, ReportedOnce
<1> QED BY <1>6, <1>7, <1>8, <1>9, <1>10, <1>11 DEF ChainInv

\* A write ends: the chain of the writes goes on in the queue (tcp_client.h:199-217).
LEMMA WriteReadyStep ==
    ASSUME ChainInv, NEW ec \in Codes, WriteReady(ec)
    PROVE  ChainInv'
<1> USE DEF ui, chain, history, bounds
<1> DEFINE h == Done("wrote", ec)
<1>1. /\ ready \in Seq(Handlers) /\ h \in Handlers
      /\ h \in WroteDone /\ h \notin Opened /\ h \notin ReadDone
  BY HandlersAre, DoneChain DEF ChainInv, ClientTypeOK
<1> HIDE DEF h
<1>2. inflight # <<>> /\ inflight' = Tail(inflight) /\ ready' = Append(ready, h)
  BY DEF WriteReady, h
<1>3. ~Opening /\ io = "run" /\ ~Has(ready, WroteDone) /\ inflight = <<Head(inflight)>>
  BY <1>2 DEF ChainInv, OpenInv, ThreadInv, WriteInv, ClientTypeOK
<1>4. inflight' = <<>>
  <2> DEFINE l == Head(inflight)
  <2>1. inflight' = Tail(<<l>>) BY <1>2, <1>3
  <2> HIDE DEF l
  <2>2. Tail(<<l>>) = <<>> OBVIOUS
  <2> QED BY <2>1, <2>2
<1>5. /\ ready' \in Seq(Handlers)
      /\ Has(ready', Opened) <=> Has(ready, Opened)
      /\ Has(ready', ReadDone) <=> Has(ready, ReadDone)
      /\ Has(ready', WroteDone)
      /\ AtMostOne(ready', Opened) /\ AtMostOne(ready', WroteDone)
  BY <1>1, <1>2, <1>3, Appended DEF ChainInv, OpenInv, WriteInv
<1>6. ClientTypeOK' BY <1>4, <1>5, EmptySeq DEF WriteReady, ChainInv, ClientTypeOK
<1>7. ThreadInv' BY <1>3 DEF WriteReady, ChainInv, ThreadInv
<1>8. OpenInv' BY <1>3, <1>5 DEF WriteReady, OpenInv, Opening
<1>9. ReadInv' BY <1>5 DEF WriteReady, ChainInv, ReadInv
<1>10. WriteInv' BY <1>2, <1>4, <1>5 DEF WriteReady, ChainInv, WriteInv, Writing
<1>11. ReportedOnce' BY DEF WriteReady, ChainInv, ReportedOnce
<1> QED BY <1>6, <1>7, <1>8, <1>9, <1>10, <1>11 DEF ChainInv

\* run() returns: a connection that was made has lost its read by then, and with it ended
\* (tcp_client.h:36-39).
LEMMA IoExitStep ==
    ASSUME ChainInv, IoExit
    PROVE  ChainInv'
<1> USE DEF ui, chain, history, bounds
<1>1. \A H : ~Has(ready, H) BY EmptySeq DEF IoExit, Has
<1>2. ~connected BY <1>1 DEF IoExit, ChainInv, ReadInv
<1>3. ClientTypeOK' BY DEF IoExit, ChainInv, ClientTypeOK
<1>4. ThreadInv' BY <1>1, <1>2 DEF IoExit, ChainInv, ThreadInv
<1>5. OpenInv' BY DEF IoExit, ChainInv, OpenInv, Opening
<1>6. ReadInv' /\ WriteInv' /\ ReportedOnce'
  BY DEF IoExit, ChainInv, ReadInv, WriteInv, Writing, ReportedOnce
<1> QED BY <1>3, <1>4, <1>5, <1>6 DEF ChainInv

(***************************************************************************)
(* The handlers.  What is known of the queue when handler h was taken.     *)
(***************************************************************************)

\* Taking a handler from the front keeps the chains, but for the link that it is.
LEMMA Taking ==
    ASSUME ChainInv, NEW h, Running(h)
    PROVE  /\ io = "run" /\ h \in Handlers /\ Tail(ready) \in Seq(Handlers)
           /\ AtMostOne(Tail(ready), Opened) /\ AtMostOne(Tail(ready), WroteDone)
           /\ Has(ready, Opened) <=> h \in Opened \/ Has(Tail(ready), Opened)
           /\ Has(ready, ReadDone) <=> h \in ReadDone \/ Has(Tail(ready), ReadDone)
           /\ Has(ready, WroteDone) <=> h \in WroteDone \/ Has(Tail(ready), WroteDone)
           /\ h \in Opened => op = "none" /\ ~Has(Tail(ready), Opened) /\ Opening
           /\ h \in WroteDone => inflight = <<>> /\ ~Has(Tail(ready), WroteDone) /\ ~Opening
           /\ h \in ReadDone => ~Opening
<1>1. /\ ready \in Seq(Handlers) /\ ready # <<>> /\ h = Head(ready) /\ io = "run"
      /\ AtMostOne(ready, Opened) /\ AtMostOne(ready, WroteDone)
  BY DEF ChainInv, ClientTypeOK, OpenInv, WriteInv, Running
<1>2. /\ h \in Handlers /\ Tail(ready) \in Seq(Handlers)
      /\ AtMostOne(Tail(ready), Opened) /\ AtMostOne(Tail(ready), WroteDone)
      /\ Has(ready, Opened) <=> h \in Opened \/ Has(Tail(ready), Opened)
      /\ Has(ready, ReadDone) <=> h \in ReadDone \/ Has(Tail(ready), ReadDone)
      /\ Has(ready, WroteDone) <=> h \in WroteDone \/ Has(Tail(ready), WroteDone)
      /\ h \in Opened => ~Has(Tail(ready), Opened)
      /\ h \in WroteDone => ~Has(Tail(ready), WroteDone)
  BY <1>1, Taken
<1>3. h \in Opened => op = "none" /\ Opening BY <1>2 DEF ChainInv, OpenInv, Opening
<1>4. h \in WroteDone => inflight = <<>> /\ ~Opening
  BY <1>2 DEF ChainInv, OpenInv, WriteInv
<1>5. h \in ReadDone => ~Opening BY <1>2 DEF ChainInv, OpenInv
<1> QED BY <1>1, <1>2, <1>3, <1>4, <1>5

\* A name was resolved: the socket is opened, no connection is there yet (tcp_client.h:99-125).
LEMMA OnResolvedStep ==
    ASSUME ChainInv, OnResolved
    PROVE  ChainInv'
<1> USE DEF ui, chain, history, bounds
<1> DEFINE h == Done("resolved", "ok")
<1>1. h \in Opened /\ h \notin ReadDone /\ h \notin WroteDone BY DoneChain DEF Codes
<1>2. Running(h) /\ ready' = Tail(ready) BY DEF OnResolved
<1> HIDE DEF h
<1>3. /\ ready' \in Seq(Handlers) /\ io = "run" /\ Opening
      /\ AtMostOne(ready', Opened) /\ AtMostOne(ready', WroteDone)
      /\ ~Has(ready', Opened)
      /\ Has(ready', ReadDone) <=> Has(ready, ReadDone)
      /\ Has(ready', WroteDone) <=> Has(ready, WroteDone)
  BY <1>1, <1>2, Taking
<1>4. /\ ~connected /\ ~reading /\ inflight = <<>>
      /\ ~Has(ready, ReadDone) /\ ~Has(ready, WroteDone)
  BY <1>3 DEF ChainInv, OpenInv
<1>5. ClientTypeOK' BY <1>3 DEF OnResolved, ChainInv, ClientTypeOK
<1>6. ThreadInv' BY <1>3 DEF OnResolved, ChainInv, ThreadInv
<1>7. OpenInv' BY <1>3, <1>4 DEF OnResolved, OpenInv, Opening
<1>8. ReadInv' /\ WriteInv' BY <1>3, <1>4 DEF OnResolved, ChainInv, ReadInv, WriteInv, Writing
<1>9. ReportedOnce' BY DEF OnResolved, ChainInv, ReportedOnce
<1> QED BY <1>5, <1>6, <1>7, <1>8, <1>9 DEF ChainInv

\* finish_connected(): nothing of another connection is queued, under way or to be handled
\* (tcp_client.h:147-153).
LEMMA OnConnectedStep ==
    ASSUME ChainInv, OnConnected
    PROVE  ChainInv'
<1> USE DEF ui, chain, history, bounds
<1> DEFINE h == Done("connected", "ok")
           t == WriteTask(Hello)
           q == Tail(ready)
<1>1. h \in Opened /\ h \notin ReadDone /\ h \notin WroteDone BY DoneChain DEF Codes
<1>2. t \in Handlers /\ t \notin Opened /\ t \notin ReadDone /\ t \notin WroteDone
  <2>1. Hello \in Msgs BY ClientBounds DEF Hello, Msgs
  <2> QED BY <2>1, HandlersAre, TaskChain
<1>3. Running(h) /\ ready' = Append(q, t) BY DEF OnConnected
<1> HIDE DEF h, t
<1>4. /\ q \in Seq(Handlers) /\ io = "run" /\ Opening /\ op = "none"
      /\ AtMostOne(q, Opened) /\ AtMostOne(q, WroteDone)
      /\ ~Has(q, Opened)
      /\ Has(q, ReadDone) <=> Has(ready, ReadDone)
      /\ Has(q, WroteDone) <=> Has(ready, WroteDone)
  BY <1>1, <1>3, Taking
<1> HIDE DEF q
<1>5. /\ ~connected /\ ~reading /\ inflight = <<>> /\ queue = <<>> /\ ~writing
      /\ ~Has(ready, ReadDone) /\ ~Has(ready, WroteDone)
  BY <1>4 DEF ChainInv, OpenInv, WriteInv
<1>6. /\ ready' \in Seq(Handlers)
      /\ AtMostOne(ready', Opened) /\ AtMostOne(ready', WroteDone)
      /\ ~Has(ready', Opened) /\ ~Has(ready', ReadDone) /\ ~Has(ready', WroteDone)
  BY <1>2, <1>3, <1>4, <1>5, Appended
<1>7. ClientTypeOK' BY <1>6 DEF OnConnected, ChainInv, ClientTypeOK
<1>8. ThreadInv' BY <1>4 DEF OnConnected, ChainInv, ThreadInv
<1>9. OpenInv' BY <1>4, <1>6 DEF OnConnected, OpenInv, Opening
<1>10. ReadInv' /\ WriteInv' BY <1>5, <1>6 DEF OnConnected, ReadInv, WriteInv, Writing
<1>11. ReportedOnce' BY <1>5 DEF OnConnected, ChainInv, ReportedOnce, ClientTypeOK
<1> QED BY <1>7, <1>8, <1>9, <1>10, <1>11 DEF ChainInv

\* A line was read: reading goes on while connected (tcp_client.h:155-197).
LEMMA OnLineStep ==
    ASSUME ChainInv, OnLine
    PROVE  ChainInv'
<1> USE DEF ui, chain, history, bounds
<1> DEFINE h == Done("read", "ok")
<1>1. h \in ReadDone /\ h \notin Opened /\ h \notin WroteDone BY DoneChain DEF Codes
<1>2. Running(h) /\ ready' = Tail(ready) BY DEF OnLine
<1> HIDE DEF h
<1>3. /\ ready' \in Seq(Handlers) /\ io = "run" /\ ~Opening
      /\ AtMostOne(ready', Opened) /\ AtMostOne(ready', WroteDone)
      /\ Has(ready', Opened) <=> Has(ready, Opened)
      /\ Has(ready', WroteDone) <=> Has(ready, WroteDone)
  BY <1>1, <1>2, Taking
<1>4. ClientTypeOK' BY <1>3 DEF OnLine, ChainInv, ClientTypeOK
<1>5. ThreadInv' BY <1>3 DEF OnLine, ChainInv, ThreadInv
<1>6. OpenInv' BY <1>3 DEF OnLine, OpenInv, Opening
<1>7. ReadInv' BY DEF OnLine, ReadInv
<1>8. WriteInv' BY <1>3 DEF OnLine, ChainInv, WriteInv, Writing
<1>9. ReportedOnce' BY DEF OnLine, ChainInv, ReportedOnce
<1> QED BY <1>4, <1>5, <1>6, <1>7, <1>8, <1>9 DEF ChainInv

\* handle_disconnect(), for whichever operation failed: the first call of a connection
\* reports it and clears its queue, a later one changes nothing (tcp_client.h:219-236).
LEMMA OnErrorStep ==
    ASSUME ChainInv, OnError
    PROVE  ChainInv'
<1> USE DEF ui, chain, history, bounds
<1>1. PICK kind \in {"resolved", "connected", "read", "wrote"} : Running(Done(kind, "error"))
  BY DEF OnError
<1> DEFINE h == Done(kind, "error")
<1>2. h \in Opened \/ (h \notin Opened /\ (h \in ReadDone \/ h \in WroteDone))
  BY DoneChain DEF Codes
<1>3. Running(h) /\ ready' = Tail(ready) BY <1>1 DEF OnError
<1> HIDE DEF h
<1>4. /\ ready' \in Seq(Handlers) /\ io = "run"
      /\ AtMostOne(ready', Opened) /\ AtMostOne(ready', WroteDone)
      /\ Has(ready', Opened) => Has(ready, Opened)
      /\ Has(ready', ReadDone) => Has(ready, ReadDone)
      /\ Has(ready', WroteDone) => Has(ready, WroteDone)
  BY <1>3, Taking
<1>5. UNCHANGED <<pc, running, io, op, reading, undefined, calls, written, lines, inflight, sent, sessions>>
  BY DEF OnError, handle_disconnect
<1>6. connected' = FALSE BY DEF OnError, handle_disconnect
<1>7. CASE connected
  <2>1. sock' = FALSE /\ queue' = <<>> /\ writing' = FALSE /\ reports' = reports + 1
    BY <1>7 DEF OnError, handle_disconnect
  <2>2. ~Opening BY <1>7 DEF ChainInv, OpenInv
  <2>3. ClientTypeOK'
    <3>1. reports' \in Nat BY <2>1 DEF ChainInv, ClientTypeOK
    <3> QED BY <1>4, <1>5, <1>6, <2>1, <3>1, EmptySeq DEF ChainInv, ClientTypeOK
  <2>4. ThreadInv' BY <1>4, <1>5 DEF ChainInv, ThreadInv
  <2>5. OpenInv' BY <1>4, <1>5, <2>2 DEF ChainInv, OpenInv, Opening
  <2>6. ReadInv' BY <1>6 DEF ReadInv
  <2>7. WriteInv' BY <1>4, <1>5, <1>6, <2>1 DEF ChainInv, WriteInv
  <2>8. ReportedOnce'
    <3>1. sessions = reports + 1 /\ reports \in Nat
      BY <1>7 DEF ChainInv, ReportedOnce, ClientTypeOK
    <3> QED BY <3>1, <1>5, <1>6, <2>1 DEF ReportedOnce
  <2> QED BY <2>3, <2>4, <2>5, <2>6, <2>7, <2>8 DEF ChainInv
<1>8. CASE ~connected
  <2>1. UNCHANGED <<sock, queue, writing, reports>>
    BY <1>8 DEF OnError, handle_disconnect
  <2>2. ClientTypeOK' BY <1>4, <1>5, <1>6, <2>1 DEF ChainInv, ClientTypeOK
  <2>3. ThreadInv' BY <1>4, <1>5 DEF ChainInv, ThreadInv
  <2>4. OpenInv' BY <1>4, <1>5, <1>6 DEF ChainInv, OpenInv, Opening
  <2>5. ReadInv' BY <1>6 DEF ReadInv
  <2>6. WriteInv' BY <1>4, <1>5, <1>6, <1>8, <2>1 DEF ChainInv, WriteInv
  <2>7. ReportedOnce' BY <1>5, <1>6, <1>8, <2>1 DEF ChainInv, ReportedOnce
  <2> QED BY <2>2, <2>3, <2>4, <2>5, <2>6, <2>7 DEF ChainInv
<1> QED BY <1>7, <1>8

\* do_write_next() on queue q, when no write is under way: it starts one exactly when there
\* is a line (tcp_client.h:199-217).
LEMMA NextWrite ==
    ASSUME NEW q \in Seq(Msgs), inflight = <<>>, connected \in BOOLEAN, do_write_next(q)
    PROVE  /\ queue' = q /\ inflight' \in Seq(Msgs) /\ writing' \in BOOLEAN
           /\ inflight' # <<>> => inflight' = <<Head(q)>> /\ inflight' = <<Head(inflight')>>
           /\ connected => /\ writing' <=> q # <<>>
                           /\ inflight' # <<>> <=> q # <<>>
                           /\ inflight' # <<>> => Head(inflight') = Head(q)
           /\ ~connected => ~writing' /\ inflight' = <<>>
<1>1. queue' = q BY DEF do_write_next
<1>2. CASE q # <<>> /\ connected
  <2>1. Head(q) \in Msgs BY <1>2, HeadTailProperties
  <2>2. inflight' = Append(inflight, Head(q)) /\ writing' = TRUE BY <1>2 DEF do_write_next
  <2> DEFINE x == Head(q)
  <2>3. Append(<<>>, x) = <<x>> /\ Head(<<x>>) = x /\ <<x>> # <<>> /\ <<x>> \in Seq(Msgs)
    <3> HIDE DEF x
    <3> QED BY <2>1 DEF x
  <2> QED BY <1>1, <1>2, <2>2, <2>3
<1>3. CASE ~(q # <<>> /\ connected)
  <2>1. inflight' = inflight /\ writing' = FALSE BY <1>3 DEF do_write_next
  <2> QED BY <1>1, <1>3, <2>1, EmptySeq
<1> QED BY <1>2, <1>3

\* A line was written: the chain of the writes goes on, with the line behind it or with none;
\* while connected the queue is not empty then, and what is popped is the line that was
\* written (tcp_client.h:199-217).
LEMMA OnWroteStep ==
    ASSUME ChainInv, OnWrote
    PROVE  ChainInv'
<1> USE DEF ui, chain, history, bounds
<1> DEFINE h == Done("wrote", "ok")
<1>1. h \in WroteDone /\ h \notin Opened /\ h \notin ReadDone BY DoneChain DEF Codes
<1>2. Running(h) /\ ready' = Tail(ready) BY DEF OnWrote
<1> HIDE DEF h
<1>3. /\ ready' \in Seq(Handlers) /\ io = "run" /\ ~Opening /\ inflight = <<>>
      /\ AtMostOne(ready', Opened) /\ AtMostOne(ready', WroteDone)
      /\ ~Has(ready', WroteDone) /\ Has(ready, WroteDone)
      /\ Has(ready', Opened) <=> Has(ready, Opened)
      /\ Has(ready', ReadDone) <=> Has(ready, ReadDone)
  BY <1>1, <1>2, Taking
<1>4. UNCHANGED <<pc, running, io, op, connected, sock, reading, calls, written, lines,
                  sessions, reports>>
  BY DEF OnWrote
<1>5. connected \in BOOLEAN /\ queue \in Seq(Msgs) /\ sent \in Seq(Msgs)
      /\ (connected => queue # <<>>)
  BY <1>3 DEF ChainInv, ClientTypeOK, WriteInv, Writing
<1>6. ReadInv' BY <1>3, <1>4 DEF ChainInv, ReadInv
<1>7. ReportedOnce' BY <1>4 DEF ChainInv, ReportedOnce
<1>8. ThreadInv' BY <1>3, <1>4 DEF ChainInv, ThreadInv
<1>9. CASE queue = <<>>
  <2>1. undefined' = TRUE /\ UNCHANGED <<queue, writing, inflight, sent>> BY <1>9 DEF OnWrote
  <2>2. ClientTypeOK' BY <1>3, <1>4, <2>1 DEF ChainInv, ClientTypeOK
  <2>3. OpenInv' BY <1>3, <1>4, <2>1 DEF ChainInv, OpenInv, Opening
  <2>4. WriteInv' BY <1>3, <1>4, <1>5, <1>9, <2>1 DEF ChainInv, WriteInv
  <2> QED BY <1>6, <1>7, <1>8, <2>2, <2>3, <2>4 DEF ChainInv
<1>10. CASE queue # <<>>
  <2>1. sent' = Append(sent, Head(queue)) /\ do_write_next(Tail(queue)) /\ undefined' = undefined
    BY <1>10 DEF OnWrote
  <2>2. Head(queue) \in Msgs /\ Tail(queue) \in Seq(Msgs) BY <1>5, <1>10, HeadTailProperties
  <2>3. sent' \in Seq(Msgs) BY <1>5, <2>1, <2>2, AppendProperties
  <2>4. /\ queue' = Tail(queue) /\ inflight' \in Seq(Msgs) /\ writing' \in BOOLEAN
        /\ inflight' # <<>> => inflight' = <<Head(inflight')>>
        /\ connected => /\ writing' <=> queue' # <<>>
                        /\ inflight' # <<>> <=> queue' # <<>>
                        /\ inflight' # <<>> => Head(inflight') = Head(queue')
        /\ ~connected => ~writing' /\ inflight' = <<>>
    BY <1>3, <1>5, <2>1, <2>2, NextWrite
  <2>5. connected BY <1>10 DEF ChainInv, WriteInv
  <2>6. ClientTypeOK' BY <1>3, <1>4, <2>1, <2>2, <2>3, <2>4 DEF ChainInv, ClientTypeOK
  <2>7. OpenInv' BY <1>3, <1>4 DEF ChainInv, OpenInv, Opening
  <2>8. WriteInv' BY <1>3, <1>4, <2>4, <2>5 DEF WriteInv, Writing
  <2> QED BY <1>6, <1>7, <1>8, <2>6, <2>7, <2>8 DEF ChainInv
<1> QED BY <1>9, <1>10

\* A line of the user, or the introduction, is dropped or put in the queue, and written when
\* nothing is (tcp_client.h:60-77).
LEMMA RunWriteStep ==
    ASSUME ChainInv, NEW m \in Msgs, RunWrite(m)
    PROVE  ChainInv'
<1> USE DEF ui, chain, history, bounds
<1> DEFINE h == WriteTask(m)
<1>1. h \notin WroteDone /\ h \notin Opened /\ h \notin ReadDone BY TaskChain
<1>2. Running(h) /\ ready' = Tail(ready) BY DEF RunWrite
<1> HIDE DEF h
<1>3. /\ ready' \in Seq(Handlers) /\ io = "run"
      /\ AtMostOne(ready', Opened) /\ AtMostOne(ready', WroteDone)
      /\ Has(ready', Opened) <=> Has(ready, Opened)
      /\ Has(ready', ReadDone) <=> Has(ready, ReadDone)
      /\ Has(ready', WroteDone) <=> Has(ready, WroteDone)
  BY <1>1, <1>2, Taking
<1>4. UNCHANGED <<pc, running, io, op, connected, sock, reading, sent, undefined, calls, written,
                  lines, sessions, reports>>
  BY DEF RunWrite
<1>5. connected \in BOOLEAN /\ queue \in Seq(Msgs)
  BY DEF ChainInv, ClientTypeOK
<1>6. ReadInv' BY <1>3, <1>4 DEF ChainInv, ReadInv
<1>7. ReportedOnce' BY <1>4 DEF ChainInv, ReportedOnce
<1>8. ThreadInv' BY <1>3, <1>4 DEF ChainInv, ThreadInv
<1>9. Append(queue, m) \in Seq(Msgs) /\ Append(queue, m) # <<>>
      /\ (queue # <<>> => Head(Append(queue, m)) = Head(queue))
  BY <1>5, AppendProperties, HeadTailAppend
<1>10. CASE ~connected \/ ~sock
  <2>1. UNCHANGED <<queue, writing, inflight>> BY <1>10 DEF RunWrite
  <2>2. ClientTypeOK' BY <1>3, <1>4, <2>1 DEF ChainInv, ClientTypeOK
  <2>3. OpenInv' BY <1>3, <1>4, <2>1 DEF ChainInv, OpenInv, Opening
  <2>4. WriteInv' BY <1>3, <1>4, <2>1 DEF ChainInv, WriteInv, Writing
  <2> QED BY <1>6, <1>7, <1>8, <2>2, <2>3, <2>4 DEF ChainInv
<1>11. CASE connected /\ sock /\ writing
  <2>1. queue' = Append(queue, m) /\ UNCHANGED <<writing, inflight>> BY <1>11 DEF RunWrite
  <2>2. queue # <<>> /\ Writing /\ (inflight # <<>> => Head(inflight) = Head(queue))
    BY <1>11 DEF ChainInv, WriteInv
  <2>3. ClientTypeOK' BY <1>3, <1>4, <1>9, <2>1 DEF ChainInv, ClientTypeOK
  <2>4. OpenInv' BY <1>3, <1>4, <2>1 DEF ChainInv, OpenInv, Opening
  <2>5. WriteInv' BY <1>3, <1>4, <1>9, <1>11, <2>1, <2>2 DEF ChainInv, WriteInv, Writing
  <2> QED BY <1>6, <1>7, <1>8, <2>3, <2>4, <2>5 DEF ChainInv
<1>12. CASE connected /\ sock /\ ~writing
  <2>1. do_write_next(Append(queue, m)) BY <1>12 DEF RunWrite
  <2>2. ~Opening /\ inflight = <<>> /\ ~Has(ready, WroteDone)
    BY <1>12 DEF ChainInv, WriteInv, Writing, OpenInv
  <2>3. /\ queue' = Append(queue, m) /\ inflight' \in Seq(Msgs) /\ writing' \in BOOLEAN
        /\ inflight' # <<>> => inflight' = <<Head(inflight')>>
        /\ writing' <=> queue' # <<>>
        /\ inflight' # <<>> <=> queue' # <<>>
        /\ inflight' # <<>> => Head(inflight') = Head(queue')
    BY <1>5, <1>9, <1>12, <2>1, <2>2, NextWrite
  <2>4. ClientTypeOK' BY <1>3, <1>4, <1>9, <2>3 DEF ChainInv, ClientTypeOK
  <2>5. OpenInv' BY <1>3, <1>4, <2>2 DEF ChainInv, OpenInv, Opening
  <2>6. WriteInv' BY <1>3, <1>4, <1>12, <2>2, <2>3 DEF WriteInv, Writing
  <2> QED BY <1>6, <1>7, <1>8, <2>4, <2>5, <2>6 DEF ChainInv
<1> QED BY <1>10, <1>11, <1>12

\* The close of stop(): it is the reads and writes it aborts that end the connection
\* (tcp_client.h:46-50).
LEMMA RunCloseStep ==
    ASSUME ChainInv, RunClose
    PROVE  ChainInv'
<1> USE DEF ui, chain, history, bounds
<1> DEFINE h == CloseTask
<1>1. h \notin WroteDone /\ h \notin Opened /\ h \notin ReadDone BY TaskChain
<1>2. Running(h) /\ ready' = Tail(ready) BY DEF RunClose
<1> HIDE DEF h
<1>3. /\ ready' \in Seq(Handlers) /\ io = "run"
      /\ AtMostOne(ready', Opened) /\ AtMostOne(ready', WroteDone)
      /\ Has(ready', Opened) <=> Has(ready, Opened)
      /\ Has(ready', ReadDone) <=> Has(ready, ReadDone)
      /\ Has(ready', WroteDone) <=> Has(ready, WroteDone)
  BY <1>1, <1>2, Taking
<1>4. ClientTypeOK' BY <1>3 DEF RunClose, ChainInv, ClientTypeOK
<1>5. ThreadInv' BY <1>3 DEF RunClose, ChainInv, ThreadInv
<1>6. OpenInv' BY <1>3 DEF RunClose, ChainInv, OpenInv, Opening
<1>7. ReadInv' BY <1>3 DEF RunClose, ChainInv, ReadInv
<1>8. WriteInv' BY <1>3 DEF RunClose, ChainInv, WriteInv, Writing
<1>9. ReportedOnce' BY DEF RunClose, ChainInv, ReportedOnce
<1> QED BY <1>4, <1>5, <1>6, <1>7, <1>8, <1>9 DEF ChainInv

\* Every step of the three parts keeps the chains.
LEMMA ChainNext == ChainInv /\ [Next]_vars => ChainInv'
<1> SUFFICES ASSUME ChainInv, [Next]_vars PROVE ChainInv'
  OBVIOUS
<1>1. CASE Ui
  BY <1>1, ConnectStep, WriteStep, StopFlagStep, StopPostStep, StopJoinStep DEF Ui
<1>2. CASE Reactor
  BY <1>2, ResolveReadyStep, ConnectReadyStep, ReadReadyStep, WriteReadyStep DEF Reactor
<1>3. CASE IoThread
  BY <1>3, IoExitStep, OnResolvedStep, OnConnectedStep, OnLineStep, OnErrorStep, OnWroteStep,
     RunCloseStep, RunWriteStep DEF IoThread
<1>4. CASE UNCHANGED vars
  <2> USE <1>4 DEF vars, ui, chain, bounds, history
  <2>1. ClientTypeOK' BY DEF ChainInv, ClientTypeOK
  <2>2. ThreadInv' /\ OpenInv' BY DEF ChainInv, ThreadInv, OpenInv, Opening
  <2>3. ReadInv' /\ WriteInv' /\ ReportedOnce'
    BY DEF ChainInv, ReadInv, WriteInv, Writing, ReportedOnce
  <2> QED BY <2>1, <2>2, <2>3 DEF ChainInv
<1> QED BY <1>1, <1>2, <1>3, <1>4 DEF Next

(***************************************************************************)
(* The order of the lines.                                                 *)
(***************************************************************************)

\* The types that the order is about.
LEMMA WayTypes ==
    ASSUME ChainInv
    PROVE  /\ sent \in Seq(Msgs) /\ queue \in Seq(Msgs) /\ Way \in Seq(Msgs) /\ Len(Way) \in Nat
           /\ \A k \in 1..Len(Way) : Way[k] \in Nat
           /\ ready \in Seq(Handlers) /\ Len(ready) \in Nat
           /\ written \in Nat /\ sessions \in Nat
<1>1. sent \in Seq(Msgs) /\ queue \in Seq(Msgs) /\ ready \in Seq(Handlers)
      /\ written \in 0..MaxWrites /\ sessions \in Nat
  BY DEF ChainInv, ClientTypeOK
<1>2. Way \in Seq(Msgs) BY <1>1, ConcatProperties DEF Way
<1>3. \A k \in 1..Len(Way) : Way[k] \in Msgs BY <1>2, ElementOfSeq
<1>4. \A m \in Msgs : m \in Nat BY ClientBounds, SMT DEF Msgs
<1>5. written \in Nat BY <1>1, ClientBounds, SMT
<1> QED BY <1>1, <1>2, <1>3, <1>4, <1>5, LenProperties

\* A task of the user carries its line.
LEMMA UserTaskIs ==
    \A h \in UserTasks : \E m \in 1..MaxWrites : h = WriteTask(m) /\ h.msg = m /\ h.msg \in Nat
<1> SUFFICES ASSUME NEW m \in 1..MaxWrites
             PROVE  WriteTask(m).msg = m /\ m \in Nat
  BY DEF UserTasks
<1> QED BY ClientBounds DEF WriteTask

\* Neither a completion nor the close is a task of the user or an introduction.
LEMMA NoTask ==
    /\ \A h \in UserTasks \cup HelloTask : h.kind = "write"
    /\ CloseTask \notin UserTasks \cup HelloTask
    /\ \A kind \in {"resolved", "connected", "read", "wrote"} : \A ec :
          Done(kind, ec) \notin UserTasks \cup HelloTask
    /\ HelloTask \cap UserTasks = {}
<1>1. \A h \in UserTasks \cup HelloTask : h.kind = "write"
  BY DEF UserTasks, HelloTask, WriteTask
<1>2. \A h \in UserTasks : h # WriteTask(Hello)
  <2> SUFFICES ASSUME NEW m \in 1..MaxWrites PROVE WriteTask(m) # WriteTask(Hello)
    BY DEF UserTasks
  <2>1. m # Hello BY ClientBounds DEF Hello
  <2> QED BY <2>1 DEF WriteTask
<1> QED BY <1>1, <1>2, KindOf DEF HelloTask

\* A step that takes handlers from the front, lines from the end of the way, or posts what is
\* no line of the user, keeps the order.
LEMMA OrderKept ==
    ASSUME ChainInv, OrderInv, NEW d \in Nat,
           written' \in Nat, written <= written',
           Len(Way') \in Nat, Len(ready') \in Nat,
           \A j \in 1..Len(Way') : j \in 1..Len(Way) /\ Way'[j] = Way[j],
           \A k \in 1..Len(ready') : ready'[k] \in UserTasks =>
                k + d \in 1..Len(ready) /\ ready'[k] = ready[k + d]
    PROVE  OrderInv'
<1>1. /\ \A k \in 1..Len(Way) : Way[k] \in Nat
      /\ written \in Nat
  BY WayTypes
<1>2. \A j, k \in 1..Len(Way') :
         j < k /\ Way'[j] # Hello /\ Way'[k] # Hello => Way'[j] < Way'[k]
  BY DEF OrderInv
<1>3. \A j \in 1..Len(Way') : Way'[j] <= written'
  BY <1>1, SMT DEF OrderInv
<1>4. ASSUME NEW k \in 1..Len(ready'), ready'[k] \in UserTasks
      PROVE  /\ ready'[k].msg <= written'
             /\ \A j \in 1..Len(Way') : Way'[j] < ready'[k].msg
             /\ \A j \in 1..Len(ready') : j < k /\ ready'[j] \in UserTasks
                                            => ready'[j].msg < ready'[k].msg
  <2>1. /\ k + d \in 1..Len(ready) /\ ready[k + d] = ready'[k] /\ ready'[k].msg \in Nat
    BY <1>4, UserTaskIs
  <2>2. /\ ready[k + d].msg <= written
        /\ \A j \in 1..Len(Way) : Way[j] < ready[k + d].msg
        /\ \A j \in 1..Len(ready) : j < k + d /\ ready[j] \in UserTasks
                                       => ready[j].msg < ready[k + d].msg
    BY <1>4, <2>1 DEF OrderInv
  <2>3. ready'[k].msg <= written' BY <1>1, <2>1, <2>2, SMT
  <2>4. \A j \in 1..Len(Way') : Way'[j] < ready'[k].msg BY <2>1, <2>2
  <2>5. ASSUME NEW j \in 1..Len(ready'), j < k, ready'[j] \in UserTasks
        PROVE  ready'[j].msg < ready'[k].msg
    <3>1. j + d \in 1..Len(ready) /\ ready[j + d] = ready'[j] BY <2>5
    <3>2. j + d < k + d BY <2>5, SMT
    <3> QED BY <2>1, <2>2, <2>5, <3>1, <3>2
  <2> QED BY <2>3, <2>4, <2>5
<1> QED BY <1>2, <1>3, <1>4 DEF OrderInv

\* ... and so does one that posts the next line of the user, which comes after all others.
LEMMA OrderWritten ==
    ASSUME ChainInv, OrderInv, Write
    PROVE  OrderInv'
<1>1. /\ \A k \in 1..Len(Way) : Way[k] \in Nat
      /\ written \in Nat /\ ready \in Seq(Handlers) /\ Len(ready) \in Nat
  BY WayTypes
<1> DEFINE h == WriteTask(written + 1)
<1>2. Way' = Way /\ written' = written + 1 /\ ready' = Append(ready, h)
  BY DEF Write, Way, chain
<1>3. h \in Handlers /\ h.msg = written + 1
  <2>1. written \in 0..MaxWrites /\ written < MaxWrites BY DEF Write, ChainInv, ClientTypeOK
  <2>2. written + 1 \in Msgs BY <2>1, ClientBounds, SMT DEF Msgs
  <2> QED BY <2>2, HandlersAre, KindOf
<1> HIDE DEF h
<1>4. /\ Len(ready') = Len(ready) + 1 /\ ready'[Len(ready) + 1] = h
      /\ \A k \in 1..Len(ready) : ready'[k] = ready[k]
  BY <1>1, <1>2, <1>3, AppendProperties
<1>5. \A j, k \in 1..Len(Way') :
         j < k /\ Way'[j] # Hello /\ Way'[k] # Hello => Way'[j] < Way'[k]
  BY <1>2 DEF OrderInv
<1>6. \A j \in 1..Len(Way') : Way'[j] <= written /\ Way'[j] <= written'
  BY <1>1, <1>2, SMT DEF OrderInv
<1>7. \A k \in 1..Len(ready) : ready[k] \in UserTasks => ready[k].msg <= written /\ ready[k].msg \in Nat
  BY UserTaskIs DEF OrderInv
<1>8. ASSUME NEW k \in 1..Len(ready'), ready'[k] \in UserTasks
      PROVE  /\ ready'[k].msg <= written'
             /\ \A j \in 1..Len(Way') : Way'[j] < ready'[k].msg
             /\ \A j \in 1..Len(ready') : j < k /\ ready'[j] \in UserTasks
                                            => ready'[j].msg < ready'[k].msg
  <2>1. CASE k = Len(ready) + 1
    <3>1. ready'[k].msg = written + 1 BY <2>1, <1>3, <1>4
    <3>2. \A j \in 1..Len(ready') : j < k => j \in 1..Len(ready) BY <1>1, <1>4, <2>1, SMT
    <3>3. \A j \in 1..Len(Way') : Way'[j] < written + 1
      BY <1>1, <1>2, <1>6, SMT
    <3>4. \A j \in 1..Len(ready) : ready[j] \in UserTasks => ready[j].msg < written + 1
      BY <1>1, <1>7, SMT
    <3>5. written + 1 <= written' BY <1>1, <1>2, SMT
    <3> QED BY <1>4, <3>1, <3>2, <3>3, <3>4, <3>5
  <2>2. CASE k # Len(ready) + 1
    <3>1. k \in 1..Len(ready) /\ ready[k] \in UserTasks /\ ready'[k] = ready[k]
      <4>1. k \in 1..Len(ready) BY <1>1, <1>4, <2>2, SMT
      <4> QED BY <4>1, <1>4, <1>8
    <3>2. \A j \in 1..Len(ready') : j < k => j \in 1..Len(ready) BY <1>1, <3>1, SMT
    <3>3. ready[k].msg <= written' BY <1>1, <1>2, <1>7, <3>1, SMT
    <3> QED BY <1>2, <1>4, <3>1, <3>2, <3>3 DEF OrderInv
  <2> QED BY <2>1, <2>2
<1> QED BY <1>5, <1>6, <1>8 DEF OrderInv

\* ... and one that moves the first task to the end of the queue, which is the line that was
\* given next.
LEMMA OrderQueued ==
    ASSUME ChainInv, OrderInv, NEW m \in Msgs, Running(WriteTask(m)),
           ready' = Tail(ready), written' = written, Way' = Append(Way, m)
    PROVE  OrderInv'
<1>1. /\ \A k \in 1..Len(Way) : Way[k] \in Nat
      /\ written \in Nat /\ ready \in Seq(Handlers) /\ Len(ready) \in Nat
      /\ Way \in Seq(Msgs) /\ Len(Way) \in Nat
  BY WayTypes
<1>2. /\ ready # <<>> /\ ready[1] = WriteTask(m) /\ Len(ready') = Len(ready) - 1
      /\ \A k \in 1..Len(ready') : ready'[k] = ready[k + 1]
  BY <1>1, HeadTailProperties DEF Running
<1>3. \A k \in 1..Len(ready') : k + 1 \in 1..Len(ready) /\ 1 \in 1..Len(ready) /\ 1 < k + 1
  BY <1>1, <1>2, SMT
<1>4. /\ Len(Way') = Len(Way) + 1 /\ Way'[Len(Way) + 1] = m
      /\ \A k \in 1..Len(Way) : Way'[k] = Way[k]
  BY <1>1, AppendProperties
<1>5. m \in Nat /\ 1 \in 1..Len(ready)
  BY <1>1, <1>2, ClientBounds, EmptySeq, SMT DEF Msgs
<1>6. m # Hello => ready[1] \in UserTasks /\ ready[1].msg = m
  <2>1. m # Hello => m \in 1..MaxWrites BY <1>5, SMT DEF Hello, Msgs
  <2> QED BY <2>1, <1>2, KindOf DEF UserTasks
<1>7. m <= written /\ (m # Hello => \A j \in 1..Len(Way) : Way[j] < m)
  <2>1. CASE m # Hello BY <2>1, <1>5, <1>6 DEF OrderInv
  <2>2. CASE m = Hello BY <2>2, <1>1, SMT DEF Hello
  <2> QED BY <2>1, <2>2
<1>8. \A k \in 1..Len(ready') : ready'[k] \in UserTasks => m < ready'[k].msg
  <2> SUFFICES ASSUME NEW k \in 1..Len(ready'), ready'[k] \in UserTasks PROVE m < ready'[k].msg
    OBVIOUS
  <2>1. ready'[k] = ready[k + 1] /\ k + 1 \in 1..Len(ready) /\ 1 \in 1..Len(ready) /\ 1 < k + 1
    BY <1>2, <1>3
  <2>2. CASE m # Hello BY <2>1, <2>2, <1>6 DEF OrderInv
  <2>3. CASE m = Hello
    <3>1. PICK n \in 1..MaxWrites : ready'[k].msg = n BY UserTaskIs
    <3> QED BY <2>3, <3>1, ClientBounds, SMT DEF Hello
  <2> QED BY <2>2, <2>3
<1>9. ASSUME NEW j \in 1..Len(Way'), j # Len(Way) + 1 PROVE j \in 1..Len(Way)
  BY <1>1, <1>4, <1>9, SMT
<1>10. ASSUME NEW j \in 1..Len(Way'), NEW k \in 1..Len(Way'), j < k,
              Way'[j] # Hello, Way'[k] # Hello
       PROVE  Way'[j] < Way'[k]
  <2>1. CASE k = Len(Way) + 1
    <3>1. j \in 1..Len(Way) BY <1>1, <1>4, <1>10, <2>1, SMT
    <3> QED BY <1>4, <1>7, <1>10, <2>1, <3>1
  <2>2. CASE k # Len(Way) + 1
    <3>1. k \in 1..Len(Way) BY <1>9, <2>2
    <3>2. j # Len(Way) + 1 BY <1>1, <1>10, <3>1, SMT
    <3>3. j \in 1..Len(Way) BY <1>9, <3>2
    <3> QED BY <1>4, <1>10, <3>1, <3>3 DEF OrderInv
  <2> QED BY <2>1, <2>2
<1>11. \A j \in 1..Len(Way') : Way'[j] <= written'
  BY <1>4, <1>7, <1>9 DEF OrderInv
<1>12. ASSUME NEW k \in 1..Len(ready'), ready'[k] \in UserTasks
       PROVE  /\ ready'[k].msg <= written'
              /\ \A j \in 1..Len(Way') : Way'[j] < ready'[k].msg
              /\ \A j \in 1..Len(ready') : j < k /\ ready'[j] \in UserTasks
                                             => ready'[j].msg < ready'[k].msg
  <2>1. ready'[k] = ready[k + 1] /\ k + 1 \in 1..Len(ready) BY <1>2, <1>3
  <2>2. \A j \in 1..Len(Way') : Way'[j] < ready'[k].msg
    BY <1>4, <1>8, <1>9, <1>12, <2>1 DEF OrderInv
  <2>3. ASSUME NEW j \in 1..Len(ready'), j < k, ready'[j] \in UserTasks
        PROVE  ready'[j].msg < ready'[k].msg
    <3>1. ready'[j] = ready[j + 1] /\ j + 1 \in 1..Len(ready) BY <1>2, <1>3
    <3>2. j + 1 < k + 1 BY <2>3, SMT
    <3> QED BY <1>12, <2>1, <2>3, <3>1, <3>2 DEF OrderInv
  <2> QED BY <1>12, <2>1, <2>2, <2>3 DEF OrderInv
<1> QED BY <1>10, <1>11, <1>12 DEF OrderInv

\* The steps other than those two; d is how many handlers they take.
LEMMA HandlersKept ==
    ASSUME ChainInv, NEW h \in Handlers, h \notin UserTasks \cup HelloTask,
           ready' = Append(ready, h)
    PROVE  /\ Len(ready') \in Nat /\ Times(ready', HelloTask) = Times(ready, HelloTask)
           /\ \A k \in 1..Len(ready') : ready'[k] \in UserTasks =>
                k + 0 \in 1..Len(ready) /\ ready'[k] = ready[k + 0]
<1>1. ready \in Seq(Handlers) /\ Len(ready) \in Nat BY WayTypes
<1>2. /\ Len(ready') = Len(ready) + 1 /\ ready'[Len(ready) + 1] = h
      /\ \A k \in 1..Len(ready) : ready'[k] = ready[k]
  BY <1>1, AppendProperties
<1>3. \A k \in 1..Len(ready') : k # Len(ready) + 1 => k \in 1..Len(ready) /\ k + 0 = k
  BY <1>1, <1>2, SMT
<1>4. Times(ready', HelloTask) = Times(ready, HelloTask)
  <2>1. Times(ready', HelloTask) = Times(ready, HelloTask) + 0 BY <1>1, TimesAppend
  <2>2. Times(ready, HelloTask) \in Nat BY <1>1, TimesIsNat
  <2> QED BY <2>1, <2>2
<1>5. Len(ready') \in Nat BY <1>1, <1>2
<1> QED BY <1>2, <1>3, <1>4, <1>5

\* The queue q that the io thread leaves when it took the handler h.
LEMMA HandlerTaken ==
    ASSUME ChainInv, NEW h, Running(h), NEW q, q = Tail(ready)
    PROVE  /\ q \in Seq(Handlers) /\ Len(q) \in Nat
           /\ Times(ready, HelloTask) = Times(q, HelloTask) + (IF h \in HelloTask THEN 1 ELSE 0)
           /\ Times(q, HelloTask) \in Nat
           /\ \A k \in 1..Len(q) : k + 1 \in 1..Len(ready) /\ q[k] = ready[k + 1]
<1>1. ready \in Seq(Handlers) /\ Len(ready) \in Nat BY WayTypes
<1>2. ready # <<>> /\ Head(ready) = h BY DEF Running
<1>3. /\ q \in Seq(Handlers) /\ Len(q) = Len(ready) - 1
      /\ \A k \in 1..Len(q) : q[k] = ready[k + 1]
  BY <1>1, <1>2, HeadTailProperties
<1>4. \A k \in 1..Len(q) : k + 1 \in 1..Len(ready) BY <1>1, <1>3, SMT
<1>5. Times(ready, HelloTask) = Times(q, HelloTask) + (IF h \in HelloTask THEN 1 ELSE 0)
  BY <1>1, <1>2, TimesTail
<1>6. Times(q, HelloTask) \in Nat BY <1>3, TimesIsNat
<1> QED BY <1>3, <1>4, <1>5, <1>6, LenProperties

\* The types after a step.
LEMMA NextTypes ==
    ASSUME ChainInv'
    PROVE  /\ sent' \in Seq(Msgs) /\ queue' \in Seq(Msgs) /\ Way' \in Seq(Msgs) /\ Len(Way') \in Nat
           /\ ready' \in Seq(Handlers) /\ Len(ready') \in Nat
           /\ written' \in Nat /\ sessions' \in Nat
<1>1. sent' \in Seq(Msgs) /\ queue' \in Seq(Msgs) /\ ready' \in Seq(Handlers)
      /\ written' \in 0..MaxWrites /\ sessions' \in Nat
  BY DEF ChainInv, ClientTypeOK
<1>2. Way' = sent' \o queue' BY DEF Way
<1>3. Way' \in Seq(Msgs) BY <1>1, <1>2, ConcatProperties
<1>4. written' \in Nat BY <1>1, ClientBounds, SMT
<1> QED BY <1>1, <1>3, <1>4, LenProperties

\* A step that touches neither the queue of handlers nor the lines.
LEMMA SameStep ==
    ASSUME OrderInv, HelloInv, ready' = ready, Way' = Way, written' = written, sessions' = sessions
    PROVE  OrderInv' /\ HelloInv'
BY DEF OrderInv, HelloInv

\* A step that posts the close or a completion.
LEMMA OtherPostStep ==
    ASSUME ChainInv, ChainInv', OrderInv, HelloInv,
           NEW h \in Handlers, h \notin UserTasks \cup HelloTask,
           ready' = Append(ready, h), Way' = Way, written' = written, sessions' = sessions
    PROVE  OrderInv' /\ HelloInv'
<1>1. /\ Times(ready', HelloTask) = Times(ready, HelloTask)
      /\ \A k \in 1..Len(ready') : ready'[k] \in UserTasks =>
            k + 0 \in 1..Len(ready) /\ ready'[k] = ready[k + 0]
  BY HandlersKept
<1>2. HelloInv' BY <1>1 DEF HelloInv
<1>3. \A j \in 1..Len(Way') : j \in 1..Len(Way) /\ Way'[j] = Way[j]
  OBVIOUS
<1>4. written' \in Nat /\ written <= written' /\ Len(Way') \in Nat /\ Len(ready') \in Nat
  BY NextTypes
<1>5. OrderInv' BY <1>1, <1>3, <1>4, OrderKept
<1> QED BY <1>2, <1>5

\* What was sent begins the way.
LEMMA WayBegins ==
    ASSUME ChainInv
    PROVE  /\ \A j \in 1..Len(sent) : j \in 1..Len(Way) /\ sent[j] = Way[j]
           /\ Times(sent, {Hello}) <= Times(Way, {Hello})
           /\ Times(sent, {Hello}) \in Nat /\ Times(Way, {Hello}) \in Nat
<1>1. sent \in Seq(Msgs) /\ queue \in Seq(Msgs) /\ Way \in Seq(Msgs) BY WayTypes
<1>2. /\ Len(Way) = Len(sent) + Len(queue) /\ Len(sent) \in Nat /\ Len(queue) \in Nat
      /\ \A j \in 1..Len(sent) : Way[j] = sent[j]
  BY <1>1, ConcatProperties, LenProperties DEF Way
<1>3. \A j \in 1..Len(sent) : j \in 1..Len(Way) BY <1>2, SMT
<1>4. Times(sent, {Hello}) <= Times(Way, {Hello}) BY <1>1, TimesConcat DEF Way
<1> QED BY <1>1, <1>2, <1>3, <1>4, TimesIsNat

\* A handler that posts nothing, and keeps the lines or, at the end of a connection, drops the
\* ones in the queue.
LEMMA TakenStep ==
    ASSUME ChainInv, ChainInv', OrderInv, HelloInv, NEW h, Running(h),
           ready' = Tail(ready), Way' = Way \/ Way' = sent, written' = written, sessions' = sessions
    PROVE  OrderInv' /\ HelloInv'
<1> DEFINE q == ready'
<1>1. /\ Times(ready, HelloTask) = Times(q, HelloTask) + (IF h \in HelloTask THEN 1 ELSE 0)
      /\ Times(q, HelloTask) \in Nat
      /\ \A k \in 1..Len(q) : k + 1 \in 1..Len(ready) /\ q[k] = ready[k + 1]
  BY HandlerTaken
<1>2. Times(Way', {Hello}) <= Times(Way, {Hello}) /\ Times(Way', {Hello}) \in Nat
      /\ Times(Way, {Hello}) \in Nat /\ sessions \in Nat
  BY WayBegins, WayTypes
<1>3. HelloInv'
  <2>1. Times(Way, {Hello}) + Times(ready, HelloTask) <= sessions BY DEF HelloInv
  <2>2. Times(q, HelloTask) <= Times(ready, HelloTask) BY <1>1
  <2>3. Times(Way', {Hello}) + Times(q, HelloTask) <= sessions
    BY <1>1, <1>2, <2>1, <2>2
  <2> QED BY <2>3 DEF HelloInv
<1>4. \A j \in 1..Len(Way') : j \in 1..Len(Way) /\ Way'[j] = Way[j]
  BY WayBegins
<1>5. written' \in Nat /\ written <= written' /\ Len(Way') \in Nat /\ Len(ready') \in Nat
  BY NextTypes
<1>6. OrderInv' BY <1>1, <1>4, <1>5, OrderKept
<1> QED BY <1>3, <1>6

\* A line of the user is no introduction.
LEMMA HelloWritten ==
    ASSUME ChainInv, HelloInv, Write
    PROVE  HelloInv'
<1> DEFINE h == WriteTask(written + 1)
<1>1. written \in 0..MaxWrites /\ written < MaxWrites BY DEF Write, ChainInv, ClientTypeOK
<1>2. written + 1 \in Msgs /\ written + 1 \in 1..MaxWrites BY <1>1, ClientBounds, SMT DEF Msgs
<1>3. h \in Handlers /\ h \notin HelloTask
  <2>1. h \in UserTasks BY <1>2 DEF UserTasks
  <2> QED BY <2>1, <1>2, HandlersAre, NoTask
<1>4. ready' = Append(ready, h) /\ Way' = Way /\ sessions' = sessions
  BY DEF Write, Way, chain, history
<1> HIDE DEF h
<1>5. ready \in Seq(Handlers) BY WayTypes
<1>6. Times(ready', HelloTask) = Times(ready, HelloTask) + 0 /\ Times(ready, HelloTask) \in Nat
  BY <1>3, <1>4, <1>5, TimesAppend, TimesIsNat
<1>7. Times(ready', HelloTask) = Times(ready, HelloTask) BY <1>6, SMT
<1> QED BY <1>4, <1>7 DEF HelloInv

\* A connection begins: one introduction is posted, which is no line of the user.
LEMMA OrderConnected ==
    ASSUME ChainInv, ChainInv', OrderInv, HelloInv, OnConnected
    PROVE  OrderInv' /\ HelloInv'
<1> DEFINE h == Done("connected", "ok")
           t == WriteTask(Hello)
           q == Tail(ready)
<1>1. h \notin HelloTask /\ h \notin UserTasks BY NoTask
<1>2. t \in Handlers /\ t \in HelloTask /\ t \notin UserTasks
  <2>1. Hello \in Msgs BY ClientBounds DEF Hello, Msgs
  <2> QED BY <2>1, HandlersAre, NoTask DEF HelloTask
<1>3. /\ Running(h) /\ ready' = Append(q, t) /\ Way' = Way /\ written' = written
      /\ sessions' = sessions + 1
  BY DEF OnConnected, Way, chain, bounds
<1> HIDE DEF h, t
<1>4. /\ q \in Seq(Handlers) /\ Len(q) \in Nat
      /\ Times(ready, HelloTask) = Times(q, HelloTask) + (IF h \in HelloTask THEN 1 ELSE 0)
      /\ Times(q, HelloTask) \in Nat
      /\ \A k \in 1..Len(q) : k + 1 \in 1..Len(ready) /\ q[k] = ready[k + 1]
  BY <1>3, HandlerTaken
<1>5. /\ Len(ready') = Len(q) + 1 /\ ready'[Len(q) + 1] = t
      /\ \A k \in 1..Len(q) : ready'[k] = q[k]
      /\ Times(ready', HelloTask) = Times(q, HelloTask) + (IF t \in HelloTask THEN 1 ELSE 0)
  <2> HIDE DEF q
  <2>1. /\ Len(ready') = Len(q) + 1 /\ ready'[Len(q) + 1] = t
        /\ \A k \in 1..Len(q) : ready'[k] = q[k]
    BY <1>2, <1>3, <1>4, AppendProperties
  <2>2. Times(ready', HelloTask) = Times(q, HelloTask) + (IF t \in HelloTask THEN 1 ELSE 0)
    BY <1>2, <1>3, <1>4, TimesAppend
  <2> QED BY <2>1, <2>2
<1> HIDE DEF q
<1>6. HelloInv'
  <2>1. Times(Way, {Hello}) + Times(ready, HelloTask) <= sessions BY DEF HelloInv
  <2>2. Times(ready, HelloTask) = Times(q, HelloTask) + 0 BY <1>1, <1>4
  <2>3. Times(ready', HelloTask) = Times(q, HelloTask) + 1 BY <1>2, <1>5
  <2>4. Times(Way, {Hello}) \in Nat /\ sessions \in Nat BY WayBegins, WayTypes
  <2>5. Times(Way, {Hello}) + Times(ready', HelloTask) <= sessions'
    BY <1>3, <1>4, <2>1, <2>2, <2>3, <2>4
  <2> QED BY <1>3, <2>5 DEF HelloInv
<1>7. \A k \in 1..Len(ready') : k # Len(q) + 1 => k \in 1..Len(q)
  BY <1>4, <1>5, SMT
<1>8. \A k \in 1..Len(ready') : ready'[k] \in UserTasks =>
         k + 1 \in 1..Len(ready) /\ ready'[k] = ready[k + 1]
  BY <1>2, <1>4, <1>5, <1>7
<1>9. \A j \in 1..Len(Way') : j \in 1..Len(Way) /\ Way'[j] = Way[j]
  BY <1>3
<1>10. written' \in Nat /\ written <= written' /\ Len(Way') \in Nat /\ Len(ready') \in Nat
  BY <1>3, NextTypes
<1>11. OrderInv' BY <1>8, <1>9, <1>10, OrderKept
<1> QED BY <1>6, <1>11

\* write() on the io thread: the line goes from the handlers to the queue, or is dropped when
\* no connection is there.
LEMMA OrderRunWrite ==
    ASSUME ChainInv, ChainInv', OrderInv, HelloInv, NEW m \in Msgs, RunWrite(m)
    PROVE  OrderInv' /\ HelloInv'
<1> DEFINE h == WriteTask(m)
<1>1. /\ Running(h) /\ ready' = Tail(ready) /\ written' = written /\ sessions' = sessions
      /\ sent' = sent
  BY DEF RunWrite, bounds, history, chain
<1>2. CASE ~connected \/ ~sock
  <2>1. Way' = Way BY <1>2 DEF RunWrite, Way, chain
  <2> HIDE DEF h
  <2> QED BY <1>1, <2>1, TakenStep
<1>3. CASE connected /\ sock
  <2>1. queue' = Append(queue, m) BY <1>3 DEF RunWrite, do_write_next
  <2>2. Way' = Append(Way, m)
    <3>1. sent \in Seq(Msgs) /\ queue \in Seq(Msgs) BY WayTypes
    <3>2. sent \o Append(queue, m) = Append(sent \o queue, m) BY <3>1, AppendLast
    <3> QED BY <1>1, <2>1, <3>2 DEF Way
  <2>3. OrderInv' BY <1>1, <2>2, OrderQueued
  <2>4. Times(Way', {Hello}) = Times(Way, {Hello}) + (IF m \in {Hello} THEN 1 ELSE 0)
    BY <2>2, WayTypes, TimesAppend
  <2>5. m \in {Hello} <=> h \in HelloTask
    <3>1. h \in HelloTask => m = Hello
      <4>1. Hello \in Msgs BY ClientBounds DEF Hello, Msgs
      <4> QED BY <4>1, KindOf DEF HelloTask
    <3> QED BY <3>1 DEF HelloTask
  <2> HIDE DEF h
  <2>6. /\ Times(ready, HelloTask) = Times(ready', HelloTask) + (IF h \in HelloTask THEN 1 ELSE 0)
        /\ Times(ready', HelloTask) \in Nat
    BY <1>1, HandlerTaken
  <2>7. Times(Way', {Hello}) + Times(ready', HelloTask) = Times(Way, {Hello}) + Times(ready, HelloTask)
    <3>1. Times(Way, {Hello}) \in Nat BY WayBegins
    <3>2. CASE h \in HelloTask
      <4>1. /\ Times(Way', {Hello}) = Times(Way, {Hello}) + 1
            /\ Times(ready, HelloTask) = Times(ready', HelloTask) + 1
        BY <2>4, <2>5, <2>6, <3>2
      <4> QED BY <2>6, <3>1, <4>1
    <3>3. CASE h \notin HelloTask
      <4>1. /\ Times(Way', {Hello}) = Times(Way, {Hello}) + 0
            /\ Times(ready, HelloTask) = Times(ready', HelloTask) + 0
        BY <2>4, <2>5, <2>6, <3>3
      <4> QED BY <2>6, <3>1, <4>1
    <3> QED BY <3>2, <3>3
  <2>8. HelloInv' BY <1>1, <2>7 DEF HelloInv
  <2> QED BY <2>3, <2>8
<1> QED BY <1>2, <1>3

\* An error: the lines in the queue of the connection that ends are dropped, and no other.
LEMMA OrderError ==
    ASSUME ChainInv, ChainInv', OrderInv, HelloInv, OnError
    PROVE  OrderInv' /\ HelloInv'
<1>1. PICK kind \in {"resolved", "connected", "read", "wrote"} : Running(Done(kind, "error"))
  BY DEF OnError
<1>2. ready' = Tail(ready) /\ written' = written /\ sessions' = sessions /\ sent' = sent
  BY DEF OnError, handle_disconnect, bounds
<1>3. sent \in Seq(Msgs) BY WayTypes
<1>4. Way' = Way \/ Way' = sent
  <2>1. CASE connected
    <3>1. queue' = <<>> BY <2>1 DEF OnError, handle_disconnect
    <3>2. Way' = sent \o <<>> BY <1>2, <3>1 DEF Way
    <3> QED BY <1>3, <3>2, ConcatEmptySeq
  <2>2. CASE ~connected
    <3>1. queue' = queue BY <2>2 DEF OnError, handle_disconnect
    <3> QED BY <1>2, <3>1 DEF Way
  <2> QED BY <2>1, <2>2
<1> QED BY <1>1, <1>2, <1>4, TakenStep

\* A write completed: its line goes from the front of the queue to what was sent.
LEMMA OrderWrote ==
    ASSUME ChainInv, ChainInv', OrderInv, HelloInv, OnWrote
    PROVE  OrderInv' /\ HelloInv'
<1>1. /\ Running(Done("wrote", "ok")) /\ ready' = Tail(ready)
      /\ written' = written /\ sessions' = sessions
  BY DEF OnWrote, bounds, history
<1>2. Way' = Way
  <2>1. CASE queue = <<>> BY <2>1 DEF OnWrote, Way, chain
  <2>2. CASE queue # <<>>
    <3>1. sent' = Append(sent, Head(queue)) /\ queue' = Tail(queue)
      BY <2>2 DEF OnWrote, do_write_next
    <3>2. sent \in Seq(Msgs) /\ queue \in Seq(Msgs) BY WayTypes
    <3> QED BY <2>2, <3>1, <3>2, MoveFront DEF Way
  <2> QED BY <2>1, <2>2
<1> QED BY <1>1, <1>2, TakenStep

\* The steps of the UI thread and of the reactor, and the end of run().
LEMMA OrderUiReactor ==
    ASSUME ChainInv, ChainInv', OrderInv, HelloInv, Ui \/ Reactor \/ IoExit
    PROVE  OrderInv' /\ HelloInv'
<1> USE DEF ui, chain, bounds, history
<1>1. CASE Connect
  <2>1. ready' = ready /\ Way' = Way /\ written' = written /\ sessions' = sessions
    BY <1>1 DEF Connect, Way
  <2> QED BY <2>1, SameStep
<1>2. CASE Write BY <1>2, OrderWritten, HelloWritten
<1>3. CASE StopFlag
  <2>1. ready' = ready /\ Way' = Way /\ written' = written /\ sessions' = sessions
    BY <1>3 DEF StopFlag, Way
  <2> QED BY <2>1, SameStep
<1>4. CASE StopPost
  <2>1. /\ ready' = Append(ready, CloseTask)
        /\ Way' = Way /\ written' = written /\ sessions' = sessions
    BY <1>4 DEF StopPost, Way
  <2> QED BY <2>1, HandlersAre, NoTask, OtherPostStep
<1>5. CASE StopJoin
  <2>1. queue = <<>> BY <1>5 DEF StopJoin, ChainInv, ThreadInv, WriteInv
  <2>2. ready' = ready /\ Way' = Way /\ written' = written /\ sessions' = sessions
    BY <1>5, <2>1 DEF StopJoin, Way
  <2> QED BY <2>2, SameStep
<1>6. CASE IoExit
  <2>1. ready' = ready /\ Way' = Way /\ written' = written /\ sessions' = sessions
    BY <1>6 DEF IoExit, Way
  <2> QED BY <2>1, SameStep
<1>7. CASE Reactor
  <2>1. PICK ec \in Codes : ResolveReady(ec) \/ ConnectReady(ec) \/ ReadReady(ec) \/ WriteReady(ec)
    BY <1>7 DEF Reactor
  <2>2. PICK kind \in {"resolved", "connected", "read", "wrote"} :
           ready' = Append(ready, Done(kind, ec))
    BY <2>1 DEF ResolveReady, ConnectReady, ReadReady, WriteReady
  <2>3. Way' = Way /\ written' = written /\ sessions' = sessions
    BY <2>1 DEF ResolveReady, ConnectReady, ReadReady, WriteReady, Way
  <2> DEFINE h == Done(kind, ec)
  <2>4. h \in Handlers /\ h \notin UserTasks \cup HelloTask BY HandlersAre, NoTask
  <2>5. ready' = Append(ready, h) BY <2>2
  <2> HIDE DEF h
  <2> QED BY <2>3, <2>4, <2>5, OtherPostStep
<1> QED BY <1>1, <1>2, <1>3, <1>4, <1>5, <1>6, <1>7 DEF Ui

\* Every step keeps the order.
LEMMA OrderNext ==
    ASSUME ChainInv, ChainInv', OrderInv, HelloInv, [Next]_vars
    PROVE  OrderInv' /\ HelloInv'
<1> USE DEF ui, chain, bounds, history
<1>1. CASE Ui \/ Reactor \/ IoExit BY <1>1, OrderUiReactor
<1>2. CASE OnResolved
  <2>1. /\ Running(Done("resolved", "ok")) /\ ready' = Tail(ready)
        /\ Way' = Way /\ written' = written /\ sessions' = sessions
    BY <1>2 DEF OnResolved, Way
  <2> QED BY <2>1, TakenStep
<1>3. CASE OnConnected BY <1>3, OrderConnected
<1>4. CASE OnLine
  <2>1. /\ Running(Done("read", "ok")) /\ ready' = Tail(ready)
        /\ Way' = Way /\ written' = written /\ sessions' = sessions
    BY <1>4 DEF OnLine, Way
  <2> QED BY <2>1, TakenStep
<1>5. CASE OnError BY <1>5, OrderError
<1>6. CASE OnWrote BY <1>6, OrderWrote
<1>7. CASE RunClose
  <2>1. /\ Running(CloseTask) /\ ready' = Tail(ready)
        /\ Way' = Way /\ written' = written /\ sessions' = sessions
    BY <1>7 DEF RunClose, Way
  <2> QED BY <2>1, TakenStep
<1>8. CASE \E m \in Msgs : RunWrite(m) BY <1>8, OrderRunWrite
<1>9. CASE UNCHANGED vars
  <2>1. ready' = ready /\ Way' = Way /\ written' = written /\ sessions' = sessions
    BY <1>9 DEF vars, Way
  <2> QED BY <2>1, SameStep
<1> QED BY <1>1, <1>2, <1>3, <1>4, <1>5, <1>6, <1>7, <1>8, <1>9 DEF Next, IoThread

\* Nothing was given, queued or sent at first.
LEMMA OrderInit == Init => OrderInv /\ HelloInv
<1> SUFFICES ASSUME Init PROVE OrderInv /\ HelloInv
  OBVIOUS
<1>1. sent = <<>> /\ queue = <<>> /\ ready = <<>> /\ sessions = 0 BY DEF Init
<1>2. ready \in Seq(Handlers) /\ sent \in Seq(Msgs) BY <1>1, EmptySeq
<1>3. Way = <<>> BY <1>1, <1>2, ConcatEmptySeq DEF Way
<1>4. Len(Way) = 0 /\ Len(ready) = 0 /\ 1..0 = {} BY <1>1, <1>3, EmptySeq, SMT
<1>5. OrderInv BY <1>4 DEF OrderInv
<1>6. Times(Way, {Hello}) = 0 /\ Times(ready, HelloTask) = 0
  BY <1>1, <1>2, <1>3, TimesIsNat
<1>7. HelloInv BY <1>1, <1>6 DEF HelloInv
<1> QED BY <1>5, <1>7

(***************************************************************************)
(* What the runs check on a small instance, for any number of calls.       *)
(***************************************************************************)

\* The chains and the order, whatever the UI thread, the io thread and the reactor do
\* (tcp_client.h).
THEOREM ClientInvariant == Spec => [](ChainInv /\ OrderInv /\ HelloInv)
<1>1. Init => ChainInv /\ OrderInv /\ HelloInv BY ChainInit, OrderInit
<1>2. ChainInv /\ OrderInv /\ HelloInv /\ [Next]_vars => (ChainInv /\ OrderInv /\ HelloInv)'
  BY ChainNext, OrderNext
<1> QED BY <1>1, <1>2, PTL DEF Spec

\* Every variable has its type.
THEOREM ClientTypeCorrect == Spec => []ClientTypeOK
<1>1. ChainInv => ClientTypeOK BY DEF ChainInv
<1> QED BY <1>1, ClientInvariant, PTL

\* A connection that was established is reported lost exactly once (tcp_client.h:147-153,
\* 219-236).
THEOREM ReportedOnceHolds == Spec => []ReportedOnce
<1>1. ChainInv => ReportedOnce BY DEF ChainInv
<1> QED BY <1>1, ClientInvariant, PTL

\* While connected one write is under way at most, of the line at the front of the queue, and
\* one is while the queue has lines (tcp_client.h:71-74, 199-217).
THEOREM ConnectedWriteChainHolds == Spec => []ConnectedWriteChain
<1>1. ChainInv => ConnectedWriteChain
  <2> SUFFICES ASSUME ChainInv, connected
               PROVE  LET wrote == Queued(Done("wrote", "ok")) \cup Queued(Done("wrote", "error"))
                      IN  /\ Len(inflight) + Cardinality(wrote) = IF queue = <<>> THEN 0 ELSE 1
                          /\ inflight # <<>> => Head(inflight) = Head(queue)
    BY DEF ConnectedWriteChain
  <2>1. /\ ready \in Seq(Handlers) /\ inflight \in Seq(Msgs) /\ AtMostOne(ready, WroteDone)
        /\ inflight # <<>> => ~Has(ready, WroteDone) /\ inflight = <<Head(inflight)>>
        /\ inflight # <<>> \/ Has(ready, WroteDone) <=> queue # <<>>
        /\ inflight # <<>> => Head(inflight) = Head(queue)
    BY DEF ChainInv, ClientTypeOK, WriteInv, Writing
  <2>2. Queued(Done("wrote", "ok")) \cup Queued(Done("wrote", "error")) = Places(ready, WroteDone)
    <3>1. DOMAIN ready = 1..Len(ready) BY <2>1, LenProperties
    <3> QED BY <3>1 DEF Queued, Places, WroteDone
  <2>3. Times(ready, WroteDone) = IF Has(ready, WroteDone) THEN 1 ELSE 0
    BY <2>1, TimesOfOne
  <2>4. Len(inflight) = IF inflight = <<>> THEN 0 ELSE 1
    <3>1. CASE inflight = <<>> BY <3>1, EmptySeq
    <3>2. CASE inflight # <<>>
      <4>1. inflight = <<Head(inflight)>> BY <2>1, <3>2
      <4>2. Len(inflight) = 1 BY <4>1, SMT
      <4> QED BY <3>2, <4>2
    <3> QED BY <3>1, <3>2
  <2>5. Len(inflight) + Times(ready, WroteDone) = IF queue = <<>> THEN 0 ELSE 1
    <3>1. CASE inflight # <<>>
      <4>1. Len(inflight) = 1 /\ Times(ready, WroteDone) = 0 BY <2>1, <2>3, <2>4, <3>1
      <4>2. queue # <<>> BY <2>1, <3>1
      <4> QED BY <4>1, <4>2
    <3>2. CASE inflight = <<>> /\ Has(ready, WroteDone)
      <4>1. Len(inflight) = 0 /\ Times(ready, WroteDone) = 1 BY <2>3, <2>4, <3>2
      <4>2. queue # <<>> BY <2>1, <3>2
      <4> QED BY <4>1, <4>2
    <3>3. CASE inflight = <<>> /\ ~Has(ready, WroteDone)
      <4>1. Len(inflight) = 0 /\ Times(ready, WroteDone) = 0 BY <2>3, <2>4, <3>3
      <4>2. queue = <<>> BY <2>1, <3>3
      <4> QED BY <4>1, <4>2
    <3> QED BY <3>1, <3>2, <3>3
  <2> QED BY <2>1, <2>2, <2>5 DEF Times
<1> QED BY <1>1, ClientInvariant, PTL

\* Lines of the user go out in the order they were given and none twice, over however many
\* connections; the introduction once for a connection at most (tcp_client.h:60-77, 147-153).
THEOREM SentInOrderHolds == Spec => []SentInOrder
<1>1. ChainInv /\ OrderInv /\ HelloInv => SentInOrder
  <2> SUFFICES ASSUME ChainInv, OrderInv, HelloInv PROVE SentInOrder
    OBVIOUS
  <2>1. DOMAIN sent = 1..Len(sent) /\ ready \in Seq(Handlers) /\ sessions \in Nat
    BY WayTypes, LenProperties
  <2>2. \A j, k \in DOMAIN sent :
           j < k /\ sent[j] # Hello /\ sent[k] # Hello => sent[j] < sent[k]
    BY <2>1, WayBegins DEF OrderInv
  <2>3. {k \in DOMAIN sent : sent[k] = Hello} = Places(sent, {Hello})
    BY <2>1 DEF Places
  <2>4. Times(sent, {Hello}) <= sessions
    <3>1. Times(Way, {Hello}) + Times(ready, HelloTask) <= sessions BY DEF HelloInv
    <3>2. Times(ready, HelloTask) \in Nat BY <2>1, TimesIsNat
    <3> QED BY <2>1, <3>1, <3>2, WayBegins
  <2> QED BY <2>2, <2>3, <2>4 DEF SentInOrder, Times
<1> QED BY <1>1, ClientInvariant, PTL

(***************************************************************************)
(* The chat client.                                                        *)
(***************************************************************************)
Statuses == [of: Names, status: [online: BOOLEAN, color: Colors]]
Drawings == [text: Texts, color: Colors \cup {Grey}]
Line     == {Done("read", "ok")}

\* In s the server told the colour c of u.
ToldIn(s, u, c) ==
    \E j \in 1..Len(s) : "of" \in DOMAIN s[j] /\ s[j].of = u /\ s[j].status.color = c

\* The drawings in d are grey for users not in K, and otherwise as told in s.
Colored(d, K, s) ==
    \A k \in 1..Len(d) : IF d[k].color = Grey
                         THEN d[k].text.from \notin K
                         ELSE ToldIn(s, d[k].text.from, d[k].color)

TextsIn(d) == [k \in 1..Len(d) |-> d[k].text]

(***************************************************************************)
(* The inductive invariant.  A line that was taken from the wire was told  *)
(* once (DataInv).  While the chat is drawn, the users only grow, so that  *)
(* one that was found stays (FrameInv); what was drawn and what is still   *)
(* to be drawn is a beginning of the messages (ViewInv).                   *)
(***************************************************************************)

DataInv ==
    /\ told \in Seq(Texts \cup Statuses)
    /\ Len(told) + Times(ready, Line) <= lines
    /\ \A u \in DOMAIN users : ToldIn(told, u, users[u].color)

Drawing == at \in {"draw", "color"}

FrameInv ==
    /\ todo \in Seq(Texts) /\ drawn \in Seq(Drawings) /\ shown \in Seq(Drawings)
    /\ at = "color" => todo # <<>> /\ Head(todo).from \in DOMAIN users
    /\ Drawing => known \subseteq DOMAIN users /\ Colored(drawn, known, told)
    /\ ~Drawing => Colored(shown, known, told)

ViewInv ==
    /\ messages = TextsTold
    /\ Drawing => IsPrefix(TextsIn(drawn) \o todo, messages)
    /\ IsPrefix(TextsIn(shown), messages)

UiInv == UiTypeOK /\ NeverThrown /\ DataInv /\ FrameInv /\ ViewInv

(***************************************************************************)
(* The transport.                                                          *)
(***************************************************************************)

\* The UI and the callbacks take the steps of the transport and no others.
LEMMA TransportStep ==
    ASSUME [ClientNext]_clientVars
    PROVE  [Next]_vars
<1>1. CASE UNCHANGED clientVars BY <1>1 DEF clientVars
<1>2. CASE Initialize \/ LoadTextures \/ PollEvents \/ LeaveLoop \/ drawUsers \/ drawChat
           \/ FindUser \/ DrawColored \/ FrameEnd
  BY <1>2 DEF Initialize, LoadTextures, PollEvents, LeaveLoop, drawUsers, drawChat, FindUser,
              DrawColored, FrameEnd
<1>3. CASE ServerSelection \/ LoginRegister \/ drawInput
  <2>1. Connect \/ Write \/ UNCHANGED vars
    BY <1>3 DEF ServerSelection, LoginRegister, drawInput, sendMessage, NoInput
  <2> QED BY <2>1 DEF Next, Ui
<1>4. CASE OnMessage
  <2>1. OnLine BY <1>4 DEF OnMessage, NewMessageReceived, UserStatus, ServerResponse
  <2> QED BY <2>1 DEF Next, IoThread
<1>5. CASE Stopping \/ Reactor \/ OtherIo
  BY <1>5 DEF Stopping, OtherIo, Next, Ui, IoThread
<1> QED BY <1>1, <1>2, <1>3, <1>4, <1>5 DEF ClientNext, Update

\* How a step changes the queue of handlers; a line that completes was counted as it came.
LEMMA ReadyChange ==
    ASSUME ChainInv, [Next]_vars
    PROVE  /\ lines' = lines \/ lines' = lines + 1
           /\ \/ ready' = ready
              \/ \E h \in Handlers : ready' = Append(ready, h) /\ (h \in Line => lines' = lines + 1)
              \/ ready # <<>> /\ ready' = Tail(ready)
              \/ ready # <<>> /\ ready' = Append(Tail(ready), WriteTask(Hello))
<1> USE DEF ui, chain, history, bounds
<1>1. CASE Connect \/ StopFlag \/ StopJoin \/ IoExit \/ UNCHANGED vars
  BY <1>1 DEF Connect, StopFlag, StopJoin, IoExit, vars
<1>2. CASE Write
  <2>1. written \in 0..MaxWrites /\ written < MaxWrites
    BY <1>2 DEF Write, ChainInv, ClientTypeOK
  <2>2. written + 1 \in Msgs BY <2>1, ClientBounds, SMT DEF Msgs
  <2>3. WriteTask(written + 1) \in Handlers BY <2>2, HandlersAre
  <2>4. WriteTask(written + 1) \notin Line BY <2>2, KindOf DEF Line
  <2> QED BY <1>2, <2>3, <2>4 DEF Write
<1>3. CASE StopPost
  <2>1. CloseTask \in Handlers /\ CloseTask \notin Line BY HandlersAre, KindOf DEF Line
  <2> QED BY <1>3, <2>1 DEF StopPost
<1>4. CASE Reactor
  <2>1. PICK ec \in Codes : ResolveReady(ec) \/ ConnectReady(ec) \/ ReadReady(ec) \/ WriteReady(ec)
    BY <1>4 DEF Reactor
  <2>2. CASE ReadReady(ec)
    <3>1. Done("read", ec) \in Handlers BY HandlersAre
    <3>2. ready' = Append(ready, Done("read", ec)) BY <2>2 DEF ReadReady
    <3>3. lines' = IF ec = "ok" THEN lines + 1 ELSE lines BY <2>2 DEF ReadReady
    <3>4. Done("read", ec) \in Line => ec = "ok" BY KindOf DEF Line
    <3> QED BY <3>1, <3>2, <3>3, <3>4
  <2>3. CASE ResolveReady(ec) \/ ConnectReady(ec) \/ WriteReady(ec)
    <3>1. PICK kind \in {"resolved", "connected", "wrote"} : ready' = Append(ready, Done(kind, ec))
      BY <2>3 DEF ResolveReady, ConnectReady, WriteReady
    <3>2. Done(kind, ec) \in Handlers /\ Done(kind, ec) \notin Line
      BY HandlersAre, KindOf DEF Line
    <3>3. lines' = lines BY <2>3 DEF ResolveReady, ConnectReady, WriteReady
    <3> QED BY <3>1, <3>2, <3>3
  <2> QED BY <2>1, <2>2, <2>3
<1>5. CASE OnConnected BY <1>5 DEF OnConnected, Running
<1>6. CASE OnResolved \/ OnLine \/ OnError \/ OnWrote \/ RunClose \/ \E m \in Msgs : RunWrite(m)
  BY <1>6 DEF OnResolved, OnLine, OnError, OnWrote, RunClose, RunWrite, Running
<1> QED BY <1>1, <1>2, <1>3, <1>4, <1>5, <1>6 DEF Next, Ui, IoThread

\* So lines that wait for their handler are among those that came and were not told.
LEMMA LineKept ==
    ASSUME ChainInv, [Next]_vars
    PROVE  /\ Times(ready', Line) + lines <= Times(ready, Line) + lines' /\ lines <= lines'
           /\ Times(ready, Line) \in Nat /\ Times(ready', Line) \in Nat /\ lines \in Nat /\ lines' \in Nat
           /\ OnLine => Times(ready', Line) + 1 = Times(ready, Line)
<1>1. ready \in Seq(Handlers) /\ lines \in Nat
  <2>1. ready \in Seq(Handlers) /\ lines \in 0..MaxLines BY DEF ChainInv, ClientTypeOK
  <2> QED BY <2>1, ClientBounds, SMT
<1>2. Times(ready, Line) \in Nat BY <1>1, TimesIsNat
<1>3. lines <= lines' /\ lines' \in Nat BY <1>1, ReadyChange
<1>4. ASSUME ready # <<>>
      PROVE  /\ Times(Tail(ready), Line) <= Times(ready, Line) /\ Times(Tail(ready), Line) \in Nat
             /\ Head(ready) \in Line => Times(Tail(ready), Line) + 1 = Times(ready, Line)
             /\ Tail(ready) \in Seq(Handlers)
  <2>1. Tail(ready) \in Seq(Handlers) BY <1>1, <1>4, HeadTailProperties
  <2>2. Times(ready, Line) = Times(Tail(ready), Line) + (IF Head(ready) \in Line THEN 1 ELSE 0)
    BY <1>1, <1>4, TimesTail
  <2>3. Times(Tail(ready), Line) \in Nat BY <2>1, TimesIsNat
  <2> QED BY <2>1, <2>2, <2>3
<1>5. CASE ready' = ready
  <2>1. ~OnLine
    <3>1. Len(Tail(ready)) # Len(ready) \/ ready = <<>>
      <4>1. ready # <<>> => Len(Tail(ready)) = Len(ready) - 1 /\ Len(ready) \in Nat
        BY <1>1, HeadTailProperties
      <4> QED BY <4>1
    <3> QED BY <1>5, <3>1 DEF OnLine, Running
  <2> QED BY <1>1, <1>2, <1>3, <1>5, <2>1
<1>6. ASSUME NEW h \in Handlers, ready' = Append(ready, h), h \in Line => lines' = lines + 1
      PROVE  /\ Times(ready', Line) + lines <= Times(ready, Line) + lines'
             /\ Times(ready', Line) \in Nat /\ ~OnLine
  <2>1. Times(ready', Line) = Times(ready, Line) + (IF h \in Line THEN 1 ELSE 0)
    BY <1>1, <1>6, TimesAppend
  <2>2. ~OnLine
    <3>1. ready # <<>> => Len(Tail(ready)) = Len(ready) - 1 /\ Len(ready) \in Nat
      BY <1>1, HeadTailProperties
    <3>2. Len(Append(ready, h)) = Len(ready) + 1 BY <1>1, AppendProperties
    <3>3. ready # <<>> => Append(ready, h) # Tail(ready) BY <3>1, <3>2
    <3> QED BY <1>6, <3>3 DEF OnLine, Running
  <2>3. CASE h \in Line
    <3>1. Times(ready', Line) = Times(ready, Line) + 1 /\ lines' = lines + 1 BY <1>6, <2>1, <2>3
    <3>2. Times(ready', Line) + lines <= Times(ready, Line) + lines' /\ Times(ready', Line) \in Nat
      BY <1>1, <1>2, <3>1, SMT
    <3> QED BY <2>2, <3>2
  <2>4. CASE h \notin Line
    <3>1. Times(ready', Line) = Times(ready, Line) + 0 BY <2>1, <2>4
    <3>2. Times(ready', Line) + lines <= Times(ready, Line) + lines' /\ Times(ready', Line) \in Nat
      BY <1>1, <1>2, <1>3, <3>1, SMT
    <3> QED BY <2>2, <3>2
  <2> QED BY <2>3, <2>4
<1>7. CASE ready # <<>> /\ ready' = Tail(ready)
  <2>1. OnLine => Head(ready) \in Line BY DEF OnLine, Running, Line
  <2>2. Times(ready', Line) + lines <= Times(ready, Line) + lines'
    BY <1>1, <1>2, <1>3, <1>4, <1>7
  <2> QED BY <1>1, <1>2, <1>3, <1>4, <1>7, <2>1, <2>2
<1>8. CASE ready # <<>> /\ ready' = Append(Tail(ready), WriteTask(Hello))
  <2>1. WriteTask(Hello) \in Handlers /\ WriteTask(Hello) \notin Line
    <3>1. Hello \in Msgs BY ClientBounds DEF Hello, Msgs
    <3> QED BY <3>1, HandlersAre, KindOf DEF Line
  <2> DEFINE q == Tail(ready)
             t == WriteTask(Hello)
  <2>2. q \in Seq(Handlers) /\ t \in Handlers /\ t \notin Line /\ ready' = Append(q, t)
    BY <1>4, <1>8, <2>1
  <2> HIDE DEF q, t
  <2>3. Times(ready', Line) = Times(q, Line) + (IF t \in Line THEN 1 ELSE 0) BY <2>2, TimesAppend
  <2>4. Times(ready', Line) = Times(q, Line) + 0 /\ Len(ready') = Len(q) + 1 /\ Len(q) \in Nat
    BY <2>2, <2>3, AppendProperties, LenProperties
  <2>5. ~OnLine
    <3>1. OnLine => ready' = q BY DEF OnLine, q
    <3>2. ready' # q BY <2>4
    <3> QED BY <3>1, <3>2
  <2>6. /\ Times(ready', Line) + lines <= Times(ready, Line) + lines'
        /\ Times(ready', Line) \in Nat
    BY <1>1, <1>2, <1>3, <1>4, <1>8, <2>4 DEF q
  <2> QED BY <1>1, <1>2, <1>3, <2>5, <2>6
<1> QED BY <1>1, <1>2, <1>3, <1>5, <1>6, <1>7, <1>8, ReadyChange

(***************************************************************************)
(* The data that the server sent.                                          *)
(***************************************************************************)

\* What was told stays told.
LEMMA ToldAppend ==
    ASSUME NEW S, NEW s \in Seq(S), NEW e \in S
    PROVE  \A u, c : ToldIn(s, u, c) => ToldIn(Append(s, e), u, c)
<1>1. /\ Len(s) \in Nat /\ Len(Append(s, e)) = Len(s) + 1
      /\ \A k \in 1..Len(s) : Append(s, e)[k] = s[k]
  BY AppendProperties, LenProperties
<1>2. \A k \in 1..Len(s) : k \in 1..Len(Append(s, e)) BY <1>1, SMT
<1> QED BY <1>1, <1>2 DEF ToldIn

\* Only the handlers of a text and of a status change the data.
LEMMA DataKinds ==
    ASSUME [ClientNext]_clientVars
    PROVE  \/ UNCHANGED <<users, messages, told>>
           \/ \E u \in Names : NewMessageReceived(u)
           \/ \E u \in Names, c \in Colors : \E s \in Status(c) : UserStatus(u, s)
<1> USE DEF data
<1>1. CASE UNCHANGED clientVars BY <1>1 DEF clientVars
<1>2. CASE Initialize \/ LoadTextures \/ PollEvents \/ LeaveLoop \/ Update
  BY <1>2 DEF Initialize, LoadTextures, PollEvents, LeaveLoop, Update, ServerSelection,
              LoginRegister, drawUsers, drawInput, drawChat, FindUser, DrawColored, FrameEnd
<1>3. CASE OnMessage BY <1>3 DEF OnMessage, ServerResponse
<1>4. CASE UNCHANGED data BY <1>4
<1> QED BY <1>1, <1>2, <1>3, <1>4 DEF ClientNext

\* A text is a line that was read, so its number is one of the lines that came.
LEMMA TextReceived ==
    ASSUME ChainInv, UiInv, NEW u \in Names, NewMessageReceived(u)
    PROVE  Text(Len(told) + 1, u) \in Texts
<1>1. [Next]_vars /\ OnLine BY DEF NewMessageReceived, Next, IoThread
<1>2. Times(ready', Line) + 1 = Times(ready, Line) /\ Times(ready', Line) \in Nat
  BY <1>1, LineKept
<1>3. Len(told) \in Nat /\ Len(told) + Times(ready, Line) <= lines
  BY LenProperties DEF UiInv, DataInv
<1>4. lines \in 0..MaxLines BY DEF ChainInv, ClientTypeOK
<1>5. Len(told) + 1 \in 1..MaxLines BY <1>2, <1>3, <1>4, ClientBounds, SMT
<1> QED BY <1>5 DEF Text, Texts

\* The users, the messages and the log of what was told, after any step.
LEMMA DataStep ==
    ASSUME ChainInv, UiInv, [ClientNext]_clientVars
    PROVE  /\ DataInv' /\ messages' \in Seq(Texts)
           /\ DOMAIN users' \subseteq Names /\ DOMAIN users \subseteq DOMAIN users'
           /\ \A u \in DOMAIN users' : users'[u] \in [online: BOOLEAN, color: Colors]
           /\ \A u, c : ToldIn(told, u, c) => ToldIn(told', u, c)
<1>1. /\ told \in Seq(Texts \cup Statuses) /\ Len(told) + Times(ready, Line) <= lines
      /\ \A u \in DOMAIN users : ToldIn(told, u, users[u].color)
      /\ messages \in Seq(Texts) /\ DOMAIN users \subseteq Names
      /\ \A u \in DOMAIN users : users[u] \in [online: BOOLEAN, color: Colors]
      /\ Len(told) \in Nat
  BY LenProperties DEF UiInv, DataInv, UiTypeOK
<1>2. /\ Times(ready', Line) + lines <= Times(ready, Line) + lines'
      /\ Times(ready, Line) \in Nat /\ Times(ready', Line) \in Nat /\ lines \in Nat /\ lines' \in Nat
      /\ OnLine => Times(ready', Line) + 1 = Times(ready, Line)
  BY TransportStep, LineKept
<1>3. CASE UNCHANGED <<users, messages, told>>
  <2>1. Len(told) + Times(ready', Line) <= lines' BY <1>1, <1>2
  <2> QED BY <1>1, <1>3, <2>1 DEF DataInv
<1>4. ASSUME NEW e \in Texts \cup Statuses, told' = Append(told, e), OnLine
      PROVE  /\ told' \in Seq(Texts \cup Statuses) /\ Len(told') + Times(ready', Line) <= lines'
             /\ \A u, c : ToldIn(told, u, c) => ToldIn(told', u, c)
             /\ Len(told) + 1 \in 1..Len(told') /\ told'[Len(told) + 1] = e
  <2>1. /\ told' \in Seq(Texts \cup Statuses) /\ Len(told') = Len(told) + 1
        /\ told'[Len(told) + 1] = e
    BY <1>1, <1>4, AppendProperties
  <2>2. Times(ready', Line) + 1 = Times(ready, Line) /\ lines' = lines
    BY <1>2, <1>4 DEF OnLine, bounds
  <2>3. Len(told') + Times(ready', Line) <= lines' BY <1>1, <1>2, <2>1, <2>2
  <2>4. Len(told) + 1 \in 1..Len(told') BY <1>1, <2>1, SMT
  <2> QED BY <1>1, <1>4, <2>1, <2>3, <2>4, ToldAppend
<1>5. ASSUME NEW u \in Names, NewMessageReceived(u)
      PROVE  /\ DataInv' /\ messages' \in Seq(Texts) /\ users' = users
             /\ \A v, c : ToldIn(told, v, c) => ToldIn(told', v, c)
  <2> DEFINE m == Text(Len(told) + 1, u)
  <2>1. m \in Texts BY <1>5, TextReceived
  <2>2. /\ OnLine /\ told' = Append(told, m) /\ messages' = Append(messages, m) /\ users' = users
    BY <1>5 DEF NewMessageReceived, WithMessage
  <2> HIDE DEF m
  <2>3. messages' \in Seq(Texts) BY <1>1, <2>1, <2>2, AppendProperties
  <2> QED BY <1>1, <1>4, <2>1, <2>2, <2>3 DEF DataInv
<1>6. ASSUME NEW u \in Names, NEW c \in Colors, NEW s \in Status(c), UserStatus(u, s)
      PROVE  /\ DataInv' /\ messages' = messages
             /\ DOMAIN users' \subseteq Names /\ DOMAIN users \subseteq DOMAIN users'
             /\ \A v \in DOMAIN users' : users'[v] \in [online: BOOLEAN, color: Colors]
             /\ \A v, d : ToldIn(told, v, d) => ToldIn(told', v, d)
  <2> DEFINE e == [of |-> u, status |-> s]
  <2>1. s \in [online: BOOLEAN, color: Colors] BY DEF Status
  <2>2. e \in Statuses /\ "of" \in DOMAIN e /\ e.of = u /\ e.status = s BY <2>1 DEF Statuses
  <2>3. /\ OnLine /\ told' = Append(told, e) /\ users' = WithStatus(u, s) /\ messages' = messages
    BY <1>6 DEF UserStatus
  <2> HIDE DEF e
  <2>4. /\ told' \in Seq(Texts \cup Statuses) /\ Len(told') + Times(ready', Line) <= lines'
        /\ \A v, d : ToldIn(told, v, d) => ToldIn(told', v, d)
        /\ Len(told) + 1 \in 1..Len(told') /\ told'[Len(told) + 1] = e
    BY <1>4, <2>2, <2>3
  <2>5. /\ DOMAIN users' = DOMAIN users \cup {u} /\ users'[u] = s
        /\ \A v \in DOMAIN users : v # u => users'[v] = users[v]
    BY <2>3 DEF WithStatus
  <2>6. ToldIn(told', u, s.color) BY <2>2, <2>4 DEF ToldIn
  <2>7. \A v \in DOMAIN users' : ToldIn(told', v, users'[v].color)
    BY <1>1, <2>4, <2>5, <2>6
  <2> QED BY <1>1, <2>1, <2>3, <2>4, <2>5, <2>7 DEF DataInv
<1> QED BY <1>1, <1>3, <1>5, <1>6, DataKinds

(***************************************************************************)
(* The frames.                                                             *)
(***************************************************************************)

\* The steps that do not draw the chat, the one that finds its window collapsed among them,
\* leave the frame, and whether it is drawn.
LEMMA FrameKinds ==
    ASSUME [ClientNext]_clientVars
    PROVE  \/ UNCHANGED frame /\ (Drawing' <=> Drawing) /\ (at' = "color" <=> at = "color")
           \/ (drawChat /\ at' = "draw") \/ FindUser \/ DrawColored \/ FrameEnd
<1> USE DEF frame, loop, Drawing
<1>1. CASE UNCHANGED clientVars BY <1>1 DEF clientVars
<1>2. CASE Initialize \/ LoadTextures \/ PollEvents \/ LeaveLoop
  <2>1. UNCHANGED frame BY <1>2 DEF Initialize, LoadTextures, PollEvents, LeaveLoop
  <2>2. at \in {"init", "load", "events"} /\ at' \in {"init", "load", "over", "events", "update"}
    BY <1>2 DEF Initialize, LoadTextures, PollEvents, LeaveLoop
  <2> QED BY <2>1, <2>2
<1>3. CASE ServerSelection \/ LoginRegister \/ drawUsers \/ drawInput
  <2>1. UNCHANGED frame BY <1>3 DEF ServerSelection, LoginRegister, drawUsers, drawInput
  <2>2. at \in {"update", "input"} /\ at' \in {"events", "input", "log"}
    BY <1>3 DEF ServerSelection, LoginRegister, drawUsers, drawInput
  <2> QED BY <2>1, <2>2
<1>4. CASE OnMessage BY <1>4 DEF OnMessage, NewMessageReceived, UserStatus, ServerResponse
<1>5. CASE UNCHANGED <<loop, frame>> BY <1>5
<1>6. CASE drawChat /\ at' # "draw" BY <1>6 DEF drawChat
<1> QED BY <1>1, <1>2, <1>3, <1>4, <1>5, <1>6 DEF ClientNext, Update

\* A drawing that is added to a log.
LEMMA ColoredAppend ==
    ASSUME NEW D, NEW d \in Seq(D), NEW x \in D, NEW K, NEW s, Colored(d, K, s),
           IF x.color = Grey THEN x.text.from \notin K ELSE ToldIn(s, x.text.from, x.color)
    PROVE  Colored(Append(d, x), K, s)
<1>1. /\ Len(d) \in Nat /\ Len(Append(d, x)) = Len(d) + 1 /\ Append(d, x)[Len(d) + 1] = x
      /\ \A k \in 1..Len(d) : Append(d, x)[k] = d[k]
  BY AppendProperties, LenProperties
<1>2. ASSUME NEW k \in 1..Len(Append(d, x)), k # Len(d) + 1 PROVE k \in 1..Len(d)
  BY <1>1, <1>2, SMT
<1> QED BY <1>1, <1>2 DEF Colored

\* No step takes a user out of the map or changes what was told: the frame stays right, and
\* at() finds what find() found (chat_scene.cpp:38-49).
LEMMA FrameStep ==
    ASSUME ChainInv, UiInv, [ClientNext]_clientVars
    PROVE  FrameInv' /\ NeverThrown'
<1> USE DEF frame, data
<1>1. /\ messages \in Seq(Texts) /\ fate # "thrown"
      /\ todo \in Seq(Texts) /\ drawn \in Seq(Drawings) /\ shown \in Seq(Drawings)
      /\ at = "color" => todo # <<>> /\ Head(todo).from \in DOMAIN users
      /\ Drawing => known \subseteq DOMAIN users /\ Colored(drawn, known, told)
      /\ ~Drawing => Colored(shown, known, told)
      /\ \A u \in DOMAIN users :
            users[u] \in [online: BOOLEAN, color: Colors] /\ ToldIn(told, u, users[u].color)
  BY DEF UiInv, UiTypeOK, NeverThrown, DataInv, FrameInv
<1>2. /\ DOMAIN users \subseteq DOMAIN users'
      /\ \A u, c : ToldIn(told, u, c) => ToldIn(told', u, c)
  BY DataStep
<1>3. \A d, K : Colored(d, K, told) => Colored(d, K, told')
  BY <1>2 DEF Colored
<1>4. fate' = "thrown" => DrawColored
  <2>1. CASE UNCHANGED clientVars BY <1>1, <2>1 DEF clientVars
  <2>2. CASE Initialize \/ LoadTextures \/ PollEvents \/ LeaveLoop
    BY <1>1, <2>2 DEF Initialize, LoadTextures, PollEvents, LeaveLoop
  <2>3. CASE ServerSelection \/ LoginRegister \/ drawUsers \/ drawInput
    BY <1>1, <2>3 DEF ServerSelection, LoginRegister, drawUsers, drawInput
  <2>4. CASE drawChat \/ FindUser \/ FrameEnd
    BY <1>1, <2>4 DEF drawChat, FindUser, FrameEnd
  <2>5. CASE OnMessage
    BY <1>1, <2>5 DEF OnMessage, NewMessageReceived, UserStatus, ServerResponse, AfterGrowth
  <2>6. CASE UNCHANGED data BY <1>1, <2>6
  <2> QED BY <2>1, <2>2, <2>3, <2>4, <2>5, <2>6 DEF ClientNext, Update
<1>5. CASE UNCHANGED frame /\ (Drawing' <=> Drawing) /\ (at' = "color" <=> at = "color")
  <2>1. FrameInv' BY <1>1, <1>2, <1>3, <1>5 DEF FrameInv
  <2>2. fate' # "thrown"
    <3>1. ~DrawColored BY <1>5 DEF DrawColored
    <3> QED BY <1>4, <3>1
  <2> QED BY <2>1, <2>2 DEF NeverThrown
<1>6. CASE drawChat /\ at' = "draw"
  <2>1. /\ at' = "draw" /\ todo' = messages /\ drawn' = <<>> /\ shown' = shown
        /\ known' = DOMAIN users /\ users' = users /\ fate' = fate
    BY <1>6 DEF drawChat, CopyMessages
  <2>2. <<>> \in Seq(Drawings) /\ Colored(<<>>, known', told')
    <3>1. Len(<<>>) = 0 /\ 1..0 = {} BY EmptySeq, SMT
    <3> QED BY <3>1, EmptySeq DEF Colored
  <2>3. FrameInv' BY <1>1, <2>1, <2>2 DEF FrameInv, Drawing
  <2> QED BY <1>1, <2>1, <2>3 DEF NeverThrown
<1>7. ASSUME NEW c \in Colors \cup {Grey}, Draw(c), todo # <<>>, Drawing, told' = told,
             IF c = Grey THEN Head(todo).from \notin known ELSE ToldIn(told, Head(todo).from, c)
      PROVE  /\ todo' \in Seq(Texts) /\ drawn' \in Seq(Drawings) /\ shown' = shown
             /\ known' = known /\ Colored(drawn', known', told')
  <2> DEFINE x == [text |-> Head(todo), color |-> c]
  <2>1. Head(todo) \in Texts /\ Tail(todo) \in Seq(Texts) BY <1>1, <1>7, HeadTailProperties
  <2>2. x \in Drawings /\ x.text = Head(todo) /\ x.color = c BY <2>1 DEF Drawings
  <2>3. todo' = Tail(todo) /\ drawn' = Append(drawn, x) /\ shown' = shown /\ known' = known
    BY <1>7 DEF Draw
  <2> HIDE DEF x
  <2>4. Append(drawn, x) \in Seq(Drawings) BY <1>1, <2>2, AppendProperties
  <2>5. Colored(Append(drawn, x), known, told) BY <1>1, <1>7, <2>2, ColoredAppend
  <2> QED BY <1>7, <2>1, <2>3, <2>4, <2>5
<1>8. CASE FindUser
  <2>1. at = "draw" /\ todo # <<>> /\ Drawing /\ users' = users /\ told' = told /\ fate' = fate
    BY <1>8 DEF FindUser, Drawing
  <2>2. CASE Found(Head(todo).from)
    <3>1. at' = "color" /\ UNCHANGED <<todo, drawn, shown, known>> BY <1>8, <2>2 DEF FindUser
    <3>2. FrameInv' BY <1>1, <2>1, <2>2, <3>1 DEF FrameInv, Drawing, Found
    <3> QED BY <1>1, <2>1, <3>2 DEF NeverThrown
  <2>3. CASE ~Found(Head(todo).from)
    <3>1. at' = at /\ Draw(Grey) BY <1>8, <2>3 DEF FindUser
    <3>2. Head(todo).from \notin known BY <1>1, <2>1, <2>3 DEF Found
    <3>3. /\ todo' \in Seq(Texts) /\ drawn' \in Seq(Drawings) /\ shown' = shown
          /\ known' = known /\ Colored(drawn', known', told')
      BY <1>7, <2>1, <3>1, <3>2
    <3>4. FrameInv' BY <1>1, <2>1, <3>1, <3>3 DEF FrameInv, Drawing
    <3> QED BY <1>1, <2>1, <3>4 DEF NeverThrown
  <2> QED BY <2>2, <2>3
<1>9. CASE DrawColored
  <2>1. /\ at = "color" /\ at' = "draw" /\ todo # <<>> /\ Head(todo).from \in DOMAIN users
        /\ Drawing /\ users' = users /\ told' = told
    BY <1>1, <1>9 DEF DrawColored, Drawing
  <2> DEFINE c == users[Head(todo).from].color
  <2>2. Draw(c) /\ fate' = fate BY <1>9, <2>1 DEF DrawColored
  <2>3. c \in Colors /\ c # Grey /\ ToldIn(told, Head(todo).from, c)
    <3>1. users[Head(todo).from] \in [online: BOOLEAN, color: Colors] BY <1>1, <2>1
    <3>2. c \in Colors BY <3>1
    <3> QED BY <1>1, <2>1, <3>2, GreyAssumption
  <2> HIDE DEF c
  <2>4. /\ todo' \in Seq(Texts) /\ drawn' \in Seq(Drawings) /\ shown' = shown
        /\ known' = known /\ Colored(drawn', known', told')
    BY <1>7, <2>1, <2>2, <2>3
  <2>5. FrameInv' BY <1>1, <2>1, <2>4 DEF FrameInv, Drawing
  <2> QED BY <1>1, <2>2, <2>5 DEF NeverThrown
<1>10. CASE FrameEnd
  <2>1. /\ at = "draw" /\ at' = "events" /\ shown' = drawn /\ Drawing
        /\ UNCHANGED <<todo, drawn, known, users, told, fate>>
    BY <1>10 DEF FrameEnd, Drawing
  <2>2. FrameInv' BY <1>1, <2>1 DEF FrameInv, Drawing
  <2> QED BY <1>1, <2>1, <2>2 DEF NeverThrown
<1> QED BY <1>5, <1>6, <1>8, <1>9, <1>10, FrameKinds

(***************************************************************************)
(* What a frame shows of what the server sent.                             *)
(***************************************************************************)

\* A status is no text.
LEMMA StatusNoText == \A e \in Statuses : e \notin Texts
<1> SUFFICES ASSUME NEW e \in Statuses, e \in Texts PROVE FALSE
  OBVIOUS
<1>1. DOMAIN e = {"of", "status"} BY DEF Statuses
<1>2. DOMAIN e = {"n", "from"} BY DEF Texts
<1>3. "of" \in {"of", "status"} /\ "of" \notin {"n", "from"} OBVIOUS
<1> QED BY <1>1, <1>2, <1>3

\* The texts of the drawings, of no drawing, and of one more.
LEMMA TextsInFacts ==
    ASSUME NEW d \in Seq(Drawings)
    PROVE  /\ TextsIn(d) \in Seq(Texts) /\ Len(TextsIn(d)) = Len(d)
           /\ TextsIn(<<>>) = <<>>
           /\ \A x \in Drawings : TextsIn(Append(d, x)) = Append(TextsIn(d), x.text)
<1>1. \A e \in Seq(Drawings) : TextsIn(e) \in Seq(Texts) /\ Len(TextsIn(e)) = Len(e)
  <2> SUFFICES ASSUME NEW e \in Seq(Drawings)
               PROVE  TextsIn(e) \in Seq(Texts) /\ Len(TextsIn(e)) = Len(e)
    OBVIOUS
  <2>1. \A k \in 1..Len(e) : e[k] \in Drawings BY ElementOfSeq
  <2>2. TextsIn(e) \in [1..Len(e) -> Texts] BY <2>1 DEF TextsIn, Drawings
  <2>3. Len(e) \in Nat BY LenProperties
  <2>4. TextsIn(e) \in Seq(Texts) BY <2>2, <2>3, SeqDef
  <2>5. DOMAIN TextsIn(e) = 1..Len(e) BY DEF TextsIn
  <2>6. Len(TextsIn(e)) = Len(e) BY <2>3, <2>4, <2>5, LenProperties
  <2> QED BY <2>4, <2>6
<1>2. TextsIn(<<>>) = <<>>
  <2>1. <<>> \in Seq(Drawings) /\ Len(<<>>) = 0 BY EmptySeq
  <2> QED BY <1>1, <2>1, EmptySeq
<1>3. ASSUME NEW x \in Drawings PROVE TextsIn(Append(d, x)) = Append(TextsIn(d), x.text)
  <2> DEFINE a == Append(d, x)
             t == Append(TextsIn(d), x.text)
  <2>1. /\ a \in Seq(Drawings) /\ Len(a) = Len(d) + 1 /\ a[Len(d) + 1] = x /\ Len(d) \in Nat
        /\ \A k \in 1..Len(d) : a[k] = d[k]
    BY AppendProperties, LenProperties
  <2>2. x.text \in Texts BY DEF Drawings
  <2>3. /\ t \in Seq(Texts) /\ Len(t) = Len(d) + 1 /\ t[Len(d) + 1] = x.text
        /\ \A k \in 1..Len(d) : t[k] = TextsIn(d)[k]
    <3> DEFINE y == x.text
               u == TextsIn(d)
    <3>1. u \in Seq(Texts) /\ Len(u) = Len(d) /\ y \in Texts BY <1>1, <2>2
    <3> HIDE DEF y, u
    <3>2. /\ Append(u, y) \in Seq(Texts) /\ Len(Append(u, y)) = Len(u) + 1
          /\ Append(u, y)[Len(u) + 1] = y
          /\ \A k \in 1..Len(u) : Append(u, y)[k] = u[k]
      BY <3>1, AppendProperties
    <3> QED BY <3>1, <3>2 DEF y, u
  <2>4. TextsIn(a) \in Seq(Texts) /\ Len(TextsIn(a)) = Len(d) + 1 BY <1>1, <2>1
  <2>5. ASSUME NEW k \in 1..(Len(d) + 1) PROVE TextsIn(a)[k] = t[k]
    <3>1. TextsIn(a)[k] = a[k].text BY <2>1 DEF TextsIn
    <3>2. CASE k = Len(d) + 1 BY <2>1, <2>3, <3>1, <3>2
    <3>3. CASE k # Len(d) + 1
      <4>1. k \in 1..Len(d) BY <2>1, <3>3, SMT
      <4>2. TextsIn(d)[k] = d[k].text BY <4>1 DEF TextsIn
      <4> QED BY <2>1, <2>3, <3>1, <4>1, <4>2
    <3> QED BY <3>2, <3>3
  <2> HIDE DEF a, t
  <2>6. TextsIn(a) = t BY <2>3, <2>4, <2>5, SeqEqual
  <2> QED BY <2>6 DEF a, t
<1> QED BY <1>1, <1>2, <1>3

\* What is drawn and what is still to be drawn is a beginning of the messages, and so of what
\* was told (data_manager.cpp:73-82, chat_scene.cpp:32-58).
LEMMA ViewStep ==
    ASSUME ChainInv, UiInv, [ClientNext]_clientVars
    PROVE  ViewInv'
<1> USE DEF frame
<1>1. /\ told \in Seq(Texts \cup Statuses) /\ messages \in Seq(Texts)
      /\ messages = Filter(told, Texts)
      /\ todo \in Seq(Texts) /\ drawn \in Seq(Drawings) /\ shown \in Seq(Drawings)
      /\ Drawing => IsPrefix(TextsIn(drawn) \o todo, messages)
      /\ IsPrefix(TextsIn(shown), messages)
  BY DEF UiInv, UiTypeOK, DataInv, FrameInv, ViewInv, TextsTold
<1>2. /\ messages' = Filter(told', Texts)
      /\ \A d \in Seq(Texts) : IsPrefix(d, messages) => IsPrefix(d, messages')
  <2>1. CASE UNCHANGED <<users, messages, told>> BY <1>1, <2>1
  <2>2. ASSUME NEW u \in Names, NewMessageReceived(u)
        PROVE  /\ messages' = Filter(told', Texts)
               /\ \A d \in Seq(Texts) : IsPrefix(d, messages) => IsPrefix(d, messages')
    <3> DEFINE m == Text(Len(told) + 1, u)
    <3>1. m \in Texts BY <2>2, TextReceived
    <3>2. told' = Append(told, m) /\ messages' = Append(messages, m)
      BY <2>2 DEF NewMessageReceived, WithMessage
    <3> HIDE DEF m
    <3>3. Filter(Append(told, m), Texts) = Append(Filter(told, Texts), m)
      <4> DEFINE S == Texts \cup Statuses
      <4>1. told \in Seq(S) /\ m \in S BY <1>1, <3>1
      <4> HIDE DEF S
      <4>2. Filter(Append(told, m), Texts)
               = IF m \in Texts THEN Append(Filter(told, Texts), m) ELSE Filter(told, Texts)
        BY <4>1, FilterAppend
      <4> QED BY <3>1, <4>2
    <3>4. \A d \in Seq(Texts) : IsPrefix(d, messages) => IsPrefix(d, Append(messages, m))
      BY <1>1, <3>1, PrefixAppend
    <3> QED BY <1>1, <3>2, <3>3, <3>4
  <2>3. ASSUME NEW u \in Names, NEW c \in Colors, NEW s \in Status(c), UserStatus(u, s)
        PROVE  messages' = Filter(told', Texts) /\ messages' = messages
    <3> DEFINE e == [of |-> u, status |-> s]
    <3>1. e \in Statuses BY DEF Statuses, Status
    <3>2. told' = Append(told, e) /\ messages' = messages BY <2>3 DEF UserStatus
    <3>3. e \notin Texts BY <3>1, StatusNoText
    <3> HIDE DEF e
    <3>4. Filter(Append(told, e), Texts) = Filter(told, Texts)
      <4> DEFINE S == Texts \cup Statuses
      <4>1. told \in Seq(S) /\ e \in S BY <1>1, <3>1
      <4> HIDE DEF S
      <4>2. Filter(Append(told, e), Texts)
               = IF e \in Texts THEN Append(Filter(told, Texts), e) ELSE Filter(told, Texts)
        BY <4>1, FilterAppend
      <4> QED BY <3>1, <3>3, <4>2
    <3> QED BY <1>1, <3>2, <3>4
  <2> QED BY <1>1, <2>1, <2>2, <2>3, DataKinds
<1>3. /\ TextsIn(drawn) \in Seq(Texts) /\ TextsIn(shown) \in Seq(Texts)
      /\ TextsIn(drawn) \o todo \in Seq(Texts)
  <2>1. TextsIn(drawn) \in Seq(Texts) /\ TextsIn(shown) \in Seq(Texts) BY <1>1, TextsInFacts
  <2> QED BY <1>1, <2>1, ConcatProperties
<1>4. messages' = TextsTold' BY <1>2 DEF TextsTold
<1>5. CASE UNCHANGED frame /\ (Drawing' <=> Drawing)
  BY <1>1, <1>2, <1>3, <1>4, <1>5 DEF ViewInv
<1>6. CASE drawChat /\ at' = "draw"
  <2>1. /\ todo' = messages /\ drawn' = <<>> /\ shown' = shown /\ messages' = messages
    BY <1>6 DEF drawChat, CopyMessages, data
  <2>2. TextsIn(drawn') \o todo' = messages
    <3>1. TextsIn(<<>>) = <<>> BY <1>1, TextsInFacts
    <3>2. <<>> \o messages = messages BY <1>1, ConcatEmptySeq
    <3> QED BY <2>1, <3>1, <3>2
  <2>3. IsPrefix(messages, messages)
    BY <1>1, PrefixElements, LenProperties
  <2> QED BY <1>1, <1>4, <2>1, <2>2, <2>3 DEF ViewInv
<1>7. ASSUME NEW c \in Colors \cup {Grey}, Draw(c), todo # <<>>, Drawing, messages' = messages
      PROVE  ViewInv'
  <2> DEFINE h == Head(todo)
             x == [text |-> h, color |-> c]
  <2>1. h \in Texts /\ Tail(todo) \in Seq(Texts) BY <1>1, <1>7, HeadTailProperties
  <2>2. x \in Drawings /\ x.text = h BY <2>1 DEF Drawings
  <2>3. todo' = Tail(todo) /\ drawn' = Append(drawn, x) /\ shown' = shown
    BY <1>7 DEF Draw
  <2>4. TextsIn(drawn') = Append(TextsIn(drawn), h)
    <3> HIDE DEF x
    <3> QED BY <1>1, <2>2, <2>3, TextsInFacts
  <2>5. Append(TextsIn(drawn), h) \o Tail(todo) = TextsIn(drawn) \o todo
    BY <1>1, <1>3, <1>7, MoveFront
  <2>6. TextsIn(drawn') \o todo' = TextsIn(drawn) \o todo BY <2>3, <2>4, <2>5
  <2> QED BY <1>1, <1>4, <1>7, <2>3, <2>6 DEF ViewInv
<1>8. CASE FindUser
  <2>1. todo # <<>> /\ Drawing /\ messages' = messages
    BY <1>8 DEF FindUser, Drawing, data
  <2>2. CASE Found(Head(todo).from)
    <3>1. UNCHANGED <<todo, drawn, shown>> BY <1>8, <2>2 DEF FindUser
    <3> QED BY <1>1, <1>4, <2>1, <3>1 DEF ViewInv
  <2>3. CASE ~Found(Head(todo).from)
    <3>1. Draw(Grey) BY <1>8, <2>3 DEF FindUser
    <3> QED BY <1>7, <2>1, <3>1
  <2> QED BY <2>2, <2>3
<1>9. CASE DrawColored
  <2>1. todo # <<>> /\ Drawing /\ messages' = messages /\ Head(todo).from \in DOMAIN users
    BY <1>9 DEF DrawColored, Drawing, UiInv, FrameInv
  <2> DEFINE c == users[Head(todo).from].color
  <2>2. Draw(c) BY <1>9, <2>1 DEF DrawColored
  <2>3. c \in Colors
    <3>1. users[Head(todo).from] \in [online: BOOLEAN, color: Colors]
      BY <2>1 DEF UiInv, UiTypeOK
    <3> QED BY <3>1
  <2> HIDE DEF c
  <2> QED BY <1>7, <2>1, <2>2, <2>3
<1>10. CASE FrameEnd
  <2>1. /\ at = "draw" /\ at' = "events" /\ shown' = drawn /\ todo = <<>> /\ messages' = messages
    BY <1>10 DEF FrameEnd, data
  <2>2. TextsIn(drawn) \o todo = TextsIn(drawn) BY <1>3, <2>1, ConcatEmptySeq
  <2> QED BY <1>1, <1>4, <2>1, <2>2 DEF ViewInv, Drawing
<1> QED BY <1>5, <1>6, <1>8, <1>9, <1>10, FrameKinds

(***************************************************************************)
(* The theorems about what is shown.                                       *)
(***************************************************************************)

\* The UI thread stays in its loop, and what was typed early is what was typed.
LEMMA LoopTypes ==
    ASSUME ChainInv, UiInv, [ClientNext]_clientVars
    PROVE  /\ scene' \in {"select", "login", "chat"} /\ done' \in BOOLEAN
           /\ at' \in {"init", "load", "events", "update", "input", "log", "draw", "color", "over"}
           /\ fate' \in {"alive", "thrown", "torn"}
           /\ early' \subseteq 1..MaxWrites
<1> USE DEF loop, data
<1>1. /\ scene \in {"select", "login", "chat"} /\ done \in BOOLEAN
      /\ at \in {"init", "load", "events", "update", "input", "log", "draw", "color", "over"}
      /\ fate \in {"alive", "thrown", "torn"} /\ early \subseteq 1..MaxWrites
  BY DEF UiInv, UiTypeOK
<1>2. sendMessage => early' \subseteq 1..MaxWrites
  <2>1. ASSUME sendMessage PROVE early' \subseteq 1..MaxWrites
    <3>1. written \in 0..MaxWrites /\ written < MaxWrites
      BY <2>1 DEF sendMessage, Write, ChainInv, ClientTypeOK
    <3>2. written + 1 \in 1..MaxWrites BY <3>1, ClientBounds, SMT
    <3>3. early' = early \/ early' = early \cup {written + 1} BY <2>1 DEF sendMessage
    <3> QED BY <1>1, <3>2, <3>3
  <2> QED BY <2>1
<1>3. CASE UNCHANGED clientVars BY <1>1, <1>3 DEF clientVars
<1>4. CASE Initialize \/ LoadTextures \/ PollEvents \/ LeaveLoop
  BY <1>1, <1>4 DEF Initialize, LoadTextures, PollEvents, LeaveLoop
<1>5. CASE ServerSelection \/ LoginRegister \/ drawInput
  BY <1>1, <1>2, <1>5 DEF ServerSelection, LoginRegister, drawInput, NoInput
<1>6. CASE drawUsers \/ drawChat \/ FindUser \/ DrawColored \/ FrameEnd
  BY <1>1, <1>6 DEF drawUsers, drawChat, FindUser, DrawColored, FrameEnd
<1>7. CASE OnMessage
  <2>1. UNCHANGED <<loop, early>> BY <1>7 DEF OnMessage, NewMessageReceived, UserStatus, ServerResponse
  <2>2. fate' \in {"alive", "torn", fate}
    BY <1>7 DEF OnMessage, NewMessageReceived, UserStatus, ServerResponse, AfterGrowth
  <2> QED BY <1>1, <2>1, <2>2
<1>8. CASE UNCHANGED <<loop, frame, data, early>> BY <1>1, <1>8
<1> QED BY <1>3, <1>4, <1>5, <1>6, <1>7, <1>8 DEF ClientNext, Update

\* The client as main() makes it.
LEMMA UiInit == ClientInit => ChainInv /\ UiInv
<1> SUFFICES ASSUME ClientInit PROVE ChainInv /\ UiInv
  OBVIOUS
<1>1. Init BY DEF ClientInit
<1>2. ChainInv BY <1>1, ChainInit
<1>3. /\ scene = "select" /\ at = "init" /\ done = FALSE
      /\ users = <<>> /\ messages = <<>> /\ told = <<>> /\ fate = "alive"
      /\ todo = <<>> /\ drawn = <<>> /\ shown = <<>> /\ known = {} /\ early = {}
      /\ ready = <<>> /\ lines = 0
  BY DEF ClientInit, Init
<1>4. DOMAIN users = {} /\ Len(<<>>) = 0 /\ 1..0 = {} BY <1>3, EmptySeq, SMT
<1>5. UiTypeOK BY <1>2, <1>3, <1>4, EmptySeq DEF UiTypeOK, ChainInv
<1>6. DataInv
  <2>1. Times(ready, Line) = 0
    <3>1. ready \in Seq(Handlers) BY <1>3, EmptySeq
    <3> QED BY <1>3, <3>1, TimesIsNat
  <2>2. Len(told) + Times(ready, Line) <= lines BY <1>3, <1>4, <2>1
  <2>3. told \in Seq(Texts \cup Statuses) BY <1>3, EmptySeq
  <2> QED BY <1>4, <2>2, <2>3 DEF DataInv
<1>7. FrameInv BY <1>3, <1>4, EmptySeq DEF FrameInv, Drawing, Colored
<1>8. ViewInv
  <2>1. messages = TextsTold BY <1>3, FilterEmpty DEF TextsTold
  <2>2. <<>> \in Seq(Texts) /\ <<>> \in Seq(Drawings) BY EmptySeq
  <2>3. TextsIn(shown) = <<>> BY <1>3, <2>2, TextsInFacts
  <2>4. IsPrefix(<<>>, messages)
    <3>1. \A d \in Seq(Texts) : IsPrefix(d, d) BY PrefixElements, LenProperties
    <3> QED BY <1>3, <2>2, <3>1
  <2> QED BY <1>3, <2>1, <2>3, <2>4 DEF ViewInv, Drawing
<1> QED BY <1>2, <1>3, <1>5, <1>6, <1>7, <1>8 DEF UiInv, NeverThrown

\* Every step keeps the transport and the frames.
LEMMA UiNext == ChainInv /\ UiInv /\ [ClientNext]_clientVars => (ChainInv /\ UiInv)'
<1> SUFFICES ASSUME ChainInv, UiInv, [ClientNext]_clientVars PROVE ChainInv' /\ UiInv'
  OBVIOUS
<1>1. ChainInv' BY TransportStep, ChainNext
<1>2. UiTypeOK'
  <2>1. ClientTypeOK' BY <1>1 DEF ChainInv
  <2> QED BY <2>1, LoopTypes, DataStep DEF UiTypeOK
<1>3. NeverThrown' /\ FrameInv' BY FrameStep
<1>4. DataInv' /\ ViewInv' BY DataStep, ViewStep
<1> QED BY <1>1, <1>2, <1>3, <1>4 DEF UiInv

\* The data and the frames are right after any steps of the UI thread, the io thread and the
\* server (data_manager.cpp:73-89, chat_scene.cpp:32-58).
THEOREM UiInvariant == ClientSpec => [](ChainInv /\ UiInv)
BY UiInit, UiNext, PTL DEF ClientSpec

\* Every variable of the client has its type: the numbers of the texts are those of lines that
\* the server sent.
THEOREM UiTypeCorrect == ClientSpec => []UiTypeOK
<1>1. UiInv => UiTypeOK BY DEF UiInv
<1> QED BY <1>1, UiInvariant, PTL

\* Drawing never throws, although the users are copied twice for a message
\* (chat_scene.cpp:40-44, data_manager.cpp:84-89).
THEOREM NeverThrownHolds == ClientSpec => []NeverThrown
<1>1. UiInv => NeverThrown BY DEF UiInv
<1> QED BY <1>1, UiInvariant, PTL

\* A frame shows a beginning of the texts that the server sent, in the order they were sent
\* (data_manager.cpp:73-82).
THEOREM ShownInOrderHolds == ClientSpec => []ShownInOrder
<1>1. UiInv => ShownInOrder
  <2> SUFFICES ASSUME UiInv PROVE ShownInOrder
    OBVIOUS
  <2>1. shown \in Seq(Drawings) /\ IsPrefix(TextsIn(shown), messages) /\ messages = TextsTold
    BY DEF UiInv, FrameInv, ViewInv
  <2>2. DOMAIN shown = 1..Len(shown) BY <2>1, LenProperties
  <2>3. [k \in DOMAIN shown |-> shown[k].text] = TextsIn(shown) BY <2>2 DEF TextsIn
  <2> QED BY <2>1, <2>3 DEF ShownInOrder
<1> QED BY <1>1, UiInvariant, PTL

\* A text is shown grey only when its sender was not known as the frame began to draw, and
\* otherwise in a colour the server gave to its sender (chat_scene.cpp:38-49).
THEOREM ColorsAreToldHolds == ClientSpec => []ColorsAreTold
<1>1. UiInv => ColorsAreTold
  <2> SUFFICES ASSUME UiInv, at = "events" PROVE ColorsAreTold
    BY DEF ColorsAreTold
  <2>1. Colored(shown, known, told) /\ shown \in Seq(Drawings) /\ told \in Seq(Texts \cup Statuses)
    BY DEF UiInv, FrameInv, DataInv, Drawing
  <2>2. DOMAIN shown = 1..Len(shown) /\ DOMAIN told = 1..Len(told) BY <2>1, LenProperties
  <2> QED BY <2>1, <2>2 DEF ColorsAreTold, Colored, ToldIn
<1> QED BY <1>1, UiInvariant, PTL

(***************************************************************************)
(* What the user typed.  connect() is called once (OnceInv), so whatever   *)
(* was typed before the one connection began was typed early.  stop() is   *)
(* called when nothing can be typed any more: the close runs behind the    *)
(* last line, and a socket that is closed under a connection finds no line *)
(* of the user to drop (QuitInv).                                          *)
(***************************************************************************)

Link   == {Done("connected", "ok")}
Linked == connected \/ op = "connecting" \/ Has(ready, Link)

\* No line of the user is behind the close.
LinesFirst(q) ==
    \A j, k \in 1..Len(q) : j < k /\ q[j] = CloseTask => q[k] \notin UserTasks

QuitInv ==
    /\ pc # "idle" => at = "over"
    /\ Has(ready, {CloseTask}) => at = "over"
    /\ LinesFirst(ready)
    /\ Linked /\ ~sock => at = "over" /\ ~Has(ready, UserTasks)

OnceInv ==
    /\ scene = "select" => sessions = 0 /\ ~Opening
    /\ Opening => sessions = 0
    /\ sessions = 0 => 1..written \subseteq early

Pending(m) == Has(ready, {WriteTask(m)}) \/ Has(queue, {m}) \/ Has(sent, {m})

KeptInv == connected => \A m \in (1..written) \ early : Pending(m)

TypedInv == QuitInv /\ OnceInv /\ KeptInv

\* The close and the lines in a queue that is added to, or taken from.
LEMMA LinesFirstFacts ==
    ASSUME NEW S, NEW q \in Seq(S), LinesFirst(q)
    PROVE  /\ \A h \in S : h \notin UserTasks \/ ~Has(q, {CloseTask}) => LinesFirst(Append(q, h))
           /\ q # <<>> => /\ LinesFirst(Tail(q))
                          /\ Head(q) = CloseTask => ~Has(Tail(q), UserTasks)
<1>1. Len(q) \in Nat BY LenProperties
<1>2. ASSUME NEW h \in S, h \notin UserTasks \/ ~Has(q, {CloseTask})
      PROVE  LinesFirst(Append(q, h))
  <2>1. /\ Len(Append(q, h)) = Len(q) + 1 /\ Append(q, h)[Len(q) + 1] = h
        /\ \A k \in 1..Len(q) : Append(q, h)[k] = q[k]
    BY AppendProperties
  <2>2. ASSUME NEW j \in 1..Len(Append(q, h)), NEW k \in 1..Len(Append(q, h)), j < k
        PROVE  j \in 1..Len(q) /\ (k \in 1..Len(q) \/ k = Len(q) + 1)
    BY <1>1, <2>1, <2>2, SMT
  <2> SUFFICES ASSUME NEW j \in 1..Len(Append(q, h)), NEW k \in 1..Len(Append(q, h)), j < k,
                      Append(q, h)[j] = CloseTask
               PROVE  Append(q, h)[k] \notin UserTasks
    BY DEF LinesFirst
  <2>3. j \in 1..Len(q) /\ q[j] = CloseTask BY <2>1, <2>2
  <2>4. CASE k \in 1..Len(q) BY <2>1, <2>3, <2>4 DEF LinesFirst
  <2>5. CASE k = Len(q) + 1
    <3>1. Has(q, {CloseTask}) BY <2>3 DEF Has
    <3> QED BY <1>2, <2>1, <2>5, <3>1
  <2> QED BY <2>2, <2>4, <2>5
<1>3. ASSUME q # <<>>
      PROVE  /\ LinesFirst(Tail(q))
             /\ Head(q) = CloseTask => ~Has(Tail(q), UserTasks)
  <2>1. /\ Head(q) = q[1] /\ Len(Tail(q)) = Len(q) - 1
        /\ \A k \in 1..Len(Tail(q)) : Tail(q)[k] = q[k + 1]
    BY <1>3, HeadTailProperties
  <2>2. \A k \in 1..Len(Tail(q)) : k + 1 \in 1..Len(q) /\ 1 \in 1..Len(q) /\ 1 < k + 1
    BY <1>1, <2>1, SMT
  <2>3. \A j, k \in 1..Len(Tail(q)) : j < k => j + 1 < k + 1 BY <1>1, <2>1, SMT
  <2>4. LinesFirst(Tail(q)) BY <2>1, <2>2, <2>3 DEF LinesFirst
  <2>5. Head(q) = CloseTask => ~Has(Tail(q), UserTasks) BY <2>1, <2>2 DEF LinesFirst, Has
  <2> QED BY <2>4, <2>5
<1> QED BY <1>2, <1>3

\* A step that keeps the queue, takes a handler, or posts what is no line and no close.
LEMMA QuitKept ==
    ASSUME ChainInv, QuitInv, at = "over" => at' = "over", pc' # "idle" => at' = "over",
           \/ ready' = ready
           \/ ready # <<>> /\ ready' = Tail(ready)
           \/ \E h \in Handlers : h \notin UserTasks \cup {CloseTask} /\ ready' = Append(ready, h),
           Linked' /\ ~sock' => Linked /\ ~sock
    PROVE  QuitInv'
<1>1. ready \in Seq(Handlers) BY WayTypes
<1>2. /\ Has(ready', {CloseTask}) => Has(ready, {CloseTask})
      /\ Has(ready', UserTasks) => Has(ready, UserTasks)
      /\ LinesFirst(ready')
  <2>1. CASE ready' = ready BY <2>1 DEF QuitInv
  <2>2. CASE ready # <<>> /\ ready' = Tail(ready)
    BY <1>1, <2>2, TailFacts, LinesFirstFacts DEF QuitInv
  <2>3. ASSUME NEW h \in Handlers, h \notin UserTasks \cup {CloseTask}, ready' = Append(ready, h)
        PROVE  /\ Has(ready', {CloseTask}) => Has(ready, {CloseTask})
               /\ Has(ready', UserTasks) => Has(ready, UserTasks)
               /\ LinesFirst(ready')
    BY <1>1, <2>3, AppendFacts, LinesFirstFacts DEF QuitInv
  <2> QED BY <2>1, <2>2, <2>3
<1> QED BY <1>2 DEF QuitInv

\* A step that opens no connection and writes no line.
LEMMA OnceKept ==
    ASSUME OnceInv, Opening' => Opening, sessions' = sessions, written' = written,
           scene' = "select" => scene = "select", early' = early
    PROVE  OnceInv'
BY DEF OnceInv

\* A step that moves lines on.
LEMMA KeptKept ==
    ASSUME KeptInv, connected' => connected, written' = written, early' = early,
           connected' => \A m \in (1..written) \ early : Pending(m) => Pending(m)'
    PROVE  KeptInv'
BY DEF KeptInv

\* The lines that wait stay where they are when a handler that is no line is taken or posted.
LEMMA PendingTaken ==
    ASSUME ChainInv, ready # <<>>, Head(ready) \notin UserTasks, ready' = Tail(ready),
           queue' = queue, sent' = sent
    PROVE  \A m \in 1..written : Pending(m) => Pending(m)'
<1>1. ready \in Seq(Handlers) /\ written \in 0..MaxWrites
  BY DEF ChainInv, ClientTypeOK
<1>2. \A m \in 1..written : m \in 1..MaxWrites BY <1>1, ClientBounds, SMT
<1>3. \A m \in 1..written : Head(ready) \notin {WriteTask(m)} BY <1>2 DEF UserTasks
<1>4. \A m \in 1..written : Has(ready, {WriteTask(m)}) => Has(ready', {WriteTask(m)})
  BY <1>1, <1>3, TailFacts
<1> QED BY <1>4 DEF Pending

\* A step that moves nothing of all this.
LEMMA TypedStays ==
    ASSUME ChainInv, TypedInv,
           UNCHANGED <<pc, op, connected, sock, queue, sent, ready, written, sessions>>,
           at = "over" => at' = "over", scene' = "select" => scene = "select", early' = early
    PROVE  TypedInv'
<1>1. QuitInv'
  <2>1. Linked' <=> Linked BY DEF Linked
  <2>2. pc' # "idle" => at' = "over" BY DEF TypedInv, QuitInv
  <2> QED BY <2>1, <2>2, QuitKept DEF TypedInv
<1>2. OnceInv'
  <2>1. Opening' <=> Opening BY DEF Opening
  <2> QED BY <2>1, OnceKept DEF TypedInv
<1>3. KeptInv' BY DEF TypedInv, KeptInv, Pending
<1> QED BY <1>1, <1>2, <1>3 DEF TypedInv

\* A step of the UI thread, or of nobody, that leaves the transport alone.
LEMMA TypedSame ==
    ASSUME ChainInv, TypedInv, UNCHANGED vars, at = "over" => at' = "over",
           scene' = "select" => scene = "select", early' = early
    PROVE  TypedInv'
<1>1. UNCHANGED <<pc, op, connected, sock, queue, sent, ready, written, sessions>>
  BY DEF vars, ui, chain, bounds, history
<1> QED BY <1>1, TypedStays

\* The user connects, once: nothing was typed then.
LEMMA TypedConnect ==
    ASSUME ChainInv, TypedInv, Connect, at # "over", at' # "over", scene = "select",
           scene' = "login", early' = early
    PROVE  TypedInv'
<1> USE DEF ui, chain, history
<1>1. /\ UNCHANGED <<pc, connected, sock, queue, sent, ready, written, sessions>>
      /\ op' = op \/ op' = "resolving"
  BY DEF Connect
<1>2. QuitInv'
  <2>1. Linked' => Linked BY <1>1 DEF Linked
  <2>2. pc' # "idle" => at' = "over" BY <1>1 DEF TypedInv, QuitInv
  <2> QED BY <1>1, <2>1, <2>2, QuitKept DEF TypedInv
<1>3. OnceInv' BY <1>1 DEF TypedInv, OnceInv
<1>4. KeptInv' BY <1>1 DEF TypedInv, KeptInv, Pending
<1> QED BY <1>2, <1>3, <1>4 DEF TypedInv

\* The user types a line: before the loop ends, so no close is in front of it.
LEMMA TypedWritten ==
    ASSUME ChainInv, TypedInv, sendMessage, at # "over", at' # "over",
           scene' = "select" => scene = "select"
    PROVE  TypedInv'
<1> USE DEF ui, chain, history
<1> DEFINE h == WriteTask(written + 1)
<1>1. /\ UNCHANGED <<pc, op, connected, sock, queue, sent, sessions>>
      /\ written' = written + 1 /\ written < MaxWrites /\ ready' = Append(ready, h)
      /\ early' = IF connected THEN early ELSE early \cup {written + 1}
  BY DEF sendMessage, Write
<1>2. written \in Nat /\ written + 1 \in 1..MaxWrites /\ 1..(written + 1) = (1..written) \cup {written + 1}
  <2>1. written \in 0..MaxWrites BY DEF ChainInv, ClientTypeOK
  <2> QED BY <1>1, <2>1, ClientBounds, SMT
<1>3. /\ ready \in Seq(Handlers) /\ h \in Handlers
      /\ h \notin Opened /\ h \notin Link /\ h \notin {CloseTask}
  <2>1. written + 1 \in Msgs BY <1>2, ClientBounds, SMT DEF Msgs
  <2>2. h \notin Link /\ h \notin {CloseTask} BY <2>1, KindOf DEF Link
  <2> QED BY <2>1, <2>2, HandlersAre, TaskChain, WayTypes
<1>4. h \in {h} OBVIOUS
<1> HIDE DEF h
<1>5. /\ \A H : Has(ready', H) <=> Has(ready, H) \/ h \in H
  BY <1>1, <1>3, AppendFacts
<1>6. QuitInv'
  <2>1. ~Has(ready, {CloseTask}) BY DEF TypedInv, QuitInv
  <2>2. LinesFirst(ready') BY <1>1, <1>3, <2>1, LinesFirstFacts DEF TypedInv, QuitInv
  <2>3. ~Has(ready', {CloseTask}) BY <1>3, <1>5, <2>1
  <2>4. Linked' <=> Linked BY <1>1, <1>3, <1>5 DEF Linked
  <2>5. ~(Linked' /\ ~sock') /\ pc' = "idle" BY <1>1, <2>4 DEF TypedInv, QuitInv
  <2> QED BY <2>2, <2>3, <2>5 DEF QuitInv
<1>7. OnceInv'
  <2>1. Opening' <=> Opening BY <1>1, <1>3, <1>5 DEF Opening
  <2>2. sessions = 0 => ~connected
    <3>1. sessions = reports + (IF connected THEN 1 ELSE 0) /\ reports \in Nat
      BY DEF ChainInv, ReportedOnce, ClientTypeOK
    <3>2. connected => sessions = reports + 1 BY <3>1
    <3>3. reports + 1 # 0 BY <3>1, SMT
    <3> QED BY <3>2, <3>3
  <2>3. sessions' = 0 => 1..written' \subseteq early'
    BY <1>1, <1>2, <2>2 DEF TypedInv, OnceInv
  <2> QED BY <1>1, <2>1, <2>3 DEF TypedInv, OnceInv
<1>8. KeptInv'
  <2> SUFFICES ASSUME connected', NEW m \in (1..written') \ early' PROVE Pending(m)'
    BY DEF KeptInv
  <2>1. CASE m = written + 1
    <3>1. h \in {WriteTask(m)} BY <2>1 DEF h
    <3>2. Has(ready', {WriteTask(m)}) BY <1>5, <3>1
    <3> QED BY <3>2 DEF Pending
  <2>2. CASE m # written + 1
    <3>1. m \in (1..written) \ early BY <1>1, <1>2, <2>2
    <3>2. Pending(m) BY <1>1, <3>1 DEF TypedInv, KeptInv
    <3> QED BY <1>1, <1>5, <3>2 DEF Pending
  <2> QED BY <2>1, <2>2
<1> QED BY <1>6, <1>7, <1>8 DEF TypedInv

\* stop(), once the loop was left: the close is posted behind the last line.
LEMMA TypedStop ==
    ASSUME ChainInv, TypedInv, Stopping, scene' = scene, early' = early, at' = at
    PROVE  TypedInv'
<1> USE DEF ui, chain, bounds, history
<1>1. at' = "over" BY DEF Stopping
<1>2. UNCHANGED <<op, sock, sent, written, sessions>> /\ (connected' => connected)
  BY DEF Stopping, StopFlag, StopPost, StopJoin
<1>3. CASE StopFlag \/ StopJoin
  <2>1. UNCHANGED ready /\ (connected' => queue' = queue)
    BY <1>3 DEF StopFlag, StopJoin
  <2>2. QuitInv'
    <3>1. Linked' => Linked BY <1>2, <2>1 DEF Linked
    <3> QED BY <1>1, <1>2, <2>1, <3>1, QuitKept DEF TypedInv
  <2>3. OnceInv'
    <3>1. Opening' <=> Opening BY <1>2, <2>1 DEF Opening
    <3> QED BY <1>2, <3>1, OnceKept DEF TypedInv
  <2>4. KeptInv' BY <1>2, <2>1, KeptKept DEF TypedInv, Pending
  <2> QED BY <2>2, <2>3, <2>4 DEF TypedInv
<1>4. CASE StopPost
  <2>1. ready' = Append(ready, CloseTask) /\ connected' = connected /\ queue' = queue
    BY <1>4 DEF StopPost
  <2>2. ready \in Seq(Handlers) /\ CloseTask \in Handlers /\ CloseTask \notin UserTasks
    BY WayTypes, HandlersAre, NoTask
  <2>3. \A H : Has(ready', H) <=> Has(ready, H) \/ CloseTask \in H
    BY <2>1, <2>2, AppendFacts
  <2>4. CloseTask \notin Opened /\ CloseTask \notin Link
    BY TaskChain, KindOf DEF Link
  <2>5. QuitInv'
    <3>1. LinesFirst(ready') BY <2>1, <2>2, LinesFirstFacts DEF TypedInv, QuitInv
    <3>2. Linked' <=> Linked BY <1>2, <2>1, <2>3, <2>4 DEF Linked
    <3>3. Has(ready', UserTasks) <=> Has(ready, UserTasks) BY <2>2, <2>3
    <3> QED BY <1>1, <1>2, <3>1, <3>2, <3>3 DEF TypedInv, QuitInv
  <2>6. OnceInv'
    <3>1. Opening' <=> Opening BY <1>2, <2>3, <2>4 DEF Opening
    <3> QED BY <1>2, <3>1, OnceKept DEF TypedInv
  <2>7. KeptInv'
    <3>1. \A m : Pending(m) => Pending(m)' BY <1>2, <2>1, <2>3 DEF Pending
    <3> QED BY <1>2, <2>1, <3>1, KeptKept DEF TypedInv
  <2> QED BY <2>5, <2>6, <2>7 DEF TypedInv
<1> QED BY <1>3, <1>4 DEF Stopping

\* A completion is posted: a connect that succeeds was under way.
LEMMA TypedReactor ==
    ASSUME ChainInv, TypedInv, Reactor, scene' = scene, early' = early, at' = at
    PROVE  TypedInv'
<1> USE DEF ui, chain, bounds, history
<1>1. PICK ec \in Codes : ResolveReady(ec) \/ ConnectReady(ec) \/ ReadReady(ec) \/ WriteReady(ec)
  BY DEF Reactor
<1>2. PICK kind \in {"resolved", "connected", "read", "wrote"} :
         /\ ready' = Append(ready, Done(kind, ec))
         /\ op' = op \/ op' = "none"
         /\ kind = "resolved" => op = "resolving"
         /\ kind = "connected" => op = "connecting"
  BY <1>1 DEF ResolveReady, ConnectReady, ReadReady, WriteReady
<1>3. UNCHANGED <<pc, connected, sock, queue, sent, written, sessions>>
  BY <1>1 DEF ResolveReady, ConnectReady, ReadReady, WriteReady
<1> DEFINE h == Done(kind, ec)
<1>4. /\ h \in Handlers /\ h \notin UserTasks \cup {CloseTask}
      /\ h \in Opened => op # "none" /\ (h \in Link => op = "connecting")
  <2>1. h \in Handlers /\ h \notin UserTasks BY HandlersAre, NoTask
  <2>2. h # CloseTask BY KindOf
  <2>3. h \in Link => kind = "connected" BY KindOf DEF Link
  <2>4. h \in Opened => kind \in {"resolved", "connected"} BY DoneChain
  <2> QED BY <1>2, <2>1, <2>2, <2>3, <2>4
<1>5. h \in Link => h \in Opened BY DEF Link, Opened
<1>6. ready' = Append(ready, h) /\ ready \in Seq(Handlers) BY <1>2, WayTypes
<1> HIDE DEF h
<1>7. \A H : Has(ready', H) <=> Has(ready, H) \/ h \in H BY <1>4, <1>6, AppendFacts
<1>8. QuitInv'
  <2>1. Linked' => Linked BY <1>2, <1>3, <1>4, <1>5, <1>7 DEF Linked
  <2>2. pc' # "idle" => at' = "over" BY <1>3 DEF TypedInv, QuitInv
  <2> QED BY <1>3, <1>4, <1>6, <2>1, <2>2, QuitKept DEF TypedInv
<1>9. OnceInv'
  <2>1. Opening' => Opening BY <1>2, <1>4, <1>7 DEF Opening
  <2> QED BY <1>3, <2>1, OnceKept DEF TypedInv
<1>10. KeptInv'
  <2>1. \A m : Pending(m) => Pending(m)' BY <1>3, <1>7 DEF Pending
  <2> QED BY <1>3, <2>1, KeptKept DEF TypedInv
<1> QED BY <1>8, <1>9, <1>10 DEF TypedInv

\* A handler is taken that moves no line, opens nothing and closes nothing under a connection.
LEMMA TypedTaken ==
    ASSUME ChainInv, TypedInv, NEW h, Running(h), h \notin UserTasks, ready' = Tail(ready),
           UNCHANGED <<pc, connected, queue, sent, written, sessions>>,
           op' = op \/ (sock' /\ h \in Opened),
           sock' = sock \/ sock',
           scene' = scene, early' = early, at' = at
    PROVE  TypedInv'
<1>1. ready # <<>> /\ Head(ready) = h /\ ready \in Seq(Handlers) BY WayTypes DEF Running
<1>2. \A H : Has(ready, H) <=> h \in H \/ Has(ready', H) BY <1>1, TailFacts
<1>3. QuitInv'
  <2>1. Linked' /\ ~sock' => Linked /\ ~sock
    BY <1>2 DEF Linked, Link, ChainInv, ClientTypeOK
  <2>2. pc' # "idle" => at' = "over" BY DEF TypedInv, QuitInv
  <2> QED BY <1>1, <2>1, <2>2, QuitKept DEF TypedInv
<1>4. OnceInv'
  <2>1. Opening' => Opening BY <1>2 DEF Opening
  <2> QED BY <2>1, OnceKept DEF TypedInv
<1>5. KeptInv'
  <2>1. \A m \in 1..written : Pending(m) => Pending(m)' BY <1>1, PendingTaken
  <2> QED BY <2>1, KeptKept DEF TypedInv
<1> QED BY <1>3, <1>4, <1>5 DEF TypedInv

\* The close: the connection stays for the time being, but no line of the user is left.
LEMMA TypedClose ==
    ASSUME ChainInv, TypedInv, RunClose, scene' = scene, early' = early, at' = at
    PROVE  TypedInv'
<1> USE DEF ui, chain, bounds, history
<1>1. /\ ready # <<>> /\ Head(ready) = CloseTask /\ ready' = Tail(ready) /\ ready \in Seq(Handlers)
      /\ UNCHANGED <<pc, op, connected, queue, sent, written, sessions>>
  BY WayTypes DEF RunClose, Running
<1>2. \A H : Has(ready, H) <=> CloseTask \in H \/ Has(ready', H) BY <1>1, TailFacts
<1>3. QuitInv'
  <2>1. at' = "over" BY <1>2 DEF TypedInv, QuitInv
  <2>2. LinesFirst(ready') /\ ~Has(ready', UserTasks)
    BY <1>1, LinesFirstFacts DEF TypedInv, QuitInv
  <2> QED BY <2>1, <2>2 DEF QuitInv
<1>4. OnceInv'
  <2>1. Opening' => Opening BY <1>1, <1>2 DEF Opening
  <2> QED BY <1>1, <2>1, OnceKept DEF TypedInv
<1>5. KeptInv'
  <2>1. CloseTask \notin UserTasks BY NoTask
  <2>2. \A m \in 1..written : Pending(m) => Pending(m)' BY <1>1, <2>1, PendingTaken
  <2> QED BY <1>1, <2>2, KeptKept DEF TypedInv
<1> QED BY <1>3, <1>4, <1>5 DEF TypedInv

\* The connection begins, the first one: whatever was typed until now was typed early.
LEMMA TypedConnected ==
    ASSUME ChainInv, TypedInv, OnConnected, scene' = scene, early' = early, at' = at
    PROVE  TypedInv'
<1> USE DEF ui, chain, bounds, history
<1> DEFINE h == Done("connected", "ok")
           t == WriteTask(Hello)
           q == Tail(ready)
<1>1. /\ Running(h) /\ ready' = Append(q, t) /\ connected' /\ sessions' = sessions + 1
      /\ UNCHANGED <<pc, op, sock, queue, sent, written>>
  BY DEF OnConnected
<1>2. /\ t \in Handlers /\ t \notin UserTasks \cup {CloseTask}
      /\ t \notin Opened /\ h \in Opened /\ h \in Link /\ h \notin UserTasks
  <2>1. Hello \in Msgs BY ClientBounds DEF Hello, Msgs
  <2>2. t \in Handlers /\ t # CloseTask /\ t \notin Opened /\ t \notin UserTasks
    BY <2>1, HandlersAre, KindOf, TaskChain, NoTask DEF HelloTask
  <2> QED BY <2>2, NoTask DEF Opened, Link
<1> HIDE DEF h, t
<1>3. /\ ready # <<>> /\ Head(ready) = h /\ ready \in Seq(Handlers) /\ q \in Seq(Handlers)
      /\ op = "none" /\ ~Has(q, Opened) /\ Opening
  BY <1>1, <1>2, WayTypes, Taking DEF Running
<1>4. \A H : Has(ready, H) <=> h \in H \/ Has(q, H) BY <1>3, TailFacts
<1>5. LinesFirst(q) BY <1>3, LinesFirstFacts DEF TypedInv, QuitInv
<1> HIDE DEF q
<1>6. \A H : Has(ready', H) <=> Has(q, H) \/ t \in H BY <1>1, <1>2, <1>3, AppendFacts
<1>7. QuitInv'
  <2>1. LinesFirst(ready') BY <1>1, <1>2, <1>3, <1>5, LinesFirstFacts
  <2>2. Has(ready', {CloseTask}) => Has(ready, {CloseTask}) BY <1>2, <1>4, <1>6
  <2>3. Has(ready', UserTasks) => Has(ready, UserTasks) BY <1>2, <1>4, <1>6
  <2>4. Linked BY <1>2, <1>4 DEF Linked
  <2> QED BY <1>1, <2>1, <2>2, <2>3, <2>4 DEF TypedInv, QuitInv
<1>8. sessions = 0 /\ 1..written \subseteq early BY <1>3 DEF TypedInv, OnceInv
<1>9. ~Opening' BY <1>1, <1>2, <1>3, <1>6 DEF Opening
<1>10. OnceInv'
  <2>1. sessions' = 1 BY <1>1, <1>8
  <2>2. scene # "select" BY <1>3 DEF TypedInv, OnceInv
  <2> QED BY <1>9, <2>1, <2>2 DEF OnceInv
<1>11. KeptInv' BY <1>1, <1>8 DEF KeptInv
<1> QED BY <1>7, <1>10, <1>11 DEF TypedInv

\* An error ends the connection, and closes the socket with it.
LEMMA TypedError ==
    ASSUME ChainInv, TypedInv, OnError, scene' = scene, early' = early, at' = at
    PROVE  TypedInv'
<1> USE DEF ui, chain, bounds, history
<1>1. PICK kind \in {"resolved", "connected", "read", "wrote"} : Running(Done(kind, "error"))
  BY DEF OnError
<1> DEFINE h == Done(kind, "error")
<1>2. /\ Running(h) /\ ready' = Tail(ready) /\ connected' = FALSE
      /\ UNCHANGED <<pc, op, sent, written, sessions>>
      /\ ~connected => sock' = sock
  BY <1>1 DEF OnError, handle_disconnect
<1> HIDE DEF h
<1>3. ready # <<>> /\ Head(ready) = h /\ ready \in Seq(Handlers) BY <1>2, WayTypes DEF Running
<1>4. \A H : Has(ready, H) <=> h \in H \/ Has(ready', H) BY <1>2, <1>3, TailFacts
<1>5. QuitInv'
  <2>1. connected => ~Linked'
    <3>1. connected => ~Opening BY DEF ChainInv, OpenInv
    <3>2. Has(ready, Link) => Has(ready, Opened) BY DEF Has, Link, Opened
    <3>3. Has(ready', Link) => Has(ready, Link) BY <1>4
    <3> QED BY <1>2, <3>1, <3>2, <3>3 DEF Linked, Opening
  <2>2. Linked' /\ ~sock' => Linked /\ ~sock BY <1>2, <1>4, <2>1 DEF Linked
  <2>3. pc' # "idle" => at' = "over" BY <1>2 DEF TypedInv, QuitInv
  <2> QED BY <1>2, <1>3, <2>2, <2>3, QuitKept DEF TypedInv
<1>6. OnceInv'
  <2>1. Opening' => Opening BY <1>2, <1>4 DEF Opening
  <2> QED BY <1>2, <2>1, OnceKept DEF TypedInv
<1>7. KeptInv' BY <1>2 DEF KeptInv
<1> QED BY <1>5, <1>6, <1>7 DEF TypedInv

\* A step of the io thread on the queue and on what was sent: no line is left behind.
LEMMA TypedMoved ==
    ASSUME ChainInv, TypedInv, NEW h, Running(h), ready' = Tail(ready),
           UNCHANGED <<pc, op, connected, sock, written, sessions>>,
           scene' = scene, early' = early, at' = at,
           connected => \A m \in 1..written : Pending(m) => Pending(m)'
    PROVE  TypedInv'
<1>1. ready # <<>> /\ Head(ready) = h /\ ready \in Seq(Handlers) BY WayTypes DEF Running
<1>2. \A H : Has(ready, H) <=> h \in H \/ Has(ready', H) BY <1>1, TailFacts
<1>3. QuitInv'
  <2>1. Linked' => Linked BY <1>2 DEF Linked
  <2>2. pc' # "idle" => at' = "over" BY DEF TypedInv, QuitInv
  <2> QED BY <1>1, <2>1, <2>2, QuitKept DEF TypedInv
<1>4. OnceInv'
  <2>1. Opening' => Opening BY <1>2 DEF Opening
  <2> QED BY <2>1, OnceKept DEF TypedInv
<1>5. KeptInv' BY KeptKept DEF TypedInv
<1> QED BY <1>3, <1>4, <1>5 DEF TypedInv

\* A write completed: its line was sent.
LEMMA TypedWrote ==
    ASSUME ChainInv, TypedInv, OnWrote, scene' = scene, early' = early, at' = at
    PROVE  TypedInv'
<1> USE DEF ui, chain, bounds, history
<1> DEFINE h == Done("wrote", "ok")
<1>1. /\ Running(h) /\ ready' = Tail(ready)
      /\ UNCHANGED <<pc, op, connected, sock, written, sessions>>
  BY DEF OnWrote
<1>2. ready # <<>> /\ Head(ready) \notin UserTasks BY <1>1, NoTask DEF Running
<1>3. CASE queue = <<>>
  <2>1. UNCHANGED <<queue, sent>> BY <1>3 DEF OnWrote
  <2>2. \A m \in 1..written : Pending(m) => Pending(m)' BY <1>1, <1>2, <2>1, PendingTaken
  <2> QED BY <1>1, <2>2, TypedMoved
<1>4. CASE queue # <<>>
  <2>1. sent' = Append(sent, Head(queue)) /\ queue' = Tail(queue)
    BY <1>4 DEF OnWrote, do_write_next
  <2>2. sent \in Seq(Msgs) /\ queue \in Seq(Msgs) /\ ready \in Seq(Handlers) BY WayTypes
  <2>3. /\ Head(queue) \in Msgs
        /\ \A H : Has(queue, H) <=> Head(queue) \in H \/ Has(queue', H)
    BY <1>4, <2>1, <2>2, TailFacts
  <2>4. \A H : Has(sent', H) <=> Has(sent, H) \/ Head(queue) \in H
    <3> DEFINE e == Head(queue)
    <3>1. e \in Msgs /\ sent' = Append(sent, e) BY <2>1, <2>3
    <3> HIDE DEF e
    <3>2. \A H : Has(sent', H) <=> Has(sent, H) \/ e \in H BY <2>2, <3>1, AppendFacts
    <3> QED BY <3>2 DEF e
  <2>5. \A m \in 1..written : Has(ready, {WriteTask(m)}) => Has(ready', {WriteTask(m)})
    <3>1. written \in 0..MaxWrites BY DEF ChainInv, ClientTypeOK
    <3>2. \A m \in 1..written : WriteTask(m) \in UserTasks
      <4>1. \A m \in 1..written : m \in 1..MaxWrites BY <3>1, ClientBounds, SMT
      <4> QED BY <4>1 DEF UserTasks
    <3>3. \A m \in 1..written : Head(ready) \notin {WriteTask(m)} BY <1>2, <3>2
    <3> QED BY <1>1, <1>2, <2>2, <3>3, TailFacts
  <2>6. \A m \in 1..written : Pending(m) => Pending(m)' BY <2>3, <2>4, <2>5 DEF Pending
  <2> QED BY <1>1, <2>6, TypedMoved
<1> QED BY <1>3, <1>4

\* write() on the io thread: under a connection with an open socket the line is queued, and
\* under one whose socket was closed it is not of the user.
LEMMA TypedRunWrite ==
    ASSUME ChainInv, TypedInv, NEW n \in Msgs, RunWrite(n), scene' = scene, early' = early, at' = at
    PROVE  TypedInv'
<1> USE DEF ui, chain, bounds, history
<1> DEFINE h == WriteTask(n)
<1>1. /\ Running(h) /\ ready' = Tail(ready)
      /\ UNCHANGED <<pc, op, connected, sock, sent, written, sessions>>
      /\ ~connected \/ ~sock => queue' = queue
      /\ connected /\ sock => queue' = Append(queue, n)
  BY DEF RunWrite, do_write_next
<1>2. h = WriteTask(n) /\ h.msg = n BY KindOf
<1> HIDE DEF h
<1>3. /\ ready # <<>> /\ Head(ready) = h /\ ready \in Seq(Handlers) /\ queue \in Seq(Msgs)
  BY <1>1, WayTypes DEF Running
<1>4. \A H : Has(ready, H) <=> h \in H \/ Has(ready', H) BY <1>1, <1>3, TailFacts
<1>5. CASE connected /\ sock
  <2>1. \A H : Has(queue', H) <=> Has(queue, H) \/ n \in H
    <3>1. \A H : Has(Append(queue, n), H) <=> Has(queue, H) \/ n \in H BY <1>3, AppendFacts
    <3> QED BY <1>1, <1>5, <3>1
  <2>2. written \in 0..MaxWrites BY DEF ChainInv, ClientTypeOK
  <2>3. \A m \in 1..written : h = WriteTask(m) => m = n
    <3>1. \A m \in 1..written : m \in Msgs BY <2>2, ClientBounds, SMT DEF Msgs
    <3>2. \A m \in Msgs : WriteTask(m).msg = m BY KindOf
    <3> QED BY <1>2, <3>1, <3>2
  <2>4. \A m \in 1..written : Pending(m) => Pending(m)' BY <1>1, <1>4, <2>1, <2>3 DEF Pending
  <2> QED BY <1>1, <2>4, TypedMoved
<1>6. CASE connected /\ ~sock
  <2>1. h \notin UserTasks
    <3>1. ~Has(ready, UserTasks) BY <1>6 DEF TypedInv, QuitInv, Linked
    <3> QED BY <1>4, <3>1
  <2>2. \A m \in 1..written : Pending(m) => Pending(m)' BY <1>1, <1>3, <1>6, <2>1, PendingTaken
  <2> QED BY <1>1, <2>2, TypedMoved
<1>7. CASE ~connected BY <1>1, <1>7, TypedMoved
<1> QED BY <1>5, <1>6, <1>7

\* Every step keeps what the user typed.
LEMMA TypedNext ==
    ASSUME ChainInv, TypedInv, [ClientNext]_clientVars
    PROVE  TypedInv'
<1> USE DEF loop, frame, data
<1>1. CASE UNCHANGED clientVars
  <2>1. UNCHANGED <<vars, scene, at, early>> BY <1>1 DEF clientVars
  <2> QED BY <2>1, TypedSame
<1>2. CASE Initialize \/ LoadTextures \/ PollEvents \/ LeaveLoop
  <2>1. UNCHANGED <<vars, scene, early>> /\ (at = "over" => at' = "over")
    BY <1>2 DEF Initialize, LoadTextures, PollEvents, LeaveLoop
  <2> QED BY <2>1, TypedSame
<1>3. CASE drawUsers \/ drawChat \/ FindUser \/ DrawColored \/ FrameEnd
  <2>1. UNCHANGED <<vars, scene, early>> /\ (at = "over" => at' = "over")
    BY <1>3 DEF drawUsers, drawChat, FindUser, DrawColored, FrameEnd
  <2> QED BY <2>1, TypedSame
<1>4. CASE ServerSelection \/ LoginRegister \/ drawInput
  <2>1. at # "over" /\ at' # "over" BY <1>4 DEF ServerSelection, LoginRegister, drawInput
  <2>2. CASE UNCHANGED <<vars, early>> /\ (scene' = "select" => scene = "select")
    BY <2>1, <2>2, TypedSame
  <2>3. CASE Connect /\ scene = "select" /\ scene' = "login" /\ UNCHANGED early
    BY <2>1, <2>3, TypedConnect
  <2>4. CASE sendMessage /\ (scene' = "select" => scene = "select")
    BY <2>1, <2>4, TypedWritten
  <2>5. CASE ServerSelection BY <2>2, <2>3, <2>5 DEF ServerSelection, NoInput
  <2>6. CASE LoginRegister
    <3>1. \/ UNCHANGED <<vars, early>> /\ scene' = scene
          \/ sendMessage /\ scene' = "chat"
      BY <2>6 DEF LoginRegister, NoInput
    <3> QED BY <2>2, <2>4, <3>1
  <2>7. CASE drawInput
    <3>1. (UNCHANGED <<vars, early>> \/ sendMessage) /\ scene' = scene
      BY <2>7 DEF drawInput, NoInput
    <3> QED BY <2>2, <2>4, <3>1
  <2> QED BY <1>4, <2>5, <2>6, <2>7
<1>5. CASE OnMessage
  <2>1. OnLine /\ UNCHANGED <<scene, at, early>>
    BY <1>5 DEF OnMessage, NewMessageReceived, UserStatus, ServerResponse
  <2>2. /\ Running(Done("read", "ok")) /\ ready' = Tail(ready)
        /\ UNCHANGED <<pc, op, connected, sock, queue, sent, written, sessions>>
    BY <2>1 DEF OnLine, ui, chain, bounds, history
  <2> DEFINE h == Done("read", "ok")
  <2>3. Running(h) /\ h \notin UserTasks BY <2>2, NoTask
  <2> HIDE DEF h
  <2> QED BY <2>1, <2>2, <2>3, TypedTaken
<1>6. CASE (Stopping \/ Reactor \/ OtherIo) /\ UNCHANGED <<loop, early>>
  <2>1. UNCHANGED <<scene, at, early>> BY <1>6
  <2>2. CASE Stopping BY <2>1, <2>2, TypedStop
  <2>3. CASE Reactor BY <2>1, <2>3, TypedReactor
  <2>4. CASE IoExit
    <3>1. UNCHANGED <<pc, op, connected, sock, queue, sent, ready, written, sessions>>
      BY <2>4 DEF IoExit, chain, bounds, history
    <3> QED BY <2>1, <3>1, TypedStays
  <2>5. CASE OnResolved
    <3> DEFINE h == Done("resolved", "ok")
    <3>1. /\ Running(h) /\ ready' = Tail(ready) /\ sock'
          /\ UNCHANGED <<pc, connected, queue, sent, written, sessions>>
      BY <2>5 DEF OnResolved, ui, chain, bounds, history
    <3>2. h \in Opened /\ h \notin UserTasks BY NoTask DEF Opened
    <3> HIDE DEF h
    <3> QED BY <2>1, <3>1, <3>2, TypedTaken
  <2>6. CASE OnConnected BY <2>1, <2>6, TypedConnected
  <2>7. CASE OnError BY <2>1, <2>7, TypedError
  <2>8. CASE OnWrote BY <2>1, <2>8, TypedWrote
  <2>9. CASE RunClose BY <2>1, <2>9, TypedClose
  <2>10. CASE \E m \in Msgs : RunWrite(m) BY <2>1, <2>10, TypedRunWrite
  <2> QED BY <1>6, <2>2, <2>3, <2>4, <2>5, <2>6, <2>7, <2>8, <2>9, <2>10 DEF OtherIo
<1> QED BY <1>1, <1>2, <1>3, <1>4, <1>5, <1>6 DEF ClientNext, Update

\* Nothing was typed at first.
LEMMA TypedInit == ClientInit => TypedInv
<1> SUFFICES ASSUME ClientInit PROVE TypedInv
  OBVIOUS
<1>1. /\ scene = "select" /\ sessions = 0 /\ op = "none" /\ ready = <<>> /\ written = 0
      /\ connected = FALSE /\ pc = "idle"
  BY DEF ClientInit, Init
<1>2. Len(ready) = 0 /\ 1..0 = {} BY <1>1, EmptySeq, SMT
<1>3. \A H : ~Has(ready, H) BY <1>2 DEF Has
<1>4. QuitInv BY <1>1, <1>2, <1>3 DEF QuitInv, LinesFirst, Linked
<1>5. OnceInv BY <1>1, <1>2, <1>3 DEF OnceInv, Opening
<1>6. KeptInv BY <1>1 DEF KeptInv
<1> QED BY <1>4, <1>5, <1>6 DEF TypedInv

\* What the user typed under a live connection waits, is queued or was sent, whenever the loop
\* is left and whatever fails (tcp_client.h:60-77, chat_scene.cpp:143-149).
THEOREM NoTextLostHolds == ClientSpec => []NoTextLost
<1>1. ClientInit => ChainInv /\ TypedInv BY UiInit, TypedInit
<1>2. ChainInv /\ TypedInv /\ [ClientNext]_clientVars => (ChainInv /\ TypedInv)'
  BY TransportStep, ChainNext, TypedNext
<1>3. ChainInv /\ TypedInv => NoTextLost
  <2> SUFFICES ASSUME ChainInv, TypedInv, connected, NEW m \in (1..written) \ early
               PROVE  \/ \E k \in DOMAIN ready : ready[k] = WriteTask(m)
                      \/ \E k \in DOMAIN queue : queue[k] = m
                      \/ \E k \in DOMAIN sent : sent[k] = m
    BY DEF NoTextLost
  <2>1. /\ DOMAIN ready = 1..Len(ready) /\ DOMAIN queue = 1..Len(queue)
        /\ DOMAIN sent = 1..Len(sent)
    BY WayTypes, LenProperties
  <2>2. Pending(m) BY DEF TypedInv, KeptInv
  <2> QED BY <2>1, <2>2 DEF Pending, Has
<1> QED BY <1>1, <1>2, <1>3, PTL DEF ClientSpec

=============================================================================
