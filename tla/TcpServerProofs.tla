-------------------------- MODULE TcpServerProofs --------------------------
(***************************************************************************)
(* What TcpServer keeps for every number of connections, every set of      *)
(* lines and whatever its callbacks post.                                  *)
(***************************************************************************)
EXTENDS TcpServer, SequenceFacts

(***************************************************************************)
(* The inductive invariant.  The properties of TcpServer speak of running  *)
(* servers and open connections; what makes them inductive is what the     *)
(* threads may be doing together (ThreadInv), that the three chains        *)
(* accept, read and write each have one link, under way or completed       *)
(* (AcceptInv, ReadInv, WriteInv), and that an id not given out yet is     *)
(* untouched.                                                              *)
(***************************************************************************)

ThreadInv ==
    /\ pc = "idle" => io = IF running THEN "run" ELSE "none"
    /\ pc # "idle" => ~running /\ io \in {"run", "exited"}
    /\ io # "run" => /\ ~accepting /\ reading = {} /\ inflight = NoLines
                     /\ \A k \in 1..Len(ready) : ready[k] = CloseTask

AcceptInv ==
    /\ AtMostOne(ready, AcceptStep)
    /\ accepting => ~Has(ready, AcceptStep)
    /\ running => accepting \/ Has(ready, AcceptStep)
    /\ Has(ready, {Accepted("ok")}) => next_id <= MaxConns

Writing(i) == inflight[i] # <<>> \/ Has(ready, WroteDone(i))

WriteInv(i) ==
    /\ AtMostOne(ready, WroteDone(i))
    /\ Writing(i) => i \in writing /\ outbox[i] # <<>>
    /\ inflight[i] # <<>> => inflight[i] = <<Head(outbox[i])>> /\ ~Has(ready, WroteDone(i))
    /\ i \in open /\ (i \in writing \/ outbox[i] # <<>>) => Writing(i)
    /\ i >= next_id => i \notin open /\ i \notin writing /\ outbox[i] = <<>>

Reading(i) == i \in reading \/ Has(ready, ReadDone(i))

ReadInv(i) ==
    /\ AtMostOne(ready, ReadDone(i))
    /\ i \in reading => ~Has(ready, ReadDone(i))
    /\ i \in open => i \in conns /\ Reading(i)
    /\ i \in conns <=> i < next_id /\ disconnects[i] = 0
    /\ i >= next_id => ~Reading(i) /\ disconnects[i] = 0
    /\ disconnects[i] + (IF Reading(i) THEN 1 ELSE 0) + (IF Writing(i) THEN 1 ELSE 0) <= 2

IInv ==
    /\ TypeOK /\ ThreadInv /\ AcceptInv
    /\ \A i \in Ids : WriteInv(i) /\ ReadInv(i)

(***************************************************************************)
(* Which handlers belong to which chain.                                   *)
(***************************************************************************)

\* Every task and every completion the model names is a handler.
LEMMA HandlersAre ==
    /\ Tasks \subseteq Handlers
    /\ CloseTask \in Handlers /\ AcceptAgain \in Handlers
    /\ \A ec \in Codes : Accepted(ec) \in Handlers
    /\ \A i \in Ids, ec \in Codes : Read(i, ec) \in Handlers /\ Wrote(i, ec) \in Handlers
BY DEF Handlers, Tasks, CloseTask, AcceptAgain, Accepted, Read, Wrote

\* The kind of each handler, which says what code it runs.
LEMMA KindOf ==
    /\ \A h \in Tasks : h.kind \in {"write", "broadcast"}
    /\ CloseTask.kind = "close" /\ AcceptAgain.kind = "accept again"
    /\ \A ec \in Codes : Accepted(ec).kind = "accepted" /\ Accepted(ec).ec = ec
    /\ \A i \in Ids, ec \in Codes :
          /\ Read(i, ec).kind = "read" /\ Read(i, ec).id = i
          /\ Wrote(i, ec).kind = "wrote" /\ Wrote(i, ec).id = i
<1>1. \A h \in Tasks : h.kind \in {"write", "broadcast"}
  BY DEF Tasks
<1>2. CloseTask.kind = "close" /\ AcceptAgain.kind = "accept again"
  BY DEF CloseTask, AcceptAgain
<1>3. \A ec \in Codes : Accepted(ec).kind = "accepted" /\ Accepted(ec).ec = ec
  BY DEF Accepted
<1>4. \A i \in Ids, ec \in Codes :
         /\ Read(i, ec).kind = "read" /\ Read(i, ec).id = i
         /\ Wrote(i, ec).kind = "wrote" /\ Wrote(i, ec).id = i
  BY DEF Read, Wrote
<1> QED BY <1>1, <1>2, <1>3, <1>4

\* The kind of the handlers of each chain: accept, read and write are never confused.
LEMMA ChainOf ==
    /\ \A h \in AcceptStep : h.kind \in {"accepted", "accept again"}
    /\ \A h \in {Accepted("ok")} : h.kind = "accepted" /\ h.ec = "ok"
    /\ \A j \in Ids : \A h \in ReadDone(j) : h.kind = "read" /\ h.id = j
    /\ \A j \in Ids : \A h \in WroteDone(j) : h.kind = "wrote" /\ h.id = j
<1>1. \A h \in AcceptStep : h.kind \in {"accepted", "accept again"}
  <2>1. /\ Accepted("ok").kind = "accepted" /\ Accepted("error").kind = "accepted"
        /\ AcceptAgain.kind = "accept again"
    BY DEF Accepted, AcceptAgain
  <2> QED BY <2>1 DEF AcceptStep
<1>2. \A h \in {Accepted("ok")} : h.kind = "accepted" /\ h.ec = "ok"
  BY DEF Accepted
<1>3. \A j \in Ids : \A h \in ReadDone(j) : h.kind = "read" /\ h.id = j
  BY DEF ReadDone, Read
<1>4. \A j \in Ids : \A h \in WroteDone(j) : h.kind = "wrote" /\ h.id = j
  BY DEF WroteDone, Wrote
<1> QED BY <1>1, <1>2, <1>3, <1>4

\* Which handlers are links of the accept chain (tcp_server.h:129-153).
LEMMA AcceptChain ==
    /\ \A h \in Tasks : h \notin AcceptStep /\ h \notin {Accepted("ok")}
    /\ CloseTask \notin AcceptStep /\ CloseTask \notin {Accepted("ok")}
    /\ AcceptAgain \in AcceptStep /\ AcceptAgain \notin {Accepted("ok")}
    /\ \A ec \in Codes : Accepted(ec) \in AcceptStep
    /\ Accepted("ok") \in {Accepted("ok")} /\ Accepted("error") \notin {Accepted("ok")}
    /\ \A i \in Ids, ec \in Codes :
          /\ Read(i, ec) \notin AcceptStep /\ Read(i, ec) \notin {Accepted("ok")}
          /\ Wrote(i, ec) \notin AcceptStep /\ Wrote(i, ec) \notin {Accepted("ok")}
<1>1. AcceptAgain \in AcceptStep /\ \A ec \in Codes : Accepted(ec) \in AcceptStep
  BY DEF AcceptStep, Codes
<1>2. Accepted("error") \notin {Accepted("ok")} /\ AcceptAgain \notin {Accepted("ok")}
  BY KindOf, ChainOf DEF Codes
<1>3. \A h \in Tasks : h \notin AcceptStep /\ h \notin {Accepted("ok")}
  BY KindOf, ChainOf
<1>4. CloseTask \notin AcceptStep /\ CloseTask \notin {Accepted("ok")}
  BY KindOf, ChainOf
<1>5. \A i \in Ids, ec \in Codes :
         /\ Read(i, ec) \notin AcceptStep /\ Read(i, ec) \notin {Accepted("ok")}
         /\ Wrote(i, ec) \notin AcceptStep /\ Wrote(i, ec) \notin {Accepted("ok")}
  BY KindOf, ChainOf
<1> QED BY <1>1, <1>2, <1>3, <1>4, <1>5

\* Which handlers are completions of a read of connection j (tcp_server.h:155-194).
LEMMA ReadChain ==
    ASSUME NEW j \in Ids
    PROVE  /\ \A h \in Tasks : h \notin ReadDone(j)
           /\ CloseTask \notin ReadDone(j) /\ AcceptAgain \notin ReadDone(j)
           /\ \A ec \in Codes : Accepted(ec) \notin ReadDone(j)
           /\ \A i \in Ids, ec \in Codes :
                 (Read(i, ec) \in ReadDone(j) <=> i = j) /\ Wrote(i, ec) \notin ReadDone(j)
<1>1. \A ec \in Codes : Read(j, ec) \in ReadDone(j) BY DEF ReadDone, Codes
<1>2. \A h \in Tasks : h \notin ReadDone(j)
  BY KindOf, ChainOf
<1>3. CloseTask \notin ReadDone(j) /\ AcceptAgain \notin ReadDone(j)
  BY KindOf, ChainOf
<1>4. \A ec \in Codes : Accepted(ec) \notin ReadDone(j)
  BY KindOf, ChainOf
<1>5. \A i \in Ids, ec \in Codes : Wrote(i, ec) \notin ReadDone(j)
  BY KindOf, ChainOf
<1>6. ASSUME NEW i \in Ids, NEW ec \in Codes, Read(i, ec) \in ReadDone(j) PROVE i = j
  <2>1. Read(i, ec).id = i BY KindOf
  <2>2. Read(i, ec).id = j BY <1>6, ChainOf
  <2> QED BY <2>1, <2>2
<1> QED BY <1>1, <1>2, <1>3, <1>4, <1>5, <1>6

\* Which handlers are completions of a write of connection j (tcp_server.h:196-206).
LEMMA WriteChainOf ==
    ASSUME NEW j \in Ids
    PROVE  /\ \A h \in Tasks : h \notin WroteDone(j)
           /\ CloseTask \notin WroteDone(j) /\ AcceptAgain \notin WroteDone(j)
           /\ \A ec \in Codes : Accepted(ec) \notin WroteDone(j)
           /\ \A i \in Ids, ec \in Codes :
                 (Wrote(i, ec) \in WroteDone(j) <=> i = j) /\ Read(i, ec) \notin WroteDone(j)
<1>1. \A ec \in Codes : Wrote(j, ec) \in WroteDone(j) BY DEF WroteDone, Codes
<1>2. \A h \in Tasks : h \notin WroteDone(j)
  BY KindOf, ChainOf
<1>3. CloseTask \notin WroteDone(j) /\ AcceptAgain \notin WroteDone(j)
  BY KindOf, ChainOf
<1>4. \A ec \in Codes : Accepted(ec) \notin WroteDone(j)
  BY KindOf, ChainOf
<1>5. \A i \in Ids, ec \in Codes : Read(i, ec) \notin WroteDone(j)
  BY KindOf, ChainOf
<1>6. ASSUME NEW i \in Ids, NEW ec \in Codes, Wrote(i, ec) \in WroteDone(j) PROVE i = j
  <2>1. Wrote(i, ec).id = i BY KindOf
  <2>2. Wrote(i, ec).id = j BY <1>6, ChainOf
  <2> QED BY <2>1, <2>2
<1> QED BY <1>1, <1>2, <1>3, <1>4, <1>5, <1>6

\* Tasks belong to no chain, so posting them leaves every chain as it is.
LEMMA PostsAreTasks ==
    ASSUME NEW posts \in Seq(Tasks)
    PROVE  /\ posts \in Seq(Handlers)
           /\ ~Has(posts, AcceptStep) /\ ~Has(posts, {Accepted("ok")})
           /\ \A j \in Ids : ~Has(posts, ReadDone(j)) /\ ~Has(posts, WroteDone(j))
<1>1. posts \in Seq(Handlers)
  BY HandlersAre, SMT
<1>2. \A k \in 1..Len(posts) : posts[k] \in Tasks
  BY SMT
<1> QED BY <1>1, <1>2, AcceptChain, ReadChain, WriteChainOf DEF Has

(***************************************************************************)
(* The three ways the queue changes, for all the chains at once.           *)
(***************************************************************************)

\* A handler at the end of the queue: what each chain then has in it.
LEMMA Appended ==
    ASSUME NEW q \in Seq(Handlers), NEW h \in Handlers
    PROVE  /\ Append(q, h) \in Seq(Handlers)
           /\ Has(Append(q, h), AcceptStep) <=> Has(q, AcceptStep) \/ h \in AcceptStep
           /\ Has(Append(q, h), {Accepted("ok")}) <=> Has(q, {Accepted("ok")}) \/ h \in {Accepted("ok")}
           /\ AtMostOne(q, AcceptStep) /\ ~(Has(q, AcceptStep) /\ h \in AcceptStep)
                 => AtMostOne(Append(q, h), AcceptStep)
           /\ \A j \in Ids :
                 /\ Has(Append(q, h), ReadDone(j)) <=> Has(q, ReadDone(j)) \/ h \in ReadDone(j)
                 /\ Has(Append(q, h), WroteDone(j)) <=> Has(q, WroteDone(j)) \/ h \in WroteDone(j)
                 /\ AtMostOne(q, ReadDone(j)) /\ ~(Has(q, ReadDone(j)) /\ h \in ReadDone(j))
                       => AtMostOne(Append(q, h), ReadDone(j))
                 /\ AtMostOne(q, WroteDone(j)) /\ ~(Has(q, WroteDone(j)) /\ h \in WroteDone(j))
                       => AtMostOne(Append(q, h), WroteDone(j))
<1>1. Append(q, h) \in Seq(Handlers)
  BY AppendFacts
<1>2. \A H : Has(Append(q, h), H) <=> Has(q, H) \/ h \in H
  BY AppendFacts
<1>3. \A H : AtMostOne(q, H) /\ ~(Has(q, H) /\ h \in H) => AtMostOne(Append(q, h), H)
  BY AppendFacts
<1> QED BY <1>1, <1>2, <1>3, Zenon

\* The queue without its head: what each chain then has in it.
LEMMA Taken ==
    ASSUME NEW q \in Seq(Handlers), q # <<>>
    PROVE  /\ Tail(q) \in Seq(Handlers) /\ Head(q) \in Handlers
           /\ Has(q, AcceptStep) <=> Head(q) \in AcceptStep \/ Has(Tail(q), AcceptStep)
           /\ Has(q, {Accepted("ok")}) <=> Head(q) \in {Accepted("ok")} \/ Has(Tail(q), {Accepted("ok")})
           /\ AtMostOne(q, AcceptStep) =>
                 AtMostOne(Tail(q), AcceptStep) /\ (Head(q) \in AcceptStep => ~Has(Tail(q), AcceptStep))
           /\ \A j \in Ids :
                 /\ Has(q, ReadDone(j)) <=> Head(q) \in ReadDone(j) \/ Has(Tail(q), ReadDone(j))
                 /\ Has(q, WroteDone(j)) <=> Head(q) \in WroteDone(j) \/ Has(Tail(q), WroteDone(j))
                 /\ AtMostOne(q, ReadDone(j)) =>
                       /\ AtMostOne(Tail(q), ReadDone(j))
                       /\ Head(q) \in ReadDone(j) => ~Has(Tail(q), ReadDone(j))
                 /\ AtMostOne(q, WroteDone(j)) =>
                       /\ AtMostOne(Tail(q), WroteDone(j))
                       /\ Head(q) \in WroteDone(j) => ~Has(Tail(q), WroteDone(j))
<1>1. Tail(q) \in Seq(Handlers) /\ Head(q) \in Handlers
  BY TailFacts
<1>2. \A H : Has(q, H) <=> Head(q) \in H \/ Has(Tail(q), H)
  BY TailFacts
<1>3. \A H : AtMostOne(q, H) => AtMostOne(Tail(q), H) /\ (Head(q) \in H => ~Has(Tail(q), H))
  BY TailFacts
<1> QED BY <1>1, <1>2, <1>3, Zenon

\* The tasks a callback posts are links of no chain (tcp_server.h:58-92).
LEMMA Posted ==
    ASSUME NEW q \in Seq(Handlers), NEW posts \in Seq(Tasks)
    PROVE  /\ q \o posts \in Seq(Handlers)
           /\ Has(q \o posts, AcceptStep) <=> Has(q, AcceptStep)
           /\ Has(q \o posts, {Accepted("ok")}) <=> Has(q, {Accepted("ok")})
           /\ AtMostOne(q, AcceptStep) => AtMostOne(q \o posts, AcceptStep)
           /\ \A j \in Ids :
                 /\ Has(q \o posts, ReadDone(j)) <=> Has(q, ReadDone(j))
                 /\ Has(q \o posts, WroteDone(j)) <=> Has(q, WroteDone(j))
                 /\ AtMostOne(q, ReadDone(j)) => AtMostOne(q \o posts, ReadDone(j))
                 /\ AtMostOne(q, WroteDone(j)) => AtMostOne(q \o posts, WroteDone(j))
<1>1. posts \in Seq(Handlers)
  BY PostsAreTasks
<1>2. q \o posts \in Seq(Handlers)
  BY <1>1, ConcatProperties
<1>3. \A H : ~Has(posts, H) => (Has(q \o posts, H) <=> Has(q, H))
  BY <1>1, ConcatFacts
<1>4. \A H : ~Has(posts, H) => (AtMostOne(q, H) => AtMostOne(q \o posts, H))
  BY <1>1, ConcatFacts
<1> QED BY <1>2, <1>3, <1>4, PostsAreTasks, Zenon

(***************************************************************************)
(* Every step preserves the invariant: the reactor.                        *)
(***************************************************************************)

\* The reactor completes a read: its link moves from the socket to the queue.
LEMMA ReadReadyStep ==
    ASSUME IInv, NEW i \in Ids, NEW ec \in Codes, ReadReady(i, ec)
    PROVE  IInv'
<1> USE DEF main, listen, writes
<1>1. ready \in Seq(Handlers) /\ Read(i, ec) \in Handlers
  BY HandlersAre DEF IInv, TypeOK
<1>2. TypeOK'
  <2>1. ready' \in Seq(Handlers)
    BY <1>1, AppendFacts DEF ReadReady
  <2>2. lines' \in 0..MaxLines
    BY BoundsAssumption DEF IInv, TypeOK, ReadReady
  <2> QED BY <2>1, <2>2 DEF IInv, TypeOK, ReadReady
<1>3. ThreadInv'
  BY DEF IInv, ThreadInv, ReadReady
<1>4. AcceptInv'
  BY Appended, AcceptChain, <1>1 DEF IInv, AcceptInv, ReadReady
<1>5. ASSUME NEW j \in Ids PROVE WriteInv(j)' /\ ReadInv(j)'
  <2>1. WriteInv(j)'
    BY Appended, WriteChainOf, <1>1 DEF IInv, WriteInv, Writing, ReadReady
  <2>2. ReadInv(j)'
    BY Appended, ReadChain, WriteChainOf, <1>1 DEF IInv, ReadInv, Reading, Writing, ReadReady
  <2> QED BY <2>1, <2>2
<1> QED BY <1>2, <1>3, <1>4, <1>5 DEF IInv

\* The reactor completes an accept; one that succeeds needs an id that is free.
LEMMA AcceptReadyStep ==
    ASSUME IInv, NEW ec \in Codes, AcceptReady(ec)
    PROVE  IInv'
<1> USE DEF main, listen, writes
<1>1. ready \in Seq(Handlers) /\ Accepted(ec) \in Handlers
  BY HandlersAre DEF IInv, TypeOK
<1>2. TypeOK'
  <2>1. ready' \in Seq(Handlers)
    BY <1>1, AppendFacts DEF AcceptReady
  <2> QED BY <2>1 DEF IInv, TypeOK, AcceptReady
<1>3. ThreadInv'
  BY DEF IInv, ThreadInv, AcceptReady
<1>4. AcceptInv'
  <2>1. /\ Has(ready', AcceptStep) <=> Has(ready, AcceptStep) \/ Accepted(ec) \in AcceptStep
        /\ Has(ready', {Accepted("ok")}) <=>
              Has(ready, {Accepted("ok")}) \/ Accepted(ec) \in {Accepted("ok")}
        /\ ~Has(ready, AcceptStep) => AtMostOne(ready', AcceptStep)
    <3>1. \A H : Has(ready', H) <=> Has(ready, H) \/ Accepted(ec) \in H
      BY <1>1, AppendFacts DEF AcceptReady
    <3>2. ~Has(ready, AcceptStep) => AtMostOne(ready', AcceptStep)
      BY <1>1, AppendFacts DEF AcceptReady, IInv, AcceptInv
    <3> QED BY <3>1, <3>2
  <2> QED BY <2>1, AcceptChain DEF IInv, AcceptInv, AcceptReady, Codes
<1>5. ASSUME NEW j \in Ids PROVE WriteInv(j)' /\ ReadInv(j)'
  <2>1. WriteInv(j)'
    BY Appended, WriteChainOf, <1>1 DEF IInv, WriteInv, Writing, AcceptReady
  <2>2. ReadInv(j)'
    BY Appended, ReadChain, WriteChainOf, <1>1 DEF IInv, ReadInv, Reading, Writing, AcceptReady
  <2> QED BY <2>1, <2>2
<1> QED BY <1>2, <1>3, <1>4, <1>5 DEF IInv

\* The reactor completes a write, of which there was one.
LEMMA WriteReadyStep ==
    ASSUME IInv, NEW i \in Ids, NEW ec \in Codes, WriteReady(i, ec)
    PROVE  IInv'
<1> USE DEF main, listen, writes
<1>1. ready \in Seq(Handlers) /\ Wrote(i, ec) \in Handlers
  BY HandlersAre DEF IInv, TypeOK
<1>2. /\ inflight \in [Ids -> Seq(Msgs)] /\ inflight[i] # <<>>
      /\ inflight[i] = <<Head(outbox[i])>> /\ ~Has(ready, WroteDone(i))
      /\ i \in writing /\ outbox[i] # <<>>
  BY DEF IInv, TypeOK, WriteInv, Writing, WriteReady
<1>3. /\ inflight' = [inflight EXCEPT ![i] = <<>>]
      /\ inflight' \in [Ids -> Seq(Msgs)]
  BY <1>2 DEF WriteReady
<1>4. TypeOK'
  <2>1. ready' \in Seq(Handlers)
    BY <1>1, AppendFacts DEF WriteReady
  <2> QED BY <2>1, <1>3 DEF IInv, TypeOK, WriteReady
<1>5. ThreadInv'
  BY <1>2 DEF IInv, ThreadInv, WriteReady, NoLines
<1>6. AcceptInv'
  BY Appended, AcceptChain, <1>1 DEF IInv, AcceptInv, WriteReady
<1>7. ASSUME NEW j \in Ids PROVE WriteInv(j)' /\ ReadInv(j)'
  <2>1. /\ Has(ready', WroteDone(j)) <=> Has(ready, WroteDone(j)) \/ i = j
        /\ AtMostOne(ready', WroteDone(j))
    BY Appended, WriteChainOf, <1>1, <1>2 DEF IInv, WriteInv, WriteReady
  <2>2. Writing(j)' <=> Writing(j)
    BY <2>1, <1>2, <1>3 DEF Writing
  <2>3. WriteInv(j)'
    BY <2>1, <2>2, <1>2, <1>3 DEF IInv, WriteInv, WriteReady
  <2>4. ReadInv(j)'
    BY <2>2, Appended, ReadChain, <1>1 DEF IInv, ReadInv, Reading, WriteReady
  <2> QED BY <2>3, <2>4
<1> QED BY <1>4, <1>5, <1>6, <1>7 DEF IInv

\* run() returns when nothing is ready and nothing under way.
LEMMA IoExitStep ==
    ASSUME IInv, IoExit
    PROVE  IInv'
<1> USE DEF main, listen, writes, IoExit
<1>1. ~Has(ready, AcceptStep) /\ Len(ready) = 0
  BY DEF Has
<1>2. TypeOK'
  BY DEF IInv, TypeOK
<1>3. ThreadInv'
  BY <1>1 DEF IInv, ThreadInv, AcceptInv
<1>4. AcceptInv'
  BY DEF IInv, AcceptInv
<1>5. ASSUME NEW j \in Ids PROVE WriteInv(j)' /\ ReadInv(j)'
  BY DEF IInv, WriteInv, Writing, ReadInv, Reading
<1> QED BY <1>2, <1>3, <1>4, <1>5 DEF IInv

(***************************************************************************)
(* The main thread.                                                        *)
(***************************************************************************)

\* stop() clears running_ (tcp_server.h:41-43).
LEMMA StopFlagStep ==
    ASSUME IInv, StopFlag
    PROVE  IInv'
<1> USE DEF main, listen, writes, StopFlag
<1>1. TypeOK'
  BY DEF IInv, TypeOK
<1>2. ThreadInv'
  BY DEF IInv, ThreadInv
<1>3. AcceptInv'
  BY DEF IInv, AcceptInv
<1>4. ASSUME NEW j \in Ids PROVE WriteInv(j)' /\ ReadInv(j)'
  BY DEF IInv, WriteInv, Writing, ReadInv, Reading
<1> QED BY <1>1, <1>2, <1>3, <1>4 DEF IInv

\* stop() posts the close (tcp_server.h:44-50).
LEMMA StopPostStep ==
    ASSUME IInv, StopPost
    PROVE  IInv'
<1> USE DEF main, listen, writes, StopPost
<1>1. ready \in Seq(Handlers) /\ CloseTask \in Handlers
  BY HandlersAre DEF IInv, TypeOK
<1>2. TypeOK'
  <2>1. ready' \in Seq(Handlers)
    BY <1>1, AppendFacts
  <2> QED BY <2>1 DEF IInv, TypeOK
<1>3. ThreadInv'
  <2>1. ASSUME \A k \in 1..Len(ready) : ready[k] = CloseTask
        PROVE  \A k \in 1..Len(ready') : ready'[k] = CloseTask
    BY <1>1, <2>1
  <2> QED BY <2>1 DEF IInv, ThreadInv
<1>4. AcceptInv'
  BY Appended, AcceptChain, <1>1 DEF IInv, AcceptInv
<1>5. ASSUME NEW j \in Ids PROVE WriteInv(j)' /\ ReadInv(j)'
  <2>1. WriteInv(j)'
    BY Appended, WriteChainOf, <1>1 DEF IInv, WriteInv, Writing
  <2>2. ReadInv(j)'
    BY Appended, ReadChain, WriteChainOf, <1>1 DEF IInv, ReadInv, Reading, Writing
  <2> QED BY <2>1, <2>2
<1> QED BY <1>2, <1>3, <1>4, <1>5 DEF IInv

\* Only close tasks are left in the queue when the io thread does not run.
LEMMA OnlyClose ==
    ASSUME \A k \in 1..Len(ready) : ready[k] = CloseTask
    PROVE  /\ ~Has(ready, AcceptStep) /\ ~Has(ready, {Accepted("ok")})
           /\ \A j \in Ids : ~Has(ready, ReadDone(j)) /\ ~Has(ready, WroteDone(j))
BY AcceptChain, ReadChain, WriteChainOf DEF Has

\* stop() joins the io thread and drops the queue (tcp_server.h:51-55).
LEMMA StopJoinStep ==
    ASSUME IInv, StopJoin
    PROVE  IInv'
<1> USE DEF main, listen, writes, StopJoin, FirstId
<1>1. /\ ~running /\ ~accepting /\ reading = {} /\ inflight = NoLines
      /\ \A k \in 1..Len(ready) : ready[k] = CloseTask
  BY DEF IInv, ThreadInv
<1>2. /\ ~Has(ready, AcceptStep) /\ ~Has(ready, {Accepted("ok")})
      /\ \A j \in Ids : ~Has(ready, ReadDone(j)) /\ ~Has(ready, WroteDone(j))
  BY <1>1, OnlyClose
<1>3. TypeOK'
  BY BoundsAssumption DEF IInv, TypeOK, NoLines, Ids
<1>4. ThreadInv'
  BY <1>1 DEF ThreadInv
<1>5. AcceptInv'
  BY <1>1, <1>2 DEF IInv, AcceptInv
<1>6. ASSUME NEW j \in Ids PROVE WriteInv(j)' /\ ReadInv(j)'
  <2>1. ~Has(ready', WroteDone(j)) /\ ~Has(ready', ReadDone(j)) /\ inflight'[j] = <<>>
    BY <1>2 DEF NoLines
  <2>2. AtMostOne(ready', WroteDone(j)) /\ AtMostOne(ready', ReadDone(j))
    BY DEF IInv, WriteInv, ReadInv
  <2>3. WriteInv(j)'
    BY <2>1, <2>2 DEF WriteInv, Writing, NoLines
  <2>4. ReadInv(j)'
    BY <1>1, <2>1, <2>2, BoundsAssumption DEF ReadInv, Reading, Writing, Ids
  <2> QED BY <2>3, <2>4
<1> QED BY <1>3, <1>4, <1>5, <1>6 DEF IInv

\* do_accept, on a queue that holds no link of the accept chain.
LEMMA Accepting ==
    ASSUME NEW q \in Seq(Handlers), do_accept(q), ~Has(q, AcceptStep), AtMostOne(q, AcceptStep)
    PROVE  /\ ready' \in Seq(Handlers) /\ accepting' \in BOOLEAN
           /\ AtMostOne(ready', AcceptStep) /\ (accepting' <=> ~Has(ready', AcceptStep))
           /\ Has(ready', {Accepted("ok")}) <=> Has(q, {Accepted("ok")})
           /\ \A j \in Ids :
                 /\ Has(ready', ReadDone(j)) <=> Has(q, ReadDone(j))
                 /\ Has(ready', WroteDone(j)) <=> Has(q, WroteDone(j))
                 /\ AtMostOne(q, ReadDone(j)) => AtMostOne(ready', ReadDone(j))
                 /\ AtMostOne(q, WroteDone(j)) => AtMostOne(ready', WroteDone(j))
<1>1. CASE acceptor = "open"
  BY <1>1 DEF do_accept
<1>2. CASE acceptor # "open"
  <2>1. ready' = Append(q, Accepted("error")) /\ accepting' = FALSE
    BY <1>2 DEF do_accept
  <2>2. /\ Accepted("error") \in Handlers /\ Accepted("error") \in AcceptStep
        /\ Accepted("error") \notin {Accepted("ok")}
        /\ \A j \in Ids : Accepted("error") \notin ReadDone(j) /\ Accepted("error") \notin WroteDone(j)
    BY HandlersAre, AcceptChain, ReadChain, WriteChainOf DEF Codes
  <2> QED BY <2>1, <2>2, Appended
<1> QED BY <1>1, <1>2

\* start() begins the accept chain and runs the io thread (tcp_server.h:33-38).
LEMMA StartStep ==
    ASSUME IInv, Start
    PROVE  IInv'
<1> USE DEF main, listen, writes, Start
<1>1. /\ ~accepting /\ reading = {} /\ inflight = NoLines
      /\ \A k \in 1..Len(ready) : ready[k] = CloseTask
  BY DEF IInv, ThreadInv
<1>2. /\ ~Has(ready, AcceptStep) /\ ~Has(ready, {Accepted("ok")})
      /\ ready \in Seq(Handlers) /\ AtMostOne(ready, AcceptStep)
  BY <1>1, OnlyClose DEF IInv, TypeOK, AcceptInv
<1>3. TypeOK'
  <2>1. starts' \in 0..MaxStarts
    BY BoundsAssumption DEF IInv, TypeOK
  <2> QED BY <2>1, <1>2, Accepting DEF IInv, TypeOK
<1>4. ThreadInv'
  BY DEF ThreadInv
<1>5. AcceptInv'
  BY <1>2, Accepting DEF AcceptInv
<1>6. ASSUME NEW j \in Ids PROVE WriteInv(j)' /\ ReadInv(j)'
  <2>1. /\ Has(ready', WroteDone(j)) <=> Has(ready, WroteDone(j))
        /\ Has(ready', ReadDone(j)) <=> Has(ready, ReadDone(j))
        /\ AtMostOne(ready', WroteDone(j)) /\ AtMostOne(ready', ReadDone(j))
    BY <1>2, Accepting DEF IInv, WriteInv, ReadInv
  <2>2. WriteInv(j)'
    BY <2>1 DEF IInv, WriteInv, Writing
  <2>3. ReadInv(j)'
    BY <2>1 DEF IInv, ReadInv, Reading, Writing
  <2> QED BY <2>2, <2>3
<1> QED BY <1>3, <1>4, <1>5, <1>6 DEF IInv

(***************************************************************************)
(* The handlers.  What is known of the queue when handler h was taken.     *)
(***************************************************************************)

\* What the io thread knows when it takes a handler: no second link of its chain is queued.
LEMMA Taking ==
    ASSUME IInv, NEW h, Running(h)
    PROVE  /\ io = "run" /\ h \in Handlers /\ Tail(ready) \in Seq(Handlers)
           /\ AtMostOne(Tail(ready), AcceptStep)
           /\ Has(ready, AcceptStep) <=> h \in AcceptStep \/ Has(Tail(ready), AcceptStep)
           /\ h \in AcceptStep => ~Has(Tail(ready), AcceptStep) /\ ~accepting
           /\ h \in {Accepted("ok")} => next_id <= MaxConns
           /\ Has(Tail(ready), {Accepted("ok")}) => next_id <= MaxConns
           /\ \A j \in Ids :
                 /\ AtMostOne(Tail(ready), ReadDone(j)) /\ AtMostOne(Tail(ready), WroteDone(j))
                 /\ Has(ready, ReadDone(j)) <=> h \in ReadDone(j) \/ Has(Tail(ready), ReadDone(j))
                 /\ Has(ready, WroteDone(j)) <=> h \in WroteDone(j) \/ Has(Tail(ready), WroteDone(j))
                 /\ h \in ReadDone(j) => ~Has(Tail(ready), ReadDone(j))
                 /\ h \in WroteDone(j) => ~Has(Tail(ready), WroteDone(j))
<1>1. ready \in Seq(Handlers) /\ ready # <<>> /\ h = Head(ready) /\ io = "run"
  BY DEF IInv, TypeOK, Running
<1>2. Tail(ready) \in Seq(Handlers) /\ h \in Handlers
  BY <1>1, Taken
<1>3. /\ Has(ready, AcceptStep) <=> h \in AcceptStep \/ Has(Tail(ready), AcceptStep)
      /\ Has(ready, {Accepted("ok")}) <=> h \in {Accepted("ok")} \/ Has(Tail(ready), {Accepted("ok")})
      /\ AtMostOne(Tail(ready), AcceptStep)
      /\ h \in AcceptStep => ~Has(Tail(ready), AcceptStep)
  BY <1>1, Taken DEF IInv, AcceptInv
<1>4. /\ h \in AcceptStep => ~accepting
      /\ Has(ready, {Accepted("ok")}) => next_id <= MaxConns
  BY <1>3 DEF IInv, AcceptInv
<1>5. ASSUME NEW j \in Ids
      PROVE  /\ AtMostOne(Tail(ready), ReadDone(j)) /\ AtMostOne(Tail(ready), WroteDone(j))
             /\ Has(ready, ReadDone(j)) <=> h \in ReadDone(j) \/ Has(Tail(ready), ReadDone(j))
             /\ Has(ready, WroteDone(j)) <=> h \in WroteDone(j) \/ Has(Tail(ready), WroteDone(j))
             /\ h \in ReadDone(j) => ~Has(Tail(ready), ReadDone(j))
             /\ h \in WroteDone(j) => ~Has(Tail(ready), WroteDone(j))
  BY <1>1, Taken DEF IInv, WriteInv, ReadInv
<1> QED BY <1>1, <1>2, <1>3, <1>4, <1>5

\* The posted close (tcp_server.h:44-50) leaves every chain with at most a completion.
LEMMA RunCloseStep ==
    ASSUME IInv, RunClose
    PROVE  IInv'
<1> USE DEF main, listen, writes, RunClose
<1> DEFINE h == CloseTask
<1>1. /\ h \notin AcceptStep
      /\ \A j \in Ids : h \notin ReadDone(j) /\ h \notin WroteDone(j)
  BY AcceptChain, ReadChain, WriteChainOf
<1> HIDE DEF h
<1>2. Running(h)
  BY DEF h
<1>3. TypeOK'
  <2>1. ready' \in Seq(Handlers)
    BY <1>2, Taking
  <2> QED BY <2>1 DEF IInv, TypeOK
<1>4. ThreadInv'
  BY <1>2, Taking DEF IInv, ThreadInv
<1>5. AcceptInv'
  <2>1. /\ Has(ready', AcceptStep) <=> Has(ready, AcceptStep)
        /\ AtMostOne(ready', AcceptStep)
        /\ Has(ready', {Accepted("ok")}) => next_id <= MaxConns
    BY <1>1, <1>2, Taking
  <2> QED BY <2>1 DEF IInv, AcceptInv
<1>6. ASSUME NEW j \in Ids PROVE WriteInv(j)' /\ ReadInv(j)'
  <2>1. /\ Has(ready', WroteDone(j)) <=> Has(ready, WroteDone(j))
        /\ Has(ready', ReadDone(j)) <=> Has(ready, ReadDone(j))
        /\ AtMostOne(ready', WroteDone(j)) /\ AtMostOne(ready', ReadDone(j))
    BY <1>1, <1>2, Taking
  <2>2. WriteInv(j)'
    BY <2>1 DEF IInv, WriteInv, Writing
  <2>3. ReadInv(j)'
    BY <2>1 DEF IInv, ReadInv, Reading, Writing
  <2> QED BY <2>2, <2>3
<1> QED BY <1>3, <1>4, <1>5, <1>6 DEF IInv

\* An accept that failed retries while running_ is set (tcp_server.h:133-139).
LEMMA OnAcceptErrorStep ==
    ASSUME IInv, OnAcceptError
    PROVE  IInv'
<1> USE DEF main, listen, writes, OnAcceptError
<1> DEFINE h == Accepted("error")
           q == Tail(ready)
<1>1. /\ h \in AcceptStep /\ h \notin {Accepted("ok")}
      /\ \A j \in Ids : h \notin ReadDone(j) /\ h \notin WroteDone(j)
  BY AcceptChain, ReadChain, WriteChainOf DEF Codes
<1> HIDE DEF h
<1>2. Running(h)
  BY DEF h
<1>3. q \in Seq(Handlers) /\ AcceptAgain \in Handlers
  BY <1>2, Taking, HandlersAre
<1>4. TypeOK'
  <2>1. ready' \in Seq(Handlers)
    BY <1>3, AppendFacts
  <2> QED BY <2>1 DEF IInv, TypeOK
<1>5. ThreadInv'
  BY <1>2, Taking DEF IInv, ThreadInv
<1>6. AcceptInv'
  <2>1. /\ ~Has(q, AcceptStep) /\ AtMostOne(q, AcceptStep) /\ ~accepting
        /\ Has(q, {Accepted("ok")}) => next_id <= MaxConns
    BY <1>1, <1>2, Taking
  <2>2. CASE running
    <3>1. AtMostOne(ready', AcceptStep) /\ Has(ready', AcceptStep)
      BY <2>1, <2>2, <1>3, Appended, AcceptChain
    <3>2. Has(ready', {Accepted("ok")}) => next_id <= MaxConns
      BY <2>1, <2>2, <1>3, Appended, AcceptChain
    <3> QED BY <2>1, <2>2, <3>1, <3>2 DEF AcceptInv
  <2>3. CASE ~running
    BY <2>1, <2>3 DEF AcceptInv
  <2> QED BY <2>2, <2>3
<1>7. ASSUME NEW j \in Ids PROVE WriteInv(j)' /\ ReadInv(j)'
  <2>1. /\ Has(q, WroteDone(j)) <=> Has(ready, WroteDone(j))
        /\ Has(q, ReadDone(j)) <=> Has(ready, ReadDone(j))
        /\ AtMostOne(q, WroteDone(j)) /\ AtMostOne(q, ReadDone(j))
    BY <1>1, <1>2, Taking
  <2>2. /\ Has(ready', WroteDone(j)) <=> Has(ready, WroteDone(j))
        /\ Has(ready', ReadDone(j)) <=> Has(ready, ReadDone(j))
        /\ AtMostOne(ready', WroteDone(j)) /\ AtMostOne(ready', ReadDone(j))
    <3>1. AcceptAgain \notin WroteDone(j) /\ AcceptAgain \notin ReadDone(j)
      BY ReadChain, WriteChainOf
    <3>2. ready' = q \/ ready' = Append(q, AcceptAgain)
      OBVIOUS
    <3> QED BY <2>1, <3>1, <3>2, <1>3, Appended
  <2>3. WriteInv(j)'
    BY <2>2 DEF IInv, WriteInv, Writing
  <2>4. ReadInv(j)'
    BY <2>2 DEF IInv, ReadInv, Reading, Writing
  <2> QED BY <2>3, <2>4
<1> QED BY <1>4, <1>5, <1>6, <1>7 DEF IInv

\* The retry of the accept (tcp_server.h:136).
LEMMA RunAcceptAgainStep ==
    ASSUME IInv, RunAcceptAgain
    PROVE  IInv'
<1> USE DEF main, listen, writes, RunAcceptAgain
<1> DEFINE h == AcceptAgain
           q == Tail(ready)
<1>1. /\ h \in AcceptStep /\ h \notin {Accepted("ok")}
      /\ \A j \in Ids : h \notin ReadDone(j) /\ h \notin WroteDone(j)
  BY AcceptChain, ReadChain, WriteChainOf
<1> HIDE DEF h
<1>2. Running(h)
  BY DEF h
<1>3. /\ q \in Seq(Handlers) /\ ~Has(q, AcceptStep) /\ AtMostOne(q, AcceptStep) /\ ~accepting
      /\ Has(q, {Accepted("ok")}) => next_id <= MaxConns
  BY <1>1, <1>2, Taking
<1>4. ASSUME NEW j \in Ids
      PROVE  /\ Has(q, WroteDone(j)) <=> Has(ready, WroteDone(j))
             /\ Has(q, ReadDone(j)) <=> Has(ready, ReadDone(j))
             /\ AtMostOne(q, WroteDone(j)) /\ AtMostOne(q, ReadDone(j))
  BY <1>1, <1>2, Taking
<1> HIDE DEF q
<1>5. \/ running /\ do_accept(q)
      \/ ~running /\ ready' = q /\ accepting' = accepting
  BY DEF q
<1>6. TypeOK'
  BY <1>3, <1>5, Accepting DEF IInv, TypeOK
<1>7. ThreadInv'
  BY <1>2, Taking DEF IInv, ThreadInv
<1>8. AcceptInv'
  BY <1>3, <1>5, Accepting DEF AcceptInv
<1>9. ASSUME NEW j \in Ids PROVE WriteInv(j)' /\ ReadInv(j)'
  <2>1. /\ Has(ready', WroteDone(j)) <=> Has(ready, WroteDone(j))
        /\ Has(ready', ReadDone(j)) <=> Has(ready, ReadDone(j))
        /\ AtMostOne(ready', WroteDone(j)) /\ AtMostOne(ready', ReadDone(j))
    BY <1>3, <1>4, <1>5, Accepting
  <2>2. WriteInv(j)'
    BY <2>1 DEF IInv, WriteInv, Writing
  <2>3. ReadInv(j)'
    BY <2>1 DEF IInv, ReadInv, Reading, Writing
  <2> QED BY <2>2, <2>3
<1> QED BY <1>6, <1>7, <1>8, <1>9 DEF IInv
\* A new connection begins its read chain, with an empty outbox (tcp_server.h:140-152).
LEMMA OnAcceptStep ==
    ASSUME IInv, OnAccept
    PROVE  IInv'
<1> USE DEF main, listen, writes
<1> DEFINE h == Accepted("ok")
           q == Tail(ready)
<1>1. /\ h \in AcceptStep /\ h \in {Accepted("ok")}
      /\ \A j \in Ids : h \notin ReadDone(j) /\ h \notin WroteDone(j)
  BY AcceptChain, ReadChain, WriteChainOf DEF Codes
<1>2. Running(h)
  BY DEF OnAccept
<1> HIDE DEF h
<1>3. /\ q \in Seq(Handlers) /\ ~Has(q, AcceptStep) /\ AtMostOne(q, AcceptStep) /\ ~accepting
      /\ next_id <= MaxConns /\ io = "run"
  BY <1>1, <1>2, Taking
<1>4. ~Has(q, {Accepted("ok")})
  BY <1>3 DEF Has, AcceptStep
<1>5. ASSUME NEW j \in Ids
      PROVE  /\ Has(q, WroteDone(j)) <=> Has(ready, WroteDone(j))
             /\ Has(q, ReadDone(j)) <=> Has(ready, ReadDone(j))
             /\ AtMostOne(q, WroteDone(j)) /\ AtMostOne(q, ReadDone(j))
  BY <1>1, <1>2, Taking
<1>6. next_id \in Ids /\ next_id + 1 \in 1..(MaxConns + 1)
  BY <1>3, BoundsAssumption DEF IInv, TypeOK, Ids
<1> HIDE DEF q
<1>7. CASE ~running
  <2>1. /\ ready' = q /\ pc' = pc /\ running' = running /\ io' = io /\ starts' = starts
        /\ UNCHANGED <<acceptor, accepting, next_id, conns, open, reading, writes, lines, disconnects>>
    BY <1>7 DEF OnAccept, q
  <2>2. TypeOK'
    BY <1>3, <2>1 DEF IInv, TypeOK
  <2>3. ThreadInv'
    BY <1>3, <2>1 DEF IInv, ThreadInv
  <2>4. AcceptInv'
    BY <1>3, <1>4, <1>7, <2>1 DEF AcceptInv
  <2>5. ASSUME NEW j \in Ids PROVE WriteInv(j)' /\ ReadInv(j)'
    BY <1>5, <2>1 DEF IInv, WriteInv, Writing, ReadInv, Reading
  <2> QED BY <2>2, <2>3, <2>4, <2>5 DEF IInv
<1>8. CASE running
  <2>1. /\ next_id' = next_id + 1 /\ conns' = conns \cup {next_id}
        /\ open' = open \cup {next_id} /\ reading' = reading \cup {next_id}
        /\ UNCHANGED <<io, acceptor, writes, lines, disconnects, starts>>
        /\ \/ do_accept(q) /\ pc' = pc /\ running' = running
           \/ /\ pc' = "posting" /\ running' = FALSE /\ ready' = q /\ accepting' = accepting
    BY <1>8 DEF OnAccept, q
  <2>2. /\ ready' \in Seq(Handlers) /\ accepting' \in BOOLEAN /\ AtMostOne(ready', AcceptStep)
        /\ accepting' => ~Has(ready', AcceptStep)
        /\ running' => accepting' \/ Has(ready', AcceptStep)
        /\ ~Has(ready', {Accepted("ok")})
    <3>1. CASE do_accept(q)
      BY <3>1, <1>3, <1>4, Accepting
    <3>2. CASE ready' = q /\ accepting' = accepting /\ ~running'
      BY <3>2, <1>3, <1>4 DEF IInv, TypeOK
    <3> QED BY <2>1, <3>1, <3>2
  <2>3. TypeOK'
    BY <1>6, <2>1, <2>2 DEF IInv, TypeOK
  <2>4. ThreadInv'
    BY <1>3, <1>8, <2>1 DEF IInv, ThreadInv
  <2>5. AcceptInv'
    BY <2>2 DEF AcceptInv
  <2>6. ASSUME NEW j \in Ids PROVE WriteInv(j)' /\ ReadInv(j)'
    <3>1. /\ Has(ready', WroteDone(j)) <=> Has(ready, WroteDone(j))
          /\ Has(ready', ReadDone(j)) <=> Has(ready, ReadDone(j))
          /\ AtMostOne(ready', WroteDone(j)) /\ AtMostOne(ready', ReadDone(j))
      BY <1>3, <1>5, <2>1, Accepting
    <3>2. Writing(j)' <=> Writing(j)
      BY <2>1, <3>1 DEF Writing
    <3>3. j \in Nat /\ next_id \in Nat /\ (j >= next_id' => j >= next_id)
      BY <2>1 DEF IInv, TypeOK, Ids
    <3>4. j = next_id => ~Writing(j) /\ ~Reading(j) /\ outbox[j] = <<>> /\ j \notin writing
                         /\ disconnects[j] = 0
      BY <3>3 DEF IInv, WriteInv, ReadInv
    <3>5. WriteInv(j)'
      BY <2>1, <3>1, <3>2, <3>3, <3>4 DEF IInv, WriteInv
    <3>6. Reading(j)' <=> Reading(j) \/ j = next_id
      BY <2>1, <3>1 DEF Reading
    <3>7. ReadInv(j)'
      <4>1. CASE j = next_id
        BY <4>1, <2>1, <3>1, <3>2, <3>3, <3>4, <3>6 DEF IInv, ReadInv, Reading
      <4>2. CASE j # next_id
        BY <4>2, <2>1, <3>1, <3>2, <3>3, <3>6 DEF IInv, ReadInv
      <4> QED BY <4>1, <4>2
    <3> QED BY <3>5, <3>7
  <2> QED BY <2>3, <2>4, <2>5, <2>6 DEF IInv
<1> QED BY <1>7, <1>8

\* A line is handled and the next read begins (tcp_server.h:155-194).
LEMMA OnLineStep ==
    ASSUME IInv, NEW i \in Ids, NEW posts \in Seq(Tasks), OnLine(i, posts)
    PROVE  IInv'
<1> USE DEF main, listen, writes, OnLine
<1> DEFINE h == Read(i, "ok")
           q == Tail(ready)
<1>1. /\ h \notin AcceptStep
      /\ \A j \in Ids : (h \in ReadDone(j) <=> i = j) /\ h \notin WroteDone(j)
  BY AcceptChain, ReadChain, WriteChainOf DEF Codes
<1> HIDE DEF h
<1>2. Running(h)
  BY DEF h
<1>3. /\ q \in Seq(Handlers) /\ AtMostOne(q, AcceptStep) /\ io = "run"
      /\ Has(q, AcceptStep) <=> Has(ready, AcceptStep)
      /\ Has(q, {Accepted("ok")}) => next_id <= MaxConns
  BY <1>1, <1>2, Taking
<1>4. TypeOK'
  <2>1. ready' \in Seq(Handlers)
    BY <1>3, Posted
  <2> QED BY <2>1 DEF IInv, TypeOK
<1>5. ThreadInv'
  BY <1>3 DEF IInv, ThreadInv
<1>6. AcceptInv'
  <2>1. /\ Has(ready', AcceptStep) <=> Has(ready, AcceptStep)
        /\ AtMostOne(ready', AcceptStep)
        /\ Has(ready', {Accepted("ok")}) => next_id <= MaxConns
    BY <1>3, Posted
  <2> QED BY <2>1 DEF IInv, AcceptInv
<1>7. ASSUME NEW j \in Ids PROVE WriteInv(j)' /\ ReadInv(j)'
  <2>1. /\ AtMostOne(q, WroteDone(j)) /\ AtMostOne(q, ReadDone(j))
        /\ Has(q, WroteDone(j)) <=> Has(ready, WroteDone(j))
        /\ Has(ready, ReadDone(j)) <=> i = j \/ Has(q, ReadDone(j))
        /\ i = j => ~Has(q, ReadDone(j))
    BY <1>1, <1>2, Taking
  <2>2. /\ Has(ready', WroteDone(j)) <=> Has(ready, WroteDone(j))
        /\ Has(ready', ReadDone(j)) <=> Has(q, ReadDone(j))
        /\ AtMostOne(ready', WroteDone(j)) /\ AtMostOne(ready', ReadDone(j))
    <3>1. /\ Has(q \o posts, WroteDone(j)) <=> Has(q, WroteDone(j))
          /\ Has(q \o posts, ReadDone(j)) <=> Has(q, ReadDone(j))
          /\ AtMostOne(q \o posts, WroteDone(j)) /\ AtMostOne(q \o posts, ReadDone(j))
      BY <2>1, <1>3, Posted
    <3> QED BY <2>1, <3>1
  <2>3. WriteInv(j)'
    BY <2>2 DEF IInv, WriteInv, Writing
  <2>4. ReadInv(j)'
    <3>1. CASE i = j
      BY <3>1, <2>1, <2>2 DEF IInv, ReadInv, Reading, Writing, TypeOK
    <3>2. CASE i # j
      BY <3>2, <2>1, <2>2 DEF IInv, ReadInv, Reading, Writing
    <3> QED BY <3>1, <3>2
  <2> QED BY <2>3, <2>4
<1> QED BY <1>4, <1>5, <1>6, <1>7 DEF IInv
\* A failed read or write ends its chain and reports it (tcp_server.h:208-216).
LEMMA DisconnectStep ==
    ASSUME IInv, NEW i \in Ids, NEW posts \in Seq(Tasks),
           OnReadError(i, posts) \/ OnWriteError(i, posts)
    PROVE  IInv'
<1> USE DEF main, listen, writes
<1> DEFINE q == Tail(ready)
<1>1. PICK h \in {Read(i, "error"), Wrote(i, "error")} : Running(h)
  BY DEF OnReadError, OnWriteError
<1>2. /\ h \notin AcceptStep
      /\ \A j \in Ids : i # j => h \notin ReadDone(j) /\ h \notin WroteDone(j)
      /\ h \in ReadDone(i) \/ h \in WroteDone(i)
  BY AcceptChain, ReadChain, WriteChainOf DEF Codes
<1>3. /\ open' = open \ {i} /\ conns' = conns \ {i}
      /\ disconnects' = [disconnects EXCEPT ![i] = @ + 1]
      /\ ready' = q \o posts
      /\ UNCHANGED <<main, io, listen, reading, writes, lines>>
  BY DEF OnReadError, OnWriteError, handle_disconnect
<1>4. /\ q \in Seq(Handlers) /\ AtMostOne(q, AcceptStep) /\ io = "run"
      /\ Has(q, AcceptStep) <=> Has(ready, AcceptStep)
      /\ Has(q, {Accepted("ok")}) => next_id <= MaxConns
  BY <1>1, <1>2, Taking
<1> HIDE DEF q
<1>5. TypeOK'
  <2>1. ready' \in Seq(Handlers)
    BY <1>3, <1>4, Posted
  <2>2. disconnects' \in [Ids -> Nat]
    BY <1>3 DEF IInv, TypeOK
  <2> QED BY <1>3, <2>1, <2>2 DEF IInv, TypeOK
<1>6. ThreadInv'
  BY <1>3, <1>4 DEF IInv, ThreadInv
<1>7. AcceptInv'
  <2>1. /\ Has(ready', AcceptStep) <=> Has(ready, AcceptStep)
        /\ AtMostOne(ready', AcceptStep)
        /\ Has(ready', {Accepted("ok")}) => next_id <= MaxConns
    BY <1>3, <1>4, Posted
  <2> QED BY <1>3, <2>1 DEF IInv, AcceptInv
<1>8. ASSUME NEW j \in Ids PROVE WriteInv(j)' /\ ReadInv(j)'
  <2>1. /\ AtMostOne(q, WroteDone(j)) /\ AtMostOne(q, ReadDone(j))
        /\ Has(ready, WroteDone(j)) <=> h \in WroteDone(j) \/ Has(q, WroteDone(j))
        /\ Has(ready, ReadDone(j)) <=> h \in ReadDone(j) \/ Has(q, ReadDone(j))
        /\ h \in ReadDone(j) => ~Has(q, ReadDone(j))
        /\ h \in WroteDone(j) => ~Has(q, WroteDone(j))
    BY <1>1, Taking DEF q
  <2>2. /\ Has(ready', WroteDone(j)) <=> Has(q, WroteDone(j))
        /\ Has(ready', ReadDone(j)) <=> Has(q, ReadDone(j))
        /\ AtMostOne(ready', WroteDone(j)) /\ AtMostOne(ready', ReadDone(j))
    BY <2>1, <1>3, <1>4, Posted
  <2>3. CASE i # j
    <3>1. /\ Has(ready', WroteDone(j)) <=> Has(ready, WroteDone(j))
          /\ Has(ready', ReadDone(j)) <=> Has(ready, ReadDone(j))
          /\ disconnects'[j] = disconnects[j] /\ (j \in open' <=> j \in open)
          /\ (j \in conns' <=> j \in conns)
      BY <2>1, <2>2, <2>3, <1>2, <1>3 DEF IInv, TypeOK
    <3>2. WriteInv(j)'
      BY <1>3, <2>2, <3>1 DEF IInv, WriteInv, Writing
    <3>3. ReadInv(j)'
      BY <1>3, <2>2, <3>1 DEF IInv, ReadInv, Reading, Writing
    <3> QED BY <3>2, <3>3
  <2>4. CASE i = j
    <3>1. /\ disconnects[i] \in Nat /\ disconnects'[i] = disconnects[i] + 1
          /\ i \notin open' /\ i \notin conns'
      BY <1>3 DEF IInv, TypeOK
    <3>2. /\ Reading(i)' => Reading(i)
          /\ Writing(i)' => Writing(i)
      BY <1>3, <2>1, <2>2, <2>4 DEF Reading, Writing
    <3>3. WriteInv(i)'
      BY <1>3, <2>1, <2>2, <2>4, <3>1, <3>2 DEF IInv, WriteInv
    <3>4. \/ Reading(i) /\ ~Reading(i)'
          \/ Writing(i) /\ ~Writing(i)'
      BY <1>2, <1>3, <2>1, <2>2, <2>4 DEF IInv, WriteInv, ReadInv, Reading, Writing
    <3>5. ~(i >= next_id) /\ i \in Nat /\ next_id \in Nat
      BY <3>4 DEF IInv, WriteInv, ReadInv, TypeOK, Ids
    <3>6. disconnects'[i] + (IF Reading(i)' THEN 1 ELSE 0) + (IF Writing(i)' THEN 1 ELSE 0) <= 2
      BY <3>1, <3>2, <3>4 DEF IInv, ReadInv
    <3>7. ReadInv(i)'
      BY <1>3, <2>1, <2>2, <2>4, <3>1, <3>5, <3>6 DEF IInv, ReadInv
    <3> QED BY <2>4, <3>3, <3>7
  <2> QED BY <2>3, <2>4
<1> QED BY <1>5, <1>6, <1>7, <1>8 DEF IInv

\* A write that succeeded begins the next one, or none on an empty outbox (tcp_server.h:196-206).
LEMMA OnWroteStep ==
    ASSUME IInv, NEW i \in Ids, OnWrote(i)
    PROVE  IInv'
<1> USE DEF main, listen, writes
<1> DEFINE h == Wrote(i, "ok")
           q == Tail(ready)
           goes == Tail(outbox[i]) # <<>> /\ i \in open
<1>1. /\ h \notin AcceptStep
      /\ \A j \in Ids : (h \in WroteDone(j) <=> i = j) /\ h \notin ReadDone(j)
  BY AcceptChain, ReadChain, WriteChainOf DEF Codes
<1>2. Running(h)
  BY DEF OnWrote
<1> HIDE DEF h
<1>3. /\ q \in Seq(Handlers) /\ AtMostOne(q, AcceptStep) /\ io = "run"
      /\ Has(q, AcceptStep) <=> Has(ready, AcceptStep)
      /\ Has(q, {Accepted("ok")}) => next_id <= MaxConns
  BY <1>1, <1>2, Taking
<1>4. /\ Has(ready, WroteDone(i)) /\ ~Has(q, WroteDone(i))
      /\ inflight[i] = <<>> /\ outbox[i] # <<>> /\ i \in writing
      /\ outbox[i] \in Seq(Msgs)
  BY <1>1, <1>2, Taking DEF IInv, WriteInv, Writing, TypeOK
<1>5. /\ Head(outbox[i]) \in Msgs /\ Tail(outbox[i]) \in Seq(Msgs)
      /\ goes => Head(Tail(outbox[i])) \in Msgs
      /\ sent[i] \in Seq(Msgs)
  BY <1>4, HeadTailProperties DEF IInv, TypeOK
<1>6. /\ ready' = q
      /\ UNCHANGED <<main, io, listen, conns, open, reading, lines, disconnects>>
      /\ sent' = [sent EXCEPT ![i] = Append(@, Head(outbox[i]))]
      /\ outbox' = [outbox EXCEPT ![i] = Tail(@)]
  BY DEF OnWrote, do_write_next
<1>7. /\ writing' = IF goes THEN writing ELSE writing \ {i}
      /\ inflight' = [inflight EXCEPT ![i] = IF goes THEN <<Head(Tail(outbox[i]))>> ELSE <<>>]
  <2> DEFINE boxes == [outbox EXCEPT ![i] = Tail(@)]
             go == {j \in {i} : boxes[j] # <<>> /\ j \in open}
  <2>1. boxes[i] = Tail(outbox[i])
    BY DEF IInv, TypeOK
  <2>2. go = IF goes THEN {i} ELSE {}
    BY <2>1
  <2>3. /\ writing' = (writing \ {i}) \cup go
        /\ inflight' = [j \in Ids |-> IF j \in go THEN Append(inflight[j], Head(boxes[j]))
                                                  ELSE inflight[j]]
    BY DEF OnWrote, do_write_next
  <2> HIDE DEF boxes, go, goes
  <2>4. writing' = IF goes THEN writing ELSE writing \ {i}
    BY <2>2, <2>3, <1>4
  <2>5. inflight' = [inflight EXCEPT ![i] = IF goes THEN <<Head(Tail(outbox[i]))>> ELSE <<>>]
    <3>1. Append(inflight[i], Head(boxes[i])) = <<Head(Tail(outbox[i]))>>
      BY <2>1, <1>4
    <3>2. ASSUME NEW j \in Ids
          PROVE  inflight'[j] = IF j = i THEN IF goes THEN <<Head(Tail(outbox[i]))>> ELSE <<>>
                                         ELSE inflight[j]
      BY <2>2, <2>3, <3>1, <1>4
    <3> QED BY <2>3, <3>2 DEF IInv, TypeOK
  <2> QED BY <2>4, <2>5
<1> HIDE DEF q
<1>8. TypeOK'
  <2>1. outbox' \in [Ids -> Seq(Msgs)] /\ sent' \in [Ids -> Seq(Msgs)]
    BY <1>5, <1>6, AppendProperties DEF IInv, TypeOK
  <2>2. inflight' \in [Ids -> Seq(Msgs)]
    BY <1>5, <1>7 DEF IInv, TypeOK
  <2> QED BY <1>3, <1>6, <1>7, <2>1, <2>2 DEF IInv, TypeOK
<1>9. ThreadInv'
  BY <1>3, <1>6 DEF IInv, ThreadInv
<1>10. AcceptInv'
  BY <1>3, <1>6 DEF IInv, AcceptInv
<1>11. ASSUME NEW j \in Ids PROVE WriteInv(j)' /\ ReadInv(j)'
  <2>1. /\ AtMostOne(q, WroteDone(j)) /\ AtMostOne(q, ReadDone(j))
        /\ Has(ready, WroteDone(j)) <=> i = j \/ Has(q, WroteDone(j))
        /\ Has(q, ReadDone(j)) <=> Has(ready, ReadDone(j))
    BY <1>1, <1>2, Taking DEF q
  <2>2. CASE i # j
    <3>1. /\ outbox'[j] = outbox[j] /\ inflight'[j] = inflight[j] /\ (j \in writing' <=> j \in writing)
          /\ Has(ready', WroteDone(j)) <=> Has(ready, WroteDone(j))
      BY <2>1, <2>2, <1>6, <1>7 DEF IInv, TypeOK
    <3>2. WriteInv(j)'
      BY <1>6, <2>1, <3>1 DEF IInv, WriteInv, Writing
    <3>3. ReadInv(j)'
      BY <1>6, <2>1, <3>1 DEF IInv, ReadInv, Reading, Writing
    <3> QED BY <3>2, <3>3
  <2>3. CASE i = j
    <3>1. /\ outbox'[i] = Tail(outbox[i]) /\ ~Has(ready', WroteDone(i))
          /\ inflight'[i] = IF goes THEN <<Head(Tail(outbox[i]))>> ELSE <<>>
          /\ i \in writing' <=> goes
      BY <1>4, <1>6, <1>7 DEF IInv, TypeOK
    <3>2. Writing(i)' <=> goes
      BY <3>1 DEF Writing
    <3>3. Writing(i) /\ ~(i >= next_id)
      BY <1>4 DEF IInv, WriteInv, Writing
    <3>4. WriteInv(i)'
      BY <1>6, <2>1, <2>3, <3>1, <3>2, <3>3 DEF WriteInv
    <3>5. disconnects[i] + (IF Reading(i) THEN 1 ELSE 0) + (IF Writing(i)' THEN 1 ELSE 0) <= 2
      BY <3>3 DEF IInv, ReadInv, TypeOK
    <3>6. ReadInv(i)'
      BY <1>6, <2>1, <2>3, <3>5 DEF IInv, ReadInv, Reading
    <3> QED BY <2>3, <3>4, <3>6
  <2> QED BY <2>2, <2>3
<1> QED BY <1>8, <1>9, <1>10, <1>11 DEF IInv
\* A line at the end of an outbox; the head stays, unless there was none.
LEMMA Queued ==
    ASSUME NEW M, NEW s \in Seq(M), NEW m \in M
    PROVE  /\ Append(s, m) \in Seq(M) /\ Append(s, m) # <<>>
           /\ s = <<>> => Append(s, m) = <<m>>
           /\ s # <<>> => Head(Append(s, m)) = Head(s)
<1>1. /\ Append(s, m) \in Seq(M) /\ Len(s) \in Nat /\ Len(Append(s, m)) = Len(s) + 1
      /\ \A k \in 1..Len(s) : Append(s, m)[k] = s[k]
  BY AppendProperties, SMT
<1>2. Append(s, m) # <<>>
  BY <1>1
<1>3. s = <<>> => Append(s, m) = <<m>>
  OBVIOUS
<1>4. ASSUME s # <<>> PROVE Head(Append(s, m)) = Head(s)
  <2>1. 1 \in 1..Len(s) /\ Head(s) = s[1] /\ Head(Append(s, m)) = Append(s, m)[1]
    BY <1>1, <1>2, <1>4, HeadTailProperties
  <2> QED BY <2>1, <1>1
<1> QED BY <1>1, <1>2, <1>3, <1>4

\* A write and a broadcast task, which differ in the connections S they serve.
LEMMA EnqueueStep ==
    ASSUME IInv, NEW S \in SUBSET (conns \cap open), NEW m \in Msgs, NEW h \in Tasks,
           Running(h), Enqueue(S, m), ready' = Tail(ready),
           UNCHANGED <<main, io, listen, conns, open, reading, sent, lines, disconnects>>
    PROVE  IInv'
<1> USE DEF main, listen
<1> DEFINE q == Tail(ready)
           boxes == [j \in Ids |-> IF j \in S THEN Append(outbox[j], m) ELSE outbox[j]]
           go == {j \in S \ writing : boxes[j] # <<>> /\ j \in open}
<1>1. /\ h \notin AcceptStep
      /\ \A j \in Ids : h \notin WroteDone(j) /\ h \notin ReadDone(j)
  BY AcceptChain, ReadChain, WriteChainOf
<1>2. /\ q \in Seq(Handlers) /\ AtMostOne(q, AcceptStep) /\ io = "run"
      /\ Has(q, AcceptStep) <=> Has(ready, AcceptStep)
      /\ Has(q, {Accepted("ok")}) => next_id <= MaxConns
  BY <1>1, Taking
<1>3. S \subseteq Ids /\ S \subseteq open /\ S \subseteq conns
  BY DEF IInv, TypeOK
<1>4. ASSUME NEW j \in Ids
      PROVE  /\ outbox[j] \in Seq(Msgs) /\ inflight[j] \in Seq(Msgs)
             /\ Append(outbox[j], m) \in Seq(Msgs) /\ Append(outbox[j], m) # <<>>
             /\ outbox[j] = <<>> => Append(outbox[j], m) = <<m>>
             /\ outbox[j] # <<>> => Head(Append(outbox[j], m)) = Head(outbox[j])
  <2>1. outbox[j] \in Seq(Msgs) /\ inflight[j] \in Seq(Msgs) BY DEF IInv, TypeOK
  <2> QED BY <2>1, Queued
<1>5. go = S \ writing
  BY <1>3, <1>4
<1>6. ASSUME NEW j \in S \ writing
      PROVE  j \in Ids /\ ~Writing(j) /\ inflight[j] = <<>> /\ outbox[j] = <<>>
             /\ j \in open /\ j \in conns
  BY <1>3 DEF IInv, WriteInv, Writing
<1>7. /\ outbox' = boxes
      /\ writing' = (writing \ (S \ writing)) \cup go
      /\ inflight' = [j \in Ids |-> IF j \in go THEN Append(inflight[j], Head(boxes[j]))
                                                ELSE inflight[j]]
  BY DEF Enqueue, do_write_next
<1>8. ASSUME NEW j \in Ids
      PROVE  /\ outbox'[j] = IF j \in S THEN Append(outbox[j], m) ELSE outbox[j]
             /\ j \in writing' <=> j \in writing \/ j \in S
             /\ inflight'[j] = IF j \in S \ writing THEN <<m>> ELSE inflight[j]
  <2>1. boxes[j] = IF j \in S THEN Append(outbox[j], m) ELSE outbox[j]
    OBVIOUS
  <2> HIDE DEF boxes, go
  <2>2. outbox'[j] = IF j \in S THEN Append(outbox[j], m) ELSE outbox[j]
    BY <2>1, <1>7
  <2>3. j \in writing' <=> j \in writing \/ j \in S
    BY <1>5, <1>7
  <2>4. CASE j \in S \ writing
    <3>1. boxes[j] = <<m>> /\ inflight[j] = <<>>
      BY <2>1, <2>4, <1>4, <1>6
    <3>2. Append(inflight[j], Head(boxes[j])) = <<m>>
      BY <3>1
    <3> QED BY <2>2, <2>3, <2>4, <3>2, <1>5, <1>7
  <2>5. CASE j \notin S \ writing
    BY <2>2, <2>3, <2>5, <1>5, <1>7
  <2> QED BY <2>4, <2>5
<1>9. TypeOK'
  <2>1. outbox' \in [Ids -> Seq(Msgs)]
    BY <1>4, <1>7
  <2>2. inflight' \in [Ids -> Seq(Msgs)]
    <3> HIDE DEF boxes, go
    <3>1. <<m>> \in Seq(Msgs)
      OBVIOUS
    <3>2. \A j \in Ids : inflight'[j] \in Seq(Msgs)
      BY <3>1, <1>4, <1>8
    <3> QED BY <3>2, <1>7
  <2>3. writing' \subseteq Ids
    BY <1>3, <1>5, <1>7 DEF IInv, TypeOK
  <2> QED BY <1>2, <2>1, <2>2, <2>3 DEF IInv, TypeOK
<1> HIDE DEF q, boxes, go
<1>10. ThreadInv'
  BY <1>2 DEF IInv, ThreadInv
<1>11. AcceptInv'
  BY <1>2 DEF IInv, AcceptInv, q
<1>12. ASSUME NEW j \in Ids PROVE WriteInv(j)' /\ ReadInv(j)'
  <2>1. /\ AtMostOne(ready', WroteDone(j)) /\ AtMostOne(ready', ReadDone(j))
        /\ Has(ready', WroteDone(j)) <=> Has(ready, WroteDone(j))
        /\ Has(ready', ReadDone(j)) <=> Has(ready, ReadDone(j))
    BY <1>1, Taking
  <2>2. CASE j \in S \ writing
    <3>1. /\ outbox'[j] = <<m>> /\ inflight'[j] = <<m>> /\ j \in writing'
          /\ ~Has(ready', WroteDone(j)) /\ j \in open /\ j \in conns
      BY <1>4, <1>6, <1>8, <2>1, <2>2 DEF Writing
    <3>2. ~(j >= next_id) /\ disconnects[j] = 0
      BY <3>1 DEF IInv, WriteInv, ReadInv
    <3>3. WriteInv(j)'
      BY <2>1, <3>1, <3>2 DEF WriteInv, Writing
    <3>4. ReadInv(j)'
      BY <2>1, <3>1, <3>2 DEF IInv, ReadInv, Reading
    <3> QED BY <3>3, <3>4
  <2>3. CASE j \in S /\ j \in writing
    <3>1. /\ outbox'[j] # <<>> /\ inflight'[j] = inflight[j] /\ j \in writing'
          /\ Writing(j) /\ outbox[j] # <<>> /\ Head(outbox'[j]) = Head(outbox[j])
      BY <1>3, <1>4, <1>8, <2>3 DEF IInv, WriteInv
    <3>2. Writing(j)' <=> Writing(j)
      BY <2>1, <3>1 DEF Writing
    <3>3. WriteInv(j)'
      BY <2>1, <3>1, <3>2 DEF IInv, WriteInv
    <3>4. ReadInv(j)'
      BY <2>1, <3>2 DEF IInv, ReadInv, Reading
    <3> QED BY <3>3, <3>4
  <2>4. CASE j \notin S
    <3>1. outbox'[j] = outbox[j] /\ inflight'[j] = inflight[j] /\ (j \in writing' <=> j \in writing)
      BY <1>8, <2>4
    <3>2. WriteInv(j)' /\ ReadInv(j)'
      BY <2>1, <3>1 DEF IInv, WriteInv, ReadInv, Writing, Reading
    <3> QED BY <3>2
  <2> QED BY <2>2, <2>3, <2>4
<1> QED BY <1>9, <1>10, <1>11, <1>12 DEF IInv

(***************************************************************************)
(* The invariant and what follows from it.                                 *)
(***************************************************************************)

\* No chain has begun before start().
LEMMA InitInv == Init => IInv
<1> SUFFICES ASSUME Init PROVE IInv
  OBVIOUS
<1> USE DEF Init, FirstId
<1>1. \A k \in 1..Len(ready) : ready[k] = CloseTask
  OBVIOUS
<1>2. /\ ~Has(ready, AcceptStep) /\ ~Has(ready, {Accepted("ok")})
      /\ \A j \in Ids : ~Has(ready, ReadDone(j)) /\ ~Has(ready, WroteDone(j))
  BY <1>1, OnlyClose
<1>3. TypeOK
  <2>1. NoLines \in [Ids -> Seq(Msgs)] /\ ready \in Seq(Handlers)
    BY DEF NoLines
  <2>2. 0 \in 0..MaxStarts /\ 0 \in 0..MaxLines /\ 1 \in 1..(MaxConns + 1)
    BY BoundsAssumption
  <2>3. disconnects \in [Ids -> Nat]
    OBVIOUS
  <2> QED BY <2>1, <2>2, <2>3 DEF TypeOK
<1>4. ThreadInv
  BY <1>1 DEF ThreadInv
<1>5. \A H : AtMostOne(ready, H)
  BY DEF AtMostOne
<1>6. AcceptInv
  BY <1>2, <1>5 DEF AcceptInv
<1>7. ASSUME NEW j \in Ids PROVE WriteInv(j) /\ ReadInv(j)
  <2>1. inflight[j] = <<>> /\ outbox[j] = <<>> /\ disconnects[j] = 0 /\ j \in Nat /\ ~(j < 1)
    BY BoundsAssumption DEF NoLines, Ids
  <2>2. ~Writing(j) /\ ~Reading(j)
    BY <1>2, <2>1 DEF Writing, Reading
  <2>3. WriteInv(j)
    BY <1>5, <2>1, <2>2 DEF WriteInv
  <2>4. ReadInv(j)
    BY <1>5, <2>1, <2>2 DEF ReadInv
  <2> QED BY <2>3, <2>4
<1> QED BY <1>3, <1>4, <1>6, <1>7 DEF IInv

\* Every step preserves the inductive invariant, one case for each action.
LEMMA NextInv == IInv /\ [Next]_vars => IInv'
<1> SUFFICES ASSUME IInv, [Next]_vars PROVE IInv'
  OBVIOUS
<1>1. CASE UNCHANGED vars
  BY <1>1 DEF vars, main, listen, writes, IInv, TypeOK, ThreadInv, AcceptInv,
              WriteInv, ReadInv, Writing, Reading
<1>2. CASE MainThread
  BY <1>2, StartStep, StopFlagStep, StopPostStep, StopJoinStep DEF MainThread
<1>3. CASE Reactor
  BY <1>3, AcceptReadyStep, ReadReadyStep, WriteReadyStep DEF Reactor
<1>4. CASE IoExit
  BY <1>4, IoExitStep
<1>5. CASE OwnHandler
  <2>1. CASE OnAccept \/ OnAcceptError \/ RunAcceptAgain \/ RunClose
    BY <2>1, OnAcceptStep, OnAcceptErrorStep, RunAcceptAgainStep, RunCloseStep
  <2>2. CASE \E i \in Ids : OnWrote(i)
    BY <2>2, OnWroteStep
  <2>3. ASSUME NEW m \in Msgs, RunBroadcast(m) PROVE IInv'
    <3>1. BroadcastTask(m) \in Tasks
      BY DEF BroadcastTask, Tasks
    <3>2. conns \cap open \in SUBSET (conns \cap open)
      OBVIOUS
    <3> QED BY <2>3, <3>1, <3>2, EnqueueStep DEF RunBroadcast
  <2>4. ASSUME NEW m \in Msgs, NEW i \in Ids, RunWrite(i, m) PROVE IInv'
    <3>1. WriteTask(i, m) \in Tasks
      BY DEF WriteTask, Tasks
    <3>2. {i} \cap conns \cap open \in SUBSET (conns \cap open)
      OBVIOUS
    <3> QED BY <2>4, <3>1, <3>2, EnqueueStep DEF RunWrite
  <2> QED BY <1>5, <2>1, <2>2, <2>3, <2>4 DEF OwnHandler
<1>6. ASSUME NEW posts \in Posts, Callback(posts) PROVE IInv'
  BY <1>6, PostsAssumption, OnLineStep, DisconnectStep DEF Callback
<1> QED BY <1>1, <1>2, <1>3, <1>4, <1>5, <1>6 DEF Next, IoThread

\* The invariant holds in every reachable state.
THEOREM Invariant == Spec => []IInv
BY InitInv, NextInv, PTL DEF Spec

\* Every variable keeps its type.
THEOREM TypeCorrect == Spec => []TypeOK
<1>1. IInv => TypeOK
  BY DEF IInv
<1> QED BY <1>1, Invariant, PTL

\* However the handlers interleave, a connection has one async_write at most, and its
\* buffer stays the front of the outbox until its handler ran (tcp_server.h:196-206).
THEOREM WriteChainHolds == Spec => []WriteChain
<1>1. IInv => WriteChain
  BY DEF IInv, WriteInv, Writing, WriteChain
<1> QED BY <1>1, Invariant, PTL

\* No line is left in the outbox of an open connection with nothing to send it
\* (tcp_server.h:71-72, 196-206).
THEOREM NoStalledOutboxHolds == Spec => []NoStalledOutbox
<1>1. IInv => NoStalledOutbox
  BY DEF IInv, TypeOK, WriteInv, Writing, NoStalledOutbox
<1> QED BY <1>1, Invariant, PTL

\* A running server always has exactly one accept on its way (tcp_server.h:129-153).
THEOREM ListenAliveHolds == Spec => []ListenAlive
<1>1. IInv => ListenAlive
  BY DEF IInv, AcceptInv, TypeOK, ListenAlive
<1> QED BY <1>1, Invariant, PTL

\* Every open connection is read, one is forgotten only after its end was reported, and
\* that happens twice at most (tcp_server.h:157-215).
THEOREM DisconnectReportedHolds == Spec => []DisconnectReported
<1>1. ASSUME IInv PROVE DisconnectReported
  <2>1. \A i \in open : i \in conns /\ (i \in reading \/ Has(ready, ReadDone(i)))
    BY <1>1 DEF IInv, TypeOK, ReadInv, Reading
  <2>2. \A i \in Ids : i < next_id => (i \in conns <=> disconnects[i] = 0)
    BY <1>1 DEF IInv, ReadInv
  <2>3. ASSUME NEW i \in Ids PROVE disconnects[i] <= IF i < next_id THEN 2 ELSE 0
    <3>1. disconnects[i] \in Nat /\ i \in Nat /\ next_id \in Nat
      BY <1>1 DEF IInv, TypeOK, Ids
    <3>2. disconnects[i] <= 2
      BY <1>1, <3>1 DEF IInv, ReadInv
    <3>3. i >= next_id => disconnects[i] = 0
      BY <1>1 DEF IInv, ReadInv
    <3> QED BY <3>1, <3>2, <3>3
  <2> QED BY <2>1, <2>2, <2>3 DEF DisconnectReported
<1> QED BY <1>1, Invariant, PTL

\* The io thread does not end before every connection is closed (tcp_server.h:51-54).
LEMMA ExitedIsQuiet == IInv => QuietAfterExit
<1> SUFFICES ASSUME IInv PROVE QuietAfterExit
  OBVIOUS
<1>1. ASSUME io = "exited"
      PROVE  reading = {} /\ \A k \in 1..Len(ready) : ready[k] = CloseTask
  BY <1>1 DEF IInv, ThreadInv
<1>2. ASSUME io = "exited", NEW i \in open PROVE FALSE
  <2>1. i \in Ids /\ ~Has(ready, ReadDone(i)) /\ i \notin reading
    BY <1>1, <1>2, OnlyClose DEF IInv, TypeOK
  <2> QED BY <1>2, <2>1 DEF IInv, ReadInv, Reading
<1> QED BY <1>1, <1>2 DEF QuietAfterExit

\* What stop() destroys after the join is not in use any more (tcp_server.h:51-54).
THEOREM QuietAfterExitHolds == Spec => []QuietAfterExit
BY ExitedIsQuiet, Invariant, PTL

(***************************************************************************)
(* The refinement of Fanout, step by step.                                 *)
(***************************************************************************)

\* No connection that was not accepted yet was sent anything.
SentInv == \A i \in Ids : i >= next_id => sent[i] = <<>>

\* A step whose callbacks, if any, post tasks.
TransportStep ==
    \/ MainThread \/ Reactor \/ IoExit \/ OwnHandler
    \/ \E posts \in Seq(Tasks) : Callback(posts)

\* A step that leaves the audience and the lines alone is none of the fan-out.
LEMMA NotOfTheFanout ==
    ASSUME UNCHANGED <<open, outbox, sent>>
    PROVE  UNCHANGED Promised!vars
BY DEF Promised!vars

\* A loss, of nobody too, is a Leave (tcp_server.h:208-216).
LEMMA LeavesFanout ==
    ASSUME NEW S \in SUBSET Ids, open' = open \ S, UNCHANGED <<outbox, sent>>
    PROVE  [Promised!Next]_(Promised!vars)
<1>1. CASE S = {}
  <2>1. UNCHANGED <<open, outbox, sent>> BY <1>1
  <2> QED BY <2>1, NotOfTheFanout
<1>2. CASE S # {}
  <2>1. Promised!Leave(S) BY <1>2 DEF Promised!Leave
  <2> QED BY <2>1 DEF Promised!Next
<1> QED BY <1>1, <1>2

\* A connection joins when its socket is open and it has no lines yet (tcp_server.h:140-152).
LEMMA JoinsFanout ==
    ASSUME IInv, SentInv, OnAccept
    PROVE  /\ [Promised!Next]_(Promised!vars)
           /\ next_id' \in {next_id, next_id + 1} /\ sent' = sent
<1>1. UNCHANGED <<outbox, sent>> BY DEF OnAccept, writes
<1>2. CASE ~running
  <2>1. UNCHANGED <<open, next_id>> BY <1>2 DEF OnAccept
  <2> QED BY <1>1, <2>1, NotOfTheFanout
<1>3. CASE running
  <2>1. open' = open \cup {next_id} /\ next_id' = next_id + 1 BY <1>3 DEF OnAccept
  <2>2. Running(Accepted("ok")) BY DEF OnAccept
  <2>3. Accepted("ok") \in {Accepted("ok")} OBVIOUS
  <2>4. next_id <= MaxConns BY <2>2, <2>3, Taking
  <2>5. next_id \in Ids BY <2>4, BoundsAssumption DEF IInv, TypeOK, Ids
  <2>6. next_id \notin open /\ outbox[next_id] = <<>> /\ sent[next_id] = <<>>
    BY <2>5 DEF IInv, WriteInv, SentInv, Ids
  <2>7. sent[next_id] \o outbox[next_id] = <<>> BY <2>6
  <2>8. [i \in Ids |-> sent[i] \o outbox[i]][next_id] = <<>> BY <2>5, <2>7
  <2>9. Promised!Join(next_id) BY <1>1, <2>1, <2>6, <2>8 DEF Promised!Join
  <2> QED BY <1>1, <2>1, <2>5, <2>9 DEF Promised!Next
<1> QED BY <1>2, <1>3

\* The completion of a write delivers the line at the front of the outbox, the next one of
\* the stream (tcp_server.h:201-205).
LEMMA DeliversFanout ==
    ASSUME IInv, NEW i \in Ids, OnWrote(i)
    PROVE  Promised!Next /\ i < next_id /\ \A j \in Ids : j # i => sent'[j] = sent[j]
<1>1. Running(Wrote(i, "ok")) BY DEF OnWrote
<1>2. Wrote(i, "ok") \in WroteDone(i) BY WriteChainOf DEF Codes
<1>3. Wrote(i, "ok") \notin AcceptStep BY AcceptChain DEF Codes
<1>4. Has(ready, WroteDone(i)) BY <1>1, <1>2, <1>3, Taking
<1>5. outbox[i] # <<>> /\ outbox[i] \in Seq(Msgs) /\ sent[i] \in Seq(Msgs)
  BY <1>4 DEF IInv, TypeOK, WriteInv, Writing
<1>6. i < next_id
  BY <1>5 DEF IInv, TypeOK, WriteInv, Ids
<1>7. /\ open' = open
      /\ sent' = [sent EXCEPT ![i] = Append(@, Head(outbox[i]))]
      /\ outbox' = [outbox EXCEPT ![i] = Tail(@)]
  BY DEF OnWrote, do_write_next
<1>8. ASSUME NEW j \in Ids
      PROVE  /\ sent'[j]   = IF j = i THEN Append(sent[i], Head(outbox[i])) ELSE sent[j]
             /\ outbox'[j] = IF j = i THEN Tail(outbox[i]) ELSE outbox[j]
  BY <1>7 DEF IInv, TypeOK
<1> DEFINE old == [j \in Ids |-> sent[j] \o outbox[j]]
           new == [j \in Ids |-> sent'[j] \o outbox'[j]]
<1>9. Append(sent[i], Head(outbox[i])) \o Tail(outbox[i]) = sent[i] \o outbox[i]
  BY <1>5, MoveFront
<1>10. new = old
  <2>1. ASSUME NEW j \in Ids PROVE sent'[j] \o outbox'[j] = sent[j] \o outbox[j]
    BY <1>8, <1>9
  <2> QED BY <2>1
<1>11. old[i] = sent[i] \o outbox[i] OBVIOUS
<1>12. /\ Len(sent[i]) < Len(sent[i] \o outbox[i])
       /\ (sent[i] \o outbox[i])[Len(sent[i]) + 1] = Head(outbox[i])
  <2>1. \A s, q \in Seq(Msgs) : q # <<>> =>
           Len(s) < Len(s \o q) /\ (s \o q)[Len(s) + 1] = Head(q)
    <3> SUFFICES ASSUME NEW s \in Seq(Msgs), NEW q \in Seq(Msgs), q # <<>>
                 PROVE  Len(s) < Len(s \o q) /\ (s \o q)[Len(s) + 1] = Head(q)
      OBVIOUS
    <3>1. Len(s) \in Nat /\ Len(q) \in Nat /\ Len(q) >= 1 /\ Head(q) = q[1] OBVIOUS
    <3>2. Len(s \o q) = Len(s) + Len(q) OBVIOUS
    <3>3. (s \o q)[Len(s) + 1] = q[1] BY <3>1, ConcatProperties
    <3> QED BY <3>1, <3>2, <3>3
  <2> QED BY <1>5, <2>1
<1>13. sent' = [sent EXCEPT ![i] = Append(@, old[i][Len(@) + 1])]
  BY <1>7, <1>11, <1>12
<1>14. Promised!Awaits(i) BY <1>11, <1>12 DEF Promised!Awaits
<1>15. Promised!Deliver(i) BY <1>7, <1>10, <1>13, <1>14 DEF Promised!Deliver
<1> QED BY <1>6, <1>8, <1>15 DEF Promised!Next

\* A write is published to one connection, or to nobody when it is gone, and a broadcast to
\* all (tcp_server.h:58-92).
LEMMA PublishesFanout ==
    ASSUME IInv, NEW S \in SUBSET Ids, NEW m \in Msgs, Enqueue(S, m), UNCHANGED <<open, sent>>,
           S = {} \/ S = open \/ \E i \in open : S = {i}
    PROVE  [Promised!Next]_(Promised!vars)
<1>1. outbox' = [j \in Ids |-> IF j \in S THEN Append(outbox[j], m) ELSE outbox[j]]
  BY DEF Enqueue, do_write_next
<1>2. CASE S = {}
  <2>1. outbox' = outbox BY <1>1, <1>2 DEF IInv, TypeOK
  <2> QED BY <2>1, NotOfTheFanout
<1>3. CASE S # {}
  <2> DEFINE old == [j \in Ids |-> sent[j] \o outbox[j]]
             new == [j \in Ids |-> sent'[j] \o outbox'[j]]
  <2>1. ASSUME NEW j \in Ids
        PROVE  sent'[j] \o outbox'[j] = IF j \in S THEN Append(sent[j] \o outbox[j], m)
                                                  ELSE sent[j] \o outbox[j]
    <3>1. sent[j] \in Seq(Msgs) /\ outbox[j] \in Seq(Msgs) BY DEF IInv, TypeOK
    <3>2. \A s, q \in Seq(Msgs) : s \o Append(q, m) = Append(s \o q, m) BY AppendLast
    <3>3. outbox'[j] = IF j \in S THEN Append(outbox[j], m) ELSE outbox[j] BY <1>1
    <3>4. sent[j] \o Append(outbox[j], m) = Append(sent[j] \o outbox[j], m) BY <3>1, <3>2
    <3> QED BY <3>3, <3>4
  <2>2. new = [j \in Ids |-> IF j \in S THEN Append(old[j], m) ELSE old[j]]
    BY <2>1
  <2>3. Promised!Publish(S, m) BY <1>3, <2>2 DEF Promised!Publish
  <2> QED BY <2>3 DEF Promised!Next
<1> QED BY <1>2, <1>3

\* After the join everything is forgotten, and nobody is there (tcp_server.h:51-55).
LEMMA ResetsFanout ==
    ASSUME IInv, StopJoin
    PROVE  Promised!Next /\ \A i \in Ids : sent'[i] = <<>>
<1>1. QuietAfterExit BY ExitedIsQuiet
<1>2. open = {} /\ open' = {} BY <1>1 DEF StopJoin, QuietAfterExit
<1>3. sent' = NoLines /\ outbox' = NoLines BY DEF StopJoin
<1>4. \A i \in Ids : sent'[i] = <<>> /\ outbox'[i] = <<>> BY <1>3 DEF NoLines
<1>5. [i \in Ids |-> sent'[i] \o outbox'[i]] = Promised!Nothing
  <2>1. \A i \in Ids : sent'[i] \o outbox'[i] = <<>> BY <1>4
  <2> QED BY <2>1 DEF Promised!Nothing
<1>6. Promised!Reset BY <1>2, <1>3, <1>5 DEF Promised!Reset, Promised!Nothing, NoLines
<1> QED BY <1>4, <1>6 DEF Promised!Next

\* Every step of the transport is one of the fan-out or leaves it as it is.
LEMMA FanoutStep ==
    ASSUME IInv, SentInv, [TransportStep]_vars
    PROVE  SentInv' /\ [Promised!Next]_(Promised!vars)
<1> USE DEF main, listen, writes
<1>1. next_id \in Nat BY DEF IInv, TypeOK
<1>2. ASSUME UNCHANGED <<open, outbox, sent, next_id>>
      PROVE  SentInv' /\ [Promised!Next]_(Promised!vars)
  BY <1>2, NotOfTheFanout DEF SentInv
<1>3. ASSUME NEW S \in SUBSET Ids, open' = open \ S, UNCHANGED <<outbox, sent, next_id>>
      PROVE  SentInv' /\ [Promised!Next]_(Promised!vars)
  BY <1>3, LeavesFanout DEF SentInv
<1>4. CASE UNCHANGED vars
  BY <1>2, <1>4 DEF vars
<1>5. CASE MainThread
  <2>1. CASE Start \/ StopFlag \/ StopPost
    BY <1>2, <2>1 DEF Start, StopFlag, StopPost
  <2>2. CASE StopJoin
    <3>1. Promised!Next /\ \A i \in Ids : sent'[i] = <<>> BY <2>2, ResetsFanout
    <3> QED BY <3>1 DEF SentInv
  <2> QED BY <1>5, <2>1, <2>2 DEF MainThread
<1>6. CASE Reactor
  <2>1. ASSUME NEW i \in Ids, NEW ec \in Codes, ReadReady(i, ec) \/ WriteReady(i, ec)
        PROVE  UNCHANGED <<open, outbox, sent, next_id>>
    BY <2>1 DEF ReadReady, WriteReady
  <2>2. ASSUME NEW ec \in Codes, AcceptReady(ec)
        PROVE  UNCHANGED <<open, outbox, sent, next_id>>
    BY <2>2 DEF AcceptReady
  <2> QED BY <1>2, <1>6, <2>1, <2>2 DEF Reactor
<1>7. CASE IoExit
  BY <1>2, <1>7 DEF IoExit
<1>8. CASE OwnHandler
  <2>1. CASE OnAccept
    <3>1. /\ [Promised!Next]_(Promised!vars)
          /\ next_id' \in {next_id, next_id + 1} /\ sent' = sent
      BY <2>1, JoinsFanout
    <3>2. \A i \in Ids : i >= next_id' => i >= next_id BY <1>1, <3>1 DEF Ids
    <3> QED BY <3>1, <3>2 DEF SentInv
  <2>2. CASE OnAcceptError \/ RunAcceptAgain
    BY <1>2, <2>2 DEF OnAcceptError, RunAcceptAgain
  <2>3. CASE RunClose
    <3>1. conns \in SUBSET Ids BY DEF IInv, TypeOK
    <3>2. open' = open \ conns /\ UNCHANGED <<outbox, sent, next_id>> BY <2>3 DEF RunClose
    <3> QED BY <1>3, <3>1, <3>2
  <2>4. ASSUME NEW i \in Ids, OnWrote(i) PROVE SentInv' /\ [Promised!Next]_(Promised!vars)
    <3>1. Promised!Next /\ i < next_id /\ \A j \in Ids : j # i => sent'[j] = sent[j]
      BY <2>4, DeliversFanout
    <3>2. next_id' = next_id BY <2>4 DEF OnWrote
    <3>3. ~(i >= next_id) BY <1>1, <3>1 DEF Ids
    <3> QED BY <3>1, <3>2, <3>3 DEF SentInv
  <2>5. ASSUME NEW m \in Msgs, RunBroadcast(m) PROVE SentInv' /\ [Promised!Next]_(Promised!vars)
    <3>1. conns \cap open = open BY DEF IInv, TypeOK, ReadInv
    <3>2. Enqueue(open, m) /\ UNCHANGED <<open, sent, next_id>> BY <2>5, <3>1 DEF RunBroadcast
    <3>3. open \in SUBSET Ids BY DEF IInv, TypeOK
    <3>4. [Promised!Next]_(Promised!vars) BY <3>2, <3>3, PublishesFanout
    <3> QED BY <3>2, <3>4 DEF SentInv
  <2>6. ASSUME NEW m \in Msgs, NEW i \in Ids, RunWrite(i, m)
        PROVE  SentInv' /\ [Promised!Next]_(Promised!vars)
    <3> DEFINE S == {i} \cap conns \cap open
    <3>1. S \in SUBSET Ids /\ (S = {} \/ \E j \in open : S = {j}) OBVIOUS
    <3>2. Enqueue(S, m) /\ UNCHANGED <<open, sent, next_id>> BY <2>6 DEF RunWrite
    <3> HIDE DEF S
    <3>3. [Promised!Next]_(Promised!vars) BY <3>1, <3>2, PublishesFanout
    <3> QED BY <3>2, <3>3 DEF SentInv
  <2> QED BY <1>8, <2>1, <2>2, <2>3, <2>4, <2>5, <2>6 DEF OwnHandler
<1>9. ASSUME NEW posts \in Seq(Tasks), Callback(posts)
      PROVE  SentInv' /\ [Promised!Next]_(Promised!vars)
  <2>1. ASSUME NEW i \in Ids, OnLine(i, posts) PROVE UNCHANGED <<open, outbox, sent, next_id>>
    BY <2>1 DEF OnLine
  <2>2. ASSUME NEW i \in Ids, OnReadError(i, posts) \/ OnWriteError(i, posts)
        PROVE  {i} \in SUBSET Ids /\ open' = open \ {i} /\ UNCHANGED <<outbox, sent, next_id>>
    BY <2>2 DEF OnReadError, OnWriteError, handle_disconnect
  <2>3. PICK i \in Ids : OnLine(i, posts) \/ OnReadError(i, posts) \/ OnWriteError(i, posts)
    BY <1>9 DEF Callback
  <2>4. CASE OnLine(i, posts) BY <1>2, <2>1, <2>4
  <2>5. CASE OnReadError(i, posts) \/ OnWriteError(i, posts) BY <1>3, <2>2, <2>5
  <2> QED BY <2>3, <2>4, <2>5
<1> QED BY <1>4, <1>5, <1>6, <1>7, <1>8, <1>9 DEF TransportStep

\* At the beginning nobody is there and nothing was written.
LEMMA FanoutInit == Init => SentInv /\ Promised!Init
<1> SUFFICES ASSUME Init PROVE SentInv /\ Promised!Init
  OBVIOUS
<1>1. \A i \in Ids : sent[i] = <<>> /\ outbox[i] = <<>> BY DEF Init, NoLines
<1>2. [i \in Ids |-> sent[i] \o outbox[i]] = Promised!Nothing
  <2>1. \A i \in Ids : sent[i] \o outbox[i] = <<>> BY <1>1
  <2> QED BY <2>1 DEF Promised!Nothing
<1>3. sent = Promised!Nothing BY DEF Init, NoLines, Promised!Nothing
<1> QED BY <1>1, <1>2, <1>3 DEF Init, SentInv, Promised!Init

\* The transport is the ordered fan-out of Fanout in every step: whatever the threads and the
\* peers do, a connection receives what was written to it and broadcast while it was open, in
\* order, nothing twice and nothing left out.  The safety part of KeepsPromise
\* (tcp_server.h:58-92, 129-216).
THEOREM StepsAreTheFanouts == Spec => Promised!Init /\ [][Promised!Next]_(Promised!vars)
<1>1. [Next]_vars => [TransportStep]_vars
  BY PostsAssumption DEF Next, IoThread, TransportStep
<1>2. IInv /\ SentInv /\ [Next]_vars => SentInv' /\ [Promised!Next]_(Promised!vars)
  BY <1>1, FanoutStep
<1> QED BY <1>2, FanoutInit, InitInv, NextInv, PTL DEF Spec

=============================================================================
