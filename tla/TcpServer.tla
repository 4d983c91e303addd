----------------------------- MODULE TcpServer -----------------------------
(***************************************************************************)
(* The server's transport, class TcpServerMulti                            *)
(* (src/packages/server/src/tcp_server.h): one listening socket, one       *)
(* connection object per accepted peer, and one thread that runs the       *)
(* handlers of an asio io_context, while the main thread calls start()     *)
(* and stop().                                                             *)
(*                                                                         *)
(* The io_context (external) is a FIFO of handlers that are ready to run   *)
(* and a reactor that owns the operations under way.  asio::post puts a    *)
(* handler at the end of the FIFO; an operation that completes puts its    *)
(* completion handler there, with an error code ec.  Handlers run one at a *)
(* time, never inside the call that posted them.  An operation on a closed *)
(* socket can only complete with an error, but one that completed before   *)
(* the close keeps its result.                                             *)
(***************************************************************************)
EXTENDS Naturals, Sequences, FiniteSets, Queues

CONSTANTS
    MaxConns,   \* connections accepted between a start() and a stop()
    MaxLines,   \* bound: lines the peers send, all connections together
    MaxStarts,  \* bound: calls of start() that find the server stopped
    Msgs,       \* the lines a callback may send
    Posts       \* what one run of a callback may post: sequences of tasks

Ids == 1..MaxConns

WriteTask(i, m)  == [kind |-> "write", id |-> i, msg |-> m]
BroadcastTask(m) == [kind |-> "broadcast", msg |-> m]

Tasks == [kind: {"write"}, id: Ids, msg: Msgs] \cup [kind: {"broadcast"}, msg: Msgs]

ASSUME BoundsAssumption == MaxConns \in Nat /\ MaxLines \in Nat /\ MaxStarts \in Nat
ASSUME PostsAssumption  == \A p \in Posts : p \in Seq(Tasks)

\* The error code a completion handler gets.
Codes == {"ok", "error"}

CloseTask    == [kind |-> "close"]
AcceptAgain  == [kind |-> "accept again"]
Accepted(ec) == [kind |-> "accepted", ec |-> ec]
Read(i, ec)  == [kind |-> "read", id |-> i, ec |-> ec]
Wrote(i, ec) == [kind |-> "wrote", id |-> i, ec |-> ec]

Handlers == Tasks \cup [kind: {"close", "accept again"}]
                  \cup [kind: {"accepted"}, ec: Codes]
                  \cup [kind: {"read", "wrote"}, id: Ids, ec: Codes]

VARIABLES
    pc,           \* main thread: "idle", or inside stop(): "posting", "joining"
    running,      \* running_
    io,           \* the io thread: "none", "run", or "exited" (io_.run() returned)
    acceptor,     \* acceptor_: "open" or "closed"
    accepting,    \* an async_accept is with the reactor
    next_id,      \* next_id_
    conns,        \* the ids in conns_
    open,         \* the ids whose socket is open
    reading,      \* the ids with an async_read_until with the reactor
    outbox,       \* Conn::outbox
    writing,      \* the ids with Conn::writing set
    inflight,     \* the lines handed to async_write that did not complete yet
    ready,        \* the handlers ready to run
    starts,       \* how often start() started the server
    lines,        \* how many lines peers sent
    sent,         \* history: the lines written, as the write handler saw them
    disconnects   \* history: how often on_disconnect_ was called

main   == <<pc, running, starts>>
listen == <<acceptor, accepting, next_id>>
writes == <<outbox, writing, inflight, sent>>
vars   == <<main, io, listen, conns, open, reading, writes, ready, lines, disconnects>>

NoLines == [i \in Ids |-> <<>>]

\* The definitions named Bad... are the code with a slip, each before the definition it
\* would replace; the properties are tried against them.
BadFirstId == 0
FirstId    == 1

Init ==
    /\ pc = "idle" /\ running = FALSE /\ io = "none" /\ starts = 0
    /\ acceptor = "open" /\ accepting = FALSE /\ next_id = FirstId
    /\ conns = {} /\ open = {} /\ reading = {}
    /\ outbox = NoLines /\ writing = {} /\ inflight = NoLines /\ sent = NoLines
    /\ ready = <<>> /\ lines = 0
    /\ disconnects = [i \in Ids |-> 0]

----------------------------------------------------------------------------
(* Steps shared by several handlers.                                       *)

\* do_accept(): on a closed acceptor async_accept completes at once, with an error.
do_accept(queue) ==
    /\ accepting' = (acceptor = "open")
    /\ ready' = IF acceptor = "open" THEN queue ELSE Append(queue, Accepted("error"))

\* ... that leaves writing set when there is nothing to write.
Bad_do_write_next(S, boxes) ==
    LET go == {i \in S : boxes[i] # <<>> /\ i \in open}
    IN  /\ outbox' = boxes
        /\ writing' = writing \cup go
        /\ inflight' = [i \in Ids |-> IF i \in go THEN Append(inflight[i], Head(boxes[i]))
                                                  ELSE inflight[i]]

\* do_write_next() of the connections in S, on the outboxes as they are now.
do_write_next(S, boxes) ==
    LET go == {i \in S : boxes[i] # <<>> /\ i \in open}
    IN  /\ outbox' = boxes
        /\ writing' = (writing \ S) \cup go
        /\ inflight' = [i \in Ids |-> IF i \in go THEN Append(inflight[i], Head(boxes[i]))
                                                  ELSE inflight[i]]

\* ... that does not look at writing, and one that queues m at the front.
BadEnqueueAlways(S, m) ==
    do_write_next(S, [i \in Ids |-> IF i \in S THEN Append(outbox[i], m) ELSE outbox[i]])
BadEnqueueFront(S, m) ==
    do_write_next(S \ writing,
                  [i \in Ids |-> IF i \in S THEN <<m>> \o outbox[i] ELSE outbox[i]])

\* The body of a write and of a broadcast task: queue m, start the idle connections.
Enqueue(S, m) ==
    do_write_next(S \ writing,
                  [i \in Ids |-> IF i \in S THEN Append(outbox[i], m) ELSE outbox[i]])

\* ... that does not erase the connection.
Bad_handle_disconnect(i, posts) ==
    /\ open' = open \ {i}
    /\ disconnects' = [disconnects EXCEPT ![i] = @ + 1]
    /\ ready' = Tail(ready) \o posts
    /\ UNCHANGED conns

\* handle_disconnect(): close, call on_disconnect_ (which posts), erase.
handle_disconnect(i, posts) ==
    /\ open' = open \ {i}
    /\ conns' = conns \ {i}
    /\ disconnects' = [disconnects EXCEPT ![i] = @ + 1]
    /\ ready' = Tail(ready) \o posts

\* The io thread takes the handler at the front of the queue.
Running(h) == io = "run" /\ ready # <<>> /\ Head(ready) = h

----------------------------------------------------------------------------
(* The main thread.                                                        *)

Start ==
    /\ pc = "idle" /\ ~running /\ starts < MaxStarts
    /\ running' = TRUE /\ io' = "run" /\ starts' = starts + 1
    /\ do_accept(ready)
    /\ UNCHANGED <<pc, acceptor, next_id, conns, open, reading, writes, lines, disconnects>>

\* stop() up to its compare-exchange.
StopFlag ==
    /\ pc = "idle" /\ running
    /\ pc' = "posting" /\ running' = FALSE
    /\ UNCHANGED <<io, starts, listen, conns, open, reading, writes, ready, lines, disconnects>>

StopPost ==
    /\ pc = "posting"
    /\ pc' = "joining" /\ ready' = Append(ready, CloseTask)
    /\ UNCHANGED <<running, io, starts, listen, conns, open, reading, writes, lines, disconnects>>

\* The join returned: restart the io_context, drop the connections and their state.
StopJoin ==
    /\ pc = "joining" /\ io = "exited"
    /\ pc' = "idle" /\ io' = "none"
    /\ conns' = {} /\ open' = {} /\ next_id' = FirstId
    /\ outbox' = NoLines /\ writing' = {} /\ inflight' = NoLines /\ sent' = NoLines
    /\ disconnects' = [i \in Ids |-> 0]
    /\ UNCHANGED <<running, starts, acceptor, accepting, reading, ready, lines>>

----------------------------------------------------------------------------
(* The reactor and the peers.                                              *)

AcceptReady(ec) ==
    /\ accepting
    /\ ec = "ok" => acceptor = "open" /\ next_id <= MaxConns
    /\ accepting' = FALSE /\ ready' = Append(ready, Accepted(ec))
    /\ UNCHANGED <<main, io, acceptor, next_id, conns, open, reading, writes, lines, disconnects>>

ReadReady(i, ec) ==
    /\ i \in reading
    /\ ec = "ok" => i \in open /\ lines < MaxLines
    /\ reading' = reading \ {i} /\ ready' = Append(ready, Read(i, ec))
    /\ lines' = IF ec = "ok" THEN lines + 1 ELSE lines
    /\ UNCHANGED <<main, io, listen, conns, open, writes, disconnects>>

WriteReady(i, ec) ==
    /\ inflight[i] # <<>>
    /\ ec = "ok" => i \in open
    /\ inflight' = [inflight EXCEPT ![i] = Tail(@)]
    /\ ready' = Append(ready, Wrote(i, ec))
    /\ UNCHANGED <<main, io, listen, conns, open, reading, outbox, writing, sent,
                   lines, disconnects>>

\* io_.run() returns when no handler is ready and no operation is under way.
IoExit ==
    /\ io = "run" /\ ready = <<>> /\ ~accepting /\ reading = {} /\ inflight = NoLines
    /\ io' = "exited"
    /\ UNCHANGED <<main, listen, conns, open, reading, writes, ready, lines, disconnects>>

----------------------------------------------------------------------------
(* The handlers.                                                           *)

\* An accept that succeeded.  running_ is read twice, and stop() may clear it between
\* the two reads: the second disjunct of the innermost choice.
OnAccept ==
    /\ Running(Accepted("ok"))
    /\ \/ /\ ~running
          /\ ready' = Tail(ready)
          /\ UNCHANGED <<main, accepting, next_id, conns, open, reading>>
       \/ /\ running
          /\ next_id' = next_id + 1
          /\ conns' = conns \cup {next_id} /\ open' = open \cup {next_id}
          /\ reading' = reading \cup {next_id}
          /\ \/ do_accept(Tail(ready)) /\ UNCHANGED main
             \/ /\ pc' = "posting" /\ running' = FALSE /\ ready' = Tail(ready)
                /\ UNCHANGED <<starts, accepting>>
    /\ UNCHANGED <<io, acceptor, writes, lines, disconnects>>

\* ... that does not try again.
BadOnAcceptError ==
    /\ Running(Accepted("error"))
    /\ ready' = Tail(ready)
    /\ UNCHANGED <<main, io, listen, conns, open, reading, writes, lines, disconnects>>

OnAcceptError ==
    /\ Running(Accepted("error"))
    /\ ready' = IF running THEN Append(Tail(ready), AcceptAgain) ELSE Tail(ready)
    /\ UNCHANGED <<main, io, listen, conns, open, reading, writes, lines, disconnects>>

RunAcceptAgain ==
    /\ Running(AcceptAgain)
    /\ IF running THEN do_accept(Tail(ready))
                  ELSE ready' = Tail(ready) /\ UNCHANGED accepting
    /\ UNCHANGED <<main, io, acceptor, next_id, conns, open, reading, writes, lines, disconnects>>

\* ... that reads no further.
BadOnLine(i, posts) ==
    /\ Running(Read(i, "ok"))
    /\ ready' = Tail(ready) \o posts
    /\ UNCHANGED <<main, io, listen, conns, open, reading, writes, lines, disconnects>>

\* A line was read: on_message_ runs, and reading goes on unless the socket was closed.
OnLine(i, posts) ==
    /\ Running(Read(i, "ok"))
    /\ ready' = Tail(ready) \o posts
    /\ reading' = IF i \in open THEN reading \cup {i} ELSE reading
    /\ UNCHANGED <<main, io, listen, conns, open, writes, lines, disconnects>>

OnReadError(i, posts) ==
    /\ Running(Read(i, "error"))
    /\ handle_disconnect(i, posts)
    /\ UNCHANGED <<main, io, listen, reading, writes, lines>>

OnWrote(i) ==
    /\ Running(Wrote(i, "ok"))
    /\ sent' = [sent EXCEPT ![i] = Append(@, Head(outbox[i]))]
    /\ do_write_next({i}, [outbox EXCEPT ![i] = Tail(@)])
    /\ ready' = Tail(ready)
    /\ UNCHANGED <<main, io, listen, conns, open, reading, lines, disconnects>>

OnWriteError(i, posts) ==
    /\ Running(Wrote(i, "error"))
    /\ handle_disconnect(i, posts)
    /\ UNCHANGED <<main, io, listen, reading, writes, lines>>

RunWrite(i, m) ==
    /\ Running(WriteTask(i, m))
    /\ Enqueue({i} \cap conns \cap open, m)
    /\ ready' = Tail(ready)
    /\ UNCHANGED <<main, io, listen, conns, open, reading, sent, lines, disconnects>>

RunBroadcast(m) ==
    /\ Running(BroadcastTask(m))
    /\ Enqueue(conns \cap open, m)
    /\ ready' = Tail(ready)
    /\ UNCHANGED <<main, io, listen, conns, open, reading, sent, lines, disconnects>>

\* ... that closes the acceptor only.
BadRunClose ==
    /\ Running(CloseTask)
    /\ acceptor' = "closed"
    /\ ready' = Tail(ready)
    /\ UNCHANGED <<main, io, accepting, next_id, conns, open, reading, writes, lines,
                   disconnects>>

RunClose ==
    /\ Running(CloseTask)
    /\ acceptor' = "closed"
    /\ open' = open \ conns
    /\ ready' = Tail(ready)
    /\ UNCHANGED <<main, io, accepting, next_id, conns, reading, writes, lines, disconnects>>

----------------------------------------------------------------------------
Reactor ==
    \/ \E ec \in Codes : AcceptReady(ec)
    \/ \E i \in Ids, ec \in Codes : ReadReady(i, ec) \/ WriteReady(i, ec)

MainThread == Start \/ StopFlag \/ StopPost \/ StopJoin

\* The handlers in which a callback of the application runs.
Callback(posts) ==
    \E i \in Ids : OnLine(i, posts) \/ OnReadError(i, posts) \/ OnWriteError(i, posts)

OwnHandler ==
    \/ OnAccept \/ OnAcceptError \/ RunAcceptAgain \/ RunClose
    \/ \E i \in Ids : OnWrote(i)
    \/ \E m \in Msgs : RunBroadcast(m) \/ \E i \in Ids : RunWrite(i, m)

IoThread == IoExit \/ OwnHandler \/ \E posts \in Posts : Callback(posts)

Next == MainThread \/ Reactor \/ IoThread

(***************************************************************************)
(* Fairness.  A started stop() goes on, the io thread keeps running the    *)
(* handlers that are ready, closing a socket completes what was under way  *)
(* on it, and a write ends: the peer takes the line or the connection      *)
(* fails.  Nothing makes a peer connect, speak or leave, or anyone call    *)
(* start() or stop().                                                      *)
(***************************************************************************)
Fairness ==
    /\ WF_vars(StopPost) /\ WF_vars(StopJoin) /\ WF_vars(IoThread)
    /\ WF_vars(acceptor = "closed" /\ AcceptReady("error"))
    /\ \A i \in Ids : WF_vars(i \notin open /\ ReadReady(i, "error"))
    /\ \A i \in Ids : WF_vars(WriteReady(i, "ok") \/ WriteReady(i, "error"))

Spec == Init /\ [][Next]_vars /\ Fairness

----------------------------------------------------------------------------
(* Properties.                                                             *)

ReadDone(i)  == {Read(i, "ok"), Read(i, "error")}
WroteDone(i) == {Wrote(i, "ok"), Wrote(i, "error")}
AcceptStep   == {Accepted("ok"), Accepted("error"), AcceptAgain}

TypeOK ==
    /\ pc \in {"idle", "posting", "joining"} /\ running \in BOOLEAN
    /\ io \in {"none", "run", "exited"} /\ starts \in 0..MaxStarts
    /\ acceptor \in {"open", "closed"} /\ accepting \in BOOLEAN
    /\ next_id \in 1..(MaxConns + 1)
    /\ conns \subseteq Ids /\ open \subseteq Ids /\ reading \subseteq Ids
    /\ outbox \in [Ids -> Seq(Msgs)] /\ inflight \in [Ids -> Seq(Msgs)]
    /\ sent \in [Ids -> Seq(Msgs)] /\ writing \subseteq Ids
    /\ ready \in Seq(Handlers)
    /\ lines \in 0..MaxLines /\ disconnects \in [Ids -> Nat]

\* Never two async_writes at once on a connection, and the buffer of the one under way
\* is the front of the outbox until its completion handler ran (tcp_server.h:196-206).
WriteChain ==
    \A i \in Ids : inflight[i] # <<>> =>
        outbox[i] # <<>> /\ inflight[i] = <<Head(outbox[i])>> /\ ~Has(ready, WroteDone(i))

\* A queued line is never forgotten: an open connection with a line in its outbox has a
\* write under way, or one whose completion handler will go on (tcp_server.h:71-72).
NoStalledOutbox ==
    \A i \in open : outbox[i] # <<>> => inflight[i] # <<>> \/ Has(ready, WroteDone(i))

\* A running server always has exactly one accept on its way: with the reactor, completed,
\* or to be tried again (tcp_server.h:129-153).
ListenAlive ==
    io = "run" /\ running =>
        AtMostOne(ready, AcceptStep) /\ (accepting <=> ~Has(ready, AcceptStep))

\* An open connection is always read, so that its end is noticed; a connection leaves
\* conns_ only after on_disconnect_ was called for it, and it is called at most twice,
\* once from the read and once from the write that failed (tcp_server.h:157-215).
DisconnectReported ==
    /\ \A i \in open : i \in conns /\ (i \in reading \/ Has(ready, ReadDone(i)))
    /\ \A i \in Ids : i < next_id => (i \in conns <=> disconnects[i] = 0)
    /\ \A i \in Ids : disconnects[i] <= IF i < next_id THEN 2 ELSE 0

\* When the io thread ended, every connection was closed and nothing is left to run on
\* one: what stop() destroys after the join is not in use (tcp_server.h:51-54).
QuietAfterExit ==
    io = "exited" => open = {} /\ \A k \in 1..Len(ready) : ready[k] = CloseTask

\* "Stop accepting and close all connections" (tcp_server.h:40): after stop() returned the
\* server listens no more.
StopCloses == starts > 0 /\ pc = "idle" /\ ~running => acceptor = "closed" /\ open = {}

\* The transport is the ordered fan-out of Fanout: its audience are the open connections,
\* a stream is what was written and what is still in the outbox (tcp_server.h:58-92, 196-206).
Promised == INSTANCE Fanout WITH Members <- Ids, Lines <- Msgs, live <- open,
                                 stream <- [i \in Ids |-> sent[i] \o outbox[i]],
                                 delivered <- sent
KeepsPromise == Promised!Spec

=============================================================================
