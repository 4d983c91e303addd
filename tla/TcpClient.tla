----------------------------- MODULE TcpClient -----------------------------
(***************************************************************************)
(* The client's transport, class TcpClient                                 *)
(* (src/packages/client/src/tcp_client.h): the UI thread calls connect(),  *)
(* write() and stop(); the io thread resolves, connects, reads and writes. *)
(* The io_context (external) is a FIFO of ready handlers and a reactor, as *)
(* in TcpServer; when it has nothing under way run() returns, the thread   *)
(* ends, and what is posted later stays in the FIFO until a later run().   *)
(***************************************************************************)
EXTENDS Naturals, Sequences, FiniteSets

CONSTANTS
    MaxCalls,   \* bound: calls of connect()
    MaxWrites,  \* bound: calls of write() by the UI
    MaxLines    \* bound: lines the server sends

ASSUME ClientBounds == MaxCalls \in Nat /\ MaxWrites \in Nat /\ MaxLines \in Nat

Hello == 0                \* the InitialConnection that on_connect_ writes
Msgs  == 0..MaxWrites     \* the n-th line of the UI is n

\* The error code a completion handler gets.
Codes == {"ok", "error"}

WriteTask(m)   == [kind |-> "write", msg |-> m]
CloseTask      == [kind |-> "close"]
Done(kind, ec) == [kind |-> kind, ec |-> ec]

Handlers == [kind: {"write"}, msg: Msgs] \cup {CloseTask}
            \cup [kind: {"resolved", "connected", "read", "wrote"}, ec: Codes]

VARIABLES
    pc,         \* UI thread: "idle", or inside stop(): "posting", "joining"
    running,    \* running_
    io,         \* the io thread: "none", "run", "exited"
    op,         \* what do_connect() has under way: "none", "resolving", "connecting"
    connected,  \* connected_
    sock,       \* socket_.is_open()
    reading,    \* an async_read_until is with the reactor
    queue,      \* write_queue_
    writing,    \* writing_
    inflight,   \* the lines handed to async_write that did not complete yet
    ready,      \* the handlers ready to run
    undefined,  \* TRUE after the code popped an empty write_queue_
    calls, written, lines,  \* how often connect() and write() were called; lines received
    sent,       \* history: the lines written, as the write handler saw them
    sessions,   \* history: how often finish_connected() ran
    reports     \* history: how often on_disconnect_ was called

ui      == <<pc, running, io>>
chain   == <<queue, writing, inflight, sent>>
bounds  == <<calls, written, lines>>
history == <<sessions, reports>>
vars    == <<ui, op, connected, sock, reading, chain, ready, undefined, bounds, history>>

Init ==
    /\ pc = "idle" /\ running = FALSE /\ io = "none" /\ op = "none"
    /\ connected = FALSE /\ sock = FALSE /\ reading = FALSE
    /\ queue = <<>> /\ writing = FALSE /\ inflight = <<>> /\ sent = <<>>
    /\ ready = <<>> /\ undefined = FALSE
    /\ calls = 0 /\ written = 0 /\ lines = 0 /\ sessions = 0 /\ reports = 0

----------------------------------------------------------------------------
(* The UI thread.                                                          *)

\* connect(): the exchange of running_ decides; do_connect() starts the resolver.
Connect ==
    /\ pc = "idle" /\ calls < MaxCalls
    /\ calls' = calls + 1
    /\ running' = TRUE
    /\ IF running THEN UNCHANGED <<io, op>> ELSE io' = "run" /\ op' = "resolving"
    /\ UNCHANGED <<pc, connected, sock, reading, chain, ready, undefined, written, lines, history>>

\* write(), by the UI.
Write ==
    /\ pc = "idle" /\ written < MaxWrites
    /\ written' = written + 1
    /\ ready' = Append(ready, WriteTask(written + 1))
    /\ UNCHANGED <<ui, op, connected, sock, reading, chain, undefined, calls, lines, history>>

StopFlag ==
    /\ pc = "idle" /\ running
    /\ running' = FALSE /\ pc' = "posting"
    /\ UNCHANGED <<io, op, connected, sock, reading, chain, ready, undefined, bounds, history>>

StopPost ==
    /\ pc = "posting"
    /\ pc' = "joining" /\ ready' = Append(ready, CloseTask)
    /\ UNCHANGED <<running, io, op, connected, sock, reading, chain, undefined, bounds, history>>

StopJoin ==
    /\ pc = "joining" /\ io = "exited"
    /\ pc' = "idle" /\ io' = "none"
    /\ connected' = FALSE /\ writing' = FALSE /\ queue' = <<>>
    /\ UNCHANGED <<running, op, sock, reading, inflight, sent, ready, undefined, bounds, history>>

----------------------------------------------------------------------------
(* The reactor, the resolver and the server.                               *)

\* A resolver that was cancelled may have its answer already.
ResolveReady(ec) ==
    /\ op = "resolving"
    /\ op' = "none" /\ ready' = Append(ready, Done("resolved", ec))
    /\ UNCHANGED <<ui, connected, sock, reading, chain, undefined, bounds, history>>

ConnectReady(ec) ==
    /\ op = "connecting" /\ (ec = "ok" => sock)
    /\ op' = "none" /\ ready' = Append(ready, Done("connected", ec))
    /\ UNCHANGED <<ui, connected, sock, reading, chain, undefined, bounds, history>>

ReadReady(ec) ==
    /\ reading /\ (ec = "ok" => sock /\ lines < MaxLines)
    /\ reading' = FALSE /\ ready' = Append(ready, Done("read", ec))
    /\ lines' = IF ec = "ok" THEN lines + 1 ELSE lines
    /\ UNCHANGED <<ui, op, connected, sock, chain, undefined, calls, written, history>>

WriteReady(ec) ==
    /\ inflight # <<>> /\ (ec = "ok" => sock)
    /\ inflight' = Tail(inflight) /\ ready' = Append(ready, Done("wrote", ec))
    /\ UNCHANGED <<ui, op, connected, sock, reading, queue, writing, sent, undefined,
                   bounds, history>>

IoExit ==
    /\ io = "run" /\ ~undefined /\ ready = <<>> /\ op = "none" /\ ~reading /\ inflight = <<>>
    /\ io' = "exited"
    /\ UNCHANGED <<pc, running, op, connected, sock, reading, chain, ready, undefined,
                   bounds, history>>

----------------------------------------------------------------------------
(* The handlers.                                                           *)

\* After an undefined step the io thread is not followed any further.
Running(h) == io = "run" /\ ~undefined /\ ready # <<>> /\ Head(ready) = h

\* The definitions named Bad... are the code with a slip, each before the definition it
\* would replace; the properties are tried against them.  This one does not look at
\* connected_.
Bad_handle_disconnect ==
    /\ connected' = FALSE /\ sock' = FALSE /\ queue' = <<>> /\ writing' = FALSE
    /\ reports' = reports + 1
    /\ UNCHANGED <<inflight, sent, sessions>>

\* handle_disconnect(): only the first call of a connection has an effect.
handle_disconnect ==
    /\ connected' = FALSE
    /\ IF connected
       THEN /\ sock' = FALSE /\ queue' = <<>> /\ writing' = FALSE
            /\ reports' = reports + 1
       ELSE UNCHANGED <<sock, queue, writing, reports>>
    /\ UNCHANGED <<inflight, sent, sessions>>

\* ... that never sets writing_, and that never clears it.
BadNoFlag(q) ==
    LET go == q # <<>> /\ connected
    IN  /\ queue' = q /\ writing' = FALSE
        /\ inflight' = IF go THEN Append(inflight, Head(q)) ELSE inflight
BadFlagStays(q) ==
    LET go == q # <<>> /\ connected
    IN  /\ queue' = q /\ writing' = (writing \/ go)
        /\ inflight' = IF go THEN Append(inflight, Head(q)) ELSE inflight

\* do_write_next(), on the queue that its caller left.
do_write_next(q) ==
    LET go == q # <<>> /\ connected
    IN  /\ queue' = q /\ writing' = go
        /\ inflight' = IF go THEN Append(inflight, Head(q)) ELSE inflight

\* Either way of connecting opens the socket first.
OnResolved ==
    /\ Running(Done("resolved", "ok"))
    /\ op' = "connecting" /\ sock' = TRUE /\ ready' = Tail(ready)
    /\ UNCHANGED <<ui, connected, reading, chain, undefined, bounds, history>>

\* finish_connected(): on_connect_ posts the InitialConnection, then reading starts.
OnConnected ==
    /\ Running(Done("connected", "ok"))
    /\ connected' = TRUE /\ sessions' = sessions + 1
    /\ reading' = TRUE
    /\ ready' = Append(Tail(ready), WriteTask(Hello))
    /\ UNCHANGED <<ui, op, sock, chain, undefined, bounds, reports>>

OnLine ==
    /\ Running(Done("read", "ok"))
    /\ reading' = connected /\ ready' = Tail(ready)
    /\ UNCHANGED <<ui, op, connected, sock, chain, undefined, bounds, history>>

\* An error of the resolver, a connect, a read or a write.
OnError ==
    /\ \E kind \in {"resolved", "connected", "read", "wrote"} : Running(Done(kind, "error"))
    /\ handle_disconnect
    /\ ready' = Tail(ready)
    /\ UNCHANGED <<ui, op, reading, undefined, bounds>>

\* ... that forgets pop_front().
BadOnWrote ==
    /\ Running(Done("wrote", "ok"))
    /\ ready' = Tail(ready)
    /\ IF queue = <<>>
       THEN undefined' = TRUE /\ UNCHANGED chain
       ELSE sent' = Append(sent, Head(queue)) /\ do_write_next(queue) /\ UNCHANGED undefined
    /\ UNCHANGED <<ui, op, connected, sock, reading, bounds, history>>

\* pop_front() of an empty deque is undefined: the io thread stops there.
OnWrote ==
    /\ Running(Done("wrote", "ok"))
    /\ ready' = Tail(ready)
    /\ IF queue = <<>>
       THEN undefined' = TRUE /\ UNCHANGED chain
       ELSE /\ sent' = Append(sent, Head(queue))
            /\ do_write_next(Tail(queue))
            /\ UNCHANGED undefined
    /\ UNCHANGED <<ui, op, connected, sock, reading, bounds, history>>

\* ... that forgets the line when a write is under way.
BadRunWrite(m) ==
    /\ Running(WriteTask(m))
    /\ ready' = Tail(ready)
    /\ IF ~connected \/ ~sock \/ writing THEN UNCHANGED chain
       ELSE do_write_next(Append(queue, m)) /\ UNCHANGED sent
    /\ UNCHANGED <<ui, op, connected, sock, reading, undefined, bounds, history>>

RunWrite(m) ==
    /\ Running(WriteTask(m))
    /\ ready' = Tail(ready)
    /\ IF ~connected \/ ~sock THEN UNCHANGED chain
       ELSE /\ IF writing THEN queue' = Append(queue, m) /\ UNCHANGED <<writing, inflight>>
                          ELSE do_write_next(Append(queue, m))
            /\ UNCHANGED sent
    /\ UNCHANGED <<ui, op, connected, sock, reading, undefined, bounds, history>>

\* ... that leaves the socket open.
BadRunClose ==
    /\ Running(CloseTask)
    /\ ready' = Tail(ready)
    /\ UNCHANGED <<ui, op, connected, sock, reading, chain, undefined, bounds, history>>

RunClose ==
    /\ Running(CloseTask)
    /\ sock' = FALSE /\ ready' = Tail(ready)
    /\ UNCHANGED <<ui, op, connected, reading, chain, undefined, bounds, history>>

----------------------------------------------------------------------------
Ui == Connect \/ Write \/ StopFlag \/ StopPost \/ StopJoin

Reactor ==
    \E ec \in Codes : ResolveReady(ec) \/ ConnectReady(ec) \/ ReadReady(ec) \/ WriteReady(ec)

IoThread ==
    \/ IoExit \/ OnResolved \/ OnConnected \/ OnLine \/ OnError \/ OnWrote \/ RunClose
    \/ \E m \in Msgs : RunWrite(m)

Next == Ui \/ Reactor \/ IoThread

(***************************************************************************)
(* Fairness.  A started stop() goes on, the io thread runs what is ready,  *)
(* resolving, connecting and writing end in one way or the other, and a    *)
(* read of a closed socket is aborted.  The server may stay silent forever.*)
(***************************************************************************)
Fairness ==
    /\ WF_vars(StopPost) /\ WF_vars(StopJoin) /\ WF_vars(IoThread)
    /\ WF_vars(\E ec \in Codes : ResolveReady(ec) \/ ConnectReady(ec) \/ WriteReady(ec))
    /\ WF_vars(~sock /\ ReadReady("error"))

Spec == Init /\ [][Next]_vars /\ Fairness

----------------------------------------------------------------------------
(* Properties.                                                             *)

ClientTypeOK ==
    /\ pc \in {"idle", "posting", "joining"} /\ running \in BOOLEAN
    /\ io \in {"none", "run", "exited"} /\ op \in {"none", "resolving", "connecting"}
    /\ connected \in BOOLEAN /\ sock \in BOOLEAN /\ reading \in BOOLEAN
    /\ queue \in Seq(Msgs) /\ inflight \in Seq(Msgs) /\ sent \in Seq(Msgs)
    /\ writing \in BOOLEAN /\ undefined \in BOOLEAN
    /\ ready \in Seq(Handlers)
    /\ calls \in 0..MaxCalls /\ written \in 0..MaxWrites /\ lines \in 0..MaxLines
    /\ sessions \in Nat /\ reports \in Nat

Queued(h) == {k \in DOMAIN ready : ready[k] = h}

\* While connected, at most one async_write is under way, its buffer is the front of the
\* queue until its handler ran, and a queue with lines has one: no pop of another line, of
\* an empty queue, and no line forgotten (tcp_client.h:71-74, 199-217).
ConnectedWriteChain ==
    connected =>
        LET wrote == Queued(Done("wrote", "ok")) \cup Queued(Done("wrote", "error"))
        IN  /\ Len(inflight) + Cardinality(wrote) = IF queue = <<>> THEN 0 ELSE 1
            /\ inflight # <<>> => Head(inflight) = Head(queue)

\* on_disconnect_ is called exactly once for every connection that was established, however
\* many of its operations failed (tcp_client.h:147-153, 219-236).
ReportedOnce == sessions = reports + (IF connected THEN 1 ELSE 0)

\* Lines of the user go out in the order they were given, none twice, and the introduction
\* once for a connection at most (tcp_client.h:60-77, 147-153).
SentInOrder ==
    /\ \A j, k \in DOMAIN sent : j < k /\ sent[j] # Hello /\ sent[k] # Hello => sent[j] < sent[k]
    /\ Cardinality({k \in DOMAIN sent : sent[k] = Hello}) <= sessions

\* stop() returns when no name is being resolved as it begins, whatever else is under way.
\* When one is, the close may run before the socket is opened, and then the join may wait for
\* a connection that is established after it, as long as the server keeps that one; nothing
\* else keeps it waiting (tcp_client.h:41-58, 96-153).
StopReturns ==
    LET resolving == op = "resolving" \/ Queued(Done("resolved", "ok")) # {}
        kept      == pc = "joining" /\ connected /\ sock /\ Queued(CloseTask) = {}
    IN  /\ (pc = "posting" /\ ~resolving) ~> (pc = "idle" \/ undefined)
        /\ pc = "posting" ~> (pc = "idle" \/ undefined \/ kept)

\* A line in the queue is written, or the connection ends (tcp_client.h:199-217).
QueuedIsSent ==
    \A m \in 1..MaxWrites :
        (\E k \in DOMAIN queue : queue[k] = m) ~> (~connected \/ \E k \in DOMAIN sent : sent[k] = m)

\* "No auto-reconnect (keep it simple). Call connect() again if desired."
\* (tcp_client.h:235): a connect() after the connection was lost starts a new one.
ConnectAgain ==
    [][calls' > calls /\ sessions > 0 /\ ~connected => op' = "resolving"]_vars

=============================================================================
