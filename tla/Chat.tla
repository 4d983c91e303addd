-------------------------------- MODULE Chat --------------------------------
(***************************************************************************)
(* The whole chat: the clients, the server and the connections between     *)
(* them, with a server that may be killed and started again on its file.   *)
(*                                                                         *)
(* Each part is what its own module shows it to be.  The server's          *)
(* transport is the queue of the tasks that its callbacks post and, per    *)
(* connection, the part of its stream that is not delivered yet (TcpServer *)
(* implements Fanout).  A client's transport is a FIFO of lines that       *)
(* breaks off (TcpClient, Wire).  The store is the sequence of its rows;   *)
(* an insert or a read of it may fail (DbManager).                         *)
(* The handlers are those of the two DataManagers, each in one step: a     *)
(* kill inside a handler leaves what a kill before or after it leaves,     *)
(* since what it posts is lost anyway.                                     *)
(*                                                                         *)
(* A client connects once; one that starts again is another client.        *)
(***************************************************************************)
EXTENDS ChatRules, FiniteSets

CONSTANTS
    Clients,   \* the client processes
    MaxTexts,  \* bound: texts that are typed
    MaxKills   \* bound: how often the server is killed

ASSUME ChatBounds == MaxTexts \in Nat /\ MaxKills \in Nat

Serials == 1..MaxTexts
Texts   == [type: {"text"}, n: Serials, from: Users \cup {NoName}]
Hello   == 0   \* the line InitialConnection; the n-th text is the line n

VARIABLES
    live,       \* the connections the server has open
    coming,     \* the lines on their way to each client, from the outbox on
    posted,     \* the tasks posted by write() and broadcast()
    peer,       \* per connection at the server: "none", "reading", "done"
    users,      \* currentUsers_
    names,      \* idToUsernameMap_
    db,         \* the table messages
    kills,      \* how often the server was killed
    name,       \* the username each client was started with
    link,       \* per client: "none", "up", "down"
    up,         \* the lines on their way to the server
    messages,   \* messages_ of each client
    usersMap,   \* usersMap_ of each client
    typed,      \* history: who typed the n-th text, and whether before connected_ was set
    before,     \* history: how many texts a client was sent before its history
    seen,       \* history: the texts that some client ever showed
    unstored,   \* history: the texts whose insert failed
    cut         \* history: the connected clients whose history broke off

fanout     == <<live, coming>>
connection == <<posted, peer>>
server     == <<users, names, db>>
client     == <<link, up, messages, usersMap>>
losses     == <<unstored, cut>>
ghosts     == <<typed, before, seen, losses>>
vars       == <<fanout, connection, server, kills, name, client, ghosts>>

\* What stands for the lines to a client whose connection broke.
Lost == [type |-> "lost"]

WriteTask(c, m)  == [to |-> {c}, msg |-> m]
BroadcastTask(m) == [to |-> Clients, msg |-> m]

Init ==
    /\ live = {} /\ coming = [c \in Clients |-> <<>>]
    /\ posted = <<>> /\ peer = [c \in Clients |-> "none"]
    /\ users = <<>> /\ names = [c \in Clients |-> NoName] /\ db = <<>> /\ kills = 0
    /\ name \in [Clients -> Users]
    /\ link = [c \in Clients |-> "none"] /\ up = [c \in Clients |-> <<>>]
    /\ messages = [c \in Clients |-> <<>>] /\ usersMap = [c \in Clients |-> <<>>]
    /\ typed = <<>> /\ before = [c \in Clients |-> 0] /\ seen = {}
    /\ unstored = {} /\ cut = {}

----------------------------------------------------------------------------
(* The clients.                                                            *)

\* finish_connected().  A text typed after the connection was made and before this handler
\* ran was posted before the introduction; what was typed earlier was dropped.
Connect(c) ==
    /\ link[c] = "none"
    /\ link' = [link EXCEPT ![c] = "up"]
    /\ \E n \in 0..(MaxTexts - Len(typed)) :
          LET earlier == [k \in 1..n |-> Len(typed) + k]
          IN  /\ typed' = typed \o [k \in 1..n |-> [by |-> c, early |-> TRUE]]
              /\ up' = [up EXCEPT ![c] = Append(earlier, Hello)]
    /\ UNCHANGED <<fanout, connection, server, kills, name, messages, usersMap,
                   before, seen, losses>>

Type(c) ==
    /\ link[c] = "up" /\ Len(typed) < MaxTexts
    /\ typed' = Append(typed, [by |-> c, early |-> FALSE])
    /\ up' = [up EXCEPT ![c] = Append(@, Len(typed) + 1)]
    /\ UNCHANGED <<fanout, connection, server, kills, name, link, messages, usersMap,
                   before, seen, losses>>

\* The next line reaches the client: its onMessage().
Deliver(c) ==
    /\ link[c] = "up" /\ coming[c] # <<>>
    /\ coming' = [coming EXCEPT ![c] = Tail(@)]
    /\ LET m == Head(coming[c])
       IN  IF m.type = "text"
           THEN /\ messages' = [messages EXCEPT ![c] = Append(@, m)] /\ seen' = seen \cup {m}
                /\ UNCHANGED usersMap
           ELSE /\ usersMap' = [usersMap EXCEPT ![c] = [u \in DOMAIN @ \cup {m.user} |->
                        IF u = m.user THEN [online |-> m.online, color |-> m.color] ELSE @[u]]]
                /\ UNCHANGED <<messages, seen>>
    /\ UNCHANGED <<live, connection, server, kills, name, link, up, typed, before, losses>>

\* What the clients in S show does not change any more, and is not kept; nor is what they
\* would have been sent, but that there was something.
Forget(S) ==
    /\ messages' = [c \in Clients |-> IF c \in S THEN <<>> ELSE messages[c]]
    /\ usersMap' = [c \in Clients |-> IF c \in S THEN <<>> ELSE usersMap[c]]
    /\ before' = [c \in Clients |-> IF c \in S THEN 0 ELSE before[c]]
    /\ cut' = cut \ S

\* The connection breaks, or the user closes the window; a beginning of what the client wrote
\* has reached the server.
Break(c) ==
    /\ link[c] = "up"
    /\ link' = [link EXCEPT ![c] = "down"]
    /\ \E n \in 0..Len(up[c]) : up' = [up EXCEPT ![c] = SubSeq(@, 1, n)]
    /\ Forget({c})
    /\ coming' = [coming EXCEPT ![c] = IF @ = <<>> THEN <<>> ELSE <<Lost>>]
    /\ UNCHANGED <<live, connection, server, kills, name, typed, seen, unstored>>

----------------------------------------------------------------------------
(* The server: the connections and the tasks.                              *)

Accept(c) ==
    /\ link[c] # "none" /\ peer[c] = "none"
    /\ peer' = [peer EXCEPT ![c] = "reading"]
    /\ live' = live \cup {c}
    /\ UNCHANGED <<coming, posted, server, kills, name, client, ghosts>>

\* The definitions named Bad... are the code with a slip, as in ChatRules.  This one leaves
\* out the author of a text.
BadAudience(task) ==
    {c \in task.to \cap live : task.msg.type = "text" => name[c] # task.msg.from}

Audience(task) == task.to \cap live

RunTask ==
    /\ posted # <<>> /\ posted' = Tail(posted)
    /\ coming' = [c \in Clients |->
           IF c \notin Audience(Head(posted)) THEN coming[c]
           ELSE IF link[c] = "up" THEN Append(coming[c], Head(posted).msg) ELSE <<Lost>>]
    /\ UNCHANGED <<live, peer, server, kills, name, client, ghosts>>

\* onDisconnect(), when a read or a write failed.
onDisconnect(c) ==
    /\ live' = live \ {c}
    /\ users' = WithOffline(users, names[c])
    /\ posted' = Append(posted, BroadcastTask(OfflineStatus(users, names[c])))
    /\ UNCHANGED <<names, db, kills, name, client, ghosts>>

\* The read ends with the connection, or is aborted when the write failed first.
ReadError(c) ==
    /\ peer[c] = "reading" /\ (c \in live => link[c] = "down" /\ up[c] = <<>>)
    /\ peer' = [peer EXCEPT ![c] = "done"]
    /\ onDisconnect(c)
    /\ UNCHANGED coming

\* A line cannot be written, or is aborted when the read failed first.
WriteError(c) ==
    /\ link[c] = "down" /\ coming[c] # <<>>
    /\ coming' = [coming EXCEPT ![c] = <<>>]
    /\ onDisconnect(c)
    /\ UNCHANGED peer

\* ... that begins with a new table.
BadKept == <<>>

\* The rows that a server finds when it is started again.
Kept == db

\* The server is killed and started again; what was typed on the way is lost.
Kill ==
    /\ kills < MaxKills /\ kills' = kills + 1
    /\ live' = {} /\ coming' = [c \in Clients |-> <<>>]
    /\ posted' = <<>>
    /\ peer' = [c \in Clients |-> IF link[c] = "none" THEN "none" ELSE "done"]
    /\ users' = <<>> /\ names' = [c \in Clients |-> NoName] /\ db' = Kept
    /\ link' = [c \in Clients |-> IF link[c] = "none" THEN "none" ELSE "down"]
    /\ up' = [c \in Clients |-> <<>>] /\ Forget(Clients)
    /\ UNCHANGED <<name, typed, seen, unstored>>

----------------------------------------------------------------------------
(* The server: the messages.                                               *)

\* A line was read; reading goes on unless the connection was closed.
Received(c, line) ==
    /\ peer[c] = "reading" /\ up[c] # <<>> /\ Head(up[c]) = line
    /\ up' = [up EXCEPT ![c] = Tail(@)]
    /\ peer' = IF c \in live THEN peer ELSE [peer EXCEPT ![c] = "done"]

\* ... that keeps no entry for a user that had one before.
BadIntroduced(c) ==
    IF name[c] \in DOMAIN users THEN names ELSE [names EXCEPT ![c] = name[c]]

Introduced(c) == [names EXCEPT ![c] = name[c]]

\* getMessages(): all the rows, or those read before an error.
getMessages == {[rows |-> SubSeq(db, 1, n), whole |-> n = Len(db)] : n \in 0..Len(db)}

\* ... that sends the statuses, but not the history, to a user that comes back.
BadHistory(c) == IF name[c] \in DOMAIN users THEN {[rows |-> <<>>, whole |-> TRUE]}
                                             ELSE getMessages

\* The history that c is sent.
History(c) == getMessages

\* The texts that c was sent, or is sent by the tasks that are posted.
TextsComing(c) ==
    LET tasks == Filter(posted, [to: {{c}, Clients}, msg: AnyText])
    IN  Len(messages[c]) + Len(TextsOf(coming[c])) + Len(tasks)

OnInitialConnection(c) ==
    /\ Received(c, Hello)
    /\ \E color \in ColorsFor(users, name[c]), history \in History(c) :
          LET now     == WithOnline(users, name[c], color)
              welcome == history.rows \o KnownStatuses(now)
          IN  /\ users' = now
              /\ posted' = posted \o [k \in DOMAIN welcome |-> WriteTask(c, welcome[k])]
                                  \o <<BroadcastTask(UserStatus(now, name[c]))>>
              /\ cut' = IF history.whole \/ link[c] # "up" THEN cut ELSE cut \cup {c}
    /\ names' = Introduced(c)
    /\ before' = [before EXCEPT ![c] = IF link[c] = "up" THEN TextsComing(c) ELSE 0]
    /\ UNCHANGED <<fanout, db, kills, name, link, messages, usersMap, typed, seen, unstored>>

\* addMessageEntry(): a failure is logged, and the caller does not learn of it.
addMessageEntry(m) ==
    \/ db' = Append(db, m) /\ UNCHANGED unstored
    \/ unstored' = unstored \cup {m} /\ UNCHANGED db

OnNewMessage(c) ==
    \E n \in Serials :
        LET received == Text(n, names[c])
        IN  /\ Received(c, n)
            /\ addMessageEntry(received)
            /\ posted' = Append(posted, BroadcastTask(received))
            /\ UNCHANGED <<fanout, users, names, kills, name, link, messages,
                           usersMap, typed, before, seen, cut>>

----------------------------------------------------------------------------
Handle(c) == OnInitialConnection(c) \/ OnNewMessage(c)

Next ==
    \/ \E c \in Clients :
          \/ Connect(c) \/ Type(c) \/ Deliver(c) \/ Break(c)
          \/ Accept(c) \/ Handle(c) \/ ReadError(c) \/ WriteError(c)
    \/ RunTask \/ Kill

(***************************************************************************)
(* Fairness.  The io thread of the server keeps accepting, reading and     *)
(* running what was posted, and a line that was put in an outbox reaches   *)
(* the client or its connection breaks.  Nobody has to connect, to type or *)
(* to stay, and nothing makes the server notice that a client is gone.     *)
(***************************************************************************)
Fairness ==
    /\ WF_vars(RunTask)
    /\ \A c \in Clients : WF_vars(Accept(c)) /\ WF_vars(Handle(c)) /\ WF_vars(Deliver(c))

Spec == Init /\ [][Next]_vars /\ Fairness

----------------------------------------------------------------------------
(* Properties.                                                             *)

\* The texts that the server took in, and those of them that are to be in the table.
Handled  == {db[k] : k \in DOMAIN db} \cup unstored
Storable == AnyText \ unstored

\* Those who can read what is said from the first text on.
Members == {c \in live : link[c] = "up" /\ names[c] # NoName}

\* What a member shows since it was sent its history, but for the texts whose insert failed.
View(c) == Filter(SubSeq(messages[c], before[c] + 1, Len(messages[c])), Storable)

\* When nothing is on its way, every member shows what the server holds: all the texts of the
\* table, in its order, unless its own history broke off, and for each user the same presence
\* and colour.  Two things may come on top: a text whose insert failed, which only those see
\* who are there, and an entry without a name, for a connection that was lost before it said
\* who it is (data_manager.cpp:47-132, client data_manager.cpp:73-89).
Agreement ==
    posted = <<>> => \A c \in Members : coming[c] = <<>> =>
        /\ c \in cut \/ View(c) = db
        /\ \A u \in DOMAIN usersMap[c] \ {NoName} : u \in DOMAIN users
        /\ \A u \in DOMAIN users : u \in DOMAIN usersMap[c] /\ usersMap[c][u] = users[u]

\* A text is stored and sent under the name of the client it was typed at, and without a name
\* only when it was typed before that client was connected, whatever connections were lost and
\* made and however often the server was started (data_manager.cpp:95-105,
\* tcp_client.h:147-153).
NamedByAuthor ==
    \A m \in Handled :
        LET source == typed[m.n]
        IN  m.from = name[source.by] \/ (m.from = NoName /\ source.early)

\* Nothing that anybody ever saw is forgotten: when nothing is on its way, every member shows
\* it, also one that came after a kill and a restart, unless the text's insert failed or the
\* member's history broke off (data_manager.cpp:66-70, 104-105, db_manager.cpp:77-142).
SeenIsShown ==
    posted = <<>> => \A c \in Members \ cut : coming[c] = <<>> =>
        \A m \in seen \ unstored : \E k \in DOMAIN View(c) : View(c)[k] = m

\* A text that is typed on a connection comes back to the one who typed it, unless that
\* connection breaks: a client shows its own texts only when the server sends them
\* (client data_manager.cpp:16-28, 73-82).
EchoComes ==
    \A c \in Clients, n \in Serials :
        (link[c] = "up" /\ Len(typed) >= n /\ typed[n].by = c)
            ~> (link[c] = "down" \/ \E k \in DOMAIN messages[c] : messages[c][k].n = n)

\* The chat is the room of Room: its log is the table, a member is who introduced itself on a
\* connection that both ends have open and was sent the whole table, and a member's view is
\* what it was sent since, as far as it is stored (data_manager.cpp:66-70, 104-105).
Views == [c \in Clients |-> IF c \in Members \ cut THEN View(c) ELSE <<>>]

TheRoom == INSTANCE Room WITH People <- Clients, log <- db, members <- Members \ cut,
                              view <- Views
ImplementsRoom == TheRoom!Spec

=============================================================================
