----------------------------- MODULE ChatServer -----------------------------
(***************************************************************************)
(* The chat server: server::DataManager                                    *)
(* (src/packages/server/src/data_manager.cpp) on the transport of          *)
(* TcpServer.  Its handlers are the callbacks of the transport, so they    *)
(* run on the io thread, inside the steps OnLine, OnReadError and          *)
(* OnWriteError; what they write and broadcast is posted to the same queue *)
(* and runs later.  The message table is the sequence of the stored        *)
(* messages in the order of their ids; ChatRules has the messages.         *)
(***************************************************************************)
EXTENDS TcpServer, ChatRules

CONSTANT
    MaxOld      \* bound: texts that an earlier run of the server stored

Texts == [type: {"text"}, n: 1..(MaxOld + MaxLines), from: Users \cup {NoName}]

ASSUME LinesAssumption == Texts \cup Statuses \subseteq Msgs
ASSUME OldAssumption   == MaxOld \in Nat

VARIABLES
    users,   \* currentUsers_: the known users, each with [online, color]
    names,   \* idToUsernameMap_: NoName where it has no entry
    db,      \* the table messages
    said,    \* how many texts exist: the serial number of the latest
    late,    \* history: the ids introduced when they had already left conns_
    failed   \* history: a statement of the database failed

chat     == <<users, names, db, said, late, failed>>
chatVars == <<vars, chat>>

ChatInit ==
    /\ Init
    /\ users = <<>>
    /\ names = [i \in Ids |-> NoName]
    /\ \E old \in 0..MaxOld : db = [n \in 1..old |-> Text(n, NoName)] /\ said = old
    /\ late = {} /\ failed = FALSE

----------------------------------------------------------------------------
(* The database, as the handlers see it; its statements are in DbManager.  *)

\* addMessageEntry(): no error is reported, so a text that was not stored is lost.
addMessageEntry(m) ==
    \/ db' = Append(db, m) /\ UNCHANGED failed
    \/ failed' = TRUE /\ UNCHANGED db

\* ... that leaves out the first row.
BadGetMessagesTail ==
    {[rows |-> SubSeq(db, 2, n), whole |-> n = Len(db)] : n \in 0..Len(db)}
\* getMessages(): all the rows, or those read before an error.
getMessages == {[rows |-> SubSeq(db, 1, n), whole |-> n = Len(db)] : n \in 0..Len(db)}

----------------------------------------------------------------------------
(* The callbacks.                                                          *)

WriteEach(i, lines_) == [k \in DOMAIN lines_ |-> WriteTask(i, lines_[k])]

\* onConnect() only logs, so the transport's OnAccept is the whole step; a client
\* introduces itself once on a connection (client data_manager.cpp:50-56).
OnInitialConnection(i, u) ==
    /\ names[i] = NoName
    /\ \E c \in ColorsFor(users, u), history \in getMessages :
          LET now == WithOnline(users, u, c)
          IN  /\ users' = now
              /\ failed' = (failed \/ ~history.whole)
              /\ OnLine(i, WriteEach(i, history.rows) \o WriteEach(i, KnownStatuses(now))
                              \o <<BroadcastTask(UserStatus(now, u))>>)
    /\ names' = [names EXCEPT ![i] = u]
    /\ late' = IF i \in conns THEN late ELSE late \cup {i}
    /\ UNCHANGED <<db, said>>

\* ... that also writes the text back to its sender.
BadOnNewMessage(i) ==
    LET received == Text(said + 1, names[i])
    IN  /\ addMessageEntry(received)
        /\ OnLine(i, <<WriteTask(i, received), BroadcastTask(received)>>)
        /\ said' = said + 1
        /\ UNCHANGED <<users, names, late>>

OnNewMessage(i) ==
    LET received == Text(said + 1, names[i])
    IN  /\ addMessageEntry(received)
        /\ OnLine(i, <<BroadcastTask(received)>>)
        /\ said' = said + 1
        /\ UNCHANGED <<users, names, late>>

\* The handlers of Login and of Register are empty.
OnLoginOrRegister(i) == OnLine(i, <<>>) /\ UNCHANGED chat

\* onDisconnect(), called for a read and for a write that failed.
onDisconnect(i) ==
    LET u     == names[i]
        posts == <<BroadcastTask(OfflineStatus(users, u))>>
    IN  /\ OnReadError(i, posts) \/ OnWriteError(i, posts)
        /\ users' = WithOffline(users, u)
        /\ UNCHANGED <<names, db, said, late, failed>>

ChatIo ==
    \/ (IoExit \/ OwnHandler) /\ UNCHANGED chat
    \/ \E i \in Ids : \/ \E u \in Users : OnInitialConnection(i, u)
                      \/ OnNewMessage(i)
                      \/ OnLoginOrRegister(i)
                      \/ onDisconnect(i)

ChatNext ==
    \/ (MainThread \/ Reactor) /\ UNCHANGED chat
    \/ ChatIo

\* Fairness, and what it gives, is in ServerProcess.
ChatSpec == ChatInit /\ [][ChatNext]_chatVars

----------------------------------------------------------------------------
(* Properties.                                                             *)

ChatTypeOK ==
    /\ TypeOK
    /\ DOMAIN users \subseteq Users
    /\ \A u \in DOMAIN users : users[u] \in [online: BOOLEAN, color: Colors]
    /\ names \in [Ids -> Users \cup {NoName}] /\ late \subseteq Ids
    /\ said \in 0..(MaxOld + MaxLines) /\ db \in Seq(Texts) /\ failed \in BOOLEAN

TasksFor(i) == [kind: {"write"}, id: {i}, msg: Msgs] \cup [kind: {"broadcast"}, msg: Msgs]

\* All the lines a connection was sent, will be sent from its outbox, and is sent by the
\* tasks that are posted already.
Stream(i) ==
    LET tasks == Filter(ready, TasksFor(i))
    IN  sent[i] \o outbox[i] \o [k \in DOMAIN tasks |-> tasks[k].msg]

\* The connections that introduced themselves and can still be written to.
Registered == {i \in open : names[i] # NoName}

\* While the database works, a registered client misses no text and sees them in the order of
\* the table: whatever was broadcast to it before, the last Len(db) texts of its stream are the
\* table itself, the history it was given and every later text (data_manager.cpp:66-70, 104-105).
FullHistory ==
    ~failed => \A i \in Registered :
        LET seen == TextsOf(Stream(i))
        IN  Len(seen) >= Len(db) /\ SubSeq(seen, Len(seen) - Len(db) + 1, Len(seen)) = db

\* A client sees a text at most twice, and only one broadcast while it had connected and not
\* yet introduced itself comes twice: the texts of a stream are some texts in the order they
\* were said, and then the texts of a history in that order (data_manager.cpp:66-70, 105).
SeenAtMostTwice ==
    \A i \in Ids :
        LET seen      == TextsOf(Stream(i))
            descents  == {k \in 1..(Len(seen) - 1) : seen[k].n >= seen[k + 1].n}
        IN  Cardinality(descents) <= IF names[i] = NoName THEN 0 ELSE 1

\* When everything posted was sent, a registered client shows each known user as the server
\* does: the last status of a user in its stream is the user's status
\* (data_manager.cpp:72-84, 113-131).
StatusConverges ==
    \A i \in Registered, u \in DOMAIN users :
        LET s    == Stream(i)
            told == {k \in DOMAIN s : s[k].type = "status" /\ s[k].user = u}
        IN  told # {} /\ s[CHOOSE k \in told : \A j \in told : j <= k] = UserStatus(users, u)

\* A user has one colour: all the statuses that name it, on all connections, show the colour
\* drawn when it was first registered (data_manager.cpp:52-56).
OneColor ==
    \A i \in Ids : LET s == Stream(i) IN
        \A k \in DOMAIN s : s[k].type = "status" /\ s[k].user # NoName =>
            s[k].user \in DOMAIN users /\ s[k].color = users[s[k].user].color

\* A user is shown online while every connection that introduced itself under its name is
\* there, and offline once all were reported lost, unless an introduction was handled after
\* its connection was lost.  When one of several is lost the user is shown offline although
\* others are there, until one more comes: nothing is said of that case
\* (data_manager.cpp:57, 113-125; tcp_server.h:157-215).
PresenceOfUser ==
    io = "run" => \A u \in DOMAIN users :
        LET mine == {i \in Ids : names[i] = u}
        IN  /\ (\A i \in mine : disconnects[i] = 0) => users[u].online
            /\ (\A i \in mine : disconnects[i] > 0 /\ i \notin late) => ~users[u].online

\* A user is shown offline only when a connection under its name was lost, and nobody without
\* a name is, but for a connection that was lost before it introduced itself: it never did, or
\* did so in a line that was read before and handled after (data_manager.cpp:115-131).
OfflineHasReason ==
    \A i \in Ids : LET s == Stream(i) IN
        \A k \in DOMAIN s : s[k].type = "status" /\ ~s[k].online =>
            \E j \in Ids : /\ disconnects[j] > 0
                           /\ names[j] = s[k].user \/ (s[k].user = NoName /\ j \in late)

=============================================================================
