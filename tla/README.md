# Yapping, specified

TLA+ models of the yapping chat application (`src/packages`): a server that
stores and distributes chat messages, and a desktop client that shows them.
The models are written from the C++ code and checked with TLC on small
instances; that every invariant among their properties holds in every instance,
and that the two abstract specifications are implemented step by step, is
proved with TLAPS.

Reading order: `Queues`, `Fanout`, `TcpServer`, `ChatRules`, `ChatServer`,
`ServerProcess`, `DbManager`, `Wire`, `TcpClient`, `Resources`, `ChatClient`,
and then `Room` and `Chat`, which put the parts together. The proofs of a part
are in a module of their own (section 4) and are read after it, the shortest,
`DbManagerProofs` and `WireProofs`, first.

## 1. The system

| Part | Source | State | Operations |
| --- | --- | --- | --- |
| Server transport, `TcpServerMulti` | `server/src/tcp_server.h` | `running_`, the acceptor, `conns_`, `next_id_`, per connection its socket, `read_buf`, `outbox`, `writing`; `idToUsernameMap_` | `start`, `stop`, `write`, `broadcast`, and the completion handlers of accept, read and write |
| Chat server, `server::DataManager` | `server/src/data_manager.cpp` | `currentUsers_` (status and colour) | the callbacks: a message of each kind, `onConnect`, `onDisconnect` |
| Message store, `DataBaseManager` | `server/src/db_manager.cpp` | the handle, the file `chat.db` | open, close, `addMessageEntry`, `getMessages` |
| Client transport, `TcpClient` | `client/src/tcp_client.h` | `running_`, `connected_`, the socket, `write_queue_`, `writing_`, `read_buf_` | `connect`, `stop`, `write`, and the completion handlers of resolve, connect, read, write |
| Chat client | `client/src/data_manager.cpp`, `main.cpp`, `imgui_client.cpp`, `scenes/` | `usersMap_`, `messages_`, the current scene | the main loop, the three scenes, the callbacks of `TcpClient` |
| Messages | `common/src/messages.h`, `global.h` | none | `toString`, the constructors, `hashImpl`, timestamps |
| Server process | `server/src/main.cpp`, `data_manager.h` | where `main()` is, which members are still there | open, serve, wait for a key, destroy |
| Resources | `client/src/resources.h`, `compression_utils.h` | the image, the buffer and how full it is | `loadTextureMap`, `gunzipInMemory` |
| Widgets, SQLite, build | `client/src/chat_imgui_components.h`, `server/sqlite3` | none of their own | not modelled |

**How they interact.** The server has two threads. The main thread calls
`start()` and, at the end, `stop()`; the io thread runs everything else, as
handlers of one asio `io_context`: the completions of accepts, reads and
writes, and the tasks that `write()` and `broadcast()` post. The callbacks of
`server::DataManager` run inside the read and write handlers; what they send is
*posted*, so it runs after handlers that are already queued. The client has a
UI thread, which draws frames and calls `connect()`, `write()` and `stop()`,
and an io thread as in the server. The client's `DataManager` is shared by both
threads without a lock. Between the processes there are lines of JSON over TCP.

**What is hard here**

* Ordering: history, statuses and live texts are put in one queue per
  connection by handlers that interleave with those of other connections.
* Failure of one connection at any point: its read and its write fail
  separately, each calling `handle_disconnect`, and completions that succeeded
  before the close are still delivered.
* `stop()` while operations are under way, and the join that waits for them.
* One write at a time per connection, on a buffer owned by the queue.
* Statements of SQLite that fail half-way, a text that is sent although its
  insert failed, and a process that is killed.
* The two threads of the client on `usersMap_` and `messages_`.
* The end of the server: `currentUsers_` is destroyed before the io thread is
  joined, and the database after both.
* A server that is killed and started again, while its clients have seen texts
  and have others on their way.

**What makes each part correct**

* Server transport: one write under way per connection and on the right
  buffer; no line forgotten; one accept on its way while running; every end of
  a connection reported; `stop()` returns and nothing is used after it; all in
  all an ordered fan-out (`Fanout`).
* Chat server: no gap between history and live texts; statuses converge; one
  colour per user; a user is shown online while it is, and offline only for a
  reason; what anybody saw is shown to whoever comes later, unless its insert or
  the read of the history failed; all in all one room that everybody sees alike
  (`Room`).
* Server process: it ends, and nothing is used after its end.
* Message store: rows are never lost or changed; a read is a beginning of the
  table; no statement is left open.
* Client transport: as the server's, and one report per connection.
* Chat client: drawing never throws; texts are shown in order and in the right
  colour, and come up while the window is open; what is typed on a live
  connection is not lost.
* Messages: what is said is what is heard, in order, however TCP cuts it.

`PROJECT.json` lists the hazards of the code line by line, with the properties
that watch them.

## 2. The modules

| Module | Models | Form |
| --- | --- | --- |
| `Fanout` | the promise of the transport | streams, members, publish to one or all, deliver in order |
| `Queues` | nothing of the code: what is in a sequence, and in which order | operators used by the transports and the chat |
| `TcpServer` | `tcp_server.h` and asio | `EXTENDS Queues`; instantiates `Fanout` |
| `ChatRules` | what `server::DataManager` decides about users and messages | operators, shared by `ChatServer` and `Chat` |
| `ChatServer` | `server/src/data_manager.cpp` | `EXTENDS TcpServer, ChatRules`: its handlers are the transport's steps with what the callbacks post |
| `ServerProcess` | the server's `main()`, the destruction of its objects | `EXTENDS ChatServer` |
| `DbManager` | `db_manager.cpp` call by call | on its own; `ChatServer` uses its result (a message stored or lost, a history whole or cut) |
| `TcpClient` | `tcp_client.h` | on its own |
| `Resources` | `resources.h`, `compression_utils.h` | the loop of `gunzipInMemory`, image by image |
| `ChatClient` | start-up, scenes, loop, client `DataManager` | `EXTENDS TcpClient, Resources` |
| `Wire` | `messages.h`, the framing, the read loops | on its own, for either direction |
| `Room` | what the chat promises to people | a log, members, what each sees |
| `Chat` | clients, server and connections together, kills | `EXTENDS ChatRules`; instantiates `Room` |
| `SequenceFacts`, `ChatRuleFacts` | lemmas about the operators of `Queues` and of `ChatRules` | extended by the proofs |
| `TcpServerProofs` | theorems about `TcpServer` | `EXTENDS TcpServer, SequenceFacts` |
| `ServerProofs` | theorems about `ChatServer` and `ServerProcess` | `EXTENDS ServerProcess, TcpServerProofs, ChatRuleFacts` |
| `DbManagerProofs`, `WireProofs` | theorems about `DbManager`, about `Wire` | each extends its component and `SequenceFacts` |
| `ClientProofs` | theorems about `TcpClient` and `ChatClient` | `EXTENDS ChatClient, SequenceFacts` |
| `ChatProofs` | theorems about `Chat` | `EXTENDS Chat, ChatRuleFacts` |
| `MCTcpServer`, `MCChatServer`, `MCServerProcess`, `MCChatClient`, `MCWire`, `MCChat` | instances for TLC | |

**The io_context** (external code, modelled from its use). `ready` is the FIFO
of handlers; the operations under way (`accepting`, `reading`, `inflight`,
`op`) are with the reactor, which completes one by appending its completion
handler with an error code `ok` or `error`. An operation on a closed socket
completes only with an error; one that completed before the close keeps its
result. The io thread takes the head of `ready` (`Running`); `run()` returns
when nothing is ready and nothing is under way (`IoExit`). Handlers posted
after that stay in the FIFO.

**TcpServer.** Actions and code: `Start`, `StopFlag`/`StopPost`/`StopJoin` (the
three steps of `stop()` between which the io thread may run); `OnAccept`,
`OnAcceptError`, `RunAcceptAgain` (the handler of `do_accept`, its error branch
and the retry); `OnLine`, `OnReadError` (`do_read_loop`); `OnWrote`,
`OnWriteError` (`do_write_next`); `RunWrite`, `RunBroadcast`, `RunClose` (the
posted tasks). `OnAccept` reads `running_` twice, so a `stop()` that clears it
between the reads is a disjunct of the action. What a callback posts is a
parameter (`Posts`), which `ChatServer` replaces by what the code posts. The
order in which `broadcast` visits `conns_` does not matter to any connection's
own queue, so the task is one step.

**ChatServer.** `OnInitialConnection`, `OnNewMessage`, `OnLoginOrRegister`
(empty in the code) and `onDisconnect` are the whole handlers: they include the
database call, the change of `currentUsers_` and `idToUsernameMap_`, and all
tasks in the order they are posted. A text is a serial number and its sender; a
status is a user, online or not, and a colour. Timestamps are left out: no
decision depends on them. What the handlers compute from `currentUsers_` is in
`ChatRules`, so that `Chat` has the same decisions.

**ServerProcess.** `stage` is where `main()` is. After `std::cin.get()` the
members of `DataManager` go in the opposite order of their declarations: first
`currentUsers_`, then `tcpServer_`, whose destructor is `stop()`. In between the
io thread may run an introduction or a disconnect of a named user, and these use
the map that is gone: the outcome is undefined, so the process either goes on or
is `torn` and not followed further. The database is the last to go.

**DbManager.** One action for each call of SQLite, so that a kill fits between
any two. A message is a model value.

**TcpClient.** As `TcpServer`, with resolving and connecting. `undefined` is
set when `pop_front()` meets an empty deque, and then the io thread is not
followed further. The two ways to connect (first IPv4 endpoint, or all
endpoints) are one: both open the socket, then succeed or fail.

**Resources.** One round of the loop of `gunzipInMemory()` is a step: the buffer
is doubled if it is full, `inflate()` fills it, and answers that the stream has
ended or not. When the image ends exactly with the buffer both answers are
possible, and the next round, with a new half of the buffer, ends it. The sizes
of the images are any up to a bound; what matters is how they lie between the
buffer's sizes.

**ChatClient.** It starts with `Initialize`, which may fail and then leads
through a destructor that shuts down what was never set up, and
`LoadTextures`, the rounds of `Resources`. In the main loop `at` is the place of the UI thread in its loop; the steps of a
chat frame are the copies it takes (`drawUsers`, `drawChat`, `FindUser`,
`DrawColored`). While the chat window is collapsed or hidden
(`chat_scene.cpp:34`) a frame copies and draws nothing, the second disjunct of
`drawChat`. The io thread's `NewMessageReceived` and `UserStatus` may come
between any two. When a container grows at a place where the UI thread may be
copying it, the process may be `torn`: a data race has no defined outcome, and
the model takes a good one or the end.

**Chat and Room.** `Chat` is the system end to end, and each part of it is what
its own module shows it to be. The server's transport is a queue of posted tasks
and, for each connection, the part of its stream that is not delivered yet,
which is what `Fanout` promises; there are no outboxes and no completions. A
client's connection is a FIFO of lines that breaks off. The handlers of the two
`DataManager`s are one step each. The store fails as in `DbManager`: an insert
may fail, which is logged, and the text is broadcast all the same
(`addMessageEntry`); a read may end after any row, and what was read is sent as
if it were all (`getMessages`). The properties have to know of this, the program
does not: the history variable `unstored` is the set of texts whose insert
failed, and `cut` the set of connected clients whose history broke off. What is
simplified, and why it may be:

* lines to a client whose connection broke are one `Lost`, since only that there
  is something to fail at is left of them; what such a client shows is not kept;
* a client connects once: the program has no way back to the server selection,
  and a client that is started again is another one;
* a kill falls between handlers: inside one it leaves what a kill before it
  leaves (nothing stored, the posts lost) or after it (stored, the posts lost);
* the texts typed before the connection was reported are typed in `Connect`,
  which is the only moment they can overtake the introduction.

`Room` is the abstract specification: one log, members who come and leave, each
seeing the log from its first text on, in order, and a member who is behind
either sees the next text or leaves. `Views` in `Chat` is the refinement mapping:
the log is the table, a member is a connection that both ends have open, that
introduced itself and whose history was whole, and its view is what it was sent
since (what it got before its history it will see twice, see `SeenAtMostTwice`,
and is not counted). Two things the code does are no part of the room: a text
whose insert failed is shown to those who are there and is in nobody's history,
and a client whose history broke off misses what was not read. So such texts are
not in the views, and such clients are not members. What still holds is in
`Agreement`, that such a client is told the statuses of all users and that such a
text is in nobody's way, and in `SeenIsShown`, that nothing else that anybody ever
saw is missing when a member came late or after a kill.

**Wire.** A JSON text is two pieces, a line is its pieces and a newline; bytes
arrive in any cuts; `ReadLine` takes one line out of the buffer and parses it.
A value that holds a newline is a value of its own kind: `Dump` says that the
dump escapes it.

**Definitions named `Bad...`** are the code with one slip (a forgotten test, a
missing reset, a wrong order), kept before the definition they would replace.
They take no part in any specification. Each property was tried against one:
TLC finds it violated when the definition is replaced.

## 3. The runs

Run `tlc -config X.cfg M` in this directory.

| Run | Module / cfg | Question | Bounds |
| --- | --- | --- | --- |
| `tcp_server` | `MCTcpServer` / `TcpServer.cfg` | Are the queues, the accept and the disconnects sound, and is `Fanout` implemented? | 2 connections, 1 line of a peer; callbacks write one line and broadcast another |
| `tcp_server_stop_accepting` | `TcpServerStopAccepting.cfg` | Does `stop()` do what its comment says? **No.** | 1 connection |
| `chat_history` | `MCChatServer` / `ChatHistory.cfg` | Gaps, repetitions, colours? | 2 connections, 3 lines, 1 old text, 2 colours |
| `chat_presence` | `ChatPresence.cfg` | Who is online? | 2 connections that fail, 2 lines, 2 names, 2 colours |
| `server_process` | `MCServerProcess` / `ServerProcess.cfg` | Does the process end, is nothing used after its end, and does a stored text arrive until then? | 1 connection that may fail, 2 lines, 1 old text |
| `chat_room` | `MCChat` / `Chat.cfg` | Does everybody show the same log and the same users when all is quiet, whatever failed, does a text come back to its author, and is `Room` implemented? | 2 clients of one user or two, 2 texts, 1 kill, inserts and reads that fail |
| `tcp_client` | `TcpClient` / `TcpClient.cfg` | Is a connection sound over its life and the next one? | 3 calls of `connect()`, 2 lines out, 1 in |
| `tcp_client_again` | `TcpClientAgain.cfg` | Does "call connect() again" work? **No.** | 2 calls |
| `chat_client` | `MCChatClient` / `ChatClient.cfg` | Is every frame right while messages come in? | 1 other user, 3 lines in, the login out; 3 images of up to 9 units, a buffer of 2 |
| `wire` | `MCWire` / `Wire.cfg` | Is what is said what is heard? | 3 messages, all kinds, either direction |
| `db_manager` | `DbManager` / `DbManager.cfg` | Rows, reads, statements? | 2 messages, 3 rows, 2 lives |
| `db_finalize` | `DbManagerFinalize.cfg` | Is the contract of `sqlite3_finalize` kept? **No.** | 1 message |

**Why the bounds are enough.** The transport's connections do not influence
each other but through broadcasts and `running_`, so two show every pairing,
and two lines in an outbox show the pipeline (one under way, one waiting); the
callback of the model posts two. History against live texts needs an old text,
a second client that speaks while the first introduces itself, and nothing
more: three lines. The client's frame needs a text before its user is known,
the status, and another text: three lines. Framing needs a line behind another
line in one buffer. The end of the server needs a connection in each of its
phases and a user that was introduced; a second connection would only repeat
them. The loading needs an image below, at and above a buffer that was doubled
once and twice (2, 4, 8 units). In the whole chat two clients are one who
speaks and one who listens, comes late or has the same name.

The type invariant of `TcpClient` is the first conjunct of `UiTypeOK`; that of
`TcpServer` the first of `ChatTypeOK`.

**Constraints and symmetry.** `chat_history` explores behaviours in which no
connection and no accept fails, the server is not stopped and the table holds
an old text (`MCConnected`); `chat_presence` those in which nobody says a text,
no accept fails and the server is not stopped (`MCSilent`). Each constraint
removes the part the run is not about, since their product is too large;
`server_process` has none. Both check invariants only, and the symmetry is of
the two colours, which the specification treats alike. `chat_room` explores
behaviours with one text and every failure and kill, or two texts of one user,
the failures of the store and no lost connection (`MCFocus`); of each pair of
initial names, and of each pair of authors of the first text, it has one, since
the other is the same with the clients or the users swapped. It checks liveness
too: the constraint stops only at a text, a break or a kill, none of which is
fair, and the properties speak of no more than the states up to there, so it
hides no fair behaviour that stays inside.

**Deadlock** is not checked: a stopped server, a client whose user quit and a
killed process do stop.

**Fairness.** `TcpServer` and `TcpClient`: a started `stop()` goes on; the io
thread runs what is ready; a write under way ends in one way or the other,
because the peer's kernel takes the bytes or the connection fails; operations
on a closed socket are aborted, as asio does. A peer that stays silent,
never connects or never leaves is allowed. `ServerProcess` has the same fairness
for the handlers of the chat server, and `main()` goes on once the key was
pressed; nobody has to press it. `ChatClient`: the loading goes on, and a frame
that was begun is drawn to its end. Nothing is assumed of the user, who may keep
the window minimised or collapsed for ever, and then nothing comes up:
`EventuallyShown` is about a user who lets the chat be drawn again and again
(`[]<>(at = "draw")`). `Wire`: what is on its way
arrives, what was read is taken. `Chat`: the server accepts, reads and runs what
was posted, and a line in an outbox reaches a client whose connection is up;
nobody has to connect, type or leave. Where no action of a module is fair
(`ChatServer`, `DbManager`) only safety is checked.

**What the runs say against the code's own words.**

* `stop()` "Stop accepting and close all connections" (`tcp_server.h:40`): when
  the io thread has nothing left after `running_` was cleared, it ends before
  the close is posted; the close never runs, and the acceptor stays open until
  the object is destroyed.
* "Call connect() again if desired" (`tcp_client.h:235`): `running_` stays set
  after a lost connection, so `connect()` returns at once.
* A statement is finalized twice when an insert fails (`db_manager.cpp:99` and
  `103`); `sqlite3.h:5499` calls that a grievous error.

More was met while modelling and is described by the models, not flagged by a
document:

* the pop of an empty deque in `TcpClient`, when the end of the connection was
  handled before a write that had succeeded (`undefined`; `ConnectedWriteChain`
  says that a live connection never meets it);
* a text whose insert failed, which is shown to those who are there and to nobody
  who comes later, and a history that breaks off and is sent as if it were whole
  (`unstored` and `cut` in `Chat`, `StoredOrLogged` and `ReadsPrefix` in
  `DbManager`);
* the data races of the client, and the use of `currentUsers_` at the end of the
  server (`torn`); a client that could not be initialised shuts down an ImGui
  that was never set up (`Initialize`);
* a user who is shown online for good after a late introduction (the set `late`
  in `PresenceOfUser`), and one who is shown offline when one of its two
  connections is lost;
* a line that overtakes its author's introduction and is stored without a name
  (`NamedByAuthor`), and an entry without a name in the clients' lists
  (`Agreement`);
* a `stop()` of the client that waits for a connection established behind its
  back for as long as the server keeps it (`StopReturns`).

## 4. The proofs

`tlapm M.tla` checks a module of proofs; each takes from seconds to some five
minutes. What TLC shows for the bounds of section 3 is proved here for all
values of the constants: any number of connections, lines, clients, users,
texts, kills, calls, images.

| Module | Proved |
| --- | --- |
| `TcpServerProofs` | `TypeOK`, `WriteChain`, `NoStalledOutbox`, `ListenAlive`, `DisconnectReported`, `QuietAfterExit`; every step is one of `Fanout` or none of it (`StepsAreTheFanouts`) |
| `ServerProofs` | of the chat server: `ChatTypeOK`, `OneColor`, `SeenAtMostTwice`, the fan-out (`ServerIsAFanout`), and for a server started once `PresenceOfUser`, `OfflineHasReason`, `FullHistory`, `StatusConverges`; of the process, which starts it once: those four, `QuietAfterExit`, `DbOutlivesHandlers` |
| `DbManagerProofs` | `DbTypeOK`, `AllFinalized`, `ReadsPrefix`, `StoredOrLogged`, `TableOnlyGrows` |
| `WireProofs` | `Faithful`; no line ends the io thread (`NoLineThrows`) |
| `ClientProofs` | of the transport: `ClientTypeOK`, `ReportedOnce`, `ConnectedWriteChain`, `SentInOrder`; of the client: `UiTypeOK`, `NeverThrown`, `ShownInOrder`, `ColorsAreTold`, `NoTextLost` |
| `ChatProofs` | `NamedByAuthor`, `Agreement`, `SeenIsShown`; every step is one of `Room` or none of it (`StepsAreTheRooms`) |

**Assumed** are the `ASSUME`s of the models, and TLC evaluates them in the runs:
bounds are natural numbers (`BoundsAssumption`, `OldAssumption`, `ChatBounds`,
`DbBounds`, `ClientBounds`, `ResourcesAssumption`); callbacks post tasks
(`PostsAssumption`); the chat's messages are lines (`LinesAssumption`); the
order of users is a sequence, the missing name and the missing colour are
neither a name nor a colour, there is a colour (`NamesAssumption`); grey is no
colour of a user (`GreyAssumption`); a message has the fields of its struct
(`SaidAssumption`).

**Started once.** Four properties of the chat server say `starts <= 1 => ...`:
`stop()` keeps `currentUsers_` and `idToUsernameMap_`, so after a second
`start()` old names would belong to new connections. `main.cpp:39-41` starts
the server once; the theorems about `ServerSpec` prove it (`StageInv`) and have
no condition.

**The inductive invariants.** None of the properties is inductive.

* *Transport of the server* (`IInv`): each of the three chains, accept, read and
  write, has one link, either with the reactor or as a completion in the queue.
  `WriteChain`, say, needs that `writing` is set exactly when the write chain
  has a link. `QuietAfterExit` and `ListenAlive` need what the two threads may
  be doing together (`ThreadInv`). For `Fanout` one more fact is needed: an id
  that was not given out was sent nothing (`SentInv`). A completed write then
  delivers the next line of the stream because it is the front of the outbox.
* *Chat server*: `ServerTypes` is `IInv` with the types and the names.
  `LinesInv`, `ReasonInv`, `RunsInv`, `HistoryInv` and `StatusInv` are statements
  about `Stream(i)`: all that was sent to a connection, waits in its outbox or
  is posted. That a write or a broadcast only moves a line along the stream is
  proved once (`TransportStream`), so that only three callbacks change streams,
  and each appends what it posts (`CallbackStream`). `SeenAtMostTwice` follows from two
  runs of growing numbers (`TwoRuns`), the first of which ends where the history begins.
* *Store* (`DbInv`): which statement is open, and whether the row is stored, at
  each call of SQLite.
* *Wire* (`WireInv`): what is in the buffer and on its way are the pieces of the
  lines of the messages not heard yet, at their places; and a message goes
  through its packet unchanged (`RoundTrip`).
* *Transport of the client*: `ChainInv` as for the server; `OrderInv` and
  `HelloInv` follow a line on its way from a task to the queue to the socket.
* *Chat client* (`UiInv`): the data are what was told (`DataInv`); while a frame
  is drawn the users only grow (`FrameInv`), and what is drawn and what is to be
  drawn is a beginning of the messages (`ViewInv`). `NoTextLost` has an
  invariant of its own (`TypedInv`): a close comes after all lines in the queue
  (`QuitInv`), the program connects once (`OnceInv`), and what was typed waits
  (`KeptInv`).
* *The whole chat*: `Base` (types, and what a link's state says of its ends);
  `SourceInv` (a text on its way is its author's) and `TableInv` for
  `NamedByAuthor`; `FreshInv` (a text is taken in once, so that what is stored
  is not among what failed); `Agreed` for `Agreement` and `Room`: the texts a
  member has and gets are those from before and then texts that were taken in,
  and those of them that are storable are the table (`LogInv`, `IsLog`); and the
  last it will be told of a user is how the user is (`ViewInv`). `SeenIsShown`
  follows from `Agreed` with `SeenInv`: what was seen was taken in.

**How the proofs are laid out.** Lemmas about sequences and about the rules of
the chat; then one lemma for each action or group of actions, with a step for
each conjunct the action can disturb; then a lemma that collects them, and the
theorems, each from the invariant by a short argument. `Filter` is a recursive
function. The induction theorems of the library cannot be used on it, since
they take an operator; `SequenceFacts` has induction over sets of numbers
instead (`Least`, `UpTo`), which yields what `Filter` does to a sequence that is
put together or loses its head. Where a conclusion is a large equation it is
given a name (`InARow`, `TextsSplit`, `LostUser`), so that the provers match it
as one formula.

**Only model-checked.** Liveness and everything under fairness: `ServerEnds`,
`StoredReaches`, `StopReturns`, `QueuedIsSent`, `EventuallyShown`, `EchoComes`,
`LoadingEnds`, `AllHandedOver`, and the fairness of `Fanout` and
`Room` in `KeepsPromise` and `ImplementsRoom`, since `ENABLED` is out of the
prover's reach. The three disagreements of section 3 are counterexamples, found
by TLC. That `Chat` is the composition of the other modules is argued in section
2, not proved.

## 5. Not modelled

Of the 465 thousand lines under `src/packages` nearly all are not of this
program: 237 thousand are the vendored `sqlite3.c`, `sqlite3.h` and
`sqlite3ext.h`, 226 thousand the generated arrays of `common/hex_dumps`. The
program's own code is about 2,400 lines, and about half of them are mapped. The
rest is:

* drawing: the widgets, the style, the placement of windows. One call of ImGui
  follows another; the choices that decide what is shown are in `ChatClient`;
* command lines, log files, time stamps, the names of files, the password hash,
  which no server code reads, and the palette of `getRandomColor`;
* text encodings, and the cut of a long username; the port, which is cast to
  16 bits;
* a second `start()` of the server or, but for the documented promise of
  `tcp_client_again`, of a client: the programs connect once;
* truncated or damaged input of `gunzipInMemory()`: the images are compiled in;
* SQLite's, asio's and zlib's insides, which are modelled by what the code sees
  of them; the build files;
* declarations, includes and the user functions of `DataBaseManager`, which have
  empty bodies and no caller.

## 6. Plan

Done: the modules of section 2, and theorems for all invariants and action
properties of the runs and for the safety part of both refinements. What is
left:

1. A server that is stopped and started again: what becomes of the four
   properties that are proved for one start only.
2. The buffer of `gunzipInMemory()` in `Resources`: that it grows no further
   than the image needs, as a property and a theorem.
3. That the server's part of `Chat` implements what `ChatServer` shows of its
   streams, which section 2 argues.
