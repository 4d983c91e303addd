----------------------------- MODULE ChatClient -----------------------------
(***************************************************************************)
(* The chat client: the main loop (src/packages/client/src/main.cpp), the  *)
(* scenes, and DataManager, whose callbacks run on the io thread of        *)
(* TcpClient and change, without a lock, the containers that the UI thread *)
(* copies for every frame.                                                 *)
(*                                                                         *)
(* The state `at` says where the UI thread is: in the start-up, with the   *)
(* images of Resources, or in the main loop; a copy is taken by the step   *)
(* that leaves `at`.  A container that grows while the UI thread may be    *)
(* copying it is a data race: the process goes on or is torn, and then it  *)
(* is not followed any further.                                            *)
(***************************************************************************)
EXTENDS TcpClient, Resources, SequencesExt, Queues

CONSTANTS
    Names,   \* the usernames
    Colors,  \* the colours of users
    Grey     \* the colour of the message of an unknown user

ASSUME GreyAssumption == Grey \notin Colors

Text(n, u) == [n |-> n, from |-> u]
Texts      == [n: 1..MaxLines, from: Names]
Status(c)  == [online: BOOLEAN, color: {c}]

VARIABLES
    scene,     \* currentScene_: "select", "login", "chat"
    at,        \* the UI thread: "init", "load", and then "events", "update", "input", "log",
               \*     "draw", "color", "over"
    done,      \* done
    users,     \* usersMap_
    messages,  \* messages_
    fate,      \* "alive", "thrown" (an exception left the loop), "torn" (undefined)
    todo,      \* drawChat(): the messages of its copy that are still to be drawn
    drawn,     \* drawChat(): those drawn, with their colours
    shown,     \* history: what the last complete frame of the chat shows
    known,     \* history: the users known when drawChat() copied the messages
    told,      \* history: the texts and the statuses the server sent, in order
    early      \* history: the lines of the user written when not connected

loop       == <<scene, at, done>>
frame      == <<todo, drawn, shown, known>>
data       == <<users, messages, told, fate>>
clientVars == <<vars, loop, frame, data, early, loader>>

ClientInit ==
    /\ Init /\ LoadInit
    /\ scene = "select" /\ at = "init" /\ done = FALSE
    /\ users = <<>> /\ messages = <<>> /\ told = <<>> /\ fate = "alive"
    /\ todo = <<>> /\ drawn = <<>> /\ shown = <<>> /\ known = {}
    /\ early = {}

----------------------------------------------------------------------------
(* DataManager on the io thread.  onConnect() is in TcpClient's            *)
(* OnConnected; onDisconnect() and the handler of ServerResponse do nothing.*)

\* The definitions named Bad... are the code with a slip, as in TcpClient.  These forget an
\* offline user, and the colour.
BadForgetOffline(u, s) ==
    IF s.online THEN [v \in DOMAIN users \cup {u} |-> IF v = u THEN s ELSE users[v]]
                ELSE [v \in DOMAIN users \ {u} |-> users[v]]
BadKeepColor(u, s) ==
    [v \in DOMAIN users \cup {u} |->
        IF v # u THEN users[v]
        ELSE [s EXCEPT !.color = IF u \in DOMAIN users THEN users[u].color ELSE Grey]]

\* usersMap_ after a status of u.
WithStatus(u, s) == [v \in DOMAIN users \cup {u} |-> IF v = u THEN s ELSE users[v]]

\* ... without the text of an unknown user.
BadWithMessage(m) == IF m.from \in DOMAIN users THEN Append(messages, m) ELSE messages

\* messages_ after a text, the sender known or not.
WithMessage(m) == Append(messages, m)

\* The process after a container grew: copied at one of the places S of a chat frame?
AfterGrowth(S) == IF scene = "chat" /\ at \in S THEN {"alive", "torn"} ELSE {"alive"}

NewMessageReceived(u) ==
    LET m == Text(Len(told) + 1, u)
    IN  /\ OnLine
        /\ messages' = WithMessage(m) /\ told' = Append(told, m)
        /\ fate' \in AfterGrowth({"log"})
        /\ UNCHANGED <<users, loop, frame, early>>

UserStatus(u, s) ==
    /\ OnLine
    /\ users' = WithStatus(u, s) /\ told' = Append(told, [of |-> u, status |-> s])
    /\ fate' \in IF u \in DOMAIN users THEN {"alive"} ELSE AfterGrowth({"update", "draw", "color"})
    /\ UNCHANGED <<messages, loop, frame, early>>

ServerResponse == OnLine /\ UNCHANGED <<loop, frame, data, early>>

----------------------------------------------------------------------------
(* The start of main() and its loop.                                       *)

\* initialize().  When it fails main() returns, and ~ImguiClient shuts down what was never
\* set up, which is undefined.
Initialize ==
    /\ at = "init"
    /\ \/ at' = "load" /\ UNCHANGED fate
       \/ at' = "over" /\ fate' \in {"alive", "torn"}
    /\ UNCHANGED <<vars, scene, done, users, messages, told, frame, early, loader>>

\* loadTextureMap(), a round of gunzipInMemory() at a time.
LoadTextures ==
    /\ at = "load"
    /\ IF Loaded THEN at' = "events" /\ UNCHANGED loader ELSE gunzipInMemory /\ UNCHANGED at
    /\ UNCHANGED <<vars, scene, done, frame, data, early>>

\* The events of a round; a minimised window is not updated.
PollEvents ==
    /\ at = "events" /\ ~done
    /\ done' \in BOOLEAN /\ at' \in {"events", "update"}
    /\ UNCHANGED <<vars, scene, frame, data, early>>

\* main() returns, and ~DataManager calls stop().
LeaveLoop ==
    /\ at = "events" /\ done
    /\ at' = "over"
    /\ UNCHANGED <<vars, scene, done, frame, data, early>>

\* sendMessage(), of a text that is not empty.
sendMessage ==
    /\ Write
    /\ early' = IF connected THEN early ELSE early \cup {written + 1}

\* No input, or an empty text: sendMessage() refuses it and the input keeps what it has.
NoInput == UNCHANGED <<vars, early>>

\* The button Connect leads to the login, and nothing leads back.
ServerSelection ==
    /\ at = "update" /\ scene = "select"
    /\ \/ NoInput /\ UNCHANGED scene
       \/ Connect /\ scene' = "login" /\ UNCHANGED early
    /\ at' = "events"
    /\ UNCHANGED <<done, frame, data>>

\* Login and Register send their record as the text of a message.
LoginRegister ==
    /\ at = "update" /\ scene = "login"
    /\ \/ NoInput /\ UNCHANGED scene
       \/ sendMessage /\ scene' = "chat"
    /\ at' = "events"
    /\ UNCHANGED <<done, frame, data>>

----------------------------------------------------------------------------
(* A frame of the chat: the users, the input, the messages one by one.     *)

drawUsers ==
    /\ at = "update" /\ scene = "chat"
    /\ at' = "input"
    /\ UNCHANGED <<vars, scene, done, frame, data, early>>

drawInput ==
    /\ at = "input"
    /\ NoInput \/ sendMessage
    /\ at' = "log"
    /\ UNCHANGED <<scene, done, frame, data>>

\* ... that keeps its first copy.
BadCopyMessages ==
    IF shown = <<>> THEN messages ELSE [k \in DOMAIN shown |-> shown[k].text]

CopyMessages == messages

\* Nothing is copied while the window of the chat is collapsed.
drawChat ==
    /\ at = "log"
    /\ \/ at' = "draw" /\ todo' = CopyMessages /\ drawn' = <<>> /\ known' = DOMAIN users
       \/ at' = "events" /\ UNCHANGED <<todo, drawn, known>>
    /\ UNCHANGED <<vars, scene, done, shown, data, early>>

\* ... that does not look for a user that left.
BadFound(u) == u \in DOMAIN users /\ users[u].online

\* find(), on one copy of usersMap_.
Found(u) == u \in DOMAIN users

Draw(c) ==
    /\ todo' = Tail(todo) /\ drawn' = Append(drawn, [text |-> Head(todo), color |-> c])
    /\ UNCHANGED <<shown, known>>

FindUser ==
    /\ at = "draw" /\ todo # <<>>
    /\ IF Found(Head(todo).from) THEN at' = "color" /\ UNCHANGED frame
                                 ELSE Draw(Grey) /\ UNCHANGED at
    /\ UNCHANGED <<vars, scene, done, data, early>>

\* at(), on another copy, throws when the user is not there.
DrawColored ==
    /\ at = "color"
    /\ IF Head(todo).from \in DOMAIN users
       THEN Draw(users[Head(todo).from].color) /\ UNCHANGED fate
       ELSE fate' = "thrown" /\ UNCHANGED frame
    /\ at' = "draw"
    /\ UNCHANGED <<vars, scene, done, users, messages, told, early>>

FrameEnd ==
    /\ at = "draw" /\ todo = <<>>
    /\ at' = "events" /\ shown' = drawn
    /\ UNCHANGED <<vars, scene, done, todo, drawn, known, data, early>>

----------------------------------------------------------------------------
Update == \/ ServerSelection \/ LoginRegister
          \/ drawUsers \/ drawInput \/ drawChat \/ FindUser \/ DrawColored \/ FrameEnd

Stopping == at = "over" /\ (StopFlag \/ StopPost \/ StopJoin)

OtherIo ==
    \/ IoExit \/ OnResolved \/ OnConnected \/ OnError \/ OnWrote \/ RunClose
    \/ \E m \in Msgs : RunWrite(m)

OnMessage ==
    \/ \E u \in Names : \/ NewMessageReceived(u)
                        \/ \E c \in Colors : \E s \in Status(c) : UserStatus(u, s)
    \/ ServerResponse

ClientNext ==
    /\ fate = "alive"
    /\ \/ Initialize \/ LoadTextures
       \/ /\ \/ PollEvents \/ LeaveLoop \/ Update \/ OnMessage
             \/ (Stopping \/ Reactor \/ OtherIo) /\ UNCHANGED <<loop, frame, data, early>>
          /\ UNCHANGED loader

\* The start-up goes on, and a frame that was begun is ended.  The user may quit, or keep a
\* window minimised or collapsed for ever.
ClientFairness ==
    /\ WF_clientVars(fate = "alive" /\ LoadTextures)
    /\ WF_clientVars(fate = "alive" /\ Update /\ UNCHANGED loader)

ClientSpec == ClientInit /\ [][ClientNext]_clientVars /\ ClientFairness

----------------------------------------------------------------------------
(* Properties.                                                             *)

UiTypeOK ==
    /\ ClientTypeOK
    /\ scene \in {"select", "login", "chat"} /\ done \in BOOLEAN
    /\ at \in {"init", "load", "events", "update", "input", "log", "draw", "color", "over"}
    /\ fate \in {"alive", "thrown", "torn"}
    /\ DOMAIN users \subseteq Names
    /\ \A u \in DOMAIN users : users[u] \in [online: BOOLEAN, color: Colors]
    /\ messages \in Seq(Texts)
    /\ early \subseteq 1..MaxWrites

TextsTold == Filter(told, Texts)

\* Drawing never throws: between the find() on one copy of the users and the at() on the
\* next, the io thread may change the map, but no user ever leaves it (chat_scene.cpp:40-44,
\* data_manager.cpp:84-89).
NeverThrown == fate # "thrown"

\* A frame shows the texts the server sent, all up to some point and in the order they were
\* sent, the ones of users nobody introduced yet too (data_manager.cpp:73-82).
ShownInOrder == IsPrefix([k \in DOMAIN shown |-> shown[k].text], TextsTold)

\* A text is shown grey only if its sender was not known when the frame began to draw, and
\* otherwise in a colour the server gave its sender (chat_scene.cpp:38-49).
ColorsAreTold ==
    at = "events" => \A k \in DOMAIN shown :
        IF shown[k].color = Grey
        THEN shown[k].text.from \notin known
        ELSE \E j \in DOMAIN told : /\ "of" \in DOMAIN told[j]
                                    /\ told[j].of = shown[k].text.from
                                    /\ told[j].status.color = shown[k].color

\* What the user typed on a live connection is never lost: it waits to be queued, is queued
\* or was sent.  Only what was typed before may be dropped, and the input is cleared all the
\* same (tcp_client.h:60-77, chat_scene.cpp:143-149).
NoTextLost ==
    connected => \A m \in (1..written) \ early :
        \/ \E k \in DOMAIN ready : ready[k] = WriteTask(m)
        \/ \E k \in DOMAIN queue : queue[k] = m
        \/ \E k \in DOMAIN sent : sent[k] = m

\* The loading of the textures ends, whatever their sizes are: a round that finds its buffer
\* full makes room, also when the image ended exactly there (compression_utils.h:21-33).
LoadingEnds == at = "load" ~> at = "events"

\* A user who looks at the chat again and again is shown every text that was received, unless
\* the race tears the process (main.cpp:90-111, chat_scene.cpp:32-58).
EventuallyShown ==
    []<>(at = "draw") =>
        \A n \in 1..MaxLines : Len(messages) >= n ~> (Len(shown) >= n \/ fate # "alive")

=============================================================================
