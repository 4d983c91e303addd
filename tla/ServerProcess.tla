--------------------------- MODULE ServerProcess ----------------------------
(***************************************************************************)
(* The server as a process: main() (src/packages/server/src/main.cpp)      *)
(* opens the database, starts the chat server, waits for a key and leaves. *)
(* Then the objects go in the opposite order of their declarations:        *)
(* currentUsers_ of the DataManager, its tcpServer_, whose destructor      *)
(* calls stop() and so joins the io thread, and at last the database.      *)
(*                                                                         *)
(* So the io thread still runs handlers when currentUsers_ is gone.  Such  *)
(* a handler may find the memory as it was, or the process is torn, and    *)
(* then it is not followed any further.                                    *)
(***************************************************************************)
EXTENDS ChatServer

VARIABLES
    stage,  \* main(): "starting", "serving", "ending" (currentUsers_ is gone), "over"
    torn    \* a handler used currentUsers_ when it was gone, and the process ended

processVars == <<chatVars, stage, torn>>

ServerInit == ChatInit /\ stage = "starting" /\ torn = FALSE

----------------------------------------------------------------------------
(* main().                                                                 *)

\* dataManager.connect()
Serve ==
    /\ stage = "starting" /\ stage' = "serving"
    /\ Start
    /\ UNCHANGED <<chat, torn>>

\* std::cin.get() returns, and the first member of dataManager is destroyed.
Leave ==
    /\ stage = "serving" /\ stage' = "ending"
    /\ UNCHANGED <<chatVars, torn>>

\* ~TcpServerMulti(), in the steps of stop().
Stop ==
    /\ stage = "ending"
    /\ StopFlag \/ StopPost \/ StopJoin
    /\ UNCHANGED <<chat, stage, torn>>

\* The definitions named Bad... are the code with a slip, as in TcpServer.  Here dbManager
\* is declared after dataManager.
BadCloseDb ==
    /\ stage = "ending" /\ ~running
    /\ stage' = "over"
    /\ UNCHANGED <<chatVars, torn>>

\* ~DataBaseManager(), after stop() returned.
CloseDb ==
    /\ stage = "ending" /\ pc = "idle" /\ ~running
    /\ stage' = "over"
    /\ UNCHANGED <<chatVars, torn>>

----------------------------------------------------------------------------
(* The io thread.                                                          *)

UsesUsers == torn' \in IF stage = "ending" THEN BOOLEAN ELSE {FALSE}

\* The transport's handlers; one of them may see stop() clear running_ half-way.
Transport ==
    /\ IoExit \/ OwnHandler
    /\ pc' # pc => stage = "ending"
    /\ UNCHANGED <<chat, stage, torn>>

\* The callbacks: these two touch currentUsers_, onDisconnect only for a known name.
Callbacks ==
    /\ \E i \in Ids :
          \/ \E u \in Users : OnInitialConnection(i, u) /\ UsesUsers
          \/ onDisconnect(i) /\ IF names[i] = NoName THEN UNCHANGED torn ELSE UsesUsers
          \/ (OnNewMessage(i) \/ OnLoginOrRegister(i)) /\ UNCHANGED torn
    /\ UNCHANGED stage

ServerNext ==
    /\ ~torn
    /\ \/ Serve \/ Leave \/ Stop \/ CloseDb \/ Transport \/ Callbacks
       \/ Reactor /\ UNCHANGED <<chat, stage, torn>>

(***************************************************************************)
(* Fairness.  main() goes on once the key was pressed, the io thread keeps *)
(* running the handlers that are ready, closing a socket completes what    *)
(* was under way on it, and a write ends: the peer takes the line or the   *)
(* connection fails.  Nobody has to connect, to speak or to press the key. *)
(***************************************************************************)
ServerFairness ==
    /\ WF_processVars(~torn /\ (Stop \/ CloseDb))
    /\ WF_processVars(~torn /\ (Transport \/ Callbacks))
    /\ WF_processVars(~torn /\ acceptor = "closed" /\ AcceptReady("error")
                            /\ UNCHANGED <<chat, stage, torn>>)
    /\ \A i \in Ids :
          /\ WF_processVars(~torn /\ i \notin open /\ ReadReady(i, "error")
                                  /\ UNCHANGED <<chat, stage, torn>>)
          /\ WF_processVars(~torn /\ (WriteReady(i, "ok") \/ WriteReady(i, "error"))
                                  /\ UNCHANGED <<chat, stage, torn>>)

ServerSpec == ServerInit /\ [][ServerNext]_processVars /\ ServerFairness

----------------------------------------------------------------------------
(* Properties.                                                             *)

\* The process ends once main() was left: whatever is under way then, stop() closes it, the
\* io thread runs out of handlers and the join returns; or a handler met the users that are
\* gone (main.cpp:43-44, tcp_server.h:41-55).
ServerEnds == stage = "ending" ~> stage = "over" \/ torn

\* The database is closed only when no handler can reach it any more: the io thread has
\* ended, every connection was closed and none has a completion left (main.cpp:37-39,
\* data_manager.cpp:66, 104).
DbOutlivesHandlers ==
    stage = "over" => /\ io # "run" /\ open = {} /\ conns = {}
                      /\ \A i \in Ids : ~Has(ready, ReadDone(i) \cup WroteDone(i))

\* A stored text reaches every registered client that stays connected, also while the server
\* is being stopped, unless the database failed or the process was torn
\* (data_manager.cpp:66-70, 104-105).
StoredReaches ==
    \A i \in Ids, n \in 1..(MaxOld + MaxLines) :
        (i \in Registered /\ \E k \in DOMAIN db : db[k].n = n)
            ~> (failed \/ torn \/ i \notin open \/ \E k \in DOMAIN sent[i] :
                                    sent[i][k].type = "text" /\ sent[i][k].n = n)

=============================================================================
