----------------------------- MODULE ChatRules ------------------------------
(***************************************************************************)
(* What server::DataManager (src/packages/server/src/data_manager.cpp)     *)
(* computes from currentUsers_: the entries after a user came or was lost, *)
(* and the messages it sends about them.  A map of users is a function     *)
(* from the usernames it holds to [online, color].                         *)
(*                                                                         *)
(* A text is identified by a serial number and carries its sender; a       *)
(* status names a user, whether it is online, and its colour.              *)
(***************************************************************************)
EXTENDS Queues

CONSTANTS
    UserOrder,  \* the usernames in the order in which std::map iterates
    NoName,     \* the empty username of a connection that never introduced itself
    Colors,     \* what getRandomColor() returns
    NoColor     \* the colour of a default-constructed UserColor

Users == {UserOrder[k] : k \in DOMAIN UserOrder}

ASSUME NamesAssumption == /\ UserOrder \in Seq(Users) /\ NoName \notin Users
                          /\ NoColor \notin Colors /\ Colors # {}

Text(n, from)    == [type |-> "text", n |-> n, from |-> from]
Status(u, on, c) == [type |-> "status", user |-> u, online |-> on, color |-> c]

Statuses == [type: {"status"}, user: Users \cup {NoName}, online: BOOLEAN,
             color: Colors \cup {NoColor}]

AnyText    == [type: {"text"}, n: Nat, from: Users \cup {NoName}]
TextsOf(s) == Filter(s, AnyText)

----------------------------------------------------------------------------
UserStatus(map, u) == Status(u, map[u].online, map[u].color)

\* The definitions named Bad... are the code with a slip, each before the definition it
\* would replace; the properties are tried against them.  This one tells of the users that
\* are online only.
BadKnownStatuses(map) ==
    LET known == Filter(UserOrder, {u \in DOMAIN map : map[u].online})
    IN  [k \in DOMAIN known |-> UserStatus(map, known[k])]

\* The status of every known user, in the order of the map.
KnownStatuses(map) ==
    LET known == Filter(UserOrder, DOMAIN map)
    IN  [k \in DOMAIN known |-> UserStatus(map, known[k])]

\* ... with a new colour every time.
BadColorsFor(map, u) == Colors

\* The colour is drawn when a user is first registered.
ColorsFor(map, u) == IF u \in DOMAIN map THEN {map[u].color} ELSE Colors

\* currentUsers_ after u was registered, or came back.
WithOnline(map, u, c) ==
    [v \in DOMAIN map \cup {u} |-> IF v = u THEN [online |-> TRUE, color |-> c] ELSE map[v]]

\* ... of nobody, and one that inserts an entry for a connection without a name.
BadWithOfflineNone(map, u) == map
BadWithOfflineAny(map, u)  ==
    [v \in DOMAIN map \cup {u} |->
        IF v # u THEN map[v]
        ELSE [online |-> FALSE, color |-> IF u = NoName THEN NoColor ELSE map[u].color]]

\* currentUsers_ after a connection of u was lost.
WithOffline(map, u) == IF u = NoName THEN map ELSE [map EXCEPT ![u].online = FALSE]

\* ... without the name of a connection that had one.
BadOfflineStatus(map, u) == Status(NoName, FALSE, NoColor)

\* What is broadcast then: without a name when the connection had none.
OfflineStatus(map, u) == Status(u, FALSE, IF u = NoName THEN NoColor ELSE map[u].color)

=============================================================================
