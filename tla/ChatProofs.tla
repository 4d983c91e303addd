----------------------------- MODULE ChatProofs ------------------------------
(***************************************************************************)
(* What the clients and the server agree on, for any number of clients, of *)
(* users, of texts and of kills.  The proofs are about the steps only, not *)
(* about fairness.                                                         *)
(***************************************************************************)
EXTENDS Chat, ChatRuleFacts

(***************************************************************************)
(* The inductive invariant.                                                *)
(***************************************************************************)

\* What the server may say, and the tasks that say it.
KnownPeople    == {m \in Statuses : m.user \in DOMAIN users \cup {NoName}}
Known          == Handled \cup KnownPeople
Said           == Texts \cup Statuses
TasksOf(M)     == [to: {{c} : c \in Clients} \cup {Clients}, msg: M]

TypeInv ==
    /\ live \subseteq Clients /\ peer \in [Clients -> {"none", "reading", "done"}]
    /\ IsMap(users) /\ names \in [Clients -> Users \cup {NoName}] /\ db \in Seq(Texts)
    /\ name \in [Clients -> Users] /\ link \in [Clients -> {"none", "up", "down"}]
    /\ up \in [Clients -> Seq(Nat)] /\ messages \in [Clients -> Seq(Texts)]
    /\ before \in [Clients -> Nat] /\ DOMAIN usersMap = Clients
    /\ typed \in Seq([by: Clients, early: BOOLEAN]) /\ Len(typed) <= MaxTexts
    /\ coming \in [Clients -> Seq(Known \cup {Lost})] /\ posted \in Seq(TasksOf(Known))
    /\ unstored \subseteq Texts /\ cut \subseteq Clients

\* What is not connected yet has no state, and a user that introduced itself has an entry.
LinkInv ==
    \A c \in Clients :
        /\ link[c] = "none" => peer[c] = "none" /\ coming[c] = <<>> /\ up[c] = <<>>
        /\ peer[c] = "none" => names[c] = NoName /\ c \notin live
        /\ names[c] # NoName => names[c] = name[c] /\ name[c] \in DOMAIN users
        /\ link[c] = "up" => coming[c] \in Seq(Known)

\* A text on its way is its author's, and what comes before the introduction was typed early.
SourceOf(c) ==
    /\ \A k \in 1..Len(up[c]) : up[c][k] # Hello =>
          /\ up[c][k] \in 1..Len(typed) /\ typed[up[c][k]].by = c
          /\ names[c] # NoName \/ (\E j \in 1..k : up[c][j] = Hello) \/ typed[up[c][k]].early
    /\ names[c] # NoName => \A k \in 1..Len(up[c]) : up[c][k] # Hello
    /\ \A j, k \in 1..Len(up[c]) : up[c][j] = Hello /\ up[c][k] = Hello => j = k
    /\ link[c] = "up" => names[c] # NoName \/ \E k \in 1..Len(up[c]) : up[c][k] = Hello

SourceInv == \A c \in Clients : SourceOf(c)

\* A text that the server took in was typed.
TableInv ==
    \A m \in Handled :
        /\ m.n \in 1..Len(typed)
        /\ m.from = name[typed[m.n].by] \/ (m.from = NoName /\ typed[m.n].early)

\* A line is sent once, and a text that the server took in is not on its way to it any more; it
\* is in the table or its insert failed.
FreshOf(c) ==
    /\ \A j, k \in 1..Len(up[c]) : up[c][j] = up[c][k] => j = k
    /\ \A k \in 1..Len(up[c]) : \A m \in Handled : m.n # up[c][k]

FreshInv == (\A c \in Clients : FreshOf(c)) /\ \A k \in 1..Len(db) : db[k] \notin unstored

\* A text that is shown was taken in by the server.
SeenInv == seen \subseteq Handled /\ messages \in [Clients -> Seq(Handled)]

\* All that is on its way to a client.
TasksTo(c)   == {t \in TasksOf(Said) : c \in t.to}
Posted(q, c) == LinesOf(Filter(q, TasksTo(c)))
Stream(c)    == coming[c] \o Posted(posted, c)

\* r is the table, with texts between its rows whose insert failed.
IsLog(r) == r \in Seq(Handled) /\ Filter(r, Storable) = db

\* The texts a member has and gets are those it had before, and then those of the table, unless
\* its history broke off.
LogOf(c) ==
    \E p, r \in Seq(Texts) :
        Len(p) = before[c] /\ messages[c] \o TextsOf(Stream(c)) = p \o r /\ IsLog(r)

Present == Members \ cut
LogInv  == \A c \in Present : LogOf(c)

\* A member is told the status of each user, or shows it already.
Shows(c, u)  == u \in DOMAIN usersMap[c] /\ usersMap[c][u] = users[u]
Silent(s, u) == \A k \in 1..Len(s) : ~About(s[k], u)
Told(c, u)   == Latest(Stream(c), u, UserStatus(users, u)) \/ (Silent(Stream(c), u) /\ Shows(c, u))

ViewInv ==
    /\ \A c \in Clients : DOMAIN usersMap[c] \subseteq DOMAIN users \cup {NoName}
    /\ \A c \in Members : \A u \in DOMAIN users : Told(c, u)

\* What every other part builds on, and what makes Agreement inductive.
Base   == TypeInv /\ LinkInv
Agreed == LogInv /\ ViewInv

(***************************************************************************)
(* Lines and tasks.                                                        *)
(***************************************************************************)

\* The kinds of lines, told apart.
LEMMA LineKinds ==
    /\ Texts \subseteq AnyText /\ Statuses \cap AnyText = {}
    /\ \A m \in Said : /\ m.type = "text" <=> m \in Texts
                       /\ m.type = "status" <=> m \in Statuses
    /\ Lost.type = "lost" /\ Lost \notin Said
<1>1. Texts \subseteq AnyText BY ChatBounds DEF Texts, Serials, AnyText
<1>2. Statuses \cap AnyText = {} BY DEF Statuses, AnyText
<1>3. \A m \in Texts : m.type = "text" BY DEF Texts
<1>4. \A m \in Statuses : m.type = "status" BY DEF Statuses
<1>5. Lost.type = "lost" BY DEF Lost
<1> QED BY <1>1, <1>2, <1>3, <1>4, <1>5 DEF Said

\* The texts among lines of the server, and among more of them.
TextsSplit(s, q) ==
    /\ TextsOf(s) \in Seq(Texts) /\ TextsOf(q) \in Seq(Texts)
    /\ TextsOf(s \o q) = TextsOf(s) \o TextsOf(q) /\ AddsTo(Texts, TextsOf(s), TextsOf(q))

\* TextsExtended for the lines of the chat.
LEMMA SaidExtended == \A s, q \in Seq(Said) : TextsSplit(s, q)
<1> SUFFICES ASSUME NEW s \in Seq(Said), NEW q \in Seq(Said) PROVE TextsSplit(s, q)
  OBVIOUS
<1>1. Said \cap AnyText \subseteq Texts BY LineKinds DEF Said
<1>2. /\ TextsOf(s) \in Seq(Texts) /\ TextsOf(q) \in Seq(Texts)
      /\ TextsOf(s \o q) = TextsOf(s) \o TextsOf(q) /\ AddsTo(Texts, TextsOf(s), TextsOf(q))
  BY <1>1, TextsExtended
<1> QED BY <1>2 DEF TextsSplit

\* What is known is a text that the server took in or the status of a user.
LEMMA KnownKinds ==
    ASSUME db \in Seq(Texts), unstored \subseteq Texts
    PROVE  /\ Handled \subseteq Texts /\ KnownPeople \subseteq Statuses /\ Known \subseteq Said
           /\ \A m \in Known : /\ m.type = "text" => m \in Handled
                               /\ m.type # "text" => m \in KnownPeople /\ m.type = "status"
           /\ \A k \in 1..Len(db) : db[k] \in Handled
           /\ \A m \in Handled : m \in unstored \/ \E k \in 1..Len(db) : m = db[k]
<1>1. DOMAIN db = 1..Len(db) /\ \A k \in 1..Len(db) : db[k] \in Texts BY ElementOfSeq, LenProperties
<1>2. Handled \subseteq Texts /\ KnownPeople \subseteq Statuses
  BY <1>1 DEF Handled, KnownPeople
<1>3. Known \subseteq Said BY <1>2 DEF Known, Said
<1>4. \A m \in Handled : m.type = "text" BY <1>2, LineKinds DEF Said
<1>5. \A m \in KnownPeople : m.type = "status" BY <1>2, LineKinds DEF Said
<1>6. /\ \A k \in 1..Len(db) : db[k] \in Handled
      /\ \A m \in Handled : m \in unstored \/ \E k \in 1..Len(db) : m = db[k]
  BY <1>1 DEF Handled
<1> QED BY <1>2, <1>3, <1>4, <1>5, <1>6 DEF Known

\* What a text that is taken in does to the table (db_manager.cpp:77-104).
TakenIn(m) ==
    /\ Handled' = Handled \cup {m} /\ db' \in Seq(Texts) /\ unstored' \subseteq Texts
    /\ \/ db' = Append(db, m) /\ unstored' = unstored
       \/ db' = db /\ unstored' = unstored \cup {m}

LEMMA EntryFacts ==
    ASSUME db \in Seq(Texts), unstored \subseteq Texts, NEW m \in Texts, addMessageEntry(m)
    PROVE  TakenIn(m)
<1>1. CASE db' = Append(db, m) /\ unstored' = unstored
  <2>1. /\ db' \in Seq(Texts) /\ Len(db') = Len(db) + 1 /\ db'[Len(db) + 1] = m
        /\ \A k \in 1..Len(db) : db'[k] = db[k]
    BY <1>1, AppendProperties
  <2>2. Len(db) \in Nat /\ DOMAIN db = 1..Len(db) /\ DOMAIN db' = 1..Len(db')
    BY <2>1, LenProperties
  <2>3. 1..Len(db') = 1..Len(db) \cup {Len(db) + 1} BY <2>1, <2>2
  <2>4. {db'[k] : k \in 1..Len(db')} = {db[k] : k \in 1..Len(db)} \cup {m} BY <2>1, <2>3
  <2> QED BY <1>1, <2>1, <2>2, <2>4 DEF TakenIn, Handled
<1>2. CASE db' = db /\ unstored' = unstored \cup {m} BY <1>2 DEF TakenIn, Handled
<1> QED BY <1>1, <1>2 DEF addMessageEntry

\* Tasks that write, and tasks that broadcast.
LEMMA TasksAre ==
    ASSUME NEW M
    PROVE  /\ \A t \in TasksOf(M) : t.to \subseteq Clients /\ t.msg \in M
           /\ \A m \in M : /\ BroadcastTask(m) \in TasksOf(M) /\ BroadcastTask(m).msg = m
                           /\ BroadcastTask(m).to = Clients
           /\ \A c \in Clients, m \in M : /\ WriteTask(c, m) \in TasksOf(M)
                                          /\ WriteTask(c, m).msg = m /\ WriteTask(c, m).to = {c}
           /\ \A N : M \subseteq N => TasksOf(M) \subseteq TasksOf(N)
BY DEF TasksOf, BroadcastTask, WriteTask

\* The lines that tasks send to a client, when tasks are posted and when one is taken.
LEMMA PostedFacts ==
    ASSUME NEW c \in Clients, NEW q \in Seq(TasksOf(Said))
    PROVE  /\ Posted(q, c) \in Seq(Said) /\ Posted(<<>>, c) = <<>>
           /\ \A p \in Seq(TasksOf(Said)) : Posted(q \o p, c) = Posted(q, c) \o Posted(p, c)
           /\ \A t \in TasksOf(Said) : c \in t.to => Posted(<<t>>, c) = <<t.msg>>
           /\ q # <<>> => Posted(q, c) = IF c \in Head(q).to THEN <<Head(q).msg>> \o Posted(Tail(q), c)
                                         ELSE Posted(Tail(q), c)
<1> DEFINE S == TasksOf(Said)
           T == TasksTo(c)
<1>1. T \subseteq S /\ \A h \in T : h.msg \in Said BY TasksAre DEF TasksTo
<1> HIDE DEF T
<1>2. \A p \in Seq(S) : Filter(p, T) \in Seq(T)
  <2>1. S \cap T = T BY <1>1
  <2> HIDE DEF S
  <2>2. \A p \in Seq(S) : Filter(p, T) \in Seq(S \cap T) BY FilterType
  <2> QED BY <2>1, <2>2
<1>3. \A f \in Seq(T) : /\ LinesOf(f) \in Seq(Said) /\ Len(LinesOf(f)) = Len(f)
                        /\ \A g \in Seq(T) : LinesOf(f \o g) = LinesOf(f) \o LinesOf(g)
                        /\ \A h \in T : LinesOf(<<h>>) = <<h.msg>>
  BY <1>1, LinesOfFacts
<1>4. Posted(q, c) \in Seq(Said) BY <1>2, <1>3 DEF Posted, T
<1>5. Posted(<<>>, c) = <<>>
  <2>1. <<>> \in Seq(T) /\ Len(<<>>) = 0 BY EmptySeq
  <2>2. LinesOf(<<>>) \in Seq(Said) /\ Len(LinesOf(<<>>)) = 0 BY <1>3, <2>1
  <2>3. LinesOf(<<>>) = <<>> BY <2>2, EmptySeq
  <2> QED BY <2>3, FilterEmpty DEF Posted
<1>6. ASSUME NEW p \in Seq(S) PROVE Posted(q \o p, c) = Posted(q, c) \o Posted(p, c)
  <2>1. Filter(q \o p, T) = Filter(q, T) \o Filter(p, T)
    <3>1. q \in Seq(S) OBVIOUS
    <3> HIDE DEF S
    <3> QED BY <3>1, FilterConcat
  <2>2. LinesOf(Filter(q, T) \o Filter(p, T)) = LinesOf(Filter(q, T)) \o LinesOf(Filter(p, T))
    BY <1>2, <1>3
  <2> QED BY <2>1, <2>2 DEF Posted, T
<1>7. ASSUME NEW p \in Seq(S), p # <<>>
      PROVE  Posted(p, c) = IF c \in Head(p).to THEN <<Head(p).msg>> \o Posted(Tail(p), c)
                            ELSE Posted(Tail(p), c)
  <2> DEFINE h == Head(p)
             t == Tail(p)
  <2>1. h \in S /\ t \in Seq(S) BY <1>7, HeadTailProperties
  <2>2. Filter(p, T) = IF h \in T THEN <<h>> \o Filter(t, T) ELSE Filter(t, T)
    <3> HIDE DEF S
    <3> QED BY <1>7, FilterFront
  <2>3. h \in T <=> c \in h.to BY <2>1 DEF T, TasksTo
  <2> HIDE DEF h, t
  <2>4. CASE h \in T
    <3> DEFINE f == <<h>>
    <3>1. f \in Seq(T) BY <2>4
    <3>2. LinesOf(<<h>>) = <<h.msg>> BY <1>3, <2>4, <3>1
    <3>3. LinesOf(f) = <<h.msg>> /\ Filter(p, T) = f \o Filter(t, T) BY <2>2, <2>4, <3>2
    <3> HIDE DEF f
    <3>4. LinesOf(f \o Filter(t, T)) = LinesOf(f) \o LinesOf(Filter(t, T))
      BY <1>2, <1>3, <2>1, <3>1
    <3> QED BY <2>3, <2>4, <3>3, <3>4 DEF Posted, T, h, t
  <2>5. CASE h \notin T
    <3>1. Filter(p, T) = Filter(t, T) BY <2>2, <2>5
    <3> QED BY <2>3, <2>5, <3>1 DEF Posted, T, h, t
  <2> QED BY <2>4, <2>5
<1>8. ASSUME NEW t \in S, c \in t.to PROVE Posted(<<t>>, c) = <<t.msg>>
  <2> DEFINE p == <<t>>
             m == <<t.msg>>
  <2>1. p \in Seq(S) /\ p # <<>> /\ Head(p) = t /\ Tail(p) = <<>> OBVIOUS
  <2>2. m \in Seq(Said) BY <1>8, TasksAre
  <2> HIDE DEF p, m
  <2>3. Posted(p, c) = m \o <<>> BY <1>5, <1>7, <1>8, <2>1 DEF m
  <2>4. m \o <<>> = m BY <2>2, ConcatEmptySeq
  <2> QED BY <2>3, <2>4 DEF p, m
<1> QED BY <1>4, <1>5, <1>6, <1>7, <1>8

\* What is written to one client: the lines go to nobody else (write(), tcp_server.h:78-92).
LEMMA WelcomeFacts ==
    ASSUME NEW M, M \subseteq Said, NEW c \in Clients, NEW welcome \in Seq(M)
    PROVE  LET tasks == [k \in DOMAIN welcome |-> WriteTask(c, welcome[k])]
           IN  /\ tasks \in Seq(TasksOf(M))
               /\ \A d \in Clients : Posted(tasks, d) = IF d = c THEN welcome ELSE <<>>
<1> DEFINE tasks == [k \in DOMAIN welcome |-> WriteTask(c, welcome[k])]
           n == Len(welcome)
           S == {WriteTask(c, m) : m \in M}
<1>1. n \in Nat /\ DOMAIN welcome = 1..n /\ \A k \in 1..n : welcome[k] \in M
  BY LenProperties, ElementOfSeq
<1>2. tasks \in [1..n -> S] /\ \A k \in 1..n : tasks[k] = WriteTask(c, welcome[k])
  BY <1>1
<1>3. S \subseteq TasksOf(M) /\ S \subseteq TasksOf(Said)
  BY TasksAre
<1>4. \A h \in S : h.msg \in M /\ h.to = {c} BY TasksAre
<1>5. \A k \in 1..n : tasks[k].msg = welcome[k] BY <1>2 DEF WriteTask
<1> HIDE DEF tasks, S, n
<1>6. tasks \in Seq(S) /\ Len(tasks) = n BY <1>1, <1>2, FunctionSeq
<1>7. tasks \in Seq(TasksOf(M)) BY <1>3, <1>6, SeqMonotonic
<1>8. LinesOf(tasks) = welcome
  <2>1. LinesOf(tasks) \in Seq(M) /\ Len(LinesOf(tasks)) = Len(tasks)
        /\ \A k \in 1..Len(tasks) : LinesOf(tasks)[k] = tasks[k].msg
    BY <1>4, <1>6, LinesOfFacts
  <2> DEFINE l == LinesOf(tasks)
  <2>2. l \in Seq(M) /\ Len(l) = Len(welcome) /\ \A k \in 1..Len(l) : l[k] = welcome[k]
    BY <1>5, <1>6, <2>1 DEF n
  <2> HIDE DEF l
  <2>3. l = welcome BY <2>2, SeqEqual
  <2> QED BY <2>3 DEF l
<1>9. ASSUME NEW d \in Clients PROVE Posted(tasks, d) = IF d = c THEN welcome ELSE <<>>
  <2>1. CASE d = c
    <3>1. S \subseteq TasksTo(d) BY <1>3, <1>4, <2>1 DEF TasksTo
    <3>2. Filter(tasks, TasksTo(d)) = tasks BY <1>6, <3>1, FilterPure
    <3> QED BY <1>8, <2>1, <3>2 DEF Posted
  <2>2. CASE d # c
    <3>1. S \cap TasksTo(d) = {} BY <1>4, <2>2 DEF TasksTo
    <3>2. Filter(tasks, TasksTo(d)) = <<>> BY <1>6, <3>1, FilterPure
    <3>3. Filter(<<>>, TasksTo(d)) = <<>> BY FilterEmpty
    <3>4. <<>> \in Seq(TasksOf(Said)) OBVIOUS
    <3>5. Posted(<<>>, d) = <<>> BY <3>4, PostedFacts
    <3> QED BY <2>2, <3>2, <3>3, <3>5 DEF Posted
  <2> QED BY <2>1, <2>2
<1> QED BY <1>7, <1>9 DEF tasks

\* All that is on its way to a client that can still read it is lines.
LEMMA StreamTyped ==
    ASSUME TypeInv, NEW c \in Clients, coming[c] \in Seq(Known)
    PROVE  /\ posted \in Seq(TasksOf(Said)) /\ coming[c] \in Seq(Said) /\ Posted(posted, c) \in Seq(Said)
           /\ Stream(c) = coming[c] \o Posted(posted, c) /\ Stream(c) \in Seq(Said)
<1>1. Known \subseteq Said BY KnownKinds DEF TypeInv
<1>2. posted \in Seq(TasksOf(Said))
  <2>1. TasksOf(Known) \subseteq TasksOf(Said) BY <1>1, TasksAre
  <2>2. posted \in Seq(TasksOf(Known)) BY DEF TypeInv
  <2> QED BY <2>1, <2>2, SeqMonotonic
<1>3. coming[c] \in Seq(Said) BY <1>1, SeqMonotonic
<1>4. Posted(posted, c) \in Seq(Said) BY <1>2, PostedFacts
<1>5. coming[c] \o Posted(posted, c) \in Seq(Said) BY <1>3, <1>4, ConcatProperties
<1> QED BY <1>2, <1>3, <1>4, <1>5 DEF Stream

\* A client's stream in the next state, by the parts it is made of.
LEMMA StreamAfter ==
    ASSUME NEW c \in Clients
    PROVE  Stream(c)' = coming'[c] \o Posted(posted', c)
BY DEF Stream, Posted

\* What is posted comes at the end of the streams.
LEMMA StreamPosted ==
    ASSUME TypeInv, NEW c \in Clients, coming[c] \in Seq(Known), NEW p \in Seq(TasksOf(Said)),
           posted' = posted \o p, coming'[c] = coming[c]
    PROVE  Stream(c)' = Stream(c) \o Posted(p, c)
<1> DEFINE a == coming[c]
           b == Posted(posted, c)
           d == Posted(p, c)
<1>1. a \in Seq(Said) /\ b \in Seq(Said) /\ posted \in Seq(TasksOf(Said)) /\ Stream(c) = a \o b
  BY StreamTyped
<1>2. Posted(posted \o p, c) = b \o d /\ d \in Seq(Said) BY <1>1, PostedFacts
<1>3. Stream(c)' = a \o (b \o d) BY <1>2, StreamAfter
<1> HIDE DEF a, b, d
<1>4. a \o (b \o d) = (a \o b) \o d
  <2>1. a \in Seq(Said) /\ b \in Seq(Said) /\ d \in Seq(Said) BY <1>1, <1>2
  <2>2. InARow(a, b, d) BY <2>1, Associative
  <2> QED BY <2>2 DEF InARow
<1> QED BY <1>1, <1>3, <1>4 DEF d

\* What was known stays known, unless the server is killed.
LEMMA KnownGrows ==
    ASSUME TypeInv, LinkInv, DOMAIN users \subseteq DOMAIN users', Handled \subseteq Handled'
    PROVE  /\ Known \subseteq Known'
           /\ coming \in [Clients -> Seq(Known' \cup {Lost})] /\ posted \in Seq(TasksOf(Known'))
           /\ \A c \in Clients : link[c] = "up" => coming[c] \in Seq(Known')
<1>3. Known \subseteq Known' BY DEF Known, KnownPeople
<1>4. posted \in Seq(TasksOf(Known'))
  <2>1. TasksOf(Known) \subseteq TasksOf(Known') BY <1>3, TasksAre
  <2>2. posted \in Seq(TasksOf(Known)) BY DEF TypeInv
  <2> QED BY <2>1, <2>2, SeqMonotonic
<1>5. coming \in [Clients -> Seq(Known' \cup {Lost})]
  <2> DEFINE A == Known \cup {Lost}
             B == Known' \cup {Lost}
  <2>1. A \subseteq B BY <1>3
  <2>2. coming \in [Clients -> Seq(A)] BY DEF TypeInv
  <2> HIDE DEF A, B
  <2>3. \A c \in Clients : coming[c] \in Seq(B) BY <2>1, <2>2, SeqMonotonic
  <2>4. coming \in [Clients -> Seq(B)] BY <2>2, <2>3
  <2> QED BY <2>4 DEF B
<1>6. \A c \in Clients : link[c] = "up" => coming[c] \in Seq(Known')
  <2>1. \A c \in Clients : link[c] = "up" => coming[c] \in Seq(Known) BY DEF LinkInv
  <2> QED BY <1>3, <2>1, SeqMonotonic
<1> QED BY <1>3, <1>4, <1>5, <1>6

(***************************************************************************)
(* The types and the connections.                                          *)
(***************************************************************************)
\* In the initial state nothing is on its way.
LEMMA BaseInit == Init => Base
<1> SUFFICES ASSUME Init PROVE Base
  OBVIOUS
<1>1. <<>> \in Seq(Known \cup {Lost}) /\ <<>> \in Seq(Known) /\ <<>> \in Seq(TasksOf(Known))
      /\ <<>> \in Seq(Texts) /\ <<>> \in Seq(Nat) /\ <<>> \in Seq([by: Clients, early: BOOLEAN])
  OBVIOUS
<1>2. IsMap(users) BY DEF Init, IsMap
<1>3. Len(<<>>) = 0 /\ 0 \in Nat BY SMT
<1>4. TypeInv BY <1>1, <1>2, <1>3, ChatBounds DEF Init, TypeInv
<1>5. LinkInv BY <1>1 DEF Init, LinkInv
<1> QED BY <1>4, <1>5 DEF Base

\* A client that connects, with the texts that were typed early (tcp_client.h:147-153).
LEMMA ConnectBase ==
    ASSUME Base, NEW c \in Clients, Connect(c)
    PROVE  Base'
<1> USE DEF Base
<1> DEFINE R == [by: Clients, early: BOOLEAN]
<1>1. typed \in Seq(R) /\ Len(typed) \in Nat /\ Len(typed) <= MaxTexts /\ MaxTexts \in Nat
  BY ChatBounds, LenProperties DEF TypeInv
<1>2. PICK n \in 0..(MaxTexts - Len(typed)) :
        /\ typed' = typed \o [k \in 1..n |-> [by |-> c, early |-> TRUE]]
        /\ up' = [up EXCEPT ![c] = Append([k \in 1..n |-> Len(typed) + k], Hello)]
  BY DEF Connect
<1>3. n \in Nat /\ Len(typed) + n <= MaxTexts BY <1>1
<1> DEFINE e == [k \in 1..n |-> Len(typed) + k]
           r == [k \in 1..n |-> [by |-> c, early |-> TRUE]]
<1>4. e \in [1..n -> Nat] /\ r \in [1..n -> R] BY <1>1, <1>3
<1>5. typed' = typed \o r /\ up' = [up EXCEPT ![c] = Append(e, Hello)] BY <1>2
<1> HIDE DEF e, r, R
<1>6. e \in Seq(Nat) /\ r \in Seq(R) /\ Len(r) = n BY <1>3, <1>4, FunctionSeq
<1>7. typed' \in Seq(R) /\ Len(typed') <= MaxTexts
  <2>1. typed \o r \in Seq(R) /\ Len(typed \o r) = Len(typed) + Len(r)
    BY <1>1, <1>6, ConcatProperties
  <2> QED BY <1>3, <1>5, <1>6, <2>1
<1>8. Append(e, Hello) \in Seq(Nat)
  <2>1. Hello \in Nat BY DEF Hello
  <2> QED BY <1>6, <2>1, AppendProperties
<1>9. /\ link[c] = "none" /\ link' = [link EXCEPT ![c] = "up"]
      /\ UNCHANGED <<fanout, connection, server, kills, name, messages, usersMap, before, seen, losses>>
  BY DEF Connect
<1>10. Known' = Known BY <1>9 DEF server, losses, Known, Handled, KnownPeople
<1>11. up' \in [Clients -> Seq(Nat)] BY <1>5, <1>8 DEF TypeInv
<1>12. TypeInv'
  BY <1>7, <1>9, <1>10, <1>11 DEF TypeInv, fanout, connection, server, losses, R, IsMap
<1>13. LinkInv'
  <2>1. coming[c] = <<>> /\ <<>> \in Seq(Known) BY <1>9 DEF LinkInv
  <2> QED BY <1>5, <1>9, <1>10, <2>1 DEF TypeInv, LinkInv, fanout, connection, server
<1> QED BY <1>12, <1>13

\* A text that is typed (client data_manager.cpp:16-28).
LEMMA TypeBase ==
    ASSUME Base, NEW c \in Clients, Type(c)
    PROVE  Base'
<1> USE DEF Base
<1> DEFINE R == [by: Clients, early: BOOLEAN]
<1>1. typed \in Seq(R) /\ Len(typed) \in Nat /\ MaxTexts \in Nat /\ up[c] \in Seq(Nat)
  BY ChatBounds, LenProperties DEF TypeInv
<1>2. /\ link[c] = "up" /\ Len(typed) < MaxTexts
      /\ typed' = Append(typed, [by |-> c, early |-> FALSE])
      /\ up' = [up EXCEPT ![c] = Append(up[c], Len(typed) + 1)]
      /\ UNCHANGED <<fanout, connection, server, kills, name, link, messages, usersMap,
                     before, seen, losses>>
  BY DEF Type
<1>3. [by |-> c, early |-> FALSE] \in R OBVIOUS
<1> HIDE DEF R
<1>4. typed' \in Seq(R) /\ Len(typed') <= MaxTexts
  <2>1. typed' \in Seq(R) /\ Len(typed') = Len(typed) + 1 BY <1>1, <1>2, <1>3, AppendProperties
  <2> QED BY <1>1, <1>2, <2>1
<1>5. Append(up[c], Len(typed) + 1) \in Seq(Nat)
  <2>1. Len(typed) + 1 \in Nat BY <1>1
  <2> QED BY <1>1, <2>1, AppendProperties
<1>6. Known' = Known BY <1>2 DEF server, losses, Known, Handled, KnownPeople
<1>7. up' \in [Clients -> Seq(Nat)] BY <1>2, <1>5 DEF TypeInv
<1>8. TypeInv' BY <1>2, <1>4, <1>6, <1>7 DEF TypeInv, fanout, connection, server, losses, R, IsMap
<1>9. LinkInv' BY <1>2, <1>6 DEF TypeInv, LinkInv, fanout, connection, server
<1> QED BY <1>8, <1>9

\* A line that a client handles (client data_manager.cpp:73-89).
LEMMA DeliverBase ==
    ASSUME Base, NEW c \in Clients, Deliver(c)
    PROVE  Base'
<1> USE DEF Base
<1> DEFINE m == Head(coming[c])
<1>1. /\ link[c] = "up" /\ coming[c] # <<>>
      /\ coming' = [coming EXCEPT ![c] = Tail(coming[c])]
      /\ \/ m.type = "text" /\ messages' = [messages EXCEPT ![c] = Append(messages[c], m)]
         \/ messages' = messages
      /\ DOMAIN usersMap' = DOMAIN usersMap
      /\ UNCHANGED <<live, connection, server, kills, name, link, up, typed, before, losses>>
  BY DEF Deliver
<1>2. coming[c] \in Seq(Known) BY <1>1 DEF LinkInv
<1>3. m \in Known /\ Tail(coming[c]) \in Seq(Known) BY <1>1, <1>2, HeadTailProperties
<1>4. messages' \in [Clients -> Seq(Texts)]
  <2>1. messages \in [Clients -> Seq(Texts)] BY DEF TypeInv
  <2>2. CASE m.type = "text" /\ messages' = [messages EXCEPT ![c] = Append(messages[c], m)]
    <3>1. m \in Texts BY <1>3, <2>2, KnownKinds DEF TypeInv
    <3> HIDE DEF m
    <3>2. messages[c] \in Seq(Texts) BY <2>1
    <3>3. Append(messages[c], m) \in Seq(Texts) BY <3>1, <3>2, AppendProperties
    <3> QED BY <2>1, <2>2, <3>3
  <2> QED BY <1>1, <2>1, <2>2
<1> HIDE DEF m
<1>5. Known' = Known BY <1>1 DEF server, losses, Known, Handled, KnownPeople
<1>6. Tail(coming[c]) \in Seq(Known \cup {Lost})
  <2> DEFINE t == Tail(coming[c])
             K == Known \cup {Lost}
  <2>1. t \in Seq(Known) /\ Known \subseteq K BY <1>3
  <2> HIDE DEF t, K
  <2>2. t \in Seq(K) BY <2>1, SeqMonotonic
  <2> QED BY <2>2 DEF t, K
<1>7. coming' \in [Clients -> Seq(Known \cup {Lost})] BY <1>1, <1>6 DEF TypeInv
<1>8. TypeInv' BY <1>1, <1>4, <1>5, <1>7 DEF TypeInv, connection, server, losses, IsMap
<1>9. LinkInv' BY <1>1, <1>3, <1>5 DEF TypeInv, LinkInv, connection, server
<1> QED BY <1>8, <1>9

\* A connection that breaks.
LEMMA BreakBase ==
    ASSUME Base, NEW c \in Clients, Break(c)
    PROVE  Base'
<1> USE DEF Base
<1> DEFINE l == IF coming[c] = <<>> THEN <<>> ELSE <<Lost>>
<1>1. /\ link[c] = "up" /\ link' = [link EXCEPT ![c] = "down"]
      /\ coming' = [coming EXCEPT ![c] = l] /\ cut' = cut \ {c}
      /\ UNCHANGED <<live, connection, server, kills, name, typed, seen, unstored>>
  BY DEF Break, Forget
<1>2. l \in Seq(Known \cup {Lost})
  <2>1. <<>> \in Seq(Known \cup {Lost}) /\ <<Lost>> \in Seq(Known \cup {Lost}) OBVIOUS
  <2> QED BY <2>1
<1> HIDE DEF l
<1>3. PICK n \in 0..Len(up[c]) : up' = [up EXCEPT ![c] = SubSeq(up[c], 1, n)]
  BY DEF Break
<1>4. up' \in [Clients -> Seq(Nat)]
  <2>1. up[c] \in Seq(Nat) BY DEF TypeInv
  <2>2. SubSeq(up[c], 1, n) \in Seq(Nat) BY <2>1, FirstPart
  <2> QED BY <1>3, <2>2 DEF TypeInv
<1>5. Known' = Known BY <1>1 DEF server, losses, Known, Handled, KnownPeople
<1>6. messages' \in [Clients -> Seq(Texts)] /\ before' \in [Clients -> Nat] /\ DOMAIN usersMap' = Clients
  <2>1. <<>> \in Seq(Texts) /\ 0 \in Nat OBVIOUS
  <2>2. /\ messages' = [d \in Clients |-> IF d \in {c} THEN <<>> ELSE messages[d]]
        /\ before' = [d \in Clients |-> IF d \in {c} THEN 0 ELSE before[d]]
        /\ usersMap' = [d \in Clients |-> IF d \in {c} THEN <<>> ELSE usersMap[d]]
    BY DEF Break, Forget
  <2> QED BY <2>1, <2>2 DEF TypeInv
<1>7. coming' \in [Clients -> Seq(Known \cup {Lost})] BY <1>1, <1>2 DEF TypeInv
<1>8. link' \in [Clients -> {"none", "up", "down"}] BY <1>1 DEF TypeInv
<1>9. TypeInv' BY <1>1, <1>4, <1>5, <1>6, <1>7, <1>8 DEF TypeInv, connection, server, IsMap
<1>10. LinkInv' BY <1>1, <1>3, <1>5 DEF TypeInv, LinkInv, connection, server
<1> QED BY <1>9, <1>10

\* A connection that is accepted.
LEMMA AcceptBase ==
    ASSUME Base, NEW c \in Clients, Accept(c)
    PROVE  Base'
<1> USE DEF Base
<1>1. /\ link[c] # "none" /\ peer[c] = "none"
      /\ peer' = [peer EXCEPT ![c] = "reading"] /\ live' = live \cup {c}
      /\ UNCHANGED <<coming, posted, server, kills, name, client, ghosts>>
  BY DEF Accept
<1>2. Known' = Known BY <1>1 DEF server, ghosts, losses, Known, Handled, KnownPeople
<1>3. TypeInv' BY <1>1, <1>2 DEF TypeInv, server, client, ghosts, losses, IsMap
<1>4. LinkInv' BY <1>1, <1>2 DEF TypeInv, LinkInv, server, client, ghosts, losses
<1> QED BY <1>3, <1>4

\* A task that runs (tcp_server.h:78-131).
LEMMA RunTaskBase ==
    ASSUME Base, RunTask
    PROVE  Base'
<1> USE DEF Base
<1> DEFINE h == Head(posted)
<1>1. /\ posted # <<>> /\ posted' = Tail(posted)
      /\ UNCHANGED <<live, peer, server, kills, name, client, ghosts>>
  BY DEF RunTask
<1>2. coming' = [c \in Clients |->
           IF c \notin Audience(h) THEN coming[c]
           ELSE IF link[c] = "up" THEN Append(coming[c], h.msg) ELSE <<Lost>>]
  BY DEF RunTask
<1>3. posted \in Seq(TasksOf(Known)) BY DEF TypeInv
<1>4. h \in TasksOf(Known) /\ posted' \in Seq(TasksOf(Known)) BY <1>1, <1>3, HeadTailProperties
<1>5. h.msg \in Known BY <1>4, TasksAre
<1> HIDE DEF h
<1>6. Known' = Known BY <1>1 DEF server, ghosts, losses, Known, Handled, KnownPeople
<1>7. \A c \in Clients : link[c] = "up" => coming'[c] \in Seq(Known)
  <2> SUFFICES ASSUME NEW c \in Clients, link[c] = "up" PROVE coming'[c] \in Seq(Known)
    OBVIOUS
  <2>1. coming[c] \in Seq(Known) BY DEF LinkInv
  <2>2. Append(coming[c], h.msg) \in Seq(Known) BY <1>5, <2>1, AppendProperties
  <2> QED BY <1>2, <2>1, <2>2
<1>8. coming' \in [Clients -> Seq(Known \cup {Lost})]
  <2> DEFINE K == Known \cup {Lost}
  <2>1. Known \subseteq K /\ <<Lost>> \in Seq(K) OBVIOUS
  <2>2. coming \in [Clients -> Seq(K)] BY DEF TypeInv
  <2> HIDE DEF K
  <2>3. \A c \in Clients : coming'[c] \in Seq(K)
    <3> SUFFICES ASSUME NEW c \in Clients PROVE coming'[c] \in Seq(K)
      OBVIOUS
    <3>1. CASE link[c] = "up"
      <4>1. coming'[c] \in Seq(Known) BY <1>7, <3>1
      <4> QED BY <2>1, <4>1, SeqMonotonic
    <3>2. CASE link[c] # "up" BY <1>2, <2>1, <2>2, <3>2
    <3> QED BY <3>1, <3>2
  <2>4. coming' \in [Clients -> Seq(K)] BY <1>2, <2>3
  <2> QED BY <2>4 DEF K
<1>9. \A c \in Clients : c \notin live => coming'[c] = coming[c] BY <1>2 DEF Audience
<1>10. TypeInv' BY <1>1, <1>4, <1>6, <1>8 DEF TypeInv, server, client, ghosts, losses, IsMap
<1>11. LinkInv' BY <1>1, <1>6, <1>7, <1>9 DEF TypeInv, LinkInv, server, client, ghosts, losses
<1> QED BY <1>10, <1>11

\* What a lost connection does to the map, and what is told of it: nothing that was known
\* gets unknown (data_manager.cpp:113-132).
LEMMA LostFacts ==
    ASSUME Base, NEW c \in Clients, onDisconnect(c)
    PROVE  LET p == <<BroadcastTask(OfflineStatus(users, names[c]))>>
           IN  /\ LostUser(users, names[c], users') /\ users' = WithOffline(users, names[c])
               /\ live' = live \ {c} /\ posted' = posted \o p
               /\ OfflineStatus(users, names[c]) \in KnownPeople /\ Known' = Known
               /\ p \in Seq(TasksOf(Known)) /\ p \in Seq(TasksOf(Said))
               /\ \A d \in Clients : Posted(p, d) = <<OfflineStatus(users, names[c])>>
<1> USE DEF Base
<1> DEFINE m == OfflineStatus(users, names[c])
           t == BroadcastTask(m)
           p == <<t>>
<1>1. /\ live' = live \ {c} /\ users' = WithOffline(users, names[c]) /\ posted' = Append(posted, t)
      /\ UNCHANGED <<names, db, kills, name, client, ghosts>>
  BY DEF onDisconnect
<1>2. names[c] \in DOMAIN users \cup {NoName} /\ IsMap(users) BY DEF TypeInv, LinkInv
<1>3. LostUser(users, names[c], users') BY <1>1, <1>2, OfflineMap
<1>4. m \in KnownPeople
  <2>1. m \in Statuses BY <1>3 DEF LostUser
  <2>2. m.user = names[c] BY StatusParts
  <2> QED BY <1>2, <2>1, <2>2 DEF KnownPeople
<1>5. Known' = Known
  <2>1. DOMAIN users' = DOMAIN users BY <1>3 DEF LostUser
  <2> QED BY <1>1, <2>1 DEF ghosts, losses, Known, Handled, KnownPeople
<1>6. m \in Known /\ m \in Said BY <1>4, KnownKinds DEF Known, TypeInv
<1> HIDE DEF m
<1>7. t \in TasksOf(Known) /\ t \in TasksOf(Said) /\ t.msg = m /\ t.to = Clients
  BY <1>6, TasksAre
<1> HIDE DEF t
<1>8. p \in Seq(TasksOf(Known)) /\ p \in Seq(TasksOf(Said)) BY <1>7
<1>9. posted' = posted \o p
  <2>1. posted \in Seq(TasksOf(Known)) BY DEF TypeInv
  <2> QED BY <1>1, <1>7, <2>1, AppendIsConcat
<1>10. \A d \in Clients : Posted(p, d) = <<m>>
  <2>1. <<>> \in Seq(TasksOf(Said)) OBVIOUS
  <2> QED BY <1>7, <2>1, PostedFacts
<1> QED BY <1>1, <1>3, <1>4, <1>5, <1>8, <1>9, <1>10 DEF m, t

\* A connection of a user that is lost.
LEMMA LostBase ==
    ASSUME Base, NEW c \in Clients, ReadError(c) \/ WriteError(c)
    PROVE  Base'
<1> USE DEF Base
<1>1. onDisconnect(c) BY DEF ReadError, WriteError
<1> DEFINE p == <<BroadcastTask(OfflineStatus(users, names[c]))>>
<1>2. /\ LostUser(users, names[c], users') /\ live' = live \ {c} /\ posted' = posted \o p
      /\ Known' = Known /\ p \in Seq(TasksOf(Known))
  BY <1>1, LostFacts
<1> HIDE DEF p
<1>3. posted' \in Seq(TasksOf(Known))
  <2>1. posted \in Seq(TasksOf(Known)) BY DEF TypeInv
  <2> QED BY <1>2, <2>1, ConcatProperties
<1>4. UNCHANGED <<names, db, kills, name, client, ghosts>> BY <1>1 DEF onDisconnect
<1>5. IsMap(users') /\ DOMAIN users' = DOMAIN users BY <1>2 DEF LostUser
<1>6. \/ peer[c] = "reading" /\ peer' = [peer EXCEPT ![c] = "done"] /\ coming' = coming
      \/ link[c] = "down" /\ coming' = [coming EXCEPT ![c] = <<>>] /\ peer' = peer
  BY DEF ReadError, WriteError
<1>7. coming' \in [Clients -> Seq(Known \cup {Lost})]
  <2> DEFINE L == Seq(Known \cup {Lost})
             e == <<>>
  <2>1. e \in L /\ coming \in [Clients -> L] BY DEF TypeInv
  <2>2. coming' = coming \/ coming' = [coming EXCEPT ![c] = e] BY <1>6
  <2> HIDE DEF L, e
  <2>3. coming' \in [Clients -> L] BY <2>1, <2>2
  <2> QED BY <2>3 DEF L
<1>8. peer' \in [Clients -> {"none", "reading", "done"}] BY <1>6 DEF TypeInv
<1>9. live' \subseteq Clients BY <1>2 DEF TypeInv
<1>10. TypeInv' BY <1>2, <1>3, <1>4, <1>5, <1>7, <1>8, <1>9 DEF TypeInv, client, ghosts, losses, IsMap
<1>11. LinkInv' BY <1>2, <1>4, <1>5, <1>6 DEF TypeInv, LinkInv, client, ghosts, losses
<1> QED BY <1>10, <1>11

\* The server is killed and started again (main.cpp:29-47, db_manager.cpp:20-45).
LEMMA KillBase ==
    ASSUME Base, Kill
    PROVE  Base'
<1> USE DEF Base
<1>1. /\ live' = {} /\ coming' = [c \in Clients |-> <<>>] /\ posted' = <<>>
      /\ peer' = [c \in Clients |-> IF link[c] = "none" THEN "none" ELSE "done"]
      /\ users' = <<>> /\ names' = [c \in Clients |-> NoName] /\ db' = db
      /\ link' = [c \in Clients |-> IF link[c] = "none" THEN "none" ELSE "down"]
      /\ up' = [c \in Clients |-> <<>>]
      /\ messages' = [c \in Clients |-> IF c \in Clients THEN <<>> ELSE messages[c]]
      /\ before' = [c \in Clients |-> IF c \in Clients THEN 0 ELSE before[c]]
      /\ DOMAIN usersMap' = Clients /\ cut' = cut \ Clients
      /\ UNCHANGED <<name, typed, seen, unstored>>
  BY DEF Kill, Kept, Forget
<1>2. /\ <<>> \in Seq(Known' \cup {Lost}) /\ <<>> \in Seq(TasksOf(Known'))
      /\ <<>> \in Seq(Texts) /\ <<>> \in Seq(Nat) /\ 0 \in Nat
  OBVIOUS
<1>3. IsMap(users') BY <1>1 DEF IsMap
<1>4. /\ coming' \in [Clients -> Seq(Known' \cup {Lost})] /\ posted' \in Seq(TasksOf(Known'))
      /\ up' \in [Clients -> Seq(Nat)] /\ messages' \in [Clients -> Seq(Texts)]
      /\ before' \in [Clients -> Nat]
  BY <1>1, <1>2
<1>5. TypeInv' BY <1>1, <1>3, <1>4 DEF TypeInv, IsMap
<1>6. LinkInv' BY <1>1 DEF TypeInv, LinkInv
<1> QED BY <1>5, <1>6

\* The lines that a client gets when it introduces itself, and the map then
\* (data_manager.cpp:47-84).
IntroOf(c, color, rows) ==
    LET now     == WithOnline(users, name[c], color)
        welcome == rows \o KnownStatuses(now)
    IN  /\ users' = now
        /\ posted' = posted \o [k \in DOMAIN welcome |-> WriteTask(c, welcome[k])]
                            \o <<BroadcastTask(UserStatus(now, name[c]))>>

\* What is read of the table is the beginning of it, or all of it (db_manager.cpp:106-142).
RowsOf(rows) == rows \in Seq(Texts) /\ \A k \in 1..Len(rows) : rows[k] \in Handled

LEMMA HistoryFacts ==
    ASSUME Base, NEW c \in Clients, NEW h \in History(c)
    PROVE  RowsOf(h.rows) /\ (h.whole => h.rows = db)
<1>1. db \in Seq(Texts) /\ Len(db) \in Nat /\ \A k \in 1..Len(db) : db[k] \in Handled
  BY KnownKinds, LenProperties DEF Base, TypeInv
<1>2. PICK n \in 0..Len(db) : h = [rows |-> SubSeq(db, 1, n), whole |-> n = Len(db)]
  BY DEF History, getMessages
<1>3. h.rows = SubSeq(db, 1, n) /\ (h.whole <=> n = Len(db)) BY <1>2
<1>4. /\ SubSeq(db, 1, n) \in Seq(Texts) /\ Len(SubSeq(db, 1, n)) = n
      /\ \A k \in 1..n : SubSeq(db, 1, n)[k] = db[k]
  BY <1>1, FirstPart
<1>5. \A k \in 1..n : k \in 1..Len(db) BY <1>1
<1>6. RowsOf(h.rows) BY <1>1, <1>3, <1>4, <1>5 DEF RowsOf
<1>7. h.whole => h.rows = db
  <2>1. SubSeq(db, 1, Len(db)) = db BY <1>1, SubSeqFull
  <2> QED BY <1>3, <2>1
<1> QED BY <1>6, <1>7

\* What an introduction posts: history and statuses, and the news for all (data_manager.cpp:47-85).
IntroSays(c, color, rows) ==
    LET welcome == rows \o KnownStatuses(users')
        news    == UserStatus(users', name[c])
        p       == [k \in DOMAIN welcome |-> WriteTask(c, welcome[k])] \o <<BroadcastTask(news)>>
    IN  /\ users' = WithOnline(users, name[c], color)
        /\ IsMap(users') /\ DOMAIN users' = DOMAIN users \cup {name[c]}
        /\ posted' = posted \o p /\ p \in Seq(TasksOf(Known')) /\ p \in Seq(TasksOf(Said))
        /\ welcome \in Seq(Said) /\ news \in Statuses
        /\ \A d \in Clients : Posted(p, d) = IF d = c THEN welcome \o <<news>> ELSE <<news>>

LEMMA IntroFacts ==
    ASSUME Base, NEW c \in Clients, NEW color \in ColorsFor(users, name[c]), NEW rows, RowsOf(rows),
           IntroOf(c, color, rows), db' = db, unstored' = unstored
    PROVE  IntroSays(c, color, rows)
<1> USE DEF Base
<1> DEFINE told    == KnownStatuses(users')
           welcome == rows \o told
           news    == UserStatus(users', name[c])
           w       == [k \in DOMAIN welcome |-> WriteTask(c, welcome[k])]
           b       == <<BroadcastTask(news)>>
<1>1. /\ users' = WithOnline(users, name[c], color)
      /\ posted' = posted \o w \o b
  BY DEF IntroOf
<1>2. /\ IsMap(users') /\ DOMAIN users' = DOMAIN users \cup {name[c]} /\ name[c] \in DOMAIN users'
  <2>1. IsMap(users) /\ name[c] \in Users BY DEF TypeInv
  <2> DEFINE u   == name[c]
             now == WithOnline(users, u, color)
  <2>2. color \in ColorsFor(users, u) OBVIOUS
  <2> HIDE DEF u
  <2>3. IsMap(now) /\ DOMAIN now = DOMAIN users \cup {u} /\ u \in DOMAIN now
    <3>1. CameOnline(users, u, color, now) BY <2>1, <2>2, OnlineMap DEF u
    <3> QED BY <3>1 DEF CameOnline
  <2> HIDE DEF now
  <2>4. users' = now BY <1>1 DEF now, u
  <2> QED BY <2>3, <2>4 DEF u
<1> DEFINE map == users'
<1> HIDE DEF map
<1>3. IsMap(map) /\ name[c] \in DOMAIN map BY <1>2 DEF map
<1>4. /\ \A u \in DOMAIN map : UserStatus(map, u) \in Statuses
      /\ KnownStatuses(map) \in Seq(Statuses)
      /\ \A k \in 1..Len(KnownStatuses(map)) :
            \E u \in DOMAIN map : KnownStatuses(map)[k] = UserStatus(map, u)
  BY <1>3, StatusTypes
<1>5. \A u \in DOMAIN map : UserStatus(map, u) \in KnownPeople'
  BY <1>4, StatusParts DEF KnownPeople, map
<1>6. told \in Seq(Known')
  <2>1. told = KnownStatuses(map) BY DEF map
  <2> HIDE DEF told
  <2>2. \A k \in 1..Len(told) : told[k] \in Known' BY <1>4, <1>5, <2>1 DEF Known
  <2> QED BY <1>4, <2>1, <2>2, SeqIn
<1>7. news \in Known' /\ news \in Statuses BY <1>3, <1>4, <1>5 DEF Known, map
<1>8. rows \in Seq(Known')
  <2>1. Handled' = Handled BY DEF Handled
  <2>2. \A k \in 1..Len(rows) : rows[k] \in Known' BY <2>1 DEF Known, RowsOf
  <2> QED BY <2>2, SeqIn DEF RowsOf
<1>9. Known' \subseteq Said
  <2>1. Handled' = Handled BY DEF Handled
  <2>2. Handled \subseteq Texts BY KnownKinds DEF TypeInv
  <2> QED BY <2>1, <2>2 DEF Known, KnownPeople, Said
<1> DEFINE M == Known'
<1> HIDE DEF told, news
<1>10. welcome \in Seq(M)
  <2>1. rows \in Seq(M) /\ told \in Seq(M) BY <1>6, <1>8
  <2> HIDE DEF M
  <2> QED BY <2>1, ConcatProperties
<1>11. M \subseteq Said /\ news \in M BY <1>7, <1>9
<1> HIDE DEF welcome, M
<1>12. /\ w \in Seq(TasksOf(M))
       /\ \A d \in Clients : Posted(w, d) = IF d = c THEN welcome ELSE <<>>
  BY <1>10, <1>11, WelcomeFacts
<1>13. BroadcastTask(news) \in TasksOf(M) /\ BroadcastTask(news) \in TasksOf(Said)
       /\ BroadcastTask(news).msg = news /\ BroadcastTask(news).to = Clients
       /\ TasksOf(M) \subseteq TasksOf(Said)
  BY <1>11, TasksAre
<1> DEFINE t == BroadcastTask(news)
<1>14. b \in Seq(TasksOf(M)) /\ b \in Seq(TasksOf(Said)) /\ b = <<t>> BY <1>13
<1> HIDE DEF t, b, w
<1>15. \A d \in Clients : Posted(b, d) = <<news>>
  <2>1. <<>> \in Seq(TasksOf(Said)) OBVIOUS
  <2>2. t \in TasksOf(Said) /\ t.msg = news /\ t.to = Clients BY <1>13 DEF t
  <2> QED BY <1>14, <2>1, <2>2, PostedFacts
<1> DEFINE p == w \o b
<1>16. p \in Seq(TasksOf(M)) BY <1>12, <1>14, ConcatProperties
<1>17. w \in Seq(TasksOf(Said)) /\ p \in Seq(TasksOf(Said)) BY <1>12, <1>13, <1>16, SeqMonotonic
<1>18. posted' = posted \o p
  <2>1. posted \in Seq(TasksOf(Said))
    <3>1. Known \subseteq Said BY KnownKinds DEF TypeInv
    <3>2. TasksOf(Known) \subseteq TasksOf(Said) BY <3>1, TasksAre
    <3> QED BY <3>2, SeqMonotonic DEF TypeInv
  <2>2. (posted \o w) \o b = posted \o (w \o b)
    <3>1. InARow(posted, w, b) BY <1>14, <1>17, <2>1, Associative
    <3> QED BY <3>1 DEF InARow
  <2> QED BY <1>1, <2>2
<1>19. ASSUME NEW d \in Clients
       PROVE  Posted(p, d) = IF d = c THEN welcome \o <<news>> ELSE <<news>>
  <2>1. Posted(p, d) = Posted(w, d) \o Posted(b, d) BY <1>14, <1>17, PostedFacts
  <2>2. <<>> \o <<news>> = <<news>>
    <3> DEFINE n == <<news>>
    <3>1. n \in Seq(M) BY <1>11
    <3> HIDE DEF n
    <3>2. <<>> \o n = n BY <3>1, ConcatEmptySeq
    <3> QED BY <3>2 DEF n
  <2> QED BY <1>12, <1>15, <2>1, <2>2
<1>20. welcome \in Seq(Said) BY <1>10, <1>11, SeqMonotonic
<1> QED BY <1>1, <1>2, <1>7, <1>16, <1>17, <1>18, <1>19, <1>20
           DEF IntroSays, M, p, w, b, t, told, news, welcome

\* A client that introduces itself.
LEMMA IntroBase ==
    ASSUME Base, NEW c \in Clients, OnInitialConnection(c)
    PROVE  Base'
<1> USE DEF Base
<1>1. /\ peer[c] = "reading" /\ up[c] # <<>> /\ up' = [up EXCEPT ![c] = Tail(up[c])]
      /\ peer' = IF c \in live THEN peer ELSE [peer EXCEPT ![c] = "done"]
      /\ names' = [names EXCEPT ![c] = name[c]]
      /\ before' = [before EXCEPT ![c] = IF link[c] = "up" THEN TextsComing(c) ELSE 0]
      /\ UNCHANGED <<fanout, db, kills, name, link, messages, usersMap, typed, seen, unstored>>
  BY DEF OnInitialConnection, Received, Introduced
<1>2. PICK color \in ColorsFor(users, name[c]), history \in History(c) :
        IntroOf(c, color, history.rows) /\ cut' \subseteq cut \cup {c}
  BY DEF OnInitialConnection, IntroOf
<1>3. db' = db /\ unstored' = unstored /\ RowsOf(history.rows) BY <1>1, HistoryFacts
<1> DEFINE welcome == history.rows \o KnownStatuses(users')
           news    == UserStatus(users', name[c])
           p       == [k \in DOMAIN welcome |-> WriteTask(c, welcome[k])] \o <<BroadcastTask(news)>>
<1>4. /\ IsMap(users') /\ DOMAIN users' = DOMAIN users \cup {name[c]} /\ Handled' = Handled
      /\ posted' = posted \o p /\ p \in Seq(TasksOf(Known'))
  <2> DEFINE rows == history.rows
  <2>1. RowsOf(rows) /\ IntroOf(c, color, rows) BY <1>2, <1>3
  <2> HIDE DEF rows
  <2>2. IntroSays(c, color, rows) BY <1>3, <2>1, IntroFacts
  <2> QED BY <1>3, <2>2 DEF IntroSays, rows, Handled
<1> HIDE DEF p
<1>5. /\ coming \in [Clients -> Seq(Known' \cup {Lost})] /\ posted \in Seq(TasksOf(Known'))
      /\ \A d \in Clients : link[d] = "up" => coming[d] \in Seq(Known')
  BY <1>3, <1>4, KnownGrows
<1>6. posted' \in Seq(TasksOf(Known')) BY <1>4, <1>5, ConcatProperties
<1>7. up' \in [Clients -> Seq(Nat)]
  <2>1. up[c] \in Seq(Nat) BY DEF TypeInv
  <2>2. Tail(up[c]) \in Seq(Nat) BY <1>1, <2>1, HeadTailProperties
  <2> QED BY <1>1, <2>2 DEF TypeInv
<1>8. link[c] = "up" => TextsComing(c) \in Nat
  <2> SUFFICES ASSUME link[c] = "up" PROVE TextsComing(c) \in Nat
    OBVIOUS
  <2>1. messages[c] \in Seq(Texts) /\ coming[c] \in Seq(Known) /\ posted \in Seq(TasksOf(Known))
    BY DEF TypeInv, LinkInv
  <2>2. TextsOf(coming[c]) \in Seq(AnyText) BY <2>1, TextsOfFacts
  <2> DEFINE G == [to: {{c}, Clients}, msg: AnyText]
             f == Filter(posted, G)
             S == TasksOf(Known)
  <2>3. TextsComing(c) = Len(messages[c]) + Len(TextsOf(coming[c])) + Len(f) BY DEF TextsComing
  <2>4. posted \in Seq(S) BY <2>1
  <2> HIDE DEF S, G
  <2>5. f \in Seq(S \cap G) BY <2>4, FilterType
  <2>6. Len(f) \in Nat BY <2>5, LenProperties
  <2> DEFINE i == Len(messages[c])
             j == Len(TextsOf(coming[c]))
             k == Len(f)
  <2>7. i \in Nat /\ j \in Nat BY <2>1, <2>2, LenProperties
  <2>8. k \in Nat /\ TextsComing(c) = i + j + k BY <2>3, <2>6
  <2> HIDE DEF i, j, k
  <2> QED BY <2>7, <2>8
<1>9. before' \in [Clients -> Nat] BY <1>1, <1>8 DEF TypeInv
<1>10. names' \in [Clients -> Users \cup {NoName}] BY <1>1 DEF TypeInv
<1>11. peer' \in [Clients -> {"none", "reading", "done"}] BY <1>1 DEF TypeInv
<1>12. TypeInv'
  BY <1>1, <1>2, <1>3, <1>4, <1>5, <1>6, <1>7, <1>9, <1>10, <1>11 DEF TypeInv, fanout, IsMap
<1>13. name[c] \in Users /\ name[c] # NoName BY NamesAssumption DEF TypeInv
<1>14. LinkInv' BY <1>1, <1>4, <1>5, <1>13 DEF TypeInv, LinkInv, fanout
<1> QED BY <1>12, <1>14

\* A text that is taken in and broadcast (data_manager.cpp:95-105).
LEMMA NewMessageFacts ==
    ASSUME Base, NEW c \in Clients, NEW n \in Serials, addMessageEntry(Text(n, names[c])),
           users' = users
    PROVE  LET m == Text(n, names[c])
               p == <<BroadcastTask(m)>>
           IN  /\ m \in Texts /\ m.n = n /\ m.from = names[c] /\ TakenIn(m)
               /\ p \in Seq(TasksOf(Known')) /\ p \in Seq(TasksOf(Said))
               /\ Append(posted, BroadcastTask(m)) = posted \o p
               /\ \A d \in Clients : Posted(p, d) = <<m>>
<1> USE DEF Base
<1> DEFINE m == Text(n, names[c])
           t == BroadcastTask(m)
           p == <<t>>
<1>1. m \in Texts /\ m.n = n /\ m.from = names[c] BY DEF TypeInv, Text, Texts
<1>2. TakenIn(m)
  <2>1. addMessageEntry(m) OBVIOUS
  <2> HIDE DEF m
  <2> QED BY <1>1, <2>1, EntryFacts DEF TypeInv
<1> HIDE DEF m
<1>3. m \in Known' /\ m \in Said BY <1>1, <1>2 DEF Known, Said, TakenIn
<1>4. t \in TasksOf(Known') /\ t \in TasksOf(Said) /\ t.msg = m /\ t.to = Clients
  BY <1>3, TasksAre
<1> HIDE DEF t
<1>5. p \in Seq(TasksOf(Known')) /\ p \in Seq(TasksOf(Said)) BY <1>4
<1>6. \A d \in Clients : Posted(p, d) = <<m>>
  <2>1. <<>> \in Seq(TasksOf(Said)) OBVIOUS
  <2> QED BY <1>4, <2>1, PostedFacts
<1>7. Append(posted, t) = posted \o p
  <2>1. posted \in Seq(TasksOf(Known')) BY <1>2, KnownGrows DEF TakenIn
  <2> QED BY <1>4, <2>1, AppendIsConcat
<1> QED BY <1>1, <1>2, <1>5, <1>6, <1>7 DEF m, t

\* A text is taken in and posted to everyone (data_manager.cpp:87-106).
LEMMA NewMessageBase ==
    ASSUME Base, NEW c \in Clients, OnNewMessage(c)
    PROVE  Base'
<1> USE DEF Base
<1>1. PICK n \in Serials :
        /\ peer[c] = "reading" /\ up[c] # <<>> /\ up' = [up EXCEPT ![c] = Tail(up[c])]
        /\ peer' = IF c \in live THEN peer ELSE [peer EXCEPT ![c] = "done"]
        /\ addMessageEntry(Text(n, names[c]))
        /\ posted' = Append(posted, BroadcastTask(Text(n, names[c])))
        /\ UNCHANGED <<fanout, users, names, kills, name, link, messages,
                       usersMap, typed, before, seen, cut>>
  BY DEF OnNewMessage, Received
<1> DEFINE m == Text(n, names[c])
           p == <<BroadcastTask(m)>>
<1>2. /\ m \in Texts /\ TakenIn(m) /\ p \in Seq(TasksOf(Known'))
      /\ Append(posted, BroadcastTask(m)) = posted \o p
  BY <1>1, NewMessageFacts
<1>3. posted' = posted \o p BY <1>1, <1>2
<1> HIDE DEF p, m
<1>4. /\ coming \in [Clients -> Seq(Known' \cup {Lost})] /\ posted \in Seq(TasksOf(Known'))
      /\ \A d \in Clients : link[d] = "up" => coming[d] \in Seq(Known')
  BY <1>1, <1>2, KnownGrows DEF TakenIn
<1>5. posted' \in Seq(TasksOf(Known')) BY <1>2, <1>3, <1>4, ConcatProperties
<1>6. up' \in [Clients -> Seq(Nat)]
  <2>1. up[c] \in Seq(Nat) BY DEF TypeInv
  <2>2. Tail(up[c]) \in Seq(Nat) BY <1>1, <2>1, HeadTailProperties
  <2> QED BY <1>1, <2>2 DEF TypeInv
<1>7. peer' \in [Clients -> {"none", "reading", "done"}] BY <1>1 DEF TypeInv
<1>8. TypeInv' BY <1>1, <1>2, <1>4, <1>5, <1>6, <1>7 DEF TypeInv, TakenIn, fanout, IsMap
<1>9. LinkInv' BY <1>1, <1>4 DEF TypeInv, LinkInv, fanout
<1> QED BY <1>8, <1>9

\* Every step keeps the types and what holds of the connections.
LEMMA BaseStep == Base /\ [Next]_vars => Base'
<1> SUFFICES ASSUME Base, [Next]_vars PROVE Base'
  OBVIOUS
<1>1. CASE UNCHANGED vars
  <2>1. Known' = Known
    BY <1>1 DEF vars, server, ghosts, losses, Known, Handled, KnownPeople
  <2> QED BY <1>1, <2>1 DEF vars, fanout, connection, server, client, ghosts, losses, Base, TypeInv, LinkInv, IsMap
<1>2. CASE Next
  BY <1>2, ConnectBase, TypeBase, DeliverBase, BreakBase, AcceptBase, RunTaskBase, LostBase,
     KillBase, IntroBase, NewMessageBase DEF Next, Handle
<1> QED BY <1>1, <1>2

(***************************************************************************)
(* Who typed what.                                                         *)
(***************************************************************************)

\* What was typed stays as it was, and what was on its way with it.
LEMMA TypedGrows ==
    ASSUME Base, NEW r \in Seq([by: Clients, early: BOOLEAN]), typed' = typed \o r
    PROVE  /\ Len(typed) \in Nat /\ Len(typed') = Len(typed) + Len(r) /\ Len(r) \in Nat
           /\ \A k \in 1..Len(typed) : k \in 1..Len(typed') /\ typed'[k] = typed[k]
           /\ \A k \in 1..Len(r) : Len(typed) + k \in 1..Len(typed') /\ typed'[Len(typed) + k] = r[k]
           /\ \A d \in Clients :
                 SourceOf(d) /\ up'[d] = up[d] /\ names'[d] = names[d] /\ link'[d] = link[d] => SourceOf(d)'
           /\ TableInv /\ db' = db /\ unstored' = unstored /\ name' = name => TableInv'
<1> DEFINE R == [by: Clients, early: BOOLEAN]
           a == Len(typed)
           b == Len(r)
<1>1. typed \in Seq(R) /\ r \in Seq(R) BY DEF Base, TypeInv
<1> HIDE DEF R
<1>2. a \in Nat /\ b \in Nat /\ Len(typed') = a + b
      /\ \A k \in 1..(a + b) : typed'[k] = IF k <= a THEN typed[k] ELSE r[k - a]
  BY <1>1, LenProperties, ConcatProperties
<1> HIDE DEF a, b
<1>3. \A k \in 1..a : k \in 1..Len(typed') /\ typed'[k] = typed[k] BY <1>2
<1>4. ASSUME NEW k \in 1..b PROVE a + k \in 1..Len(typed') /\ typed'[a + k] = r[k]
  <2>1. a + k \in 1..(a + b) /\ ~(a + k <= a) /\ a + k - a = k BY <1>2
  <2> QED BY <1>2, <2>1
<1>5. \A d \in Clients :
         SourceOf(d) /\ up'[d] = up[d] /\ names'[d] = names[d] /\ link'[d] = link[d] => SourceOf(d)'
  <2> SUFFICES ASSUME NEW d \in Clients, SourceOf(d),
                      up'[d] = up[d], names'[d] = names[d], link'[d] = link[d]
               PROVE  SourceOf(d)'
    OBVIOUS
  <2>1. ASSUME NEW k \in 1..Len(up[d]), up[d][k] # Hello
        PROVE  /\ up[d][k] \in 1..Len(typed') /\ typed'[up[d][k]].by = d
               /\ names[d] # NoName \/ (\E j \in 1..k : up[d][j] = Hello) \/ typed'[up[d][k]].early
    <3>1. /\ up[d][k] \in 1..a /\ typed[up[d][k]].by = d
          /\ names[d] # NoName \/ (\E j \in 1..k : up[d][j] = Hello) \/ typed[up[d][k]].early
      BY <2>1 DEF SourceOf, a
    <3>2. up[d][k] \in 1..Len(typed') /\ typed'[up[d][k]] = typed[up[d][k]] BY <1>3, <3>1
    <3> QED BY <3>1, <3>2
  <2> QED BY <2>1 DEF SourceOf
<1>6. TableInv /\ db' = db /\ unstored' = unstored /\ name' = name => TableInv'
  BY <1>3 DEF TableInv, Handled, a
<1> QED BY <1>2, <1>3, <1>4, <1>5, <1>6 DEF a, b

\* A client that connects: what was typed before is early.
LEMMA ConnectSource ==
    ASSUME Base, SourceInv, TableInv, NEW c \in Clients, Connect(c)
    PROVE  SourceInv' /\ TableInv'
<1> DEFINE R == [by: Clients, early: BOOLEAN]
<1>1. /\ link[c] = "none" /\ link' = [link EXCEPT ![c] = "up"]
      /\ UNCHANGED <<fanout, connection, server, kills, name, messages, usersMap, before, seen, losses>>
  BY DEF Connect
<1>2. PICK n \in 0..(MaxTexts - Len(typed)) :
        /\ typed' = typed \o [k \in 1..n |-> [by |-> c, early |-> TRUE]]
        /\ up' = [up EXCEPT ![c] = Append([k \in 1..n |-> Len(typed) + k], Hello)]
  BY DEF Connect
<1> DEFINE e == [k \in 1..n |-> Len(typed) + k]
           r == [k \in 1..n |-> [by |-> c, early |-> TRUE]]
           a == Len(typed)
           q == Append(e, Hello)
<1>3. a \in Nat /\ n \in Nat
  <2>1. a \in Nat BY LenProperties DEF Base, TypeInv
  <2> QED BY <2>1, ChatBounds
<1>4. e \in [1..n -> Nat] /\ r \in [1..n -> R] BY <1>3
<1>5. \A k \in 1..n : e[k] = a + k /\ r[k].by = c /\ r[k].early OBVIOUS
<1>6. typed' = typed \o r /\ up' = [up EXCEPT ![c] = q] BY <1>2
<1> HIDE DEF e, r, R
<1>7. e \in Seq(Nat) /\ Len(e) = n /\ r \in Seq(R) /\ Len(r) = n BY <1>3, <1>4, FunctionSeq
<1>8. /\ \A k \in 1..n : a + k \in 1..Len(typed') /\ typed'[a + k] = r[k]
      /\ \A d \in Clients :
            SourceOf(d) /\ up'[d] = up[d] /\ names'[d] = names[d] /\ link'[d] = link[d] => SourceOf(d)'
      /\ TableInv /\ db' = db /\ unstored' = unstored /\ name' = name => TableInv'
  <2>1. r \in Seq([by: Clients, early: BOOLEAN]) BY <1>7 DEF R
  <2> QED BY <1>6, <1>7, <2>1, TypedGrows
<1>9. Len(q) = n + 1 /\ q[n + 1] = Hello /\ \A k \in 1..n : q[k] = a + k
  <2>1. Hello \in Nat BY DEF Hello
  <2>2. Len(q) = Len(e) + 1 /\ q[Len(e) + 1] = Hello /\ \A k \in 1..Len(e) : q[k] = e[k]
    BY <1>7, <2>1, AppendProperties
  <2> QED BY <1>5, <1>7, <2>2
<1> HIDE DEF q, a
<1>10. /\ up'[c] = q /\ names'[c] = NoName /\ link'[c] = "up"
       /\ \A d \in Clients : d # c => up'[d] = up[d] /\ link'[d] = link[d]
       /\ names' = names /\ db' = db /\ unstored' = unstored /\ name' = name
  <2>1. names[c] = NoName BY <1>1 DEF Base, LinkInv
  <2> QED BY <1>1, <1>6, <2>1 DEF Base, TypeInv, server, losses
<1>11. \A k \in 1..n : q[k] # Hello /\ q[k] \in 1..Len(typed')
                       /\ typed'[q[k]].by = c /\ typed'[q[k]].early
  <2> SUFFICES ASSUME NEW k \in 1..n
               PROVE  q[k] # Hello /\ q[k] \in 1..Len(typed') /\ typed'[q[k]].by = c /\ typed'[q[k]].early
    OBVIOUS
  <2>1. a + k # Hello BY <1>3 DEF Hello
  <2>2. q[k] = a + k BY <1>9
  <2>3. a + k \in 1..Len(typed') /\ typed'[a + k] = r[k] BY <1>8
  <2>4. r[k].by = c /\ r[k].early BY <1>5
  <2> QED BY <2>1, <2>2, <2>3, <2>4, Zenon
<1>12. \A k \in 1..Len(q) : k \in 1..n \/ k = n + 1 BY <1>3, <1>9
<1>13. n + 1 \in 1..Len(q) BY <1>3, <1>9
<1>14. SourceOf(c)' BY <1>9, <1>10, <1>11, <1>12, <1>13 DEF SourceOf
<1>15. \A d \in Clients : d # c => SourceOf(d)' BY <1>8, <1>10 DEF SourceInv
<1> QED BY <1>8, <1>10, <1>14, <1>15 DEF SourceInv

\* A text that is typed follows the introduction.
LEMMA TypeSource ==
    ASSUME Base, SourceInv, TableInv, NEW c \in Clients, Type(c)
    PROVE  SourceInv' /\ TableInv'
<1> DEFINE R == [by: Clients, early: BOOLEAN]
           t == [by |-> c, early |-> FALSE]
           r == <<t>>
           a == Len(typed)
           n == Len(up[c])
           q == Append(up[c], a + 1)
<1>1. /\ link[c] = "up" /\ typed' = Append(typed, t) /\ up' = [up EXCEPT ![c] = q]
      /\ UNCHANGED <<fanout, connection, server, kills, name, link, messages, usersMap,
                     before, seen, losses>>
  BY DEF Type
<1>2. t \in R /\ t.by = c OBVIOUS
<1>3. typed \in Seq(R) /\ up[c] \in Seq(Nat) BY DEF Base, TypeInv
<1>4. a \in Nat /\ n \in Nat BY <1>3, LenProperties
<1> HIDE DEF R, t
<1>5. r \in Seq(R) /\ Len(r) = 1 /\ r[1] = t BY <1>2
<1>6. typed' = typed \o r BY <1>1, <1>2, <1>3, AppendIsConcat
<1> HIDE DEF r
<1>7. /\ a + 1 \in 1..Len(typed') /\ typed'[a + 1] = t
      /\ \A k \in 1..a : k \in 1..Len(typed') /\ typed'[k] = typed[k]
      /\ \A d \in Clients :
            SourceOf(d) /\ up'[d] = up[d] /\ names'[d] = names[d] /\ link'[d] = link[d] => SourceOf(d)'
      /\ TableInv /\ db' = db /\ unstored' = unstored /\ name' = name => TableInv'
  <2>1. r \in Seq([by: Clients, early: BOOLEAN]) BY <1>5 DEF R
  <2>2. 1 \in 1..Len(r) BY <1>5
  <2> QED BY <1>5, <1>6, <2>1, <2>2, TypedGrows
<1>8. Len(q) = n + 1 /\ q[n + 1] = a + 1 /\ \A k \in 1..n : q[k] = up[c][k]
  <2>1. a + 1 \in Nat BY <1>4
  <2> QED BY <1>3, <2>1, AppendProperties
<1>9. a + 1 # Hello BY <1>4 DEF Hello
<1> HIDE DEF a, q
<1>10. up'[c] = q /\ (\A d \in Clients : d # c => up'[d] = up[d])
       /\ names' = names /\ link' = link /\ db' = db /\ unstored' = unstored /\ name' = name
  BY <1>1 DEF Base, TypeInv, server, losses
<1>11. SourceOf(c) BY DEF SourceInv
<1>12. \A k \in 1..Len(q) : k \in 1..n \/ k = n + 1 BY <1>4, <1>8
<1>13. \A k \in 1..n : k \in 1..Len(q) /\ \A j \in 1..k : j \in 1..n BY <1>4, <1>8
<1>14. \A k \in 1..n : q[k] # Hello =>
          /\ q[k] \in 1..Len(typed') /\ typed'[q[k]].by = c
          /\ names[c] # NoName \/ (\E j \in 1..k : q[j] = Hello) \/ typed'[q[k]].early
  <2> SUFFICES ASSUME NEW k \in 1..n, q[k] # Hello
               PROVE  /\ q[k] \in 1..Len(typed') /\ typed'[q[k]].by = c
                      /\ names[c] # NoName \/ (\E j \in 1..k : q[j] = Hello) \/ typed'[q[k]].early
    OBVIOUS
  <2>1. q[k] = up[c][k] /\ \A j \in 1..k : q[j] = up[c][j] BY <1>8, <1>13
  <2>2. /\ q[k] \in 1..a /\ typed[q[k]].by = c
        /\ names[c] # NoName \/ (\E j \in 1..k : up[c][j] = Hello) \/ typed[q[k]].early
    BY <1>11, <2>1 DEF SourceOf, a
  <2>3. q[k] \in 1..Len(typed') /\ typed'[q[k]] = typed[q[k]] BY <1>7, <2>2
  <2> QED BY <2>1, <2>2, <2>3
<1>15. names[c] # NoName \/ \E j \in 1..n : q[j] = Hello BY <1>1, <1>8, <1>11 DEF SourceOf
<1>16. \A j \in 1..n : j \in 1..(n + 1) BY <1>4
<1>17. SourceOf(c)'
  <2>1. \A k \in 1..Len(q) : q[k] # Hello =>
          /\ q[k] \in 1..Len(typed') /\ typed'[q[k]].by = c
          /\ names[c] # NoName \/ (\E j \in 1..k : q[j] = Hello) \/ typed'[q[k]].early
    BY <1>2, <1>7, <1>8, <1>12, <1>14, <1>15, <1>16
  <2>2. names[c] # NoName => \A k \in 1..Len(q) : q[k] # Hello
    BY <1>8, <1>9, <1>11, <1>12 DEF SourceOf
  <2>3. ASSUME NEW j \in 1..Len(q), NEW k \in 1..Len(q), q[j] = Hello, q[k] = Hello
        PROVE  j = k
    <3>1. \A x, y \in 1..Len(up[c]) : up[c][x] = Hello /\ up[c][y] = Hello => x = y
      BY <1>11 DEF SourceOf
    <3> QED BY <1>8, <1>9, <1>12, <2>3, <3>1
  <2>4. names[c] # NoName \/ \E k \in 1..Len(q) : q[k] = Hello BY <1>13, <1>15
  <2> QED BY <1>10, <2>1, <2>2, <2>3, <2>4 DEF SourceOf
<1>18. \A d \in Clients : d # c => SourceOf(d)' BY <1>7, <1>10 DEF SourceInv
<1> QED BY <1>7, <1>10, <1>17, <1>18 DEF SourceInv

\* A connection that breaks: a beginning of the lines stays.
LEMMA BreakSource ==
    ASSUME Base, SourceInv, TableInv, NEW c \in Clients, Break(c)
    PROVE  SourceInv' /\ TableInv'
<1>1. /\ link' = [link EXCEPT ![c] = "down"]
      /\ UNCHANGED <<live, connection, server, kills, name, typed, seen, unstored>>
  BY DEF Break
<1>2. PICK n \in 0..Len(up[c]) : up' = [up EXCEPT ![c] = SubSeq(up[c], 1, n)]
  BY DEF Break
<1> DEFINE q == SubSeq(up[c], 1, n)
<1>3. up[c] \in Seq(Nat) /\ Len(up[c]) \in Nat BY LenProperties DEF Base, TypeInv
<1>4. Len(q) = n /\ \A k \in 1..n : q[k] = up[c][k] BY <1>3, FirstPart
<1> HIDE DEF q
<1>5. up'[c] = q /\ (\A d \in Clients : d # c => up'[d] = up[d] /\ link'[d] = link[d])
       /\ names' = names /\ link'[c] = "down" /\ db' = db /\ unstored' = unstored
       /\ name' = name /\ typed' = typed
  BY <1>1, <1>2 DEF Base, TypeInv, server, q
<1>6. \A k \in 1..n : k \in 1..Len(up[c]) /\ \A j \in 1..k : j \in 1..n BY <1>3
<1>7. SourceOf(c)'
  <2>1. SourceOf(c) BY DEF SourceInv
  <2>2. Len(q) = n /\ (\A k \in 1..n : q[k] = up[c][k] /\ k \in 1..Len(up[c])) BY <1>4, <1>6
  <2>3. \A k \in 1..n : q[k] # Hello =>
          /\ q[k] \in 1..Len(typed) /\ typed[q[k]].by = c
          /\ names[c] # NoName \/ (\E j \in 1..k : q[j] = Hello) \/ typed[q[k]].early
    <3> SUFFICES ASSUME NEW k \in 1..n, q[k] # Hello
                 PROVE  /\ q[k] \in 1..Len(typed) /\ typed[q[k]].by = c
                        /\ names[c] # NoName \/ (\E j \in 1..k : q[j] = Hello) \/ typed[q[k]].early
      OBVIOUS
    <3>1. /\ q[k] \in 1..Len(typed) /\ typed[q[k]].by = c
          /\ names[c] # NoName \/ (\E j \in 1..k : up[c][j] = Hello) \/ typed[q[k]].early
      BY <2>1, <2>2 DEF SourceOf
    <3>2. \A j \in 1..k : q[j] = up[c][j] BY <1>6, <2>2
    <3> QED BY <3>1, <3>2
  <2>4. names[c] # NoName => \A k \in 1..n : q[k] # Hello BY <2>1, <2>2 DEF SourceOf
  <2>5. \A j, k \in 1..n : q[j] = Hello /\ q[k] = Hello => j = k BY <2>1, <2>2 DEF SourceOf
  <2> QED BY <1>5, <2>2, <2>3, <2>4, <2>5 DEF SourceOf
<1>8. ASSUME NEW d \in Clients, d # c PROVE SourceOf(d)'
  <2>1. SourceOf(d) BY DEF SourceInv
  <2>2. up'[d] = up[d] /\ names' = names /\ link'[d] = link[d] /\ typed' = typed BY <1>5, <1>8
  <2> QED BY <2>1, <2>2 DEF SourceOf
<1>9. TableInv' BY <1>5 DEF TableInv, Handled
<1> QED BY <1>7, <1>8, <1>9 DEF SourceInv

\* The introduction is read: it was the only one.
LEMMA IntroSource ==
    ASSUME Base, SourceInv, TableInv, NEW c \in Clients, OnInitialConnection(c)
    PROVE  SourceInv' /\ TableInv'
<1> DEFINE q == Tail(up[c])
<1>1. /\ up[c] # <<>> /\ Head(up[c]) = Hello /\ up' = [up EXCEPT ![c] = q]
      /\ names' = [names EXCEPT ![c] = name[c]]
      /\ UNCHANGED <<fanout, db, kills, name, link, messages, usersMap, typed, seen, unstored>>
  BY DEF OnInitialConnection, Received, Introduced
<1>2. up[c] \in Seq(Nat) /\ Len(up[c]) \in Nat BY LenProperties DEF Base, TypeInv
<1>3. Len(q) = Len(up[c]) - 1 /\ \A k \in 1..Len(q) : q[k] = up[c][k + 1]
  BY <1>1, <1>2, HeadTailProperties
<1>4. up[c][1] = Hello /\ Len(up[c]) > 0 BY <1>1, <1>2
<1> HIDE DEF q
<1>5. /\ up'[c] = q /\ names'[c] = name[c] /\ name[c] # NoName
      /\ \A d \in Clients : d # c => up'[d] = up[d] /\ names'[d] = names[d]
      /\ link' = link /\ db' = db /\ unstored' = unstored /\ name' = name /\ typed' = typed
  BY <1>1, NamesAssumption DEF Base, TypeInv
<1>6. \A k \in 1..Len(q) : k + 1 \in 1..Len(up[c]) /\ k + 1 # 1 BY <1>2, <1>3
<1>7. 1 \in 1..Len(up[c]) BY <1>2, <1>4
<1>8. SourceOf(c) BY DEF SourceInv
<1>9. ASSUME NEW k \in 1..Len(q) PROVE q[k] # Hello
  <2>1. q[k] = up[c][k + 1] /\ k + 1 \in 1..Len(up[c]) /\ k + 1 # 1 BY <1>3, <1>6
  <2>2. \A i, j \in 1..Len(up[c]) : up[c][i] = Hello /\ up[c][j] = Hello => i = j BY <1>8 DEF SourceOf
  <2> QED BY <1>4, <1>7, <2>1, <2>2
<1>10. \A k \in 1..Len(q) : q[k] \in 1..Len(typed) /\ typed[q[k]].by = c
  BY <1>3, <1>6, <1>8, <1>9 DEF SourceOf
<1>11. SourceOf(c)' BY <1>5, <1>9, <1>10 DEF SourceOf
<1>12. ASSUME NEW d \in Clients, d # c PROVE SourceOf(d)'
  <2>1. SourceOf(d) BY DEF SourceInv
  <2>2. up'[d] = up[d] /\ names'[d] = names[d] /\ link' = link /\ typed' = typed BY <1>5, <1>12
  <2> QED BY <2>1, <2>2 DEF SourceOf
<1>13. TableInv' BY <1>5 DEF TableInv, Handled
<1> QED BY <1>11, <1>12, <1>13 DEF SourceInv

\* A text is read and taken in: before the introduction it is an early one.
LEMMA NewMessageSource ==
    ASSUME Base, SourceInv, TableInv, NEW c \in Clients, OnNewMessage(c)
    PROVE  SourceInv' /\ TableInv'
<1> DEFINE q == Tail(up[c])
<1>1. PICK n \in Serials :
        /\ up[c] # <<>> /\ Head(up[c]) = n /\ up' = [up EXCEPT ![c] = q]
        /\ addMessageEntry(Text(n, names[c]))
        /\ UNCHANGED <<fanout, users, names, kills, name, link, messages,
                       usersMap, typed, before, seen, cut>>
  BY DEF OnNewMessage, Received
<1>2. up[c] \in Seq(Nat) /\ Len(up[c]) \in Nat BY LenProperties DEF Base, TypeInv
<1>3. Len(q) = Len(up[c]) - 1 /\ \A k \in 1..Len(q) : q[k] = up[c][k + 1]
  BY <1>1, <1>2, HeadTailProperties
<1>4. up[c][1] = n /\ Len(up[c]) > 0 BY <1>1, <1>2
<1>5. n # Hello BY ChatBounds DEF Serials, Hello
<1> HIDE DEF q
<1>6. /\ up'[c] = q /\ \A d \in Clients : d # c => up'[d] = up[d]
      /\ names' = names /\ link' = link /\ name' = name /\ typed' = typed
  BY <1>1 DEF Base, TypeInv
<1>7. \A k \in 1..Len(q) : k + 1 \in 1..Len(up[c]) BY <1>2, <1>3
<1>8. \A k \in 1..Len(q) : \A j \in 1..(k + 1) :
        j # 1 => j - 1 \in 1..k /\ j - 1 \in 1..Len(q) /\ (j - 1) + 1 = j
  BY <1>2, <1>3
<1>9. 1 \in 1..Len(up[c]) BY <1>2, <1>4
<1>10. SourceOf(c) BY DEF SourceInv
<1>11. ASSUME NEW k \in 1..Len(q), NEW j \in 1..(k + 1), up[c][j] = Hello
       PROVE  \E i \in 1..k : q[i] = Hello
  <2>1. j # 1 BY <1>4, <1>5, <1>11
  <2>2. j - 1 \in 1..k /\ j - 1 \in 1..Len(q) /\ (j - 1) + 1 = j BY <1>8, <2>1
  <2>3. q[j - 1] = Hello BY <1>3, <1>11, <2>2
  <2> QED BY <2>2, <2>3
<1>12. \A k \in 1..Len(q) : q[k] # Hello =>
          /\ q[k] \in 1..Len(typed) /\ typed[q[k]].by = c
          /\ names[c] # NoName \/ (\E j \in 1..k : q[j] = Hello) \/ typed[q[k]].early
  <2> SUFFICES ASSUME NEW k \in 1..Len(q), q[k] # Hello
               PROVE  /\ q[k] \in 1..Len(typed) /\ typed[q[k]].by = c
                      /\ names[c] # NoName \/ (\E j \in 1..k : q[j] = Hello) \/ typed[q[k]].early
    OBVIOUS
  <2>1. q[k] = up[c][k + 1] /\ k + 1 \in 1..Len(up[c]) BY <1>3, <1>7
  <2>2. /\ q[k] \in 1..Len(typed) /\ typed[q[k]].by = c
        /\ names[c] # NoName \/ (\E j \in 1..(k + 1) : up[c][j] = Hello) \/ typed[q[k]].early
    BY <1>10, <2>1 DEF SourceOf
  <2> QED BY <1>11, <2>2
<1>13. names[c] # NoName => \A k \in 1..Len(q) : q[k] # Hello
  BY <1>3, <1>7, <1>10 DEF SourceOf
<1>14. ASSUME NEW j \in 1..Len(q), NEW k \in 1..Len(q), q[j] = Hello, q[k] = Hello
       PROVE  j = k
  <2>1. /\ j + 1 \in 1..Len(up[c]) /\ up[c][j + 1] = Hello
        /\ k + 1 \in 1..Len(up[c]) /\ up[c][k + 1] = Hello
    BY <1>3, <1>7, <1>14
  <2>2. j + 1 = k + 1 BY <1>10, <2>1 DEF SourceOf
  <2> QED BY <2>2
<1>15. link[c] = "up" => names[c] # NoName \/ \E k \in 1..Len(q) : q[k] = Hello
  <2> SUFFICES ASSUME link[c] = "up", names[c] = NoName PROVE \E k \in 1..Len(q) : q[k] = Hello
    OBVIOUS
  <2>1. PICK j \in 1..Len(up[c]) : up[c][j] = Hello BY <1>10 DEF SourceOf
  <2>2. j # 1 BY <1>4, <1>5, <2>1
  <2>3. j - 1 \in 1..Len(q) /\ (j - 1) + 1 = j BY <1>2, <1>3, <2>2
  <2>4. q[j - 1] = Hello BY <1>3, <2>1, <2>3
  <2> QED BY <2>3, <2>4
<1>16. SourceOf(c)' BY <1>6, <1>12, <1>13, <1>14, <1>15 DEF SourceOf
<1>17. \A d \in Clients : d # c => SourceOf(d)' BY <1>6 DEF SourceInv, SourceOf
<1>18. TableInv'
  <2> DEFINE m == Text(n, names[c])
  <2>1. m \in Texts /\ m.n = n /\ m.from = names[c] BY DEF Base, TypeInv, Text, Texts
  <2>2. Handled' = Handled \cup {m}
    <3>1. addMessageEntry(m) BY <1>1
    <3> HIDE DEF m
    <3> QED BY <2>1, <3>1, EntryFacts DEF Base, TypeInv, TakenIn
  <2> HIDE DEF m
  <2>3. n \in 1..Len(typed) /\ typed[n].by = c
        /\ (names[c] # NoName \/ (\E j \in 1..1 : up[c][j] = Hello) \/ typed[n].early)
    BY <1>4, <1>5, <1>9, <1>10 DEF SourceOf
  <2>4. \A j \in 1..1 : j = 1 BY SMT
  <2>5. names[c] = name[c] \/ (names[c] = NoName /\ typed[n].early)
    BY <1>4, <1>5, <2>3, <2>4 DEF Base, LinkInv
  <2>6. TableInv /\ name' = name /\ typed' = typed BY <1>6
  <2> QED BY <2>1, <2>2, <2>3, <2>5, <2>6 DEF TableInv
<1> QED BY <1>16, <1>17, <1>18 DEF SourceInv

\* Every step keeps the sources of the texts; the inductive invariant of NamedByAuthor.
LEMMA SourceStep == Base /\ SourceInv /\ TableInv /\ [Next]_vars => SourceInv' /\ TableInv'
<1> SUFFICES ASSUME Base, SourceInv, TableInv, [Next]_vars PROVE SourceInv' /\ TableInv'
  OBVIOUS
<1>1. ASSUME UNCHANGED <<up, names, link, typed, db, unstored, name>> PROVE SourceInv' /\ TableInv'
  BY <1>1 DEF SourceInv, SourceOf, TableInv, Handled
<1>2. CASE UNCHANGED vars BY <1>1, <1>2 DEF vars, server, client, ghosts, losses
<1>3. ASSUME NEW c \in Clients, Deliver(c) \/ Accept(c) \/ ReadError(c) \/ WriteError(c)
      PROVE  SourceInv' /\ TableInv'
  <2>1. UNCHANGED <<up, names, link, typed, db, unstored, name>>
    BY <1>3 DEF Deliver, Accept, ReadError, WriteError, onDisconnect, server, client, ghosts, losses
  <2> QED BY <1>1, <2>1
<1>4. CASE RunTask
  <2>1. UNCHANGED <<up, names, link, typed, db, unstored, name>> BY <1>4 DEF RunTask, server, client, ghosts, losses
  <2> QED BY <1>1, <2>1
<1>5. CASE Kill
  <2>1. /\ up' = [c \in Clients |-> <<>>] /\ names' = [c \in Clients |-> NoName]
        /\ link' = [c \in Clients |-> IF link[c] = "none" THEN "none" ELSE "down"]
        /\ db' = db /\ UNCHANGED <<name, typed, seen, unstored>>
    BY <1>5 DEF Kill, Kept
  <2>2. \A c \in Clients : up'[c] = <<>> /\ names'[c] = NoName /\ link'[c] # "up"
    BY <2>1
  <2>3. Len(<<>>) = 0 /\ 1..0 = {} BY SMT
  <2>4. SourceInv' BY <2>2, <2>3 DEF SourceInv, SourceOf
  <2>5. TableInv' BY <2>1 DEF TableInv, Handled
  <2> QED BY <2>4, <2>5
<1> QED BY <1>2, <1>3, <1>4, <1>5, ConnectSource, TypeSource, BreakSource, IntroSource,
      NewMessageSource DEF Next, Handle

\* At the beginning no text is anywhere.
LEMMA SourceInit == Init => SourceInv /\ TableInv
<1> SUFFICES ASSUME Init PROVE SourceInv /\ TableInv
  OBVIOUS
<1>1. \A c \in Clients : up[c] = <<>> /\ names[c] = NoName /\ link[c] # "up"
  BY DEF Init
<1>2. Len(<<>>) = 0 /\ 1..0 = {} BY SMT
<1>3. Handled = {} BY DEF Init, Handled
<1> QED BY <1>1, <1>2, <1>3 DEF SourceInv, SourceOf, TableInv

\* A text is stored and sent under the name of the client it was typed at, and without a name
\* only when it was typed before that client was connected (data_manager.cpp:95-105,
\* tcp_client.h:147-153).
THEOREM NamedByAuthorHolds == Spec => []NamedByAuthor
<1>1. TableInv => NamedByAuthor BY DEF TableInv, NamedByAuthor
<1> QED BY <1>1, BaseInit, BaseStep, SourceInit, SourceStep, PTL DEF Spec

\* The texts on the way to the server stay fresh when nothing new is taken in.
LEMMA FreshStays ==
    ASSUME FreshInv, UNCHANGED <<db, unstored>>, NEW c \in Clients,
           \A d \in Clients : d # c => up'[d] = up[d], FreshOf(c)'
    PROVE  FreshInv'
<1>1. Handled' = Handled BY DEF Handled
<1>2. ASSUME NEW d \in Clients PROVE FreshOf(d)'
  <2>1. CASE d = c BY <2>1
  <2>2. CASE d # c
    <3>1. up'[d] = up[d] BY <2>2
    <3> QED BY <1>1, <3>1 DEF FreshInv, FreshOf
  <2> QED BY <2>1, <2>2
<1> QED BY <1>2 DEF FreshInv

\* What is typed has a new number.
LEMMA ConnectFresh ==
    ASSUME Base, TableInv, FreshInv, NEW c \in Clients, Connect(c)
    PROVE  FreshInv'
<1>1. UNCHANGED <<db, unstored>> BY DEF Connect, server, losses
<1>2. PICK n \in 0..(MaxTexts - Len(typed)) :
        up' = [up EXCEPT ![c] = Append([k \in 1..n |-> Len(typed) + k], Hello)]
  BY DEF Connect
<1> DEFINE a == Len(typed)
           e == [k \in 1..n |-> a + k]
           q == Append(e, Hello)
<1>3. a \in Nat /\ n \in Nat
  <2>1. a \in Nat BY LenProperties DEF Base, TypeInv
  <2> QED BY <2>1, ChatBounds
<1>4. e \in [1..n -> Nat] /\ \A k \in 1..n : e[k] = a + k BY <1>3
<1>5. up'[c] = q /\ \A d \in Clients : d # c => up'[d] = up[d] BY <1>2 DEF Base, TypeInv
<1> HIDE DEF e
<1>6. e \in Seq(Nat) /\ Len(e) = n BY <1>3, <1>4, FunctionSeq
<1>7. Len(q) = n + 1 /\ q[n + 1] = Hello /\ \A k \in 1..n : q[k] = a + k
  <2>1. Hello \in Nat BY DEF Hello
  <2> QED BY <1>4, <1>6, <2>1, AppendProperties
<1>8. \A m \in Handled : m.n \in 1..a BY DEF TableInv
<1>9. Handled' = Handled BY <1>1 DEF Handled
<1> HIDE DEF q, a
<1>10. \A k \in 1..Len(q) : k \in 1..n \/ k = n + 1 BY <1>3, <1>7
<1>11. ASSUME NEW j \in 1..Len(q), NEW k \in 1..Len(q), q[j] = q[k] PROVE j = k
  BY <1>3, <1>7, <1>10, <1>11 DEF Hello
<1>12. ASSUME NEW k \in 1..Len(q), NEW m \in Handled PROVE m.n # q[k]
  BY <1>3, <1>7, <1>8, <1>10 DEF Hello
<1>13. FreshOf(c)' BY <1>5, <1>9, <1>11, <1>12 DEF FreshOf
<1> QED BY <1>1, <1>5, <1>13, FreshStays

LEMMA TypeFresh ==
    ASSUME Base, SourceInv, TableInv, FreshInv, NEW c \in Clients, Type(c)
    PROVE  FreshInv'
<1> DEFINE a == Len(typed)
           n == Len(up[c])
           q == Append(up[c], a + 1)
<1>1. UNCHANGED <<db, unstored>> BY DEF Type, server, losses
<1>2. up' = [up EXCEPT ![c] = q] BY DEF Type
<1>3. up[c] \in Seq(Nat) /\ a \in Nat /\ n \in Nat BY LenProperties DEF Base, TypeInv
<1>4. Len(q) = n + 1 /\ q[n + 1] = a + 1 /\ \A k \in 1..n : q[k] = up[c][k]
  <2>1. a + 1 \in Nat BY <1>3
  <2> QED BY <1>3, <2>1, AppendProperties
<1>5. up'[c] = q /\ \A d \in Clients : d # c => up'[d] = up[d] BY <1>2 DEF Base, TypeInv
<1>6. \A k \in 1..n : up[c][k] # a + 1
  <2>1. \A k \in 1..n : up[c][k] = Hello \/ up[c][k] \in 1..a BY DEF SourceInv, SourceOf
  <2> QED BY <1>3, <2>1 DEF Hello
<1>7. \A m \in Handled : m.n # a + 1
  <2>1. \A m \in Handled : m.n \in 1..a BY DEF TableInv
  <2> QED BY <1>3, <2>1
<1>8. Handled' = Handled BY <1>1 DEF Handled
<1>9. FreshOf(c) BY DEF FreshInv
<1> HIDE DEF q, a
<1>10. \A k \in 1..Len(q) : k \in 1..n \/ k = n + 1 BY <1>3, <1>4
<1>11. \A j, k \in 1..Len(q) : q[j] = q[k] => j = k BY <1>4, <1>6, <1>9, <1>10 DEF FreshOf
<1>12. \A k \in 1..Len(q) : \A m \in Handled : m.n # q[k] BY <1>4, <1>7, <1>9, <1>10 DEF FreshOf
<1>13. FreshOf(c)' BY <1>5, <1>8, <1>11, <1>12 DEF FreshOf
<1> QED BY <1>1, <1>5, <1>13, FreshStays

\* What is left of the lines on the way is fresh.
LEMMA LessFresh ==
    ASSUME FreshInv, UNCHANGED <<db, unstored>>, NEW c \in Clients, NEW q, NEW i \in Nat,
           Len(q) \in Nat, \A k \in 1..Len(q) : k + i \in 1..Len(up[c]) /\ q[k] = up[c][k + i],
           up'[c] = q, \A d \in Clients : d # c => up'[d] = up[d]
    PROVE  FreshInv'
<1>1. FreshOf(c) BY DEF FreshInv
<1>2. Handled' = Handled BY DEF Handled
<1>3. ASSUME NEW j \in 1..Len(q), NEW k \in 1..Len(q), q[j] = q[k] PROVE j = k
  <2>1. j + i = k + i BY <1>1, <1>3 DEF FreshOf
  <2> QED BY <2>1
<1>4. ASSUME NEW k \in 1..Len(q), NEW m \in Handled PROVE m.n # q[k]
  BY <1>1 DEF FreshOf
<1>5. FreshOf(c)' BY <1>2, <1>3, <1>4 DEF FreshOf
<1> QED BY <1>5, FreshStays

\* A text that is taken in is new to the server, and nobody sends it again.
LEMMA NewMessageFresh ==
    ASSUME Base, SourceInv, FreshInv, NEW c \in Clients, OnNewMessage(c)
    PROVE  FreshInv' /\ \A n \in Serials : n = Head(up[c]) => Text(n, names[c]) \notin Handled
<1> DEFINE q == Tail(up[c])
<1>1. PICK n \in Serials :
        /\ up[c] # <<>> /\ Head(up[c]) = n /\ up' = [up EXCEPT ![c] = q]
        /\ addMessageEntry(Text(n, names[c]))
  BY DEF OnNewMessage, Received
<1> DEFINE m == Text(n, names[c])
           l == Len(up[c])
<1>2. up[c] \in Seq(Nat) /\ l \in Nat BY LenProperties DEF Base, TypeInv
<1>3. Len(q) = l - 1 /\ (\A k \in 1..Len(q) : q[k] = up[c][k + 1]) /\ up[c][1] = n /\ 1 \in 1..l
  <2>1. Len(q) = l - 1 /\ \A k \in 1..Len(q) : q[k] = up[c][k + 1] BY <1>1, <1>2, HeadTailProperties
  <2>2. up[c][1] = n /\ l > 0 BY <1>1, <1>2
  <2> QED BY <1>2, <2>1, <2>2
<1>4. m \in Texts /\ m.n = n BY DEF Base, TypeInv, Text, Texts
<1>5. TakenIn(m)
  <2>1. addMessageEntry(m) BY <1>1
  <2> HIDE DEF m
  <2> QED BY <1>4, <2>1, EntryFacts DEF Base, TypeInv
<1>6. up'[c] = q /\ \A d \in Clients : d # c => up'[d] = up[d] BY <1>1 DEF Base, TypeInv
<1> HIDE DEF m, q
<1>7. FreshOf(c) /\ SourceOf(c) BY DEF FreshInv, SourceInv
<1>8. m \notin Handled BY <1>3, <1>4, <1>7 DEF FreshOf
<1>9. n # Hello BY ChatBounds DEF Serials, Hello
<1>10. \A k \in 1..Len(q) : k + 1 \in 1..l /\ k + 1 # 1 BY <1>2, <1>3
<1>11. Handled' = Handled \cup {m} BY <1>5 DEF TakenIn
<1>12. FreshOf(c)'
  <2>1. ASSUME NEW j \in 1..Len(q), NEW k \in 1..Len(q), q[j] = q[k] PROVE j = k
    <3>1. j + 1 = k + 1 BY <1>3, <1>7, <1>10, <2>1 DEF FreshOf
    <3> QED BY <3>1
  <2>2. ASSUME NEW k \in 1..Len(q) PROVE q[k] # n
    BY <1>3, <1>7, <1>10 DEF FreshOf
  <2>3. \A k \in 1..Len(q) : \A h \in Handled : h.n # q[k] BY <1>3, <1>7, <1>10 DEF FreshOf
  <2> QED BY <1>4, <1>6, <1>11, <2>1, <2>2, <2>3 DEF FreshOf
<1>13. ASSUME NEW d \in Clients, d # c PROVE FreshOf(d)'
  <2>1. FreshOf(d) /\ SourceOf(d) /\ up'[d] = up[d] BY <1>6, <1>13 DEF FreshInv, SourceInv
  <2>2. typed[n].by = c BY <1>3, <1>7, <1>9 DEF SourceOf
  <2>3. \A k \in 1..Len(up[d]) : up[d][k] # n BY <1>9, <1>13, <2>1, <2>2 DEF SourceOf
  <2> QED BY <1>4, <1>11, <2>1, <2>3 DEF FreshOf
<1>14. \A k \in 1..Len(db') : db'[k] \notin unstored'
  <2>1. db \in Seq(Texts) /\ unstored \subseteq Texts BY DEF Base, TypeInv
  <2>2. /\ \A k \in 1..Len(db) : db[k] \notin unstored /\ db[k] # m
        /\ m \notin unstored
    <3>1. \A k \in 1..Len(db) : db[k] \in Handled BY <2>1, KnownKinds
    <3>2. unstored \subseteq Handled BY DEF Handled
    <3> QED BY <1>8, <3>1, <3>2 DEF FreshInv
  <2>3. CASE db' = db /\ unstored' = unstored \cup {m} BY <2>2, <2>3
  <2>4. CASE db' = Append(db, m) /\ unstored' = unstored
    <3>1. Len(db') = Len(db) + 1 /\ db'[Len(db) + 1] = m /\ \A k \in 1..Len(db) : db'[k] = db[k]
      BY <1>4, <2>1, <2>4, AppendProperties
    <3>2. \A k \in 1..Len(db') : k \in 1..Len(db) \/ k = Len(db) + 1 BY <2>1, <3>1, LenProperties
    <3> QED BY <2>2, <2>4, <3>1, <3>2
  <2> QED BY <1>5, <2>3, <2>4 DEF TakenIn
<1>15. FreshInv' BY <1>12, <1>13, <1>14 DEF FreshInv
<1> QED BY <1>1, <1>8, <1>15 DEF m

\* Every step keeps the lines on the way to the server fresh.
LEMMA FreshStep == Base /\ SourceInv /\ TableInv /\ FreshInv /\ [Next]_vars => FreshInv'
<1> SUFFICES ASSUME Base, SourceInv, TableInv, FreshInv, [Next]_vars PROVE FreshInv'
  OBVIOUS
<1>1. ASSUME UNCHANGED <<up, db, unstored>> PROVE FreshInv'
  BY <1>1 DEF FreshInv, FreshOf, Handled
<1>2. CASE UNCHANGED vars BY <1>1, <1>2 DEF vars, server, client, ghosts, losses
<1>3. ASSUME NEW c \in Clients, Deliver(c) \/ Accept(c) \/ ReadError(c) \/ WriteError(c)
      PROVE  FreshInv'
  <2>1. UNCHANGED <<up, db, unstored>>
    BY <1>3 DEF Deliver, Accept, ReadError, WriteError, onDisconnect, server, client, ghosts, losses
  <2> QED BY <1>1, <2>1
<1>4. CASE RunTask
  <2>1. UNCHANGED <<up, db, unstored>> BY <1>4 DEF RunTask, server, client, ghosts, losses
  <2> QED BY <1>1, <2>1
<1>5. CASE Kill
  <2>1. up' = [c \in Clients |-> <<>>] /\ UNCHANGED <<db, unstored>> BY <1>5 DEF Kill, Kept
  <2>2. Len(<<>>) = 0 /\ 1..0 = {} BY SMT
  <2>3. \A c \in Clients : FreshOf(c)' BY <2>1, <2>2 DEF FreshOf
  <2> QED BY <2>1, <2>3 DEF FreshInv
<1>6. ASSUME NEW c \in Clients, Break(c) PROVE FreshInv'
  <2>1. UNCHANGED <<db, unstored>> BY <1>6 DEF Break, server
  <2>2. PICK n \in 0..Len(up[c]) : up' = [up EXCEPT ![c] = SubSeq(up[c], 1, n)] BY <1>6 DEF Break
  <2> DEFINE q == SubSeq(up[c], 1, n)
  <2>3. up[c] \in Seq(Nat) /\ Len(up[c]) \in Nat BY LenProperties DEF Base, TypeInv
  <2>4. Len(q) = n /\ \A k \in 1..n : q[k] = up[c][k] BY <2>3, FirstPart
  <2>5. up'[c] = q /\ \A d \in Clients : d # c => up'[d] = up[d] BY <2>2 DEF Base, TypeInv
  <2> HIDE DEF q
  <2>6. n \in Nat /\ 0 \in Nat /\ \A k \in 1..n : k + 0 \in 1..Len(up[c]) /\ q[k] = up[c][k + 0]
    BY <2>3, <2>4
  <2> QED BY <2>1, <2>4, <2>5, <2>6, LessFresh
<1>7. ASSUME NEW c \in Clients, OnInitialConnection(c) PROVE FreshInv'
  <2> DEFINE q == Tail(up[c])
  <2>1. UNCHANGED <<db, unstored>> /\ up[c] # <<>> /\ up' = [up EXCEPT ![c] = q]
    BY <1>7 DEF OnInitialConnection, Received
  <2>2. up[c] \in Seq(Nat) /\ Len(up[c]) \in Nat BY LenProperties DEF Base, TypeInv
  <2>3. Len(q) = Len(up[c]) - 1 /\ \A k \in 1..Len(q) : q[k] = up[c][k + 1]
    BY <2>1, <2>2, HeadTailProperties
  <2>4. up'[c] = q /\ \A d \in Clients : d # c => up'[d] = up[d] BY <2>1 DEF Base, TypeInv
  <2>5. Len(up[c]) > 0 BY <2>1, <2>2
  <2> HIDE DEF q
  <2>6. 1 \in Nat /\ Len(q) \in Nat
        /\ \A k \in 1..Len(q) : k + 1 \in 1..Len(up[c]) /\ q[k] = up[c][k + 1]
    BY <2>2, <2>3, <2>5
  <2> QED BY <2>1, <2>4, <2>6, LessFresh
<1> QED BY <1>2, <1>3, <1>4, <1>5, <1>6, <1>7, ConnectFresh, TypeFresh, NewMessageFresh
      DEF Next, Handle

\* At the beginning nothing is on its way.
LEMMA FreshInit == Init => FreshInv
<1> SUFFICES ASSUME Init PROVE FreshInv
  OBVIOUS
<1>1. \A c \in Clients : up[c] = <<>> BY DEF Init
<1>2. Len(<<>>) = 0 /\ 1..0 = {} BY SMT
<1> QED BY <1>1, <1>2 DEF Init, FreshInv, FreshOf

(***************************************************************************)
(* What anybody saw.                                                       *)
(***************************************************************************)

\* A client shows what the server took in.
LEMMA SeenStep == Base /\ SeenInv /\ [Next]_vars => SeenInv'
<1> SUFFICES ASSUME Base, SeenInv, [Next]_vars PROVE SeenInv'
  OBVIOUS
<1>1. ASSUME UNCHANGED <<seen, db, unstored>>,
             \A c \in Clients : messages'[c] = messages[c] \/ messages'[c] = <<>>,
             messages' = [c \in Clients |-> messages'[c]]
      PROVE  SeenInv'
  <2>1. Handled' = Handled BY <1>1 DEF Handled
  <2>2. \A c \in Clients : messages'[c] \in Seq(Handled)
    <3>1. <<>> \in Seq(Handled) OBVIOUS
    <3> QED BY <1>1, <3>1 DEF SeenInv
  <2>3. messages' \in [Clients -> Seq(Handled)] BY <1>1, <2>2
  <2> QED BY <1>1, <2>1, <2>3 DEF SeenInv
<1>2. ASSUME UNCHANGED <<seen, db, unstored, messages>> PROVE SeenInv'
  BY <1>2 DEF SeenInv, Handled
<1>3. CASE UNCHANGED vars BY <1>2, <1>3 DEF vars, server, client, ghosts, losses
<1>4. ASSUME NEW c \in Clients,
             Connect(c) \/ Type(c) \/ Accept(c) \/ ReadError(c) \/ WriteError(c)
             \/ OnInitialConnection(c)
      PROVE  SeenInv'
  <2>1. UNCHANGED <<seen, db, unstored, messages>>
    BY <1>4 DEF Connect, Type, Accept, ReadError, WriteError, onDisconnect, OnInitialConnection,
       server, client, ghosts, losses
  <2> QED BY <1>2, <2>1
<1>5. CASE RunTask BY <1>2, <1>5 DEF RunTask, server, client, ghosts, losses
<1>6. ASSUME NEW c \in Clients, Break(c) PROVE SeenInv'
  <2>1. /\ UNCHANGED <<seen, db, unstored>>
        /\ messages' = [d \in Clients |-> IF d \in {c} THEN <<>> ELSE messages[d]]
    BY <1>6 DEF Break, Forget, server
  <2> QED BY <1>1, <2>1
<1>7. CASE Kill
  <2>1. /\ UNCHANGED <<seen, db, unstored>>
        /\ messages' = [d \in Clients |-> IF d \in Clients THEN <<>> ELSE messages[d]]
    BY <1>7 DEF Kill, Kept, Forget
  <2> QED BY <1>1, <2>1
<1>8. ASSUME NEW c \in Clients, OnNewMessage(c) PROVE SeenInv'
  <2>1. PICK n \in Serials : addMessageEntry(Text(n, names[c])) /\ UNCHANGED <<seen, messages>>
    BY <1>8 DEF OnNewMessage
  <2>2. Text(n, names[c]) \in Texts BY DEF Base, TypeInv, Text, Texts
  <2>3. Handled \subseteq Handled' BY <2>1, <2>2, EntryFacts DEF Base, TypeInv, TakenIn
  <2>4. \A d \in Clients : messages[d] \in Seq(Handled') BY <2>3, SeqMonotonic DEF SeenInv
  <2>5. messages \in [Clients -> Seq(Handled')] BY <2>4 DEF SeenInv
  <2> QED BY <2>1, <2>3, <2>5 DEF SeenInv
<1>9. ASSUME NEW c \in Clients, Deliver(c) PROVE SeenInv'
  <2> DEFINE m == Head(coming[c])
  <2>1. /\ link[c] = "up" /\ coming[c] # <<>> /\ db' = db /\ unstored' = unstored
        /\ \/ /\ m.type = "text" /\ seen' = seen \cup {m}
              /\ messages' = [messages EXCEPT ![c] = Append(messages[c], m)]
           \/ seen' = seen /\ messages' = messages
    BY <1>9 DEF Deliver, server, losses
  <2>2. coming[c] \in Seq(Known) BY <2>1 DEF Base, LinkInv
  <2>3. m \in Known BY <2>1, <2>2, HeadTailProperties
  <2>4. m.type = "text" => m \in Handled BY <2>3, KnownKinds DEF Base, TypeInv
  <2>5. Handled' = Handled BY <2>1 DEF Handled
  <2> HIDE DEF m
  <2>6. m \in Handled => Append(messages[c], m) \in Seq(Handled)
    <3>1. messages[c] \in Seq(Handled) BY DEF SeenInv
    <3> QED BY <3>1, AppendProperties
  <2> QED BY <2>1, <2>4, <2>5, <2>6 DEF SeenInv
<1> QED BY <1>3, <1>4, <1>5, <1>6, <1>7, <1>8, <1>9 DEF Next, Handle

\* At the beginning nobody shows anything.
LEMMA SeenInit == Init => SeenInv
<1> SUFFICES ASSUME Init PROVE SeenInv
  OBVIOUS
<1>1. <<>> \in Seq(Handled) OBVIOUS
<1> QED BY <1>1 DEF Init, SeenInv

(***************************************************************************)
(* What the members have and get.                                          *)
(***************************************************************************)

\* What a member can still read is lines.
LEMMA MemberStream ==
    ASSUME Base, NEW c \in Clients, link[c] = "up"
    PROVE  /\ coming[c] \in Seq(Known) /\ coming[c] \in Seq(Said) /\ posted \in Seq(TasksOf(Said))
           /\ Posted(posted, c) \in Seq(Said) /\ Stream(c) \in Seq(Said)
           /\ Stream(c) = coming[c] \o Posted(posted, c)
           /\ messages[c] \in Seq(Texts) /\ db \in Seq(Texts)
<1>1. coming[c] \in Seq(Known) BY DEF Base, LinkInv
<1> QED BY <1>1, StreamTyped DEF Base, TypeInv

\* A step that tells nobody anything new.
LEMMA QuietAgreed ==
    ASSUME Agreed, Members' \subseteq Members, db' = db, unstored' = unstored, users' = users,
           \A c \in Members' : c \in cut => c \in cut',
           \A c \in Members' : /\ Stream(c)' = Stream(c) /\ messages'[c] = messages[c]
                               /\ before'[c] = before[c] /\ usersMap'[c] = usersMap[c],
           \A c \in Clients : DOMAIN usersMap'[c] \subseteq DOMAIN usersMap[c]
    PROVE  Agreed'
<1>1. ASSUME NEW c \in Present' PROVE LogOf(c)'
  <2>1. c \in Members' /\ c \in Present BY DEF Present
  <2>2. LogOf(c) BY <2>1 DEF Agreed, LogInv
  <2>3. PICK p, r \in Seq(Texts) :
          Len(p) = before[c] /\ messages[c] \o TextsOf(Stream(c)) = p \o r /\ IsLog(r)
    BY <2>2 DEF LogOf
  <2>4. messages'[c] \o TextsOf(Stream(c)') = p \o r /\ Len(p) = before'[c] BY <2>1, <2>3
  <2>5. IsLog(r)' BY <2>3 DEF IsLog, Handled, Storable
  <2> QED BY <2>4, <2>5 DEF LogOf
<1>2. ASSUME NEW c \in Members', NEW u \in DOMAIN users' PROVE Told(c, u)'
  <2>1. Told(c, u) BY DEF Agreed, ViewInv
  <2>2. /\ Stream(c)' = Stream(c) /\ usersMap'[c] = usersMap[c] /\ users' = users
    OBVIOUS
  <2> QED BY <2>1, <2>2 DEF Told, Shows
<1>3. \A c \in Clients : DOMAIN usersMap'[c] \subseteq DOMAIN users' \cup {NoName}
  BY DEF Agreed, ViewInv
<1> QED BY <1>1, <1>2, <1>3 DEF Agreed, LogInv, ViewInv

\* The texts t are taken in: the rows among them come to the end of the table.
Grows(t) ==
    /\ Handled \subseteq Handled' /\ t \in Seq(Handled')
    /\ Storable' \cap Handled = Storable \cap Handled /\ db' = db \o Filter(t, Storable')

\* Nothing is taken in.
LEMMA GrowsNot ==
    ASSUME db \in Seq(Texts), UNCHANGED <<db, unstored>>
    PROVE  Grows(<<>>)
<1>1. Handled' = Handled /\ Storable' = Storable BY DEF Handled, Storable
<1>2. Filter(<<>>, Storable') = <<>> /\ db \o <<>> = db BY FilterEmpty, ConcatEmptySeq
<1>3. <<>> \in Seq(Handled') OBVIOUS
<1> QED BY <1>1, <1>2, <1>3 DEF Grows

\* A text that is new is taken in.
LEMMA GrowsByOne ==
    ASSUME db \in Seq(Texts), unstored \subseteq Texts, NEW m \in Texts, addMessageEntry(m),
           m \notin Handled
    PROVE  Grows(<<m>>)
<1> DEFINE q == <<m>>
<1>1. TakenIn(m) BY EntryFacts
<1>2. Handled \subseteq Handled' /\ m \in Handled' BY <1>1 DEF TakenIn
<1>3. q \in Seq(Handled') /\ q \in Seq({m}) /\ q \in Seq(Texts) BY <1>2
<1>4. m \in AnyText /\ m \notin unstored BY LineKinds DEF Handled
<1>5. CASE db' = Append(db, m) /\ unstored' = unstored
  <2>1. Storable' = Storable /\ m \in Storable' BY <1>4, <1>5 DEF Storable
  <2>2. Filter(q, Storable') = q
    <3> HIDE DEF q
    <3> QED BY <1>3, <2>1, FilterPure
  <2>3. db' = db \o q BY <1>5, AppendIsConcat
  <2> QED BY <1>2, <1>3, <2>1, <2>2, <2>3 DEF Grows
<1>6. CASE db' = db /\ unstored' = unstored \cup {m}
  <2>1. Storable' = Storable \ {m} BY <1>6 DEF Storable
  <2>2. Filter(q, Storable') = <<>>
    <3> HIDE DEF q
    <3>1. {m} \cap Storable' = {} BY <2>1
    <3> QED BY <1>3, <3>1, FilterPure
  <2>3. db \o <<>> = db BY ConcatEmptySeq
  <2> QED BY <1>2, <1>3, <1>6, <2>1, <2>2, <2>3 DEF Grows
<1> QED BY <1>1, <1>5, <1>6 DEF TakenIn

\* The texts of a stream that goes on.
LEMMA LogExtended ==
    ASSUME Base, NEW c \in Clients, link[c] = "up", LogOf(c), NEW q \in Seq(Said),
           Stream(c)' = Stream(c) \o q, messages'[c] = messages[c], before'[c] = before[c],
           Grows(TextsOf(q))
    PROVE  LogOf(c)'
<1>1. PICK p, r \in Seq(Texts) :
        Len(p) = before[c] /\ messages[c] \o TextsOf(Stream(c)) = p \o r /\ IsLog(r)
  BY DEF LogOf
<1> DEFINE s == Stream(c)
           m == messages[c]
           a == TextsOf(s)
           t == TextsOf(q)
<1>2. s \in Seq(Said) /\ m \in Seq(Texts) /\ m \o a = p \o r BY <1>1, MemberStream
<1>3. messages'[c] = m /\ Stream(c)' = s \o q /\ Grows(t) OBVIOUS
<1> HIDE DEF s, m
<1>4. TextsOf(s \o q) = a \o t /\ AddsTo(Texts, a, t) /\ t \in Seq(Texts)
  <2>1. TextsSplit(s, q) BY <1>2, SaidExtended
  <2> QED BY <2>1 DEF TextsSplit
<1> HIDE DEF a, t
<1>5. m \o (a \o t) = p \o (r \o t) BY <1>1, <1>2, <1>4, Zenon DEF AddsTo
<1>6. r \o t \in Seq(Texts) BY <1>1, <1>4, ConcatProperties
<1>7. IsLog(r \o t)'
  <2>1. r \in Seq(Handled) /\ r \in Seq(Handled') BY <1>1, <1>3, SeqMonotonic DEF IsLog, Grows
  <2>2. r \o t \in Seq(Handled') BY <1>3, <2>1, ConcatProperties DEF Grows
  <2>3. Filter(r \o t, Storable') = Filter(r, Storable') \o Filter(t, Storable')
    <3> DEFINE H == Storable'
    <3> HIDE DEF H
    <3>1. Filter(r \o t, H) = Filter(r, H) \o Filter(t, H) BY <1>1, <1>4, FilterConcat
    <3> QED BY <3>1 DEF H
  <2>4. Filter(r, Storable') = Filter(r, Storable)
    <3>1. Handled \cap Storable' = Handled \cap Storable BY <1>3 DEF Grows
    <3> QED BY <2>1, <3>1, FilterSame
  <2>5. Filter(r \o t, Storable') = db' BY <1>1, <1>3, <2>3, <2>4 DEF IsLog, Grows
  <2> QED BY <2>2, <2>5 DEF IsLog
<1>8. messages'[c] \o TextsOf(Stream(c)') = p \o (r \o t) BY <1>3, <1>4, <1>5
<1> QED BY <1>1, <1>6, <1>7, <1>8 DEF LogOf

\* The status of a user, when a stream goes on.
LEMMA ToldExtended ==
    ASSUME Base, NEW c \in Clients, link[c] = "up", NEW q \in Seq(Said),
           Stream(c)' = Stream(c) \o q, usersMap'[c] = usersMap[c], NEW u,
           \/ Latest(q, u, UserStatus(users', u))
           \/ Silent(q, u) /\ users'[u] = users[u] /\ Told(c, u)
    PROVE  Told(c, u)'
<1> DEFINE s == Stream(c)
           x == UserStatus(users', u)
<1>1. s \in Seq(Said) BY MemberStream
<1>2. /\ Latest(s, u, x) /\ Silent(q, u) => Latest(s \o q, u, x)
      /\ Latest(q, u, x) => Latest(s \o q, u, x)
  <2> HIDE DEF s, x
  <2> QED BY <1>1, LatestAppended DEF Silent
<1>3. CASE Latest(q, u, x) BY <1>2, <1>3 DEF Told
<1>4. CASE Silent(q, u) /\ users'[u] = users[u] /\ Told(c, u)
  <2>1. x = UserStatus(users, u) BY <1>4 DEF UserStatus
  <2>2. CASE Latest(s, u, UserStatus(users, u)) BY <1>2, <1>4, <2>1, <2>2 DEF Told
  <2>3. CASE Silent(s, u) /\ Shows(c, u)
    <3>1. Silent(s \o q, u)
      <4> HIDE DEF s
      <4>1. /\ Len(s \o q) = Len(s) + Len(q) /\ Len(s) \in Nat /\ Len(q) \in Nat
            /\ \A k \in 1..(Len(s) + Len(q)) :
                  (s \o q)[k] = IF k <= Len(s) THEN s[k] ELSE q[k - Len(s)]
        BY <1>1, ConcatProperties, LenProperties
      <4>2. ASSUME NEW k \in 1..(Len(s) + Len(q)) PROVE ~About((s \o q)[k], u)
        <5>1. CASE k <= Len(s)
          <6>1. k \in 1..Len(s) /\ (s \o q)[k] = s[k] BY <4>1, <5>1
          <6> QED BY <2>3, <6>1 DEF Silent
        <5>2. CASE ~(k <= Len(s))
          <6>1. k - Len(s) \in 1..Len(q) /\ (s \o q)[k] = q[k - Len(s)] BY <4>1, <5>2
          <6> QED BY <1>4, <6>1 DEF Silent
        <5> QED BY <5>1, <5>2
      <4> QED BY <4>1, <4>2 DEF Silent
    <3>2. Shows(c, u)' BY <1>4, <2>3 DEF Shows
    <3> QED BY <3>1, <3>2 DEF Told
  <2> QED BY <1>4, <2>2, <2>3 DEF Told
<1> QED BY <1>3, <1>4

\* The first line of a stream is handled: it was the last about its user, or not.
LEMMA FrontTold ==
    ASSUME NEW m \in Said, NEW t \in Seq(Said), NEW u, NEW x
    PROVE  /\ Latest(<<m>> \o t, u, x) => Latest(t, u, x) \/ (m = x /\ About(m, u) /\ Silent(t, u))
           /\ Silent(<<m>> \o t, u) => Silent(t, u) /\ ~About(m, u)
<1> DEFINE s == <<m>> \o t
           n == Len(t)
           f == <<m>>
<1>1. f \in Seq(Said) /\ Len(f) = 1 /\ f[1] = m OBVIOUS
<1> HIDE DEF f
<1>2. n \in Nat /\ Len(s) = n + 1 /\ s[1] = m /\ \A k \in 1..n : s[k + 1] = t[k]
  <2>1. /\ Len(f \o t) = Len(f) + Len(t) /\ Len(t) \in Nat
        /\ \A k \in 1..(Len(f) + Len(t)) : (f \o t)[k] = IF k <= Len(f) THEN f[k] ELSE t[k - Len(f)]
    BY <1>1, ConcatProperties, LenProperties
  <2>2. s = f \o t BY DEF f
  <2> HIDE DEF s
  <2>3. \A k \in 1..n : k + 1 \in 1..(1 + n) /\ ~(k + 1 <= 1) /\ (k + 1) - 1 = k BY <2>1
  <2>4. 1 \in 1..(1 + n) BY <2>1
  <2> QED BY <1>1, <2>1, <2>2, <2>3, <2>4
<1> HIDE DEF s, n
<1>3. 1 \in 1..Len(s) /\ (\A k \in 1..n : k + 1 \in 1..Len(s)) BY <1>2
<1>4. ASSUME Latest(s, u, x) PROVE Latest(t, u, x) \/ (m = x /\ About(m, u) /\ Silent(t, u))
  <2>1. PICK k \in 1..Len(s) : s[k] = x /\ About(x, u) /\ \A j \in 1..Len(s) : About(s[j], u) => j <= k
    BY <1>4 DEF Latest
  <2>2. CASE k = 1
    <3>1. \A j \in 1..n : ~(j + 1 <= 1) BY <1>2
    <3>2. Silent(t, u) BY <1>2, <1>3, <2>1, <2>2, <3>1 DEF Silent, n
    <3> QED BY <1>2, <2>1, <2>2, <3>2
  <2>3. CASE k # 1
    <3>1. k - 1 \in 1..n /\ (k - 1) + 1 = k BY <1>2, <2>3
    <3>2. t[k - 1] = x BY <1>2, <2>1, <3>1
    <3>3. ASSUME NEW j \in 1..n, About(t[j], u) PROVE j <= k - 1
      <4>1. j + 1 <= k BY <1>2, <1>3, <2>1, <3>3
      <4> QED BY <4>1
    <3>4. Latest(t, u, x) BY <2>1, <3>1, <3>2, <3>3 DEF Latest, n
    <3> QED BY <3>4
  <2> QED BY <2>2, <2>3
<1>5. Silent(s, u) => Silent(t, u) /\ ~About(m, u) BY <1>2, <1>3 DEF Silent, n
<1> QED BY <1>4, <1>5 DEF s

\* Connections that are made, lost or accepted, texts that are typed: nothing is told.
LEMMA LinkAgreed ==
    ASSUME Base, Agreed, NEW c \in Clients, Connect(c) \/ Type(c) \/ Break(c) \/ Accept(c)
    PROVE  Agreed'
<1> USE DEF Base
<1>1. /\ UNCHANGED <<posted, names, db, users, name>>
      /\ \A d \in Clients : d # c => coming'[d] = coming[d] /\ link'[d] = link[d]
      /\ \/ coming' = coming /\ messages' = messages /\ before' = before /\ usersMap' = usersMap
         \/ link'[c] = "down"
  <2>1. CASE Connect(c)
    BY <2>1 DEF Connect, TypeInv, fanout, connection, server
  <2>2. CASE Type(c)
    BY <2>2 DEF Type, TypeInv, fanout, connection, server
  <2>3. CASE Break(c)
    BY <2>3 DEF Break, TypeInv, connection, server
  <2>4. CASE Accept(c)
    BY <2>4 DEF Accept, TypeInv, client, server, ghosts, losses
  <2> QED BY <2>1, <2>2, <2>3, <2>4
<1>2. \A d \in Clients : \/ /\ messages'[d] = messages[d] /\ before'[d] = before[d]
                            /\ usersMap'[d] = usersMap[d]
                         \/ d = c /\ link'[c] = "down" /\ usersMap'[d] = <<>>
  <2>1. CASE Break(c)
    <3>1. /\ messages' = [d \in Clients |-> IF d \in {c} THEN <<>> ELSE messages[d]]
          /\ usersMap' = [d \in Clients |-> IF d \in {c} THEN <<>> ELSE usersMap[d]]
          /\ before' = [d \in Clients |-> IF d \in {c} THEN 0 ELSE before[d]]
      BY <2>1 DEF Break, Forget
    <3>2. link'[c] = "down" BY <2>1 DEF Break, TypeInv
    <3> QED BY <3>1, <3>2
  <2>2. CASE ~Break(c) BY <2>2 DEF Connect, Type, Accept, client, ghosts, losses
  <2> QED BY <2>1, <2>2
<1>3. Members' \subseteq Members
  <2>1. CASE Connect(c)
    <3>1. link[c] = "none" /\ live' = live BY <2>1 DEF Connect, fanout
    <3>2. c \notin live BY <3>1 DEF LinkInv
    <3> QED BY <1>1, <3>1, <3>2 DEF Members, TypeInv
  <2>2. CASE Type(c)
    <3>1. live' = live /\ link' = link BY <2>2 DEF Type, fanout
    <3> QED BY <1>1, <3>1 DEF Members
  <2>3. CASE Break(c)
    <3>1. live' = live /\ link[c] = "up" BY <2>3 DEF Break
    <3> QED BY <1>1, <3>1 DEF Members, TypeInv
  <2>4. CASE Accept(c)
    <3>1. live' = live \cup {c} /\ link' = link /\ peer[c] = "none" BY <2>4 DEF Accept, client
    <3>2. names[c] = NoName BY <3>1 DEF LinkInv
    <3> QED BY <1>1, <3>1, <3>2 DEF Members
  <2> QED BY <2>1, <2>2, <2>3, <2>4
<1>4. ASSUME NEW d \in Members'
      PROVE  /\ Stream(d)' = Stream(d) /\ messages'[d] = messages[d]
             /\ before'[d] = before[d] /\ usersMap'[d] = usersMap[d]
  <2>1. d \in Clients /\ link'[d] = "up"
    <3>1. d \in live BY <1>3 DEF Members
    <3>2. link'[d] = "up" BY DEF Members
    <3> QED BY <3>1, <3>2 DEF TypeInv
  <2>2. coming'[d] = coming[d] /\ posted' = posted BY <1>1, <2>1
  <2>3. Stream(d)' = Stream(d) BY <2>1, <2>2, StreamAfter DEF Stream
  <2> QED BY <1>2, <2>1, <2>3
<1>5. \A d \in Clients : DOMAIN usersMap'[d] \subseteq DOMAIN usersMap[d]
  <2>1. DOMAIN <<>> = {} OBVIOUS
  <2> QED BY <1>2, <2>1
<1>6. db' = db /\ users' = users BY <1>1
<1>7. unstored' = unstored /\ \A d \in Members' : d \in cut => d \in cut'
  <2>1. CASE Break(c)
    <3>1. unstored' = unstored /\ cut' = cut \ {c} /\ link'[c] = "down"
      BY <2>1 DEF Break, Forget, TypeInv
    <3>2. c \notin Members' BY <3>1 DEF Members
    <3> QED BY <3>1, <3>2
  <2>2. CASE ~Break(c) BY <2>2 DEF Connect, Type, Accept, ghosts, losses
  <2> QED BY <2>1, <2>2
<1> QED BY <1>3, <1>4, <1>5, <1>6, <1>7, QuietAgreed

\* A task that runs moves its line to the outboxes.
LEMMA RunTaskAgreed ==
    ASSUME Base, Agreed, RunTask
    PROVE  Agreed'
<1> DEFINE h == Head(posted)
<1>1. /\ posted # <<>> /\ posted' = Tail(posted)
      /\ UNCHANGED <<live, peer, server, kills, name, client, ghosts>>
  BY DEF RunTask
<1>2. coming' = [c \in Clients |->
           IF c \notin Audience(h) THEN coming[c]
           ELSE IF link[c] = "up" THEN Append(coming[c], h.msg) ELSE <<Lost>>]
  BY DEF RunTask
<1>3. Members' = Members BY <1>1 DEF Members, server, client
<1>4. ASSUME NEW c \in Members PROVE Stream(c)' = Stream(c)
  <2>1. c \in Clients /\ c \in live /\ link[c] = "up" BY DEF Members, Base, TypeInv
  <2>2. coming[c] \in Seq(Said) /\ posted \in Seq(TasksOf(Said)) BY <2>1, MemberStream
  <2> DEFINE a == coming[c]
             p == Tail(posted)
             b == Posted(p, c)
             x == h.msg
  <2>3. h \in TasksOf(Said) /\ p \in Seq(TasksOf(Said)) BY <1>1, <2>2, HeadTailProperties
  <2>4. x \in Said BY <2>3, TasksAre
  <2>5. b \in Seq(Said) BY <2>1, <2>3, PostedFacts
  <2>6. Posted(posted, c) = IF c \in h.to THEN <<x>> \o b ELSE b
    BY <1>1, <2>1, <2>2, PostedFacts
  <2>7. coming'[c] = IF c \in h.to THEN Append(a, x) ELSE a BY <1>2, <2>1 DEF Audience
  <2>8. Stream(c)' = coming'[c] \o b BY <1>1, <2>1, StreamAfter
  <2>9. Stream(c) = a \o Posted(posted, c) BY DEF Stream
  <2> HIDE DEF a, b, x
  <2>10. a \o (<<x>> \o b) = Append(a, x) \o b
    <3>1. a \in Seq(Said) BY <2>2 DEF a
    <3> QED BY <2>4, <2>5, <3>1, AppendInside
  <2> QED BY <2>6, <2>7, <2>8, <2>9, <2>10
<1>5. UNCHANGED <<db, users, messages, usersMap, before, unstored, cut>>
  BY <1>1 DEF server, client, ghosts, losses
<1> QED BY <1>3, <1>4, <1>5, QuietAgreed

\* A line that is handled moves from the stream to what the client shows.
LEMMA DeliverAgreed ==
    ASSUME Base, Agreed, NEW c \in Clients, Deliver(c)
    PROVE  Agreed'
<1> DEFINE m == Head(coming[c])
           a == Tail(coming[c])
           b == Posted(posted, c)
           t == a \o b
           f == <<m>>
<1>1. /\ link[c] = "up" /\ coming[c] # <<>> /\ coming' = [coming EXCEPT ![c] = a]
      /\ UNCHANGED <<live, connection, server, kills, name, link, up, typed, before, losses>>
  BY DEF Deliver
<1>2. /\ coming[c] \in Seq(Known) /\ coming[c] \in Seq(Said) /\ b \in Seq(Said)
      /\ Stream(c) = coming[c] \o b /\ messages[c] \in Seq(Texts) /\ db \in Seq(Texts)
  BY <1>1, MemberStream
<1>3. m \in Known /\ m \in Said /\ a \in Seq(Said) /\ coming[c] = f \o a
  <2>1. m \in Known BY <1>1, <1>2, HeadTailProperties
  <2>2. m \in Said /\ a \in Seq(Said) BY <1>1, <1>2, HeadTailProperties
  <2> DEFINE e == <<>>
  <2>3. e \in Seq(Said) /\ Append(e, m) = f OBVIOUS
  <2>4. coming[c] = f \o a
    <3>1. e \o coming[c] = coming[c]
      <4> HIDE DEF e
      <4>1. <<>> \o coming[c] = coming[c] BY <1>2, ConcatEmptySeq
      <4> QED BY <4>1 DEF e
    <3> HIDE DEF e, f
    <3>2. Append(e, m) \o a = e \o coming[c] BY <1>1, <1>2, <2>3, MoveFront
    <3> QED BY <2>3, <3>1, <3>2
  <2> QED BY <2>1, <2>2, <2>4
<1>4. f \in Seq(Said) /\ t \in Seq(Said)
  <2>1. f \in Seq(Said) BY <1>3
  <2> HIDE DEF a, b, f
  <2>2. t \in Seq(Said) BY <1>2, <1>3, ConcatProperties
  <2> QED BY <2>1, <2>2
<1>5. Stream(c) = f \o t
  <2> HIDE DEF a, b, f
  <2>1. f \in Seq(Said) /\ a \in Seq(Said) /\ b \in Seq(Said) BY <1>2, <1>3, <1>4
  <2>2. (f \o a) \o b = f \o (a \o b)
    <3>1. InARow(f, a, b) BY <2>1, Associative
    <3> QED BY <3>1 DEF InARow
  <2> QED BY <1>2, <1>3, <2>2
<1>6. Stream(c)' = t
  <2>1. coming'[c] = a /\ posted' = posted BY <1>1 DEF Base, TypeInv, connection
  <2> QED BY <2>1, StreamAfter
<1>7. /\ db' = db /\ users' = users /\ before' = before
      /\ Members' = Members /\ Present' = Present /\ \A r : IsLog(r)' <=> IsLog(r)
      /\ \A d \in Clients : d # c =>
            Stream(d)' = Stream(d) /\ messages'[d] = messages[d] /\ usersMap'[d] = usersMap[d]
  <2>1. UNCHANGED <<db, users, names, live, link, posted, before, unstored, cut>>
    BY <1>1 DEF connection, server, losses
  <2>2. \A d \in Clients : d # c => coming'[d] = coming[d] BY <1>1 DEF Base, TypeInv
  <2>3. ASSUME NEW d \in Clients, d # c PROVE Stream(d)' = Stream(d)
    BY <2>1, <2>2, <2>3, StreamAfter DEF Stream
  <2>4. \A d \in Clients : d # c => messages'[d] = messages[d] /\ usersMap'[d] = usersMap[d]
    <3>1. /\ DOMAIN messages = Clients /\ DOMAIN usersMap = Clients BY DEF Base, TypeInv
    <3>2. messages' = [messages EXCEPT ![c] = Append(messages[c], m)] \/ messages' = messages
      BY DEF Deliver
    <3>3. \/ usersMap' = usersMap
          \/ usersMap' = [usersMap EXCEPT ![c] = [u \in DOMAIN usersMap[c] \cup {m.user} |->
                IF u = m.user THEN [online |-> m.online, color |-> m.color] ELSE usersMap[c][u]]]
      BY DEF Deliver
    <3>4. \A d \in Clients : d # c => messages'[d] = messages[d] BY <3>1, <3>2
    <3>5. \A d \in Clients : d # c => usersMap'[d] = usersMap[d] BY <3>1, <3>3
    <3> QED BY <3>4, <3>5
  <2>5. Handled' = Handled /\ Storable' = Storable BY <2>1 DEF Handled, Storable
  <2>6. Members' = Members BY <2>1 DEF Members
  <2> QED BY <2>1, <2>3, <2>4, <2>5, <2>6 DEF Present, IsLog
<1>8. CASE m.type = "text"
  <2>1. messages' = [messages EXCEPT ![c] = Append(messages[c], m)] /\ usersMap' = usersMap
    BY <1>8 DEF Deliver
  <2>2. m \in Texts BY <1>3, <1>8, LineKinds
  <2>3. messages'[c] = Append(messages[c], m) BY <2>1 DEF Base, TypeInv
  <2>4. ASSUME c \in Present PROVE LogOf(c)'
    <3>1. LogOf(c) BY <2>4 DEF Agreed, LogInv
    <3>2. PICK p, d \in Seq(Texts) :
            Len(p) = before[c] /\ messages[c] \o TextsOf(Stream(c)) = p \o d /\ IsLog(d)
      BY <3>1 DEF LogOf
    <3> DEFINE r == TextsOf(t)
               o == messages[c]
    <3>3. TextsOf(f \o t) = TextsOf(f) \o r /\ r \in Seq(Texts)
      <4> HIDE DEF f, t
      <4>1. TextsSplit(f, t) BY <1>4, SaidExtended
      <4> QED BY <4>1 DEF TextsSplit
    <3>4. TextsOf(f) = <<m>>
      <4>1. f \in Seq(Texts) /\ Texts \subseteq AnyText BY <2>2, LineKinds
      <4> HIDE DEF f
      <4>2. TextsOf(f) = f BY <4>1, TextsOfFacts
      <4> QED BY <4>2 DEF f
    <3>5. o \in Seq(Texts) /\ r \in Seq(Texts) /\ m \in Texts BY <1>2, <2>2, <3>3
    <3>6. messages[c] \o TextsOf(Stream(c)) = o \o (<<m>> \o r) BY <1>5, <3>3, <3>4
    <3>7. o \o (<<m>> \o r) = Append(o, m) \o r
      <4> HIDE DEF o, r, m
      <4> QED BY <3>5, AppendInside
    <3>8. messages'[c] \o TextsOf(Stream(c)') = p \o d /\ Len(p) = before'[c] /\ IsLog(d)'
      BY <1>6, <1>7, <2>3, <3>2, <3>6, <3>7
    <3> QED BY <3>8 DEF LogOf
  <2>5. ASSUME c \in Members, NEW u \in DOMAIN users PROVE Told(c, u)'
    <3>1. Told(c, u) BY <2>5 DEF Agreed, ViewInv
    <3> DEFINE x == UserStatus(users, u)
    <3>2. m # x
      <4>1. x.type = "status" BY StatusParts
      <4> QED BY <1>8, <4>1
    <3> HIDE DEF m, t, f, x
    <3>3. /\ Latest(<<m>> \o t, u, x) => Latest(t, u, x) \/ (m = x /\ About(m, u) /\ Silent(t, u))
          /\ Silent(<<m>> \o t, u) => Silent(t, u) /\ ~About(m, u)
      BY <1>3, <1>4, FrontTold
    <3>4. /\ Latest(Stream(c), u, x) => Latest(t, u, x)
          /\ Silent(Stream(c), u) => Silent(t, u)
      BY <1>5, <3>2, <3>3 DEF f
    <3>5. Shows(c, u)' <=> Shows(c, u) BY <1>7, <2>1 DEF Shows
    <3>6. UserStatus(users', u) = x BY <1>7 DEF x
    <3> QED BY <1>6, <3>1, <3>4, <3>5, <3>6 DEF Told, x
  <2>6. \A d \in Present' : LogOf(d)'
    <3>1. ASSUME NEW d \in Present, d # c PROVE LogOf(d)'
      <4>1. d \in Clients BY DEF Present, Members, Base, TypeInv
      <4>2. LogOf(d) BY DEF Agreed, LogInv
      <4>3. Stream(d)' = Stream(d) /\ messages'[d] = messages[d] /\ before' = before
        BY <1>7, <3>1, <4>1
      <4> QED BY <1>7, <4>2, <4>3 DEF LogOf
    <3> QED BY <1>7, <2>4, <3>1
  <2>7. \A d \in Members' : \A u \in DOMAIN users' : Told(d, u)'
    <3>1. ASSUME NEW d \in Members, d # c, NEW u \in DOMAIN users PROVE Told(d, u)'
      <4>1. d \in Clients BY DEF Members, Base, TypeInv
      <4>2. Told(d, u) BY DEF Agreed, ViewInv
      <4>3. Stream(d)' = Stream(d) /\ usersMap'[d] = usersMap[d] /\ users' = users
        BY <1>7, <3>1, <4>1
      <4> QED BY <4>2, <4>3 DEF Told, Shows
    <3> QED BY <1>7, <2>5, <3>1
  <2>8. \A d \in Clients : DOMAIN usersMap'[d] \subseteq DOMAIN users' \cup {NoName}
    BY <1>7, <2>1 DEF Agreed, ViewInv
  <2> QED BY <2>6, <2>7, <2>8 DEF Agreed, LogInv, ViewInv
<1>9. CASE m.type # "text"
  <2> DEFINE old == usersMap[c]
             new == [u \in DOMAIN old \cup {m.user} |->
                        IF u = m.user THEN [online |-> m.online, color |-> m.color] ELSE old[u]]
  <2>1. usersMap' = [usersMap EXCEPT ![c] = new] /\ messages' = messages
    BY <1>9 DEF Deliver
  <2>2. m \in KnownPeople /\ m.type = "status" BY <1>3, <1>9, KnownKinds DEF Base, TypeInv
  <2>3. m.user \in DOMAIN users \cup {NoName} BY <2>2 DEF KnownPeople
  <2>4. ASSUME c \in Present PROVE LogOf(c)'
    <3>1. LogOf(c) BY <2>4 DEF Agreed, LogInv
    <3>2. PICK p, d \in Seq(Texts) :
            Len(p) = before[c] /\ messages[c] \o TextsOf(Stream(c)) = p \o d /\ IsLog(d)
      BY <3>1 DEF LogOf
    <3> DEFINE r == TextsOf(t)
    <3>3. TextsOf(f \o t) = TextsOf(f) \o r /\ r \in Seq(Texts)
      <4> HIDE DEF f, t
      <4>1. TextsSplit(f, t) BY <1>4, SaidExtended
      <4> QED BY <4>1 DEF TextsSplit
    <3>4. TextsOf(f) = <<>>
      <4>1. f \in Seq(Statuses) /\ Statuses \cap AnyText = {} BY <2>2, LineKinds DEF KnownPeople
      <4> HIDE DEF f
      <4> QED BY <4>1, TextsOfFacts
    <3>5. <<>> \o r = r
      <4> HIDE DEF r
      <4> QED BY <3>3, ConcatEmptySeq
    <3>6. TextsOf(Stream(c)) = r BY <1>5, <3>3, <3>4, <3>5
    <3>7. messages'[c] \o TextsOf(Stream(c)') = p \o d /\ Len(p) = before'[c] /\ IsLog(d)'
      BY <1>6, <1>7, <2>1, <3>2, <3>6
    <3> QED BY <3>7 DEF LogOf
  <2>5. /\ DOMAIN usersMap'[c] = DOMAIN old \cup {m.user}
        /\ usersMap'[c][m.user] = [online |-> m.online, color |-> m.color]
        /\ \A u \in DOMAIN old : u # m.user => usersMap'[c][u] = old[u]
    <3>1. usersMap'[c] = new BY <2>1 DEF Base, TypeInv
    <3>2. /\ DOMAIN new = DOMAIN old \cup {m.user}
          /\ new[m.user] = [online |-> m.online, color |-> m.color]
          /\ \A u \in DOMAIN old : u # m.user => new[u] = old[u]
      OBVIOUS
    <3> QED BY <3>1, <3>2
  <2>6. ASSUME c \in Members, NEW u \in DOMAIN users PROVE Told(c, u)'
    <3>1. Told(c, u) BY <2>6 DEF Agreed, ViewInv
    <3> DEFINE x == UserStatus(users, u)
    <3>2. users[u] \in [online: BOOLEAN, color: Colors] BY DEF Base, TypeInv, IsMap
    <3>3. m = x => m.user = u /\ [online |-> m.online, color |-> m.color] = users[u]
      <4>1. x.user = u /\ x.online = users[u].online /\ x.color = users[u].color BY StatusParts
      <4>2. users[u] = [online |-> users[u].online, color |-> users[u].color] BY <3>2
      <4> QED BY <4>1, <4>2
    <3>4. ~About(m, u) => m.user # u BY <2>2 DEF About
    <3>5. UserStatus(users', u) = x /\ users' = users BY <1>7
    <3> HIDE DEF m, t, f, x, old, new
    <3>6. /\ Latest(<<m>> \o t, u, x) => Latest(t, u, x) \/ (m = x /\ About(m, u) /\ Silent(t, u))
          /\ Silent(<<m>> \o t, u) => Silent(t, u) /\ ~About(m, u)
      BY <1>3, <1>4, FrontTold
    <3>7. /\ Latest(Stream(c), u, x) => Latest(t, u, x) \/ (m = x /\ About(m, u) /\ Silent(t, u))
          /\ Silent(Stream(c), u) => Silent(t, u) /\ ~About(m, u)
      BY <1>5, <3>6 DEF f
    <3>8. CASE Latest(t, u, x) BY <1>6, <3>5, <3>8 DEF Told
    <3>9. CASE m = x /\ Silent(t, u)
      <4>1. Shows(c, u)' BY <2>5, <3>3, <3>5, <3>9 DEF Shows
      <4> QED BY <1>6, <3>9, <4>1 DEF Told
    <3>10. CASE Silent(t, u) /\ ~About(m, u) /\ Shows(c, u)
      <4>1. Shows(c, u)' BY <2>5, <3>4, <3>5, <3>10 DEF Shows, old
      <4> QED BY <1>6, <3>10, <4>1 DEF Told
    <3> QED BY <3>1, <3>7, <3>8, <3>9, <3>10 DEF Told, x
  <2>7. \A d \in Present' : LogOf(d)'
    <3>1. ASSUME NEW d \in Present, d # c PROVE LogOf(d)'
      <4>1. d \in Clients BY DEF Present, Members, Base, TypeInv
      <4>2. LogOf(d) BY DEF Agreed, LogInv
      <4>3. Stream(d)' = Stream(d) /\ messages'[d] = messages[d] /\ before' = before
        BY <1>7, <3>1, <4>1
      <4> QED BY <1>7, <4>2, <4>3 DEF LogOf
    <3> QED BY <1>7, <2>4, <3>1
  <2>8. \A d \in Members' : \A u \in DOMAIN users' : Told(d, u)'
    <3>1. ASSUME NEW d \in Members, d # c, NEW u \in DOMAIN users PROVE Told(d, u)'
      <4>1. d \in Clients BY DEF Members, Base, TypeInv
      <4>2. Told(d, u) BY DEF Agreed, ViewInv
      <4>3. Stream(d)' = Stream(d) /\ usersMap'[d] = usersMap[d] /\ users' = users
        BY <1>7, <3>1, <4>1
      <4> QED BY <4>2, <4>3 DEF Told, Shows
    <3> QED BY <1>7, <2>6, <3>1
  <2>9. \A d \in Clients : DOMAIN usersMap'[d] \subseteq DOMAIN users' \cup {NoName}
    <3>1. ASSUME NEW d \in Clients PROVE DOMAIN usersMap'[d] \subseteq DOMAIN users' \cup {NoName}
      <4>1. DOMAIN usersMap[d] \subseteq DOMAIN users \cup {NoName} BY DEF Agreed, ViewInv
      <4>2. CASE d = c BY <1>7, <2>3, <2>5, <4>1, <4>2
      <4>3. CASE d # c
        <5>1. usersMap'[d] = usersMap[d] BY <1>7, <4>3
        <5> QED BY <1>7, <4>1, <5>1
      <4> QED BY <4>2, <4>3
    <3> QED BY <3>1
  <2> QED BY <2>7, <2>8, <2>9 DEF Agreed, LogInv, ViewInv
<1> QED BY <1>8, <1>9

\* The server is killed: nobody is a member then.
LEMMA KillAgreed ==
    ASSUME Base, Kill
    PROVE  Agreed'
<1>1. /\ link' = [c \in Clients |-> IF link[c] = "none" THEN "none" ELSE "down"] /\ live' = {}
      /\ usersMap' = [c \in Clients |-> IF c \in Clients THEN <<>> ELSE usersMap[c]]
  BY DEF Kill, Forget
<1>2. Members' = {} BY <1>1 DEF Members
<1>3. DOMAIN <<>> = {} OBVIOUS
<1>4. \A c \in Clients : DOMAIN usersMap'[c] \subseteq DOMAIN users' \cup {NoName} BY <1>1, <1>3
<1>5. Present' = {} BY <1>2 DEF Present
<1> QED BY <1>2, <1>4, <1>5 DEF Agreed, LogInv, ViewInv

\* Members that stay, when q comes to their streams.
LEMMA StreamsAgreed ==
    ASSUME Base, Agreed, UNCHANGED <<messages, usersMap>>, DOMAIN users \subseteq DOMAIN users',
           NEW S \in SUBSET Clients, NEW q \in Seq(Said),
           Grows(TextsOf(q)), \A d \in S : d \in cut => d \in cut',
           \A d \in S : d \in Members /\ Stream(d)' = Stream(d) \o q /\ before'[d] = before[d],
           \A u \in DOMAIN users' :
               \/ Latest(q, u, UserStatus(users', u))
               \/ Silent(q, u) /\ u \in DOMAIN users /\ users'[u] = users[u]
    PROVE  /\ \A d \in S \ cut' : LogOf(d)'
           /\ \A d \in S : \A u \in DOMAIN users' : Told(d, u)'
           /\ \A d \in Clients : DOMAIN usersMap'[d] \subseteq DOMAIN users' \cup {NoName}
<1>1. ASSUME NEW d \in S \ cut' PROVE LogOf(d)'
  <2>1. LogOf(d) /\ link[d] = "up" /\ d \in Clients BY DEF Agreed, LogInv, Present, Members
  <2>2. messages'[d] = messages[d] OBVIOUS
  <2>3. Stream(d)' = Stream(d) \o q /\ before'[d] = before[d] OBVIOUS
  <2> QED BY <2>1, <2>2, <2>3, LogExtended
<1>2. ASSUME NEW d \in S, NEW u \in DOMAIN users' PROVE Told(d, u)'
  <2>1. link[d] = "up" /\ d \in Clients /\ d \in Members BY DEF Members
  <2>2. u \in DOMAIN users => Told(d, u) BY <2>1 DEF Agreed, ViewInv
  <2>3. usersMap'[d] = usersMap[d] /\ Stream(d)' = Stream(d) \o q OBVIOUS
  <2>4. \/ Latest(q, u, UserStatus(users', u))
        \/ Silent(q, u) /\ users'[u] = users[u] /\ Told(d, u)
    BY <2>2
  <2> QED BY <2>1, <2>3, <2>4, ToldExtended
<1>3. \A d \in Clients : DOMAIN usersMap'[d] \subseteq DOMAIN users' \cup {NoName}
  BY DEF Agreed, ViewInv
<1> QED BY <1>1, <1>2, <1>3

\* What one line about somebody says.
LEMMA OneLine ==
    ASSUME NEW m \in Said
    PROVE  /\ <<m>> \in Seq(Said)
           /\ \A u : ~About(m, u) => Silent(<<m>>, u)
           /\ \A u : About(m, u) => Latest(<<m>>, u, m)
           /\ m \in Statuses => TextsOf(<<m>>) = <<>>
           /\ m \in Texts => TextsOf(<<m>>) = <<m>> /\ \A u : ~About(m, u)
<1> DEFINE q == <<m>>
<1>1. q \in Seq(Said) /\ Len(q) = 1 /\ q[1] = m OBVIOUS
<1>2. \A u : About(m, u) => Latest(q, u, m) BY LatestOne
<1>3. m \in Statuses => TextsOf(q) = <<>>
  <2> SUFFICES ASSUME m \in Statuses PROVE TextsOf(q) = <<>>
    OBVIOUS
  <2>1. q \in Seq(Statuses) /\ Statuses \cap AnyText = {} BY LineKinds
  <2> HIDE DEF q
  <2> QED BY <2>1, TextsOfFacts
<1>4. m \in Texts => TextsOf(q) = q
  <2> SUFFICES ASSUME m \in Texts PROVE TextsOf(q) = q
    OBVIOUS
  <2>1. q \in Seq(Texts) /\ Texts \subseteq AnyText BY LineKinds
  <2> HIDE DEF q
  <2> QED BY <2>1, TextsOfFacts
<1>5. m \in Texts => \A u : ~About(m, u)
  <2> SUFFICES ASSUME m \in Texts PROVE m.type = "text"
    BY DEF About
  <2> QED BY LineKinds
<1> HIDE DEF q
<1>6. \A k \in 1..Len(q) : k = 1 BY <1>1
<1>7. \A u : ~About(m, u) => Silent(q, u) BY <1>1, <1>6 DEF Silent
<1> QED BY <1>1, <1>2, <1>3, <1>4, <1>5, <1>7 DEF q

\* A user that is lost: the others are told that it is offline.
LEMMA LostAgreed ==
    ASSUME Base, Agreed, NEW c \in Clients, ReadError(c) \/ WriteError(c)
    PROVE  Agreed'
<1>1. onDisconnect(c) BY DEF ReadError, WriteError
<1> DEFINE m == OfflineStatus(users, names[c])
           p == <<BroadcastTask(m)>>
           q == <<m>>
<1>2. /\ LostUser(users, names[c], users') /\ live' = live \ {c} /\ posted' = posted \o p
      /\ m \in KnownPeople /\ p \in Seq(TasksOf(Said)) /\ \A d \in Clients : Posted(p, d) = q
  BY <1>1, LostFacts
<1>3. m.user = names[c] /\ m.type = "status" BY StatusParts
<1>4. UNCHANGED <<names, db, messages, usersMap, before, link, unstored, cut>>
  BY <1>1 DEF onDisconnect, client, ghosts, losses
<1>5. m \in Statuses /\ m \in Said BY <1>2 DEF KnownPeople, Said
<1> HIDE DEF m, p
<1>6. q \in Seq(Said) /\ TextsOf(q) = <<>> BY <1>5, OneLine
<1>7. \A u : u # names[c] => Silent(q, u) BY <1>3, <1>5, OneLine DEF About
<1>8. Latest(q, names[c], m) BY <1>3, <1>5, OneLine DEF About
<1> HIDE DEF q
<1>9. Grows(TextsOf(q)) BY <1>4, <1>6, GrowsNot DEF Base, TypeInv
<1>10. ASSUME NEW d \in Members'
       PROVE  d \in Clients /\ d \in Members /\ Stream(d)' = Stream(d) \o q /\ before'[d] = before[d]
  <2>1. d \in live /\ link[d] = "up" /\ names[d] # NoName BY <1>2, <1>4 DEF Members
  <2>2. d \in Clients /\ d \in Members BY <2>1 DEF Members, Base, TypeInv
  <2>3. coming'[d] = coming[d]
    BY <2>1, <2>2 DEF ReadError, WriteError, Base, TypeInv
  <2>4. coming[d] \in Seq(Known) BY <2>1, <2>2, MemberStream
  <2>5. Stream(d)' = Stream(d) \o Posted(p, d) BY <1>2, <2>2, <2>3, <2>4, StreamPosted DEF Base
  <2> QED BY <1>2, <1>4, <2>2, <2>5
<1>11. DOMAIN users' = DOMAIN users BY <1>2 DEF LostUser
<1>12. ASSUME NEW u \in DOMAIN users'
       PROVE  \/ Latest(q, u, UserStatus(users', u))
              \/ Silent(q, u) /\ u \in DOMAIN users /\ users'[u] = users[u]
  <2>1. CASE u = names[c]
    <3>1. names[c] # NoName
      <4>1. u \in Users BY <1>11 DEF Base, TypeInv, IsMap
      <4> QED BY <2>1, <4>1, NamesAssumption
    <3>2. m = UserStatus(users', u) BY <1>2, <2>1, <3>1 DEF LostUser, m
    <3> QED BY <1>8, <2>1, <3>2
  <2>2. CASE u # names[c] BY <1>2, <1>7, <1>11, <2>2 DEF LostUser
  <2> QED BY <2>1, <2>2
<1> DEFINE S == Members'
<1>13. /\ S \in SUBSET Clients
       /\ \A d \in S : d \in Members /\ Stream(d)' = Stream(d) \o q /\ before'[d] = before[d]
  BY <1>10
<1> HIDE DEF S
<1>14. /\ \A d \in S \ cut' : LogOf(d)'
       /\ \A d \in S : \A u \in DOMAIN users' : Told(d, u)'
       /\ \A d \in Clients : DOMAIN usersMap'[d] \subseteq DOMAIN users' \cup {NoName}
  BY <1>4, <1>6, <1>9, <1>11, <1>12, <1>13, StreamsAgreed
<1> QED BY <1>14 DEF S, Agreed, LogInv, ViewInv, Present

\* A text that is taken in comes to every member, whether it was stored or not.
LEMMA NewMessageAgreed ==
    ASSUME Base, SourceInv, FreshInv, Agreed, NEW c \in Clients, OnNewMessage(c)
    PROVE  Agreed'
<1>1. PICK n \in Serials :
        /\ addMessageEntry(Text(n, names[c])) /\ Head(up[c]) = n
        /\ posted' = Append(posted, BroadcastTask(Text(n, names[c])))
        /\ UNCHANGED <<fanout, users, names, kills, name, link, messages,
                       usersMap, typed, before, seen, cut>>
  BY DEF OnNewMessage, Received
<1> DEFINE m == Text(n, names[c])
           p == <<BroadcastTask(m)>>
           q == <<m>>
<1>2. /\ m \in Texts /\ p \in Seq(TasksOf(Said)) /\ \A d \in Clients : Posted(p, d) = q
      /\ Append(posted, BroadcastTask(m)) = posted \o p
  BY <1>1, NewMessageFacts
<1>3. posted' = posted \o p /\ addMessageEntry(m) /\ m \notin Handled
  BY <1>1, <1>2, NewMessageFresh
<1>4. UNCHANGED <<live, coming, users, names, link, messages, usersMap, before, cut>>
  BY <1>1 DEF fanout
<1>5. m \in Said BY <1>2 DEF Said
<1> HIDE DEF m, p
<1>6. q \in Seq(Said) /\ TextsOf(q) = q /\ \A u : Silent(q, u) BY <1>2, <1>5, OneLine
<1>8. Grows(q) BY <1>2, <1>3, GrowsByOne DEF Base, TypeInv
<1> HIDE DEF q
<1>9. ASSUME NEW d \in Members'
       PROVE  d \in Clients /\ d \in Members /\ Stream(d)' = Stream(d) \o q /\ before'[d] = before[d]
  <2>1. d \in live /\ link[d] = "up" /\ names[d] # NoName BY <1>4 DEF Members
  <2>2. d \in Clients /\ d \in Members BY <2>1 DEF Members, Base, TypeInv
  <2>3. coming[d] \in Seq(Known) /\ coming'[d] = coming[d] BY <1>4, <2>1, <2>2, MemberStream
  <2>4. Stream(d)' = Stream(d) \o Posted(p, d) BY <1>2, <1>3, <2>2, <2>3, StreamPosted DEF Base
  <2> QED BY <1>2, <1>4, <2>2, <2>4
<1>10. ASSUME NEW u \in DOMAIN users'
       PROVE  Silent(q, u) /\ u \in DOMAIN users /\ users'[u] = users[u]
  BY <1>4, <1>6
<1> DEFINE S == Members'
<1>11. /\ S \in SUBSET Clients
       /\ \A d \in S : d \in Members /\ Stream(d)' = Stream(d) \o q /\ before'[d] = before[d]
  BY <1>9
<1>12. Grows(TextsOf(q)) /\ \A d \in S : d \in cut => d \in cut' BY <1>4, <1>6, <1>8
<1>13. q \in Seq(Said) /\ UNCHANGED <<messages, usersMap>> /\ DOMAIN users \subseteq DOMAIN users'
  BY <1>4, <1>6
<1> HIDE DEF S
<1>14. /\ \A d \in S \ cut' : LogOf(d)'
       /\ \A d \in S : \A u \in DOMAIN users' : Told(d, u)'
       /\ \A d \in Clients : DOMAIN usersMap'[d] \subseteq DOMAIN users' \cup {NoName}
  BY <1>10, <1>11, <1>12, <1>13, StreamsAgreed
<1> QED BY <1>14 DEF S, Agreed, LogInv, ViewInv, Present

\* The posted tasks that send a client a text, counted as TextsComing counts them.
LEMMA TasksWithTexts ==
    ASSUME NEW c \in Clients, NEW q \in Seq(TasksOf(Said))
    PROVE  Len(TextsOf(Posted(q, c))) = Len(Filter(q, [to: {{c}, Clients}, msg: AnyText]))
<1> DEFINE G == [to: {{c}, Clients}, msg: AnyText]
           S == TasksOf(Said)
           B == {t \in Seq(S) : Len(TextsOf(Posted(t, c))) = Len(Filter(t, G))}
<1>1. <<>> \in B
  <2>1. <<>> \in Seq(S) /\ <<>> \in Seq(Said) OBVIOUS
  <2>2. Posted(<<>>, c) = <<>> BY <2>1, PostedFacts
  <2>3. TextsOf(<<>>) = <<>> /\ Filter(<<>>, G) = <<>> BY FilterEmpty DEF TextsOf
  <2> QED BY <2>1, <2>2, <2>3
<1>2. ASSUME NEW s \in Seq(S), NEW t \in S, s \in B PROVE Append(s, t) \in B
  <2> DEFINE f == <<t>>
             m == t.msg
             a == Posted(s, c)
             e == <<>>
  <2>1. f \in Seq(S) /\ f # e /\ Head(f) = t /\ Tail(f) = e OBVIOUS
  <2>2. e \in Seq(S) /\ e \in Seq(Said) OBVIOUS
  <2>3. m \in Said BY TasksAre
  <2>4. t \in G <=> c \in t.to /\ m \in AnyText
    <3>1. t = [to |-> t.to, msg |-> t.msg] /\ t.to \in {{d} : d \in Clients} \cup {Clients}
      BY DEF TasksOf
    <3>2. c \in t.to <=> t.to \in {{c}, Clients} BY <3>1
    <3> QED BY <3>1, <3>2
  <2>5. Append(s, t) = s \o f /\ Append(s, t) \in Seq(S) BY AppendIsConcat, AppendProperties
  <2>6. Filter(Append(s, t), G) = IF t \in G THEN Append(Filter(s, G), t) ELSE Filter(s, G)
    <3> HIDE DEF S, G
    <3> QED BY FilterAppend
  <2>7. Len(Filter(s, G)) \in Nat
        /\ (t \in G => Len(Append(Filter(s, G), t)) = Len(Filter(s, G)) + 1)
    <3> DEFINE g == Filter(s, G)
    <3>1. g \in Seq(S \cap G)
      <4> HIDE DEF S, G
      <4> QED BY FilterType
    <3> HIDE DEF g
    <3>2. Len(g) \in Nat BY <3>1, LenProperties
    <3>3. t \in G => Len(Append(g, t)) = Len(g) + 1
      <4> SUFFICES ASSUME t \in G PROVE Len(Append(g, t)) = Len(g) + 1
        OBVIOUS
      <4>1. t \in S \cap G OBVIOUS
      <4> HIDE DEF S, G
      <4> QED BY <3>1, <4>1, AppendProperties
    <3> QED BY <3>2, <3>3 DEF g
  <2> DEFINE F == Filter(s, G)
  <2>8. Posted(s \o f, c) = a \o Posted(f, c) /\ a \in Seq(Said) /\ Posted(e, c) = e
    BY <2>1, <2>2, PostedFacts
  <2>9. Len(TextsOf(a)) = Len(F) BY <1>2
  <2>10. TextsOf(a) \in Seq(AnyText) BY <2>8, TextsOfFacts
  <2>11. Len(Filter(Append(s, t), G)) = IF t \in G THEN Len(F) + 1 ELSE Len(F) BY <2>6, <2>7
  <2>12. CASE c \in t.to
    <3>1. Posted(f, c) = <<m>> BY <2>2, <2>12, PostedFacts
    <3> DEFINE p == <<m>>
    <3>2. p \in Seq(Said) BY <2>3
    <3>3. TextsOf(p) = IF m \in AnyText THEN p ELSE e
      <4>1. CASE m \in AnyText
        <5>1. p \in Seq(AnyText) BY <4>1
        <5> HIDE DEF p
        <5>2. TextsOf(p) = p BY <5>1, TextsOfFacts
        <5> QED BY <4>1, <5>2
      <4>2. CASE m \notin AnyText
        <5>1. p \in Seq({m}) /\ {m} \cap AnyText = {} BY <4>2
        <5> HIDE DEF p
        <5>2. TextsOf(p) = e BY <5>1, TextsOfFacts
        <5> QED BY <4>2, <5>2
      <4> QED BY <4>1, <4>2
    <3>4. TextsOf(Posted(s \o f, c)) = TextsOf(a) \o TextsOf(p)
      <4> HIDE DEF a, p, f, m
      <4>1. TextsOf(a \o p) = TextsOf(a) \o TextsOf(p)
        <5>1. TextsSplit(a, p) BY <2>8, <3>2, SaidExtended
        <5> QED BY <5>1 DEF TextsSplit
      <4>2. Posted(s \o f, c) = a \o p BY <2>8, <3>1 DEF p
      <4> QED BY <4>1, <4>2
    <3>5. CASE m \in AnyText
      <4>1. p \in Seq(AnyText) /\ Len(p) = 1 BY <3>5
      <4> HIDE DEF a, p
      <4>2. Len(TextsOf(a) \o p) = Len(TextsOf(a)) + Len(p) BY <2>10, <4>1, ConcatProperties
      <4>3. Len(TextsOf(Posted(s \o f, c))) = Len(F) + 1 BY <2>9, <3>3, <3>4, <3>5, <4>1, <4>2
      <4> QED BY <2>4, <2>5, <2>11, <2>12, <3>5, <4>3
    <3>6. CASE m \notin AnyText
      <4> HIDE DEF a, p
      <4>1. TextsOf(a) \o <<>> = TextsOf(a) BY <2>10, ConcatEmptySeq
      <4>2. Len(TextsOf(Posted(s \o f, c))) = Len(F) BY <2>9, <3>3, <3>4, <3>6, <4>1
      <4> QED BY <2>4, <2>5, <2>11, <3>6, <4>2
    <3> QED BY <3>5, <3>6
  <2>13. CASE c \notin t.to
    <3>1. Posted(f, c) = IF c \in Head(f).to THEN <<Head(f).msg>> \o Posted(Tail(f), c)
                         ELSE Posted(Tail(f), c)
      <4> HIDE DEF f
      <4> QED BY <2>1, PostedFacts
    <3>2. Posted(f, c) = e BY <2>1, <2>8, <2>13, <3>1
    <3>3. a \o <<>> = a
      <4> HIDE DEF a
      <4> QED BY <2>8, ConcatEmptySeq
    <3>4. Len(TextsOf(Posted(s \o f, c))) = Len(F) BY <2>8, <2>9, <3>2, <3>3
    <3> QED BY <2>4, <2>5, <2>11, <2>13, <3>4
  <2> QED BY <2>12, <2>13
<1>3. \A s \in Seq(S) : s \in B
  <2> HIDE DEF S, B
  <2> QED BY <1>1, <1>2, Growing
<1> QED BY <1>3

\* What a client that introduces itself is sent: the table, then every user.
LEMMA WelcomeSays ==
    ASSUME NEW d \in Seq(Texts), NEW map, IsMap(map), NEW w \in DOMAIN map
    PROVE  LET q == (d \o KnownStatuses(map)) \o <<UserStatus(map, w)>>
           IN  /\ q \in Seq(Said) /\ TextsOf(q) = d
               /\ \A u \in DOMAIN map : Latest(q, u, UserStatus(map, u))
<1> DEFINE told == KnownStatuses(map)
           m    == UserStatus(map, w)
           f    == <<m>>
           a    == d \o told
           q    == a \o f
<1>1. told \in Seq(Statuses) /\ \A u \in DOMAIN map : UserStatus(map, u) \in Statuses
  BY StatusTypes
<1>2. \A u \in DOMAIN map : Latest(told, u, UserStatus(map, u)) BY LatestKnown
<1>3. m \in Said /\ m \in Statuses /\ \A u : About(m, u) <=> u = w
  BY <1>1, StatusParts DEF Said, About
<1> HIDE DEF told, m
<1>4. f \in Seq(Said) /\ TextsOf(f) = <<>> /\ (\A u : u # w => Silent(f, u)) /\ Latest(f, w, m)
  BY <1>3, OneLine
<1> HIDE DEF f
<1>5. d \in Seq(Said) /\ told \in Seq(Said)
  <2>1. Texts \subseteq Said /\ Statuses \subseteq Said BY DEF Said
  <2> QED BY <1>1, <2>1, SeqMonotonic
<1>6. a \in Seq(Said) BY <1>5, ConcatProperties
<1>7. \A u \in DOMAIN map : Latest(a, u, UserStatus(map, u))
  <2> SUFFICES ASSUME NEW u \in DOMAIN map PROVE Latest(a, u, UserStatus(map, u))
    OBVIOUS
  <2> DEFINE x == UserStatus(map, u)
  <2>1. Latest(told, u, x) BY <1>2
  <2> HIDE DEF x
  <2>2. Latest(d \o told, u, x) BY <1>5, <2>1, LatestAppended
  <2> QED BY <2>2 DEF x
<1>8. TextsOf(a) = d
  <2>1. TextsOf(d \o told) = TextsOf(d) \o TextsOf(told) BY <1>5, TextsOfFacts
  <2>2. TextsOf(d) = d
    <3>1. Texts \subseteq AnyText BY LineKinds
    <3> QED BY <3>1, TextsOfFacts
  <2>3. TextsOf(told) = <<>>
    <3>1. Statuses \cap AnyText = {} BY LineKinds
    <3> QED BY <1>1, <3>1, TextsOfFacts
  <2>4. d \o <<>> = d BY ConcatEmptySeq
  <2> QED BY <2>1, <2>2, <2>3, <2>4
<1> HIDE DEF a
<1>9. q \in Seq(Said) BY <1>4, <1>6, ConcatProperties
<1>10. TextsOf(q) = d
  <2>1. TextsOf(a \o f) = TextsOf(a) \o TextsOf(f)
    <3>1. a \in Seq(Said) /\ f \in Seq(Said) BY <1>4, <1>6
    <3>2. \A x, y \in Seq(Said) : TextsOf(x \o y) = TextsOf(x) \o TextsOf(y)
      BY TextsOfFacts
    <3> QED BY <3>1, <3>2, Zenon
  <2>2. d \o <<>> = d BY ConcatEmptySeq
  <2> QED BY <1>4, <1>8, <2>1, <2>2
<1>11. ASSUME NEW u \in DOMAIN map PROVE Latest(q, u, UserStatus(map, u))
  <2> DEFINE x == UserStatus(map, u)
  <2>1. /\ Latest(a, u, x) /\ (\A k \in 1..Len(f) : ~About(f[k], u)) => Latest(a \o f, u, x)
        /\ Latest(f, u, x) => Latest(a \o f, u, x)
    <3> HIDE DEF x
    <3> QED BY <1>4, <1>6, LatestAppended
  <2>2. CASE u = w BY <1>4, <2>1, <2>2 DEF m
  <2>3. CASE u # w BY <1>4, <1>7, <2>1, <2>3 DEF Silent
  <2> QED BY <2>2, <2>3
<1> QED BY <1>9, <1>10, <1>11 DEF a, told, f, m

\* A client that introduces itself gets rows of the table and every user; the others are told of
\* it.
LEMMA IntroAgreed ==
    ASSUME Base, FreshInv, Agreed, NEW c \in Clients, OnInitialConnection(c)
    PROVE  Agreed'
<1>1. /\ names' = [names EXCEPT ![c] = name[c]]
      /\ before' = [before EXCEPT ![c] = IF link[c] = "up" THEN TextsComing(c) ELSE 0]
      /\ UNCHANGED <<fanout, db, kills, name, link, messages, usersMap, typed, seen, unstored>>
  BY DEF OnInitialConnection, Introduced
<1>2. PICK color \in ColorsFor(users, name[c]), history \in History(c) :
        /\ IntroOf(c, color, history.rows)
        /\ cut' = IF history.whole \/ link[c] # "up" THEN cut ELSE cut \cup {c}
  BY DEF OnInitialConnection, IntroOf
<1>3. UNCHANGED <<live, coming, db, name, link, messages, usersMap, unstored>> BY <1>1 DEF fanout
<1> DEFINE rows == history.rows
<1>20. RowsOf(rows) /\ (history.whole => rows = db) /\ IntroOf(c, color, rows)
  BY <1>2, HistoryFacts
<1> HIDE DEF rows
<1> DEFINE welcome == rows \o KnownStatuses(users')
           news    == UserStatus(users', name[c])
           p       == [k \in DOMAIN welcome |-> WriteTask(c, welcome[k])] \o <<BroadcastTask(news)>>
           q       == <<news>>
           w       == welcome \o q
<1>4. /\ users' = WithOnline(users, name[c], color)
      /\ IsMap(users') /\ DOMAIN users' = DOMAIN users \cup {name[c]}
      /\ posted' = posted \o p /\ p \in Seq(TasksOf(Said)) /\ news \in Statuses
      /\ \A d \in Clients : Posted(p, d) = IF d = c THEN w ELSE q
  <2>1. IntroSays(c, color, rows) BY <1>3, <1>20, IntroFacts
  <2> QED BY <2>1 DEF IntroSays
<1>5. /\ db \in Seq(Texts) /\ rows \in Seq(Texts) /\ IsMap(users) /\ name[c] \in Users
  BY <1>20 DEF Base, TypeInv, RowsOf
<1>6. \A u \in DOMAIN users : u # name[c] => users'[u] = users[u]
  <2> DEFINE v   == name[c]
             now == WithOnline(users, v, color)
  <2>1. v \in Users /\ color \in ColorsFor(users, v) BY <1>5
  <2> HIDE DEF v
  <2>2. CameOnline(users, v, color, now) BY <1>5, <2>1, OnlineMap
  <2> HIDE DEF now
  <2> QED BY <1>4, <2>2 DEF v, now, CameOnline
<1>7. /\ w \in Seq(Said) /\ TextsOf(w) = rows
      /\ \A u \in DOMAIN users' : Latest(w, u, UserStatus(users', u))
  <2> DEFINE map == users'
             v   == name[c]
             d   == rows
  <2>1. IsMap(map) /\ v \in DOMAIN map /\ d \in Seq(Texts) BY <1>4, <1>5
  <2> DEFINE e == (d \o KnownStatuses(map)) \o <<UserStatus(map, v)>>
  <2> HIDE DEF map, v, d
  <2>2. /\ e \in Seq(Said) /\ TextsOf(e) = d
        /\ \A u \in DOMAIN map : Latest(e, u, UserStatus(map, u))
    BY <2>1, WelcomeSays
  <2> QED BY <2>2 DEF map, v, d
<1>8. news.user = name[c] /\ news.type = "status" BY StatusParts
<1>9. news \in Said BY <1>4 DEF Said
<1> HIDE DEF p, w, welcome, news
<1>10. /\ q \in Seq(Said) /\ TextsOf(q) = <<>> /\ Latest(q, name[c], news)
       /\ \A u : u # name[c] => Silent(q, u)
  BY <1>4, <1>8, <1>9, OneLine DEF About
<1> HIDE DEF q
<1>11. Grows(TextsOf(q)) BY <1>3, <1>5, <1>10, GrowsNot
<1>12. ASSUME NEW d \in Clients, link[d] = "up"
       PROVE  Stream(d)' = Stream(d) \o (IF d = c THEN w ELSE q)
  <2>1. coming[d] \in Seq(Known) /\ coming'[d] = coming[d] BY <1>3, <1>12, MemberStream
  <2>2. Stream(d)' = Stream(d) \o Posted(p, d) BY <1>4, <2>1, StreamPosted DEF Base
  <2> QED BY <1>4, <2>2
<1> DEFINE S == Members' \ {c}
<1>13. ASSUME NEW d \in S
       PROVE  d \in Clients /\ d \in Members /\ Stream(d)' = Stream(d) \o q /\ before'[d] = before[d]
  <2>1. d \in live /\ link[d] = "up" /\ names'[d] # NoName /\ d # c BY <1>3 DEF Members
  <2>2. d \in Clients BY <2>1 DEF Base, TypeInv
  <2>3. names'[d] = names[d] /\ before'[d] = before[d] BY <1>1, <2>1, <2>2 DEF Base, TypeInv
  <2>4. d \in Members BY <2>1, <2>3 DEF Members
  <2> QED BY <1>12, <2>1, <2>2, <2>3, <2>4
<1>14. ASSUME NEW u \in DOMAIN users'
       PROVE  \/ Latest(q, u, UserStatus(users', u))
              \/ Silent(q, u) /\ u \in DOMAIN users /\ users'[u] = users[u]
  BY <1>4, <1>6, <1>10 DEF news
<1>15. /\ S \in SUBSET Clients
       /\ \A d \in S : d \in Members /\ Stream(d)' = Stream(d) \o q /\ before'[d] = before[d]
  BY <1>13
<1>16. q \in Seq(Said) /\ UNCHANGED <<messages, usersMap>> /\ DOMAIN users \subseteq DOMAIN users'
  BY <1>3, <1>4, <1>10
<1>21. \A d \in S : d \in cut => d \in cut' BY <1>2
<1> HIDE DEF S
<1>17. /\ \A d \in S \ cut' : LogOf(d)'
       /\ \A d \in S : \A u \in DOMAIN users' : Told(d, u)'
       /\ \A d \in Clients : DOMAIN usersMap'[d] \subseteq DOMAIN users' \cup {NoName}
  BY <1>11, <1>14, <1>15, <1>16, <1>21, StreamsAgreed
<1>18. ASSUME c \in Present' PROVE LogOf(c)'
  <2>1. link[c] = "up" BY <1>3, <1>18 DEF Present, Members
  <2>11. rows = db
    <3>1. c \notin cut' BY <1>18 DEF Present
    <3> QED BY <1>2, <1>20, <2>1, <3>1
  <2> DEFINE s == Stream(c)
             o == messages[c]
             a == TextsOf(s)
             e == o \o a
             d == db
  <2>2. /\ coming[c] \in Seq(Said) /\ posted \in Seq(TasksOf(Said)) /\ Posted(posted, c) \in Seq(Said)
        /\ s \in Seq(Said) /\ s = coming[c] \o Posted(posted, c) /\ o \in Seq(Texts) /\ d \in Seq(Texts)
    BY <2>1, MemberStream
  <2>3. Said \cap AnyText \subseteq Texts BY LineKinds DEF Said
  <2>4. Stream(c)' = s \o w /\ messages'[c] = o /\ db' = d BY <1>3, <1>12, <2>1
  <2>5. a \in Seq(Texts) /\ TextsOf(s \o w) = a \o TextsOf(w)
    <3> HIDE DEF s
    <3>1. TextsSplit(s, w) BY <1>7, <2>2, SaidExtended
    <3> QED BY <3>1 DEF TextsSplit
  <2>6. o \o (a \o d) = e \o d /\ e \in Seq(Texts) /\ Len(e) = Len(o) + Len(a)
    <3> HIDE DEF o, a, d
    <3>1. o \in Seq(Texts) /\ a \in Seq(Texts) /\ d \in Seq(Texts) BY <2>2, <2>5
    <3>2. (o \o a) \o d = o \o (a \o d)
      <4>1. InARow(o, a, d) BY <3>1, Associative
      <4> QED BY <4>1 DEF InARow
    <3>3. o \o a \in Seq(Texts) /\ Len(o \o a) = Len(o) + Len(a) BY <3>1, ConcatProperties
    <3> QED BY <3>2, <3>3
  <2>7. Len(a) = Len(TextsOf(coming[c])) + Len(TextsOf(Posted(posted, c)))
    <3> DEFINE x == coming[c]
               y == Posted(posted, c)
               g == TextsOf(x)
               h == TextsOf(y)
    <3>1. x \in Seq(Said) /\ y \in Seq(Said) /\ s = x \o y BY <2>2
    <3> HIDE DEF x, y, s
    <3>2. g \in Seq(AnyText) /\ h \in Seq(AnyText) /\ TextsOf(x \o y) = g \o h
      BY <3>1, TextsOfFacts
    <3> HIDE DEF g, h
    <3>3. Len(g \o h) = Len(g) + Len(h) BY <3>2, ConcatProperties
    <3> QED BY <3>1, <3>2, <3>3 DEF g, h, x, y
  <2>8. Len(TextsOf(Posted(posted, c))) = Len(Filter(posted, [to: {{c}, Clients}, msg: AnyText]))
    BY <2>2, TasksWithTexts
  <2>9. before'[c] = Len(e)
    <3>1. before'[c] = TextsComing(c) BY <1>1, <2>1 DEF Base, TypeInv
    <3>2. TextsComing(c) = Len(o) + Len(TextsOf(coming[c]))
                            + Len(Filter(posted, [to: {{c}, Clients}, msg: AnyText]))
      BY DEF TextsComing
    <3> DEFINE i == Len(o)
               j == Len(TextsOf(coming[c]))
               k == Len(TextsOf(Posted(posted, c)))
    <3>3. i \in Nat /\ j \in Nat /\ k \in Nat
      <4>1. TextsOf(coming[c]) \in Seq(AnyText) /\ TextsOf(Posted(posted, c)) \in Seq(AnyText)
        BY <2>2, TextsOfFacts
      <4> QED BY <2>2, <4>1, LenProperties
    <3>4. before'[c] = (i + j) + k /\ Len(e) = i + (j + k) BY <2>6, <2>7, <2>8, <3>1, <3>2
    <3> HIDE DEF i, j, k, e
    <3> QED BY <3>3, <3>4
  <2>10. messages'[c] \o TextsOf(Stream(c)') = e \o d BY <1>7, <2>4, <2>5, <2>6, <2>11
  <2>12. PICK z \in Seq(Texts) : z = d BY <2>2
  <2> HIDE DEF e
  <2>13. messages'[c] \o TextsOf(Stream(c)') = e \o z BY <2>10, <2>12
  <2>14. IsLog(z)'
    <3>1. \A k \in 1..Len(z) : z[k] \in Handled /\ z[k] \in Storable
      <4>1. \A k \in 1..Len(z) : z[k] \in Handled /\ z[k] \in Texts
        BY <2>12, KnownKinds DEF Base, TypeInv
      <4> QED BY <2>12, <4>1, LineKinds DEF FreshInv, Storable
    <3>2. z \in Seq(Handled) /\ z \in Seq(Storable) BY <3>1, SeqIn
    <3>3. Filter(z, Storable) = z BY <3>2, FilterPure
    <3>4. Handled' = Handled /\ Storable' = Storable /\ db' = z BY <1>3, <2>12 DEF Handled, Storable
    <3> QED BY <3>2, <3>3, <3>4 DEF IsLog
  <2> QED BY <2>6, <2>9, <2>13, <2>14 DEF LogOf
<1>19. ASSUME c \in Members', NEW u \in DOMAIN users' PROVE Told(c, u)'
  <2>1. link[c] = "up" BY <1>3, <1>19 DEF Members
  <2>2. Stream(c)' = Stream(c) \o w /\ usersMap'[c] = usersMap[c] BY <1>3, <1>12, <2>1
  <2>3. Latest(w, u, UserStatus(users', u)) BY <1>7
  <2> QED BY <1>7, <2>1, <2>2, <2>3, ToldExtended
<1> QED BY <1>17, <1>18, <1>19 DEF S, Agreed, LogInv, ViewInv, Present

\* Every step keeps what the members have and get; the inductive invariant of Agreement.
LEMMA AgreedStep == Base /\ SourceInv /\ FreshInv /\ Agreed /\ [Next]_vars => Agreed'
<1> SUFFICES ASSUME Base, SourceInv, FreshInv, Agreed, [Next]_vars PROVE Agreed'
  OBVIOUS
<1>1. CASE UNCHANGED vars
  <2>1. UNCHANGED <<live, coming, posted, names, db, users, messages, usersMap, before, link,
                    unstored, cut>>
    BY <1>1 DEF vars, fanout, connection, server, client, ghosts, losses
  <2>2. Members' = Members BY <2>1 DEF Members
  <2>3. \A c \in Members' : Stream(c)' = Stream(c)
    BY <2>1, <2>2 DEF Stream, Posted
  <2> QED BY <2>1, <2>2, <2>3, QuietAgreed
<1>2. CASE Next
  BY <1>2, LinkAgreed, DeliverAgreed, RunTaskAgreed, LostAgreed, KillAgreed, IntroAgreed,
     NewMessageAgreed DEF Next, Handle
<1> QED BY <1>1, <1>2

\* At the beginning nobody is a member.
LEMMA AgreedInit == Init => Agreed
<1> SUFFICES ASSUME Init PROVE Agreed
  OBVIOUS
<1>1. Members = {} /\ Present = {} BY DEF Init, Members, Present
<1>2. \A c \in Clients : DOMAIN usersMap[c] = {} BY DEF Init
<1> QED BY <1>1, <1>2 DEF Agreed, LogInv, ViewInv

\* What is kept gives Agreement, in every state.
LEMMA AgreedAgree == Base /\ Agreed => Agreement
<1> SUFFICES ASSUME Base, Agreed, posted = <<>>, NEW c \in Members, coming[c] = <<>>
             PROVE  /\ c \in cut \/ View(c) = db
                    /\ \A u \in DOMAIN usersMap[c] \ {NoName} : u \in DOMAIN users
                    /\ \A u \in DOMAIN users : u \in DOMAIN usersMap[c] /\ usersMap[c][u] = users[u]
  BY DEF Agreement
<1>1. c \in Clients /\ link[c] = "up" BY DEF Members, Base, TypeInv
<1> DEFINE o == messages[c]
           s == Stream(c)
<1>2. o \in Seq(Texts) /\ s = coming[c] \o Posted(posted, c) BY <1>1, MemberStream
<1>3. s = <<>>
  <2>1. <<>> \in Seq(TasksOf(Said)) /\ <<>> \in Seq(Said) OBVIOUS
  <2>2. Posted(<<>>, c) = <<>> BY <1>1, <2>1, PostedFacts
  <2>3. <<>> \o <<>> = <<>> BY <2>1, ConcatEmptySeq
  <2> QED BY <1>2, <2>2, <2>3
<1>4. ASSUME c \notin cut PROVE View(c) = db
  <2>1. LogOf(c) BY <1>4 DEF Agreed, LogInv, Present
  <2>2. PICK p, r \in Seq(Texts) : Len(p) = before[c] /\ o \o TextsOf(s) = p \o r /\ IsLog(r)
    BY <2>1 DEF LogOf
  <2>3. o = p \o r
    <3>1. TextsOf(<<>>) = <<>> BY FilterEmpty DEF TextsOf
    <3>2. o \o <<>> = o
      <4> HIDE DEF o
      <4> QED BY <1>2, ConcatEmptySeq
    <3> QED BY <1>3, <2>2, <3>1, <3>2
  <2>4. SubSeq(o, before[c] + 1, Len(o)) = r
    <3>1. /\ Len(p \o r) = Len(p) + Len(r) /\ Len(p) \in Nat /\ Len(r) \in Nat
          /\ SubSeq(p \o r, Len(p \o r) - Len(r) + 1, Len(p \o r)) = r
      BY ConcatProperties, LenProperties, LastOfConcat
    <3>2. Len(p \o r) - Len(r) + 1 = before[c] + 1 BY <2>2, <3>1
    <3> HIDE DEF o
    <3> QED BY <2>3, <3>1, <3>2
  <2> QED BY <2>2, <2>4 DEF View, IsLog
<1>5. \A u \in DOMAIN users : Shows(c, u)
  <2> SUFFICES ASSUME NEW u \in DOMAIN users PROVE Shows(c, u)
    OBVIOUS
  <2>1. Told(c, u) BY DEF Agreed, ViewInv
  <2>2. Len(<<>>) = 0 /\ 1..0 = {} BY SMT
  <2>3. ~Latest(s, u, UserStatus(users, u)) BY <1>3, <2>2 DEF Latest
  <2> QED BY <2>1, <2>3 DEF Told
<1>6. DOMAIN usersMap[c] \subseteq DOMAIN users \cup {NoName} BY <1>1 DEF Agreed, ViewInv
<1> QED BY <1>4, <1>5, <1>6 DEF Shows

\* When nothing is on its way, every member shows what the server holds, but for the texts whose
\* insert failed and the members whose history broke off (data_manager.cpp:47-132, client
\* data_manager.cpp:73-89).
THEOREM AgreementHolds == Spec => []Agreement
BY BaseInit, BaseStep, SourceInit, SourceStep, FreshInit, FreshStep, AgreedInit, AgreedStep,
   AgreedAgree, PTL DEF Spec

\* What anybody ever saw is in the table, unless its insert failed, and then every member shows
\* it when nothing is on its way, after any number of kills and restarts
\* (data_manager.cpp:66-70, 104-105, db_manager.cpp:77-142).
THEOREM SeenIsShownHolds == Spec => []SeenIsShown
<1>1. Base /\ SeenInv /\ Agreement => SeenIsShown
  <2> SUFFICES ASSUME Base, SeenInv, Agreement, posted = <<>>,
                      NEW c \in Members \ cut, coming[c] = <<>>, NEW m \in seen \ unstored
               PROVE  \E k \in DOMAIN View(c) : View(c)[k] = m
    BY DEF SeenIsShown
  <2>1. View(c) = db BY DEF Agreement
  <2>2. m \in Handled BY DEF SeenInv
  <2>3. \E k \in 1..Len(db) : m = db[k] BY <2>2, KnownKinds DEF Base, TypeInv
  <2>4. DOMAIN db = 1..Len(db) BY LenProperties DEF Base, TypeInv
  <2> QED BY <2>1, <2>3, <2>4
<1> QED BY <1>1, BaseInit, BaseStep, SourceInit, SourceStep, FreshInit, FreshStep, SeenInit, SeenStep,
           AgreedInit, AgreedStep, AgreedAgree, PTL DEF Spec

(***************************************************************************)
(* The chat takes only the steps of the room.                              *)
(***************************************************************************)
\* What the views are, before and after a step.
LEMMA ViewsAre ==
    /\ Views = [c \in Clients |-> IF c \in Present THEN View(c) ELSE <<>>]
    /\ Views' = [c \in Clients |-> IF c \in Present' THEN View(c)' ELSE <<>>]
BY DEF Views, Present

\* Those in S leave, and nothing else happens in the room.
Left(S) ==
    /\ Present' = Present \ S /\ db' = db
    /\ \A c \in Present' : View(c)' = View(c)

\* A step in which somebody leaves, or in which nothing happens in the room.
LEMMA LeaveStep == \A S \in SUBSET Clients : Left(S) => TheRoom!Next
<1> SUFFICES ASSUME NEW S \in SUBSET Clients, Left(S) PROVE TheRoom!Next
  OBVIOUS
<1>1. Views' = [c \in Clients |-> IF c \in S THEN <<>> ELSE Views[c]] BY ViewsAre DEF Left
<1>2. TheRoom!Leave(S) BY <1>1 DEF Left, Present, TheRoom!Leave
<1> QED BY <1>2 DEF TheRoom!Next

\* Those in S leave, the others get nothing, and nothing is taken in.
Still(S) ==
    /\ Present' = Present \ S /\ UNCHANGED <<db, unstored>>
    /\ \A c \in Present' : messages'[c] = messages[c] /\ before'[c] = before[c]

LEMMA StillStep == \A S \in SUBSET Clients : Still(S) => TheRoom!Next
<1> SUFFICES ASSUME NEW S \in SUBSET Clients, Still(S) PROVE TheRoom!Next
  OBVIOUS
<1>1. \A c \in Present' : View(c)' = View(c) BY DEF Still, View, Storable
<1>2. Left(S) BY <1>1 DEF Still, Left
<1> QED BY <1>2, LeaveStep

\* The steps between the clients and the server that leave the room as it is, or that somebody
\* leaves it with.
LEMMA OutsideRoom ==
    ASSUME Base,
           \/ \E c \in Clients : Connect(c) \/ Type(c) \/ Accept(c) \/ Break(c) \/ ReadError(c) \/ WriteError(c)
           \/ RunTask \/ Kill
    PROVE  TheRoom!Next
<1> USE DEF Base
<1>1. ASSUME NEW c \in Clients, Connect(c) PROVE TheRoom!Next
  <2>1. /\ link[c] = "none" /\ link' = [link EXCEPT ![c] = "up"]
        /\ UNCHANGED <<live, names, db, messages, before, unstored, cut>>
    BY <1>1 DEF Connect, fanout, server, losses
  <2>2. c \notin live BY <2>1 DEF LinkInv
  <2>3. Present' = Present \ {} BY <2>1, <2>2 DEF Present, Members, TypeInv
  <2>9. Still({}) BY <2>1, <2>3 DEF Still
  <2> QED BY <2>9, StillStep
<1>2. ASSUME NEW c \in Clients, Type(c) PROVE TheRoom!Next
  <2>1. UNCHANGED <<link, live, names, db, messages, before, unstored, cut>>
    BY <1>2 DEF Type, fanout, server, losses
  <2>2. Present' = Present \ {} BY <2>1 DEF Present, Members
  <2>9. Still({}) BY <2>1, <2>2 DEF Still
  <2> QED BY <2>9, StillStep
<1>3. ASSUME NEW c \in Clients, Accept(c) PROVE TheRoom!Next
  <2>1. /\ live' = live \cup {c} /\ peer[c] = "none"
        /\ UNCHANGED <<link, names, db, messages, before, unstored, cut>>
    BY <1>3 DEF Accept, client, server, ghosts, losses
  <2>2. names[c] = NoName BY <2>1 DEF LinkInv
  <2>3. Present' = Present \ {} BY <2>1, <2>2 DEF Present, Members
  <2>9. Still({}) BY <2>1, <2>3 DEF Still
  <2> QED BY <2>9, StillStep
<1>4. ASSUME NEW c \in Clients, Break(c) PROVE TheRoom!Next
  <2>1. /\ link' = [link EXCEPT ![c] = "down"] /\ UNCHANGED <<live, names, db, unstored>>
        /\ messages' = [d \in Clients |-> IF d \in {c} THEN <<>> ELSE messages[d]]
        /\ before' = [d \in Clients |-> IF d \in {c} THEN 0 ELSE before[d]]
        /\ cut' = cut \ {c}
    BY <1>4 DEF Break, Forget, server
  <2>2. Present' = Present \ {c} BY <2>1 DEF Present, Members, TypeInv
  <2>3. Present' \subseteq Clients BY <2>2 DEF Present, Members, TypeInv
  <2>9. Still({c}) BY <2>1, <2>2, <2>3 DEF Still
  <2> QED BY <2>9, StillStep
<1>5. ASSUME NEW c \in Clients, ReadError(c) \/ WriteError(c) PROVE TheRoom!Next
  <2>1. live' = live \ {c} /\ UNCHANGED <<link, names, db, messages, before, unstored, cut>>
    BY <1>5 DEF ReadError, WriteError, onDisconnect, client, ghosts, losses
  <2>2. Present' = Present \ {c} BY <2>1 DEF Present, Members
  <2>9. Still({c}) BY <2>1, <2>2 DEF Still
  <2> QED BY <2>9, StillStep
<1>6. CASE RunTask
  <2>1. UNCHANGED <<link, live, names, db, messages, before, unstored, cut>>
    BY <1>6 DEF RunTask, client, server, ghosts, losses
  <2>2. Present' = Present \ {} BY <2>1 DEF Present, Members
  <2>9. Still({}) BY <2>1, <2>2 DEF Still
  <2> QED BY <2>9, StillStep
<1>7. CASE Kill
  <2>1. live' = {} /\ db' = db /\ unstored' = unstored BY <1>7 DEF Kill, Kept
  <2>2. Present' = Present \ Clients /\ Present' = {} BY <2>1 DEF Present, Members, TypeInv
  <2>9. Still(Clients) BY <2>1, <2>2 DEF Still
  <2> QED BY <2>9, StillStep
<1> QED BY <1>1, <1>2, <1>3, <1>4, <1>5, <1>6, <1>7

\* A text that is stored is said in the room; one whose insert failed is nothing to it.
LEMMA SayStep ==
    ASSUME Base, SourceInv, FreshInv, SeenInv, NEW c \in Clients, OnNewMessage(c)
    PROVE  TheRoom!Next
<1>1. PICK n \in Serials :
        /\ addMessageEntry(Text(n, names[c])) /\ n = Head(up[c])
        /\ UNCHANGED <<fanout, users, names, kills, name, link, messages,
                       usersMap, typed, before, seen, cut>>
  BY DEF OnNewMessage, Received
<1> DEFINE m == Text(n, names[c])
<1>2. m \in Texts /\ m \notin Handled
  <2>1. m \in Texts BY DEF Base, TypeInv, Text, Texts
  <2> QED BY <1>1, <2>1, NewMessageFresh
<1>3. UNCHANGED <<live, names, link, messages, before, cut>> /\ addMessageEntry(m) BY <1>1 DEF fanout
<1>4. Present' = Present BY <1>3 DEF Present, Members
<1> HIDE DEF m
<1>5. \A d \in Present : View(d)' = View(d)
  <2> SUFFICES ASSUME NEW d \in Present PROVE View(d)' = View(d)
    OBVIOUS
  <2> DEFINE o == messages[d]
             b == before[d]
             x == SubSeq(o, b + 1, Len(o))
             G == Storable
             H == Storable'
  <2>1. o \in Seq(Handled) /\ b \in Nat BY DEF Present, Members, SeenInv, Base, TypeInv
  <2>2. x \in Seq(Handled)
    <3>1. Len(o) \in Nat /\ \A k \in 1..Len(o) : o[k] \in Handled BY <2>1, LenProperties, ElementOfSeq
    <3> HIDE DEF o, b
    <3> QED BY <2>1, <3>1, SubSeqProperties
  <2>3. Handled \cap G = Handled \cap H BY <1>2, <1>3 DEF addMessageEntry, Storable
  <2>4. View(d) = Filter(x, G) /\ View(d)' = Filter(x, H) BY <1>3 DEF View
  <2> HIDE DEF x, G, H
  <2> QED BY <2>2, <2>3, <2>4, FilterSame
<1>6. CASE db' = Append(db, m)
  <2>1. Views' = Views BY <1>4, <1>5, ViewsAre
  <2>2. TheRoom!Say(m) BY <1>4, <1>6, <2>1 DEF TheRoom!Say, Present
  <2> QED BY <1>2, <2>2 DEF TheRoom!Next
<1>7. CASE db' = db
  <2>1. Left({}) BY <1>4, <1>5, <1>7 DEF Left
  <2> QED BY <2>1, LeaveStep
<1> QED BY <1>3, <1>6, <1>7 DEF addMessageEntry

\* A client that introduces itself enters the room, when it is still connected at both ends and
\* its history is whole.
LEMMA EnterStep ==
    ASSUME Base, SourceInv, NEW c \in Clients, OnInitialConnection(c)
    PROVE  TheRoom!Next
<1>1. /\ up[c] # <<>> /\ Head(up[c]) = Hello
      /\ names' = [names EXCEPT ![c] = name[c]]
      /\ before' = [before EXCEPT ![c] = IF link[c] = "up" THEN TextsComing(c) ELSE 0]
      /\ UNCHANGED <<live, db, link, messages, unstored>> /\ (cut' = cut \/ cut' = cut \cup {c})
  BY DEF OnInitialConnection, Received, Introduced, fanout
<1>2. names[c] = NoName
  <2>1. up[c] \in Seq(Nat) BY DEF Base, TypeInv
  <2>2. Len(up[c]) \in Nat /\ Len(up[c]) > 0 /\ up[c][1] = Hello BY <1>1, <2>1
  <2>3. 1 \in 1..Len(up[c]) BY <2>2
  <2> QED BY <2>2, <2>3 DEF SourceInv, SourceOf
<1>3. /\ names'[c] = name[c] /\ name[c] # NoName
      /\ \A d \in Clients : d # c => names'[d] = names[d] /\ before'[d] = before[d]
  BY <1>1, NamesAssumption DEF Base, TypeInv
<1>4. c \notin Present BY <1>2 DEF Present, Members
<1>5. \A d \in Present : d \in Clients /\ d # c /\ View(d)' = View(d)
  BY <1>1, <1>3, <1>4 DEF Present, Members, View, Storable, Base, TypeInv
<1>6. CASE c \in live /\ link[c] = "up" /\ c \notin cut'
  <2>1. Present' = Present \cup {c} BY <1>1, <1>3, <1>6 DEF Present, Members, Base, TypeInv
  <2>2. View(c)' = <<>>
    <3> DEFINE o == messages[c]
               n == Len(o)
               i == Len(TextsOf(coming[c]))
               G == [to: {{c}, Clients}, msg: AnyText]
               f == Filter(posted, G)
               j == Len(f)
    <3>1. /\ o \in Seq(Texts) /\ TextsOf(coming[c]) \in Seq(AnyText) /\ posted \in Seq(TasksOf(Said))
      BY <1>6, MemberStream, TextsOfFacts
    <3>2. f \in Seq(TasksOf(Said) \cap G)
      <4> DEFINE T == TasksOf(Said)
      <4> HIDE DEF T, G
      <4>1. posted \in Seq(T) BY <3>1 DEF T
      <4> QED BY <4>1, FilterType DEF T
    <3>3. n \in Nat /\ i \in Nat /\ j \in Nat
      <4> HIDE DEF o, f
      <4> QED BY <3>1, <3>2, LenProperties
    <3>4. before'[c] = n + i + j /\ messages'[c] = o
      <4>1. before'[c] = TextsComing(c) BY <1>1, <1>6 DEF Base, TypeInv
      <4> QED BY <1>1, <4>1 DEF TextsComing
    <3> DEFINE b == before'[c]
    <3> HIDE DEF i, j
    <3>5. b \in Int /\ b + 1 \in Int /\ n \in Int /\ n < b + 1 BY <3>3, <3>4
    <3> HIDE DEF b, n
    <3>6. SubSeq(o, b + 1, n) = <<>> BY <3>5, SubSeqEmpty
    <3> QED BY <3>4, <3>6, FilterEmpty DEF View, b, n
  <2>3. Views' = Views
    <3>1. ASSUME NEW d \in Clients
          PROVE  (IF d \in Present' THEN View(d)' ELSE <<>>) = (IF d \in Present THEN View(d) ELSE <<>>)
      BY <1>4, <1>5, <2>1, <2>2
    <3> QED BY <3>1, ViewsAre
  <2>4. TheRoom!Enter(c) BY <1>1, <1>4, <2>1, <2>3 DEF TheRoom!Enter, Present
  <2> QED BY <2>4 DEF TheRoom!Next
<1>7. CASE ~(c \in live /\ link[c] = "up" /\ c \notin cut')
  <2>1. Present' = Present \ {} BY <1>1, <1>3, <1>4, <1>7 DEF Present, Members, Base, TypeInv
  <2>2. Left({}) BY <1>1, <1>5, <2>1 DEF Left
  <2> QED BY <2>2, LeaveStep
<1> QED BY <1>6, <1>7

\* A text that a member handles is the next one of the log, unless it was on its way before the
\* member's history or its insert failed.
LEMMA SeeStep ==
    ASSUME Base, Agreed, NEW c \in Clients, Deliver(c)
    PROVE  TheRoom!Next
<1> DEFINE m == Head(coming[c])
           o == messages[c]
<1>1. /\ link[c] = "up" /\ coming[c] # <<>>
      /\ UNCHANGED <<live, db, names, link, before, posted, unstored, cut>>
      /\ coming' = [coming EXCEPT ![c] = Tail(coming[c])]
      /\ \/ m.type = "text" /\ messages' = [messages EXCEPT ![c] = Append(o, m)]
         \/ messages' = messages
  BY DEF Deliver, server, connection, losses
<1>2. Members' = Members /\ Present' = Present \ {} BY <1>1 DEF Members, Present
<1>3. CASE messages' = messages
  <2>1. Left({}) BY <1>1, <1>2, <1>3 DEF Left, View, Storable
  <2> QED BY <2>1, LeaveStep
<1>4. CASE c \notin Present
  <2>1. \A d \in Present' : d \in Clients /\ d # c BY <1>2, <1>4 DEF Present, Members, Base, TypeInv
  <2>2. \A d \in Present' : messages'[d] = messages[d] BY <1>1, <2>1 DEF Base, TypeInv
  <2>3. Left({}) BY <1>1, <1>2, <2>2 DEF Left, View, Storable
  <2> QED BY <2>3, LeaveStep
<1>5. CASE c \in Present /\ m.type = "text" /\ messages' = [messages EXCEPT ![c] = Append(o, m)]
  <2> DEFINE b == before[c]
             H == Storable
             r == TextsOf(Tail(coming[c]) \o Posted(posted, c))
             f == <<m>>
  <2>1. o \in Seq(Texts) /\ b \in Nat BY DEF Base, TypeInv
  <2>2. coming[c] \in Seq(Said) /\ Posted(posted, c) \in Seq(Said)
        /\ Stream(c) = coming[c] \o Posted(posted, c)
    BY <1>1, MemberStream
  <2>3. m \in Texts
    <3>1. m \in Said BY <1>1, <2>2, HeadTailProperties
    <3> QED BY <1>5, <3>1, LineKinds
  <2>4. f \in Seq(Said) /\ f \in Seq(Texts) /\ Tail(coming[c]) \in Seq(Said)
    <3>1. m \in Said BY <2>3 DEF Said
    <3>2. Tail(coming[c]) \in Seq(Said) BY <1>1, <2>2, HeadTailProperties
    <3> QED BY <2>3, <3>1, <3>2
  <2>5. Stream(c) = f \o (Tail(coming[c]) \o Posted(posted, c))
        /\ Tail(coming[c]) \o Posted(posted, c) \in Seq(Said)
    <3> DEFINE x == Tail(coming[c])
               y == Posted(posted, c)
               z == coming[c]
               e == <<>>
    <3>1. e \in Seq(Said) /\ Append(e, m) = f OBVIOUS
    <3>2. x \in Seq(Said) /\ y \in Seq(Said) /\ z \in Seq(Said) /\ z # <<>> BY <1>1, <2>2, <2>4
    <3>3. e \o z = z BY <3>2, ConcatEmptySeq
    <3>4. Append(e, Head(z)) \o Tail(z) = e \o z
      <4> HIDE DEF e, z
      <4> QED BY <3>1, <3>2, MoveFront
    <3>5. f \o x = z BY <3>1, <3>3, <3>4
    <3> HIDE DEF x, y, z, f
    <3>6. (f \o x) \o y = f \o (x \o y) /\ x \o y \in Seq(Said)
      <4>1. f \in Seq(Said) BY <2>4
      <4>2. InARow(f, x, y) BY <3>2, <4>1, Associative
      <4>3. x \o y \in Seq(Said) BY <3>2, ConcatProperties
      <4> QED BY <4>2, <4>3 DEF InARow
    <3> QED BY <2>2, <3>5, <3>6 DEF x, y, z
  <2>6. r \in Seq(Texts) /\ TextsOf(Stream(c)) = f \o r
    <3> DEFINE x == Tail(coming[c]) \o Posted(posted, c)
    <3>1. x \in Seq(Said) /\ f \in Seq(Said) /\ Stream(c) = f \o x BY <2>4, <2>5
    <3>2. Said \cap AnyText \subseteq Texts BY LineKinds DEF Said
    <3>3. TextsOf(f) = f
      <4>1. f \in Seq(Texts) /\ Texts \subseteq AnyText BY <2>4, LineKinds
      <4> HIDE DEF f
      <4> QED BY <4>1, TextsOfFacts
    <3> HIDE DEF x, f
    <3>4. TextsOf(x) \in Seq(Texts) /\ TextsOf(f \o x) = TextsOf(f) \o TextsOf(x)
      <4>1. TextsSplit(f, x) BY <3>1, SaidExtended
      <4> QED BY <4>1 DEF TextsSplit
    <3> QED BY <3>1, <3>3, <3>4 DEF x
  <2>7. LogOf(c) BY <1>5 DEF Agreed, LogInv
  <2>8. PICK p, z \in Seq(Texts) :
          Len(p) = b /\ o \o TextsOf(Stream(c)) = p \o z /\ IsLog(z)
    BY <2>7 DEF LogOf
  <2> DEFINE a == Append(o, m)
             n == Len(o)
             x == SubSeq(o, b + 1, n)
             w == SubSeq(a, b + 1, n + 1)
             v == Filter(x, H)
             q == Filter(r, H)
  <2> HIDE DEF r
  <2>9. a \o r = p \o z
    <3>1. o \o (f \o r) = a \o r
      <4>1. o \in Seq(Texts) /\ r \in Seq(Texts) /\ m \in Texts BY <2>1, <2>3, <2>6
      <4> HIDE DEF o, m
      <4> QED BY <4>1, AppendInside
    <3> QED BY <2>6, <2>8, <3>1
  <2>10. a \in Seq(Texts) /\ Len(a) = n + 1 /\ n \in Nat
    <3>1. o \in Seq(Texts) /\ m \in Texts BY <2>1, <2>3
    <3> HIDE DEF o, m
    <3> QED BY <3>1, AppendProperties, LenProperties
  <2>11. /\ b <= n => x \in Seq(Texts) /\ w = Append(x, m)
         /\ ~(b <= n) => x = <<>> /\ w = <<>>
    <3>1. o \in Seq(Texts) /\ m \in Texts /\ b \in Nat BY <2>1, <2>3
    <3> HIDE DEF o, m, f, b
    <3>2. EndGrows(Texts, o, m, b) BY <3>1, EndAppend
    <3> QED BY <3>2 DEF EndGrows
  <2>12. View(c) = v /\ View(c)' = Filter(w, H)
    <3>1. messages'[c] = a /\ before'[c] = b BY <1>1, <1>5 DEF Base, TypeInv
    <3> HIDE DEF a
    <3> QED BY <1>1, <2>10, <3>1 DEF View, Storable
  <2>13. \A y \in Present : y # c => View(y)' = View(y)
    BY <1>1, <1>5 DEF View, Storable, Present, Members, Base, TypeInv
  <2>14. CASE ~(b <= n)
    <3>1. View(c)' = View(c) BY <2>11, <2>12, <2>14
    <3>2. Left({}) BY <1>1, <1>2, <2>13, <3>1 DEF Left
    <3> QED BY <3>2, LeaveStep
  <2>15. CASE b <= n /\ m \notin H
    <3>1. Filter(Append(x, m), H) = v
      <4>1. x \in Seq(Texts) /\ m \in Texts BY <2>3, <2>11, <2>15
      <4> HIDE DEF x, m, H
      <4> QED BY <2>15, <4>1, FilterAppend
    <3>2. View(c)' = View(c) BY <2>11, <2>12, <2>15, <3>1
    <3>3. Left({}) BY <1>1, <1>2, <2>13, <3>2 DEF Left
    <3> QED BY <3>3, LeaveStep
  <2>16. CASE b <= n /\ m \in H
    <3>1. x \in Seq(Texts) /\ m \in Texts /\ r \in Seq(Texts) /\ w = Append(x, m)
      BY <2>3, <2>6, <2>11, <2>16
    <3> HIDE DEF m
    <3>2. z = Append(x, m) \o r
      <4>1. Len(p) <= Len(a) BY <2>1, <2>8, <2>10, <2>16
      <4> HIDE DEF a, x, w, b
      <4>2. RestIs(a, r, p, z) BY <2>6, <2>8, <2>9, <2>10, <4>1, RestOfConcat
      <4>3. w = SubSeq(a, Len(p) + 1, Len(a)) BY <2>8, <2>10 DEF w
      <4> QED BY <3>1, <4>2, <4>3 DEF RestIs
    <3> HIDE DEF x, a
    <3>3. Filter(Append(x, m), H) = Append(v, m)
      <4> HIDE DEF H
      <4> QED BY <2>16, <3>1, FilterAppend
    <3>4. db = Append(v, m) \o q
      <4>1. Append(x, m) \in Seq(Texts) BY <3>1, AppendProperties
      <4> DEFINE e == Append(x, m)
      <4>2. e \in Seq(Texts) /\ Filter(e, H) = Append(v, m) /\ z = e \o r BY <3>2, <3>3, <4>1
      <4> HIDE DEF e, v
      <4>3. Filter(e \o r, H) = Filter(e, H) \o Filter(r, H)
        <5>1. r \in Seq(Texts) /\ e \in Seq(Texts) BY <3>1, <4>2
        <5> HIDE DEF H
        <5> QED BY <5>1, FilterConcat
      <4> QED BY <2>8, <4>2, <4>3 DEF IsLog
    <3>5. v \in Seq(Texts) /\ q \in Seq(Texts)
      <4>1. Filter(x, H) \in Seq(Texts \cap H) /\ Filter(r, H) \in Seq(Texts \cap H)
        <5> HIDE DEF H
        <5> QED BY <3>1, FilterType
      <4> QED BY <4>1, SeqMonotonic
    <3> HIDE DEF v, q
    <3>6. Len(v) < Len(db) /\ m = db[Len(v) + 1]
      <4> DEFINE e == Append(v, m)
      <4>1. e \in Seq(Texts) /\ Len(e) = Len(v) + 1 /\ e[Len(v) + 1] = m /\ Len(v) \in Nat
        BY <3>1, <3>5, AppendProperties, LenProperties
      <4> HIDE DEF e
      <4>2. /\ Len(e \o q) = Len(e) + Len(q) /\ Len(q) \in Nat
            /\ \A k \in 1..(Len(e) + Len(q)) : (e \o q)[k] = IF k <= Len(e) THEN e[k] ELSE q[k - Len(e)]
        BY <3>5, <4>1, ConcatProperties, LenProperties
      <4>3. db = e \o q BY <3>4 DEF e
      <4>4. Len(v) + 1 \in 1..(Len(e) + Len(q)) /\ Len(v) + 1 <= Len(e) BY <4>1, <4>2
      <4> QED BY <4>1, <4>2, <4>3, <4>4
    <3>7. View(c)' = Append(v, m) BY <2>12, <3>1, <3>3
    <3>8. Views[c] = v /\ Views' = [Views EXCEPT ![c] = Append(v, m)]
      <4>1. \A y \in Clients : IF y = c THEN Views'[y] = Append(v, m) ELSE Views'[y] = Views[y]
        BY <1>2, <1>5, <2>13, <3>7, ViewsAre
      <4> QED BY <1>5, <2>12, <4>1, ViewsAre
    <3>9. TheRoom!See(c)
      BY <1>1, <1>2, <1>5, <3>6, <3>8 DEF TheRoom!See, TheRoom!Behind, Present
    <3> QED BY <3>9 DEF TheRoom!Next
  <2> QED BY <2>14, <2>15, <2>16
<1> QED BY <1>1, <1>3, <1>4, <1>5

\* Every step of the chat is a step of the room or leaves it as it is: the safety part of
\* ImplementsRoom (data_manager.cpp:47-132, client data_manager.cpp:73-89).
THEOREM StepsAreTheRooms == Spec => TheRoom!Init /\ [][TheRoom!Next]_(TheRoom!vars)
<1>1. Init => TheRoom!Init
  <2> SUFFICES ASSUME Init PROVE TheRoom!Init
    OBVIOUS
  <2>1. Present = {} /\ db = <<>> BY DEF Init, Members, Present
  <2>2. Views = [c \in Clients |-> <<>>] BY <2>1, ViewsAre
  <2> QED BY <2>1, <2>2 DEF TheRoom!Init, Present
<1>2. Base /\ Agreed /\ SourceInv /\ FreshInv /\ SeenInv /\ [Next]_vars
        => [TheRoom!Next]_(TheRoom!vars)
  <2> SUFFICES ASSUME Base, Agreed, SourceInv, FreshInv, SeenInv, [Next]_vars
               PROVE  [TheRoom!Next]_(TheRoom!vars)
    OBVIOUS
  <2>1. CASE UNCHANGED vars
    <3>1. UNCHANGED <<live, names, db, messages, before, link, unstored, cut>>
      BY <2>1 DEF vars, fanout, server, client, ghosts, losses
    <3>2. Members' = Members BY <3>1 DEF Members
    <3>3. Views' = Views BY <3>1, <3>2 DEF Views, View, Storable
    <3> QED BY <3>1, <3>2, <3>3 DEF TheRoom!vars
  <2>2. CASE Next
    <3>1. TheRoom!Next
      BY <2>2, OutsideRoom, SayStep, EnterStep, SeeStep DEF Next, Handle
    <3> QED BY <3>1
  <2> QED BY <2>1, <2>2
<1> QED BY <1>1, <1>2, BaseInit, BaseStep, SourceInit, SourceStep, FreshInit, FreshStep, SeenInit,
           SeenStep, AgreedInit, AgreedStep, PTL DEF Spec

=============================================================================
