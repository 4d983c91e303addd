--------------------------- MODULE ChatRuleFacts ----------------------------
(***************************************************************************)
(* Facts about ChatRules that the proofs of the server and those of the    *)
(* whole chat need: the map of users after a step, what is sent about it,  *)
(* the texts of a stream and the status that was told last.                *)
(***************************************************************************)
EXTENDS ChatRules, SequenceFacts

(***************************************************************************)
(* The map of users and what is told of it.                                *)
(***************************************************************************)
IsMap(map) == DOMAIN map \subseteq Users /\ \A u \in DOMAIN map : map[u] \in [online: BOOLEAN, color: Colors]

\* The parts of a status.
LEMMA StatusParts ==
    ASSUME NEW map, NEW u
    PROVE  /\ UserStatus(map, u).type = "status" /\ UserStatus(map, u).user = u
           /\ UserStatus(map, u).online = map[u].online /\ UserStatus(map, u).color = map[u].color
           /\ OfflineStatus(map, u).type = "status" /\ OfflineStatus(map, u).user = u
           /\ ~OfflineStatus(map, u).online
BY DEF UserStatus, OfflineStatus, Status

\* The statuses of all the users of a map (data_manager.cpp:72-84).
LEMMA StatusTypes ==
    ASSUME NEW map, IsMap(map)
    PROVE  /\ \A u \in DOMAIN map : UserStatus(map, u) \in Statuses
           /\ KnownStatuses(map) \in Seq(Statuses)
           /\ \A k \in 1..Len(KnownStatuses(map)) :
                 \E u \in DOMAIN map : KnownStatuses(map)[k] = UserStatus(map, u)
<1>1. \A u \in DOMAIN map : UserStatus(map, u) \in Statuses
  BY DEF IsMap, UserStatus, Status, Statuses
<1> DEFINE D == DOMAIN map
           known == Filter(UserOrder, D)
           n == Len(known)
           g == [k \in 1..n |-> UserStatus(map, known[k])]
<1>2. known \in Seq(Users \cap D)
  <2> HIDE DEF D
  <2> QED BY NamesAssumption, FilterType
<1>3. DOMAIN known = 1..n /\ n \in Nat /\ \A k \in 1..n : known[k] \in Users \cap D
  <2> HIDE DEF D, known
  <2> QED BY <1>2, LenProperties, ElementOfSeq DEF n
<1>4. KnownStatuses(map) = g BY <1>3 DEF KnownStatuses
<1>5. g \in [1..n -> Statuses] /\ \A k \in 1..n : \E u \in DOMAIN map : g[k] = UserStatus(map, u)
  BY <1>1, <1>3
<1> HIDE DEF g, n, known
<1>6. g \in Seq(Statuses) /\ Len(g) = n BY <1>3, <1>5, SMT
<1> QED BY <1>1, <1>4, <1>5, <1>6

\* The map after u came online with the colour c.
CameOnline(map, u, c, now) ==
    /\ IsMap(now) /\ u \in DOMAIN now /\ DOMAIN now = DOMAIN map \cup {u}
    /\ now[u].online /\ now[u].color = c
    /\ \A v \in DOMAIN map : now[v].color = map[v].color /\ (v # u => now[v] = map[v])

\* The map after one came back or was registered (data_manager.cpp:52-57).
LEMMA OnlineMap ==
    ASSUME NEW map, IsMap(map), NEW u \in Users, NEW c \in ColorsFor(map, u)
    PROVE  CameOnline(map, u, c, WithOnline(map, u, c))
<1>1. c \in Colors
  BY DEF IsMap, ColorsFor
<1>2. u \in DOMAIN map => c = map[u].color
  BY DEF ColorsFor
<1> QED BY <1>1, <1>2 DEF IsMap, WithOnline, CameOnline

\* The map after a connection was lost (data_manager.cpp:113-125).
LostUser(map, u, now) ==
    /\ IsMap(now) /\ DOMAIN now = DOMAIN map
    /\ \A v \in DOMAIN map : now[v].color = map[v].color /\ (v # u => now[v] = map[v])
    /\ u # NoName => ~now[u].online /\ OfflineStatus(map, u) = UserStatus(now, u)
    /\ OfflineStatus(map, u) \in Statuses

\* What a loss makes of the map and what is told about it (data_manager.cpp:113-132).
LEMMA OfflineMap ==
    ASSUME NEW map, IsMap(map), NEW u \in DOMAIN map \cup {NoName}
    PROVE  LostUser(map, u, WithOffline(map, u))
<1>1. CASE u = NoName
  BY <1>1, NamesAssumption DEF WithOffline, OfflineStatus, Status, Statuses, IsMap, LostUser
<1>2. CASE u # NoName
  <2> DEFINE now == [map EXCEPT ![u].online = FALSE]
  <2>1. u \in DOMAIN map /\ WithOffline(map, u) = now BY <1>2 DEF WithOffline
  <2>2. DOMAIN now = DOMAIN map /\ \A v \in DOMAIN map : v # u => now[v] = map[v]
    OBVIOUS
  <2>3. now[u] = [map[u] EXCEPT !.online = FALSE] BY <2>1
  <2>4. map[u] \in [online: BOOLEAN, color: Colors] BY <2>1 DEF IsMap
  <2>5. now[u].online = FALSE /\ now[u].color = map[u].color
        /\ now[u] \in [online: BOOLEAN, color: Colors]
    BY <2>3, <2>4
  <2> HIDE DEF now
  <2>6. IsMap(now) BY <2>1, <2>2, <2>5 DEF IsMap
  <2>7. OfflineStatus(map, u) = UserStatus(now, u)
    BY <1>2, <2>5 DEF OfflineStatus, UserStatus, Status
  <2>8. UserStatus(now, u) \in Statuses BY <2>1, <2>2, <2>6, StatusTypes
  <2> QED BY <1>2, <2>1, <2>2, <2>5, <2>6, <2>7, <2>8 DEF LostUser
<1> QED BY <1>1, <1>2

(***************************************************************************)
(* Streams: the lines of tasks, and the texts among the lines.             *)
(***************************************************************************)
LinesOf(t)   == [k \in DOMAIN t |-> t[k].msg]

\* The lines of some tasks, in their order.
LEMMA LinesOfFacts ==
    ASSUME NEW T, NEW L, \A h \in T : h.msg \in L, NEW s \in Seq(T)
    PROVE  /\ LinesOf(s) \in Seq(L) /\ Len(LinesOf(s)) = Len(s)
           /\ \A k \in 1..Len(s) : LinesOf(s)[k] = s[k].msg
           /\ \A t \in Seq(T) : LinesOf(s \o t) = LinesOf(s) \o LinesOf(t)
           /\ \A h \in T : LinesOf(<<h>>) = <<h.msg>>
<1>1. \A t \in Seq(T) : /\ LinesOf(t) \in Seq(L) /\ Len(LinesOf(t)) = Len(t) /\ Len(t) \in Nat
                        /\ \A k \in 1..Len(t) : LinesOf(t)[k] = t[k].msg
  <2> SUFFICES ASSUME NEW t \in Seq(T)
               PROVE  /\ LinesOf(t) \in Seq(L) /\ Len(LinesOf(t)) = Len(t) /\ Len(t) \in Nat
                      /\ \A k \in 1..Len(t) : LinesOf(t)[k] = t[k].msg
    OBVIOUS
  <2>1. DOMAIN t = 1..Len(t) /\ Len(t) \in Nat BY LenProperties
  <2>2. \A k \in 1..Len(t) : t[k].msg \in L BY ElementOfSeq
  <2>3. LinesOf(t) = [k \in 1..Len(t) |-> t[k].msg] BY <2>1 DEF LinesOf
  <2> DEFINE g == [k \in 1..Len(t) |-> t[k].msg]
             n == Len(t)
  <2>4. n \in Nat /\ g \in [1..n -> L] /\ LinesOf(t) = g BY <2>1, <2>2, <2>3
  <2>5. \A k \in 1..n : g[k] = t[k].msg OBVIOUS
  <2> HIDE DEF g, n
  <2>6. g \in Seq(L) /\ Len(g) = n BY <2>4, SMT
  <2> QED BY <2>1, <2>4, <2>5, <2>6 DEF n
<1>2. ASSUME NEW t \in Seq(T) PROVE LinesOf(s \o t) = LinesOf(s) \o LinesOf(t)
  <2>1. /\ s \o t \in Seq(T) /\ Len(s \o t) = Len(s) + Len(t)
        /\ \A k \in 1..(Len(s) + Len(t)) : (s \o t)[k] = IF k <= Len(s) THEN s[k] ELSE t[k - Len(s)]
    BY ConcatProperties
  <2> DEFINE a == LinesOf(s)
             b == LinesOf(t)
             c == LinesOf(s \o t)
  <2>2. /\ a \in Seq(L) /\ Len(a) = Len(s) /\ b \in Seq(L) /\ Len(b) = Len(t)
        /\ c \in Seq(L) /\ Len(c) = Len(s) + Len(t) /\ Len(s) \in Nat /\ Len(t) \in Nat
        /\ \A k \in 1..Len(s) : a[k] = s[k].msg
        /\ \A k \in 1..Len(t) : b[k] = t[k].msg
        /\ \A k \in 1..(Len(s) + Len(t)) : c[k] = (s \o t)[k].msg
    BY <1>1, <2>1
  <2> HIDE DEF a, b, c
  <2>3. /\ a \o b \in Seq(L) /\ Len(a \o b) = Len(c)
        /\ \A k \in 1..Len(c) : (a \o b)[k] = IF k <= Len(a) THEN a[k] ELSE b[k - Len(a)]
    <3>1. /\ a \o b \in Seq(L) /\ Len(a \o b) = Len(a) + Len(b)
          /\ \A k \in 1..(Len(a) + Len(b)) :
                (a \o b)[k] = IF k <= Len(a) THEN a[k] ELSE b[k - Len(a)]
      <4>1. a \in Seq(L) /\ b \in Seq(L) BY <2>2
      <4> QED BY <4>1, ConcatProperties
    <3>2. Len(a) + Len(b) = Len(c) BY <2>2
    <3> QED BY <3>1, <3>2
  <2>4. ASSUME NEW k \in 1..Len(c) PROVE c[k] = (a \o b)[k]
    <3>1. CASE k <= Len(s)
      <4>1. k \in 1..Len(s) BY <2>2, <3>1
      <4> QED BY <2>1, <2>2, <2>3, <3>1, <4>1
    <3>2. CASE ~(k <= Len(s))
      <4>1. k - Len(s) \in 1..Len(t) BY <2>2, <3>2
      <4> QED BY <2>1, <2>2, <2>3, <3>2, <4>1
    <3> QED BY <3>1, <3>2
  <2> QED BY <2>2, <2>3, <2>4, SeqEqual DEF a, b, c
<1>3. ASSUME NEW h \in T PROVE LinesOf(<<h>>) = <<h.msg>>
  <2>1. DOMAIN <<h>> = 1..1 /\ <<h>>[1] = h OBVIOUS
  <2>2. \A k \in 1..1 : k = 1 BY SMT
  <2>3. LinesOf(<<h>>) = [k \in 1..1 |-> h.msg] BY <2>1, <2>2 DEF LinesOf
  <2> QED BY <2>3
<1> QED BY <1>1, <1>2, <1>3

\* The texts of lines that are put together, of lines that are all texts, and of lines
\* without one.
LEMMA TextsOfFacts ==
    ASSUME NEW S
    PROVE  /\ \A s, t \in Seq(S) : TextsOf(s \o t) = TextsOf(s) \o TextsOf(t)
           /\ S \subseteq AnyText => \A s \in Seq(S) : TextsOf(s) = s
           /\ S \cap AnyText = {} => \A s \in Seq(S) : TextsOf(s) = <<>>
           /\ \A s \in Seq(S) : TextsOf(s) \in Seq(AnyText)
<1>1. \A s, t \in Seq(S) : TextsOf(s \o t) = TextsOf(s) \o TextsOf(t)
  BY FilterConcat DEF TextsOf
<1>2. S \subseteq AnyText => \A s \in Seq(S) : TextsOf(s) = s BY FilterPure DEF TextsOf
<1>3. S \cap AnyText = {} => \A s \in Seq(S) : TextsOf(s) = <<>> BY FilterPure DEF TextsOf
<1>4. ASSUME NEW s \in Seq(S) PROVE TextsOf(s) \in Seq(AnyText)
  <2> DEFINE t == TextsOf(s)
  <2>1. t \in Seq(S \cap AnyText) BY FilterType DEF TextsOf
  <2> HIDE DEF t
  <2>2. t \in Seq(AnyText) BY <2>1, SeqMonotonic
  <2> QED BY <2>2 DEF t
<1> QED BY <1>1, <1>2, <1>3, <1>4

\* What comes after some lines adds its texts to theirs.
LEMMA TextsExtended ==
    ASSUME NEW S, NEW T, S \cap AnyText \subseteq T, NEW s \in Seq(S), NEW q \in Seq(S)
    PROVE  /\ TextsOf(s) \in Seq(T) /\ TextsOf(q) \in Seq(T)
           /\ TextsOf(s \o q) = TextsOf(s) \o TextsOf(q) /\ AddsTo(T, TextsOf(s), TextsOf(q))
<1> DEFINE a == TextsOf(s)
           t == TextsOf(q)
           U == S \cap AnyText
<1>1. a \in Seq(U) /\ t \in Seq(U) BY FilterType DEF TextsOf
<1>2. U \subseteq T OBVIOUS
<1>3. TextsOf(s \o q) = a \o t BY TextsOfFacts
<1> HIDE DEF a, t, U
<1>4. a \in Seq(T) /\ t \in Seq(T) BY <1>1, <1>2, SeqMonotonic
<1>5. AddsTo(T, a, t) BY <1>4, ConcatBoth
<1> QED BY <1>3, <1>4, <1>5 DEF a, t

(***************************************************************************)
(* The status that was told last.                                          *)
(***************************************************************************)
About(m, u) == m.type = "status" /\ m.user = u

\* The last line of s about u is m.
Latest(s, u, m) ==
    \E k \in 1..Len(s) : s[k] = m /\ About(m, u) /\ \A j \in 1..Len(s) : About(s[j], u) => j <= k

\* Lines that are not about u leave its latest status; lines that are replace it.
LEMMA LatestAppended ==
    ASSUME NEW S, NEW s \in Seq(S), NEW p \in Seq(S), NEW u, NEW m
    PROVE  /\ Latest(s, u, m) /\ (\A k \in 1..Len(p) : ~About(p[k], u)) => Latest(s \o p, u, m)
           /\ Latest(p, u, m) => Latest(s \o p, u, m)
<1> DEFINE t == s \o p
           a == Len(s)
           b == Len(p)
<1>1. a \in Nat /\ b \in Nat BY LenProperties
<1>2. Len(t) = a + b /\ \A k \in 1..(a + b) : t[k] = IF k <= a THEN s[k] ELSE p[k - a]
  BY ConcatProperties
<1> HIDE DEF t
<1>3. ASSUME Latest(s, u, m), \A k \in 1..Len(p) : ~About(p[k], u) PROVE Latest(t, u, m)
  <2>1. PICK k \in 1..a : s[k] = m /\ About(m, u) /\ \A j \in 1..a : About(s[j], u) => j <= k
    BY <1>3 DEF Latest
  <2>2. k \in 1..(a + b) /\ t[k] = m BY <1>1, <1>2, <2>1
  <2>3. ASSUME NEW j \in 1..(a + b), About(t[j], u) PROVE j <= k
    <3>1. j <= a
      <4>1. ASSUME ~(j <= a) PROVE FALSE
        <5>1. j - a \in 1..b /\ t[j] = p[j - a] BY <1>1, <1>2, <4>1
        <5> QED BY <1>3, <2>3, <5>1
      <4> QED BY <4>1
    <3>2. j \in 1..a /\ t[j] = s[j] BY <1>1, <1>2, <3>1
    <3> QED BY <2>1, <2>3, <3>2
  <2> QED BY <1>2, <2>1, <2>2, <2>3 DEF Latest
<1>4. ASSUME Latest(p, u, m) PROVE Latest(t, u, m)
  <2>1. PICK k \in 1..b : p[k] = m /\ About(m, u) /\ \A j \in 1..b : About(p[j], u) => j <= k
    BY <1>4 DEF Latest
  <2>2. a + k \in 1..(a + b) /\ ~(a + k <= a) /\ a + k - a = k BY <1>1
  <2>3. t[a + k] = m BY <1>2, <2>1, <2>2
  <2>4. ASSUME NEW j \in 1..(a + b), About(t[j], u) PROVE j <= a + k
    <3>1. CASE j <= a BY <1>1, <3>1
    <3>2. CASE ~(j <= a)
      <4>1. j - a \in 1..b /\ t[j] = p[j - a] BY <1>1, <1>2, <3>2
      <4>2. j - a <= k BY <2>1, <2>4, <4>1
      <4> QED BY <1>1, <4>2
    <3> QED BY <3>1, <3>2
  <2> QED BY <1>2, <2>1, <2>2, <2>3, <2>4 DEF Latest
<1> QED BY <1>3, <1>4 DEF t

\* A line of its own is the latest of its user.
LEMMA LatestOne ==
    ASSUME NEW u, NEW m, About(m, u)
    PROVE  Latest(<<m>>, u, m)
<1> DEFINE t == <<m>>
<1>1. Len(t) = 1 /\ t[1] = m OBVIOUS
<1> HIDE DEF t
<1>2. 1 \in 1..Len(t) /\ \A j \in 1..Len(t) : j <= 1 BY <1>1
<1>3. Latest(t, u, m) BY <1>1, <1>2 DEF Latest
<1> QED BY <1>3 DEF t

\* A client that introduces itself is told of every known user (data_manager.cpp:72-84).
LEMMA LatestKnown ==
    ASSUME NEW map, IsMap(map), NEW u \in DOMAIN map
    PROVE  Latest(KnownStatuses(map), u, UserStatus(map, u))
<1> DEFINE told  == KnownStatuses(map)
           D     == DOMAIN map
           known == Filter(UserOrder, D)
           K     == {k \in 1..Len(told) : About(told[k], u)}
<1>1. /\ told \in Seq(Statuses)
      /\ \A k \in 1..Len(told) : \E v \in DOMAIN map : told[k] = UserStatus(map, v)
  BY StatusTypes
<1>2. PICK j \in 1..Len(known) : known[j] = u
  <2>1. u \in Users /\ u \in D BY DEF IsMap
  <2>2. PICK k \in DOMAIN UserOrder : UserOrder[k] = u BY <2>1 DEF Users
  <2>3. UserOrder \in Seq(Users) /\ k \in 1..Len(UserOrder)
    BY <2>2, NamesAssumption, LenProperties
  <2> HIDE DEF D
  <2> QED BY <2>1, <2>2, <2>3, FilterHas
<1>3. DOMAIN known = 1..Len(known) /\ Len(known) \in Nat
  <2> HIDE DEF D
  <2>1. known \in Seq(Users \cap D) BY NamesAssumption, FilterType
  <2> HIDE DEF known
  <2> QED BY <2>1, LenProperties
<1>4. Len(told) = Len(known) /\ told[j] = UserStatus(map, u)
  <2> DEFINE g == [k \in 1..Len(known) |-> UserStatus(map, known[k])]
  <2>1. told = g BY <1>3 DEF KnownStatuses
  <2>2. g[j] = UserStatus(map, u) BY <1>2
  <2>3. DOMAIN g = 1..Len(known) OBVIOUS
  <2> HIDE DEF g, told
  <2>4. DOMAIN told = 1..Len(told) /\ Len(told) \in Nat BY <1>1, LenProperties
  <2> HIDE DEF known
  <2> QED BY <1>3, <2>1, <2>2, <2>3, <2>4
<1> HIDE DEF told, known, D
<1>5. K \in SUBSET (1..Len(told)) /\ j \in K
  BY <1>2, <1>4, StatusParts DEF About
<1>6. Len(told) \in Nat BY <1>1, LenProperties
<1> HIDE DEF K
<1>7. PICK k \in K : \A l \in K : l <= k BY <1>5, <1>6, Greatest
<1>8. k \in 1..Len(told) /\ About(told[k], u) BY <1>7 DEF K
<1>9. PICK v \in DOMAIN map : told[k] = UserStatus(map, v) BY <1>1, <1>8
<1>10. v = u BY <1>8, <1>9, StatusParts DEF About
<1>11. \A l \in 1..Len(told) : About(told[l], u) => l <= k BY <1>7 DEF K
<1>12. Latest(told, u, UserStatus(map, u)) BY <1>8, <1>9, <1>10, <1>11 DEF Latest
<1> QED BY <1>12 DEF told

=============================================================================
